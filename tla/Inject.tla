------------------------------- MODULE Inject -------------------------------
(***************************************************************************)
(* @inject: the wrapper it compiles for a function, the plan it puts off   *)
(* to the first call where a hint names something defined later, and what  *)
(* a call does, lookup by lookup, while other threads make the same first  *)
(* call.  What the context answers, and which attributes that has, is left *)
(* open at each lookup: a default's factory makes a new instance each time *)
(* and runs code of its own.                                               *)
(***************************************************************************)
EXTENDS Naturals, Sequences, FiniteSets

CONSTANTS
    Threads,
    Functions,
    Params,      \* Params[f]: the parameters of f, in order
    ByName,      \* functions decorated with from_
    Forward,     \* functions with a hint that names something defined later
    Mentions     \* those with an annotation left a string that spells FromCtx or from_ctx

\* A parameter's kind, its own default, its marker (a key that hands over the instance,
\* one whose attribute is read, or a ref, which tells once it resolves), and whether it
\* is named self or cls.
Param == [self : BOOLEAN, kind : {"positional", "keyword"}, default : {"required", "own", "injected"},
          marker : {"none", "whole", "attr", "ref"}]
Indexes(f) == 1..Len(Params[f])

ASSUME FunctionsAssumption ==
    /\ ByName \subseteq Functions /\ Mentions \subseteq Forward /\ Forward \subseteq Functions
    /\ Params \in [Functions -> Seq(Param)]
\* What the function's own def statement accepted.
ASSUME SignatureAssumption ==
    \A f \in Functions : \A i, j \in Indexes(f) : i < j =>
        /\ Params[f][i].kind = "keyword" => Params[f][j].kind = "keyword"
        /\ Params[f][j].kind = "positional" /\ Params[f][j].default = "required"
             => Params[f][i].default = "required"

-----------------------------------------------------------------------------
(* The plan and the wrapper's header. *)

Marked(f) == {i \in Indexes(f) : Params[f][i].marker # "none"}
FromNames(f) == IF f \in ByName THEN {i \in Indexes(f) \ Marked(f) : ~Params[f][i].self} ELSE {}
FromRequired(f) == {i \in FromNames(f) : Params[f][i].default = "required"}
Injectable(f) == Marked(f) \cup FromNames(f)
Empty(f) == Marked(f) = {} /\ f \notin ByName

\* Functions that ask for injection where nothing tells before their hints resolve: the
\* marker is behind an alias, or was evaluated beside an annotation that is a string.
Overlooked == {f \in Forward \ (ByName \cup Mentions) : Marked(f) # {}}

\* A def statement wants a default for a positional that follows one.
Defaulted(f, i) == \E j \in 1..i - 1 : j \in Injectable(f) \/ Params[f][j].default # "required"
Missing(f) ==
    {i \in Indexes(f) \ Injectable(f) :
        /\ Params[f][i].kind = "positional" /\ Params[f][i].default = "required"
        /\ Defaulted(f, i)}
Header(f) == [i \in Indexes(f) |-> IF i \in Injectable(f) \cup Missing(f) THEN "injected"
                                   ELSE Params[f][i].default]
Own(f) == [i \in Indexes(f) |-> Params[f][i].default]

-----------------------------------------------------------------------------

VARIABLES
    defined,   \* whether the names of the forward references exist by now
    returned,  \* returned[f]: what @inject returned, or "undecorated"
    impl,      \* impl[f]: what a deferred wrapper dispatches to, or "none"
    call       \* call[t]: t's call, or Idle

vars == <<defined, returned, impl, call>>

\* An argument.  `from' counts the lookups of its call, the one that found it last.
Value == [is : {"given", "own", "required", "injected", "instance", "attribute"}, from : Nat]
Bare(is) == [is |-> is, from |-> 0]
Injected == Bare("injected")

Idle == [step |-> "idle"]
Errors == {"missing", "nameless", "miss", "no_attribute", "unmet"}
Steps == {"dispatch", "build", "store", "markers", "names", "body"} \cup Errors
\* `given' are the parameters the caller passed, `at' the next to fill, `source' the
\* lookup by-name fills read from, and `built' the plan a first call made.
Call == [step : Steps, f : Functions, given : SUBSET Nat, args : Seq(Value), at : Nat,
         lookups : Nat, source : Nat, unmet : SUBSET Nat, built : {"func", "wrapper"}]

TypeOK ==
    /\ defined \in BOOLEAN
    /\ returned \in [Functions -> {"undecorated", "func", "wrapper", "deferred"}]
    /\ impl \in [Functions -> {"none", "func", "wrapper"}]
    /\ DOMAIN call = Threads
    /\ \A t \in Threads : call[t] = Idle \/
          /\ call[t] \in Call
          /\ call[t].given \cup call[t].unmet \subseteq Indexes(call[t].f)
          /\ call[t].step \notin {"dispatch", "build", "store", "nameless"} =>
                Len(call[t].args) = Len(Params[call[t].f])

Init ==
    /\ defined = FALSE
    /\ returned = [f \in Functions |-> "undecorated"]
    /\ impl = [f \in Functions |-> "none"]
    /\ call = [t \in Threads |-> Idle]

-----------------------------------------------------------------------------
(* Decoration. *)

\* The module that binds the names of the forward references is imported.
Define ==
    /\ ~defined
    /\ defined' = TRUE
    /\ UNCHANGED <<returned, impl, call>>

Plan(f) == IF Empty(f) THEN "func" ELSE "wrapper"

\* _decorate(), for the functions of a module as it is imported.
Decorate ==
    /\ \E f \in Functions : returned[f] = "undecorated"
    /\ returned' = [f \in Functions |-> IF f \in Forward /\ ~defined THEN "deferred" ELSE Plan(f)]
    /\ UNCHANGED <<defined, impl, call>>

-----------------------------------------------------------------------------
(* A call. *)

Begin(t, f, given) ==
    /\ call[t] = Idle /\ returned[f] # "undecorated"
    /\ call' = [call EXCEPT ![t] =
                  [step |-> "dispatch", f |-> f, given |-> given, args |-> <<>>, at |-> 1,
                   lookups |-> 0, source |-> 0, unmet |-> {}, built |-> "func"]]
    /\ UNCHANGED <<defined, returned, impl>>

\* Mutant: nothing is guarded.
BindUnguarded(c, target) ==
    LET defaults == IF target = "func" THEN Own(c.f) ELSE Header(c.f)
        args == [i \in Indexes(c.f) |-> Bare(IF i \in c.given THEN "given" ELSE defaults[i])]
    IN  [c EXCEPT !.args = args,
                  !.step = IF \E i \in Indexes(c.f) : args[i].is = "required" THEN "missing"
                           ELSE IF target = "func" THEN "body" ELSE "markers"]

\* Mutant: an argument is there only if it was passed.
BindPassed(c, target) ==
    [c EXCEPT !.args = [i \in c.given |-> Bare("given")],
              !.step = IF target = "func" THEN "body" ELSE "markers"]

\* The interpreter binds the arguments to func's signature or to the header; what
\* the header had to default is guarded before anything resolves.
Bind(c, target) ==
    LET defaults == IF target = "func" THEN Own(c.f) ELSE Header(c.f)
        args == [i \in Indexes(c.f) |-> Bare(IF i \in c.given THEN "given" ELSE defaults[i])]
    IN  [c EXCEPT !.args = args,
                  !.step = IF \/ \E i \in Indexes(c.f) : args[i].is = "required"
                              \/ target = "wrapper" /\ \E i \in Missing(c.f) : args[i] = Injected
                           THEN "missing"
                           ELSE IF target = "func" THEN "body" ELSE "markers"]

\* What the caller holds, or the impl that a deferred wrapper finds.
Target(f) == IF returned[f] = "deferred" THEN impl[f] ELSE returned[f]

Dispatch(t) ==
    /\ call[t].step = "dispatch"
    /\ call' = [call EXCEPT ![t] = IF Target(@.f) = "none" THEN [@ EXCEPT !.step = "build"]
                                   ELSE Bind(@, Target(@.f))]
    /\ UNCHANGED <<defined, returned, impl>>

\* Mutant: only by-name mode asks.
AsksByName(f) == f \in ByName
\* A plan that cannot be built is an error where the function is seen to ask for
\* injection; any other function is called as it is, from then on.
Asks(f) == f \in ByName \cup Mentions

Build(t) ==
    LET c == call[t]
    IN  /\ c.step = "build"
        /\ call' = [call EXCEPT ![t] =
                      IF ~defined /\ Asks(c.f) THEN [c EXCEPT !.step = "nameless"]
                      ELSE [c EXCEPT !.step = "store",
                                     !.built = IF defined THEN Plan(c.f) ELSE "func"]]
        /\ UNCHANGED <<defined, returned, impl>>

Store(t) ==
    /\ call[t].step = "store"
    /\ impl' = [impl EXCEPT ![call[t].f] = call[t].built]
    /\ call' = [call EXCEPT ![t] = Bind(@, @.built)]
    /\ UNCHANGED <<defined, returned>>

Filled(c, i, value) == [c EXCEPT !.args[i] = value, !.at = i + 1]
\* Mutant: a parameter is filled whether it was passed or not.
PendingBound(c, among) == {i \in among : i >= c.at /\ \A j \in among : c.at <= j => i <= j}
\* The parameter to fill next: the wrapper goes through them in order and passes
\* over those that are bound.
Pending(c, among) ==
    {i \in among : /\ i >= c.at /\ c.args[i] = Injected
                   /\ \A j \in among : c.at <= j /\ j < i => c.args[j] # Injected}

\* _marker_lines(): one lookup for each marked parameter still to fill.
Marker(t) ==
    LET c == call[t]
        found == c.lookups + 1
    IN  /\ c.step = "markers"
        /\ \E i \in Pending(c, Marked(c.f)) :
              \/ call' = [call EXCEPT ![t].step = "miss"]
              \/ /\ Params[c.f][i].marker \in {"whole", "ref"}
                 /\ call' = [call EXCEPT ![t] =
                               [Filled(c, i, [is |-> "instance", from |-> found])
                                 EXCEPT !.lookups = found]]
              \/ /\ Params[c.f][i].marker \in {"attr", "ref"}
                 /\ call' = [call EXCEPT ![t] =
                               [Filled(c, i, [is |-> "attribute", from |-> found])
                                 EXCEPT !.lookups = found]]
              \/ /\ Params[c.f][i].marker \in {"attr", "ref"}
                 /\ call' = [call EXCEPT ![t].step = "no_attribute"]
        /\ UNCHANGED <<defined, returned, impl>>

MarkersDone(t) ==
    /\ call[t].step = "markers" /\ Pending(call[t], Marked(call[t].f)) = {}
    /\ call' = [call EXCEPT ![t].step = "names", ![t].at = 1]
    /\ UNCHANGED <<defined, returned, impl>>

\* Mutant: each by-name parameter looks its source up again.
SourceAfresh(c) == c.lookups + 1
\* By-name fills fetch their source once, at the first that needs it.
Source(c) == IF c.source = 0 THEN c.lookups + 1 ELSE c.source

\* _by_name_lines(): an attribute the source lacks leaves the parameter its own
\* default, or unmet.
Name(t) ==
    LET c == call[t]
        source == Source(c)
        fetched == [c EXCEPT !.source = source,
                             !.lookups = IF source > c.lookups THEN source ELSE @]
    IN  /\ c.step = "names"
        /\ \E i \in Pending(c, FromNames(c.f)) :
              \/ c.source = 0 /\ call' = [call EXCEPT ![t].step = "miss"]
              \/ call' = [call EXCEPT ![t] =
                            Filled(fetched, i, [is |-> "attribute", from |-> source])]
              \/ /\ i \in FromRequired(c.f)
                 /\ call' = [call EXCEPT ![t] = [fetched EXCEPT !.unmet = @ \cup {i}, !.at = i + 1]]
              \/ /\ i \notin FromRequired(c.f)
                 /\ call' = [call EXCEPT ![t] = Filled(fetched, i, Bare(Params[c.f][i].default))]
        /\ UNCHANGED <<defined, returned, impl>>

\* Mutant: the first unmet parameter ends the call.
NamesDoneEarly(t) ==
    /\ call[t].step = "names"
    /\ Pending(call[t], FromNames(call[t].f)) = {} \/ call[t].unmet # {}
    /\ call' = [call EXCEPT ![t].step = IF call[t].unmet = {} THEN "body" ELSE "unmet"]
    /\ UNCHANGED <<defined, returned, impl>>

NamesDone(t) ==
    /\ call[t].step = "names" /\ Pending(call[t], FromNames(call[t].f)) = {}
    /\ call' = [call EXCEPT ![t].step = IF call[t].unmet = {} THEN "body" ELSE "unmet"]
    /\ UNCHANGED <<defined, returned, impl>>

End(t) ==
    /\ call[t].step \in {"body"} \cup Errors
    /\ call' = [call EXCEPT ![t] = Idle]
    /\ UNCHANGED <<defined, returned, impl>>

Next ==
    \/ Define
    \/ Decorate
    \/ \E t \in Threads :
        \/ \E f \in Functions : \E given \in SUBSET Indexes(f) : Begin(t, f, given)
        \/ Dispatch(t) \/ Build(t) \/ Store(t)
        \/ Marker(t) \/ MarkersDone(t) \/ Name(t) \/ NamesDone(t) \/ End(t)

Spec == Init /\ [][Next]_vars

-----------------------------------------------------------------------------
(* Properties. *)

Busy == {t \in Threads : call[t] # Idle}
InBody == {t \in Busy : call[t].step = "body"}

\* The sentinel reaches a body only as the default a parameter was written with, in
\* place of an injection only where the marker was overlooked, whichever thread's plan a
\* first call ended up with.
NoSentinelInBody ==
    \A t \in InBody : \A i \in DOMAIN call[t].args :
        call[t].args[i] = Injected =>
            /\ Params[call[t].f][i].default = "injected"
            /\ i \in Marked(call[t].f) => call[t].f \in Overlooked

\* What the caller passed is what the body gets, through every fill.
ExplicitWins ==
    \A t \in InBody : \A i \in call[t].given : call[t].args[i] = Bare("given")

\* The undecorated function, its injectable parameters optional, would refuse.
Refused(c) ==
    \E i \in Indexes(c.f) \ (Injectable(c.f) \cup c.given) : Params[c.f][i].default = "required"

\* Called as it is, an overlooked function wants its marked parameters passed as well.
RefusedBare(c) ==
    c.f \in Overlooked /\ \E i \in Marked(c.f) \ c.given : Params[c.f][i].default = "required"

\* A call that lacks an argument fails as the undecorated function does, before
\* anything is resolved, and no other call does.
UnderSuppliedFailsFirst ==
    \A t \in Busy :
        /\ call[t].step \in {"markers", "names", "body", "miss", "no_attribute", "unmet"} =>
              ~Refused(call[t])
        /\ call[t].step = "missing" =>
              (Refused(call[t]) \/ RefusedBare(call[t])) /\ call[t].lookups = 0

\* By-name parameters come out of one instance, also where a default's factory
\* makes a new one at each lookup.
OneSource ==
    \A t \in Busy : \A i, j \in FromNames(call[t].f) \cap DOMAIN call[t].args :
        call[t].args[i].is = "attribute" /\ call[t].args[j].is = "attribute" =>
            call[t].args[i].from = call[t].args[j].from

\* The error for required parameters the context could not fill comes after every
\* fill, and names them all.
UnmetIsComplete ==
    \A t \in Busy : call[t].step = "unmet" =>
        \A i \in FromNames(call[t].f) :
            \/ i \in call[t].unmet \cap FromRequired(call[t].f)
            \/ call[t].args[i].is \in {"given", "attribute", "own"}
            \/ Params[call[t].f][i].default = "injected"
=============================================================================
