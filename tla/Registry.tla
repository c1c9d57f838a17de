------------------------------ MODULE Registry ------------------------------
(***************************************************************************)
(* The provider registry: one ContextVar holding an immutable mapping, and *)
(* the provider() blocks that install a mapping on entry and take their    *)
(* key out of it on exit.                                                  *)
(*                                                                         *)
(* An execution context is a contextvars.Context: the one of a thread, a   *)
(* task, an Executor call or a wrap()ped call.  A block is one _Provider   *)
(* object; it is reusable, so one block makes many entries.  An entry      *)
(* stands for the value that entry publishes.                              *)
(*                                                                         *)
(* A mapping is never mutated, so it is a value here.  The code also       *)
(* compares mappings by identity, and only ever with one an __enter__      *)
(* built: `by' names the entry that built it.  The chain of open blocks is *)
(* a tuple in entry order.  Entering appends and closing filters, so it    *)
(* stays sorted by entry time and is a set of entries ordered by `at'.     *)
(***************************************************************************)
EXTENDS Naturals

CONSTANTS
    Contexts,     \* execution contexts, those not yet created included
    Root,         \* the context of the main thread
    Keys,         \* registry keys: names and classes
    Blocks,       \* provider objects
    KeyOf,        \* the key each provider object was built for
    Isolates,     \* isolate() blocks
    MaxClock,     \* bound: entries and isolations in a behaviour
    NoEntry,      \* no block: an absent key, a block that is not open
    NoMapping     \* an unset token

ASSUME RootAssumption == Root \in Contexts
ASSUME KeyOfAssumption == KeyOf \in [Blocks -> Keys]
ASSUME ClockAssumption == MaxClock \in Nat

\* One entry of a block: where it happened, inside which isolate() frame, and
\* when.  `home' is the context a contextvars.Token remembers.
Entry == [block : Blocks, home : Contexts, frame : Nat, at : Nat]
Mapping == [by : Entry \cup {NoEntry},
            vals : [Keys -> Entry \cup {NoEntry}],
            chain : SUBSET Entry]

ASSUME NoEntryAssumption == NoEntry \notin Entry
ASSUME NoMappingAssumption == NoMapping \notin Mapping

\* The shared empty default of the ContextVar, and the {} isolate() installs.
Empty == [by |-> NoEntry, vals |-> [k \in Keys |-> NoEntry], chain |-> {}]

VARIABLES
    status,       \* status[c]: "unborn", "live" or "done"
    registry,     \* registry[c]: the mapping _registry holds in context c
    token,        \* token[b]: the mapping _token restores, or NoMapping
    entered,      \* entered[b]: the entry whose mapping _entered is, or NoEntry
    isolation,    \* isolation[i]: what isolate() i saved, or NoMapping
    frame,        \* frame[c]: the isolate() frame c is in (history)
    closed,       \* one record per close so far (history)
    clock         \* the time of the latest entry or isolation

vars == <<status, registry, token, entered, isolation, frame, closed, clock>>

Saved == [ctx : Contexts, mapping : Mapping, frame : Nat]
ASSUME NoSavedAssumption ==
    NoMapping \notin Saved \cup [ctx : Contexts, scope : SUBSET Entry]

Close == [entry : Entry, from : Contexts, frame : Nat, unwound : BOOLEAN]

TypeOK ==
    /\ status \in [Contexts -> {"unborn", "live", "done"}]
    /\ registry \in [Contexts -> Mapping]
    /\ token \in [Blocks -> Mapping \cup {NoMapping}]
    /\ entered \in [Blocks -> Entry \cup {NoEntry}]
    /\ isolation \in [Isolates -> Saved \cup {NoMapping}]
    /\ frame \in [Contexts -> Nat]
    /\ closed \subseteq Close
    /\ clock \in Nat

Init ==
    /\ status = [c \in Contexts |-> IF c = Root THEN "live" ELSE "unborn"]
    /\ registry = [c \in Contexts |-> Empty]
    /\ token = [b \in Blocks |-> NoMapping]
    /\ entered = [b \in Blocks |-> NoEntry]
    /\ isolation = [i \in Isolates |-> NoMapping]
    /\ frame = [c \in Contexts |-> 0]
    /\ closed = {}
    /\ clock = 0

Live(c) == status[c] = "live"
Open(b) == token[b] # NoMapping
Key(e) == KeyOf[e.block]
OfBlock(S, b) == {e \in S : e.block = b}

\* The latest entry of a set of entries: the innermost block of a chain.
Innermost(S) == CHOOSE e \in S : \A f \in S : f.at <= e.at

-----------------------------------------------------------------------------
(* Closing out of order. *)

\* The blocks of the chain that could own the leaving block's key now.
Candidates(m, b) ==
    {e \in m.chain : /\ e.block # b
                     /\ entered[e.block] # NoEntry
                     /\ Key(e) = KeyOf[b]}

\* Mutant: the key is only ever taken out.
RestoredNothing(m, b) == NoEntry

\* Mutant: the provider object is put back, not what it published.
RestoredProvider(m, b) ==
    IF Candidates(m, b) = {} THEN NoEntry ELSE Innermost(Candidates(m, b)).block

\* What the leaving block's key is restored to.  The value is read off the
\* candidate's current _entered, whichever entry put the block on the chain.
Restored(m, b) ==
    IF Candidates(m, b) = {}
    THEN NoEntry
    ELSE entered[Innermost(Candidates(m, b)).block]

\* Mutant: the leaving block's value stays where it is.
RepairedKeepsValue(m, b) ==
    [by |-> NoEntry, vals |-> m.vals, chain |-> m.chain \ OfBlock(m.chain, b)]

\* The current mapping without the leaving block.
Repaired(m, b) ==
    [by |-> NoEntry,
     vals |-> [m.vals EXCEPT ![KeyOf[b]] = Restored(m, b)],
     chain |-> m.chain \ OfBlock(m.chain, b)]

-----------------------------------------------------------------------------
(* Opening and closing a block.  A block closes in whatever context runs   *)
(* its __exit__, which need not be the one that opened it.                 *)

\* Context c enters block b.  An open block refuses with a RuntimeError.
Enter(c, b) ==
    /\ Live(c) /\ ~Open(b)
    /\ clock < MaxClock
    /\ LET m == registry[c]
           e == [block |-> b, home |-> c, frame |-> frame[c], at |-> clock + 1]
       IN  /\ registry' = [registry EXCEPT ![c] =
                  [by |-> e,
                   vals |-> [m.vals EXCEPT ![KeyOf[b]] = e],
                   chain |-> m.chain \cup {e}]]
           /\ token' = [token EXCEPT ![b] = m]
           /\ entered' = [entered EXCEPT ![b] = e]
    /\ clock' = clock + 1
    /\ UNCHANGED <<status, isolation, frame, closed>>

\* What every close does: the token and the installed mapping are dropped
\* first.  A close that did not unwind warns OrphanedProviderWarning.
Leave(c, b, unwound) ==
    /\ Live(c) /\ Open(b)
    /\ token' = [token EXCEPT ![b] = NoMapping]
    /\ entered' = [entered EXCEPT ![b] = NoEntry]
    /\ closed' = closed \cup {[entry |-> entered[b], from |-> c,
                               frame |-> frame[c], unwound |-> unwound]}
    /\ UNCHANGED <<status, isolation, frame, clock>>

\* The context still holds the very mapping the block installed.
Holds(c, b) == registry[c].by = entered[b]

\* Mutant: the token is reset whatever was opened since.
ExitAlwaysResets(c, b) ==
    /\ Leave(c, b, TRUE)
    /\ entered[b].home = c
    /\ registry' = [registry EXCEPT ![c] = token[b]]

\* Ordinary nesting: the token restores the mapping found on entry.
ExitInOrder(c, b) ==
    /\ Leave(c, b, TRUE)
    /\ Holds(c, b) /\ entered[b].home = c
    /\ registry' = [registry EXCEPT ![c] = token[b]]

\* A copied context shares the mapping, and the token refuses to reset there.
ExitRefused(c, b) ==
    /\ Leave(c, b, FALSE)
    /\ Holds(c, b) /\ entered[b].home # c
    /\ UNCHANGED registry

\* Mutant: a repair is not taken for a way to unwind.
ExitRepairedWarns(c, b) ==
    /\ Leave(c, b, FALSE)
    /\ ~Holds(c, b) /\ OfBlock(registry[c].chain, b) # {}
    /\ registry' = [registry EXCEPT ![c] = Repaired(registry[c], b)]

\* Another block was opened on top, so the current mapping is repaired.
ExitRepaired(c, b) ==
    /\ Leave(c, b, TRUE)
    /\ ~Holds(c, b) /\ OfBlock(registry[c].chain, b) # {}
    /\ registry' = [registry EXCEPT ![c] = Repaired(registry[c], b)]

\* This context knows nothing of the block.
ExitAbsent(c, b) ==
    /\ Leave(c, b, FALSE)
    /\ ~Holds(c, b) /\ OfBlock(registry[c].chain, b) = {}
    /\ UNCHANGED registry

Exit(c, b) == ExitInOrder(c, b) \/ ExitRefused(c, b)
                 \/ ExitRepaired(c, b) \/ ExitAbsent(c, b)

-----------------------------------------------------------------------------
(* Execution contexts. *)

\* copy_context(): a task, an Executor.submit() or a wrap() snapshots c.
CopyContext(c, d) ==
    /\ Live(c) /\ status[d] = "unborn"
    /\ status' = [status EXCEPT ![d] = "live"]
    /\ registry' = [registry EXCEPT ![d] = registry[c]]
    /\ UNCHANGED <<token, entered, isolation, frame, closed, clock>>

\* A plain thread starts from an empty context.
StartThread(d) ==
    /\ status[d] = "unborn"
    /\ status' = [status EXCEPT ![d] = "live"]
    /\ UNCHANGED <<registry, token, entered, isolation, frame, closed, clock>>

\* The code running in c is over.  Whatever it left open stays open.
Finish(c) ==
    /\ Live(c)
    /\ status' = [status EXCEPT ![c] = "done"]
    /\ UNCHANGED <<registry, token, entered, isolation, frame, closed, clock>>

\* isolate(): an empty registry until its own token restores the saved one.
IsolateEnter(c, i) ==
    /\ Live(c) /\ isolation[i] = NoMapping
    /\ clock < MaxClock
    /\ isolation' = [isolation EXCEPT ![i] =
           [ctx |-> c, mapping |-> registry[c], frame |-> frame[c]]]
    /\ registry' = [registry EXCEPT ![c] = Empty]
    /\ frame' = [frame EXCEPT ![c] = clock + 1]
    /\ clock' = clock + 1
    /\ UNCHANGED <<status, token, entered, closed>>

IsolateExit(c, i) ==
    /\ Live(c) /\ isolation[i] # NoMapping
    /\ isolation[i].ctx = c
    /\ registry' = [registry EXCEPT ![c] = isolation[i].mapping]
    /\ frame' = [frame EXCEPT ![c] = isolation[i].frame]
    /\ isolation' = [isolation EXCEPT ![i] = NoMapping]
    /\ UNCHANGED <<status, token, entered, closed, clock>>

\* Finished from another context, where the token raises a ValueError.
IsolateRefused(c, i) ==
    /\ Live(c) /\ isolation[i] # NoMapping
    /\ isolation[i].ctx # c
    /\ isolation' = [isolation EXCEPT ![i] = NoMapping]
    /\ UNCHANGED <<status, registry, token, entered, frame, closed, clock>>

Running ==
    \/ \E c \in Contexts, b \in Blocks : Enter(c, b)
    \/ \E c, d \in Contexts : CopyContext(c, d)
    \/ \E c \in Contexts : StartThread(c) \/ Finish(c)
    \/ \E c \in Contexts, i \in Isolates : IsolateEnter(c, i) \/ IsolateExit(c, i)

Next ==
    \/ Running
    \/ \E c \in Contexts, b \in Blocks : Exit(c, b)
    \/ \E c \in Contexts, i \in Isolates : IsolateRefused(c, i)

Spec == Init /\ [][Next]_vars

-----------------------------------------------------------------------------
(* Structured concurrency, the discipline the documentation asks for: a    *)
(* block is closed in the context and the isolate() frame it opened in,    *)
(* after every context that inherited it is over.                          *)

Inherits(c, e) ==
    \/ e \in registry[c].chain
    \/ \E i \in Isolates : /\ isolation[i] # NoMapping
                           /\ isolation[i].ctx = c
                           /\ e \in isolation[i].mapping.chain

ExitStructured(c, b) ==
    /\ Open(b)
    /\ entered[b].home = c
    /\ entered[b].frame = frame[c]
    /\ \A d \in Contexts \ {c} : Live(d) => ~Inherits(d, entered[b])
    /\ Exit(c, b)

StructuredNext == Running \/ \E c \in Contexts, b \in Blocks : ExitStructured(c, b)

StructuredSpec == Init /\ [][StructuredNext]_vars

-----------------------------------------------------------------------------
(* Safety. *)

\* Every value a mapping holds was published, under the key it is found
\* under, by a block on the mapping's own chain.
GhostFree(m) ==
    \A k \in Keys :
        m.vals[k] # NoEntry => /\ Key(m.vals[k]) = k
                               /\ OfBlock(m.chain, m.vals[k].block) # {}

\* A lookup never answers for a block that is gone.  This is what _repaired
\* restoring "only that one" key must keep true.
NoGhost == \A c \in Contexts : GhostFree(registry[c])

OfKey(S, k) == {e \in S : Key(e) = k}

\* The mapping answers k with the innermost of its blocks under k.
AnswersInnermost(m, k) ==
    LET S == OfKey(m.chain, k) IN
    /\ S = {} => m.vals[k] = NoEntry
    /\ S # {} => /\ m.vals[k] \in S
                 /\ \A f \in S : f.at <= m.vals[k].at

\* No block of the mapping's chain under k was closed since it got there.
AllOpen(m, k) == \A e \in OfKey(m.chain, k) : entered[e.block] = e

AnswersOpen(m) == \A k \in Keys : AllOpen(m, k) => AnswersInnermost(m, k)

\* Whatever order blocks closed in, a key answers with the innermost block
\* still open, provided no block under it was closed by somebody else since.
LookupInnermost == \A c \in Contexts : AnswersOpen(registry[c])

\* An open block is never dropped by what its siblings do: in the context and
\* the isolate() frame that opened it, it stays on the chain until it closes.
OpenStaysReachable ==
    \A b \in Blocks :
        Open(b) => LET e == entered[b] IN
                   frame[e.home] = e.frame => e \in registry[e.home].chain

\* OrphanedProviderWarning is never raised for a block closed where it was
\* opened: __exit__ always finds a way to unwind there.
NoFalseOrphan ==
    \A r \in closed :
        r.from = r.entry.home /\ r.frame = r.entry.frame => r.unwound

-----------------------------------------------------------------------------
(* What the documentation says of contexts that close each other's blocks. *)

\* A closed block whose value stays in the context that opened it has been
\* reported by OrphanedProviderWarning (docs/content/ref/provider.rst:19).
NothingLeaksSilently ==
    \A c \in Contexts :
        \A e \in registry[c].chain :
            e.home = c => \/ entered[e.block] = e
                          \/ \E r \in closed : r.entry = e /\ ~r.unwound

-----------------------------------------------------------------------------
(* The registry implements Scoping when blocks are used in a structured    *)
(* way: the chain is the scope, the values are what it shows.              *)

EveryEntry == [block : Blocks, home : Contexts, frame : 0..MaxClock, at : 1..MaxClock]

Scopes == INSTANCE Scoping WITH
    KeyOfEntry <- Key,
    Entry <- EveryEntry,
    NoScope <- NoMapping,
    born <- {c \in Contexts : status[c] # "unborn"},
    scope <- [c \in Contexts |-> registry[c].chain],
    shown <- [c \in Contexts |-> registry[c].vals],
    parked <- [i \in Isolates |->
                  IF isolation[i] = NoMapping THEN NoMapping
                  ELSE [ctx |-> isolation[i].ctx,
                        scope |-> isolation[i].mapping.chain]]

\* Through every repair, reset and copy, each context answers every key with
\* its innermost open block: the code's whole promise (_core.py:1-5).
ImplementsScoping == Scopes!Spec

-----------------------------------------------------------------------------
(* The inductive invariant behind the safety properties.  It speaks of     *)
(* every mapping a step can still install, not only of the current ones.   *)

Held == {registry[c] : c \in Contexts}
          \cup {token[b] : b \in {x \in Blocks : Open(x)}}
          \cup {isolation[i].mapping : i \in {x \in Isolates : isolation[x] # NoMapping}}

\* A block has a token exactly while it has an installed mapping.
Paired ==
    \A b \in Blocks :
        /\ Open(b) <=> entered[b] # NoEntry
        /\ Open(b) => /\ entered[b].block = b
                      /\ entered[b].at <= clock
                      /\ entered[b].frame <= clock
                      /\ status[entered[b].home] # "unborn"

\* Nothing refers to an entry that has not happened yet.
Past ==
    \A m \in Held :
        /\ \A e \in m.chain : e.at <= clock
        /\ m.by # NoEntry => m.by.at <= clock

HeldNoGhost == \A m \in Held : GhostFree(m)
HeldInnermost == \A m \in Held : AnswersOpen(m)

\* The mapping an open block installed adds that block to what its token
\* restores, which is why resetting loses nobody else.
AddsItself ==
    \A m \in Held, b \in Blocks :
        Open(b) /\ m.by = entered[b] => m.chain = token[b].chain \cup {entered[b]}

\* The frames of one context, current and set aside, are different frames.
FramesApart ==
    /\ \A c \in Contexts : frame[c] <= clock
    /\ \A i \in Isolates :
           isolation[i] # NoMapping =>
               /\ status[isolation[i].ctx] # "unborn"
               /\ isolation[i].frame <= clock
               /\ isolation[i].frame # frame[isolation[i].ctx]
               /\ \A j \in Isolates \ {i} :
                      /\ isolation[j] # NoMapping
                      /\ isolation[j].ctx = isolation[i].ctx
                      => isolation[j].frame # isolation[i].frame

\* A block whose frame is set aside is on the chain set aside with it.
SetAsideKeeps ==
    \A b \in Blocks, i \in Isolates :
        /\ Open(b) /\ isolation[i] # NoMapping
        /\ isolation[i].ctx = entered[b].home
        /\ isolation[i].frame = entered[b].frame
        => entered[b] \in isolation[i].mapping.chain

IInv ==
    /\ TypeOK
    /\ Paired
    /\ Past
    /\ HeldNoGhost
    /\ HeldInnermost
    /\ AddsItself
    /\ FramesApart
    /\ SetAsideKeeps
    /\ OpenStaysReachable
    /\ NoFalseOrphan

=============================================================================
