------------------------------- MODULE Portable -------------------------------
(***************************************************************************)
(* Carrying namespaces out of a process: export() makes an envelope of     *)
(* those it names, adopt() checks one and opens a block for each namespace *)
(* in it, and set_codec() changes, for everybody and at any moment, how    *)
(* values JSON cannot hold cross.  Both ends are in one program here, and  *)
(* an envelope may be adopted by reference and any number of times.        *)
(*                                                                         *)
(* A call takes one step per namespace.  A codec's half for one codec is a *)
(* function of values: it renders Opaque as a scalar of its own, or reads  *)
(* that back.  It may raise as well.                                       *)
(***************************************************************************)
EXTENDS Views

CONSTANTS
    Codecs,        \* what either half of set_codec() may name
    Coded,         \* Coded[c]: the scalar codec c carries Opaque in
    Foreign,       \* payloads other programs wrote
    MaxCalls,      \* bound: export() and adopt() calls
    MaxEnvelopes   \* bound: envelopes exported

Codec == Codecs \cup {None}
ASSUME CodedAssumption == None \notin Codecs /\ Coded \in [Codecs -> Scalars]
ASSUME CallsAssumption == MaxCalls \in Nat /\ MaxEnvelopes \in Nat

\* A namespace as it travels, None where a payload has none of that name.  What
\* the containers among them held is what `was' is for: the values the namespace
\* had when it was exported, its containers by their contents (history).
Carried == [Names -> Space \cup {None}]
Deep == [Attrs -> Content \cup {Absent} \cup [holds : Content]]
ASSUME HoldsAssumption == Content \cap [holds : Content] = {}
Envelope == [v : Nat, ctx : Carried, via : [Names -> Codec], was : [Names -> Deep \cup {None}]]
ASSUME ForeignAssumption ==
    /\ None \notin Space
    /\ Foreign \subseteq [v : Nat, ctx : Carried, via : {[n \in Names |-> None]},
                          was : {[n \in Names |-> None]}]
    /\ \A f \in Foreign : \A n \in Names :
           f.ctx[n] # None => \A a \in Attrs : f.ctx[n][a] \in Content \cup {Absent}
\* _VERSION
Version == 1

VARIABLES
    codec,         \* the process-wide codec, its two halves
    envelopes,     \* what was exported
    call,          \* call[t]: the export() or adopt() task t is in
    calls          \* how many began

portable == <<views, codec, envelopes, call, calls>>

\* A call: its number, the names it was asked for and those it has still to go
\* through, the half of the codec it read, the payload it adopts, what it built, and
\* through which codec (history).
Call == [step : {"idle", "export", "adopt", "open"}, nr : Nat,
         names : SUBSET Names, left : SUBSET Names,
         codec : Codec, payload : Envelope \cup {None}, built : Carried,
         via : [Names -> Codec], was : [Names -> Deep \cup {None}]]
Nothing == [n \in Names |-> None]
Idle == [step |-> "idle", nr |-> 0, names |-> {}, left |-> {}, codec |-> None, payload |-> None,
         built |-> Nothing, via |-> Nothing, was |-> Nothing]

TypeOK ==
    /\ ViewsTypeOK
    /\ codec \in [dump : Codec, load : Codec]
    /\ envelopes \in Seq(Envelope)
    /\ call \in [Tasks -> Call]
    /\ calls \in 0..MaxCalls

Init ==
    /\ ViewsInit
    /\ codec = [dump |-> None, load |-> None]
    /\ envelopes = <<>>
    /\ call = [t \in Tasks |-> Idle]
    /\ calls = 0

-----------------------------------------------------------------------------
(* Values. *)

\* A namespace with its containers by their contents.
DeepOf(space) ==
    [a \in Attrs |-> IF space[a] \in DOMAIN boxes THEN [holds |-> boxes[space[a]]] ELSE space[a]]

\* What every value has to be: a scalar, or a container of scalars.
IsPortable(space) ==
    \A a \in Attrs : DeepOf(space)[a] \notin {Opaque, [holds |-> Opaque]}

BoxAttrs(space) == {a \in Attrs : space[a] \in DOMAIN boxes}

\* Mutant: containers are referenced.
Referenced(space, nr, n) == space

\* Every container is built anew, by call nr for name n.
Rebuilt(space, nr, n) ==
    [a \in Attrs |-> IF a \in BoxAttrs(space) THEN <<nr, n, a>> ELSE space[a]]

Built(space, nr, n) ==
    LET ids == {<<nr, n, a>> : a \in BoxAttrs(space)}
    IN  [i \in DOMAIN boxes \cup ids |-> IF i \in ids THEN boxes[space[i[3]]] ELSE boxes[i]]

Dumped(c, space) ==
    [a \in Attrs |-> IF c # None /\ space[a] = Opaque THEN Coded[c] ELSE space[a]]

\* Mutant: what the load half returned is dropped.
LoadedDropped(c, space) == space

Loaded(c, space) ==
    [a \in Attrs |-> IF c # None /\ space[a] = Coded[c] THEN Opaque ELSE space[a]]

-----------------------------------------------------------------------------
(* The codec. *)

SetCodec(dump, load) ==
    /\ codec # [dump |-> dump, load |-> load]
    /\ codec' = [dump |-> dump, load |-> load]
    /\ by' = None
    /\ UNCHANGED <<spaces, boxes, entries, stack, active, expired, envelopes, call, calls>>

\* Mutant: the half is read again for every namespace.
HalfNow(t) == IF call[t].step = "export" THEN codec.dump ELSE codec.load

\* The half read as the call began.
Half(t) == call[t].codec

Begin(t, job) ==
    /\ call[t] = Idle /\ ~Leaving(t)
    /\ calls < MaxCalls
    /\ calls' = calls + 1
    /\ call' = [call EXCEPT ![t] = job]
    /\ by' = None
    /\ UNCHANGED <<spaces, boxes, entries, stack, active, expired, codec, envelopes>>

\* A refusal, or what a hook raised, leaves the call; what it built is garbage.
Fail(t) ==
    /\ call' = [call EXCEPT ![t] = Idle]
    /\ boxes' = Restrict(boxes, {i \in DOMAIN boxes : i[1] # call[t].nr})
    /\ by' = None
    /\ UNCHANGED <<spaces, entries, stack, active, expired, codec, envelopes, calls>>

-----------------------------------------------------------------------------
(* export(). *)

Export(t, names) ==
    Begin(t, [Idle EXCEPT !.step = "export", !.nr = calls + 1, !.names = names, !.left = names,
                          !.codec = codec.dump])

\* Only a namespace travels, and an expired one cannot be read.
Travels(e) == entries[e].prov \notin Instances /\ ~Dead(e)

\* Mutant: the hook is handed the namespace's own attributes.
ExportInPlace(t, n) ==
    LET c == call[t]
        e == Found(t, n)
        space == spaces[entries[e].space]
        out == Dumped(Half(t), space)
    IN  /\ c.step = "export" /\ n \in c.left
        /\ e # 0 /\ Travels(e) /\ IsPortable(out)
        /\ boxes' = Built(out, c.nr, n)
        /\ spaces' = [spaces EXCEPT ![entries[e].space] = out]
        /\ call' = [call EXCEPT ![t] =
               [c EXCEPT !.left = @ \ {n}, !.built[n] = Rebuilt(out, c.nr, n),
                         !.via[n] = Half(t), !.was[n] = DeepOf(space)]]
        /\ by' = None
        /\ UNCHANGED <<entries, stack, active, expired, codec, envelopes, calls>>

ExportName(t, n) ==
    LET c == call[t]
        e == Found(t, n)
        space == spaces[entries[e].space]
        out == Dumped(Half(t), space)
    IN  /\ c.step = "export" /\ n \in c.left
        /\ e # 0 /\ Travels(e) /\ IsPortable(out)
        /\ boxes' = Built(out, c.nr, n)
        /\ call' = [call EXCEPT ![t] =
               [c EXCEPT !.left = @ \ {n}, !.built[n] = Rebuilt(out, c.nr, n),
                         !.via[n] = Half(t), !.was[n] = DeepOf(space)]]
        /\ by' = None
        /\ UNCHANGED <<spaces, entries, stack, active, expired, codec, envelopes, calls>>

ExportFail(t, n) ==
    LET e == Found(t, n) IN
    /\ call[t].step = "export" /\ n \in call[t].left
    /\ (e # 0 /\ Travels(e)) =>
           Half(t) # None \/ ~IsPortable(spaces[entries[e].space])
    /\ Fail(t)

ExportEnd(t) ==
    LET c == call[t] IN
    /\ c.step = "export" /\ c.left = {}
    /\ Len(envelopes) < MaxEnvelopes
    /\ envelopes' = Append(envelopes, [v |-> Version, ctx |-> c.built, via |-> c.via,
                                       was |-> c.was])
    /\ call' = [call EXCEPT ![t] = Idle]
    /\ by' = None
    /\ UNCHANGED <<spaces, boxes, entries, stack, active, expired, codec, calls>>

-----------------------------------------------------------------------------
(* adopt(). *)

\* The version and shape are checked as the call begins.  Names the consumer did
\* not ask for are skipped.
Adopt(t, payload, only) ==
    /\ payload.v = Version
    /\ LET names == {n \in only : payload.ctx[n] # None} IN
          Begin(t, [Idle EXCEPT !.step = "adopt", !.nr = calls + 1, !.names = names,
                                !.left = names, !.codec = codec.load, !.payload = payload])

\* A namespace is checked before the codec sees it.
Accepted(t, n) == IsPortable(call[t].payload.ctx[n])

AdoptName(t, n) ==
    LET c == call[t]
        space == c.payload.ctx[n]
    IN  /\ c.step = "adopt" /\ n \in c.left
        /\ Accepted(t, n)
        /\ boxes' = Built(space, c.nr, n)
        /\ call' = [call EXCEPT ![t] =
               [c EXCEPT !.left = @ \ {n},
                         !.built[n] = Loaded(Half(t), Rebuilt(space, c.nr, n)),
                         !.via[n] = Half(t)]]
        /\ by' = None
        /\ UNCHANGED <<spaces, entries, stack, active, expired, codec, envelopes, calls>>

AdoptFail(t, n) ==
    /\ call[t].step = "adopt" /\ n \in call[t].left
    /\ Half(t) # None \/ ~Accepted(t, n)
    /\ Fail(t)

\* The block is entered once all is checked, and opens a block for each namespace.
AdoptEnter(t) ==
    /\ call[t].step = "adopt" /\ call[t].left = {}
    /\ call' = [call EXCEPT ![t].step = "open"]
    /\ by' = None
    /\ UNCHANGED <<spaces, boxes, entries, stack, active, expired, codec, envelopes, calls>>

\* Mutant: a block for every name, carried or not.
AdoptOpenAll(t, n) ==
    LET c == call[t] IN
    /\ c.step = "open"
    /\ Push(t, [name |-> n, prov |-> None, task |-> t, space |-> Len(entries) + 1, scope |-> 0])
    /\ spaces' = With(spaces, Len(entries) + 1, c.built[n])
    /\ call' = [call EXCEPT ![t].built[n] = None]
    /\ by' = None
    /\ UNCHANGED <<boxes, active, expired, codec, envelopes, calls>>

AdoptOpen(t, n) ==
    LET c == call[t] IN
    /\ c.step = "open" /\ c.built[n] # None
    /\ Push(t, [name |-> n, prov |-> None, task |-> t, space |-> Len(entries) + 1, scope |-> 0])
    /\ spaces' = With(spaces, Len(entries) + 1, c.built[n])
    /\ call' = [call EXCEPT ![t].built[n] = None]
    /\ by' = None
    /\ UNCHANGED <<boxes, active, expired, codec, envelopes, calls>>

AdoptEnd(t) ==
    /\ call[t].step = "open" /\ call[t].built = Nothing
    /\ call' = [call EXCEPT ![t] = Idle]
    /\ by' = None
    /\ UNCHANGED <<spaces, boxes, entries, stack, active, expired, codec, envelopes, calls>>

Calls(t) ==
    \/ \E names \in SUBSET Names \ {{}} : Export(t, names)
    \/ \E n \in Names : ExportName(t, n) \/ ExportFail(t, n)
    \/ ExportEnd(t)
    \/ \E payload \in ToSet(envelopes) \cup Foreign, only \in SUBSET Names :
          Adopt(t, payload, only)
    \/ \E n \in Names : AdoptName(t, n) \/ AdoptFail(t, n) \/ AdoptOpen(t, n)
    \/ AdoptEnter(t)
    \/ AdoptEnd(t)

Next ==
    \/ \E t \in Tasks : call[t] = Idle /\ Blocks(t) /\ UNCHANGED <<codec, envelopes, call, calls>>
    \/ Writes /\ UNCHANGED <<codec, envelopes, call, calls>>
    \/ \E t \in Tasks : Calls(t)
    \/ \E dump \in Codec, load \in Codec : SetCodec(dump, load)

Spec == Init /\ [][Next]_portable

-----------------------------------------------------------------------------
(* What a boundary promises. *)

BoxesIn(carried) ==
    {carried[n][a] : n \in {m \in Names : carried[m] # None}, a \in Attrs} \cap Ids

\* No container is in an envelope and in a namespace, or in two calls' results: a
\* write to a provider never reaches an envelope already handed on, nor does a write
\* below adopt() reach the payload.
EnvelopeApart ==
    /\ \A k \in DOMAIN envelopes :
          /\ BoxesIn(envelopes[k].ctx) \cap Held = {}
          /\ \A t \in Tasks : BoxesIn(envelopes[k].ctx) \cap BoxesIn(call[t].built) = {}
    /\ \A t \in Tasks : BoxesIn(call[t].built) \cap Held = {}

\* However often the codec changes under it, a call uses one.
OneCodec ==
    /\ \A k \in DOMAIN envelopes : \A m, n \in Names :
          envelopes[k].ctx[m] # None /\ envelopes[k].ctx[n] # None =>
              envelopes[k].via[m] = envelopes[k].via[n]
    /\ \A t \in Tasks : \A m, n \in Names :
          call[t].built[m] # None /\ call[t].built[n] # None =>
              call[t].via[m] = call[t].via[n]

\* What adopt() is about to open is what was exported, when the codec is the same,
\* whatever was written in between.  A value that looks coded is the codec's affair.
ArrivesAsItself ==
    \A t \in Tasks : call[t].step \in {"adopt", "open"} =>
        \A n \in Names :
            LET was == call[t].payload.was[n] IN
            /\ call[t].built[n] # None /\ was # None
            /\ call[t].via[n] = call[t].payload.via[n]
            /\ \A a \in Attrs, c \in Codecs : was[a] # Coded[c]
            => DeepOf(call[t].built[n]) = was

\* "A load runs after the payload has been checked, never before, so a malformed one
\* is refused without reaching the codec at all", says set_codec().
MalformedStaysOutside ==
    \A t \in Tasks :
        /\ call[t].step = "adopt" /\ call[t].codec # None
        /\ \E n \in call[t].names : ~IsPortable(call[t].payload.ctx[n])
        => call[t].built = Nothing
=============================================================================
