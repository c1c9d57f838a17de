----------------------------- MODULE PortableProof -----------------------------
(***************************************************************************)
(* Proofs about Portable: no container is shared across a boundary, one    *)
(* codec serves a call, and what the views promise holds below adopt() as  *)
(* well.                                                                   *)
(***************************************************************************)
EXTENDS Portable, ViewsProof

IsHeld(i) == \E s \in DOMAIN spaces, a \in Attrs : spaces[s][a] = i

\* The containers of an envelope exist, are held by no namespace, and were built by
\* a call that is over.
Apart(e) ==
    \A n \in Names : e.ctx[n] # None =>
        \A a \in Attrs : e.ctx[n][a] \in Ids =>
            /\ e.ctx[n][a] \in DOMAIN boxes /\ ~ IsHeld(e.ctx[n][a])
            /\ e.ctx[n][a][1] \in 1..calls
            /\ \A t \in Tasks : call[t].step # "idle" => call[t].nr # e.ctx[n][a][1]

OneVia(e) ==
    \A m, n \in Names : e.ctx[m] # None /\ e.ctx[n] # None => e.via[m] = e.via[n]

\* What a call built is known by its number and by the name it was built for, and no
\* namespace holds it before adopt() opens that name's block.
Calling(t) ==
    LET c == call[t] IN
    IF c.step = "idle" THEN c.built = Nothing
    ELSE /\ c.nr \in 1..calls
         /\ \A u \in Tasks \ {t} : call[u].step # "idle" => call[u].nr # c.nr
         /\ \A n \in Names : c.built[n] # None =>
               /\ c.via[n] = c.codec
               /\ \A a \in Attrs : c.built[n][a] \in Ids =>
                     /\ c.built[n][a] \in DOMAIN boxes
                     /\ c.built[n][a][1] = c.nr /\ c.built[n][a][2] = n
         /\ \A i \in Ids : IsHeld(i) /\ i[1] = c.nr => c.step = "open" /\ c.built[i[2]] = None
         /\ c.step = "adopt" =>
               /\ c.payload \in Foreign \/ \E k \in DOMAIN envelopes : envelopes[k] = c.payload
               /\ \A n \in c.left : c.payload.ctx[n] # None

PTypes ==
    /\ codec \in [dump : Codec, load : Codec]
    /\ envelopes \in Seq(Envelope)
    /\ call \in [Tasks -> Call]
    /\ calls \in 0..MaxCalls

Kept ==
    /\ DOMAIN FirstBoxes \subseteq DOMAIN boxes
    /\ \A i \in DOMAIN boxes : i[1] <= calls
    /\ \A i \in Ids : IsHeld(i) => i \in DOMAIN boxes

PInv ==
    /\ VInv /\ PTypes /\ Kept
    /\ \A k \in DOMAIN envelopes : Apart(envelopes[k]) /\ OneVia(envelopes[k])
    /\ \A t \in Tasks : Calling(t)

-----------------------------------------------------------------------------
(* Steps of the views and of the codec. *)

LEMMA Quiet ==
    ASSUME PInv, VInv', PTypes', UNCHANGED <<envelopes, call, calls>>, DOMAIN boxes' = DOMAIN boxes,
           \A i \in Ids : IsHeld(i)' => IsHeld(i) \/ i \in DOMAIN FirstBoxes
    PROVE  PInv'
<1>1. \A i \in DOMAIN FirstBoxes : i[1] = 0 /\ i \in Ids BY LayerAssumption
<1>2. Kept' BY DEF PInv, Kept
<1>3. calls \in Nat BY CallsAssumption DEF PInv, PTypes
<1>4. ASSUME NEW k \in DOMAIN envelopes PROVE Apart(envelopes[k])' /\ OneVia(envelopes[k])'
  BY <1>1, <1>3 DEF PInv, Apart, OneVia
<1>5. ASSUME NEW t \in Tasks PROVE Calling(t)'
  BY <1>1, <1>3 DEF PInv, Calling
<1>6. QED BY <1>2, <1>4, <1>5 DEF PInv

LEMMA OpensHeld ==
    ASSUME PInv, NEW t \in Tasks, NEW p \in Providers, EnterExtending(t, p),
           NEW i \in Ids, IsHeld(i)'
    PROVE  IsHeld(i) \/ i \in DOMAIN FirstBoxes
<1> DEFINE e == Found(t, NameOf[p])
           new == Len(entries) + 1
<1>1. spaces' = With(spaces, new, Merged(p, e)) BY DEF EnterExtending
<1>2. e \in 0..Len(entries) BY FoundIs DEF PInv
<1>3. Layer[p] \in [Attrs -> Content \cup {Absent} \cup DOMAIN FirstBoxes] BY LayerAssumption
<1>4. e # 0 => entries[e].space \in DOMAIN spaces BY <1>2 DEF PInv, VInv, Types, Entered
<1>5. PICK s \in DOMAIN spaces', a \in Attrs : spaces'[s][a] = i BY DEF IsHeld
<1> HIDE DEF e, new
<1>6. CASE s = new
  <2>1. Merged(p, e)[a] = i BY <1>1, <1>5, <1>6 DEF With
  <2>2. CASE e = 0 \/ Layer[p][a] # Absent
    BY <1>3, <2>1, <2>2, AtomsAssumption DEF Merged
  <2>3. CASE ~ (e = 0 \/ Layer[p][a] # Absent) BY <1>4, <2>1, <2>3 DEF Merged, IsHeld
  <2>4. QED BY <2>2, <2>3
<1>7. CASE s # new BY <1>1, <1>5, <1>7 DEF With, IsHeld
<1>8. QED BY <1>6, <1>7

LEMMA BlockStep ==
    ASSUME PInv, NEW t \in Tasks, Blocks(t), UNCHANGED <<codec, envelopes, call, calls>>
    PROVE  PInv'
<1>1. VInv' BY BlocksHold DEF PInv
<1>2. PTypes' BY DEF PInv, PTypes
<1>3. UNCHANGED boxes BY DEF Blocks, EnterPlain, EnterExtending, Expire, Unwind, Fork
<1>4. ASSUME NEW i \in Ids, IsHeld(i)' PROVE IsHeld(i) \/ i \in DOMAIN FirstBoxes
  <2>1. CASE UNCHANGED spaces BY <1>4, <2>1 DEF IsHeld
  <2>2. CASE \E p \in Providers : EnterExtending(t, p) BY <1>4, <2>2, OpensHeld
  <2>3. QED BY <2>1, <2>2 DEF Blocks, EnterPlain, Expire, Unwind, Fork
<1>5. QED BY <1>1, <1>2, <1>3, <1>4, Quiet

LEMMA WriteStep == ASSUME PInv, Writes, UNCHANGED <<codec, envelopes, call, calls>> PROVE PInv'
<1>1. VInv' BY WritesHold DEF PInv
<1>2. PTypes' BY DEF PInv, PTypes
<1>3. DOMAIN boxes' = DOMAIN boxes BY DEF Writes, Write, WriteBox
<1>4. ASSUME NEW i \in Ids, IsHeld(i)' PROVE IsHeld(i) \/ i \in DOMAIN FirstBoxes
  <2>1. CASE UNCHANGED spaces BY <1>4, <2>1 DEF IsHeld
  <2>2. ASSUME NEW e \in DOMAIN entries, NEW side \in {"own", "public"}, NEW a \in Attrs,
               NEW v \in Assigned, Write(e, side, a, v)
        PROVE  IsHeld(i) \/ i \in DOMAIN FirstBoxes
    <3>1. spaces' = [spaces EXCEPT ![entries[e].space][a] = v] BY <2>2 DEF Write
    <3>2. v = i => i \in DOMAIN FirstBoxes BY AssignedAssumption, AtomsAssumption
    <3>3. PICK s \in DOMAIN spaces', b \in Attrs : spaces'[s][b] = i BY <1>4 DEF IsHeld
    <3>4. spaces[s] \in Space /\ s \in DOMAIN spaces BY <3>1, <3>3 DEF PInv, VInv, Types
    <3>5. spaces'[s][b] = v \/ spaces'[s][b] = spaces[s][b] BY <3>1, <3>4 DEF Space
    <3>6. QED BY <3>2, <3>3, <3>4, <3>5 DEF IsHeld
  <2>3. QED BY <2>1, <2>2 DEF Writes, WriteBox
<1>5. QED BY <1>1, <1>2, <1>3, <1>4, Quiet

LEMMA CodecStep ==
    ASSUME PInv, NEW dump \in Codec, NEW load \in Codec, SetCodec(dump, load) PROVE PInv'
<1>1. Types' BY DEF SetCodec, PInv, VInv, Types
<1>2. VInv' BY <1>1, Still DEF SetCodec, PInv
<1>3. PTypes' BY DEF SetCodec, PInv, PTypes
<1>4. \A i \in Ids : IsHeld(i)' => IsHeld(i) BY DEF SetCodec, IsHeld
<1>5. QED BY <1>2, <1>3, <1>4, Quiet DEF SetCodec

-----------------------------------------------------------------------------
(* Steps of a call. *)

\* What a step of one call leaves as it was: it adds containers of its own number
\* only, and takes such ones away only as it ends.
LEMMA Others ==
    ASSUME PInv, NEW t \in Tasks, NEW d \in Call, call' = [call EXCEPT ![t] = d],
           calls' \in {calls, calls + 1}, calls' <= MaxCalls,
           d.step # "idle" => \/ d.nr = calls + 1 /\ calls' = calls + 1
                              \/ d.nr = call[t].nr /\ call[t].step # "idle",
           \A i \in DOMAIN boxes \ DOMAIN boxes' :
               d.step = "idle" /\ call[t].step \in {"export", "adopt"} /\ i[1] = call[t].nr,
           \A i \in DOMAIN boxes' \ DOMAIN boxes : call[t].step # "idle" /\ i[1] = call[t].nr,
           \A i \in Ids : IsHeld(i)' => \/ IsHeld(i)
                                        \/ /\ call[t].step # "idle" /\ i[1] = call[t].nr
                                           /\ i \in DOMAIN boxes /\ UNCHANGED boxes,
           \A k \in DOMAIN envelopes : k \in DOMAIN envelopes' /\ envelopes'[k] = envelopes[k]
    PROVE  /\ Kept'
           /\ \A k \in DOMAIN envelopes : Apart(envelopes[k])' /\ OneVia(envelopes[k])'
           /\ \A u \in Tasks \ {t} : Calling(u)'
<1>1. \A i \in DOMAIN FirstBoxes : i[1] = 0 /\ i \in Ids BY LayerAssumption
<1>2. calls \in Nat BY CallsAssumption DEF PInv, PTypes
<1>3. call[t].step # "idle" => call[t].nr \in 1..calls /\ \A i \in Ids :
          IsHeld(i) /\ i[1] = call[t].nr => call[t].step = "open"
  BY DEF PInv, Calling
<1>4. DOMAIN call = Tasks /\ call'[t] = d /\ \A u \in Tasks \ {t} : call'[u] = call[u]
  BY DEF PInv, PTypes
<1>5. Kept'
  <2>1. DOMAIN FirstBoxes \subseteq DOMAIN boxes' BY <1>1, <1>2, <1>3 DEF PInv, Kept
  <2>2. \A i \in DOMAIN boxes' : i[1] <= calls'
    <3>1. ASSUME NEW i \in DOMAIN boxes' PROVE i[1] <= calls /\ i[1] \in Nat
      <4>1. CASE i \in DOMAIN boxes BY <4>1 DEF PInv, Kept, VInv, Types, Ids
      <4>2. CASE i \notin DOMAIN boxes BY <1>2, <1>3, <4>2
      <4>3. QED BY <4>1, <4>2
    <3>2. QED BY <1>2, <3>1
  <2>3. ASSUME NEW i \in Ids, IsHeld(i)' PROVE i \in DOMAIN boxes'
    <3>1. CASE IsHeld(i)
      <4>1. i \in DOMAIN boxes BY <3>1 DEF PInv, Kept
      <4>2. QED BY <1>3, <3>1, <4>1
    <3>2. CASE ~ IsHeld(i) BY <2>3, <3>2
    <3>3. QED BY <3>1, <3>2
  <2>4. QED BY <2>1, <2>2, <2>3 DEF Kept
<1>6. ASSUME NEW k \in DOMAIN envelopes PROVE Apart(envelopes[k])' /\ OneVia(envelopes[k])'
  <2>1. Apart(envelopes[k]) /\ OneVia(envelopes[k]) /\ envelopes'[k] = envelopes[k]
    BY DEF PInv
  <2>2. ASSUME NEW n \in Names, envelopes[k].ctx[n] # None, NEW a \in Attrs,
               NEW i \in Ids, i = envelopes[k].ctx[n][a]
        PROVE  /\ i \in DOMAIN boxes' /\ ~ IsHeld(i)' /\ i[1] \in 1..calls'
               /\ \A u \in Tasks : call'[u].step # "idle" => call'[u].nr # i[1]
    <3>1. /\ i \in DOMAIN boxes /\ ~ IsHeld(i) /\ i[1] \in 1..calls
          /\ \A u \in Tasks : call[u].step # "idle" => call[u].nr # i[1]
      BY <2>1, <2>2 DEF Apart
    <3>2. i \in DOMAIN boxes' /\ ~ IsHeld(i)' BY <3>1
    <3>3. i[1] \in 1..calls' BY <1>2, <3>1
    <3>4. ASSUME NEW u \in Tasks, call'[u].step # "idle" PROVE call'[u].nr # i[1]
      <4>1. CASE u = t BY <1>2, <1>4, <3>1, <3>4, <4>1
      <4>2. CASE u # t BY <1>4, <3>1, <3>4, <4>2
      <4>3. QED BY <4>1, <4>2
    <3>5. QED BY <3>2, <3>3, <3>4
  <2>3. Apart(envelopes[k])' BY <2>1, <2>2 DEF Apart
  <2>4. OneVia(envelopes[k])' BY <2>1 DEF OneVia
  <2>5. QED BY <2>3, <2>4
<1>7. ASSUME NEW u \in Tasks \ {t} PROVE Calling(u)'
  <2>1. Calling(u) /\ call'[u] = call[u] BY <1>4 DEF PInv
  <2>2. CASE call[u].step = "idle" BY <2>1, <2>2 DEF Calling
  <2>3. CASE call[u].step # "idle"
    <3> DEFINE c == call[u]
    <3>1. /\ c.nr \in 1..calls
          /\ \A v \in Tasks \ {u} : call[v].step # "idle" => call[v].nr # c.nr
          /\ \A n \in Names : c.built[n] # None =>
               /\ c.via[n] = c.codec
               /\ \A a \in Attrs : c.built[n][a] \in Ids =>
                     /\ c.built[n][a] \in DOMAIN boxes
                     /\ c.built[n][a][1] = c.nr /\ c.built[n][a][2] = n
          /\ \A i \in Ids : IsHeld(i) /\ i[1] = c.nr => c.step = "open" /\ c.built[i[2]] = None
          /\ c.step = "adopt" =>
               /\ c.payload \in Foreign \/ \E k \in DOMAIN envelopes : envelopes[k] = c.payload
               /\ \A n \in c.left : c.payload.ctx[n] # None
      BY <2>1, <2>3 DEF Calling
    <3>2. c.nr \in 1..calls' BY <1>2, <3>1
    <3>3. call[t].step # "idle" => call[t].nr # c.nr BY <3>1
    <3>4. ASSUME NEW v \in Tasks \ {u}, call'[v].step # "idle" PROVE call'[v].nr # c.nr
      <4>1. CASE v = t BY <1>2, <1>4, <3>1, <3>3, <3>4, <4>1
      <4>2. CASE v # t BY <1>4, <3>1, <3>4, <4>2
      <4>3. QED BY <4>1, <4>2
    <3>5. ASSUME NEW n \in Names, c.built[n] # None, NEW a \in Attrs, c.built[n][a] \in Ids
          PROVE  c.built[n][a] \in DOMAIN boxes'
      BY <3>1, <3>3, <3>5
    <3>6. ASSUME NEW i \in Ids, IsHeld(i)', i[1] = c.nr
          PROVE  c.step = "open" /\ c.built[i[2]] = None
      BY <3>1, <3>3, <3>6
    <3>7. c.step = "adopt" =>
               c.payload \in Foreign \/ \E k \in DOMAIN envelopes' : envelopes'[k] = c.payload
      BY <3>1
    <3> HIDE DEF c
    <3>8. call'[u] = c /\ c.step # "idle" BY <2>1, <2>3 DEF c
    <3>9. QED BY <3>1, <3>2, <3>4, <3>5, <3>6, <3>7, <3>8 DEF Calling
  <2>4. QED BY <2>2, <2>3
<1>8. QED BY <1>5, <1>6, <1>7

-----------------------------------------------------------------------------
(* Values. *)

\* A namespace all of whose containers exist.
Whole(space) == space \in Space /\ \A a \in Attrs : space[a] \in Ids => space[a] \in DOMAIN boxes

LEMMA DumpedIs ==
    ASSUME NEW c \in Codec, NEW space, Whole(space)
    PROVE  /\ Whole(Dumped(c, space))
           /\ \A a \in Attrs : Dumped(c, space)[a] \in Ids => Dumped(c, space)[a] = space[a]
<1>1. \A a \in Attrs : c # None => Coded[c] \in Content /\ Coded[c] \notin Ids
  BY CodedAssumption, AtomsAssumption DEF Content, Codec
<1>2. QED BY <1>1 DEF Dumped, Whole, Space, Value

LEMMA LoadedIs ==
    ASSUME NEW c \in Codec, NEW space \in Space
    PROVE  /\ Loaded(c, space) \in Space
           /\ \A a \in Attrs : Loaded(c, space)[a] \in Ids => Loaded(c, space)[a] = space[a]
<1>1. Opaque \in Content /\ Opaque \notin Ids BY AtomsAssumption DEF Content
<1>2. QED BY <1>1 DEF Loaded, Space, Value

LEMMA BuiltIs ==
    ASSUME PInv, NEW space, Whole(space), NEW nr \in Nat, NEW n \in Names
    PROVE  /\ Rebuilt(space, nr, n) \in Space
           /\ \A a \in Attrs : Rebuilt(space, nr, n)[a] \in Ids =>
                 /\ Rebuilt(space, nr, n)[a] \in DOMAIN Built(space, nr, n)
                 /\ Rebuilt(space, nr, n)[a][1] = nr /\ Rebuilt(space, nr, n)[a][2] = n
           /\ DOMAIN Built(space, nr, n) \subseteq Ids
           /\ \A i \in DOMAIN Built(space, nr, n) : Built(space, nr, n)[i] \in Content
           /\ DOMAIN boxes \subseteq DOMAIN Built(space, nr, n)
           /\ \A i \in DOMAIN Built(space, nr, n) \ DOMAIN boxes : i[1] = nr
<1> DEFINE ids == {<<nr, n, a>> : a \in BoxAttrs(space)}
<1>1. /\ BoxAttrs(space) \subseteq Attrs /\ ids \subseteq Ids /\ \A i \in ids : i[1] = nr
      /\ \A a \in BoxAttrs(space) : space[a] \in DOMAIN boxes
      /\ \A a \in Attrs \ BoxAttrs(space) : space[a] \notin Ids
  BY DEF BoxAttrs, Ids, Whole
<1>2. DOMAIN boxes \subseteq Ids /\ \A i \in DOMAIN boxes : boxes[i] \in Content
  BY DEF PInv, VInv, Types
<1>3. DOMAIN Built(space, nr, n) = DOMAIN boxes \cup ids BY DEF Built
<1>4. ASSUME NEW a \in BoxAttrs(space)
      PROVE  /\ Rebuilt(space, nr, n)[a] = <<nr, n, a>> /\ <<nr, n, a>> \in ids
             /\ <<nr, n, a>>[1] = nr /\ <<nr, n, a>>[2] = n
  BY <1>1 DEF Rebuilt
<1>5. Rebuilt(space, nr, n) \in Space BY <1>1 DEF Rebuilt, Whole, Space, Value
<1>6. ASSUME NEW a \in Attrs, Rebuilt(space, nr, n)[a] \in Ids PROVE a \in BoxAttrs(space)
  BY <1>1, <1>6 DEF Rebuilt
<1>7. ASSUME NEW i \in DOMAIN Built(space, nr, n) PROVE Built(space, nr, n)[i] \in Content
  <2>1. CASE i \in ids
    <3>1. PICK a \in BoxAttrs(space) : i = <<nr, n, a>> BY <2>1
    <3>2. i[3] = a BY <3>1
    <3>3. Built(space, nr, n)[i] = boxes[space[a]] BY <1>3, <2>1, <3>2 DEF Built
    <3>4. QED BY <1>1, <1>2, <3>3
  <2>2. CASE i \notin ids BY <1>2, <1>3, <2>2 DEF Built
  <2>3. QED BY <2>1, <2>2
<1> HIDE DEF ids
<1>8. QED BY <1>1, <1>2, <1>3, <1>4, <1>5, <1>6, <1>7

LEMMA DeepIs == ASSUME PInv, NEW space, Whole(space) PROVE DeepOf(space) \in Deep
<1>1. \A i \in DOMAIN boxes : boxes[i] \in Content BY DEF PInv, VInv, Types
<1>2. ASSUME NEW a \in Attrs
      PROVE  (IF space[a] \in DOMAIN boxes THEN [holds |-> boxes[space[a]]] ELSE space[a])
               \in Content \cup {Absent} \cup [holds : Content]
  BY <1>1 DEF Whole, Space, Value
<1>3. QED BY <1>2 DEF DeepOf, Deep

LEMMA FoundWhole ==
    ASSUME PInv, NEW t \in Tasks, NEW n, Found(t, n) # 0
    PROVE  Whole(spaces[entries[Found(t, n)].space])
<1>1. Found(t, n) \in 1..Len(entries) BY FoundIs DEF PInv, VInv, Types
<1>2. entries[Found(t, n)].space \in DOMAIN spaces BY <1>1 DEF PInv, VInv, Entered
<1>3. QED BY <1>2 DEF PInv, VInv, Types, Kept, IsHeld, Whole

-----------------------------------------------------------------------------
(* export() and adopt(). *)

LEMMA IdleIs == Idle \in Call /\ Idle.step = "idle" /\ Idle.built = Nothing
BY DEF Idle, Call, Nothing, Carried, Codec

LEMMA GoesOn ==
    ASSUME NEW t \in Tasks, NEW d, call'[t] = d, d.step # "idle", d.nr \in 1..calls',
           \A u \in Tasks \ {t} : call'[u].step # "idle" => call'[u].nr # d.nr,
           \A n \in Names : d.built[n] # None =>
               /\ d.via[n] = d.codec
               /\ \A a \in Attrs : d.built[n][a] \in Ids =>
                     /\ d.built[n][a] \in DOMAIN boxes'
                     /\ d.built[n][a][1] = d.nr /\ d.built[n][a][2] = n,
           \A i \in Ids : IsHeld(i)' /\ i[1] = d.nr => d.step = "open" /\ d.built[i[2]] = None,
           d.step = "adopt" =>
               d.payload \in Foreign \/ \E k \in DOMAIN envelopes' : envelopes'[k] = d.payload,
           d.step = "adopt" => \A n \in d.left : d.payload.ctx[n] # None
    PROVE  Calling(t)'
BY DEF Calling

LEMMA OverIs == ASSUME NEW t \in Tasks, call'[t] = Idle PROVE Calling(t)'
BY IdleIs DEF Calling

\* A step that hands no envelope on keeps what holds if it does for its own call.
LEMMA Stepped ==
    ASSUME PInv, NEW t \in Tasks, NEW d \in Call, call' = [call EXCEPT ![t] = d],
           calls' \in {calls, calls + 1}, calls' <= MaxCalls,
           d.step # "idle" => \/ d.nr = calls + 1 /\ calls' = calls + 1
                              \/ d.nr = call[t].nr /\ call[t].step # "idle",
           \A i \in DOMAIN boxes \ DOMAIN boxes' :
               d.step = "idle" /\ call[t].step \in {"export", "adopt"} /\ i[1] = call[t].nr,
           \A i \in DOMAIN boxes' \ DOMAIN boxes : call[t].step # "idle" /\ i[1] = call[t].nr,
           \A i \in Ids : IsHeld(i)' => \/ IsHeld(i)
                                        \/ /\ call[t].step # "idle" /\ i[1] = call[t].nr
                                           /\ i \in DOMAIN boxes /\ UNCHANGED boxes,
           UNCHANGED <<envelopes, codec>>, VInv', Calling(t)'
    PROVE  PInv'
<1>1. PTypes'
  <2>1. calls' \in 0..MaxCalls BY CallsAssumption DEF PInv, PTypes
  <2>2. QED BY <2>1 DEF PInv, PTypes
<1>2. \A k \in DOMAIN envelopes : k \in DOMAIN envelopes' /\ envelopes'[k] = envelopes[k]
  OBVIOUS
<1>3. /\ Kept'
      /\ \A k \in DOMAIN envelopes : Apart(envelopes[k])' /\ OneVia(envelopes[k])'
      /\ \A u \in Tasks \ {t} : Calling(u)'
  BY <1>2, Others
<1>4. QED BY <1>1, <1>3 DEF PInv

LEMMA BeginStep ==
    ASSUME PInv, NEW t \in Tasks, NEW job \in Call, Begin(t, job),
           job.step \in {"export", "adopt"}, job.nr = calls + 1, job.built = Nothing,
           job.step = "adopt" =>
               /\ job.payload \in Foreign \/ \E k \in DOMAIN envelopes : envelopes[k] = job.payload
               /\ \A n \in job.left : job.payload.ctx[n] # None
    PROVE  PInv'
<1>1. /\ call' = [call EXCEPT ![t] = job] /\ calls' = calls + 1 /\ calls' <= MaxCalls
      /\ UNCHANGED <<spaces, boxes, entries, stack, active, expired, codec, envelopes>>
      /\ by' = None /\ calls \in Nat
  BY CallsAssumption DEF Begin, PInv, PTypes
<1>2. DOMAIN call = Tasks /\ call'[t] = job /\ \A u \in Tasks \ {t} : call'[u] = call[u]
  BY <1>1 DEF PInv, PTypes
<1>3. Types' BY <1>1 DEF PInv, VInv, Types
<1>4. VInv' BY <1>1, <1>3, Still DEF PInv
<1>5. \A i \in Ids : IsHeld(i)' => IsHeld(i) BY <1>1 DEF IsHeld
<1>6. Calling(t)'
  <2>1. \A u \in Tasks \ {t} : call[u].step # "idle" => call[u].nr \in 1..calls
    BY DEF PInv, Calling
  <2>2. \A i \in Ids : IsHeld(i)' => i[1] # calls + 1
    BY <1>1, <1>5 DEF PInv, Kept, Ids
  <2>3. \A n \in Names : job.built[n] = None BY DEF Nothing
  <2>4. \A u \in Tasks \ {t} : call'[u].step # "idle" => call'[u].nr # calls + 1
    BY <1>1, <1>2, <2>1
  <2>5. calls + 1 \in 1..calls' BY <1>1
  <2>6. QED BY <1>1, <1>2, <2>2, <2>3, <2>4, <2>5 DEF Calling
<1>7. QED BY <1>1, <1>4, <1>5, <1>6, Stepped

LEMMA ExportStep ==
    ASSUME PInv, NEW t \in Tasks, NEW names \in SUBSET Names, Export(t, names) PROVE PInv'
<1> DEFINE job == [Idle EXCEPT !.step = "export", !.nr = calls + 1, !.names = names,
                               !.left = names, !.codec = codec.dump]
<1>1. calls + 1 \in Nat /\ codec.dump \in Codec BY CallsAssumption DEF PInv, PTypes
<1>2. job \in Call BY <1>1, IdleIs DEF Call
<1>3. job.step = "export" /\ job.nr = calls + 1 /\ job.built = Nothing BY DEF Idle
<1>4. Begin(t, job) BY DEF Export
<1> HIDE DEF job
<1>5. QED BY <1>2, <1>3, <1>4, BeginStep

LEMMA AdoptStep ==
    ASSUME PInv, NEW t \in Tasks, NEW payload \in ToSet(envelopes) \cup Foreign,
           NEW only \in SUBSET Names, Adopt(t, payload, only)
    PROVE  PInv'
<1> DEFINE names == {n \in only : payload.ctx[n] # None}
           job == [Idle EXCEPT !.step = "adopt", !.nr = calls + 1, !.names = names,
                               !.left = names, !.codec = codec.load, !.payload = payload]
<1>1. calls + 1 \in Nat /\ codec.load \in Codec BY CallsAssumption DEF PInv, PTypes
<1>2. payload \in Foreign \/ \E k \in DOMAIN envelopes : envelopes[k] = payload BY DEF ToSet
<1>3. payload \in Envelope
  <2>1. CASE payload \in Foreign
    BY <2>1, ForeignAssumption DEF Envelope, Codec
  <2>2. CASE \E k \in DOMAIN envelopes : envelopes[k] = payload BY <2>2 DEF PInv, PTypes
  <2>3. QED BY <1>2, <2>1, <2>2
<1>4. job \in Call
  <2> HIDE DEF names
  <2>1. names \in SUBSET Names BY DEF names
  <2>2. QED BY <1>1, <1>3, <2>1, IdleIs DEF Call
<1>5. /\ job.step = "adopt" /\ job.nr = calls + 1 /\ job.built = Nothing /\ job.left = names
      /\ job.payload = payload
  BY DEF Idle
<1>6. Begin(t, job) BY DEF Adopt
<1>7. \A n \in job.left : job.payload.ctx[n] # None BY <1>5
<1> HIDE DEF job
<1>8. QED BY <1>2, <1>4, <1>5, <1>6, <1>7, BeginStep

LEMMA FailStep ==
    ASSUME PInv, NEW t \in Tasks, call[t].step \in {"export", "adopt"}, Fail(t) PROVE PInv'
<1>1. /\ call' = [call EXCEPT ![t] = Idle]
      /\ boxes' = [i \in {j \in DOMAIN boxes : j[1] # call[t].nr} |-> boxes[i]]
      /\ UNCHANGED <<spaces, entries, stack, active, expired, codec, envelopes, calls>>
      /\ by' = None
  BY DEF Fail, Restrict
<1>2. calls \in Nat /\ calls <= MaxCalls /\ DOMAIN call = Tasks
  BY CallsAssumption DEF PInv, PTypes
<1>3. Types' BY <1>1 DEF PInv, VInv, Types
<1>4. VInv' BY <1>1, <1>3, Still DEF PInv
<1>5. \A i \in Ids : IsHeld(i)' => IsHeld(i) BY <1>1 DEF IsHeld
<1>6. Calling(t)'
  <2>1. call'[t] = Idle BY <1>1, <1>2
  <2>2. QED BY <2>1, OverIs
<1>7. \A i \in DOMAIN boxes \ DOMAIN boxes' : i[1] = call[t].nr BY <1>1
<1>8. DOMAIN boxes' \subseteq DOMAIN boxes BY <1>1
<1>9. Idle \in Call /\ Idle.step = "idle" BY IdleIs
<1>10. QED BY <1>1, <1>2, <1>4, <1>5, <1>6, <1>7, <1>8, <1>9, Stepped

\* One name is carried over: into an envelope, or out of one.
LEMMA NameStep ==
    ASSUME PInv, NEW t \in Tasks, NEW n \in Names, call[t].step \in {"export", "adopt"},
           NEW space, Whole(space), NEW out \in Space,
           \A a \in Attrs : out[a] \in Ids => out[a] = Rebuilt(space, call[t].nr, n)[a],
           NEW d \in Call, d.step = call[t].step, d.nr = call[t].nr, d.codec = call[t].codec,
           d.payload = call[t].payload, d.left \subseteq call[t].left,
           d.built = [call[t].built EXCEPT ![n] = out],
           d.via = [call[t].via EXCEPT ![n] = call[t].codec],
           call' = [call EXCEPT ![t] = d], boxes' = Built(space, call[t].nr, n), by' = None,
           UNCHANGED <<spaces, entries, stack, active, expired, codec, envelopes, calls>>
    PROVE  PInv'
<1> DEFINE c == call[t]
<1>1. c \in Call /\ c.nr \in Nat /\ c.step # "idle" /\ calls \in Nat /\ calls <= MaxCalls
      /\ DOMAIN call = Tasks
  BY CallsAssumption DEF PInv, PTypes, Call
<1>2. /\ DOMAIN boxes' \subseteq Ids
      /\ \A i \in DOMAIN boxes' : boxes'[i] \in Content
      /\ DOMAIN boxes \subseteq DOMAIN boxes'
      /\ \A i \in DOMAIN boxes' \ DOMAIN boxes : i[1] = c.nr
      /\ \A a \in Attrs : out[a] \in Ids =>
            out[a] \in DOMAIN boxes' /\ out[a][1] = c.nr /\ out[a][2] = n
  BY <1>1, BuiltIs
<1>3. Types' BY <1>2 DEF PInv, VInv, Types
<1>4. VInv' BY <1>3, Still DEF PInv
<1>5. \A i \in Ids : IsHeld(i)' <=> IsHeld(i) BY DEF IsHeld
<1>6. Calling(t)'
  <2>1. Calling(t) /\ call'[t] = d /\ \A u \in Tasks \ {t} : call'[u] = call[u]
    BY <1>1 DEF PInv
  <2>2. c.built \in [Names -> Space \cup {None}] /\ c.via \in [Names -> Codec]
    BY <1>1 DEF Call, Carried
  <2>3. ASSUME NEW m \in Names, d.built[m] # None
        PROVE  /\ d.via[m] = d.codec
               /\ \A a \in Attrs : d.built[m][a] \in Ids =>
                     /\ d.built[m][a] \in DOMAIN boxes'
                     /\ d.built[m][a][1] = d.nr /\ d.built[m][a][2] = m
    <3>1. CASE m = n BY <1>2, <2>2, <3>1
    <3>2. CASE m # n BY <1>1, <1>2, <2>1, <2>2, <2>3, <3>2 DEF Calling
    <3>3. QED BY <3>1, <3>2
  <2>4. \A i \in Ids : ~ (IsHeld(i)' /\ i[1] = d.nr) BY <1>1, <1>5, <2>1 DEF Calling
  <2>5. d.step = "adopt" =>
           /\ d.payload \in Foreign \/ \E k \in DOMAIN envelopes : envelopes[k] = d.payload
           /\ \A m \in d.left : d.payload.ctx[m] # None
    BY <1>1, <2>1 DEF Calling
  <2>6. /\ d.step # "idle" /\ d.nr \in 1..calls
        /\ \A u \in Tasks \ {t} : call'[u].step # "idle" => call'[u].nr # d.nr
    BY <1>1, <2>1 DEF Calling
  <2>7. /\ call'[t] = d /\ d.nr \in 1..calls' /\ d.step # "idle"
        /\ \A i \in Ids : IsHeld(i)' /\ i[1] = d.nr => d.step = "open" /\ d.built[i[2]] = None
        /\ d.step = "adopt" =>
              d.payload \in Foreign \/ \E k \in DOMAIN envelopes' : envelopes'[k] = d.payload
    BY <2>1, <2>4, <2>5, <2>6
  <2>8. QED BY <2>3, <2>5, <2>6, <2>7, GoesOn
<1>7. QED BY <1>1, <1>2, <1>4, <1>5, <1>6, Stepped

LEMMA ExportNameStep ==
    ASSUME PInv, NEW t \in Tasks, NEW n \in Names, ExportName(t, n) PROVE PInv'
<1> DEFINE c == call[t]
           space == spaces[entries[Found(t, n)].space]
           out == Dumped(c.codec, space)
           d == [c EXCEPT !.left = @ \ {n}, !.built[n] = Rebuilt(out, c.nr, n),
                          !.via[n] = c.codec, !.was[n] = DeepOf(space)]
<1>1. /\ c.step = "export" /\ n \in c.left /\ Found(t, n) # 0
      /\ boxes' = Built(out, c.nr, n) /\ call' = [call EXCEPT ![t] = d] /\ by' = None
      /\ UNCHANGED <<spaces, entries, stack, active, expired, codec, envelopes, calls>>
  BY DEF ExportName, Half
<1>2. c \in Call /\ c.codec \in Codec /\ c.nr \in Nat BY DEF PInv, PTypes, Call
<1>3. Whole(space) /\ Whole(out) BY <1>1, <1>2, FoundWhole, DumpedIs
<1>4. Rebuilt(out, c.nr, n) \in Space /\ DeepOf(space) \in Deep
  <2> HIDE DEF out, space
  <2> QED BY <1>2, <1>3, BuiltIs, DeepIs
<1> HIDE DEF out, space
<1>5. d \in Call
  <2>1. c.left \ {n} \in SUBSET Names BY <1>2 DEF Call
  <2>2. [c.built EXCEPT ![n] = Rebuilt(out, c.nr, n)] \in Carried BY <1>2, <1>4 DEF Call, Carried
  <2>3. [c.via EXCEPT ![n] = c.codec] \in [Names -> Codec] BY <1>2 DEF Call
  <2>4. [c.was EXCEPT ![n] = DeepOf(space)] \in [Names -> Deep \cup {None}]
    BY <1>2, <1>4 DEF Call
  <2>5. QED BY <1>2, <2>1, <2>2, <2>3, <2>4 DEF Call
<1>6. /\ d.step = c.step /\ d.nr = c.nr /\ d.codec = c.codec /\ d.payload = c.payload
      /\ d.left = c.left \ {n}
      /\ d.built = [c.built EXCEPT ![n] = Rebuilt(out, c.nr, n)]
      /\ d.via = [c.via EXCEPT ![n] = c.codec]
  BY <1>2 DEF Call
<1> HIDE DEF d
<1>7. QED BY <1>1, <1>3, <1>4, <1>5, <1>6, NameStep

LEMMA ExportEndStep == ASSUME PInv, NEW t \in Tasks, ExportEnd(t) PROVE PInv'
<1> DEFINE c == call[t]
           e == [v |-> Version, ctx |-> c.built, via |-> c.via, was |-> c.was]
<1>1. /\ c.step = "export" /\ envelopes' = Append(envelopes, e)
      /\ call' = [call EXCEPT ![t] = Idle] /\ by' = None
      /\ UNCHANGED <<spaces, boxes, entries, stack, active, expired, codec, calls>>
  BY DEF ExportEnd
<1>2. c \in Call /\ calls \in Nat /\ calls <= MaxCalls /\ DOMAIN call = Tasks /\ Calling(t)
  BY CallsAssumption DEF PInv, PTypes
<1>3. e \in Envelope /\ e.ctx = c.built /\ e.via = c.via BY <1>2 DEF Envelope, Call, Version
<1> HIDE DEF e
<1>4. /\ envelopes' \in Seq(Envelope) /\ Len(envelopes') = Len(envelopes) + 1
      /\ \A k \in 1..Len(envelopes) : envelopes'[k] = envelopes[k]
      /\ envelopes'[Len(envelopes) + 1] = e /\ Len(envelopes) \in Nat
      /\ DOMAIN envelopes = 1..Len(envelopes)
  BY <1>1, <1>3, Appended DEF PInv, PTypes
<1>5. /\ \A k \in DOMAIN envelopes : k \in DOMAIN envelopes' /\ envelopes'[k] = envelopes[k]
      /\ \A k \in DOMAIN envelopes' : k \in DOMAIN envelopes \/ envelopes'[k] = e
  <2>1. DOMAIN envelopes' = 1..Len(envelopes) + 1 BY <1>4
  <2>2. \A k \in 1..Len(envelopes) + 1 : k \in 1..Len(envelopes) \/ k = Len(envelopes) + 1
    BY <1>4
  <2>3. \A k \in 1..Len(envelopes) : k \in 1..Len(envelopes) + 1 BY <1>4
  <2>4. QED BY <1>4, <2>1, <2>2, <2>3
<1>6. Types' BY <1>1 DEF PInv, VInv, Types
<1>7. VInv' BY <1>1, <1>6, Still DEF PInv
<1>8. PTypes' BY <1>1, <1>4, IdleIs DEF PInv, PTypes
<1>9. \A i \in Ids : IsHeld(i)' <=> IsHeld(i) BY <1>1 DEF IsHeld
<1>10. call'[t] = Idle /\ \A u \in Tasks \ {t} : call'[u] = call[u] BY <1>1, <1>2
<1>11. Calling(t)' BY <1>10, OverIs
<1>12. Kept' /\ (\A k \in DOMAIN envelopes : Apart(envelopes[k])' /\ OneVia(envelopes[k])')
       /\ \A u \in Tasks \ {t} : Calling(u)'
  BY <1>1, <1>2, <1>5, <1>9, IdleIs, Others
<1>13. ASSUME NEW f, f = e PROVE Apart(f)' /\ OneVia(f)'
  <2>1. f.ctx = c.built /\ f.via = c.via BY <1>3, <1>13
  <2>2. ASSUME NEW n \in Names, f.ctx[n] # None, NEW a \in Attrs, NEW i \in Ids, i = f.ctx[n][a]
        PROVE  /\ i \in DOMAIN boxes' /\ ~ IsHeld(i)' /\ i[1] \in 1..calls'
               /\ \A u \in Tasks : call'[u].step # "idle" => call'[u].nr # i[1]
    <3>1. /\ i \in DOMAIN boxes /\ ~ IsHeld(i) /\ i[1] = c.nr /\ c.nr \in 1..calls
          /\ \A u \in Tasks \ {t} : call[u].step # "idle" => call[u].nr # c.nr
      BY <1>1, <1>2, <2>1, <2>2 DEF Calling
    <3>2. \A u \in Tasks : call'[u].step # "idle" => u \in Tasks \ {t} /\ call'[u] = call[u]
      BY <1>10, IdleIs
    <3>3. QED BY <1>1, <1>9, <3>1, <3>2
  <2>3. Apart(f)' BY <2>2 DEF Apart
  <2>4. OneVia(f)' BY <1>1, <1>2, <2>1 DEF OneVia, Calling
  <2>5. QED BY <2>3, <2>4
<1>14. QED BY <1>5, <1>7, <1>8, <1>11, <1>12, <1>13 DEF PInv

\* What a payload carries for a name exists.
LEMMA PayloadWhole ==
    ASSUME PInv, NEW t \in Tasks, call[t].step = "adopt", NEW n \in call[t].left, n \in Names
    PROVE  Whole(call[t].payload.ctx[n])
<1> DEFINE p == call[t].payload
<1>1. /\ p.ctx[n] # None
      /\ p \in Foreign \/ \E k \in DOMAIN envelopes : envelopes[k] = p
  BY DEF PInv, Calling
<1>2. CASE p \in Foreign
  BY <1>1, <1>2, ForeignAssumption, AtomsAssumption DEF Carried, Whole
<1>3. CASE \E k \in DOMAIN envelopes : envelopes[k] = p
  <2>1. PICK k \in DOMAIN envelopes : envelopes[k] = p BY <1>3
  <2>2. Apart(p) /\ p \in Envelope BY <2>1 DEF PInv, PTypes
  <2>3. p.ctx[n] \in Space BY <1>1, <2>2 DEF Envelope, Carried
  <2>4. QED BY <1>1, <2>2, <2>3 DEF Apart, Whole
<1>4. QED BY <1>1, <1>2, <1>3

LEMMA AdoptNameStep ==
    ASSUME PInv, NEW t \in Tasks, NEW n \in Names, AdoptName(t, n) PROVE PInv'
<1> DEFINE c == call[t]
           space == c.payload.ctx[n]
           out == Loaded(c.codec, Rebuilt(space, c.nr, n))
           d == [c EXCEPT !.left = @ \ {n}, !.built[n] = out, !.via[n] = c.codec]
<1>1. /\ c.step = "adopt" /\ n \in c.left
      /\ boxes' = Built(space, c.nr, n) /\ call' = [call EXCEPT ![t] = d] /\ by' = None
      /\ UNCHANGED <<spaces, entries, stack, active, expired, codec, envelopes, calls>>
  BY DEF AdoptName, Half
<1>2. c \in Call /\ c.codec \in Codec /\ c.nr \in Nat BY DEF PInv, PTypes, Call
<1>3. Whole(space) BY <1>1, PayloadWhole
<1>4. /\ out \in Space
      /\ \A a \in Attrs : out[a] \in Ids => out[a] = Rebuilt(space, c.nr, n)[a]
  <2> HIDE DEF space
  <2>1. Rebuilt(space, c.nr, n) \in Space BY <1>2, <1>3, BuiltIs
  <2>2. QED BY <1>2, <2>1, LoadedIs
<1> HIDE DEF out, space
<1>5. d \in Call
  <2>1. c.left \ {n} \in SUBSET Names BY <1>2 DEF Call
  <2>2. [c.built EXCEPT ![n] = out] \in Carried BY <1>2, <1>4 DEF Call, Carried
  <2>3. [c.via EXCEPT ![n] = c.codec] \in [Names -> Codec] BY <1>2 DEF Call
  <2>4. QED BY <1>2, <2>1, <2>2, <2>3 DEF Call
<1>6. /\ d.step = c.step /\ d.nr = c.nr /\ d.codec = c.codec /\ d.payload = c.payload
      /\ d.left = c.left \ {n}
      /\ d.built = [c.built EXCEPT ![n] = out]
      /\ d.via = [c.via EXCEPT ![n] = c.codec]
  BY <1>2 DEF Call
<1> HIDE DEF d
<1>7. QED BY <1>1, <1>3, <1>4, <1>5, <1>6, NameStep

LEMMA AdoptEnterStep == ASSUME PInv, NEW t \in Tasks, AdoptEnter(t) PROVE PInv'
<1> DEFINE c == call[t]
           d == [c EXCEPT !.step = "open"]
<1>1. /\ c.step = "adopt" /\ call' = [call EXCEPT ![t] = d] /\ by' = None
      /\ UNCHANGED <<spaces, boxes, entries, stack, active, expired, codec, envelopes, calls>>
  BY DEF AdoptEnter
<1>2. c \in Call /\ calls \in Nat /\ calls <= MaxCalls /\ DOMAIN call = Tasks /\ Calling(t)
  BY CallsAssumption DEF PInv, PTypes
<1>3. d \in Call /\ d.step = "open" /\ d.nr = c.nr /\ d.built = c.built /\ d.via = c.via
      /\ d.codec = c.codec
  BY <1>2 DEF Call
<1> HIDE DEF d
<1>4. Types' BY <1>1 DEF PInv, VInv, Types
<1>5. VInv' BY <1>1, <1>4, Still DEF PInv
<1>6. \A i \in Ids : IsHeld(i)' <=> IsHeld(i) BY <1>1 DEF IsHeld
<1>7. call'[t] = d /\ \A u \in Tasks \ {t} : call'[u] = call[u] BY <1>1, <1>2
<1>8. Calling(t)' BY <1>1, <1>2, <1>3, <1>6, <1>7 DEF Calling
<1>9. QED BY <1>1, <1>2, <1>3, <1>5, <1>6, <1>8, Stepped

LEMMA AdoptOpenStep ==
    ASSUME PInv, NEW t \in Tasks, NEW n \in Names, AdoptOpen(t, n) PROVE PInv'
<1> DEFINE c == call[t]
           d == [c EXCEPT !.built[n] = None]
           new == Len(entries) + 1
<1>1. /\ c.step = "open" /\ c.built[n] # None /\ call' = [call EXCEPT ![t] = d] /\ by' = None
      /\ Push(t, [name |-> n, prov |-> None, task |-> t, space |-> new, scope |-> 0])
      /\ spaces' = With(spaces, new, c.built[n])
      /\ UNCHANGED <<boxes, active, expired, codec, envelopes, calls>>
  BY DEF AdoptOpen
<1>2. c \in Call /\ calls \in Nat /\ calls <= MaxCalls /\ DOMAIN call = Tasks /\ Calling(t)
  BY CallsAssumption DEF PInv, PTypes
<1>3. c.built \in [Names -> Space \cup {None}] BY <1>2 DEF Call, Carried
<1>4. d \in Call
  <2>1. [c.built EXCEPT ![n] = None] \in Carried BY <1>3 DEF Carried
  <2>2. QED BY <1>2, <2>1 DEF Call
<1>5. /\ d.step = "open" /\ d.nr = c.nr /\ d.built = [c.built EXCEPT ![n] = None]
      /\ d.via = c.via /\ d.codec = c.codec
  BY <1>1, <1>2 DEF Call
<1> HIDE DEF d
<1>6. VInv'
  <2>1. c.built[n] \in Space BY <1>1, <1>3
  <2>2. active' \in [Providers -> 0..Len(entries) + 1] BY <1>1 DEF PInv, VInv, Types
  <2>3. DOMAIN boxes' \subseteq Ids /\ \A i \in DOMAIN boxes' : boxes'[i] \in Content
    BY <1>1 DEF PInv, VInv, Types
  <2>4. VInv /\ None \in Providers \cup {None} /\ 0 \in {0, Len(entries) + 1} BY DEF PInv
  <2>5. QED BY <1>1, <2>1, <2>2, <2>3, <2>4, OwnSpaceHolds
<1>7. ASSUME NEW i \in Ids, IsHeld(i)'
      PROVE  IsHeld(i) \/ (i \in DOMAIN boxes /\ i[1] = c.nr /\ i[2] = n)
  <2>1. PICK s \in DOMAIN spaces', a \in Attrs : spaces'[s][a] = i BY <1>7 DEF IsHeld
  <2> HIDE DEF new
  <2>2. CASE s = new
    <3>1. c.built[n][a] = i BY <1>1, <2>1, <2>2 DEF With
    <3>2. QED BY <1>1, <1>2, <3>1 DEF Calling
  <2>3. CASE s # new BY <1>1, <2>1, <2>3 DEF With, IsHeld
  <2>4. QED BY <2>2, <2>3
<1>8. call'[t] = d /\ \A u \in Tasks \ {t} : call'[u] = call[u] BY <1>1, <1>2
<1>9. Calling(t)'
  <2>1. ASSUME NEW m \in Names, d.built[m] # None PROVE m # n /\ d.built[m] = c.built[m]
    BY <1>3, <1>5, <2>1
  <2>2. ASSUME NEW i \in Ids, IsHeld(i)', i[1] = d.nr PROVE d.built[i[2]] = None
    <3>1. i[2] \in Names BY DEF Ids
    <3>2. c.built[i[2]] = None \/ i[2] = n BY <1>1, <1>2, <1>5, <1>7, <2>2 DEF Calling
    <3>3. QED BY <1>3, <1>5, <3>1, <3>2
  <2>3. ASSUME NEW m \in Names, d.built[m] # None
        PROVE  /\ d.via[m] = d.codec
               /\ \A a \in Attrs : d.built[m][a] \in Ids =>
                     /\ d.built[m][a] \in DOMAIN boxes'
                     /\ d.built[m][a][1] = d.nr /\ d.built[m][a][2] = m
    BY <1>1, <1>2, <1>5, <2>1, <2>3 DEF Calling
  <2>4. /\ d.step = "open" /\ d.nr \in 1..calls'
        /\ \A u \in Tasks \ {t} : call'[u].step # "idle" => call'[u].nr # d.nr
    BY <1>1, <1>2, <1>5, <1>8 DEF Calling
  <2>5. QED BY <1>8, <2>2, <2>3, <2>4 DEF Calling
<1>10. QED BY <1>1, <1>2, <1>4, <1>5, <1>6, <1>7, <1>9, Stepped

LEMMA AdoptEndStep == ASSUME PInv, NEW t \in Tasks, AdoptEnd(t) PROVE PInv'
<1>1. /\ call' = [call EXCEPT ![t] = Idle] /\ by' = None
      /\ UNCHANGED <<spaces, boxes, entries, stack, active, expired, codec, envelopes, calls>>
  BY DEF AdoptEnd
<1>2. calls \in Nat /\ calls <= MaxCalls /\ DOMAIN call = Tasks
  BY CallsAssumption DEF PInv, PTypes
<1>3. Types' BY <1>1 DEF PInv, VInv, Types
<1>4. VInv' BY <1>1, <1>3, Still DEF PInv
<1>5. \A i \in Ids : IsHeld(i)' => IsHeld(i) BY <1>1 DEF IsHeld
<1>6. call'[t] = Idle BY <1>1, <1>2
<1>7. Calling(t)' BY <1>6, OverIs
<1>8. QED BY <1>1, <1>2, <1>4, <1>5, <1>7, IdleIs, Stepped
-----------------------------------------------------------------------------
(* The inductive invariant, and what follows from it. *)

LEMMA CallStep == ASSUME PInv, NEW t \in Tasks, Calls(t) PROVE PInv'
<1>1. CASE \E names \in SUBSET Names \ {{}} : Export(t, names) BY <1>1, ExportStep
<1>2. ASSUME NEW n \in Names, ExportName(t, n) PROVE PInv' BY <1>2, ExportNameStep
<1>3. ASSUME NEW n \in Names, ExportFail(t, n) PROVE PInv' BY <1>3, FailStep DEF ExportFail
<1>4. CASE ExportEnd(t) BY <1>4, ExportEndStep
<1>5. CASE \E payload \in ToSet(envelopes) \cup Foreign, only \in SUBSET Names :
              Adopt(t, payload, only)
  BY <1>5, AdoptStep
<1>6. ASSUME NEW n \in Names, AdoptName(t, n) PROVE PInv' BY <1>6, AdoptNameStep
<1>7. ASSUME NEW n \in Names, AdoptFail(t, n) PROVE PInv' BY <1>7, FailStep DEF AdoptFail
<1>8. ASSUME NEW n \in Names, AdoptOpen(t, n) PROVE PInv' BY <1>8, AdoptOpenStep
<1>9. CASE AdoptEnter(t) BY <1>9, AdoptEnterStep
<1>10. CASE AdoptEnd(t) BY <1>10, AdoptEndStep
<1>11. QED
  BY <1>1, <1>2, <1>3, <1>4, <1>5, <1>6, <1>7, <1>8, <1>9, <1>10 DEF Calls

LEMMA Starts == Init => PInv
<1> SUFFICES ASSUME Init PROVE PInv OBVIOUS
<1>1. VInv BY Begun DEF Init
<1>2. \A t \in Tasks : call[t] = Idle BY DEF Init
<1>3. PTypes BY IdleIs, CallsAssumption DEF Init, PTypes, Codec
<1>4. Kept
  <2>1. boxes = FirstBoxes /\ calls = 0 /\ spaces = [p \in Providers \ Extending |-> Layer[p]]
    BY DEF Init, ViewsInit
  <2>2. \A i \in DOMAIN FirstBoxes : i[1] = 0 BY LayerAssumption
  <2>3. ASSUME NEW i \in Ids, IsHeld(i) PROVE i \in DOMAIN FirstBoxes
    <3>1. PICK p \in Providers, a \in Attrs : Layer[p][a] = i BY <2>1, <2>3 DEF IsHeld
    <3>2. Layer[p][a] \in Content \cup {Absent} \cup DOMAIN FirstBoxes BY LayerAssumption
    <3>3. QED BY <3>1, <3>2, AtomsAssumption
  <2>4. QED BY <2>1, <2>2, <2>3 DEF Kept
<1>5. DOMAIN envelopes = {} BY DEF Init
<1>6. \A t \in Tasks : Calling(t) BY <1>2, IdleIs DEF Calling
<1>7. QED BY <1>1, <1>3, <1>4, <1>5, <1>6 DEF PInv

LEMMA Inductive == PInv /\ [Next]_portable => PInv'
<1> SUFFICES ASSUME PInv, [Next]_portable PROVE PInv' OBVIOUS
<1>1. ASSUME NEW t \in Tasks, Blocks(t), UNCHANGED <<codec, envelopes, call, calls>> PROVE PInv'
  BY <1>1, BlockStep
<1>2. CASE Writes /\ UNCHANGED <<codec, envelopes, call, calls>> BY <1>2, WriteStep
<1>3. ASSUME NEW t \in Tasks, Calls(t) PROVE PInv' BY <1>3, CallStep
<1>4. ASSUME NEW dump \in Codec, NEW load \in Codec, SetCodec(dump, load) PROVE PInv'
  BY <1>4, CodecStep
<1>5. CASE UNCHANGED portable
  <2>1. UNCHANGED <<views, spaces, boxes, codec, envelopes, call, calls>>
    BY <1>5 DEF portable, views
  <2>2. VInv' BY <2>1, Sequel DEF PInv
  <2>3. PTypes' BY <2>1 DEF PInv, PTypes
  <2>4. \A i \in Ids : IsHeld(i)' => IsHeld(i) BY <2>1 DEF IsHeld
  <2>5. QED BY <2>1, <2>2, <2>3, <2>4, Quiet
<1>6. QED BY <1>1, <1>2, <1>3, <1>4, <1>5 DEF Next

\* What follows holds of every program made of blocks, writes, calls and codec changes.
THEOREM Always == Spec => []PInv
<1>1. Init => PInv BY Starts
<1>2. PInv /\ [Next]_portable => PInv' BY Inductive
<1>3. QED BY <1>1, <1>2, PTL DEF Spec

Stacks == stack = [t \in Tasks |-> stack[t]]

LEMMA Stacking == Spec => []Stacks
<1>1. Init => Stacks BY DEF Init, ViewsInit, Stacks
<1>2. Stacks /\ [Next]_portable => Stacks'
  <2> SUFFICES ASSUME Stacks, [Next]_portable PROVE Stacks' OBVIOUS
  <2>1. ASSUME UNCHANGED stack PROVE Stacks' BY <2>1 DEF Stacks
  <2>2. ASSUME NEW t \in Tasks, NEW s, stack' = [stack EXCEPT ![t] = s] PROVE Stacks'
    BY <2>2 DEF Stacks
  <2>3. ASSUME NEW t \in Tasks, Blocks(t) PROVE Stacks'
    BY <2>1, <2>2, <2>3 DEF Blocks, EnterPlain, EnterExtending, Expire, Unwind, Fork, Push
  <2>4. ASSUME NEW t \in Tasks, Calls(t) PROVE Stacks'
    BY <2>1, <2>2, <2>4 DEF Calls, Export, ExportName, ExportFail, ExportEnd, Adopt, AdoptName,
       AdoptFail, AdoptOpen, AdoptEnter, AdoptEnd, Begin, Fail, Push
  <2>5. QED BY <2>1, <2>3, <2>4 DEF Next, Writes, Write, WriteBox, SetCodec, portable, views
<1>3. QED BY <1>1, <1>2, PTL DEF Spec

\* Every variable keeps its type: an envelope is a versioned record of namespaces, a
\* call builds namespaces only, and each is of containers the process knows.
THEOREM TypeCorrect == Spec => []TypeOK
<1>1. PInv /\ Stacks => TypeOK
  <2> SUFFICES ASSUME PInv, Stacks PROVE TypeOK OBVIOUS
  <2>1. Types /\ PTypes BY DEF PInv, VInv
  <2>2. DOMAIN entries = 1..Len(entries) BY <2>1 DEF Types
  <2>3. \A e \in DOMAIN entries : entries[e].space \in DOMAIN spaces
    BY <2>2 DEF PInv, VInv, Entered
  <2>4. \A t \in Tasks : \A i \in DOMAIN stack[t] : stack[t][i] \in DOMAIN entries
    <3> SUFFICES ASSUME NEW t \in Tasks, NEW i \in DOMAIN stack[t]
                 PROVE  stack[t][i] \in DOMAIN entries
      OBVIOUS
    <3>1. stack[t] \in Seq(Nat) /\ \A j \in 1..Len(stack[t]) : stack[t][j] \in 1..Len(entries)
      BY DEF PInv, VInv, Stacked
    <3>2. i \in 1..Len(stack[t]) BY <3>1
    <3>3. QED BY <2>2, <3>1, <3>2
  <2>5. stack \in [Tasks -> Seq(Nat)] /\ active \in [Providers -> Nat]
    BY <2>1 DEF PInv, VInv, Types, Stacked, Stacks
  <2>6. \A p \in Providers : active[p] \in DOMAIN entries \cup {0} BY <2>1, <2>2 DEF Types
  <2>7. QED BY <2>1, <2>3, <2>4, <2>5, <2>6 DEF Types, PTypes, TypeOK, ViewsTypeOK
<1>2. QED BY <1>1, Always, Stacking, PTL

\* export() and adopt() rebuild every container, so no write to a namespace reaches an
\* envelope or a call's result, and none below adopt() reaches the payload.
THEOREM Aparts == Spec => []EnvelopeApart
<1>1. ASSUME PInv PROVE EnvelopeApart
  <2>1. ASSUME NEW k \in DOMAIN envelopes, NEW i \in BoxesIn(envelopes[k].ctx)
        PROVE  /\ i \in Ids /\ ~ IsHeld(i)
               /\ \A t \in Tasks : call[t].step # "idle" => call[t].nr # i[1]
    BY <1>1 DEF PInv, Apart, BoxesIn
  <2>2. ASSUME NEW t \in Tasks, NEW i \in BoxesIn(call[t].built)
        PROVE  call[t].step # "idle" /\ i[1] = call[t].nr /\ i \in Ids /\ ~ IsHeld(i)
    <3>1. PICK n \in Names, a \in Attrs : call[t].built[n] # None /\ call[t].built[n][a] = i
      BY DEF BoxesIn
    <3>2. i \in Ids BY DEF BoxesIn
    <3>3. Calling(t) BY <1>1 DEF PInv
    <3>4. call[t].step # "idle" BY <3>1, <3>3 DEF Calling, Nothing
    <3>5. i[1] = call[t].nr /\ i[2] = n BY <3>1, <3>2, <3>3, <3>4 DEF Calling
    <3>6. ~ IsHeld(i) BY <3>1, <3>2, <3>3, <3>4, <3>5 DEF Calling
    <3>7. QED BY <3>2, <3>4, <3>5, <3>6
  <2>3. \A i \in Ids : i \in Held => IsHeld(i) BY DEF Held, IsHeld
  <2>4. QED BY <2>1, <2>2, <2>3 DEF EnvelopeApart
<1>2. QED BY <1>1, Always, PTL

\* However often set_codec() runs in between, what one export() or adopt() carries goes
\* through the codec it read as it began.
THEOREM OneCodecServes == Spec => []OneCodec
<1>1. ASSUME PInv PROVE OneCodec
  <2>1. ASSUME NEW k \in DOMAIN envelopes PROVE OneVia(envelopes[k]) BY <1>1 DEF PInv
  <2>2. ASSUME NEW t \in Tasks, NEW n \in Names, call[t].built[n] # None
        PROVE  call[t].via[n] = call[t].codec
    BY <1>1, <2>2 DEF PInv, Calling, Nothing
  <2>3. QED BY <2>1, <2>2 DEF OneCodec, OneVia
<1>2. QED BY <1>1, Always, PTL

\* Nothing but a write through a view changes a namespace, exported, adopted or
\* neither: export() reads it, and adopt() opens one of its own.
THEOREM CallsWriteNothing == Spec => ChangedByWrites
<1>1. ASSUME PInv, [Next]_portable PROVE [Written]_views
  <2>1. VInv BY <1>1 DEF PInv
  <2>2. ASSUME UNCHANGED spaces PROVE Written BY <2>2 DEF Written
  <2>3. ASSUME NEW t \in Tasks, Calls(t) PROVE Written
    <3>1. ASSUME NEW n \in Names, AdoptOpen(t, n) PROVE Written
      BY <2>1, <3>1, OpensUnwritten DEF AdoptOpen
    <3>2. QED
      BY <2>2, <2>3, <3>1 DEF Calls, Export, ExportName, ExportFail, ExportEnd, Adopt, AdoptName,
         AdoptFail, AdoptEnter, AdoptEnd, Begin, Fail
  <2>4. QED
    BY <1>1, <2>1, <2>2, <2>3, BlocksUnwritten, WritesWritten DEF Next, SetCodec, portable, views
<1>2. Spec => [][Written]_views BY <1>1, Always, PTL DEF Spec
<1>3. QED BY <1>2, PTL DEF ChangedByWrites, Written

-----------------------------------------------------------------------------
(* What a round trip keeps. *)

\* A namespace by its contents, the containers holding what bx says.
DeepIn(bx, space) ==
    [a \in Attrs |-> IF space[a] \in DOMAIN bx THEN [holds |-> bx[space[a]]] ELSE space[a]]

Fits(bx, space) ==
    /\ space \in Space /\ DOMAIN bx \subseteq Ids /\ \A i \in DOMAIN bx : bx[i] \in Content
    /\ \A a \in Attrs : space[a] \in Ids => space[a] \in DOMAIN bx

LEMMA DeepDumped ==
    ASSUME NEW bx, NEW space, Fits(bx, space), NEW c \in Codec
    PROVE  DeepIn(bx, Dumped(c, space)) = Dumped(c, DeepIn(bx, space))
<1>1. Opaque \in Content /\ Opaque \notin Ids /\ \A x \in Content : [holds |-> x] # Opaque
  BY AtomsAssumption, HoldsAssumption DEF Content
<1>2. c # None => Coded[c] \notin Ids BY CodedAssumption, AtomsAssumption DEF Codec, Content
<1>3. ASSUME NEW a \in Attrs
      PROVE  DeepIn(bx, Dumped(c, space))[a] = Dumped(c, DeepIn(bx, space))[a]
  <2>1. CASE space[a] \in DOMAIN bx
    <3>1. space[a] # Opaque /\ bx[space[a]] \in Content BY <1>1, <2>1 DEF Fits
    <3>2. QED BY <1>1, <2>1, <3>1 DEF DeepIn, Dumped
  <2>2. CASE space[a] \notin DOMAIN bx BY <1>1, <1>2, <2>2 DEF DeepIn, Dumped, Fits
  <2>3. QED BY <2>1, <2>2
<1>4. QED BY <1>3 DEF DeepIn, Dumped

LEMMA DeepLoaded ==
    ASSUME NEW bx, NEW space, Fits(bx, space), NEW c \in Codec
    PROVE  DeepIn(bx, Loaded(c, space)) = Loaded(c, DeepIn(bx, space))
<1>1. Opaque \in Content /\ Opaque \notin Ids BY AtomsAssumption DEF Content
<1>2. c # None => /\ Coded[c] \notin Ids /\ Coded[c] \in Content
                  /\ \A x \in Content : [holds |-> x] # Coded[c]
  BY CodedAssumption, AtomsAssumption, HoldsAssumption DEF Codec, Content
<1>3. ASSUME NEW a \in Attrs
      PROVE  DeepIn(bx, Loaded(c, space))[a] = Loaded(c, DeepIn(bx, space))[a]
  <2>1. CASE space[a] \in DOMAIN bx
    <3>1. space[a] \in Ids /\ bx[space[a]] \in Content BY <2>1 DEF Fits
    <3>2. ~ (c # None /\ space[a] = Coded[c]) BY <1>2, <3>1
    <3>3. Loaded(c, space)[a] = space[a] BY <3>2 DEF Loaded
    <3>4. DeepIn(bx, space)[a] = [holds |-> bx[space[a]]] BY <2>1 DEF DeepIn
    <3>5. Loaded(c, DeepIn(bx, space))[a] = [holds |-> bx[space[a]]]
      BY <1>2, <3>1, <3>4 DEF Loaded
    <3>6. QED BY <2>1, <3>3, <3>5 DEF DeepIn
  <2>2. CASE space[a] \notin DOMAIN bx BY <1>1, <1>2, <2>2 DEF DeepIn, Loaded, Fits
  <2>3. QED BY <2>1, <2>2
<1>4. QED BY <1>3 DEF DeepIn, Loaded

\* Loading undoes dumping, where nothing looked coded before.
LEMMA Undone ==
    ASSUME NEW c \in Codec, NEW was, was = [a \in Attrs |-> was[a]],
           \A a \in Attrs, d \in Codecs : was[a] # Coded[d]
    PROVE  Loaded(c, Dumped(c, was)) = was
<1>1. ASSUME NEW a \in Attrs PROVE Loaded(c, Dumped(c, was))[a] = was[a]
  BY DEF Loaded, Dumped, Codec
<1>2. Loaded(c, Dumped(c, was)) = [a \in Attrs |-> Loaded(c, Dumped(c, was))[a]] BY DEF Loaded
<1>3. QED BY <1>1, <1>2

LEMMA DeepBuilt ==
    ASSUME PInv, NEW space, Whole(space), NEW nr \in Nat, NEW n \in Names,
           boxes' = Built(space, nr, n)
    PROVE  /\ DeepIn(boxes', Rebuilt(space, nr, n)) = DeepOf(space)
           /\ Fits(boxes', Rebuilt(space, nr, n))
           /\ \A i \in DOMAIN boxes : ~ (i[1] = nr /\ i[2] = n) => boxes'[i] = boxes[i]
<1> DEFINE ids == {<<nr, n, a>> : a \in BoxAttrs(space)}
<1>1. DOMAIN boxes' = DOMAIN boxes \cup ids BY DEF Built
<1>2. ASSUME NEW a \in Attrs
      PROVE  DeepIn(boxes', Rebuilt(space, nr, n))[a] = DeepOf(space)[a]
  <2>1. CASE a \in BoxAttrs(space)
    <3>1. <<nr, n, a>> \in ids /\ <<nr, n, a>>[3] = a BY <2>1
    <3>2. boxes'[<<nr, n, a>>] = boxes[space[a]] BY <3>1 DEF Built
    <3>3. Rebuilt(space, nr, n)[a] = <<nr, n, a>> BY <2>1 DEF Rebuilt
    <3>4. space[a] \in DOMAIN boxes BY <2>1 DEF BoxAttrs
    <3>5. DeepIn(boxes', Rebuilt(space, nr, n))[a] = [holds |-> boxes[space[a]]]
      BY <1>1, <3>1, <3>2, <3>3 DEF DeepIn
    <3>6. QED BY <3>4, <3>5 DEF DeepOf
  <2>2. CASE a \notin BoxAttrs(space)
    <3>1. space[a] \notin DOMAIN boxes /\ space[a] \notin Ids BY <2>2 DEF BoxAttrs, Whole
    <3>2. Rebuilt(space, nr, n)[a] = space[a] BY <2>2 DEF Rebuilt
    <3>3. ids \subseteq Ids BY DEF Ids, BoxAttrs
    <3>4. QED BY <1>1, <3>1, <3>2, <3>3 DEF DeepIn, DeepOf
  <2>3. QED BY <2>1, <2>2
<1>3. DeepIn(boxes', Rebuilt(space, nr, n)) = DeepOf(space) BY <1>2 DEF DeepIn, DeepOf
<1>4. Fits(boxes', Rebuilt(space, nr, n)) BY BuiltIs DEF Fits
<1>5. ASSUME NEW i \in DOMAIN boxes, ~ (i[1] = nr /\ i[2] = n) PROVE boxes'[i] = boxes[i]
  <2>1. i \notin ids BY <1>5
  <2>2. QED BY <2>1 DEF Built
<1>6. QED BY <1>3, <1>4, <1>5

\* What is in no container that changed is still what it was.
LEMMA DeepStays ==
    ASSUME PInv, PInv', NEW space \in Space,
           \A a \in Attrs : space[a] \in Ids =>
               /\ space[a] \in DOMAIN boxes /\ space[a] \in DOMAIN boxes'
               /\ boxes'[space[a]] = boxes[space[a]]
    PROVE  DeepIn(boxes', space) = DeepIn(boxes, space)
<1>1. DOMAIN boxes \subseteq Ids /\ DOMAIN boxes' \subseteq Ids BY DEF PInv, VInv, Types
<1>2. \A a \in Attrs : DeepIn(boxes', space)[a] = DeepIn(boxes, space)[a] BY <1>1 DEF DeepIn
<1>3. QED BY <1>2 DEF DeepIn

\* An envelope carries, under its codec, what each namespace was.
Faithful(bx, e) ==
    \A n \in Names : e.ctx[n] # None => DeepIn(bx, e.ctx[n]) = Dumped(e.via[n], e.was[n])

\* A call has built what it was to build for the names it is done with.
Round(bx, c) ==
    /\ c.step \in {"export", "adopt"} => \A n \in c.left : c.built[n] = None
    /\ c.step = "export" =>
          \A n \in Names : c.built[n] # None =>
              DeepIn(bx, c.built[n]) = Dumped(c.via[n], c.was[n])
    /\ c.step \in {"adopt", "open"} =>
          \A n \in Names : c.built[n] # None =>
              /\ c.payload.ctx[n] # None
              /\ DeepIn(bx, c.built[n]) = Loaded(c.via[n], DeepIn(bx, c.payload.ctx[n]))

From(p) == p \in Foreign \/ \E k \in DOMAIN envelopes : envelopes[k] = p

RInv ==
    /\ \A k \in DOMAIN envelopes : Faithful(boxes, envelopes[k])
    /\ \A t \in Tasks : /\ Round(boxes, call[t])
                        /\ call[t].step \in {"adopt", "open"} => From(call[t].payload)

\* The number of a call under way, or 0; and a step that changes no container but
\* those held, and those that call built.
Reserved(nr) == nr = 0 \/ \E t \in Tasks : call[t].step # "idle" /\ call[t].nr = nr
Changes(nr) ==
    \A i \in DOMAIN boxes :
        ~ IsHeld(i) /\ i[1] # nr => i \in DOMAIN boxes' /\ boxes'[i] = boxes[i]

LEMMA PayloadStays ==
    ASSUME PInv, PInv', NEW p, From(p), NEW n \in Names, p.ctx[n] # None,
           NEW nr, Reserved(nr), Changes(nr)
    PROVE  DeepIn(boxes', p.ctx[n]) = DeepIn(boxes, p.ctx[n])
<1>1. CASE p \in Foreign
  <2>1. \A a \in Attrs : p.ctx[n][a] \in Content \cup {Absent} BY <1>1, ForeignAssumption
  <2>2. \A a \in Attrs : p.ctx[n][a] \notin Ids BY <2>1, AtomsAssumption
  <2>3. DOMAIN boxes \subseteq Ids /\ DOMAIN boxes' \subseteq Ids BY DEF PInv, VInv, Types
  <2>4. QED BY <2>2, <2>3 DEF DeepIn
<1>2. ASSUME NEW k \in DOMAIN envelopes, envelopes[k] = p
      PROVE  DeepIn(boxes', p.ctx[n]) = DeepIn(boxes, p.ctx[n])
  <2>1. Apart(p) /\ p.ctx[n] \in Space
    <3>1. Apart(p) /\ p \in Envelope BY <1>2 DEF PInv, PTypes
    <3>2. QED BY <3>1 DEF Envelope, Carried
  <2>2. ASSUME NEW a \in Attrs, p.ctx[n][a] \in Ids
        PROVE  /\ p.ctx[n][a] \in DOMAIN boxes /\ p.ctx[n][a] \in DOMAIN boxes'
               /\ boxes'[p.ctx[n][a]] = boxes[p.ctx[n][a]]
    <3>1. /\ p.ctx[n][a] \in DOMAIN boxes /\ ~ IsHeld(p.ctx[n][a])
          /\ p.ctx[n][a][1] \in 1..calls
          /\ \A t \in Tasks : call[t].step # "idle" => call[t].nr # p.ctx[n][a][1]
      BY <2>1, <2>2 DEF Apart
    <3>2. p.ctx[n][a][1] # nr BY <3>1 DEF Reserved
    <3>3. QED BY <3>1, <3>2 DEF Changes
  <2>3. QED BY <2>1, <2>2, DeepStays
<1>3. QED BY <1>1, <1>2 DEF From

LEMMA EnvelopeStays ==
    ASSUME PInv, PInv', RInv, NEW k \in DOMAIN envelopes, NEW nr, Reserved(nr), Changes(nr)
    PROVE  Faithful(boxes', envelopes[k])
<1>1. From(envelopes[k]) BY DEF From
<1>2. Faithful(boxes, envelopes[k]) BY DEF RInv
<1>3. QED BY <1>1, <1>2, PayloadStays DEF Faithful

\* What call t built for n is in its own containers, which no namespace holds yet.
LEMMA OwnBuilt ==
    ASSUME PInv, NEW t \in Tasks, NEW n \in Names, call[t].built[n] # None
    PROVE  /\ call[t].step # "idle" /\ call[t].nr \in 1..calls /\ call[t].built[n] \in Space
           /\ call[t].via[n] = call[t].codec
           /\ \A a \in Attrs : call[t].built[n][a] \in Ids =>
                 /\ call[t].built[n][a] \in DOMAIN boxes /\ ~ IsHeld(call[t].built[n][a])
                 /\ call[t].built[n][a][1] = call[t].nr /\ call[t].built[n][a][2] = n
<1>1. Calling(t) BY DEF PInv
<1>2. call[t].step # "idle" BY <1>1 DEF Calling, Nothing
<1>3. call[t].built[n] \in Space BY DEF PInv, PTypes, Call, Carried
<1>4. QED BY <1>1, <1>2, <1>3 DEF Calling

LEMMA RoundStays ==
    ASSUME PInv, PInv', RInv, NEW t \in Tasks, NEW nr, Reserved(nr), Changes(nr),
           call[t].step # "idle" => call[t].nr # nr
    PROVE  Round(boxes', call[t])
<1>1. ASSUME NEW n \in Names, call[t].built[n] # None
      PROVE  DeepIn(boxes', call[t].built[n]) = DeepIn(boxes, call[t].built[n])
  <2>1. ASSUME NEW a \in Attrs, call[t].built[n][a] \in Ids
        PROVE  /\ call[t].built[n][a] \in DOMAIN boxes /\ call[t].built[n][a] \in DOMAIN boxes'
               /\ boxes'[call[t].built[n][a]] = boxes[call[t].built[n][a]]
    BY <1>1, <2>1, OwnBuilt DEF Changes
  <2>2. call[t].built[n] \in Space BY <1>1, OwnBuilt
  <2>3. QED BY <2>1, <2>2, DeepStays
<1>2. Round(boxes, call[t]) /\ (call[t].step \in {"adopt", "open"} => From(call[t].payload))
  BY DEF RInv
<1>3. ASSUME call[t].step \in {"adopt", "open"}, NEW n \in Names, call[t].built[n] # None
      PROVE  DeepIn(boxes', call[t].payload.ctx[n]) = DeepIn(boxes, call[t].payload.ctx[n])
  BY <1>2, <1>3, PayloadStays DEF Round
<1>4. QED BY <1>1, <1>2, <1>3 DEF Round

\* A step of no call.
LEMMA RoundQuiet ==
    ASSUME PInv, PInv', RInv, UNCHANGED <<envelopes, call>>, Changes(0) PROVE RInv'
<1>1. Reserved(0) BY DEF Reserved
<1>2. \A t \in Tasks : call[t].step # "idle" => call[t].nr # 0 BY DEF PInv, Calling
<1>3. \A k \in DOMAIN envelopes : Faithful(boxes', envelopes[k]) BY <1>1, EnvelopeStays
<1>4. \A t \in Tasks : Round(boxes', call[t]) BY <1>1, <1>2, RoundStays
<1>5. \A t \in Tasks : call[t].step \in {"adopt", "open"} => From(call[t].payload) BY DEF RInv
<1>6. QED BY <1>3, <1>4, <1>5 DEF RInv, From

\* A step of call t, which becomes d.
LEMMA RoundStep ==
    ASSUME PInv, PInv', RInv, NEW t \in Tasks, NEW d, call' = [call EXCEPT ![t] = d],
           NEW nr, Reserved(nr), Changes(nr), nr # 0 => call[t].step # "idle" /\ nr = call[t].nr,
           \A k \in DOMAIN envelopes : k \in DOMAIN envelopes' /\ envelopes'[k] = envelopes[k],
           \A k \in DOMAIN envelopes' : k \in DOMAIN envelopes \/ Faithful(boxes', envelopes'[k]),
           Round(boxes', d), d.step \in {"adopt", "open"} => From(d.payload)
    PROVE  RInv'
<1>1. DOMAIN call = Tasks BY DEF PInv, PTypes
<1>2. call'[t] = d /\ \A u \in Tasks \ {t} : call'[u] = call[u] BY <1>1
<1>3. \A u \in Tasks \ {t} : call[u].step # "idle" => call[u].nr # nr
  BY DEF PInv, Calling
<1>4. \A u \in Tasks \ {t} : Round(boxes', call[u]) BY <1>3, RoundStays
<1>5. \A k \in DOMAIN envelopes' : Faithful(boxes', envelopes'[k]) BY EnvelopeStays
<1>6. \A u \in Tasks \ {t} : call[u].step \in {"adopt", "open"} => From(call[u].payload)'
  BY DEF RInv, From
<1>7. d.step \in {"adopt", "open"} => From(d.payload)' BY DEF From
<1>8. QED BY <1>2, <1>4, <1>5, <1>6, <1>7 DEF RInv, From

LEMMA BeginRound ==
    ASSUME PInv, PInv', RInv, NEW t \in Tasks, NEW job, Begin(t, job),
           job.built = Nothing, job.step = "adopt" => From(job.payload),
           job.step \in {"export", "adopt"}, job.left \subseteq Names
    PROVE  RInv'
<1>1. /\ call' = [call EXCEPT ![t] = job] /\ UNCHANGED <<boxes, envelopes>>
  BY DEF Begin
<1>2. Reserved(0) /\ Changes(0) BY <1>1 DEF Reserved, Changes
<1>3. Round(boxes', job) BY DEF Round, Nothing
<1>4. QED BY <1>1, <1>2, <1>3, RoundStep

LEMMA ExportRound ==
    ASSUME PInv, PInv', RInv, NEW t \in Tasks, NEW names \in SUBSET Names, Export(t, names)
    PROVE  RInv'
<1> DEFINE job == [Idle EXCEPT !.step = "export", !.nr = calls + 1, !.names = names,
                               !.left = names, !.codec = codec.dump]
<1>1. job.step = "export" /\ job.built = Nothing /\ job.left = names BY DEF Idle
<1>2. Begin(t, job) BY DEF Export
<1> HIDE DEF job
<1>3. QED BY <1>1, <1>2, BeginRound

LEMMA AdoptRound ==
    ASSUME PInv, PInv', RInv, NEW t \in Tasks, NEW payload \in ToSet(envelopes) \cup Foreign,
           NEW only \in SUBSET Names, Adopt(t, payload, only)
    PROVE  RInv'
<1> DEFINE names == {n \in only : payload.ctx[n] # None}
           job == [Idle EXCEPT !.step = "adopt", !.nr = calls + 1, !.names = names,
                               !.left = names, !.codec = codec.load, !.payload = payload]
<1>1. From(payload) BY DEF From, ToSet
<1>2. /\ job.step = "adopt" /\ job.built = Nothing /\ job.left = names
      /\ job.payload = payload
  BY DEF Idle
<1>3. Begin(t, job) BY DEF Adopt
<1>4. names \subseteq Names OBVIOUS
<1> HIDE DEF job, names
<1>5. QED BY <1>1, <1>2, <1>3, <1>4, BeginRound

LEMMA OverRound == Idle.step = "idle" /\ \A bx : Round(bx, Idle)
BY DEF Idle, Round

LEMMA FailRound ==
    ASSUME PInv, PInv', RInv, NEW t \in Tasks, call[t].step \in {"export", "adopt"}, Fail(t)
    PROVE  RInv'
<1> DEFINE nr == call[t].nr
<1>1. /\ call' = [call EXCEPT ![t] = Idle] /\ envelopes' = envelopes
      /\ boxes' = [i \in {j \in DOMAIN boxes : j[1] # nr} |-> boxes[i]]
  BY DEF Fail, Restrict
<1>2. Reserved(nr) /\ Changes(nr) BY <1>1 DEF Reserved, Changes
<1>3. QED BY <1>1, <1>2, OverRound, RoundStep

\* A step that builds for name n, having checked that space is whole.
LEMMA BuildsOwn ==
    ASSUME PInv, PInv', NEW t \in Tasks, call[t].step # "idle", NEW n \in Names,
           NEW space, Whole(space), boxes' = Built(space, call[t].nr, n)
    PROVE  /\ Reserved(call[t].nr) /\ Changes(call[t].nr)
           /\ \A m \in Names \ {n} : call[t].built[m] # None =>
                 DeepIn(boxes', call[t].built[m]) = DeepIn(boxes, call[t].built[m])
<1>1. call[t].nr \in Nat /\ DOMAIN boxes \subseteq DOMAIN boxes'
  <2>1. call[t].nr \in Nat BY DEF PInv, PTypes, Call
  <2>2. QED BY <2>1, BuiltIs
<1>2. \A i \in DOMAIN boxes : ~ (i[1] = call[t].nr /\ i[2] = n) => boxes'[i] = boxes[i]
  BY <1>1, DeepBuilt
<1>3. Reserved(call[t].nr) BY DEF Reserved
<1>4. Changes(call[t].nr) BY <1>1, <1>2 DEF Changes
<1>5. ASSUME NEW m \in Names \ {n}, call[t].built[m] # None
      PROVE  DeepIn(boxes', call[t].built[m]) = DeepIn(boxes, call[t].built[m])
  <2>1. call[t].built[m] \in Space BY <1>5, OwnBuilt
  <2>2. ASSUME NEW a \in Attrs, call[t].built[m][a] \in Ids
        PROVE  /\ call[t].built[m][a] \in DOMAIN boxes /\ call[t].built[m][a] \in DOMAIN boxes'
               /\ boxes'[call[t].built[m][a]] = boxes[call[t].built[m][a]]
    BY <1>1, <1>2, <1>5, <2>2, OwnBuilt
  <2>3. QED BY <2>1, <2>2, DeepStays
<1>6. QED BY <1>3, <1>4, <1>5

LEMMA ExportNameRound ==
    ASSUME PInv, PInv', RInv, NEW t \in Tasks, NEW n \in Names, ExportName(t, n) PROVE RInv'
<1> DEFINE c == call[t]
           space == spaces[entries[Found(t, n)].space]
           out == Dumped(c.codec, space)
           new == Rebuilt(out, c.nr, n)
           d == [c EXCEPT !.left = @ \ {n}, !.built[n] = new,
                          !.via[n] = c.codec, !.was[n] = DeepOf(space)]
<1>1. /\ c.step = "export" /\ n \in c.left /\ Found(t, n) # 0
      /\ boxes' = Built(out, c.nr, n) /\ call' = [call EXCEPT ![t] = d]
      /\ envelopes' = envelopes
  BY DEF ExportName, Half
<1>2. c \in Call /\ c.codec \in Codec /\ c.nr \in Nat BY DEF PInv, PTypes, Call
<1>3. Whole(space) /\ Whole(out) BY <1>1, <1>2, FoundWhole, DumpedIs
<1>4. DeepIn(boxes', new) = Dumped(c.codec, DeepOf(space))
  <2>1. Fits(boxes, space) BY <1>3 DEF Fits, Whole, PInv, VInv, Types
  <2>2. DeepOf(out) = DeepIn(boxes, out) /\ DeepOf(space) = DeepIn(boxes, space)
    BY DEF DeepOf, DeepIn
  <2>3. DeepIn(boxes, out) = Dumped(c.codec, DeepIn(boxes, space)) BY <1>2, <2>1, DeepDumped
  <2> HIDE DEF out, space
  <2>4. DeepIn(boxes', new) = DeepOf(out) BY <1>1, <1>2, <1>3, DeepBuilt
  <2>5. QED BY <2>2, <2>3, <2>4
<1>5. /\ Reserved(c.nr) /\ Changes(c.nr)
      /\ \A m \in Names \ {n} : c.built[m] # None =>
            DeepIn(boxes', c.built[m]) = DeepIn(boxes, c.built[m])
  <2> HIDE DEF out, space
  <2>1. QED BY <1>1, <1>3, BuildsOwn
<1> HIDE DEF out, space, new
<1>6. /\ d.step = "export" /\ d.left = c.left \ {n} /\ d.built = [c.built EXCEPT ![n] = new]
      /\ d.via = [c.via EXCEPT ![n] = c.codec] /\ d.was = [c.was EXCEPT ![n] = DeepOf(space)]
  BY <1>1, <1>2 DEF Call
<1>7. /\ DOMAIN c.built = Names /\ DOMAIN c.via = Names /\ DOMAIN c.was = Names
      /\ c.left \subseteq Names
  BY <1>2 DEF Call, Carried
<1> HIDE DEF d
<1>8. Round(boxes', d)
  <2>1. Round(boxes, c) BY DEF RInv
  <2>2. \A m \in d.left : d.built[m] = None BY <1>1, <1>6, <1>7, <2>1 DEF Round
  <2>3. ASSUME NEW m \in Names, d.built[m] # None
        PROVE  DeepIn(boxes', d.built[m]) = Dumped(d.via[m], d.was[m])
    <3>1. CASE m = n BY <1>4, <1>6, <1>7, <3>1
    <3>2. CASE m # n BY <1>1, <1>5, <1>6, <1>7, <2>1, <2>3, <3>2 DEF Round
    <3>3. QED BY <3>1, <3>2
  <2>4. QED BY <1>6, <2>2, <2>3 DEF Round
<1>9. QED BY <1>1, <1>5, <1>6, <1>8, RoundStep

LEMMA ExportEndRound ==
    ASSUME PInv, PInv', RInv, NEW t \in Tasks, ExportEnd(t) PROVE RInv'
<1> DEFINE c == call[t]
           e == [v |-> Version, ctx |-> c.built, via |-> c.via, was |-> c.was]
<1>1. /\ c.step = "export" /\ envelopes' = Append(envelopes, e)
      /\ call' = [call EXCEPT ![t] = Idle] /\ boxes' = boxes
  BY DEF ExportEnd
<1>2. c \in Call BY DEF PInv, PTypes
<1>3. e \in Envelope BY <1>2 DEF Envelope, Call, Version
<1>4. Faithful(boxes', e) BY <1>1 DEF RInv, Round, Faithful
<1> HIDE DEF e
<1>5. /\ Len(envelopes') = Len(envelopes) + 1 /\ envelopes' \in Seq(Envelope)
      /\ \A k \in 1..Len(envelopes) : envelopes'[k] = envelopes[k]
      /\ envelopes'[Len(envelopes) + 1] = e /\ Len(envelopes) \in Nat
      /\ DOMAIN envelopes = 1..Len(envelopes)
  BY <1>1, <1>3, Appended DEF PInv, PTypes
<1>6. DOMAIN envelopes' = 1..Len(envelopes) + 1 BY <1>5
<1>7. \A k \in 1..Len(envelopes) + 1 : k \in 1..Len(envelopes) \/ k = Len(envelopes) + 1
  BY <1>5
<1>8. \A k \in 1..Len(envelopes) : k \in 1..Len(envelopes) + 1 BY <1>5
<1>9. /\ \A k \in DOMAIN envelopes : k \in DOMAIN envelopes' /\ envelopes'[k] = envelopes[k]
      /\ \A k \in DOMAIN envelopes' : k \in DOMAIN envelopes \/ envelopes'[k] = e
  BY <1>5, <1>6, <1>7, <1>8
<1>10. Reserved(0) /\ Changes(0) BY <1>1 DEF Reserved, Changes
<1>11. QED BY <1>1, <1>4, <1>9, <1>10, OverRound, RoundStep

LEMMA AdoptNameRound ==
    ASSUME PInv, PInv', RInv, NEW t \in Tasks, NEW n \in Names, AdoptName(t, n) PROVE RInv'
<1> DEFINE c == call[t]
           space == c.payload.ctx[n]
           copy == Rebuilt(space, c.nr, n)
           new == Loaded(c.codec, copy)
           d == [c EXCEPT !.left = @ \ {n}, !.built[n] = new, !.via[n] = c.codec]
<1>1. /\ c.step = "adopt" /\ n \in c.left
      /\ boxes' = Built(space, c.nr, n) /\ call' = [call EXCEPT ![t] = d]
      /\ envelopes' = envelopes
  BY DEF AdoptName, Half
<1>2. c \in Call /\ c.codec \in Codec /\ c.nr \in Nat BY DEF PInv, PTypes, Call
<1>3. Whole(space) /\ space # None /\ From(c.payload)
  <2>1. From(c.payload) BY <1>1 DEF RInv
  <2>2. Calling(t) BY DEF PInv
  <2>3. c.payload.ctx[n] # None BY <1>1, <2>2 DEF Calling
  <2>4. QED BY <1>1, <2>1, <2>3, PayloadWhole
<1>4. /\ Reserved(c.nr) /\ Changes(c.nr)
      /\ \A m \in Names \ {n} : c.built[m] # None =>
            DeepIn(boxes', c.built[m]) = DeepIn(boxes, c.built[m])
  <2> HIDE DEF space
  <2>1. QED BY <1>1, <1>3, BuildsOwn
<1>5. DeepIn(boxes', new) = Loaded(c.codec, DeepIn(boxes', space))
  <2>1. DeepIn(boxes', space) = DeepIn(boxes, space) BY <1>3, <1>4, PayloadStays
  <2>2. DeepOf(space) = DeepIn(boxes, space) BY DEF DeepOf, DeepIn
  <2> HIDE DEF space
  <2>3. DeepIn(boxes', copy) = DeepOf(space) /\ Fits(boxes', copy)
    BY <1>1, <1>2, <1>3, DeepBuilt
  <2> HIDE DEF copy
  <2>4. DeepIn(boxes', new) = Loaded(c.codec, DeepIn(boxes', copy)) BY <1>2, <2>3, DeepLoaded
  <2>5. QED BY <2>1, <2>2, <2>3, <2>4
<1> HIDE DEF copy, new
<1>6. /\ d.step = "adopt" /\ d.left = c.left \ {n} /\ d.built = [c.built EXCEPT ![n] = new]
      /\ d.via = [c.via EXCEPT ![n] = c.codec] /\ d.payload = c.payload
  BY <1>1, <1>2 DEF Call
<1>7. DOMAIN c.built = Names /\ DOMAIN c.via = Names /\ c.left \subseteq Names
  BY <1>2 DEF Call, Carried
<1> HIDE DEF d
<1>8. Round(boxes', d)
  <2>1. Round(boxes, c) BY DEF RInv
  <2>2. \A m \in d.left : d.built[m] = None BY <1>1, <1>6, <1>7, <2>1 DEF Round
  <2>3. ASSUME NEW m \in Names, d.built[m] # None
        PROVE  /\ d.payload.ctx[m] # None
               /\ DeepIn(boxes', d.built[m]) = Loaded(d.via[m], DeepIn(boxes', d.payload.ctx[m]))
    <3>1. CASE m = n BY <1>3, <1>5, <1>6, <1>7, <3>1
    <3>2. CASE m # n
      <4>1. c.built[m] # None /\ d.built[m] = c.built[m] /\ d.via[m] = c.via[m]
        BY <1>6, <1>7, <2>3, <3>2
      <4>2. /\ c.payload.ctx[m] # None
            /\ DeepIn(boxes, c.built[m]) = Loaded(c.via[m], DeepIn(boxes, c.payload.ctx[m]))
        BY <1>1, <2>1, <4>1 DEF Round
      <4>3. DeepIn(boxes', c.payload.ctx[m]) = DeepIn(boxes, c.payload.ctx[m])
        BY <1>3, <1>4, <4>2, PayloadStays
      <4>4. QED BY <1>4, <1>6, <3>2, <4>1, <4>2, <4>3
    <3>3. QED BY <3>1, <3>2
  <2>4. QED BY <1>6, <2>2, <2>3 DEF Round
<1>9. QED BY <1>1, <1>3, <1>4, <1>6, <1>8, RoundStep

\* The steps of adopt() that build nothing: blocks are opened for what is built.
LEMMA AdoptRest ==
    ASSUME PInv, PInv', RInv, NEW t \in Tasks, NEW d, call' = [call EXCEPT ![t] = d],
           UNCHANGED <<boxes, envelopes>>, call[t].step \in {"adopt", "open"},
           d.step = "open", d.payload = call[t].payload, d.via = call[t].via,
           \A n \in Names : d.built[n] # None => d.built[n] = call[t].built[n]
    PROVE  RInv'
<1>1. Reserved(0) /\ Changes(0) BY DEF Reserved, Changes
<1>2. Round(boxes, call[t]) /\ From(call[t].payload) BY DEF RInv
<1>3. Round(boxes', d) BY <1>2 DEF Round
<1>4. QED BY <1>1, <1>2, <1>3, RoundStep

LEMMA AdoptEnterRound == ASSUME PInv, PInv', RInv, NEW t \in Tasks, AdoptEnter(t) PROVE RInv'
<1> DEFINE d == [call[t] EXCEPT !.step = "open"]
<1>1. /\ call[t].step = "adopt" /\ UNCHANGED <<boxes, envelopes>>
      /\ call' = [call EXCEPT ![t] = d]
  BY DEF AdoptEnter
<1>2. call[t] \in Call BY DEF PInv, PTypes
<1>3. /\ d.step = "open" /\ d.payload = call[t].payload /\ d.via = call[t].via
      /\ d.built = call[t].built
  BY <1>2 DEF Call
<1> HIDE DEF d
<1>4. QED BY <1>1, <1>3, AdoptRest

LEMMA AdoptOpenRound ==
    ASSUME PInv, PInv', RInv, NEW t \in Tasks, NEW n \in Names, AdoptOpen(t, n) PROVE RInv'
<1> DEFINE d == [call[t] EXCEPT !.built[n] = None]
<1>1. /\ call[t].step = "open" /\ UNCHANGED <<boxes, envelopes>>
      /\ call' = [call EXCEPT ![t] = d]
  BY DEF AdoptOpen
<1>2. call[t] \in Call BY DEF PInv, PTypes
<1>3. /\ d.step = "open" /\ d.payload = call[t].payload /\ d.via = call[t].via
      /\ d.built = [call[t].built EXCEPT ![n] = None]
  BY <1>1, <1>2 DEF Call
<1>4. DOMAIN call[t].built = Names BY <1>2 DEF Call, Carried
<1> HIDE DEF d
<1>5. ASSUME NEW m \in Names, d.built[m] # None PROVE d.built[m] = call[t].built[m]
  BY <1>3, <1>4, <1>5
<1>6. call[t].step \in {"adopt", "open"} BY <1>1
<1>7. /\ d.step = "open" /\ d.payload = call[t].payload /\ d.via = call[t].via
      /\ \A m \in Names : d.built[m] # None => d.built[m] = call[t].built[m]
  BY <1>3, <1>5
<1>8. call' = [call EXCEPT ![t] = d] /\ UNCHANGED <<boxes, envelopes>> BY <1>1
<1>9. QED BY <1>6, <1>7, <1>8, AdoptRest, ZenonT(40)

LEMMA AdoptEndRound == ASSUME PInv, PInv', RInv, NEW t \in Tasks, AdoptEnd(t) PROVE RInv'
<1>1. /\ call' = [call EXCEPT ![t] = Idle] /\ UNCHANGED <<boxes, envelopes>>
  BY DEF AdoptEnd
<1>2. Reserved(0) /\ Changes(0) BY <1>1 DEF Reserved, Changes
<1>3. QED BY <1>1, <1>2, OverRound, RoundStep

LEMMA CallRound == ASSUME PInv, PInv', RInv, NEW t \in Tasks, Calls(t) PROVE RInv'
<1>1. CASE \E names \in SUBSET Names \ {{}} : Export(t, names) BY <1>1, ExportRound
<1>2. ASSUME NEW n \in Names, ExportName(t, n) PROVE RInv' BY <1>2, ExportNameRound
<1>3. ASSUME NEW n \in Names, ExportFail(t, n) PROVE RInv' BY <1>3, FailRound DEF ExportFail
<1>4. CASE ExportEnd(t) BY <1>4, ExportEndRound
<1>5. CASE \E payload \in ToSet(envelopes) \cup Foreign, only \in SUBSET Names :
              Adopt(t, payload, only)
  BY <1>5, AdoptRound
<1>6. ASSUME NEW n \in Names, AdoptName(t, n) PROVE RInv' BY <1>6, AdoptNameRound
<1>7. ASSUME NEW n \in Names, AdoptFail(t, n) PROVE RInv' BY <1>7, FailRound DEF AdoptFail
<1>8. ASSUME NEW n \in Names, AdoptOpen(t, n) PROVE RInv' BY <1>8, AdoptOpenRound
<1>9. CASE AdoptEnter(t) BY <1>9, AdoptEnterRound
<1>10. CASE AdoptEnd(t) BY <1>10, AdoptEndRound
<1>11. QED
  BY <1>1, <1>2, <1>3, <1>4, <1>5, <1>6, <1>7, <1>8, <1>9, <1>10 DEF Calls

\* A write into a container is into one a namespace holds.
LEMMA QuietRound ==
    ASSUME PInv, PInv', RInv, UNCHANGED <<envelopes, call>>,
           Writes \/ UNCHANGED boxes
    PROVE  RInv'
<1>1. Changes(0)
  <2>1. CASE UNCHANGED boxes BY <2>1 DEF Changes
  <2>2. ASSUME NEW i \in Held, NEW v, WriteBox(i, v) PROVE Changes(0)
    <3>1. boxes' = [boxes EXCEPT ![i] = v] BY <2>2 DEF WriteBox
    <3>2. IsHeld(i) BY DEF Held, IsHeld
    <3>3. QED BY <3>1, <3>2 DEF Changes
  <2>3. QED BY <2>1, <2>2 DEF Writes, Write
<1>2. QED BY <1>1, RoundQuiet

\* Whatever the program writes between export() and adopt(), and whatever codecs others
\* set meanwhile, what adopt() opens under the codec the envelope was made with is what
\* the namespace was as it was exported.
THEOREM RoundTrip == Spec => []ArrivesAsItself
<1>1. Init => RInv BY OverRound DEF Init, RInv
<1>2. PInv /\ PInv' /\ RInv /\ [Next]_portable => RInv'
  <2> SUFFICES ASSUME PInv, PInv', RInv, [Next]_portable PROVE RInv' OBVIOUS
  <2>1. ASSUME NEW t \in Tasks, Blocks(t), UNCHANGED <<codec, envelopes, call, calls>> PROVE RInv'
    BY <2>1, QuietRound DEF Blocks, EnterPlain, EnterExtending, Expire, Unwind, Fork
  <2>2. CASE Writes /\ UNCHANGED <<codec, envelopes, call, calls>> BY <2>2, QuietRound
  <2>3. ASSUME NEW t \in Tasks, Calls(t) PROVE RInv' BY <2>3, CallRound
  <2>4. ASSUME NEW dump, NEW load, SetCodec(dump, load) PROVE RInv'
    BY <2>4, QuietRound DEF SetCodec
  <2>5. CASE UNCHANGED portable BY <2>5, QuietRound DEF portable, views
  <2>6. QED BY <2>1, <2>2, <2>3, <2>4, <2>5 DEF Next
<1>3. ASSUME PInv, RInv PROVE ArrivesAsItself
  <2> SUFFICES ASSUME NEW t \in Tasks, call[t].step \in {"adopt", "open"}, NEW n \in Names,
                      call[t].built[n] # None, call[t].payload.was[n] # None,
                      call[t].via[n] = call[t].payload.via[n],
                      \A a \in Attrs, c \in Codecs : call[t].payload.was[n][a] # Coded[c]
               PROVE  DeepOf(call[t].built[n]) = call[t].payload.was[n]
    BY DEF ArrivesAsItself
  <2> DEFINE p == call[t].payload
             was == p.was[n]
             via == call[t].via[n]
  <2>1. Round(boxes, call[t]) /\ From(p) BY <1>3 DEF RInv
  <2>2. DeepIn(boxes, call[t].built[n]) = Loaded(via, DeepIn(boxes, p.ctx[n])) /\ p.ctx[n] # None
    BY <2>1 DEF Round
  <2>3. PICK k \in DOMAIN envelopes : envelopes[k] = p BY <2>1, ForeignAssumption DEF From
  <2>4. Faithful(boxes, p) /\ p \in Envelope BY <1>3, <2>3 DEF RInv, PInv, PTypes
  <2>5. DeepIn(boxes, p.ctx[n]) = Dumped(via, was) BY <2>2, <2>4 DEF Faithful
  <2>6. via \in Codec /\ was \in Deep
    <3>1. call[t] \in Call BY <1>3 DEF PInv, PTypes
    <3>2. QED BY <2>4, <3>1 DEF Call, Envelope
  <2>7. was = [a \in Attrs |-> was[a]] BY <2>6 DEF Deep
  <2> HIDE DEF was, via
  <2>8. Loaded(via, Dumped(via, was)) = was BY <2>6, <2>7, Undone DEF was
  <2>9. DeepOf(call[t].built[n]) = DeepIn(boxes, call[t].built[n]) BY DEF DeepOf, DeepIn
  <2>10. QED BY <2>2, <2>5, <2>8, <2>9 DEF was
<1>4. QED BY <1>1, <1>2, <1>3, Always, PTL DEF Spec
===============================================================================
