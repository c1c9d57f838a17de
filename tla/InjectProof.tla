------------------------------ MODULE InjectProof ------------------------------
(***************************************************************************)
(* Proofs about Inject: whatever the signatures, the threads and what the  *)
(* context answers, a body gets what was passed, and no sentinel in place  *)
(* of an injection unless the marker was overlooked, an under-supplied     *)
(* call fails before anything resolves, and by-name parameters come from   *)
(* one instance.                                                           *)
(***************************************************************************)
EXTENDS Inject, TLAPS, SequenceTheorems, WellFoundedInduction

Unbound == {"dispatch", "build", "store", "nameless"}

\* What TypeOK says of a call under way.
Typed(c) ==
    /\ c \in Call
    /\ c.given \cup c.unmet \subseteq Indexes(c.f)
    /\ c.step \notin Unbound => Len(c.args) = Len(Params[c.f])

\* Before its arguments are bound a call has done nothing.
Fresh(c) == c.at = 1 /\ c.lookups = 0 /\ c.source = 0 /\ c.unmet = {}

\* A by-name parameter nothing has filled yet.
Untouched(c, i) == c.args[i] \in {Bare("given"), Injected}
Settled(c, i) ==
    \/ i \in c.unmet \cap FromRequired(c.f)
    \/ c.args[i].is \in {"given", "attribute", "own"}
    \/ Params[c.f][i].default = "injected"

\* Marked parameters are filled up to the next one, then all of them are; those of a
\* function called as it is are what it was written with.
MarkersSound(c) ==
    \A i \in Marked(c.f) : (c.step = "markers" => i < c.at) =>
        \/ c.args[i] # Injected
        \/ c.step = "body" /\ c.f \in Overlooked /\ Params[c.f][i].default = "injected"

\* By-name parameters wait for the markers, and are then settled one by one.
NamesSound(c) ==
    \A i \in FromNames(c.f) :
        /\ c.step = "markers" \/ (c.step = "names" /\ i >= c.at) => Untouched(c, i)
        /\ (c.step = "names" /\ i < c.at) \/ c.step \in {"body", "unmet"} => Settled(c, i)

\* By-name attributes come from the source, once there is one.
Traced(c) ==
    \A i \in FromNames(c.f) \cap DOMAIN c.args :
        c.args[i].is = "attribute" => c.source # 0 /\ c.args[i].from = c.source

\* A call that holds its arguments holds what was passed, and a sentinel only where
\* a fill is due or the function was written with it.
Filling(c) ==
    /\ ~Refused(c)
    /\ \A i \in c.given : c.args[i] = Bare("given")
    /\ \A i \in Indexes(c.f) \ Injectable(c.f) :
          c.args[i] = Injected => Params[c.f][i].default = "injected"

\* The functions a call may reach without a wrapper.
Bareable(f) == Empty(f) \/ f \in Overlooked

Sound(c) ==
    /\ c.step \in {"dispatch", "build", "store"} => Fresh(c)
    /\ c.step \in {"build", "store"} => c.f \in Forward
    /\ c.step = "store" /\ c.built = "func" => Bareable(c.f)
    /\ c.step = "missing" => (Refused(c) \/ RefusedBare(c)) /\ c.lookups = 0
    /\ c.step \notin Unbound \cup {"missing"} => Filling(c)
    /\ c.step \in {"markers", "names", "body", "unmet"} => MarkersSound(c) /\ NamesSound(c)
    /\ c.step = "body" => c.unmet = {}
    /\ Traced(c)

Busied(t) == call[t] = Idle \/
    /\ Typed(call[t]) /\ Sound(call[t])
    /\ call[t].step = "dispatch" => returned[call[t].f] # "undecorated"

\* The function itself is called only where nothing is to be injected or a deferred
\* wrapper overlooked that something is.
Harmless ==
    \A f \in Functions :
        /\ returned[f] = "func" => Empty(f)
        /\ impl[f] = "func" => Bareable(f)
        /\ returned[f] = "deferred" => f \in Forward

Types ==
    /\ defined \in BOOLEAN
    /\ returned \in [Functions -> {"undecorated", "func", "wrapper", "deferred"}]
    /\ impl \in [Functions -> {"none", "func", "wrapper"}]
    /\ DOMAIN call = Threads

IInv == Types /\ Harmless /\ \A t \in Threads : Busied(t)

-----------------------------------------------------------------------------
(* Operators. *)

LEMMA Signature ==
    ASSUME NEW f \in Functions
    PROVE  /\ Len(Params[f]) \in Nat
           /\ \A i \in Indexes(f) : Params[f][i] \in Param
           /\ Indexes(f) \subseteq Nat
           /\ Marked(f) \subseteq Indexes(f) /\ FromNames(f) \subseteq Indexes(f)
           /\ Marked(f) \cap FromNames(f) = {}
           /\ Injectable(f) = Marked(f) \cup FromNames(f)
<1>1. Params[f] \in Seq(Param) BY FunctionsAssumption
<1>2. Len(Params[f]) \in Nat /\ \A i \in 1..Len(Params[f]) : Params[f][i] \in Param BY <1>1
<1>3. QED BY <1>2 DEF Indexes, Marked, FromNames, Injectable

LEMMA Seqs ==
    ASSUME NEW S, NEW n \in Nat, NEW g \in [1..n -> S]
    PROVE  g \in Seq(S) /\ Len(g) = n
BY SeqDef

\* A set of naturals that has a member has a least one.
LEMMA Least ==
    ASSUME NEW S \in SUBSET Nat, S # {}
    PROVE  \E m \in S : \A n \in S : m <= n
<1> DEFINE below == {pair \in Nat \X Nat : pair[1] < pair[2]}
<1>1. IsWellFoundedOn(below, Nat) BY NatLessThanWellFounded DEF OpToRel
<1>2. PICK m \in S : \A n \in S : <<n, m>> \notin below
  <2> HIDE DEF below
  <2> QED BY <1>1, WFMin
<1>3. ASSUME NEW n \in S PROVE m <= n
  <2>1. n \in Nat /\ m \in Nat /\ <<n, m>> \notin below BY <1>2
  <2>2. ~ (n < m) BY <2>1
  <2>3. QED BY <2>1, <2>2
<1>4. QED BY <1>3

\* Where no parameter is pending none of those still ahead holds the sentinel.
LEMMA NonePending ==
    ASSUME NEW c, c.at \in Nat, NEW among \in SUBSET Nat, Pending(c, among) = {},
           NEW i \in among, i >= c.at
    PROVE  c.args[i] # Injected
<1>1. SUFFICES ASSUME c.args[i] = Injected PROVE FALSE OBVIOUS
<1> DEFINE due == {j \in among : j >= c.at /\ c.args[j] = Injected}
<1>2. PICK m \in due : \A n \in due : m <= n BY <1>1, Least
<1>3. \A j \in among : c.at <= j /\ j < m => c.args[j] # Injected BY <1>2
<1>4. m \in Pending(c, among) BY <1>2, <1>3 DEF Pending
<1>5. QED BY <1>4

-----------------------------------------------------------------------------
(* Binding. *)

LEMMA BindSound ==
    ASSUME NEW c, Typed(c), Fresh(c), NEW target \in {"func", "wrapper"},
           target = "func" => Bareable(c.f)
    PROVE  Typed(Bind(c, target)) /\ Sound(Bind(c, target))
<1> DEFINE f == c.f
           n == Len(Params[f])
           defaults == IF target = "func" THEN Own(f) ELSE Header(f)
           args == [i \in Indexes(f) |-> Bare(IF i \in c.given THEN "given" ELSE defaults[i])]
           d == Bind(c, target)
<1>1. c \in Call /\ f \in Functions /\ c.given \subseteq Indexes(f) BY DEF Typed, Call
<1>2. n \in Nat /\ Indexes(f) = 1..n BY <1>1, Signature DEF Indexes
<1>3. \A i \in Indexes(f) : defaults[i] \in {"required", "own", "injected"}
  BY <1>1, Signature DEF Own, Header, Param
<1>4. args \in [1..n -> Value] BY <1>2, <1>3 DEF Bare, Value
<1>5. args \in Seq(Value) /\ Len(args) = n
  <2> HIDE DEF args, n
  <2> QED BY <1>2, <1>4, Seqs
<1>6. /\ d.args = args /\ d.f = f /\ d.given = c.given /\ d.at = 1 /\ d.lookups = 0
      /\ d.source = 0 /\ d.unmet = {} /\ d.built = c.built
      /\ d.step \in {"missing", "body", "markers"}
      /\ d.step = "body" => target = "func"
      /\ d.step = "markers" => target = "wrapper"
  BY <1>1 DEF Bind, Fresh, Call
<1>7. d \in Call
  <2>1. d = [c EXCEPT !.args = args, !.step = d.step] BY <1>1 DEF Bind, Call
  <2> HIDE DEF args, n, d
  <2>2. QED BY <1>1, <1>5, <1>6, <2>1 DEF Call, Steps, Errors
<1>8. Typed(d)
  <2> HIDE DEF args, d
  <2> QED BY <1>1, <1>5, <1>6, <1>7 DEF Typed
<1>9. \A i \in Indexes(f) : args[i] = Bare(IF i \in c.given THEN "given" ELSE defaults[i])
  OBVIOUS
<1>10. d.step = "missing" <=> \/ \E i \in Indexes(f) : args[i].is = "required"
                              \/ target = "wrapper" /\ \E i \in Missing(f) : args[i] = Injected
  BY <1>1 DEF Bind, Call
<1>11. target = "func" =>
          FromNames(f) = {} /\ Injectable(f) = Marked(f) /\ (Marked(f) = {} \/ f \in Overlooked)
  BY DEF Bareable, Empty, Overlooked, Injectable, FromNames
<1>12. Injectable(f) \subseteq Indexes(f) BY <1>1, Signature
<1>13. ASSUME NEW i \in Indexes(f)
       PROVE  /\ target = "func" => defaults[i] = Params[f][i].default
              /\ target = "wrapper" /\ i \in Injectable(f) \cup Missing(f) => defaults[i] = "injected"
              /\ target = "wrapper" /\ i \notin Injectable(f) \cup Missing(f) =>
                    defaults[i] = Params[f][i].default
  BY DEF Own, Header
<1>14. ASSUME NEW i \in Indexes(f)
       PROVE  /\ i \in c.given => args[i] = Bare("given") /\ args[i].is = "given"
              /\ i \notin c.given => args[i] = Bare(defaults[i]) /\ args[i].is = defaults[i]
  BY <1>9 DEF Bare
<1>15. ASSUME NEW i \in Indexes(f)
       PROVE  args[i] = Injected <=> i \notin c.given /\ defaults[i] = "injected"
  BY <1>14 DEF Bare, Injected
<1>16. Missing(f) \subseteq Indexes(f) \ Injectable(f)
       /\ \A i \in Missing(f) : Params[f][i].default = "required"
  BY DEF Missing
<1> HIDE DEF args, d, n, defaults
<1>17. /\ d.step = "missing" => Refused(d) \/ RefusedBare(d)
       /\ Refused(d) => d.step = "missing"
  <2>1. ASSUME NEW i \in Indexes(f), args[i].is = "required" PROVE Refused(d) \/ RefusedBare(d)
    <3>1. i \notin c.given /\ defaults[i] = "required" BY <1>14, <2>1
    <3>2. Params[f][i].default = "required" /\ (target = "wrapper" => i \notin Injectable(f))
      BY <1>13, <3>1
    <3>3. CASE i \notin Injectable(f) BY <1>6, <3>1, <3>2, <3>3 DEF Refused
    <3>4. CASE i \in Injectable(f)
      <4>1. i \in Marked(f) /\ f \in Overlooked BY <1>11, <3>2, <3>4
      <4>2. QED BY <1>6, <3>1, <3>2, <4>1 DEF RefusedBare
    <3>5. QED BY <3>3, <3>4
  <2>2. ASSUME NEW i \in Missing(f), args[i] = Injected PROVE Refused(d)
    BY <1>6, <1>15, <1>16, <2>2 DEF Refused
  <2>3. ASSUME Refused(d) PROVE d.step = "missing"
    <3>1. PICK i \in Indexes(f) \ (Injectable(f) \cup c.given) : Params[f][i].default = "required"
      BY <1>6, <2>3 DEF Refused
    <3>2. CASE target = "wrapper" /\ i \in Missing(f) BY <1>10, <1>13, <1>15, <3>1, <3>2
    <3>3. CASE ~ (target = "wrapper" /\ i \in Missing(f)) BY <1>10, <1>13, <1>14, <3>1, <3>3
    <3>4. QED BY <3>2, <3>3
  <2>4. QED BY <1>10, <2>1, <2>2, <2>3
<1>18. ASSUME d.step # "missing" PROVE Filling(d)
  <2>1. \A i \in d.given : d.args[i] = Bare("given") BY <1>1, <1>6, <1>14
  <2>2. ASSUME NEW i \in Indexes(f) \ Injectable(f), args[i] = Injected
        PROVE  Params[f][i].default = "injected"
    <3>1. defaults[i] = "injected" BY <1>15, <2>2
    <3>2. ~ (target = "wrapper" /\ i \in Missing(f)) BY <1>10, <1>18, <2>2
    <3>3. QED BY <1>13, <3>1, <3>2
  <2>3. QED BY <1>6, <1>17, <1>18, <2>1, <2>2 DEF Filling
<1>19. ASSUME d.step # "missing" PROVE MarkersSound(d) /\ NamesSound(d)
  <2>1. ASSUME target = "wrapper", NEW i \in FromNames(f) PROVE Untouched(d, i)
    <3>1. i \in Injectable(f) /\ i \in Indexes(f) BY <1>1, Signature
    <3>2. QED BY <1>6, <1>13, <1>14, <1>15, <2>1, <3>1 DEF Untouched
  <2>2. CASE d.step = "markers"
    <3>1. \A i \in Marked(f) : ~ (i < 1) BY <1>1, <1>2, Signature
    <3>2. QED BY <1>6, <2>1, <2>2, <3>1 DEF MarkersSound, NamesSound
  <2>3. CASE d.step = "body"
    <3>1. ASSUME NEW i \in Marked(f), args[i] = Injected
          PROVE  f \in Overlooked /\ Params[f][i].default = "injected"
      <4>1. i \in Indexes(f) BY <1>1, Signature
      <4>2. QED BY <1>6, <1>11, <1>13, <1>15, <2>3, <3>1, <4>1
    <3>2. QED BY <1>6, <1>11, <2>3, <3>1 DEF MarkersSound, NamesSound
  <2>4. QED BY <1>6, <1>19, <2>2, <2>3
<1>20. Traced(d)
  <2>1. FromNames(f) \subseteq Indexes(f) BY <1>1, Signature
  <2>2. QED BY <1>3, <1>6, <1>14, <2>1 DEF Traced
<1>21. Sound(d) BY <1>6, <1>17, <1>18, <1>19, <1>20 DEF Sound, Unbound
<1>22. QED BY <1>8, <1>21 DEF d

-----------------------------------------------------------------------------
(* Filling. *)

LEMMA PendingIs ==
    ASSUME NEW c, NEW among, NEW i \in Pending(c, among)
    PROVE  /\ i \in among /\ i >= c.at /\ c.args[i] = Injected
           /\ \A j \in among : c.at <= j /\ j < i => c.args[j] # Injected
BY DEF Pending

LEMMA FilledArgs ==
    ASSUME NEW c, Typed(c), c.step \notin Unbound, NEW i \in Indexes(c.f), NEW v \in Value
    PROVE  LET filled == [c.args EXCEPT ![i] = v]
           IN  /\ filled \in Seq(Value) /\ Len(filled) = Len(Params[c.f])
               /\ \A j \in Indexes(c.f) : filled[j] = IF j = i THEN v ELSE c.args[j]
<1>1. c.args \in Seq(Value) /\ Len(c.args) = Len(Params[c.f]) BY DEF Typed, Call
<1>2. i \in 1..Len(c.args) BY <1>1 DEF Indexes
<1>3. QED BY <1>1, <1>2, ExceptSeq DEF Indexes

LEMMA MarkerFilled ==
    ASSUME NEW c, Typed(c), Sound(c), c.step = "markers",
           NEW i \in Pending(c, Marked(c.f)), NEW v \in Value, v # Injected,
           NEW args, args = [c.args EXCEPT ![i] = v],
           NEW d, d = [c EXCEPT !.args = args, !.at = i + 1, !.lookups = c.lookups + 1]
    PROVE  Typed(d) /\ Sound(d)
<1>1. /\ c \in Call /\ c.f \in Functions /\ c.at \in Nat /\ c.lookups \in Nat
      /\ c.source \in Nat /\ c.unmet \in SUBSET Indexes(c.f) /\ c.args \in Seq(Value)
      /\ c.given \subseteq Indexes(c.f)
  BY DEF Typed, Call
<1>2. i \in Marked(c.f) /\ i \in Indexes(c.f) /\ i \in Nat BY <1>1, PendingIs, Signature
<1>3. /\ args \in Seq(Value) /\ Len(args) = Len(Params[c.f])
      /\ \A j \in Indexes(c.f) : args[j] = IF j = i THEN v ELSE c.args[j]
  BY <1>2, FilledArgs DEF Unbound
<1>4. i + 1 \in Nat /\ c.lookups + 1 \in Nat BY <1>1, <1>2
<1>5. /\ Typed(d) /\ d.step = "markers" /\ d.args = args /\ d.at = i + 1
      /\ d.source = c.source /\ d.unmet = c.unmet /\ d.f = c.f /\ d.given = c.given
  <2>1. /\ d.step = "markers" /\ d.args = args /\ d.at = i + 1
        /\ d.source = c.source /\ d.unmet = c.unmet /\ d.f = c.f /\ d.given = c.given
    BY <1>1 DEF Call
  <2>2. d \in Call BY <1>1, <1>3, <1>4 DEF Call
  <2>3. QED BY <1>1, <1>3, <2>1, <2>2 DEF Typed
<1>6. c.args[i] = Injected /\ \A j \in Marked(c.f) : j < i => c.args[j] # Injected
  BY <1>1, PendingIs, Signature DEF Sound, MarkersSound
<1>7. Filling(c) /\ NamesSound(c) BY DEF Sound, Unbound
<1>8. Filling(d)
  <2>1. ~ Refused(d) BY <1>5, <1>7 DEF Filling, Refused
  <2>2. \A j \in d.given : d.args[j] = Bare("given")
    BY <1>1, <1>3, <1>5, <1>6, <1>7 DEF Filling, Injected, Bare
  <2>3. \A j \in Indexes(c.f) \ Injectable(c.f) : d.args[j] = c.args[j]
    BY <1>1, <1>2, <1>3, <1>5, Signature
  <2>4. QED BY <1>5, <1>7, <2>1, <2>2, <2>3 DEF Filling
<1>9. MarkersSound(d) BY <1>1, <1>2, <1>3, <1>5, <1>6, Signature DEF MarkersSound
<1>10. \A j \in FromNames(c.f) : d.args[j] = c.args[j] BY <1>1, <1>2, <1>3, <1>5, Signature
<1>11. NamesSound(d) BY <1>5, <1>7, <1>10 DEF NamesSound, Untouched
<1>12. Traced(d)
  <2>1. FromNames(c.f) \subseteq DOMAIN c.args BY <1>1, Signature DEF Typed, Unbound, Indexes
  <2>2. QED BY <1>5, <1>10, <2>1 DEF Sound, Traced
<1>13. QED BY <1>5, <1>8, <1>9, <1>11, <1>12 DEF Sound, Unbound

\* A fill of the by-name parameter i, whichever of the three it is.
LEMMA NameFilled ==
    ASSUME NEW c, Typed(c), Sound(c), c.step = "names",
           NEW i \in Pending(c, FromNames(c.f)),
           NEW d, d.step = "names", d.f = c.f, d.given = c.given, d.at = i + 1,
           c.unmet \subseteq d.unmet, d.source # 0, c.source # 0 => d.source = c.source,
           \A j \in Indexes(c.f) \ {i} : d.args[j] = c.args[j],
           d.args[i].is = "attribute" => d.args[i].from = d.source,
           Settled(d, i)
    PROVE  Sound(d)
<1>1. c.f \in Functions /\ c.at \in Nat /\ c.given \subseteq Indexes(c.f) BY DEF Typed, Call
<1>2. /\ i \in FromNames(c.f) /\ i \in Indexes(c.f) /\ i \in Nat /\ c.args[i] = Injected
      /\ \A j \in FromNames(c.f) : c.at <= j /\ j < i => c.args[j] # Injected
  BY <1>1, PendingIs, Signature
<1>3. Filling(c) /\ MarkersSound(c) /\ NamesSound(c) BY DEF Sound, Unbound
<1>4. Filling(d)
  <2>1. ~ Refused(d) BY <1>3 DEF Filling, Refused
  <2>2. \A j \in d.given : d.args[j] = Bare("given")
    BY <1>1, <1>2, <1>3 DEF Filling, Injected, Bare
  <2>3. \A j \in Indexes(c.f) \ Injectable(c.f) : d.args[j] = c.args[j]
    BY <1>1, <1>2, Signature
  <2>4. QED BY <1>3, <2>1, <2>2, <2>3 DEF Filling
<1>5. MarkersSound(d)
  <2>1. \A j \in Marked(c.f) : d.args[j] = c.args[j] BY <1>1, <1>2, Signature
  <2>2. QED BY <1>3, <2>1 DEF MarkersSound
<1>6. NamesSound(d)
  <2>1. ASSUME NEW j \in FromNames(c.f), j >= i + 1 PROVE Untouched(d, j)
    <3>1. j \in Indexes(c.f) \ {i} /\ j >= c.at BY <1>1, <1>2, <2>1, PendingIs, Signature
    <3>2. QED BY <1>3, <3>1 DEF NamesSound, Untouched
  <2>2. ASSUME NEW j \in FromNames(c.f), j < i + 1 PROVE Settled(d, j)
    <3>1. j \in Indexes(c.f) /\ j \in Nat BY <1>1, Signature
    <3>2. CASE j = i BY <3>2
    <3>3. CASE j # i /\ j < c.at
      <4>1. Settled(c, j) BY <1>3, <3>3 DEF NamesSound
      <4>2. QED BY <3>1, <3>3, <4>1 DEF Settled
    <3>4. CASE j # i /\ j >= c.at
      <4>1. j < i BY <1>2, <2>2, <3>1, <3>4
      <4>2. Untouched(c, j) /\ c.args[j] # Injected BY <1>1, <1>2, <1>3, <3>1, <3>4, <4>1 DEF NamesSound
      <4>3. d.args[j] = Bare("given") BY <3>1, <3>4, <4>2 DEF Untouched
      <4>4. QED BY <4>3 DEF Settled, Bare
    <3>5. QED BY <1>1, <3>1, <3>2, <3>3, <3>4
  <2>3. QED BY <2>1, <2>2 DEF NamesSound
<1>7. Traced(d)
  <2>1. ASSUME NEW j \in FromNames(c.f), d.args[j].is = "attribute"
        PROVE  d.args[j].from = d.source
    <3>1. CASE j = i BY <2>1, <3>1
    <3>2. CASE j # i
      <4>1. d.args[j] = c.args[j] /\ j \in DOMAIN c.args
        BY <1>1, <3>2, Signature DEF Typed, Call, Unbound, Indexes
      <4>2. c.source # 0 /\ c.args[j].from = c.source BY <2>1, <4>1 DEF Sound, Traced
      <4>3. QED BY <4>1, <4>2
    <3>3. QED BY <3>1, <3>2
  <2>2. QED BY <2>1 DEF Traced
<1>8. QED BY <1>4, <1>5, <1>6, <1>7 DEF Sound, Unbound

-----------------------------------------------------------------------------
(* The steps. *)

\* A step of one call leaves the others as they were.
LEMMA Frame ==
    ASSUME IInv, NEW t \in Threads, NEW d, call' = [call EXCEPT ![t] = d],
           UNCHANGED <<defined, returned>>, impl' \in [Functions -> {"none", "func", "wrapper"}],
           Harmless',
           d = Idle \/ /\ Typed(d) /\ Sound(d)
                       /\ d.step = "dispatch" => returned[d.f] # "undecorated"
    PROVE  IInv'
<1>1. Types' BY DEF IInv, Types
<1>2. ASSUME NEW u \in Threads PROVE Busied(u)'
  <2>1. CASE u = t BY <2>1 DEF IInv, Types, Busied
  <2>2. CASE u # t BY <2>2 DEF IInv, Types, Busied
  <2>3. QED BY <2>1, <2>2
<1>3. QED BY <1>1, <1>2 DEF IInv

LEMMA Known ==
    ASSUME IInv, NEW t \in Threads, call[t].step \in Steps
    PROVE  /\ Typed(call[t]) /\ Sound(call[t]) /\ call[t] \in Call /\ call[t].f \in Functions
           /\ call[t].step = "dispatch" => returned[call[t].f] # "undecorated"
<1>1. call[t] # Idle BY DEF Idle, Steps, Errors
<1>2. QED BY <1>1 DEF IInv, Busied, Typed, Call

LEMMA HarmlessStays == ASSUME IInv, UNCHANGED <<returned, impl>> PROVE Harmless'
BY DEF IInv, Harmless

\* A step that only moves a call on, with its arguments as they were.
LEMMA Moved ==
    ASSUME NEW c, Typed(c), NEW step \in Steps, step \in Unbound <=> c.step \in Unbound,
           NEW d, d = [c EXCEPT !.step = step]
    PROVE  /\ Typed(d) /\ d.step = step /\ d.f = c.f /\ d.given = c.given /\ d.args = c.args
           /\ d.at = c.at /\ d.lookups = c.lookups /\ d.source = c.source /\ d.unmet = c.unmet
           /\ d.built = c.built
BY DEF Typed, Call

LEMMA BeginHolds ==
    ASSUME IInv, NEW t \in Threads, NEW f \in Functions, NEW given \in SUBSET Indexes(f),
           Begin(t, f, given)
    PROVE  IInv'
<1> DEFINE d == [step |-> "dispatch", f |-> f, given |-> given, args |-> <<>>, at |-> 1,
                 lookups |-> 0, source |-> 0, unmet |-> {}, built |-> "func"]
<1>1. d \in Call BY Signature DEF Call, Steps
<1>2. Typed(d) BY <1>1 DEF Typed, Unbound
<1>3. Sound(d) BY DEF Sound, Fresh, Traced, Unbound
<1>4. call' = [call EXCEPT ![t] = d] /\ returned[f] # "undecorated"
      /\ UNCHANGED <<defined, returned, impl>>
  BY DEF Begin
<1>5. d.step = "dispatch" /\ d.f = f OBVIOUS
<1> HIDE DEF d
<1>6. QED BY <1>2, <1>3, <1>4, <1>5, Frame, HarmlessStays DEF IInv, Types

LEMMA DecorateHolds == ASSUME IInv, Decorate PROVE IInv'
<1>1. Types' BY DEF IInv, Types, Decorate, Plan
<1>2. Harmless' BY DEF IInv, Types, Harmless, Decorate, Plan
<1>3. \A f \in Functions : returned'[f] # "undecorated" BY DEF Decorate, Plan
<1>4. \A t \in Threads : Busied(t)' BY <1>3 DEF IInv, Busied, Decorate, Typed, Call
<1>5. QED BY <1>1, <1>2, <1>4 DEF IInv

LEMMA DispatchHolds == ASSUME IInv, NEW t \in Threads, Dispatch(t) PROVE IInv'
<1> DEFINE c == call[t]
           f == c.f
<1>1. /\ Typed(c) /\ Sound(c) /\ c \in Call /\ f \in Functions /\ c.step = "dispatch"
      /\ returned[f] # "undecorated"
  BY Known DEF Dispatch, Steps
<1>2. Target(f) \in {"none", "func", "wrapper"} /\ (Target(f) = "none" => f \in Forward)
  BY <1>1 DEF Target, IInv, Types, Harmless
<1>3. Target(f) = "func" => Bareable(f) BY <1>1 DEF Target, IInv, Harmless, Bareable
<1>4. CASE Target(f) = "none"
  <2> DEFINE d == [c EXCEPT !.step = "build"]
  <2>1. call' = [call EXCEPT ![t] = d] BY <1>4 DEF Dispatch
  <2>2. /\ Typed(d) /\ d.step = "build" /\ d.f = f /\ d.args = c.args
        /\ d.at = c.at /\ d.lookups = c.lookups /\ d.source = c.source /\ d.unmet = c.unmet
    BY <1>1, Moved DEF Steps, Unbound
  <2> HIDE DEF d
  <2>3. Sound(d) BY <1>1, <1>2, <1>4, <2>2 DEF Sound, Fresh, Traced, Unbound
  <2>4. QED BY <2>1, <2>2, <2>3, Frame, HarmlessStays DEF Dispatch, IInv, Types
<1>5. CASE Target(f) # "none"
  <2> DEFINE d == Bind(c, Target(f))
  <2>1. call' = [call EXCEPT ![t] = d] BY <1>5 DEF Dispatch
  <2>2. Fresh(c) BY <1>1 DEF Sound
  <2>3. Target(f) \in {"func", "wrapper"} BY <1>2, <1>5
  <2>4. Typed(d) /\ Sound(d) BY <1>1, <1>3, <2>2, <2>3, BindSound
  <2>5. d.step # "dispatch" BY <1>1 DEF Bind, Call
  <2> HIDE DEF d
  <2>6. QED BY <2>1, <2>4, <2>5, Frame, HarmlessStays DEF Dispatch, IInv, Types
<1>6. QED BY <1>4, <1>5

\* Without the names the plan needs, only a function that has no marker, or none that
\* shows, is passed through.
LEMMA BuildHolds == ASSUME IInv, NEW t \in Threads, Build(t) PROVE IInv'
<1> DEFINE c == call[t]
           f == c.f
<1>1. Typed(c) /\ Sound(c) /\ c \in Call /\ f \in Functions /\ c.step = "build"
  BY Known DEF Build, Steps
<1>2. f \in Forward /\ Fresh(c) BY <1>1 DEF Sound
<1>3. CASE ~defined /\ Asks(f)
  <2> DEFINE d == [c EXCEPT !.step = "nameless"]
  <2>1. call' = [call EXCEPT ![t] = d] BY <1>3 DEF Build
  <2>2. Typed(d) /\ d.step = "nameless" /\ d.f = f /\ d.args = c.args /\ d.source = c.source
    BY <1>1, Moved DEF Steps, Errors, Unbound
  <2> HIDE DEF d
  <2>3. Sound(d) BY <1>1, <2>2 DEF Sound, Traced, Unbound
  <2>4. QED BY <2>1, <2>2, <2>3, Frame, HarmlessStays DEF Build, IInv, Types
<1>4. CASE ~ (~defined /\ Asks(f))
  <2> DEFINE built == IF defined THEN Plan(f) ELSE "func"
             d == [c EXCEPT !.step = "store", !.built = built]
  <2>1. call' = [call EXCEPT ![t] = d] BY <1>4 DEF Build
  <2>2. built \in {"func", "wrapper"} BY DEF Plan
  <2>3. built = "func" => Bareable(f)
    BY <1>2, <1>4 DEF Plan, Asks, Empty, Overlooked, Bareable
  <2> HIDE DEF built
  <2>4. /\ d \in Call /\ d.step = "store" /\ d.f = f /\ d.args = c.args /\ d.built = built /\ d.given = c.given
        /\ d.at = c.at /\ d.lookups = c.lookups /\ d.source = c.source /\ d.unmet = c.unmet
    BY <1>1, <2>2 DEF Call, Steps
  <2> HIDE DEF d
  <2>5. Typed(d) BY <1>1, <2>4 DEF Typed, Unbound
  <2>6. Sound(d) BY <1>1, <1>2, <2>3, <2>4 DEF Sound, Fresh, Traced, Unbound
  <2>7. QED BY <2>1, <2>4, <2>5, <2>6, Frame, HarmlessStays DEF Build, IInv, Types
<1>5. QED BY <1>3, <1>4

LEMMA StoreHolds == ASSUME IInv, NEW t \in Threads, Store(t) PROVE IInv'
<1> DEFINE c == call[t]
           d == Bind(c, c.built)
<1>1. Typed(c) /\ Sound(c) /\ c \in Call /\ c.f \in Functions /\ c.step = "store"
  BY Known DEF Store, Steps
<1>2. Fresh(c) /\ c.built \in {"func", "wrapper"} /\ (c.built = "func" => Bareable(c.f))
  BY <1>1 DEF Sound, Call
<1>3. Typed(d) /\ Sound(d) BY <1>1, <1>2, BindSound
<1>4. d.step # "dispatch" BY <1>1 DEF Bind, Call
<1>5. /\ call' = [call EXCEPT ![t] = d] /\ impl' = [impl EXCEPT ![c.f] = c.built]
      /\ UNCHANGED <<defined, returned>>
  BY DEF Store
<1>6. impl' \in [Functions -> {"none", "func", "wrapper"}] BY <1>1, <1>2, <1>5 DEF IInv, Types
<1>7. Harmless' BY <1>1, <1>2, <1>5 DEF IInv, Types, Harmless
<1> HIDE DEF d
<1>8. QED BY <1>3, <1>4, <1>5, <1>6, <1>7, Frame

LEMMA MarkerHolds == ASSUME IInv, NEW t \in Threads, Marker(t) PROVE IInv'
<1> DEFINE c == call[t]
           found == c.lookups + 1
<1>1. Typed(c) /\ Sound(c) /\ c \in Call /\ c.f \in Functions /\ c.step = "markers"
  BY Known DEF Marker, Steps
<1>2. ASSUME NEW step \in {"miss", "no_attribute"}, call' = [call EXCEPT ![t].step = step]
      PROVE  IInv'
  <2> DEFINE d == [c EXCEPT !.step = step]
  <2>1. call' = [call EXCEPT ![t] = d] BY <1>2
  <2>2. /\ Typed(d) /\ d.step = step /\ d.f = c.f /\ d.given = c.given /\ d.args = c.args
        /\ d.source = c.source
    BY <1>1, Moved DEF Steps, Errors, Unbound
  <2> HIDE DEF d
  <2>3. Sound(d) BY <1>1, <2>2 DEF Sound, Traced, Unbound, Filling, Refused
  <2>4. QED BY <2>1, <2>2, <2>3, Frame, HarmlessStays DEF Marker, IInv, Types
<1>3. ASSUME NEW i \in Pending(c, Marked(c.f)), NEW is \in {"instance", "attribute"},
             call' = [call EXCEPT ![t] = [Filled(c, i, [is |-> is, from |-> found])
                                            EXCEPT !.lookups = found]]
      PROVE  IInv'
  <2> DEFINE v == [is |-> is, from |-> found]
             args == [c.args EXCEPT ![i] = v]
             d == [c EXCEPT !.args = args, !.at = i + 1, !.lookups = c.lookups + 1]
  <2>1. v \in Value /\ v # Injected BY <1>1 DEF Value, Injected, Bare, Call
  <2>2. call' = [call EXCEPT ![t] = d]
    <3>1. d = [Filled(c, i, v) EXCEPT !.lookups = found] BY <1>1 DEF Filled, Call
    <3>2. QED BY <1>3, <3>1
  <2>3. d.step = "markers" BY <1>1 DEF Call
  <2> HIDE DEF v, args
  <2>4. Typed(d) /\ Sound(d) BY <1>1, <2>1, MarkerFilled DEF args
  <2> HIDE DEF d
  <2>5. QED BY <2>2, <2>3, <2>4, Frame, HarmlessStays DEF Marker, IInv, Types
<1>4. QED BY <1>2, <1>3 DEF Marker

LEMMA MarkersDoneHolds == ASSUME IInv, NEW t \in Threads, MarkersDone(t) PROVE IInv'
<1> DEFINE c == call[t]
           d == [c EXCEPT !.step = "names", !.at = 1]
<1>1. /\ Typed(c) /\ Sound(c) /\ c \in Call /\ c.f \in Functions /\ c.step = "markers"
      /\ Pending(c, Marked(c.f)) = {}
  BY Known DEF MarkersDone, Steps
<1>2. call' = [call EXCEPT ![t] = d] /\ UNCHANGED <<defined, returned, impl>>
  BY DEF MarkersDone
<1>3. /\ d \in Call /\ d.step = "names" /\ d.at = 1 /\ d.f = c.f /\ d.given = c.given
      /\ d.args = c.args /\ d.source = c.source /\ d.unmet = c.unmet
  BY <1>1 DEF Call, Steps
<1> HIDE DEF d
<1>4. Typed(d) BY <1>1, <1>3 DEF Typed, Unbound
<1>5. \A i \in Marked(c.f) : c.args[i] # Injected
  <2>1. ASSUME NEW i \in Marked(c.f), c.args[i] = Injected PROVE FALSE
    <3>1. i < c.at => c.args[i] # Injected BY <1>1 DEF Sound, MarkersSound
    <3>2. i \in Nat /\ c.at \in Nat /\ Marked(c.f) \subseteq Nat BY <1>1, Signature DEF Call
    <3>3. i >= c.at => c.args[i] # Injected BY <1>1, <3>2, NonePending
    <3>4. QED BY <2>1, <3>1, <3>2, <3>3
  <2>2. QED BY <2>1
<1>6. Sound(d)
  <2>1. Filling(d) BY <1>1, <1>3 DEF Sound, Unbound, Filling, Refused
  <2>2. MarkersSound(d) BY <1>3, <1>5 DEF MarkersSound
  <2>3. \A i \in FromNames(c.f) : Untouched(c, i) /\ ~ (i < 1)
    BY <1>1, Signature DEF Sound, NamesSound, Indexes
  <2>4. NamesSound(d) BY <1>3, <2>3 DEF NamesSound, Untouched
  <2>5. QED BY <1>1, <1>3, <2>1, <2>2, <2>4 DEF Sound, Traced, Unbound
<1>7. QED BY <1>2, <1>3, <1>4, <1>6, Frame, HarmlessStays DEF IInv, Types

LEMMA NameHolds == ASSUME IInv, NEW t \in Threads, Name(t) PROVE IInv'
<1> DEFINE c == call[t]
           source == Source(c)
           lookups == IF source > c.lookups THEN source ELSE c.lookups
           fetched == [c EXCEPT !.source = source, !.lookups = lookups]
<1>1. Typed(c) /\ Sound(c) /\ c \in Call /\ c.f \in Functions /\ c.step = "names"
  BY Known DEF Name, Steps
<1>2. /\ c.args \in Seq(Value) /\ Len(c.args) = Len(Params[c.f]) /\ c.at \in Nat
      /\ c.given \subseteq Indexes(c.f) /\ c.unmet \subseteq Indexes(c.f)
      /\ c.lookups \in Nat /\ c.source \in Nat
  BY <1>1 DEF Typed, Call, Unbound
<1>3. /\ source \in Nat /\ source # 0 /\ lookups \in Nat
      /\ c.source # 0 => source = c.source
  BY <1>2 DEF Source
<1>4. UNCHANGED <<defined, returned, impl>> BY DEF Name
<1> HIDE DEF source, lookups
<1>5. ASSUME call' = [call EXCEPT ![t].step = "miss"] PROVE IInv'
  <2> DEFINE d == [c EXCEPT !.step = "miss"]
  <2>1. call' = [call EXCEPT ![t] = d] BY <1>5
  <2>2. /\ Typed(d) /\ d.step = "miss" /\ d.f = c.f /\ d.given = c.given /\ d.args = c.args
        /\ d.source = c.source
    BY <1>1, Moved DEF Steps, Errors, Unbound
  <2> HIDE DEF d
  <2>3. Sound(d) BY <1>1, <2>2 DEF Sound, Traced, Unbound, Filling, Refused
  <2>4. QED BY <1>4, <2>1, <2>2, <2>3, Frame, HarmlessStays DEF IInv, Types
<1>6. ASSUME NEW i \in Pending(c, FromNames(c.f))
      PROVE  i \in FromNames(c.f) /\ i \in Indexes(c.f) /\ i \in Nat /\ Params[c.f][i] \in Param
  BY <1>1, PendingIs, Signature
<1>7. ASSUME NEW i \in Pending(c, FromNames(c.f)), NEW v \in Value,
             v.is = "attribute" => v.from = source,
             v.is \in {"attribute", "own"} \/ Params[c.f][i].default = "injected",
             call' = [call EXCEPT ![t] = Filled(fetched, i, v)]
      PROVE  IInv'
  <2> DEFINE args == [c.args EXCEPT ![i] = v]
             d == Filled(fetched, i, v)
  <2>1. /\ args \in Seq(Value) /\ Len(args) = Len(Params[c.f])
        /\ \A j \in Indexes(c.f) : args[j] = IF j = i THEN v ELSE c.args[j]
    BY <1>1, <1>6, FilledArgs DEF Unbound
  <2>2. d = [c EXCEPT !.args = args, !.at = i + 1, !.source = source, !.lookups = lookups]
    BY <1>1 DEF Filled, Call
  <2> HIDE DEF args, d
  <2>3. /\ d.step = "names" /\ d.f = c.f /\ d.given = c.given /\ d.at = i + 1
        /\ d.unmet = c.unmet /\ d.source = source /\ d.args = args
    BY <1>1, <2>2 DEF Call
  <2>4. d \in Call
    <3>1. i + 1 \in Nat BY <1>6
    <3>2. d = [step |-> c.step, f |-> c.f, given |-> c.given, args |-> args, at |-> i + 1,
               lookups |-> lookups, source |-> source, unmet |-> c.unmet, built |-> c.built]
      BY <1>1, <2>2 DEF Call
    <3>3. QED BY <1>1, <1>3, <2>1, <3>1, <3>2 DEF Call
  <2>5. Typed(d) BY <1>2, <2>1, <2>3, <2>4 DEF Typed
  <2>6. d.args[i] = v BY <1>6, <2>1, <2>3
  <2>7. Settled(d, i) BY <1>7, <2>3, <2>6 DEF Settled
  <2>8. Sound(d)
    <3>1. \A j \in Indexes(c.f) \ {i} : d.args[j] = c.args[j] BY <2>1, <2>3
    <3>2. d.args[i].is = "attribute" => d.args[i].from = d.source BY <1>7, <2>3, <2>6
    <3>3. QED BY <1>1, <1>3, <2>3, <2>7, <3>1, <3>2, NameFilled
  <2>9. call' = [call EXCEPT ![t] = d] BY <1>7 DEF d
  <2>10. QED BY <1>4, <2>3, <2>5, <2>8, <2>9, Frame, HarmlessStays DEF IInv, Types
<1>8. ASSUME NEW i \in Pending(c, FromNames(c.f)), i \in FromRequired(c.f),
             call' = [call EXCEPT ![t] = [fetched EXCEPT !.unmet = @ \cup {i}, !.at = i + 1]]
      PROVE  IInv'
  <2> DEFINE d == [fetched EXCEPT !.unmet = @ \cup {i}, !.at = i + 1]
  <2>1. /\ d.step = "names" /\ d.f = c.f /\ d.given = c.given /\ d.at = i + 1
        /\ d.unmet = c.unmet \cup {i} /\ d.source = source /\ d.args = c.args
    BY <1>1 DEF Call
  <2>2. d \in Call
    <3>1. i + 1 \in Nat /\ c.unmet \cup {i} \in SUBSET Nat BY <1>1, <1>6 DEF Call
    <3>2. d = [step |-> c.step, f |-> c.f, given |-> c.given, args |-> c.args, at |-> i + 1,
               lookups |-> lookups, source |-> source, unmet |-> c.unmet \cup {i},
               built |-> c.built]
      <4>1. d = [c EXCEPT !.unmet = c.unmet \cup {i}, !.at = i + 1, !.source = source,
                          !.lookups = lookups]
        BY <1>1 DEF Call
      <4> HIDE DEF d
      <4>2. QED BY <1>1, <4>1 DEF Call
    <3>3. QED BY <1>1, <1>3, <3>1, <3>2 DEF Call
  <2>3. call' = [call EXCEPT ![t] = d] BY <1>8
  <2> HIDE DEF d
  <2>4. Typed(d) BY <1>2, <1>6, <2>1, <2>2 DEF Typed
  <2>5. Settled(d, i) BY <1>8, <2>1 DEF Settled
  <2>6. d.args[i].is # "attribute"
    <3>1. c.args[i] = Injected BY PendingIs
    <3>2. QED BY <2>1, <3>1 DEF Injected, Bare
  <2>7. Sound(d) BY <1>1, <1>3, <2>1, <2>5, <2>6, NameFilled
  <2>8. QED BY <1>4, <2>1, <2>3, <2>4, <2>7, Frame, HarmlessStays DEF IInv, Types
<1>9. ASSUME NEW i \in Pending(c, FromNames(c.f))
      PROVE  [is |-> "attribute", from |-> source] \in Value
  BY <1>3 DEF Value
<1>10. ASSUME NEW i \in Pending(c, FromNames(c.f)), i \notin FromRequired(c.f)
       PROVE  LET v == Bare(Params[c.f][i].default)
              IN  /\ v \in Value /\ v.is # "attribute"
                  /\ v.is = "own" \/ Params[c.f][i].default = "injected"
  <2>1. Params[c.f][i].default \in {"own", "injected"}
    BY <1>6, <1>10 DEF FromRequired, Param
  <2>2. QED BY <2>1 DEF Bare, Value
<1>11. QED
  <2>1. PICK i \in Pending(c, FromNames(c.f)) :
          \/ call' = [call EXCEPT ![t].step = "miss"]
          \/ call' = [call EXCEPT ![t] = Filled(fetched, i, [is |-> "attribute", from |-> source])]
          \/ /\ i \in FromRequired(c.f)
             /\ call' = [call EXCEPT ![t] = [fetched EXCEPT !.unmet = @ \cup {i}, !.at = i + 1]]
          \/ /\ i \notin FromRequired(c.f)
             /\ call' = [call EXCEPT ![t] = Filled(fetched, i, Bare(Params[c.f][i].default))]
    BY DEF Name, source, lookups
  <2>2. CASE call' = [call EXCEPT ![t] = Filled(fetched, i, [is |-> "attribute", from |-> source])]
    BY <1>7, <1>9, <2>2
  <2>3. CASE i \notin FromRequired(c.f)
             /\ call' = [call EXCEPT ![t] = Filled(fetched, i, Bare(Params[c.f][i].default))]
    BY <1>7, <1>10, <2>3
  <2>4. QED BY <1>5, <1>8, <2>1, <2>2, <2>3

LEMMA NamesDoneHolds == ASSUME IInv, NEW t \in Threads, NamesDone(t) PROVE IInv'
<1> DEFINE c == call[t]
           step == IF c.unmet = {} THEN "body" ELSE "unmet"
           d == [c EXCEPT !.step = step]
<1>1. /\ Typed(c) /\ Sound(c) /\ c \in Call /\ c.f \in Functions /\ c.step = "names"
      /\ Pending(c, FromNames(c.f)) = {}
  BY Known DEF NamesDone, Steps
<1>2. call' = [call EXCEPT ![t] = d] /\ UNCHANGED <<defined, returned, impl>>
  BY DEF NamesDone
<1>3. step \in {"body", "unmet"} /\ (step = "body" => c.unmet = {}) OBVIOUS
<1> HIDE DEF step
<1>4. /\ Typed(d) /\ d.step = step /\ d.f = c.f /\ d.given = c.given /\ d.args = c.args
      /\ d.source = c.source /\ d.unmet = c.unmet
  BY <1>1, <1>3, Moved DEF Steps, Errors, Unbound
<1> HIDE DEF d
<1>5. ASSUME NEW i \in FromNames(c.f) PROVE Settled(c, i)
  <2>1. NamesSound(c) /\ i \in Nat /\ c.at \in Nat /\ FromNames(c.f) \subseteq Nat
    BY <1>1, Signature DEF Sound, Call
  <2>2. CASE i < c.at BY <1>1, <2>1, <2>2 DEF NamesSound
  <2>3. CASE i >= c.at
    <3>1. Untouched(c, i) /\ c.args[i] # Injected BY <1>1, <2>1, <2>3, NonePending DEF NamesSound
    <3>2. QED BY <3>1 DEF Untouched, Settled, Bare
  <2>4. QED BY <2>1, <2>2, <2>3
<1>6. Sound(d)
  <2>1. Filling(d) BY <1>1, <1>4 DEF Sound, Unbound, Filling, Refused
  <2>2. MarkersSound(d) BY <1>1, <1>3, <1>4 DEF Sound, MarkersSound
  <2>3. NamesSound(d) BY <1>3, <1>4, <1>5 DEF NamesSound, Settled
  <2>4. QED BY <1>1, <1>3, <1>4, <2>1, <2>2, <2>3 DEF Sound, Traced, Unbound
<1>7. QED BY <1>2, <1>3, <1>4, <1>6, Frame, HarmlessStays DEF IInv, Types

LEMMA EndHolds == ASSUME IInv, NEW t \in Threads, End(t) PROVE IInv'
BY Frame, HarmlessStays DEF End, IInv, Types

LEMMA DefineHolds == ASSUME IInv, Define PROVE IInv'
BY DEF Define, IInv, Types, Harmless, Busied

LEMMA Inductive == IInv /\ [Next]_vars => IInv'
<1> SUFFICES ASSUME IInv, [Next]_vars PROVE IInv' OBVIOUS
<1>1. CASE UNCHANGED vars BY <1>1 DEF vars, IInv, Types, Harmless, Busied
<1>2. CASE Next
  BY <1>2, DefineHolds, DecorateHolds, BeginHolds, DispatchHolds, BuildHolds, StoreHolds,
     MarkerHolds, MarkersDoneHolds, NameHolds, NamesDoneHolds, EndHolds DEF Next
<1>3. QED BY <1>1, <1>2

LEMMA Invariant == Spec => []IInv
<1>1. Init => IInv BY DEF Init, IInv, Types, Harmless, Busied
<1>2. QED BY <1>1, Inductive, PTL DEF Spec

-----------------------------------------------------------------------------
(* What the invariant says of a call. *)

LEMMA Underway ==
    ASSUME IInv, NEW t \in Busy
    PROVE  t \in Threads /\ Typed(call[t]) /\ Sound(call[t]) /\ call[t].f \in Functions
BY DEF IInv, Busy, Busied, Typed, Call

\* Whatever the functions and the threads, every call under way is well formed: its
\* arguments match its signature once they are bound.
THEOREM TypeCorrect == Spec => []TypeOK
<1>1. IInv => TypeOK BY DEF IInv, Types, Busied, Typed, Unbound, TypeOK
<1>2. QED BY <1>1, Invariant, PTL

\* The wrapper hands its sentinel to a body in place of an injection only where it
\* overlooked the marker, also where a first call raced the definition of the names its
\* plan waits for.
THEOREM NoSentinel == Spec => []NoSentinelInBody
<1>1. ASSUME IInv, NEW t \in InBody, NEW i \in DOMAIN call[t].args, call[t].args[i] = Injected
      PROVE  /\ Params[call[t].f][i].default = "injected"
             /\ i \in Marked(call[t].f) => call[t].f \in Overlooked
  <2> DEFINE c == call[t]
  <2>1. /\ Typed(c) /\ Sound(c) /\ c.f \in Functions /\ c.step = "body" /\ i \in Indexes(c.f)
        /\ Filling(c) /\ MarkersSound(c) /\ NamesSound(c) /\ c.unmet = {}
    <3>1. t \in Busy /\ c.step = "body" BY DEF InBody
    <3>2. Typed(c) /\ Sound(c) /\ c.f \in Functions BY <1>1, <3>1, Underway
    <3>3. DOMAIN c.args = Indexes(c.f) BY <3>1, <3>2 DEF Typed, Call, Unbound, Indexes
    <3>4. QED BY <3>1, <3>2, <3>3 DEF Sound, Unbound
  <2>2. CASE i \in Marked(c.f) BY <1>1, <2>1, <2>2 DEF MarkersSound
  <2>3. CASE i \notin Injectable(c.f) BY <1>1, <2>1, <2>3, Signature DEF Filling
  <2>4. CASE i \in FromNames(c.f)
    <3>1. Settled(c, i) /\ i \notin Marked(c.f) BY <2>1, <2>4, Signature DEF NamesSound
    <3>2. QED BY <1>1, <2>1, <3>1 DEF Settled, Injected, Bare
  <2>5. QED BY <2>1, <2>2, <2>3, <2>4, Signature
<1>2. IInv => NoSentinelInBody BY <1>1 DEF NoSentinelInBody
<1>3. QED BY <1>2, Invariant, PTL

\* No lookup and no by-name fill replaces what the caller passed.
THEOREM Explicit == Spec => []ExplicitWins
<1>1. IInv => ExplicitWins BY Underway DEF ExplicitWins, InBody, Sound, Filling, Unbound
<1>2. QED BY <1>1, Invariant, PTL

\* The guard the generated header needs for the defaults it invented is exact: a call
\* the undecorated function refuses, its injectable parameters being optional, fails
\* before any lookup, and no other call does, except that a marked parameter that was
\* overlooked has to be passed.
THEOREM UnderSupplied == Spec => []UnderSuppliedFailsFirst
<1>1. IInv => UnderSuppliedFailsFirst
  BY Underway DEF UnderSuppliedFailsFirst, Sound, Filling, Unbound
<1>2. QED BY <1>1, Invariant, PTL

\* All the attributes of a by-name call come from one lookup.
THEOREM OneLookup == Spec => []OneSource
<1>1. ASSUME IInv, NEW t \in Busy,
             NEW i \in FromNames(call[t].f) \cap DOMAIN call[t].args,
             call[t].args[i].is = "attribute"
      PROVE  call[t].args[i].from = call[t].source
  BY <1>1, Underway DEF Sound, Traced
<1>2. IInv => OneSource BY <1>1 DEF OneSource
<1>3. QED BY <1>2, Invariant, PTL

\* The error for unmet parameters is raised after every fill and leaves none out.
THEOREM Unmet == Spec => []UnmetIsComplete
<1>1. IInv => UnmetIsComplete
  BY Underway DEF UnmetIsComplete, Sound, NamesSound, Settled, Unbound
<1>2. QED BY <1>1, Invariant, PTL

\* The header the wrapper is compiled with is one Python takes: no positional
\* parameter without a default comes after one that has one.
THEOREM HeaderCompiles ==
    ASSUME NEW f \in Functions, NEW i \in Indexes(f), NEW j \in Indexes(f), i < j,
           Params[f][j].kind = "positional", Header(f)[j] = "required"
    PROVE  Header(f)[i] = "required"
<1>1. j \notin Injectable(f) \cup Missing(f) /\ Params[f][j].default = "required"
  BY DEF Header
<1>2. ~ Defaulted(f, j) BY <1>1 DEF Missing
<1>3. i \in Nat /\ j \in Nat /\ i >= 1 BY DEF Indexes, Signature
<1>4. \A k \in 1..i : k \notin Injectable(f) /\ Params[f][k].default = "required"
  <2>1. \A k \in 1..i : k \in 1..j - 1 BY <1>3
  <2>2. QED BY <1>2, <2>1 DEF Defaulted
<1>5. i \notin Missing(f) BY <1>3, <1>4 DEF Missing, Defaulted
<1>6. QED BY <1>3, <1>4, <1>5 DEF Header
=============================================================================
