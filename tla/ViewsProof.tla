------------------------------ MODULE ViewsProof ------------------------------
(***************************************************************************)
(* Proofs about Views: a sealed view expires with its own entry and no     *)
(* other, and only a write through a view changes a namespace.             *)
(***************************************************************************)
EXTENDS Views, WellFoundedInduction, TLAPS

\* A stack names entries, none of them twice.
Stacked(s) ==
    /\ s \in Seq(Nat)
    /\ \A i \in 1..Len(s) : s[i] \in 1..Len(entries)
    /\ \A i, j \in 1..Len(s) : s[i] = s[j] => i = j

\* An entry has the namespace of its provider or one of its own, and a scope of its
\* own or none.
Entered(e) ==
    /\ entries[e] \in Entry
    /\ entries[e].space \in DOMAIN spaces
    /\ \/ entries[e].space = e
       \/ entries[e].space \in Providers /\ entries[e].space = entries[e].prov
    /\ entries[e].scope \in {0, e}

On(e, s) == \E i \in 1..Len(s) : s[i] = e

\* A sealed entry is on its task's stack until it expires, and from then on nowhere
\* but on top.
Follows(e) ==
    LET s == stack[entries[e].task] IN
    entries[e].scope # 0 =>
        /\ ~Dead(e) => On(e, s)
        /\ Dead(e) /\ On(e, s) => s # <<>> /\ e = s[Len(s)]

Types ==
    /\ DOMAIN spaces \subseteq Providers \cup 1..Len(entries)
    /\ Providers \ Extending \subseteq DOMAIN spaces
    /\ \A s \in DOMAIN spaces : spaces[s] \in Space
    /\ DOMAIN boxes \subseteq Ids /\ \A i \in DOMAIN boxes : boxes[i] \in Content
    /\ entries \in Seq(Entry)
    /\ DOMAIN stack = Tasks
    /\ active \in [Providers -> 0..Len(entries)]
    /\ expired \subseteq 1..Len(entries)
    /\ by \in {"own", "public", None}

VInv ==
    /\ Types
    /\ \A t \in Tasks : Stacked(stack[t])
    /\ \A e \in 1..Len(entries) : Entered(e) /\ Follows(e)

-----------------------------------------------------------------------------
(* Sequences. *)

LEMMA Appended ==
    ASSUME NEW S, NEW s \in Seq(S), NEW x \in S
    PROVE  /\ Append(s, x) \in Seq(S) /\ Len(Append(s, x)) = Len(s) + 1
           /\ Len(s) \in Nat
           /\ \A i \in 1..Len(s) : Append(s, x)[i] = s[i]
           /\ Append(s, x)[Len(s) + 1] = x
OBVIOUS

LEMMA Fronts ==
    ASSUME NEW S, NEW s \in Seq(S), s # <<>>
    PROVE  /\ Front(s) \in Seq(S) /\ Len(Front(s)) = Len(s) - 1
           /\ Len(s) \in Nat \ {0}
           /\ \A i \in 1..Len(s) - 1 : Front(s)[i] = s[i]
           /\ Last(s) = s[Len(s)]
<1>1. Len(s) \in Nat \ {0} /\ Last(s) = s[Len(s)] BY DEF Last
<1>2. Front(s) = [i \in 1..Len(s) - 1 |-> s[i]] BY <1>1 DEF Front
<1>3. Front(s) \in Seq(S) BY <1>1 DEF Front
<1>4. Len(Front(s)) = Len(s) - 1
  <2>1. Len(s) - 1 \in Nat BY <1>1
  <2>2. QED BY <1>2, <2>1
<1>5. QED BY <1>1, <1>2, <1>3, <1>4

\* A bounded set of numbers that has a member has a greatest one.
LEMMA Greatest ==
    ASSUME NEW n \in Nat, NEW S \in SUBSET (1..n), S # {}
    PROVE  \E m \in S : \A i \in S : i <= m
<1> DEFINE above == {pair \in Nat \X Nat : pair[1] < pair[2]}
           T == {n - i : i \in S}
<1>1. IsWellFoundedOn(above, Nat) BY NatLessThanWellFounded DEF OpToRel
<1>2. T \subseteq Nat /\ T # {}
  <2>1. ASSUME NEW i \in S PROVE n - i \in Nat
    <3>1. i \in 1..n OBVIOUS
    <3>2. QED BY <3>1
  <2>2. PICK i \in S : TRUE OBVIOUS
  <2>3. n - i \in T BY <2>2
  <2>4. QED BY <2>1, <2>3
<1>3. PICK k \in T : \A j \in T : <<j, k>> \notin above
  <2> HIDE DEF above, T
  <2> QED BY <1>1, <1>2, WFMin
<1>4. PICK m \in S : k = n - m OBVIOUS
<1>5. ASSUME NEW i \in S PROVE i <= m
  <2>1. n - i \in T /\ n - i \in Nat /\ n - m \in Nat OBVIOUS
  <2>2. ~ (n - i < n - m) BY <1>3, <1>4, <2>1
  <2>3. QED BY <2>1, <2>2
<1>6. QED BY <1>5

-----------------------------------------------------------------------------
(* The steps. *)

\* What use() finds is an entry.
LEMMA FoundIs ==
    ASSUME VInv, NEW t \in Tasks, NEW n
    PROVE  Found(t, n) \in 0..Len(entries)
<1>1. CASE Open(t, n) = {} BY <1>1 DEF Found, VInv, Types
<1>2. CASE Open(t, n) # {}
  <2>1. stack[t] \in Seq(Nat) /\ \A i \in 1..Len(stack[t]) : stack[t][i] \in 1..Len(entries)
    BY DEF VInv, Stacked
  <2>2. Open(t, n) \subseteq 1..Len(stack[t]) /\ Len(stack[t]) \in Nat BY <2>1 DEF Open
  <2>3. \E i \in Open(t, n) : \A j \in Open(t, n) : j <= i BY <1>2, <2>2, Greatest
  <2>4. Found(t, n) \in 1..Len(entries) BY <1>2, <2>1, <2>2, <2>3 DEF Found
  <2>5. QED BY <2>4
<1>3. QED BY <1>1, <1>2

\* Where the entries stay, a write or a step that concerns none of this keeps all.
LEMMA Still ==
    ASSUME VInv, Types', UNCHANGED <<entries, stack, expired>>, DOMAIN spaces' = DOMAIN spaces
    PROVE  VInv'
<1>1. \A t \in Tasks : Stacked(stack[t])' BY DEF VInv, Stacked
<1>2. \A e \in 1..Len(entries) : Entered(e)' /\ Follows(e)'
  BY DEF VInv, Entered, Follows, Dead, On
<1>3. QED BY <1>1, <1>2 DEF VInv

\* A block opens: its entry is on its task's stack and nowhere else.
LEMMA PushHolds ==
    ASSUME VInv, NEW t \in Tasks, NEW entry \in Entry, entry.task = t, Push(t, entry),
           entry.space = Len(entries) + 1 \/
               (entry.space \in Providers /\ entry.space = entry.prov),
           entry.scope \in {0, Len(entries) + 1},
           DOMAIN spaces' = DOMAIN spaces \cup {entry.space},
           UNCHANGED expired, Types'
    PROVE  VInv'
<1>0. PICK n \in Nat : n = Len(entries) BY DEF VInv, Types
<1> DEFINE s == stack[t]
<1>1. /\ entries \in Seq(Entry) /\ n = Len(entries) /\ n \in Nat /\ n + 1 \in Nat
      /\ \A u \in Tasks : stack[u] \in Seq(Nat) /\ DOMAIN stack = Tasks
  BY <1>0 DEF VInv, Types, Stacked
<1>2. /\ entries' = Append(entries, entry) /\ Len(entries') = n + 1
      /\ \A e \in 1..n : entries'[e] = entries[e]
      /\ entries'[n + 1] = entry
  BY <1>1, Appended DEF Push
<1>3. /\ stack'[t] \in Seq(Nat) /\ Len(stack'[t]) = Len(s) + 1 /\ Len(s) \in Nat
      /\ \A i \in 1..Len(s) : stack'[t][i] = s[i]
      /\ stack'[t][Len(s) + 1] = n + 1
  <2>1. stack'[t] = Append(s, n + 1) BY <1>1 DEF Push
  <2>2. QED BY <1>1, <2>1, Appended
<1>4. \A u \in Tasks \ {t} : stack'[u] = stack[u] BY <1>1 DEF Push
<1>5. ASSUME NEW u \in Tasks PROVE Stacked(stack[u])'
  <2>1. Stacked(stack[u]) BY DEF VInv
  <2>2. CASE u # t BY <1>1, <1>2, <1>4, <2>1, <2>2 DEF Stacked
  <2>3. CASE u = t
    <3>1. \A i \in 1..Len(s) : s[i] \in 1..n BY <1>1, <2>1, <2>3 DEF Stacked
    <3>2. \A i \in 1..Len(s) : s[i] # n + 1 BY <1>1, <3>1
    <3>3. ASSUME NEW i \in 1..Len(s) + 1 PROVE stack'[t][i] \in 1..n + 1
      <4>1. CASE i \in 1..Len(s)
        <5>1. stack'[t][i] = s[i] /\ s[i] \in 1..n BY <1>3, <3>1, <4>1
        <5>2. QED BY <1>1, <5>1
      <4>2. CASE i = Len(s) + 1 BY <1>1, <1>3, <4>2
      <4>3. QED BY <1>3, <4>1, <4>2
    <3>4. \A i, j \in 1..Len(s) : s[i] = s[j] => i = j BY <2>1, <2>3 DEF Stacked
    <3>5. ASSUME NEW i \in 1..Len(s) + 1, NEW j \in 1..Len(s) + 1, stack'[t][i] = stack'[t][j]
          PROVE  i = j
      <4>1. CASE i \in 1..Len(s) /\ j \in 1..Len(s) BY <1>3, <3>4, <3>5, <4>1
      <4>2. CASE i = Len(s) + 1 /\ j = Len(s) + 1 BY <4>2
      <4>3. CASE i \in 1..Len(s) /\ j = Len(s) + 1 BY <1>3, <3>2, <3>5, <4>3
      <4>4. CASE i = Len(s) + 1 /\ j \in 1..Len(s) BY <1>3, <3>2, <3>5, <4>4
      <4>5. Len(s) \in Nat BY <1>3
      <4>6. (i \in 1..Len(s) \/ i = Len(s) + 1) /\ (j \in 1..Len(s) \/ j = Len(s) + 1) BY <4>5
      <4>7. QED BY <4>1, <4>2, <4>3, <4>4, <4>6
    <3>6. QED BY <1>2, <1>3, <2>3, <3>3, <3>5 DEF Stacked
  <2>4. QED BY <2>2, <2>3
<1>6. ASSUME NEW e \in 1..n PROVE Entered(e)' /\ Follows(e)'
  <2>1. Entered(e) /\ Follows(e) /\ entries'[e] = entries[e] BY <1>2 DEF VInv
  <2>2. Entered(e)' BY <2>1 DEF Entered
  <2>3. Dead(e)' <=> Dead(e) BY <2>1 DEF Dead
  <2>4. CASE entries[e].task # t
    <3>1. entries[e].task \in Tasks BY <2>1 DEF Entered, Entry
    <3>2. stack'[entries[e].task] = stack[entries[e].task] BY <1>4, <2>4, <3>1
    <3>3. QED BY <2>1, <2>2, <2>3, <3>2 DEF Follows, On
  <2>5. CASE entries[e].task = t
    <3>1. On(e, stack'[t]) <=> On(e, s)
      <4>1. \A i \in 1..Len(s) + 1 : i \in 1..Len(s) \/ i = Len(s) + 1 BY <1>3
      <4>2. e # n + 1 BY <1>1
      <4>3. \A i \in 1..Len(s) : i \in 1..Len(s) + 1 BY <1>3
      <4>4. QED BY <1>3, <4>1, <4>2, <4>3 DEF On
    <3>2. ASSUME entries[e].scope # 0, Dead(e) PROVE ~ On(e, s)
      <4>1. ASSUME On(e, s) PROVE FALSE
        <5>1. s # <<>> /\ e = s[Len(s)] BY <2>1, <2>5, <3>2, <4>1 DEF Follows
        <5>2. Leaving(t) BY <2>5, <3>2, <5>1 DEF Leaving, Innermost, Last
        <5>3. QED BY <5>2 DEF Push
      <4>2. QED BY <4>1
    <3>3. Follows(e)' BY <2>1, <2>3, <2>5, <3>1, <3>2 DEF Follows
    <3>4. QED BY <2>2, <3>3
  <2>6. QED BY <2>4, <2>5
<1>7. Entered(n + 1)'
  <2>1. entries'[n + 1] = entry BY <1>2
  <2>2. entry.space = n + 1 \/ (entry.space \in Providers /\ entry.space = entry.prov) BY <1>1
  <2>3. entry.space \in DOMAIN spaces' /\ entry.scope \in {0, n + 1} BY <1>1
  <2>4. QED BY <2>1, <2>2, <2>3 DEF Entered
<1>8. Follows(n + 1)'
  <2>1. n + 1 \notin expired /\ n + 1 # 0 BY <1>1 DEF VInv, Types
  <2>2. On(n + 1, stack'[t])
    <3>1. Len(s) + 1 \in 1..Len(stack'[t]) BY <1>3
    <3>2. QED BY <1>3, <3>1 DEF On
  <2>3. ~ Dead(n + 1)' \/ entry.scope = 0
    <3>1. entry.scope \in {0, n + 1} BY <1>1
    <3>2. QED BY <1>2, <2>1, <3>1 DEF Dead
  <2>4. QED BY <1>2, <2>2, <2>3 DEF Follows
<1>9. \A e \in 1..Len(entries') : e \in 1..n \/ e = n + 1 BY <1>1, <1>2
<1>10. QED BY <1>5, <1>6, <1>7, <1>8, <1>9 DEF VInv

LEMMA UnwindHolds == ASSUME VInv, NEW t \in Tasks, Unwind(t) PROVE VInv'
<1> DEFINE s == stack[t]
           last == s[Len(s)]
<1>1. /\ Innermost(t) /\ s \in Seq(Nat) /\ s # <<>> /\ Len(s) \in Nat \ {0}
      /\ Last(s) = last /\ entries[last].task = t /\ last \in 1..Len(entries)
  <2>1. s \in Seq(Nat) /\ s # <<>> /\ entries[Last(s)].task = t /\ Innermost(t)
    BY DEF VInv, Stacked, Unwind, Innermost
  <2>2. Len(s) \in Nat \ {0} /\ Last(s) = last BY <2>1, Fronts
  <2>3. last \in 1..Len(entries) BY <2>2 DEF VInv, Stacked
  <2>4. QED BY <2>1, <2>2, <2>3
<1>2. /\ stack' = [stack EXCEPT ![t] = Front(s)]
      /\ entries[last].scope # 0 => Dead(last)
      /\ UNCHANGED <<spaces, boxes, entries, expired>> /\ by' = None
      /\ active' = [p \in Providers |-> IF p = entries[last].prov THEN 0 ELSE active[p]]
  BY <1>1 DEF Unwind
<1>3. /\ stack'[t] \in Seq(Nat) /\ Len(stack'[t]) = Len(s) - 1
      /\ \A i \in 1..Len(s) - 1 : stack'[t][i] = s[i]
      /\ \A u \in Tasks \ {t} : stack'[u] = stack[u]
  <2>1. DOMAIN stack = Tasks BY DEF VInv, Types
  <2>2. stack'[t] = Front(s) BY <1>2, <2>1
  <2>3. QED BY <1>1, <1>2, <2>1, <2>2, Fronts
<1>4. Types' BY <1>2 DEF VInv, Types
<1>5. \A i \in 1..Len(s) - 1 : i \in 1..Len(s) BY <1>1
<1>6. ASSUME NEW u \in Tasks PROVE Stacked(stack[u])'
  <2>1. Stacked(stack[u]) BY DEF VInv
  <2>2. CASE u # t BY <1>2, <1>3, <2>1, <2>2 DEF Stacked
  <2>3. CASE u = t
    <3>1. \A i \in 1..Len(s) - 1 : s[i] \in 1..Len(entries) BY <1>5, <2>1, <2>3 DEF Stacked
    <3>2. \A i, j \in 1..Len(s) - 1 : s[i] = s[j] => i = j BY <1>5, <2>1, <2>3 DEF Stacked
    <3>3. \A i \in 1..Len(s) - 1 : stack'[t][i] \in 1..Len(entries) BY <1>3, <3>1
    <3>4. \A i, j \in 1..Len(s) - 1 : stack'[t][i] = stack'[t][j] => i = j BY <1>3, <3>2
    <3>5. Len(stack'[t]) = Len(s) - 1 /\ stack'[t] \in Seq(Nat) /\ entries' = entries
      BY <1>2, <1>3
    <3>6. QED BY <2>3, <3>3, <3>4, <3>5 DEF Stacked
  <2>4. QED BY <2>2, <2>3
<1>7. ASSUME NEW e \in 1..Len(entries) PROVE Entered(e)' /\ Follows(e)'
  <2>1. Entered(e) /\ Follows(e) BY DEF VInv
  <2>2. Entered(e)' /\ (Dead(e)' <=> Dead(e)) BY <1>2, <2>1 DEF Entered, Dead
  <2>3. CASE entries[e].task # t
    <3>1. entries[e].task \in Tasks BY <2>1 DEF Entered, Entry
    <3>2. QED BY <1>2, <1>3, <2>1, <2>2, <2>3, <3>1 DEF Follows, On
  <2>4. CASE entries[e].task = t
    <3>1. ~ On(last, stack'[t])
      <4>1. ASSUME NEW i \in 1..Len(s) - 1, s[i] = last PROVE FALSE
        <5>1. i \in 1..Len(s) /\ Len(s) \in 1..Len(s) /\ i # Len(s) BY <1>1
        <5>2. \A j \in 1..Len(s) : s[i] = s[j] => i = j BY <5>1 DEF VInv, Stacked
        <5>3. QED BY <4>1, <5>1, <5>2
      <4>2. QED BY <1>3, <4>1 DEF On
    <3>2. On(e, stack'[t]) => On(e, s) BY <1>3, <1>5 DEF On
    <3>3. ASSUME On(e, s), e # last PROVE On(e, stack'[t])
      <4>1. PICK i \in 1..Len(s) : s[i] = e BY <3>3 DEF On
      <4>2. i # Len(s) BY <3>3, <4>1
      <4>3. i \in 1..Len(s) - 1 BY <1>1, <4>2
      <4>4. QED BY <1>3, <4>1, <4>3 DEF On
    <3>4. ASSUME entries[e].scope # 0 PROVE On(e, stack'[t]) <=> ~ Dead(e)
      <4>1. CASE Dead(e)
        <5>1. On(e, s) => e = last BY <2>1, <2>4, <3>4, <4>1 DEF Follows
        <5>2. QED BY <3>1, <3>2, <4>1, <5>1
      <4>2. CASE ~ Dead(e)
        <5>1. On(e, s) BY <2>1, <2>4, <3>4, <4>2 DEF Follows
        <5>2. e # last BY <1>2, <3>4, <4>2
        <5>3. QED BY <3>3, <4>2, <5>1, <5>2
      <4>3. QED BY <4>1, <4>2
    <3>5. Follows(e)' BY <1>2, <2>2, <2>4, <3>4 DEF Follows
    <3>6. QED BY <2>2, <3>5
  <2>5. QED BY <2>3, <2>4
<1>8. QED BY <1>2, <1>4, <1>6, <1>7 DEF VInv

LEMMA ExpireHolds == ASSUME VInv, NEW t \in Tasks, Expire(t) PROVE VInv'
<1> DEFINE s == stack[t]
<1>1. PICK last \in 1..Len(entries) :
          /\ last = s[Len(s)] /\ s # <<>> /\ entries[last].task = t /\ Last(s) = last
  <2>1. s \in Seq(Nat) /\ s # <<>> /\ entries[Last(s)].task = t
    BY DEF VInv, Stacked, Expire, Innermost
  <2>2. Len(s) \in Nat \ {0} /\ Last(s) = s[Len(s)] BY <2>1, Fronts
  <2>3. s[Len(s)] \in 1..Len(entries) BY <2>2 DEF VInv, Stacked
  <2>4. QED BY <2>1, <2>2, <2>3
<1>2. /\ entries[last].scope # 0 /\ ~ Dead(last) /\ expired' = expired \cup {entries[last].scope}
      /\ UNCHANGED <<spaces, boxes, entries, stack, active>> /\ by' = None
  BY <1>1 DEF Expire
<1>3. entries[last].scope = last BY <1>2 DEF VInv, Entered
<1>4. Types' BY <1>2, <1>3 DEF VInv, Types
<1>5. \A u \in Tasks : Stacked(stack[u])' BY <1>2 DEF VInv, Stacked
<1>6. ASSUME NEW e \in 1..Len(entries) PROVE Entered(e)' /\ Follows(e)'
  <2>1. Entered(e) /\ Follows(e) /\ entries[e].scope \in {0, e} BY DEF VInv, Entered
  <2>2. Entered(e)' BY <1>2, <2>1 DEF Entered
  <2>3. CASE e # last
    <3>1. entries[e].scope # 0 => (Dead(e)' <=> Dead(e)) BY <1>2, <1>3, <2>1, <2>3 DEF Dead
    <3>2. QED BY <1>2, <2>1, <2>2, <3>1 DEF Follows, On
  <2>4. CASE e = last
    <3>1. Dead(e)' BY <1>2, <1>3, <2>4 DEF Dead
    <3>2. QED BY <1>1, <1>2, <2>2, <2>4, <3>1 DEF Follows
  <2>5. QED BY <2>3, <2>4
<1>7. QED BY <1>2, <1>4, <1>5, <1>6 DEF VInv

LEMMA ForkHolds == ASSUME VInv, NEW t \in Tasks, NEW u \in Tasks, Fork(t, u) PROVE VInv'
<1>1. /\ stack' = [stack EXCEPT ![u] = stack[t]] /\ DOMAIN stack = Tasks
      /\ UNCHANGED <<spaces, boxes, entries, active, expired>> /\ by' = None
      /\ \A e \in 1..Len(entries) : entries[e].task # u
  BY DEF Fork, VInv, Types
<1>2. Types' BY <1>1 DEF VInv, Types
<1>3. \A v \in Tasks : Stacked(stack[v])' BY <1>1 DEF VInv, Stacked
<1>4. \A e \in 1..Len(entries) : Entered(e)' /\ Follows(e)'
  BY <1>1 DEF VInv, Entered, Entry, Follows, Dead, On
<1>5. QED BY <1>1, <1>2, <1>3, <1>4 DEF VInv

LEMMA WriteHolds ==
    ASSUME VInv, NEW e \in DOMAIN entries, NEW side \in {"own", "public"}, NEW a \in Attrs,
           NEW v \in Assigned, Write(e, side, a, v)
    PROVE  VInv'
<1>1. v \in Value BY AssignedAssumption, LayerAssumption DEF Value
<1>2. entries[e].space \in DOMAIN spaces BY DEF VInv, Types, Entered
<1>3. DOMAIN spaces' = DOMAIN spaces BY DEF Write
<1>4. Types' BY <1>1, <1>2, <1>3 DEF Write, VInv, Types, Space
<1>5. QED BY <1>3, <1>4, Still DEF Write

LEMMA WriteBoxHolds ==
    ASSUME VInv, NEW i \in Held, NEW v \in Assigned \cap Content, WriteBox(i, v) PROVE VInv'
<1>1. Types' BY DEF WriteBox, VInv, Types, Held
<1>2. QED BY <1>1, Still DEF WriteBox

LEMMA EnterPlainHolds ==
    ASSUME VInv, NEW t \in Tasks, NEW p \in Providers, EnterPlain(t, p) PROVE VInv'
<1> DEFINE entry == [name |-> NameOf[p], prov |-> p, task |-> t, space |-> p, scope |-> Scope(p)]
<1>1. Len(entries) \in Nat /\ entries \in Seq(Entry) BY DEF VInv, Types
<1>2. entry \in Entry /\ entry.scope \in {0, Len(entries) + 1}
  BY <1>1, ProvidersAssumption DEF Entry, Scope
<1>3. entry.task = t /\ entry.space = p /\ entry.prov = p OBVIOUS
<1>4. Push(t, entry) /\ UNCHANGED <<spaces, boxes, expired>> /\ p \in DOMAIN spaces
      /\ active' = [active EXCEPT ![p] = Len(entries) + 1] /\ by' = None
  BY DEF EnterPlain, VInv, Types
<1> HIDE DEF entry
<1>5. Types' BY <1>1, <1>2, <1>4, Appended DEF Push, VInv, Types
<1>6. QED BY <1>2, <1>3, <1>4, <1>5, PushHolds

\* The namespace an extending provider builds.
LEMMA MergedIs ==
    ASSUME VInv, NEW p \in Providers, NEW e \in 0..Len(entries) PROVE Merged(p, e) \in Space
<1>1. Layer[p] \in [Attrs -> Value] BY LayerAssumption DEF Value
<1>2. e # 0 => spaces[entries[e].space] \in Space BY DEF VInv, Types, Entered
<1>3. QED BY <1>1, <1>2 DEF Merged, Space

\* A block opens that has a namespace of its own.
LEMMA OwnSpaceHolds ==
    ASSUME VInv, NEW t \in Tasks, NEW n \in Names, NEW prov \in Providers \cup {None},
           NEW scope \in {0, Len(entries) + 1}, NEW space \in Space,
           Push(t, [name |-> n, prov |-> prov, task |-> t, space |-> Len(entries) + 1,
                    scope |-> scope]),
           spaces' = With(spaces, Len(entries) + 1, space),
           active' \in [Providers -> 0..Len(entries) + 1], by' = None,
           DOMAIN boxes' \subseteq Ids, \A i \in DOMAIN boxes' : boxes'[i] \in Content,
           UNCHANGED expired
    PROVE  VInv'
<1> DEFINE entry == [name |-> n, prov |-> prov, task |-> t, space |-> Len(entries) + 1,
                     scope |-> scope]
<1>1. Len(entries) \in Nat /\ entries \in Seq(Entry) BY DEF VInv, Types
<1>2. entry \in Entry BY <1>1 DEF Entry
<1>3. entry.task = t /\ entry.space = Len(entries) + 1 /\ entry.scope = scope OBVIOUS
<1>4. DOMAIN spaces' = DOMAIN spaces \cup {entry.space} BY DEF With
<1>5. Push(t, entry) OBVIOUS
<1> HIDE DEF entry
<1>6. entries' = Append(entries, entry) /\ Len(entries') = Len(entries) + 1
      /\ entries' \in Seq(Entry)
  BY <1>1, <1>2, <1>5, Appended DEF Push
<1>7. \A s \in DOMAIN spaces' : spaces'[s] \in Space BY DEF With, VInv, Types
<1>8. DOMAIN stack' = Tasks BY <1>5 DEF Push, VInv, Types
<1>9. Types' BY <1>1, <1>3, <1>4, <1>6, <1>7, <1>8 DEF VInv, Types
<1>10. QED BY <1>2, <1>3, <1>4, <1>5, <1>9, PushHolds

LEMMA EnterExtendingHolds ==
    ASSUME VInv, NEW t \in Tasks, NEW p \in Providers, EnterExtending(t, p) PROVE VInv'
<1> DEFINE e == Found(t, NameOf[p])
<1>1. Len(entries) \in Nat /\ Scope(p) \in {0, Len(entries) + 1} BY DEF VInv, Types, Scope
<1>2. Merged(p, e) \in Space BY FoundIs, MergedIs
<1>3. active' \in [Providers -> 0..Len(entries) + 1] BY <1>1 DEF EnterExtending, VInv, Types
<1>4. NameOf[p] \in Names BY ProvidersAssumption
<1>5. DOMAIN boxes' \subseteq Ids /\ \A i \in DOMAIN boxes' : boxes'[i] \in Content
  BY DEF EnterExtending, VInv, Types
<1> HIDE DEF e
<1>6. QED BY <1>1, <1>2, <1>3, <1>4, <1>5, OwnSpaceHolds DEF EnterExtending, e

LEMMA BlocksHold == ASSUME VInv, NEW t \in Tasks, Blocks(t) PROVE VInv'
BY EnterPlainHolds, EnterExtendingHolds, ExpireHolds, UnwindHolds, ForkHolds DEF Blocks

LEMMA WritesHold == ASSUME VInv, Writes PROVE VInv'
BY WriteHolds, WriteBoxHolds DEF Writes

LEMMA Begun == ViewsInit => VInv
<1> SUFFICES ASSUME ViewsInit PROVE VInv OBVIOUS
<1>1. Len(entries) = 0 /\ entries \in Seq(Entry) /\ \A t \in Tasks : stack[t] = <<>>
  BY DEF ViewsInit
<1>2. \A p \in Providers : Layer[p] \in Space BY LayerAssumption DEF Space, Value
<1>3. Types BY <1>1, <1>2, LayerAssumption DEF ViewsInit, Types
<1>4. Stacked(<<>>)
  <2>1. <<>> \in Seq(Nat) /\ Len(<<>>) = 0 OBVIOUS
  <2>2. QED BY <2>1 DEF Stacked
<1>5. \A t \in Tasks : Stacked(stack[t]) BY <1>1, <1>4
<1>6. QED BY <1>1, <1>3, <1>5 DEF VInv

LEMMA Sequel == ASSUME VInv, UNCHANGED views PROVE VInv'
<1>1. /\ spaces' = spaces /\ boxes' = boxes /\ entries' = entries /\ stack' = stack
      /\ active' = active /\ expired' = expired /\ by' = by
  BY DEF views
<1>2. Types' BY <1>1 DEF VInv, Types
<1>3. \A t \in Tasks : Stacked(stack[t])' BY <1>1 DEF VInv, Stacked
<1>4. ASSUME NEW e \in 1..Len(entries)' PROVE Entered(e)' /\ Follows(e)'
  <2>1. e \in 1..Len(entries) /\ Entered(e) /\ Follows(e) BY <1>1 DEF VInv
  <2>2. Entered(e)' BY <1>1, <2>1 DEF Entered
  <2>3. Follows(e)' BY <1>1, <2>1 DEF Follows, Dead, On
  <2>4. QED BY <2>2, <2>3
<1>5. QED BY <1>2, <1>3, <1>4 DEF VInv

LEMMA Invariant == ViewsSpec => []VInv
<1>1. VInv /\ [ViewsNext]_views => VInv' BY BlocksHold, WritesHold, Sequel DEF ViewsNext
<1>2. QED BY <1>1, Begun, PTL DEF ViewsSpec

-----------------------------------------------------------------------------
(* What the invariant says. *)

LEMMA Sealing == VInv => SealFollowsBlock
<1> SUFFICES ASSUME VInv, NEW e \in DOMAIN entries, entries[e].scope # 0
             PROVE  /\ ~Dead(e) => e \in ToSet(stack[entries[e].task])
                    /\ Dead(e) => \/ e \notin ToSet(stack[entries[e].task])
                                  \/ e = Last(stack[entries[e].task])
  BY DEF SealFollowsBlock
<1>1. e \in 1..Len(entries) BY DEF VInv, Types
<1>2. Follows(e) /\ entries[e].task \in Tasks BY <1>1 DEF VInv, Entered, Entry
<1>3. stack[entries[e].task] \in Seq(Nat) BY <1>2 DEF VInv, Stacked
<1>4. On(e, stack[entries[e].task]) <=> e \in ToSet(stack[entries[e].task])
  BY <1>3 DEF On, ToSet
<1>5. QED BY <1>2, <1>4 DEF Follows, Last

\* Namespaces change by a write only.
Written ==
    \A s \in DOMAIN spaces : spaces'[s] # spaces[s] =>
        /\ by' # None
        /\ \A e \in DOMAIN entries :
              entries[e].space = s /\ entries[e].prov \in Frozen => by' = "own"

LEMMA OpensUnwritten ==
    ASSUME VInv, NEW space, spaces' = With(spaces, Len(entries) + 1, space) PROVE Written
<1>1. Len(entries) + 1 \notin DOMAIN spaces BY ProvidersAssumption DEF VInv, Types
<1>2. QED BY <1>1 DEF With, Written

LEMMA BlocksUnwritten == ASSUME VInv, NEW t \in Tasks, Blocks(t) PROVE Written
<1>1. ASSUME UNCHANGED spaces PROVE Written BY <1>1 DEF Written
<1>2. ASSUME NEW p \in Providers, EnterExtending(t, p) PROVE Written
  BY <1>2, OpensUnwritten DEF EnterExtending
<1>3. QED BY <1>1, <1>2 DEF Blocks, EnterPlain, Expire, Unwind, Fork

LEMMA WritesWritten == ASSUME VInv, Writes PROVE Written
<1>1. ASSUME UNCHANGED spaces PROVE Written BY <1>1 DEF Written
<1>2. ASSUME NEW e \in DOMAIN entries, NEW side \in {"own", "public"}, NEW a \in Attrs,
             NEW v \in Assigned, Write(e, side, a, v)
      PROVE  Written
  <2>1. e \in 1..Len(entries) /\ DOMAIN entries = 1..Len(entries) BY DEF VInv, Types
  <2>2. /\ spaces' = [spaces EXCEPT ![entries[e].space][a] = v] /\ by' = side /\ ~ ReadOnly(e, side)
    BY <1>2 DEF Write
  <2>3. ASSUME NEW f \in 1..Len(entries), entries[f].space = entries[e].space,
               entries[f].prov \in Frozen
        PROVE  side = "own"
    <3>1. Entered(e) /\ Entered(f) /\ e \in Nat /\ f \in Nat BY <2>1 DEF VInv
    <3>2. e = f \/ entries[e].prov = entries[f].prov
      BY <2>3, <3>1, ProvidersAssumption DEF Entered
    <3>3. QED BY <2>2, <2>3, <3>2 DEF ReadOnly
  <2>4. \A s \in DOMAIN spaces : spaces'[s] # spaces[s] => s = entries[e].space BY <2>2
  <2>5. by' # None BY <2>2, SidesAssumption
  <2>6. QED BY <2>1, <2>2, <2>3, <2>4, <2>5 DEF Written
<1>3. QED BY <1>1, <1>2 DEF Writes, WriteBox

\* However often a sealed provider is entered, by whichever task, a view of one entry
\* lives exactly as long as that entry's block.
THEOREM SealFollows == ViewsSpec => []SealFollowsBlock
BY Invariant, Sealing, PTL

\* Opening, closing and forking leave every namespace as it was, and nothing that a
\* frozen block handed out writes to it.
THEOREM ByWritesOnly == ViewsSpec => ChangedByWrites
<1>1. VInv /\ [ViewsNext]_views => [Written]_views
  BY BlocksUnwritten, WritesWritten DEF ViewsNext
<1>2. ViewsSpec => [][Written]_views BY <1>1, Invariant, PTL DEF ViewsSpec
<1>3. QED BY <1>2, PTL DEF ChangedByWrites, Written
=============================================================================
