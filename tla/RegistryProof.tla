---------------------------- MODULE RegistryProof ----------------------------
(***************************************************************************)
(* Registry is safe for every number of contexts, blocks, keys, isolate()  *)
(* blocks and steps.  IInv speaks of every mapping a step can install: the *)
(* current ones and those tokens and isolate() blocks hold.  One lemma per *)
(* action shows that the step keeps it; the closes share LeaveOK, which    *)
(* asks of the mapping a close installs what the repair lemmas give.       *)
(***************************************************************************)
EXTENDS Registry, WellFoundedInduction, TLAPS

(* A set of times with an upper bound has a latest one. *)
LEMMA LatestExists ==
    ASSUME NEW S, S \subseteq Entry, S # {}, NEW n \in Nat, \A e \in S : e.at <= n
    PROVE  /\ Innermost(S) \in S
           /\ \A f \in S : f.at <= Innermost(S).at
<1> DEFINE Ages == {n - e.at : e \in S}
           Less == OpToRel(<, Nat)
<1>1. Ages \subseteq Nat /\ Ages # {}
  BY DEF Entry
<1>2. \E x \in Ages : \A y \in Ages : ~ (<<y, x>> \in Less)
  <2> HIDE DEF Ages, Less
  <2>1. IsWellFoundedOn(Less, Nat)
    BY NatLessThanWellFounded DEF Less
  <2> QED BY <1>1, <2>1, WFMin
<1>3. PICK x \in Ages : \A y \in Ages : ~ (<<y, x>> \in Less)
  BY <1>2
<1>4. \A y \in Ages : x <= y
  <2> TAKE y \in Ages
  <2>1. x \in Nat /\ y \in Nat /\ ~(<<y, x>> \in Less)
    BY <1>1, <1>3
  <2>2. ~ (y < x)
    BY <2>1 DEF OpToRel
  <2> HIDE DEF Ages, Less
  <2> QED BY <2>1, <2>2
<1>5. PICK e \in S : x = n - e.at
  OBVIOUS
<1>6. \A f \in S : f.at <= e.at
  <2> TAKE f \in S
  <2>1. n - f.at \in Ages
    OBVIOUS
  <2>2. n - e.at <= n - f.at
    BY <1>4, <1>5, <2>1
  <2>3. e.at \in Nat /\ f.at \in Nat
    BY DEF Entry
  <2> HIDE DEF Ages, Less
  <2> QED BY <2>2, <2>3
<1> QED BY <1>5, <1>6 DEF Innermost

-----------------------------------------------------------------------------
(* The mapping a repair builds. *)

LEMMA RestoredFromOpen ==
    ASSUME TypeOK, NEW m \in Mapping, NEW b \in Blocks, \A e \in m.chain : e.at <= clock
    PROVE  \/ Candidates(m, b) = {} /\ Restored(m, b) = NoEntry
           \/ \E o \in Candidates(m, b) :
                 /\ Restored(m, b) = entered[o.block]
                 /\ \A f \in Candidates(m, b) : f.at <= o.at
<1> DEFINE C == Candidates(m, b)
<1>1. C \subseteq m.chain /\ m.chain \subseteq Entry
  BY DEF Candidates, Mapping
<1>2. CASE C = {}
  BY <1>2 DEF Restored
<1>3. CASE C # {}
  <2>1. C \subseteq Entry /\ clock \in Nat /\ \A e \in C : e.at <= clock
    BY <1>1 DEF TypeOK
  <2> HIDE DEF C
  <2>2. /\ Innermost(C) \in C
        /\ \A f \in C : f.at <= Innermost(C).at
    BY <1>3, <2>1, LatestExists
  <2> QED BY <1>3, <2>2 DEF Restored, C
<1> QED BY <1>2, <1>3

LEMMA RepairedIsMapping ==
    ASSUME TypeOK, NEW m \in Mapping, NEW b \in Blocks, \A e \in m.chain : e.at <= clock
    PROVE  /\ Repaired(m, b) \in Mapping
           /\ Restored(m, b) \in Entry \cup {NoEntry}
<1>1. Restored(m, b) \in Entry \cup {NoEntry}
  <2>1. \A o \in Candidates(m, b) : entered[o.block] \in Entry \cup {NoEntry}
    BY DEF Candidates, TypeOK, Mapping, Entry
  <2> QED BY <2>1, RestoredFromOpen
<1>2. m.vals \in [Keys -> Entry \cup {NoEntry}] /\ m.chain \subseteq Entry
  BY DEF Mapping
<1>3. [m.vals EXCEPT ![KeyOf[b]] = Restored(m, b)] \in [Keys -> Entry \cup {NoEntry}]
  BY <1>1, <1>2
<1> QED BY <1>1, <1>2, <1>3 DEF Repaired, Mapping, OfBlock

(* Taking a block out leaves no value without a block on the chain. *)
LEMMA RepairedGhostFree ==
    ASSUME TypeOK, Paired, NEW m \in Mapping, NEW b \in Blocks,
           \A e \in m.chain : e.at <= clock,
           GhostFree(m)
    PROVE  GhostFree(Repaired(m, b))
<1> DEFINE r == Repaired(m, b)
<1> SUFFICES ASSUME NEW k \in Keys, r.vals[k] # NoEntry
             PROVE  Key(r.vals[k]) = k /\ OfBlock(r.chain, r.vals[k].block) # {}
  BY DEF GhostFree
<1>1. r.chain = {e \in m.chain : e.block # b}
  BY DEF Repaired, OfBlock
<1>2. m.vals \in [Keys -> Entry \cup {NoEntry}] /\ m.chain \subseteq Entry /\ KeyOf[b] \in Keys
  BY KeyOfAssumption DEF Mapping
<1>3. CASE k = KeyOf[b]
  <2>1. r.vals[k] = Restored(m, b)
    BY <1>2, <1>3 DEF Repaired
  <2>2. PICK o \in Candidates(m, b) : r.vals[k] = entered[o.block]
    BY <2>1, RestoredFromOpen
  <2>3. o \in m.chain /\ o.block # b /\ Key(o) = k /\ o.block \in Blocks
    BY <1>2, <1>3, <2>2 DEF Candidates, Entry
  <2>4. entered[o.block].block = o.block
    BY <2>2, <2>3 DEF Paired
  <2> QED BY <1>1, <2>2, <2>3, <2>4 DEF OfBlock, Key
<1>4. CASE k # KeyOf[b]
  <2>1. r.vals[k] = m.vals[k]
    BY <1>2, <1>4 DEF Repaired
  <2>2. Key(m.vals[k]) = k /\ OfBlock(m.chain, m.vals[k].block) # {}
    BY <2>1 DEF GhostFree
  <2>3. m.vals[k].block # b
    BY <1>4, <2>2 DEF Key
  <2> QED BY <1>1, <2>1, <2>2, <2>3 DEF OfBlock
<1> QED BY <1>3, <1>4

(* Taking a block out restores its key to the innermost block still open. *)
LEMMA RepairedAnswersOpen ==
    ASSUME TypeOK, NEW m \in Mapping, NEW b \in Blocks,
           \A e \in m.chain : e.at <= clock,
           AnswersOpen(m)
    PROVE  \A k \in Keys :
               AllOpen(Repaired(m, b), k) => AnswersInnermost(Repaired(m, b), k)
<1> DEFINE r == Repaired(m, b)
<1> SUFFICES ASSUME NEW k \in Keys, AllOpen(r, k)
             PROVE  AnswersInnermost(r, k)
  OBVIOUS
<1>1. r.chain = {e \in m.chain : e.block # b}
  BY DEF Repaired, OfBlock
<1>2. m.vals \in [Keys -> Entry \cup {NoEntry}] /\ m.chain \subseteq Entry /\ KeyOf[b] \in Keys
  BY KeyOfAssumption DEF Mapping
<1>3. CASE k = KeyOf[b]
  <2>1. r.vals[k] = Restored(m, b)
    BY <1>2, <1>3 DEF Repaired
  <2>2. OfKey(r.chain, k) = Candidates(m, b)
    <3>1. \A e \in OfKey(r.chain, k) : entered[e.block] = e /\ e # NoEntry
      BY <1>1, <1>2, NoEntryAssumption DEF AllOpen, OfKey
    <3> QED BY <1>1, <1>3, <3>1 DEF Candidates, OfKey
  <2>3. CASE Candidates(m, b) = {}
    BY <2>1, <2>2, <2>3 DEF AnswersInnermost, Restored
  <2>4. CASE Candidates(m, b) # {}
    <3>1. PICK o \in Candidates(m, b) :
              /\ Restored(m, b) = entered[o.block]
              /\ \A f \in Candidates(m, b) : f.at <= o.at
      BY <2>4, RestoredFromOpen
    <3>2. entered[o.block] = o
      BY <2>2, <3>1 DEF AllOpen
    <3> QED BY <2>1, <2>2, <2>4, <3>1, <3>2 DEF AnswersInnermost
  <2> QED BY <2>3, <2>4
<1>4. CASE k # KeyOf[b]
  <2>1. r.vals[k] = m.vals[k]
    BY <1>2, <1>4 DEF Repaired
  <2>2. OfKey(r.chain, k) = OfKey(m.chain, k)
    BY <1>1, <1>2, <1>4 DEF OfKey, Key
  <2>3. AllOpen(m, k)
    BY <2>2 DEF AllOpen
  <2>4. AnswersInnermost(m, k)
    BY <2>3 DEF AnswersOpen
  <2> QED BY <2>1, <2>2, <2>4 DEF AnswersInnermost
<1> QED BY <1>3, <1>4

-----------------------------------------------------------------------------
(* What entering and leaving do to mappings that stay as they are. *)

LEMMA HeldAreMappings == TypeOK => Held \subseteq Mapping
BY DEF TypeOK, Held, Open, Saved

\* A block that leaves closes entries: fewer chains are all open.
LEMMA LeaveKeepsAnswers ==
    ASSUME TypeOK, NEW m \in Mapping, NEW b \in Blocks,
           entered' = [entered EXCEPT ![b] = NoEntry],
           AnswersOpen(m)
    PROVE  AnswersOpen(m)'
<1> SUFFICES ASSUME NEW k \in Keys, AllOpen(m, k)'
             PROVE  AnswersInnermost(m, k)'
  BY DEF AnswersOpen
<1>1. \A e \in OfKey(m.chain, k) : e \in Entry
  BY DEF OfKey, Mapping
<1>2. AllOpen(m, k)
  BY <1>1, NoEntryAssumption DEF AllOpen, TypeOK, OfKey, Entry, Key
<1> QED BY <1>2 DEF AnswersOpen, AnswersInnermost, OfKey, Key

\* An entry made now is on no chain yet: no other chain becomes all open.
LEMMA EnterKeepsAnswers ==
    ASSUME TypeOK, NEW m \in Mapping, NEW b \in Blocks, NEW e \in Entry,
           e.block = b, e.at = clock + 1,
           entered' = [entered EXCEPT ![b] = e],
           \A f \in m.chain : f.at <= clock,
           AnswersOpen(m)
    PROVE  AnswersOpen(m)'
<1> SUFFICES ASSUME NEW k \in Keys, AllOpen(m, k)'
             PROVE  AnswersInnermost(m, k)'
  BY DEF AnswersOpen
<1>1. \A f \in OfKey(m.chain, k) : f \in Entry /\ f \in m.chain
  BY DEF OfKey, Mapping
<1>2. \A f \in OfKey(m.chain, k) : f # e
  BY <1>1 DEF TypeOK, Entry
<1>3. AllOpen(m, k)
  BY <1>1, <1>2 DEF AllOpen, TypeOK, OfKey, Entry, Key
<1> QED BY <1>3 DEF AnswersOpen, AnswersInnermost, OfKey, Key

-----------------------------------------------------------------------------
(* Each action preserves the inductive invariant. *)

LEMMA InitOK == Init => IInv
<1> SUFFICES ASSUME Init PROVE IInv
  OBVIOUS
<1>1. Empty \in Mapping
  BY DEF Empty, Mapping
<1>2. TypeOK
  BY <1>1, RootAssumption DEF Init, TypeOK
<1>3. Held = {Empty} \/ Held = {}
  BY DEF Held, Init, Open
<1>4. Paired
  BY DEF Paired, Init, Open
<1>5. Past /\ HeldNoGhost /\ HeldInnermost
  BY <1>3 DEF Past, HeldNoGhost, HeldInnermost, Empty, GhostFree, AnswersOpen,
              AllOpen, AnswersInnermost, OfKey
<1>6. AddsItself /\ FramesApart /\ SetAsideKeeps /\ OpenStaysReachable /\ NoFalseOrphan
  BY DEF Init, AddsItself, FramesApart, SetAsideKeeps, OpenStaysReachable,
         NoFalseOrphan, Open
<1> QED BY <1>2, <1>4, <1>5, <1>6 DEF IInv

LEMMA EnterOK ==
    ASSUME IInv, NEW c \in Contexts, NEW b \in Blocks, Enter(c, b)
    PROVE  IInv'
<1>1. TypeOK
  BY DEF IInv
<1>2. PICK old \in Mapping, e \in Entry, new \in Mapping :
         /\ old = registry[c]
         /\ e.block = b /\ e.at = clock + 1 /\ e.home = c /\ e.frame = frame[c]
         /\ new.by = e
         /\ new.chain = old.chain \cup {e}
         /\ new.vals = [old.vals EXCEPT ![KeyOf[b]] = e]
         /\ registry' = [registry EXCEPT ![c] = new]
         /\ token' = [token EXCEPT ![b] = old]
         /\ entered' = [entered EXCEPT ![b] = e]
         /\ clock' = clock + 1
         /\ UNCHANGED <<status, isolation, frame, closed>>
         /\ status[c] = "live" /\ token[b] = NoMapping
  <2> DEFINE e == [block |-> b, home |-> c, frame |-> frame[c], at |-> clock + 1]
             new == [by |-> e,
                     vals |-> [registry[c].vals EXCEPT ![KeyOf[b]] = e],
                     chain |-> registry[c].chain \cup {e}]
  <2>1. e \in Entry /\ registry[c] \in Mapping
    BY <1>1 DEF TypeOK, Entry
  <2>2. new \in Mapping
    BY <2>1, KeyOfAssumption DEF Mapping
  <2> QED BY <2>1, <2>2 DEF Enter, Live, Open
<1>3. old \in Held
  BY <1>2 DEF Held
<1>4. /\ old.vals \in [Keys -> Entry \cup {NoEntry}]
      /\ old.chain \subseteq Entry
      /\ KeyOf[b] \in Keys
  BY KeyOfAssumption DEF Mapping
<1>5. Held' \subseteq Held \cup {new}
  BY <1>1, <1>2, <1>3 DEF Held, Open, TypeOK
<1>6. TypeOK'
  BY <1>1, <1>2, <1>4 DEF TypeOK
<1>7. Paired'
  <2> SUFFICES ASSUME NEW x \in Blocks
               PROVE  /\ Open(x)' <=> entered'[x] # NoEntry
                      /\ Open(x)' => /\ entered'[x].block = x
                                     /\ entered'[x].at <= clock'
                                     /\ entered'[x].frame <= clock'
                                     /\ status'[entered'[x].home] # "unborn"
    BY DEF Paired
  <2>1. CASE x = b
    <3>1. entered'[x] = e /\ token'[x] = old
      BY <1>1, <1>2, <2>1 DEF TypeOK
    <3>2. e # NoEntry /\ old # NoMapping
      BY <1>2, NoEntryAssumption, NoMappingAssumption
    <3>3. frame[c] <= clock + 1 /\ clock \in Nat
      BY <1>1 DEF IInv, FramesApart, TypeOK
    <3> QED BY <1>1, <1>2, <2>1, <3>1, <3>2, <3>3 DEF Open, TypeOK
  <2>2. CASE x # b
    <3>1. entered'[x] = entered[x] /\ token'[x] = token[x]
      BY <1>1, <1>2, <2>2 DEF TypeOK
    <3>2. entered[x] # NoEntry => entered[x] \in Entry
      BY <1>1 DEF TypeOK
    <3> QED BY <1>1, <1>2, <3>1, <3>2 DEF IInv, Paired, Open, TypeOK, Entry
  <2> QED BY <2>1, <2>2
<1>8. Past'
  <2> SUFFICES ASSUME NEW m \in Held'
               PROVE  /\ \A f \in m.chain : f.at <= clock'
                      /\ m.by # NoEntry => m.by.at <= clock'
    BY DEF Past
  <2>1. ASSUME NEW x \in Held
        PROVE  /\ \A f \in x.chain : f.at <= clock + 1
               /\ x.by # NoEntry => x.by.at <= clock + 1
    <3>1. x \in Mapping
      BY <1>1, HeldAreMappings
    <3>2. /\ \A f \in x.chain : f \in Entry /\ f.at <= clock
          /\ x.by # NoEntry => x.by \in Entry /\ x.by.at <= clock
      BY <3>1 DEF IInv, Past, Mapping
    <3> QED BY <1>1, <3>2 DEF TypeOK, Entry
  <2>2. CASE m \in Held
    BY <1>2, <2>1, <2>2
  <2>3. CASE m = new
    <3>1. \A f \in old.chain : f.at <= clock + 1
      BY <1>3, <2>1
    <3> QED BY <1>1, <1>2, <1>4, <2>3, <3>1 DEF TypeOK
  <2> QED BY <1>5, <2>2, <2>3
<1>9. HeldNoGhost'
  <2> SUFFICES ASSUME NEW m \in Held' PROVE GhostFree(m)
    BY DEF HeldNoGhost, GhostFree, Key, OfBlock
  <2>1. CASE m \in Held
    BY <2>1 DEF IInv, HeldNoGhost
  <2>2. CASE m = new
    <3>1. GhostFree(old)
      BY <1>3 DEF IInv, HeldNoGhost
    <3> SUFFICES ASSUME NEW k \in Keys, new.vals[k] # NoEntry
                 PROVE  Key(new.vals[k]) = k /\ OfBlock(new.chain, new.vals[k].block) # {}
      BY <2>2 DEF GhostFree
    <3>2. CASE k = KeyOf[b]
      BY <1>2, <1>4, <3>2 DEF Key, OfBlock
    <3>3. CASE k # KeyOf[b]
      BY <1>2, <1>4, <3>1, <3>3 DEF GhostFree, OfBlock
    <3> QED BY <3>2, <3>3
  <2> QED BY <1>5, <2>1, <2>2
<1>10. HeldInnermost'
  <2>0. \A m \in Held : m \in Mapping /\ AnswersOpen(m) /\ \A f \in m.chain : f.at <= clock
    BY <1>1, HeldAreMappings DEF IInv, HeldInnermost, Past
  <2> SUFFICES ASSUME NEW m \in Held' PROVE AnswersOpen(m)'
    BY DEF HeldInnermost
  <2>1. CASE m \in Held
    BY <1>1, <1>2, <2>0, <2>1, EnterKeepsAnswers
  <2>2. CASE m = new
    <3> SUFFICES ASSUME NEW k \in Keys, AllOpen(new, k)'
                 PROVE  AnswersInnermost(new, k)'
      BY <2>2 DEF AnswersOpen
    <3>1. CASE k = KeyOf[b]
      <4>1. e \in OfKey(new.chain, k) /\ new.vals[k] = e
        BY <1>2, <1>4, <3>1 DEF OfKey, Key
      <4>2. \A f \in OfKey(new.chain, k) : f.at <= e.at
        <5> TAKE f \in OfKey(new.chain, k)
        <5>1. f = e \/ f \in old.chain
          BY <1>2 DEF OfKey
        <5>2. f \in old.chain => f.at <= clock /\ f \in Entry
          BY <1>3, <1>4, <2>0
        <5> QED BY <1>1, <1>2, <5>1, <5>2 DEF TypeOK, Entry
      <4> QED BY <4>1, <4>2 DEF AnswersInnermost, OfKey, Key
    <3>2. CASE k # KeyOf[b]
      <4>1. OfKey(new.chain, k) = OfKey(old.chain, k) /\ new.vals[k] = old.vals[k]
        BY <1>2, <1>4, <3>2 DEF OfKey, Key
      <4>2. AnswersOpen(old)'
        BY <1>1, <1>2, <1>3, <2>0, EnterKeepsAnswers
      <4>3. AllOpen(old, k)'
        BY <4>1 DEF AllOpen, OfKey, Key
      <4>4. AnswersInnermost(old, k)'
        BY <4>2, <4>3 DEF AnswersOpen
      <4> QED BY <4>1, <4>4 DEF AnswersInnermost, OfKey, Key
    <3> QED BY <3>1, <3>2
  <2> QED BY <1>5, <2>1, <2>2
<1>11. AddsItself'
  <2> SUFFICES ASSUME NEW m \in Held', NEW x \in Blocks, Open(x)', m.by = entered'[x]
               PROVE  m.chain = token'[x].chain \cup {entered'[x]}
    BY DEF AddsItself
  <2>0. \A y \in Held : y.by # NoEntry => y.by.at <= clock
    BY DEF IInv, Past
  <2>1. CASE x = b
    <3>1. entered'[x] = e /\ token'[x] = old
      BY <1>1, <1>2, <2>1 DEF TypeOK
    <3>2. m \notin Held
      BY <1>1, <1>2, <2>0, <3>1, NoEntryAssumption DEF TypeOK
    <3> QED BY <1>2, <1>5, <3>1, <3>2
  <2>2. CASE x # b
    <3>1. entered'[x] = entered[x] /\ token'[x] = token[x]
      BY <1>1, <1>2, <2>2 DEF TypeOK
    <3>2. Open(x) /\ entered[x].block = x
      BY <3>1 DEF Open, IInv, Paired
    <3>3. m # new
      BY <1>2, <1>4, <2>2, <3>1, <3>2
    <3> QED BY <1>5, <3>1, <3>2, <3>3 DEF IInv, AddsItself
  <2> QED BY <2>1, <2>2
<1>12. FramesApart'
  BY <1>1, <1>2 DEF IInv, FramesApart, TypeOK, Saved
<1>13. SetAsideKeeps'
  <2> SUFFICES ASSUME NEW x \in Blocks, NEW i \in Isolates,
                      Open(x)', isolation[i] # NoMapping,
                      isolation[i].ctx = entered'[x].home,
                      isolation[i].frame = entered'[x].frame
               PROVE  entered'[x] \in isolation[i].mapping.chain
    BY <1>2 DEF SetAsideKeeps
  <2>1. CASE x = b
    <3>1. entered'[x] = e
      BY <1>1, <1>2, <2>1 DEF TypeOK
    <3> QED BY <1>2, <3>1 DEF IInv, FramesApart
  <2>2. CASE x # b
    <3>1. entered'[x] = entered[x] /\ token'[x] = token[x]
      BY <1>1, <1>2, <2>2 DEF TypeOK
    <3> QED BY <3>1 DEF IInv, SetAsideKeeps, Open
  <2> QED BY <2>1, <2>2
<1>14. OpenStaysReachable'
  <2> SUFFICES ASSUME NEW x \in Blocks, Open(x)',
                      frame[entered'[x].home] = entered'[x].frame
               PROVE  entered'[x] \in registry'[entered'[x].home].chain
    BY <1>2 DEF OpenStaysReachable
  <2>1. CASE x = b
    <3>1. entered'[x] = e
      BY <1>1, <1>2, <2>1 DEF TypeOK
    <3> QED BY <1>1, <1>2, <1>4, <3>1 DEF TypeOK
  <2>2. CASE x # b
    <3>1. entered'[x] = entered[x] /\ token'[x] = token[x]
      BY <1>1, <1>2, <2>2 DEF TypeOK
    <3>2. entered[x] \in registry[entered[x].home].chain /\ entered[x].home \in Contexts
      BY <1>1, <3>1, NoEntryAssumption DEF IInv, OpenStaysReachable, Open, Paired, TypeOK, Entry
    <3> QED BY <1>1, <1>2, <1>4, <3>1, <3>2 DEF TypeOK
  <2> QED BY <2>1, <2>2
<1>15. NoFalseOrphan'
  BY <1>2 DEF IInv, NoFalseOrphan
<1> QED BY <1>6, <1>7, <1>8, <1>9, <1>10, <1>11, <1>12, <1>13, <1>14, <1>15 DEF IInv

(* What closing b asks of the mapping m it leaves in context c: m is sound  *)
(* by itself and loses nobody but b.                                        *)
Installable(m, c, b) ==
    /\ m \in Mapping
    /\ \A f \in m.chain : f.at <= clock
    /\ m.by # NoEntry => m.by.at <= clock
    /\ GhostFree(m)
    /\ AnswersOpen(m)
    /\ \A x \in Blocks \ {b} :
           Open(x) /\ m.by = entered[x] => m.chain = token[x].chain \cup {entered[x]}
    /\ \A f \in registry[c].chain : f.block # b => f \in m.chain

LEMMA LeaveOK ==
    ASSUME IInv, NEW c \in Contexts, NEW b \in Blocks, NEW u \in BOOLEAN,
           Leave(c, b, u),
           NEW m, Installable(m, c, b), registry' = [registry EXCEPT ![c] = m],
           u \/ entered[b].home # c \/ entered[b].frame # frame[c]
    PROVE  IInv'
<1> USE DEF Installable
<1>1. TypeOK
  BY DEF IInv
<1>2. /\ token' = [token EXCEPT ![b] = NoMapping]
      /\ entered' = [entered EXCEPT ![b] = NoEntry]
      /\ closed' = closed \cup {[entry |-> entered[b], from |-> c,
                                 frame |-> frame[c], unwound |-> u]}
      /\ UNCHANGED <<status, isolation, frame, clock>>
      /\ entered[b] \in Entry /\ token[b] \in Mapping
  <2>1. Open(b) /\ entered[b] # NoEntry
    BY DEF Leave, IInv, Paired
  <2> QED BY <1>1, <2>1 DEF Leave, TypeOK, Open
<1>3. \A x \in Blocks \ {b} : token'[x] = token[x] /\ entered'[x] = entered[x]
  BY <1>1, <1>2 DEF TypeOK
<1>4. token'[b] = NoMapping /\ entered'[b] = NoEntry
  BY <1>1, <1>2 DEF TypeOK
<1>5. Held' \subseteq Held \cup {m}
  BY <1>1, <1>2, <1>3, <1>4 DEF Held, Open, TypeOK
<1>6. TypeOK'
  <2>1. [entry |-> entered[b], from |-> c, frame |-> frame[c], unwound |-> u] \in Close
    BY <1>1, <1>2 DEF Close, TypeOK
  <2>2. closed' \subseteq Close
    BY <1>1, <1>2, <2>1 DEF TypeOK
  <2> QED BY <1>1, <1>2, <2>2 DEF TypeOK
<1>7. Paired'
  BY <1>2, <1>3, <1>4 DEF IInv, Paired, Open
<1>8. Past'
  BY <1>2, <1>5 DEF IInv, Past
<1>9. HeldNoGhost'
  <2> SUFFICES ASSUME NEW x \in Held' PROVE GhostFree(x)
    BY DEF HeldNoGhost, GhostFree, Key, OfBlock
  <2> QED BY <1>5 DEF IInv, HeldNoGhost
<1>10. HeldInnermost'
  <2> SUFFICES ASSUME NEW x \in Held' PROVE AnswersOpen(x)'
    BY DEF HeldInnermost
  <2>1. x \in Mapping /\ AnswersOpen(x)
    BY <1>1, <1>5, HeldAreMappings DEF IInv, HeldInnermost
  <2> QED BY <1>1, <1>2, <2>1, LeaveKeepsAnswers
<1>11. AddsItself'
  BY <1>3, <1>4, <1>5 DEF IInv, AddsItself, Open
<1>12. FramesApart'
  BY <1>2 DEF IInv, FramesApart
<1>13. SetAsideKeeps'
  BY <1>2, <1>3, <1>4 DEF IInv, SetAsideKeeps, Open
<1>14. OpenStaysReachable'
  <2> SUFFICES ASSUME NEW x \in Blocks, Open(x)',
                      frame[entered'[x].home] = entered'[x].frame
               PROVE  entered'[x] \in registry'[entered'[x].home].chain
    BY <1>2 DEF OpenStaysReachable
  <2>1. x # b /\ Open(x) /\ entered'[x] = entered[x]
    BY <1>3, <1>4 DEF Open
  <2>2. /\ entered[x] \in registry[entered[x].home].chain
        /\ entered[x].home \in Contexts
        /\ entered[x].block = x
    BY <1>1, <2>1, NoEntryAssumption DEF IInv, OpenStaysReachable, Open, Paired, TypeOK, Entry
  <2> QED BY <1>1, <2>1, <2>2 DEF TypeOK
<1>15. NoFalseOrphan'
  BY <1>2 DEF IInv, NoFalseOrphan
<1> QED BY <1>6, <1>7, <1>8, <1>9, <1>10, <1>11, <1>12, <1>13, <1>14, <1>15 DEF IInv

LEMMA HeldInstallable ==
    ASSUME IInv, NEW c \in Contexts, NEW b \in Blocks,
           NEW m \in Held, \A f \in registry[c].chain : f.block # b => f \in m.chain
    PROVE  Installable(m, c, b)
<1>1. m \in Mapping
  BY HeldAreMappings DEF IInv
<1> QED BY <1>1 DEF IInv, Past, HeldNoGhost, HeldInnermost, AddsItself, Installable

LEMMA RepairedInstallable ==
    ASSUME IInv, NEW c \in Contexts, NEW b \in Blocks
    PROVE  Installable(Repaired(registry[c], b), c, b)
<1>1. registry[c] \in Held
  BY DEF Held
<1>2. PICK now \in Held : now = registry[c]
  BY <1>1
<1>3. /\ TypeOK /\ Paired
      /\ now \in Mapping
      /\ \A f \in now.chain : f.at <= clock
      /\ GhostFree(now) /\ AnswersOpen(now)
  BY HeldAreMappings DEF IInv, Past, HeldNoGhost, HeldInnermost
<1>4. PICK r \in Mapping : r = Repaired(now, b)
  BY <1>3, RepairedIsMapping
<1>5. GhostFree(r)
  BY <1>3, <1>4, RepairedGhostFree
<1>6. AnswersOpen(r)
  BY <1>3, <1>4, RepairedAnswersOpen DEF AnswersOpen
<1>7. r.by = NoEntry /\ r.chain = {f \in now.chain : f.block # b}
  BY <1>4 DEF Repaired, OfBlock
<1>8. \A f \in r.chain : f.at <= clock
  BY <1>3, <1>7
<1>9. \A x \in Blocks : Open(x) => r.by # entered[x]
  BY <1>3, <1>7 DEF Paired
<1> QED BY <1>2, <1>4, <1>5, <1>6, <1>7, <1>8, <1>9 DEF Installable

LEMMA ExitOK ==
    ASSUME IInv, NEW c \in Contexts, NEW b \in Blocks, Exit(c, b)
    PROVE  IInv'
<1>1. TypeOK
  BY DEF IInv
<1>2. PICK now \in Held : now = registry[c]
  BY DEF Held
<1>3. Installable(now, c, b)
  BY <1>2, HeldInstallable
<1>4. UNCHANGED registry => registry' = [registry EXCEPT ![c] = now]
  BY <1>1, <1>2 DEF TypeOK
<1>5. Open(b) /\ entered[b] \in Entry /\ entered[b].block = b
  BY <1>1 DEF Exit, ExitInOrder, ExitRefused, ExitRepaired, ExitAbsent, Leave,
              IInv, Paired, TypeOK
<1>6. CASE ExitInOrder(c, b)
  <2>1. PICK old \in Held : old = token[b]
    BY <1>5 DEF Held
  <2>2. now.chain = old.chain \cup {entered[b]}
    BY <1>2, <1>5, <1>6, <2>1 DEF ExitInOrder, Holds, IInv, AddsItself
  <2>3. \A f \in registry[c].chain : f.block # b => f \in old.chain
    BY <1>2, <1>5, <2>2
  <2>4. Installable(old, c, b)
    BY <2>3, HeldInstallable
  <2>5. Leave(c, b, TRUE) /\ registry' = [registry EXCEPT ![c] = old]
    BY <1>6, <2>1 DEF ExitInOrder
  <2> QED BY <2>4, <2>5, LeaveOK
<1>7. CASE ExitRefused(c, b)
  <2>1. Leave(c, b, FALSE) /\ entered[b].home # c /\ registry' = [registry EXCEPT ![c] = now]
    BY <1>4, <1>7 DEF ExitRefused
  <2> QED BY <1>3, <2>1, LeaveOK
<1>8. CASE ExitRepaired(c, b)
  <2>1. PICK r : r = Repaired(registry[c], b)
    OBVIOUS
  <2>2. Installable(r, c, b)
    BY <2>1, RepairedInstallable
  <2>3. Leave(c, b, TRUE) /\ registry' = [registry EXCEPT ![c] = r]
    BY <1>8, <2>1 DEF ExitRepaired
  <2> QED BY <2>2, <2>3, LeaveOK
<1>9. CASE ExitAbsent(c, b)
  <2>1. Leave(c, b, FALSE) /\ registry' = [registry EXCEPT ![c] = now]
    BY <1>4, <1>9 DEF ExitAbsent
  <2>2. entered[b] \notin registry[c].chain
    BY <1>5, <1>9 DEF ExitAbsent, OfBlock
  <2>3. entered[b].home # c \/ entered[b].frame # frame[c]
    BY <1>5, <2>2 DEF IInv, OpenStaysReachable
  <2> QED BY <1>3, <2>1, <2>3, LeaveOK
<1> QED BY <1>6, <1>7, <1>8, <1>9 DEF Exit

LEMMA CopyContextOK ==
    ASSUME IInv, NEW c \in Contexts, NEW d \in Contexts, CopyContext(c, d)
    PROVE  IInv'
<1>1. TypeOK
  BY DEF IInv
<1>2. /\ status' = [status EXCEPT ![d] = "live"] /\ status[d] = "unborn"
      /\ registry' = [registry EXCEPT ![d] = registry[c]]
      /\ UNCHANGED <<token, entered, isolation, frame, closed, clock>>
  BY DEF CopyContext
<1>3. Held' \subseteq Held
  BY <1>1, <1>2 DEF Held, Open, TypeOK
<1>4. TypeOK'
  BY <1>1, <1>2 DEF TypeOK
<1>5. Paired' /\ FramesApart'
  BY <1>1, <1>2 DEF IInv, Paired, FramesApart, Open, TypeOK
<1>6. Past' /\ HeldNoGhost' /\ HeldInnermost' /\ AddsItself'
  BY <1>2, <1>3 DEF IInv, Past, HeldNoGhost, HeldInnermost, AddsItself, GhostFree,
     AnswersOpen, AllOpen, AnswersInnermost, OfKey, OfBlock, Key, Open
<1>7. SetAsideKeeps' /\ NoFalseOrphan'
  BY <1>2 DEF IInv, SetAsideKeeps, NoFalseOrphan, Open
<1>8. OpenStaysReachable'
  <2> SUFFICES ASSUME NEW x \in Blocks, Open(x),
                      frame[entered[x].home] = entered[x].frame
               PROVE  entered[x] \in registry'[entered[x].home].chain
    BY <1>2 DEF OpenStaysReachable, Open
  <2>1. entered[x].home # d
    BY <1>2 DEF IInv, Paired
  <2>2. entered[x].home \in Contexts
    BY <1>1 DEF IInv, Paired, TypeOK, Entry
  <2> QED BY <1>1, <1>2, <2>1, <2>2 DEF IInv, OpenStaysReachable, TypeOK
<1> QED BY <1>4, <1>5, <1>6, <1>7, <1>8 DEF IInv

(* StartThread and Finish only change what a context may do next. *)
LEMMA StatusOK ==
    ASSUME IInv, NEW c \in Contexts, NEW s \in {"live", "done"},
           status' = [status EXCEPT ![c] = s],
           UNCHANGED <<registry, token, entered, isolation, frame, closed, clock>>
    PROVE  IInv'
<1>1. TypeOK
  BY DEF IInv
<1>2. TypeOK' /\ Paired' /\ FramesApart'
  BY <1>1 DEF IInv, TypeOK, Paired, FramesApart, Open, Entry, Saved
<1>3. Held' = Held
  BY DEF Held, Open
<1>4. Past' /\ HeldNoGhost' /\ HeldInnermost' /\ AddsItself'
  BY <1>3 DEF IInv, Past, HeldNoGhost, HeldInnermost, AddsItself, GhostFree,
     AnswersOpen, AllOpen, AnswersInnermost, OfKey, OfBlock, Key, Open
<1>5. SetAsideKeeps' /\ NoFalseOrphan' /\ OpenStaysReachable'
  BY DEF IInv, SetAsideKeeps, NoFalseOrphan, OpenStaysReachable, Open
<1> QED BY <1>2, <1>4, <1>5 DEF IInv

(* isolate() opens a frame no block has been entered in. *)
LEMMA IsolateEnterOK ==
    ASSUME IInv, NEW c \in Contexts, NEW i \in Isolates, IsolateEnter(c, i)
    PROVE  IInv'
<1>1. TypeOK
  BY DEF IInv
<1>2. PICK sv \in Saved, em \in Mapping :
         /\ sv.ctx = c /\ sv.mapping = registry[c] /\ sv.frame = frame[c]
         /\ em.by = NoEntry /\ em.chain = {} /\ em.vals = [k \in Keys |-> NoEntry]
         /\ isolation[i] = NoMapping
         /\ isolation' = [isolation EXCEPT ![i] = sv]
         /\ registry' = [registry EXCEPT ![c] = em]
         /\ frame' = [frame EXCEPT ![c] = clock + 1]
         /\ clock' = clock + 1
         /\ UNCHANGED <<status, token, entered, closed>>
         /\ status[c] = "live"
  <2> DEFINE s == [ctx |-> c, mapping |-> registry[c], frame |-> frame[c]]
  <2>1. s \in Saved /\ Empty \in Mapping
    BY <1>1 DEF TypeOK, Saved, Empty, Mapping
  <2> QED BY <2>1 DEF IsolateEnter, Live, Empty
<1>3. Held' \subseteq Held \cup {em}
  BY <1>1, <1>2 DEF Held, Open, TypeOK
<1>4. sv # NoMapping => \A j \in Isolates : isolation'[j] # NoMapping =>
                            IF j = i THEN isolation'[j] = sv
                            ELSE isolation'[j] = isolation[j]
  BY <1>1, <1>2 DEF TypeOK
<1>5. /\ GhostFree(em)
      /\ AnswersOpen(em)'
      /\ \A f \in em.chain : f.at <= clock
      /\ clock \in Nat
  BY <1>1, <1>2 DEF GhostFree, AnswersOpen, AllOpen, AnswersInnermost, OfKey, TypeOK
<1>6. TypeOK'
  BY <1>1, <1>2 DEF TypeOK
<1>7. Paired'
  <2> SUFFICES ASSUME NEW x \in Blocks, Open(x)
               PROVE  entered[x].at <= clock + 1 /\ entered[x].frame <= clock + 1
    BY <1>2 DEF Paired, IInv, Open
  <2>1. entered[x] \in Entry /\ entered[x].at <= clock /\ entered[x].frame <= clock
    BY <1>1 DEF IInv, Paired, TypeOK
  <2> QED BY <1>5, <2>1 DEF Entry
<1>8. Past'
  <2> SUFFICES ASSUME NEW m \in Held
               PROVE  /\ \A f \in m.chain : f.at <= clock + 1
                      /\ m.by # NoEntry => m.by.at <= clock + 1
    BY <1>2, <1>3 DEF Past
  <2>1. m \in Mapping
    BY <1>1, HeldAreMappings
  <2>2. /\ \A f \in m.chain : f \in Entry /\ f.at <= clock
        /\ m.by # NoEntry => m.by \in Entry /\ m.by.at <= clock
    BY <2>1 DEF IInv, Past, Mapping
  <2> QED BY <1>5, <2>2 DEF Entry
<1>9. HeldNoGhost'
  BY <1>3, <1>5 DEF IInv, HeldNoGhost, GhostFree, Key, OfBlock
<1>10. HeldInnermost'
  <2> SUFFICES ASSUME NEW m \in Held' PROVE AnswersOpen(m)'
    BY DEF HeldInnermost
  <2>1. CASE m = em
    BY <1>5, <2>1 DEF AnswersOpen, AllOpen, AnswersInnermost, OfKey, Key
  <2>2. CASE m \in Held
    BY <1>2, <2>2 DEF IInv, HeldInnermost, AnswersOpen, AllOpen, AnswersInnermost,
                      OfKey, Key
  <2> QED BY <1>3, <2>1, <2>2
<1>11. AddsItself'
  BY <1>2, <1>3 DEF IInv, AddsItself, Paired, Open
<1>12. FramesApart'
  BY <1>1, <1>2, <1>5 DEF IInv, FramesApart, TypeOK, Saved
<1>13. SetAsideKeeps'
  <2> SUFFICES ASSUME NEW x \in Blocks, NEW j \in Isolates,
                      Open(x), isolation'[j] # NoMapping,
                      isolation'[j].ctx = entered[x].home,
                      isolation'[j].frame = entered[x].frame
               PROVE  entered[x] \in isolation'[j].mapping.chain
    BY <1>2 DEF SetAsideKeeps, Open
  <2>1. CASE j = i
    BY <1>1, <1>2, <2>1 DEF IInv, OpenStaysReachable, TypeOK
  <2>2. CASE j # i
    BY <1>1, <1>2, <2>2 DEF IInv, SetAsideKeeps, TypeOK
  <2> QED BY <2>1, <2>2
<1>14. OpenStaysReachable'
  <2> SUFFICES ASSUME NEW x \in Blocks, Open(x),
                      frame'[entered[x].home] = entered[x].frame
               PROVE  entered[x] \in registry'[entered[x].home].chain
    BY <1>2 DEF OpenStaysReachable, Open
  <2>1. entered[x] \in Entry /\ entered[x].frame <= clock
    BY <1>1 DEF IInv, Paired, TypeOK
  <2>2. entered[x].home # c
    BY <1>1, <1>2, <1>5, <2>1 DEF TypeOK, Entry
  <2> QED BY <1>1, <1>2, <2>1, <2>2 DEF IInv, OpenStaysReachable, TypeOK, Entry
<1>15. NoFalseOrphan'
  BY <1>2 DEF IInv, NoFalseOrphan
<1> QED BY <1>6, <1>7, <1>8, <1>9, <1>10, <1>11, <1>12, <1>13, <1>14, <1>15 DEF IInv

LEMMA IsolateExitOK ==
    ASSUME IInv, NEW c \in Contexts, NEW i \in Isolates,
           IsolateExit(c, i) \/ IsolateRefused(c, i)
    PROVE  IInv'
<1>1. TypeOK
  BY DEF IInv
<1>2. /\ isolation[i] # NoMapping /\ isolation[i] \in Saved
      /\ isolation' = [isolation EXCEPT ![i] = NoMapping]
      /\ UNCHANGED <<status, token, entered, closed, clock>>
  BY <1>1 DEF IsolateExit, IsolateRefused, TypeOK
<1>3. \/ UNCHANGED <<registry, frame>>
      \/ /\ isolation[i].ctx = c
         /\ registry' = [registry EXCEPT ![c] = isolation[i].mapping]
         /\ frame' = [frame EXCEPT ![c] = isolation[i].frame]
  BY DEF IsolateExit, IsolateRefused
<1>4. \A j \in Isolates : isolation'[j] # NoMapping => j # i /\ isolation'[j] = isolation[j]
  BY <1>1, <1>2 DEF TypeOK
<1>5. Held' \subseteq Held
  BY <1>1, <1>2, <1>3, <1>4 DEF Held, Open, TypeOK
<1>6. TypeOK'
  BY <1>1, <1>2, <1>3 DEF TypeOK, Saved
<1>7. Paired'
  BY <1>2 DEF IInv, Paired, Open
<1>8. Past' /\ HeldNoGhost' /\ HeldInnermost' /\ AddsItself'
  BY <1>2, <1>5 DEF IInv, Past, HeldNoGhost, HeldInnermost, AddsItself, GhostFree,
     AnswersOpen, AllOpen, AnswersInnermost, OfKey, OfBlock, Key, Open
<1>9. FramesApart'
  BY <1>1, <1>2, <1>3, <1>4 DEF IInv, FramesApart, TypeOK, Saved
<1>10. SetAsideKeeps' /\ NoFalseOrphan'
  BY <1>2, <1>4 DEF IInv, SetAsideKeeps, NoFalseOrphan, Open
<1>11. OpenStaysReachable'
  <2> SUFFICES ASSUME NEW x \in Blocks, Open(x),
                      frame'[entered[x].home] = entered[x].frame
               PROVE  entered[x] \in registry'[entered[x].home].chain
    BY <1>2 DEF OpenStaysReachable, Open
  <2>1. entered[x] \in Entry /\ entered[x].home \in Contexts
    BY <1>1 DEF IInv, Paired, TypeOK, Entry
  <2> QED BY <1>1, <1>2, <1>3, <2>1
          DEF IInv, OpenStaysReachable, SetAsideKeeps, TypeOK
<1> QED BY <1>6, <1>7, <1>8, <1>9, <1>10, <1>11 DEF IInv

-----------------------------------------------------------------------------
(* The theorems. *)

LEMMA NextOK == IInv /\ [Next]_vars => IInv'
<1> SUFFICES ASSUME IInv, [Next]_vars PROVE IInv'
  OBVIOUS
<1>1. ASSUME NEW c \in Contexts, NEW b \in Blocks, Enter(c, b) PROVE IInv'
  BY <1>1, EnterOK
<1>2. ASSUME NEW c \in Contexts, NEW b \in Blocks, Exit(c, b) PROVE IInv'
  BY <1>2, ExitOK
<1>3. ASSUME NEW c \in Contexts, NEW d \in Contexts, CopyContext(c, d) PROVE IInv'
  BY <1>3, CopyContextOK
<1>4. ASSUME NEW c \in Contexts, StartThread(c) \/ Finish(c) PROVE IInv'
  <2>1. CASE StartThread(c)
    BY <2>1, StatusOK DEF StartThread
  <2>2. CASE Finish(c)
    BY <2>2, StatusOK DEF Finish
  <2> QED BY <1>4, <2>1, <2>2
<1>5. ASSUME NEW c \in Contexts, NEW i \in Isolates, IsolateEnter(c, i) PROVE IInv'
  BY <1>5, IsolateEnterOK
<1>6. ASSUME NEW c \in Contexts, NEW i \in Isolates,
             IsolateExit(c, i) \/ IsolateRefused(c, i)
      PROVE  IInv'
  BY <1>6, IsolateExitOK
<1>7. CASE UNCHANGED vars
  BY <1>7 DEF vars, IInv, TypeOK, Paired, Past, HeldNoGhost, HeldInnermost, AddsItself,
     FramesApart, SetAsideKeeps, OpenStaysReachable, NoFalseOrphan, Held, GhostFree,
     AnswersOpen, AllOpen, AnswersInnermost, OfKey, OfBlock, Key, Open
<1> QED BY <1>1, <1>2, <1>3, <1>4, <1>5, <1>6, <1>7 DEF Next, Running

(* The strengthening holds in every behaviour of the registry. *)
THEOREM Inductive == Spec => []IInv
BY InitOK, NextOK, PTL DEF Spec

(* Every variable keeps its type: in particular a repair always finds the   *)
(* innermost candidate it restores from.                                    *)
THEOREM TypeCorrect == Spec => []TypeOK
<1>1. IInv => TypeOK
  BY DEF IInv
<1> QED BY <1>1, Inductive, PTL

(* A lookup never answers for a block that is gone, for any number of       *)
(* contexts, blocks and keys and any interleaving of opens, closes and      *)
(* copies.                                                                  *)
THEOREM NeverGhost == Spec => []NoGhost
<1>1. IInv => NoGhost
  BY DEF IInv, HeldNoGhost, NoGhost, Held
<1> QED BY <1>1, Inductive, PTL

(* A key answers with the innermost of its open blocks in any order of      *)
(* opening and closing.                                                     *)
THEOREM InnermostAnswers == Spec => []LookupInnermost
<1>1. IInv => LookupInnermost
  BY DEF IInv, HeldInnermost, LookupInnermost, Held
<1> QED BY <1>1, Inductive, PTL

(* Nothing a sibling block or another context does drops an open block from *)
(* the context and frame that opened it.                                    *)
THEOREM OpenReachable == Spec => []OpenStaysReachable
<1>1. IInv => OpenStaysReachable
  BY DEF IInv
<1> QED BY <1>1, Inductive, PTL

(* OrphanedProviderWarning is never a false alarm: a block closed where it  *)
(* opened always unwinds.                                                   *)
THEOREM OrphansAreReal == Spec => []NoFalseOrphan
<1>1. IInv => NoFalseOrphan
  BY DEF IInv
<1> QED BY <1>1, Inductive, PTL

-----------------------------------------------------------------------------
(* Structured use implements Scoping. *)

AllEntered(S) == \A e \in S : entered[e.block] = e

\* The entries context c made itself are of frame f, and none of them is gone.
OwnOpen(S, c, f) == \A e \in S : e.home = c => e.frame = f /\ entered[e.block] = e

\* What structured closes keep true besides: a context that is not over, and what its
\* isolate() blocks set aside, know of no block that is gone.
SInv ==
    /\ IInv
    /\ \A c \in Contexts :
          /\ status[c] = "unborn" => registry[c].chain = {}
          /\ status[c] # "done" => AllEntered(registry[c].chain)
          /\ OwnOpen(registry[c].chain, c, frame[c])
    /\ \A i \in Isolates :
          isolation[i] # NoMapping =>
              LET s == isolation[i] IN
              /\ status[s.ctx] # "done" => AllEntered(s.mapping.chain)
              /\ OwnOpen(s.mapping.chain, s.ctx, s.frame)
    /\ \A b \in Blocks : Open(b) => \A f \in token[b].chain : f.at < entered[b].at
    /\ \A a, b \in Blocks :
          Open(a) /\ Open(b) /\ entered[a].at = entered[b].at => a = b

\* Where a structured close happens the block is found, and it alone is taken out.
LEMMA StructuredExitIs ==
    ASSUME SInv, NEW c \in Contexts, NEW b \in Blocks, ExitStructured(c, b)
    PROVE  /\ status[c] = "live"
           /\ entered[b] \in Entry /\ entered[b].block = b /\ entered[b].home = c
           /\ entered[b].frame = frame[c]
           /\ entered[b] \in registry[c].chain
           /\ \E m \in Mapping : /\ registry' = [registry EXCEPT ![c] = m]
                                 /\ m.chain = registry[c].chain \ {entered[b]}
           /\ token' = [token EXCEPT ![b] = NoMapping]
           /\ entered' = [entered EXCEPT ![b] = NoEntry]
           /\ UNCHANGED <<status, isolation, frame, clock>>
<1> DEFINE S == registry[c].chain
<1>1. TypeOK /\ Paired /\ AddsItself /\ OpenStaysReachable /\ Past BY DEF SInv, IInv
<1>2. Open(b) /\ entered[b].home = c /\ entered[b].frame = frame[c] /\ Exit(c, b)
  BY DEF ExitStructured
<1>3. entered[b] \in Entry /\ entered[b].block = b BY <1>1, <1>2 DEF Paired, TypeOK
<1>4. entered[b] \in S BY <1>1, <1>2 DEF OpenStaysReachable
<1>5. entered[b] \in OfBlock(S, b) BY <1>3, <1>4 DEF OfBlock
<1>6. \E u \in BOOLEAN : Leave(c, b, u)
  BY <1>2 DEF Exit, ExitInOrder, ExitRefused, ExitRepaired, ExitAbsent
<1>7. /\ status[c] = "live"
      /\ token' = [token EXCEPT ![b] = NoMapping] /\ entered' = [entered EXCEPT ![b] = NoEntry]
      /\ UNCHANGED <<status, isolation, frame, clock>>
  BY <1>6 DEF Leave, Live
<1>8. /\ registry[c] \in Mapping /\ S \subseteq Entry /\ \A f \in S : entered[f.block] = f
      /\ \A f \in S : f.at <= clock
  BY <1>1, <1>7 DEF TypeOK, Mapping, SInv, AllEntered, Past, Held
<1>9. CASE ExitInOrder(c, b)
  <2>1. token[b] \in Mapping /\ registry' = [registry EXCEPT ![c] = token[b]]
        /\ registry[c].by = entered[b] /\ registry[c] \in Held
    BY <1>1, <1>2, <1>9 DEF ExitInOrder, Holds, Held, TypeOK, Open
  <2>2. S = token[b].chain \cup {entered[b]} BY <1>1, <1>2, <2>1 DEF AddsItself
  <2>3. entered[b] \notin token[b].chain BY <1>2, <1>3 DEF SInv, Entry
  <2>4. QED BY <1>2, <1>3, <1>4, <1>7, <2>1, <2>2, <2>3
<1>10. CASE ExitRepaired(c, b)
  <2>1. Repaired(registry[c], b) \in Mapping BY <1>1, <1>8, RepairedIsMapping
  <2>2. Repaired(registry[c], b).chain = S \ OfBlock(S, b) BY DEF Repaired
  <2>3. OfBlock(S, b) = {entered[b]} BY <1>5, <1>8 DEF OfBlock
  <2>4. registry' = [registry EXCEPT ![c] = Repaired(registry[c], b)] BY <1>10 DEF ExitRepaired
  <2>5. QED BY <1>2, <1>3, <1>4, <1>7, <2>1, <2>2, <2>3, <2>4
<1>11. ~ ExitRefused(c, b) /\ ~ ExitAbsent(c, b)
  BY <1>2, <1>5 DEF ExitRefused, ExitAbsent
<1>12. QED BY <1>2, <1>9, <1>10, <1>11 DEF Exit

\* A step that opens and closes no block keeps what is known of the open ones.
LEMMA SameBlocks ==
    ASSUME SInv, UNCHANGED <<token, entered>>
    PROVE  /\ \A b \in Blocks : Open(b)' => \A f \in token'[b].chain : f.at < entered'[b].at
           /\ \A a, b \in Blocks :
                 Open(a)' /\ Open(b)' /\ entered'[a].at = entered'[b].at => a = b
BY DEF SInv, Open

LEMMA EnterStructured ==
    ASSUME SInv, NEW c \in Contexts, NEW b \in Blocks, Enter(c, b)
    PROVE  SInv'
<1> DEFINE e == [block |-> b, home |-> c, frame |-> frame[c], at |-> clock + 1]
<1>1. TypeOK /\ Paired /\ Past BY DEF SInv, IInv
<1>2. /\ status[c] = "live" /\ token[b] = NoMapping /\ clock \in Nat
      /\ registry'[c].chain = registry[c].chain \cup {e}
      /\ \A d \in Contexts \ {c} : registry'[d] = registry[d]
      /\ token'[b] = registry[c] /\ entered'[b] = e
      /\ \A x \in Blocks \ {b} : token'[x] = token[x] /\ entered'[x] = entered[x]
      /\ UNCHANGED <<status, isolation, frame>>
  BY <1>1 DEF Enter, Live, Open, TypeOK
<1>3. e \in Entry /\ e.block = b /\ e.home = c /\ e.frame = frame[c] /\ e.at = clock + 1
  BY <1>1 DEF TypeOK, Entry
<1> HIDE DEF e
<1>4. ASSUME NEW f \in Entry, entered[f.block] = f PROVE entered'[f.block] = f
  <2>1. entered[b] = NoEntry BY <1>1, <1>2 DEF Paired, Open
  <2>2. f.block \in Blocks /\ f # NoEntry BY NoEntryAssumption DEF Entry
  <2>3. f.block # b BY <1>4, <2>1, <2>2
  <2>4. QED BY <1>2, <1>4, <2>2, <2>3
<1>5. IInv' BY EnterOK DEF SInv
<1>6. \A d \in Contexts : registry[d].chain \subseteq Entry BY <1>1 DEF TypeOK, Mapping
<1>7. ASSUME NEW d \in Contexts
      PROVE  /\ status'[d] = "unborn" => registry'[d].chain = {}
             /\ status'[d] # "done" => AllEntered(registry[d].chain)'
             /\ OwnOpen(registry[d].chain, d, frame[d])'
  <2>1. /\ status[d] = "unborn" => registry[d].chain = {}
        /\ status[d] # "done" => AllEntered(registry[d].chain)
        /\ OwnOpen(registry[d].chain, d, frame[d])
    BY DEF SInv
  <2>2. CASE d # c BY <1>2, <1>4, <1>6, <2>1, <2>2 DEF AllEntered, OwnOpen
  <2>3. CASE d = c BY <1>2, <1>3, <1>4, <1>6, <2>1, <2>3 DEF AllEntered, OwnOpen
  <2>4. QED BY <2>2, <2>3
<1>8. ASSUME NEW i \in Isolates, isolation'[i] # NoMapping
      PROVE  /\ status'[isolation'[i].ctx] # "done" => AllEntered(isolation[i].mapping.chain)'
             /\ OwnOpen(isolation[i].mapping.chain, isolation[i].ctx, isolation[i].frame)'
  <2>1. isolation'[i] = isolation[i] /\ isolation[i] # NoMapping BY <1>2, <1>8
  <2>2. isolation[i].mapping.chain \subseteq Entry
    BY <1>1, <2>1 DEF TypeOK, Saved, Mapping
  <2>3. /\ status[isolation[i].ctx] # "done" => AllEntered(isolation[i].mapping.chain)
        /\ OwnOpen(isolation[i].mapping.chain, isolation[i].ctx, isolation[i].frame)
    BY <2>1 DEF SInv
  <2>4. QED BY <1>2, <1>4, <2>1, <2>2, <2>3 DEF AllEntered, OwnOpen
<1>9. ASSUME NEW x \in Blocks, Open(x)' PROVE \A f \in token'[x].chain : f.at < entered'[x].at
  <2>1. CASE x = b
    <3>1. \A f \in registry[c].chain : f \in Entry /\ f.at <= clock
      BY <1>1, <1>6 DEF Past, Held
    <3>2. QED BY <1>2, <1>3, <2>1, <3>1 DEF Entry
  <2>2. CASE x # b BY <1>2, <1>9, <2>2 DEF SInv, Open
  <2>3. QED BY <2>1, <2>2
<1>10. ASSUME NEW x \in Blocks, NEW y \in Blocks, Open(x)', Open(y)',
              entered'[x].at = entered'[y].at
       PROVE  x = y
  <2>1. \A z \in Blocks \ {b} : Open(z)' => Open(z) /\ entered[z] \in Entry /\ entered[z].at <= clock
    BY <1>1, <1>2 DEF Open, Paired, TypeOK
  <2>2. \A z \in Blocks \ {b} : Open(z)' => entered'[z].at # entered'[b].at
    BY <1>2, <1>3, <2>1 DEF Entry
  <2>3. CASE x = b \/ y = b BY <1>10, <2>2, <2>3
  <2>4. CASE x # b /\ y # b BY <1>2, <1>10, <2>1, <2>4 DEF SInv
  <2>5. QED BY <2>3, <2>4
<1>11. QED BY <1>2, <1>5, <1>7, <1>8, <1>9, <1>10 DEF SInv

LEMMA ExitStructuredKeeps ==
    ASSUME SInv, NEW c \in Contexts, NEW b \in Blocks, ExitStructured(c, b)
    PROVE  SInv'
<1>1. TypeOK /\ Paired /\ FramesApart BY DEF SInv, IInv
<1> DEFINE e == entered[b]
<1>2. /\ status[c] = "live" /\ e \in Entry /\ e.block = b /\ e.home = c /\ e.frame = frame[c]
      /\ UNCHANGED <<status, isolation, frame, clock>>
      /\ token' = [token EXCEPT ![b] = NoMapping] /\ entered' = [entered EXCEPT ![b] = NoEntry]
  BY StructuredExitIs
<1>3. /\ registry'[c].chain = registry[c].chain \ {e}
      /\ \A d \in Contexts \ {c} : registry'[d] = registry[d]
  BY <1>1, StructuredExitIs DEF TypeOK
<1>4. /\ \A x \in Blocks \ {b} : token'[x] = token[x] /\ entered'[x] = entered[x]
      /\ token'[b] = NoMapping
  BY <1>1, <1>2 DEF TypeOK
<1>5. \A d \in Contexts \ {c} : status[d] = "live" => ~ Inherits(d, e)
  BY DEF ExitStructured, Live
<1> HIDE DEF e
<1>6. ASSUME NEW f \in Entry, entered[f.block] = f, f # e PROVE entered'[f.block] = f
  <2>1. f.block \in Blocks BY DEF Entry
  <2>2. f.block # b BY <1>6 DEF e
  <2>3. QED BY <1>4, <1>6, <2>1, <2>2
<1>7. IInv' BY ExitOK DEF ExitStructured, SInv
<1>8. ASSUME NEW d \in Contexts
      PROVE  /\ status'[d] = "unborn" => registry'[d].chain = {}
             /\ status'[d] # "done" => AllEntered(registry[d].chain)'
             /\ OwnOpen(registry[d].chain, d, frame[d])'
  <2>1. /\ status[d] = "unborn" => registry[d].chain = {}
        /\ status[d] # "done" => AllEntered(registry[d].chain)
        /\ OwnOpen(registry[d].chain, d, frame[d])
        /\ registry[d].chain \subseteq Entry
        /\ status[d] \in {"unborn", "live", "done"}
    BY <1>1 DEF SInv, TypeOK, Mapping
  <2>2. CASE d = c BY <1>2, <1>3, <1>6, <2>1, <2>2 DEF AllEntered, OwnOpen
  <2>3. CASE d # c
    <3>1. status[d] # "done" => e \notin registry[d].chain
      BY <1>5, <2>1, <2>3 DEF Inherits
    <3>2. QED BY <1>2, <1>3, <1>6, <2>1, <2>3, <3>1 DEF AllEntered, OwnOpen
  <2>4. QED BY <2>2, <2>3
<1>9. ASSUME NEW i \in Isolates, isolation'[i] # NoMapping
      PROVE  /\ status'[isolation'[i].ctx] # "done" => AllEntered(isolation[i].mapping.chain)'
             /\ OwnOpen(isolation[i].mapping.chain, isolation[i].ctx, isolation[i].frame)'
  <2>0. isolation'[i] = isolation[i] /\ isolation[i] # NoMapping BY <1>2, <1>9
  <2> DEFINE s == isolation[i]
  <2>1. s.mapping.chain \subseteq Entry /\ s.ctx \in Contexts
        /\ status[s.ctx] \in {"live", "done"} /\ s.frame # frame[s.ctx]
    BY <1>1, <2>0 DEF TypeOK, Saved, Mapping, FramesApart
  <2>2. /\ status[s.ctx] # "done" => AllEntered(s.mapping.chain)
        /\ OwnOpen(s.mapping.chain, s.ctx, s.frame)
    BY <2>0 DEF SInv
  <2>3. s.ctx = c => e \notin s.mapping.chain BY <1>2, <2>1, <2>2 DEF OwnOpen
  <2>4. s.ctx # c /\ status[s.ctx] # "done" => e \notin s.mapping.chain
    BY <1>5, <2>0, <2>1 DEF Inherits
  <2>5. QED BY <1>2, <1>6, <2>0, <2>1, <2>2, <2>3, <2>4 DEF AllEntered, OwnOpen
<1>10. /\ \A x \in Blocks : Open(x)' => \A f \in token'[x].chain : f.at < entered'[x].at
       /\ \A x, y \in Blocks :
             Open(x)' /\ Open(y)' /\ entered'[x].at = entered'[y].at => x = y
  BY <1>4 DEF SInv, Open
<1>11. QED BY <1>2, <1>7, <1>8, <1>9, <1>10 DEF SInv

LEMMA SInitOK == Init => SInv
<1> SUFFICES ASSUME Init PROVE SInv OBVIOUS
<1>1. IInv BY InitOK
<1>2. \A c \in Contexts : registry[c].chain = {} BY DEF Init, Empty
<1>3. \A i \in Isolates : isolation[i] = NoMapping BY DEF Init
<1>4. \A b \in Blocks : ~ Open(b) BY DEF Init, Open
<1>5. QED BY <1>1, <1>2, <1>3, <1>4 DEF SInv, AllEntered, OwnOpen

LEMMA CopyStructured ==
    ASSUME SInv, NEW c \in Contexts, NEW d \in Contexts, CopyContext(c, d)
    PROVE  SInv'
<1>1. TypeOK /\ Paired /\ FramesApart BY DEF SInv, IInv
<1>2. /\ status[c] = "live" /\ status[d] = "unborn" /\ c # d
      /\ status' = [status EXCEPT ![d] = "live"]
      /\ registry' = [registry EXCEPT ![d] = registry[c]]
      /\ UNCHANGED <<token, entered, isolation, frame>>
  BY DEF CopyContext, Live
<1>3. IInv' BY CopyContextOK DEF SInv
<1>4. ASSUME NEW x \in Contexts
      PROVE  /\ status'[x] = "unborn" => registry'[x].chain = {}
             /\ status'[x] # "done" => AllEntered(registry[x].chain)'
             /\ OwnOpen(registry[x].chain, x, frame[x])'
  <2>1. CASE x # d BY <1>1, <1>2, <2>1 DEF SInv, AllEntered, OwnOpen, TypeOK
  <2>2. CASE x = d
    <3>1. registry'[d] = registry[c] /\ status'[d] = "live"
      BY <1>1, <1>2 DEF TypeOK
    <3>2. AllEntered(registry[c].chain) /\ registry[c].chain \subseteq Entry
      BY <1>1, <1>2 DEF SInv, TypeOK, Mapping
    <3>3. \A f \in registry[c].chain : f.home # d
      <4> SUFFICES ASSUME NEW f \in registry[c].chain PROVE f.home # d OBVIOUS
      <4>1. f \in Entry /\ entered[f.block] = f BY <3>2 DEF AllEntered
      <4>2. f.block \in Blocks /\ Open(f.block)
        BY <1>1, <4>1, NoEntryAssumption DEF Paired, Entry
      <4>3. QED BY <1>1, <1>2, <4>1, <4>2 DEF Paired
    <3>4. QED BY <1>2, <2>2, <3>1, <3>2, <3>3 DEF AllEntered, OwnOpen
  <2>3. QED BY <2>1, <2>2
<1>5. ASSUME NEW i \in Isolates, isolation'[i] # NoMapping
      PROVE  /\ status'[isolation'[i].ctx] # "done" => AllEntered(isolation[i].mapping.chain)'
             /\ OwnOpen(isolation[i].mapping.chain, isolation[i].ctx, isolation[i].frame)'
  <2>1. isolation[i] \in Saved /\ isolation[i].ctx # d /\ isolation[i] # NoMapping
    BY <1>1, <1>2, <1>5 DEF TypeOK, FramesApart
  <2>2. isolation[i].ctx \in Contexts BY <2>1 DEF Saved
  <2>3. status'[isolation[i].ctx] = status[isolation[i].ctx] BY <1>1, <1>2, <2>1, <2>2 DEF TypeOK
  <2>4. QED BY <1>2, <2>1, <2>3 DEF SInv, AllEntered, OwnOpen
<1>6. QED BY <1>2, <1>3, <1>4, <1>5, SameBlocks DEF SInv

LEMMA StatusStructured ==
    ASSUME SInv, NEW c \in Contexts, StartThread(c) \/ Finish(c)
    PROVE  SInv'
<1>1. TypeOK /\ FramesApart BY DEF SInv, IInv
<1>2. PICK s \in {"live", "done"} :
         /\ status' = [status EXCEPT ![c] = s]
         /\ \/ status[c] = "unborn" /\ s = "live"
            \/ status[c] = "live" /\ s = "done"
  BY DEF StartThread, Finish, Live
<1>3. UNCHANGED <<registry, token, entered, isolation, frame, closed, clock>>
  BY DEF StartThread, Finish
<1>4. IInv' BY <1>2, <1>3, StatusOK DEF SInv
<1>5. ASSUME NEW x \in Contexts
      PROVE  /\ status'[x] = "unborn" => status[x] = "unborn"
             /\ status'[x] # "done" => status[x] # "done"
  BY <1>1, <1>2 DEF TypeOK
<1>6. \A i \in Isolates : isolation[i] # NoMapping => isolation[i].ctx \in Contexts
  BY <1>1 DEF TypeOK, Saved
<1>7. QED BY <1>3, <1>4, <1>5, <1>6, SameBlocks DEF SInv, AllEntered, OwnOpen

LEMMA IsolateEnterStructured ==
    ASSUME SInv, NEW c \in Contexts, NEW i \in Isolates, IsolateEnter(c, i)
    PROVE  SInv'
<1>1. TypeOK BY DEF SInv, IInv
<1> DEFINE s == [ctx |-> c, mapping |-> registry[c], frame |-> frame[c]]
<1>2. /\ status[c] = "live" /\ isolation[i] = NoMapping
      /\ isolation' = [isolation EXCEPT ![i] = s]
      /\ registry' = [registry EXCEPT ![c] = Empty]
      /\ frame' = [frame EXCEPT ![c] = clock + 1]
      /\ UNCHANGED <<status, token, entered>>
  BY DEF IsolateEnter, Live
<1>3. IInv' BY IsolateEnterOK DEF SInv
<1>4. Empty.chain = {} BY DEF Empty
<1>5. ASSUME NEW x \in Contexts
      PROVE  /\ status'[x] = "unborn" => registry'[x].chain = {}
             /\ status'[x] # "done" => AllEntered(registry[x].chain)'
             /\ OwnOpen(registry[x].chain, x, frame[x])'
  BY <1>1, <1>2, <1>4 DEF SInv, AllEntered, OwnOpen, TypeOK
<1>6. ASSUME NEW j \in Isolates, isolation'[j] # NoMapping
      PROVE  /\ status'[isolation'[j].ctx] # "done" => AllEntered(isolation[j].mapping.chain)'
             /\ OwnOpen(isolation[j].mapping.chain, isolation[j].ctx, isolation[j].frame)'
  <2>1. CASE j = i
    <3>1. isolation'[i] = s BY <1>1, <1>2 DEF TypeOK
    <3>2. QED BY <1>2, <2>1, <3>1 DEF SInv, AllEntered, OwnOpen
  <2>2. CASE j # i
    <3>1. isolation'[j] = isolation[j] BY <1>1, <1>2, <2>2 DEF TypeOK
    <3>2. QED BY <1>2, <1>6, <3>1 DEF SInv, AllEntered, OwnOpen
  <2>3. QED BY <2>1, <2>2
<1>7. QED BY <1>2, <1>3, <1>5, <1>6, SameBlocks DEF SInv

LEMMA IsolateExitStructured ==
    ASSUME SInv, NEW c \in Contexts, NEW i \in Isolates, IsolateExit(c, i)
    PROVE  SInv'
<1>1. TypeOK BY DEF SInv, IInv
<1>2. /\ status[c] = "live" /\ isolation[i] # NoMapping /\ isolation[i].ctx = c
      /\ isolation' = [isolation EXCEPT ![i] = NoMapping]
      /\ registry' = [registry EXCEPT ![c] = isolation[i].mapping]
      /\ frame' = [frame EXCEPT ![c] = isolation[i].frame]
      /\ UNCHANGED <<status, token, entered>>
  BY DEF IsolateExit, Live
<1>3. IInv' BY IsolateExitOK DEF SInv
<1>4. ASSUME NEW x \in Contexts
      PROVE  /\ status'[x] = "unborn" => registry'[x].chain = {}
             /\ status'[x] # "done" => AllEntered(registry[x].chain)'
             /\ OwnOpen(registry[x].chain, x, frame[x])'
  <2>1. CASE x = c
    <3>1. registry'[c] = isolation[i].mapping /\ frame'[c] = isolation[i].frame
      BY <1>1, <1>2 DEF TypeOK
    <3>2. QED BY <1>2, <2>1, <3>1 DEF SInv, AllEntered, OwnOpen
  <2>2. CASE x # c
    <3>1. registry'[x] = registry[x] /\ frame'[x] = frame[x] BY <1>1, <1>2, <2>2 DEF TypeOK
    <3>2. QED BY <1>2, <3>1 DEF SInv, AllEntered, OwnOpen
  <2>3. QED BY <2>1, <2>2
<1>5. ASSUME NEW j \in Isolates, isolation'[j] # NoMapping
      PROVE  /\ status'[isolation'[j].ctx] # "done" => AllEntered(isolation[j].mapping.chain)'
             /\ OwnOpen(isolation[j].mapping.chain, isolation[j].ctx, isolation[j].frame)'
  <2>1. isolation'[j] = isolation[j] /\ isolation[j] # NoMapping
    BY <1>1, <1>2, <1>5 DEF TypeOK
  <2>2. QED BY <1>2, <2>1 DEF SInv, AllEntered, OwnOpen
<1>6. QED BY <1>2, <1>3, <1>4, <1>5, SameBlocks DEF SInv

LEMMA StutterStructured == ASSUME SInv, UNCHANGED vars PROVE SInv'
<1>1. IInv' BY NextOK DEF SInv
<1>2. QED BY <1>1 DEF SInv, vars, AllEntered, OwnOpen, Open

LEMMA StructuredNextOK == SInv /\ [StructuredNext]_vars => SInv'
BY EnterStructured, ExitStructuredKeeps, CopyStructured, StatusStructured,
   IsolateEnterStructured, IsolateExitStructured, StutterStructured
   DEF StructuredNext, Running

\* Entry times tell the open entries of a chain apart.
LEMMA OneEntryAtATime ==
    ASSUME SInv, NEW S, S \subseteq Entry, AllEntered(S), NEW e \in S, NEW f \in S,
           e.at = f.at
    PROVE  e = f
<1>1. Paired BY DEF SInv, IInv
<1>2. \A g \in S : /\ g \in Entry /\ g.block \in Blocks /\ g # NoEntry
                   /\ entered[g.block] = g /\ Open(g.block)
  BY <1>1, NoEntryAssumption DEF AllEntered, Paired, Entry
<1>3. e.block = f.block BY <1>2 DEF SInv
<1>4. QED BY <1>2, <1>3

\* A held mapping none of whose blocks is gone shows the innermost block of its chain
\* under every key.
LEMMA ShowsItsChain ==
    ASSUME SInv, NEW m \in Held, AllEntered(m.chain)
    PROVE  m.vals = Scopes!View(m.chain)
<1>1. TypeOK /\ Past /\ HeldInnermost BY DEF SInv, IInv
<1>2. m \in Mapping /\ m.chain \subseteq Entry /\ m.vals \in [Keys -> Entry \cup {NoEntry}]
  BY <1>1, HeldAreMappings DEF Mapping
<1>3. AnswersOpen(m) BY <1>1 DEF HeldInnermost
<1>4. ASSUME NEW k \in Keys PROVE m.vals[k] = Scopes!Answer(m.chain, k)
  <2> DEFINE S == {e \in m.chain : Key(e) = k}
  <2>1. OfKey(m.chain, k) = S BY DEF OfKey
  <2>2. AllOpen(m, k) BY DEF AllOpen, AllEntered, OfKey
  <2>3. AnswersInnermost(m, k) BY <1>3, <2>2 DEF AnswersOpen
  <2>4. CASE S = {} BY <2>1, <2>3, <2>4 DEF AnswersInnermost, Scopes!Answer
  <2>5. CASE S # {}
    <3>1. m.vals[k] \in S /\ \A f \in S : f.at <= m.vals[k].at
      BY <2>1, <2>3, <2>5 DEF AnswersInnermost
    <3>2. ASSUME NEW e \in S, \A f \in S : f.at <= e.at PROVE e = m.vals[k]
      <4>1. e.at \in Nat /\ m.vals[k].at \in Nat BY <1>2, <3>1 DEF Entry
      <4>2. e.at = m.vals[k].at BY <3>1, <3>2, <4>1
      <4>3. QED BY <1>2, <3>1, <4>2, OneEntryAtATime
    <3>3. m.vals[k] = CHOOSE e \in S : \A f \in S : f.at <= e.at BY <3>1, <3>2
    <3>4. QED BY <2>5, <3>3 DEF Scopes!Answer
  <2>6. QED BY <2>4, <2>5
<1>5. Scopes!View(m.chain) = [k \in Keys |-> Scopes!Answer(m.chain, k)] BY DEF Scopes!View
<1>6. QED BY <1>2, <1>4, <1>5

\* What every context that is not over answers: its scope's view.
Shows ==
    \A c \in Contexts :
        status[c] # "done" => registry[c].vals = Scopes!View(registry[c].chain)

LEMMA EveryoneShows == SInv => Shows
<1> SUFFICES ASSUME SInv, NEW c \in Contexts, status[c] # "done"
             PROVE  registry[c].vals = Scopes!View(registry[c].chain)
  BY DEF Shows
<1>1. registry[c] \in Held /\ AllEntered(registry[c].chain) BY DEF Held, SInv
<1>2. QED BY <1>1, ShowsItsChain

LEMMA EveryoneShowsNext == SInv' => Shows'
BY EveryoneShows, PTL

LEMMA ScopesInitOK == Init => Scopes!Init
<1> SUFFICES ASSUME Init PROVE Scopes!Init OBVIOUS
<1>1. {c \in Contexts : status[c] # "unborn"} = {Root} BY RootAssumption DEF Init
<1>2. \A k \in Keys : Scopes!Answer({}, k) = NoEntry BY DEF Scopes!Answer
<1>3. Scopes!View({}) = Empty.vals BY <1>2 DEF Scopes!View, Empty
<1>4. QED BY <1>1, <1>3 DEF Init, Scopes!Init, Empty

\* A step that installs a mapping in one context that is not over gives that context
\* the scope of the mapping, and shows it as Scoping does.
LEMMA InstallsAScope ==
    ASSUME SInv, SInv', NEW c \in Contexts, NEW m \in Mapping,
           registry' = [registry EXCEPT ![c] = m], status'[c] # "done"
    PROVE  /\ [d \in Contexts |-> registry[d].chain]'
              = [[d \in Contexts |-> registry[d].chain] EXCEPT ![c] = m.chain]
           /\ [d \in Contexts |-> registry[d].vals]'
              = [[d \in Contexts |-> registry[d].vals] EXCEPT ![c] = Scopes!View(m.chain)]
<1>1. registry \in [Contexts -> Mapping] BY DEF SInv, IInv, TypeOK
<1>2. registry'[c] = m BY <1>1
<1>3. m.vals = Scopes!View(m.chain) BY <1>2, EveryoneShowsNext DEF Shows
<1>4. QED BY <1>1, <1>3

LEMMA EnterOpens ==
    ASSUME SInv, SInv', NEW c \in Contexts, NEW b \in Blocks, Enter(c, b)
    PROVE  Scopes!Next
<1> DEFINE e == [block |-> b, home |-> c, frame |-> frame[c], at |-> clock + 1]
           m == [by |-> e,
                 vals |-> [registry[c].vals EXCEPT ![KeyOf[b]] = e],
                 chain |-> registry[c].chain \cup {e}]
<1>1. TypeOK /\ Past /\ FramesApart BY DEF SInv, IInv
<1>2. /\ status[c] = "live" /\ clock < MaxClock
      /\ registry' = [registry EXCEPT ![c] = m]
      /\ UNCHANGED <<status, isolation>>
  BY DEF Enter, Live
<1>3. e \in EveryEntry
  BY <1>1, <1>2, ClockAssumption DEF TypeOK, FramesApart, EveryEntry
<1>4. m \in Mapping
  <2>1. registry'[c] = m BY <1>1, <1>2 DEF TypeOK
  <2>2. registry'[c] \in Mapping BY DEF SInv, IInv, TypeOK
  <2>3. QED BY <2>1, <2>2
<1>5. \A f \in registry[c].chain : f.at < e.at
  <2>1. registry[c] \in Held /\ registry[c].chain \subseteq Entry
    BY <1>1 DEF Held, TypeOK, Mapping
  <2>2. \A f \in registry[c].chain : f.at \in Nat /\ f.at <= clock
    BY <1>1, <2>1 DEF Past, Entry
  <2>3. clock \in Nat BY <1>1 DEF TypeOK
  <2>4. QED BY <2>2, <2>3
<1>6. PICK n \in Mapping : /\ registry' = [registry EXCEPT ![c] = n]
                           /\ n.chain = registry[c].chain \cup {e}
  BY <1>2, <1>4
<1> HIDE DEF m, e
<1>7. status'[c] # "done" BY <1>2
<1>8. Scopes!Become(c, registry[c].chain \cup {e})
  BY <1>6, <1>7, InstallsAScope DEF Scopes!Become
<1>9. Scopes!OpenBlock(c, e) BY <1>2, <1>5, <1>8 DEF Scopes!OpenBlock, Scopes!Become
<1>10. QED BY <1>2, <1>3, <1>9 DEF Scopes!Next

LEMMA ExitCloses ==
    ASSUME SInv, SInv', NEW c \in Contexts, NEW b \in Blocks, ExitStructured(c, b)
    PROVE  Scopes!Next
<1>1. PICK m \in Mapping : /\ registry' = [registry EXCEPT ![c] = m]
                           /\ m.chain = registry[c].chain \ {entered[b]}
  BY StructuredExitIs
<1>2. /\ status[c] = "live" /\ entered[b] \in registry[c].chain
      /\ UNCHANGED <<status, isolation>>
  BY StructuredExitIs
<1>3. status'[c] # "done" BY <1>2
<1>4. Scopes!Become(c, registry[c].chain \ {entered[b]})
  BY <1>1, <1>3, InstallsAScope DEF Scopes!Become
<1>5. Scopes!CloseBlock(c, entered[b]) BY <1>2, <1>4 DEF Scopes!CloseBlock, Scopes!Become
<1>6. QED BY <1>2, <1>5 DEF Scopes!Next

LEMMA CopyInherits ==
    ASSUME SInv, SInv', NEW c \in Contexts, NEW d \in Contexts, CopyContext(c, d)
    PROVE  Scopes!Next
<1>1. TypeOK BY DEF SInv, IInv
<1>2. /\ status[c] = "live" /\ status[d] = "unborn"
      /\ status' = [status EXCEPT ![d] = "live"]
      /\ registry' = [registry EXCEPT ![d] = registry[c]]
      /\ UNCHANGED isolation
  BY DEF CopyContext, Live
<1>3. registry[c] \in Mapping /\ status'[d] = "live" BY <1>1, <1>2 DEF TypeOK
<1>4. PICK m \in Mapping : registry' = [registry EXCEPT ![d] = m] /\ m.chain = registry[c].chain
  BY <1>2, <1>3
<1>5. {x \in Contexts : status'[x] # "unborn"}
      = {x \in Contexts : status[x] # "unborn"} \cup {d}
  BY <1>1, <1>2 DEF TypeOK
<1>6. Scopes!Become(d, m.chain)
  BY <1>3, <1>4, InstallsAScope DEF Scopes!Become
<1>7. Scopes!Inherit(c, d) BY <1>2, <1>4, <1>5, <1>6 DEF Scopes!Inherit, Scopes!Become
<1>8. QED BY <1>2, <1>7 DEF Scopes!Next

LEMMA ThreadStartsEmpty ==
    ASSUME SInv, NEW d \in Contexts, StartThread(d)
    PROVE  Scopes!Next
<1>1. TypeOK BY DEF SInv, IInv
<1>2. {x \in Contexts : status'[x] # "unborn"}
      = {x \in Contexts : status[x] # "unborn"} \cup {d}
  BY <1>1 DEF TypeOK, StartThread
<1>3. Scopes!StartEmpty(d) BY <1>2 DEF StartThread, Scopes!StartEmpty
<1>4. QED BY <1>3 DEF Scopes!Next

\* Scoping does not say that a context is over.
LEMMA FinishStutters ==
    ASSUME SInv, NEW c \in Contexts, Finish(c)
    PROVE  UNCHANGED Scopes!vars
<1>1. TypeOK BY DEF SInv, IInv
<1>2. {x \in Contexts : status'[x] # "unborn"} = {x \in Contexts : status[x] # "unborn"}
  BY <1>1 DEF TypeOK, Finish, Live
<1>3. QED BY <1>2 DEF Finish, Scopes!vars

LEMMA IsolateSetsAside ==
    ASSUME SInv, SInv', NEW c \in Contexts, NEW i \in Isolates, IsolateEnter(c, i)
    PROVE  Scopes!Next
<1> DEFINE s == [ctx |-> c, mapping |-> registry[c], frame |-> frame[c]]
           parked(iso) == [j \in Isolates |->
                             IF iso[j] = NoMapping THEN NoMapping
                             ELSE [ctx |-> iso[j].ctx, scope |-> iso[j].mapping.chain]]
<1>1. TypeOK BY DEF SInv, IInv
<1>2. /\ status[c] = "live" /\ isolation[i] = NoMapping
      /\ isolation' = [isolation EXCEPT ![i] = s]
      /\ registry' = [registry EXCEPT ![c] = Empty]
      /\ UNCHANGED status
  BY DEF IsolateEnter, Live
<1>3. Empty \in Mapping /\ Empty.chain = {} BY DEF Empty, Mapping
<1>4. PICK m \in Mapping : m = Empty BY <1>3
<1>5. s \in Saved /\ s # NoMapping
  BY <1>1, NoSavedAssumption DEF TypeOK, Saved
<1>6. parked(isolation') = [parked(isolation) EXCEPT
                              ![i] = [ctx |-> c, scope |-> registry[c].chain]]
  BY <1>1, <1>2, <1>5 DEF TypeOK
<1>7. parked(isolation)[i] = NoMapping BY <1>2
<1>8. registry' = [registry EXCEPT ![c] = m] /\ m.chain = {} /\ status'[c] # "done"
  BY <1>2, <1>3, <1>4
<1>9. Scopes!Become(c, {}) BY <1>8, InstallsAScope DEF Scopes!Become
<1> HIDE DEF s
<1>10. Scopes!SetAside(c, i)
  BY <1>2, <1>6, <1>7, <1>9 DEF Scopes!SetAside, Scopes!Become
<1>11. QED BY <1>2, <1>10 DEF Scopes!Next

LEMMA IsolatePutsBack ==
    ASSUME SInv, SInv', NEW c \in Contexts, NEW i \in Isolates, IsolateExit(c, i)
    PROVE  Scopes!Next
<1> DEFINE parked(iso) == [j \in Isolates |->
                             IF iso[j] = NoMapping THEN NoMapping
                             ELSE [ctx |-> iso[j].ctx, scope |-> iso[j].mapping.chain]]
<1>1. TypeOK BY DEF SInv, IInv
<1>2. /\ status[c] = "live" /\ isolation[i] # NoMapping /\ isolation[i].ctx = c
      /\ isolation' = [isolation EXCEPT ![i] = NoMapping]
      /\ registry' = [registry EXCEPT ![c] = isolation[i].mapping]
      /\ UNCHANGED status
  BY DEF IsolateExit, Live
<1>3. isolation[i].mapping \in Mapping BY <1>1, <1>2 DEF TypeOK, Saved
<1>4. PICK m \in Mapping : /\ registry' = [registry EXCEPT ![c] = m]
                           /\ m.chain = isolation[i].mapping.chain
  BY <1>2, <1>3
<1>5. parked(isolation') = [parked(isolation) EXCEPT ![i] = NoMapping]
  BY <1>1, <1>2 DEF TypeOK
<1>6. /\ parked(isolation)[i] = [ctx |-> c, scope |-> m.chain]
      /\ parked(isolation)[i] # NoMapping
  BY <1>2, <1>4, NoSavedAssumption DEF Mapping
<1>7. status'[c] # "done" BY <1>2
<1>8. Scopes!Become(c, m.chain) BY <1>4, <1>7, InstallsAScope DEF Scopes!Become
<1>9. Scopes!PutBack(c, i) BY <1>2, <1>5, <1>6, <1>8 DEF Scopes!PutBack, Scopes!Become
<1>10. QED BY <1>2, <1>9 DEF Scopes!Next

\* Every structured step is a step of Scoping or leaves what it shows alone.
LEMMA StepIsScoped == SInv /\ SInv' /\ [StructuredNext]_vars => [Scopes!Next]_(Scopes!vars)
<1> SUFFICES ASSUME SInv, SInv', [StructuredNext]_vars
             PROVE  Scopes!Next \/ UNCHANGED Scopes!vars
  OBVIOUS
<1>1. CASE UNCHANGED vars BY <1>1 DEF vars, Scopes!vars
<1>2. CASE \E c \in Contexts, b \in Blocks : ExitStructured(c, b) BY <1>2, ExitCloses
<1>3. CASE Running
  BY <1>3, EnterOpens, CopyInherits, ThreadStartsEmpty, FinishStutters, IsolateSetsAside,
     IsolatePutsBack
     DEF Running
<1>4. QED BY <1>1, <1>2, <1>3 DEF StructuredNext

THEOREM StructuredInductive == StructuredSpec => []SInv
BY SInitOK, StructuredNextOK, PTL DEF StructuredSpec

(* Used the way its documentation asks, the registry is an implementation   *)
(* of lexical scoping: whatever the numbers of contexts, blocks, keys and   *)
(* isolations, and however the structured steps interleave, every context   *)
(* that can still look anything up sees the innermost block open in its     *)
(* scope.                                                                   *)
THEOREM StructuredIsScoping == StructuredSpec => ImplementsScoping
<1>1. StructuredSpec => []SInv BY StructuredInductive
<1>2. QED BY <1>1, ScopesInitOK, StepIsScoped, PTL DEF StructuredSpec, ImplementsScoping, Scopes!Spec

(* Nothing outlives its block where it was opened, reported or not.        *)
THEOREM StructuredLeaksNothing == StructuredSpec => []NothingLeaksSilently
<1>1. SInv => NothingLeaksSilently BY DEF SInv, OwnOpen, NothingLeaksSilently
<1>2. QED BY <1>1, StructuredInductive, PTL
==============================================================================
