--------------------------- MODULE CatalogueProof ---------------------------
(***************************************************************************)
(* The catalogue misses no declaration, keeps a counter for every          *)
(* suspicious class, never loses what a module declared, forgets what an   *)
(* isolate() block declared itself and lets nothing land twice, for every  *)
(* number of threads, keys, refs and nested isolate() blocks.  Land is     *)
(* what scans and registrations share, so its lemmas come first.           *)
(***************************************************************************)
EXTENDS Catalogue, SequenceTheorems, WellFoundedInduction, TLAPS

(* Declarations whose serials have a bound have a latest one. *)
LEMMA LatestExists ==
    ASSUME NEW D, D \subseteq Declaration, D # {},
           NEW n \in Nat, \A d \in D : d.serial <= n
    PROVE  Latest(D) \in D
<1> DEFINE Ages == {n - d.serial : d \in D}
           Less == OpToRel(<, Nat)
<1>1. Ages \subseteq Nat /\ Ages # {}
  BY DEF Declaration
<1>2. \E x \in Ages : \A y \in Ages : ~ (<<y, x>> \in Less)
  <2> HIDE DEF Ages, Less
  <2>1. IsWellFoundedOn(Less, Nat)
    BY NatLessThanWellFounded DEF Less
  <2> QED BY <1>1, <2>1, WFMin
<1>3. PICK x \in Ages : \A y \in Ages : ~ (<<y, x>> \in Less)
  BY <1>2
<1>4. \A y \in Ages : x <= y
  <2> TAKE y \in Ages
  <2>1. x \in Nat /\ y \in Nat /\ ~(<<y, x>> \in Less)
    BY <1>1, <1>3
  <2>2. ~ (y < x)
    BY <2>1 DEF OpToRel
  <2> HIDE DEF Ages, Less
  <2> QED BY <2>1, <2>2
<1>5. PICK d \in D : x = n - d.serial
  OBVIOUS
<1>6. \A c \in D : c.serial <= d.serial
  <2> TAKE c \in D
  <2>1. n - c.serial \in Ages
    OBVIOUS
  <2>2. n - d.serial <= n - c.serial
    BY <1>4, <1>5, <2>1
  <2>3. d.serial \in Nat /\ c.serial \in Nat
    BY DEF Declaration
  <2> HIDE DEF Ages, Less
  <2> QED BY <2>2, <2>3
<1> QED BY <1>5, <1>6 DEF Latest

(* A set of declarations for keys that can land. *)
Landing(L) ==
    \A x \in L : /\ x.made \in Declaration
                 /\ x.made.serial <= serial + 1

(* The latest of what lands on a key is one of the declarations that do.    *)
LEMMA LatestLands ==
    ASSUME NEW L, Landing(L), serial \in Nat, NEW k, NEW D \in SUBSET For(L, k), D # {}
    PROVE  Latest(D) \in D /\ Latest(D) \in Declaration
<1>1. For(L, k) \subseteq Declaration /\ \A d \in For(L, k) : d.serial <= serial + 1
  BY DEF For, Landing
<1>2. D \subseteq Declaration /\ \A d \in D : d.serial <= serial + 1
  BY <1>1
<1>3. serial + 1 \in Nat
  OBVIOUS
<1> QED BY <1>2, <1>3, LatestExists

LEMMA RecordedIsDeclaration ==
    ASSUME NEW k, NEW d \in Declaration
    PROVE  Recorded(k, d) \in Declaration
BY DEF Recorded, Declaration

(* Whatever lands, the tables keep their types, suspicious classes their    *)
(* counters and modules their keys.                                         *)
LEMMA LandOK ==
    ASSUME TypeOK, SuspiciousCounted, NEW L, Landing(L), Land(L),
           \A k \in Keys : imported[k] # None => declared[k] # None
    PROVE  /\ declared' \in [Keys -> Declaration \cup {None}]
           /\ imported' \in [Keys -> Declaration \cup {None}]
           /\ fired' \in [Classes -> Nat \cup {None}]
           /\ dropped' \subseteq Nat
           /\ SuspiciousCounted'
           /\ \A k \in Keys : imported'[k] # None => declared'[k] # None
<1>1. serial \in Nat /\ Classes \subseteq Keys /\ Names \subseteq Keys
  BY DEF TypeOK, Keys
<1>2. ASSUME NEW k \in Keys, For(L, k) # {}
      PROVE  /\ Latest(For(L, k)) \in For(L, k)
             /\ Latest(For(L, k)) \in Declaration
             /\ Recorded(k, Latest(For(L, k))) \in Declaration
  BY <1>1, <1>2, LatestLands, RecordedIsDeclaration
<1>3. declared' \in [Keys -> Declaration \cup {None}]
  BY <1>2 DEF Land, TypeOK
<1>4. imported' \in [Keys -> Declaration \cup {None}]
  <2> DEFINE By(k) == {d \in For(L, k) : d.imported}
  <2>1. ASSUME NEW k \in Keys, By(k) # {}
        PROVE  Recorded(k, Latest(By(k))) \in Declaration
    <3>1. By(k) \in SUBSET For(L, k)
      OBVIOUS
    <3> HIDE DEF By
    <3> QED BY <1>1, <2>1, <3>1, LatestLands, RecordedIsDeclaration
  <2> QED BY <2>1 DEF Land, TypeOK
<1>5. fired' \in [Classes -> Nat \cup {None}]
  BY DEF Land, TypeOK, Counter
<1>6. dropped' \subseteq Nat
  BY DEF Land, TypeOK, Landing, Declaration
<1>7. SuspiciousCounted'
  <2> SUFFICES ASSUME NEW k \in Classes, declared'[k] # None, declared'[k].marked
               PROVE  fired'[k] # None
    BY DEF SuspiciousCounted
  <2>1. CASE For(L, k) = {}
    BY <1>1, <2>1 DEF Land, SuspiciousCounted, TypeOK
  <2>2. CASE For(L, k) # {}
    <3>1. declared'[k] = Latest(For(L, k))
      BY <1>1, <2>2 DEF Land, Recorded
    <3>2. fired'[k] = Counter(k, For(L, k))
      BY <2>2 DEF Land
    <3> QED BY <3>1, <3>2, NoneAssumption DEF Counter
  <2> QED BY <2>1, <2>2
<1>8. \A k \in Keys : imported'[k] # None => declared'[k] # None
  <2> SUFFICES ASSUME NEW k \in Keys, imported'[k] # None
               PROVE  declared'[k] # None
    OBVIOUS
  <2>1. CASE For(L, k) = {}
    BY <2>1 DEF Land, TypeOK
  <2>2. CASE For(L, k) # {}
    BY <1>2, <2>2, NoneAssumption DEF Land
  <2> QED BY <2>1, <2>2
<1> QED BY <1>3, <1>4, <1>5, <1>6, <1>7, <1>8

-----------------------------------------------------------------------------
(* Steps that touch nothing but the thread that takes them.                 *)

\* What thread t alone changes.
OnlyMoves(t) ==
    /\ step' \in [Threads -> Steps] /\ seen' \in [Threads -> Nat]
    /\ after' \in [Threads -> Steps]
    /\ job' \in [Threads -> Keys \cup Refs \cup {None}]
    /\ made' \in [Threads -> Declaration \cup {None}]
    /\ \A u \in Threads \ {t} :
           /\ step'[u] = step[u] /\ seen'[u] = seen[u] /\ after'[u] = after[u]
           /\ job'[u] = job[u] /\ made'[u] = made[u]

(* A thread that is not filling a ref may move on as long as it is equipped *)
(* for what it does next.                                                   *)
LEMMA MoveOK ==
    ASSUME IInv, NEW t \in Threads, OnlyMoves(t), EquippedAt(t)',
           step[t] \notin {"bump", "write", "ask"}, step'[t] \notin {"write", "ask"},
           step'[t] = "scan" => seen'[t] <= count,
           defaults' \in [Classes -> Factories \cup {None}],
           UNCHANGED <<refs, count, scanAt, tables, blocks, serial, history>>
    PROVE  IInv'
<1>1. TypeOK'
  BY DEF IInv, TypeOK, OnlyMoves, refs, tables, history
<1>2. Equipped'
  <2> SUFFICES ASSUME NEW u \in Threads, u # t PROVE EquippedAt(u)'
    BY DEF Equipped
  <2> QED BY DEF IInv, Equipped, EquippedAt, Ahead, OnlyMoves
<1>3. Numbered' /\ PromisesWait' /\ SuspiciousCounted' /\ ModulesKept' /\ OneAsks'
  <2>1. OneAsks'
    BY DEF IInv, OneAsks, OnlyMoves, tables
  <2> QED BY <2>1 DEF IInv, Numbered, PromisesWait, SuspiciousCounted, ModulesKept, tables, history
<1>4. ASSUME Indivisible PROVE ScansBehind' /\ AskedTooEarly'
  <2>1. ScansBehind'
    BY <1>4 DEF IInv, ScansBehind, OnlyMoves
  <2>2. AskedTooEarly'
    BY <1>4 DEF IInv, AskedTooEarly, OnlyMoves, tables, refs
  <2> QED BY <2>1, <2>2
<1>5. ASSUME Indivisible PROVE NothingMissed'
  <2> SUFFICES ASSUME NEW e \in pending, e.ref \in resolved, scanAt = count
               PROVE  \E u \in Threads : step'[u] \in {"bump", "write"} /\ job'[u] = e.ref
    BY DEF NothingMissed, refs, tables
  <2>1. PICK u \in Threads : step[u] \in {"bump", "write"} /\ job[u] = e.ref
    BY <1>5 DEF IInv, NothingMissed
  <2> QED BY <2>1 DEF OnlyMoves
<1> QED BY <1>1, <1>2, <1>3, <1>4, <1>5 DEF IInv

\* Where a thread is that has looked whether to scan.
Absorbed(t, then) ==
    /\ step'[t] = "scan" => seen'[t] = count /\ after'[t] = then
    /\ step'[t] \notin {"write", "ask"}

(* An idle thread, or the end of a block, that looks whether to scan.       *)
LEMMA AbsorbOK ==
    ASSUME IInv, NEW t \in Threads,
           NEW then \in {"idle", "register", "count", "clear"}, Absorb(t, then)
    PROVE  /\ step' \in [Threads -> Steps] /\ seen' \in [Threads -> Nat]
           /\ after' \in [Threads -> Steps]
           /\ \A u \in Threads \ {t} :
                  step'[u] = step[u] /\ seen'[u] = seen[u] /\ after'[u] = after[u]
           /\ Ahead(t)' = then
           /\ Absorbed(t, then)
<1>1. count \in Nat /\ step \in [Threads -> Steps] /\ seen \in [Threads -> Nat]
      /\ after \in [Threads -> Steps] /\ {then, "scan"} \subseteq Steps
  BY DEF IInv, TypeOK, Steps
<1>2. CASE pending = {} \/ count = scanAt
  BY <1>1, <1>2 DEF Absorb, Absorbed, Go, Ahead
<1>3. CASE ~(pending = {} \/ count = scanAt)
  BY <1>1, <1>3 DEF Absorb, Absorbed, Go, Ahead
<1> QED BY <1>2, <1>3

(* The common case: the defaults are left alone as well.                    *)
LEMMA MoveOnOK ==
    ASSUME IInv, NEW t \in Threads, OnlyMoves(t), EquippedAt(t)',
           step[t] \notin {"bump", "write", "ask"}, step'[t] \notin {"write", "ask"},
           step'[t] = "scan" => seen'[t] = count,
           UNCHANGED defaults,
           UNCHANGED <<refs, count, scanAt, tables, blocks, serial, history>>
    PROVE  IInv'
<1>1. defaults' \in [Classes -> Factories \cup {None}] /\ count \in Nat
  BY DEF IInv, TypeOK
<1>2. step'[t] = "scan" => seen'[t] <= count
  BY <1>1
<1> QED BY <1>1, <1>2, MoveOK

LEMMA ReadCatalogueOK ==
    ASSUME IInv, NEW t \in Threads, ReadCatalogue(t)
    PROVE  IInv'
<1>1. Absorb(t, "idle") /\ "idle" \in {"idle", "register", "count", "clear"} /\ step[t] = "idle"
  BY DEF ReadCatalogue
<1>2. OnlyMoves(t) /\ Ahead(t)' = "idle" /\ Absorbed(t, "idle")
  BY <1>1, AbsorbOK DEF ReadCatalogue, OnlyMoves, IInv, TypeOK
<1>3. EquippedAt(t)'
  BY <1>2 DEF EquippedAt, Absorbed
<1> QED BY <1>1, <1>2, <1>3, MoveOnOK DEF ReadCatalogue, Absorbed

LEMMA DeclareOK ==
    ASSUME IInv, NEW t \in Threads, NEW x \in Keys \cup Refs,
           NEW marked \in BOOLEAN, NEW byModule \in BOOLEAN,
           Declare(t, x, marked, byModule)
    PROVE  IInv'
<1>1. Absorb(t, "register") /\ "register" \in {"idle", "register", "count", "clear"} /\ step[t] = "idle"
  BY DEF Declare
<1>2. /\ job' = [job EXCEPT ![t] = x]
      /\ made' = [made EXCEPT ![t] =
                     [serial |-> 0, marked |-> marked, imported |-> byModule]]
      /\ [serial |-> 0, marked |-> marked, imported |-> byModule] \in Declaration
  BY DEF Declare, Declaration
<1>3. OnlyMoves(t) /\ Ahead(t)' = "register" /\ Absorbed(t, "register")
  BY <1>1, <1>2, AbsorbOK DEF OnlyMoves, IInv, TypeOK
<1>4. EquippedAt(t)'
  <2>1. job'[t] = x /\ made'[t] \in Declaration
    BY <1>2 DEF IInv, TypeOK
  <2> QED BY <1>3, <2>1 DEF EquippedAt, Absorbed
<1> QED BY <1>1, <1>3, <1>4, MoveOnOK DEF Declare, Absorbed

LEMMA FallBackOK ==
    ASSUME IInv, NEW t \in Threads, NEW k \in Classes, FallBack(t, k)
    PROVE  IInv'
<1>1. Absorb(t, "count") /\ "count" \in {"idle", "register", "count", "clear"} /\ step[t] = "idle"
  BY DEF FallBack
<1>2. OnlyMoves(t) /\ Ahead(t)' = "count" /\ Absorbed(t, "count")
  BY <1>1, AbsorbOK DEF FallBack, OnlyMoves, IInv, TypeOK, Keys
<1>3. EquippedAt(t)'
  <2>1. job'[t] = k
    BY DEF FallBack, IInv, TypeOK
  <2> QED BY <1>2, <2>1 DEF EquippedAt, Absorbed
<1> QED BY <1>1, <1>2, <1>3, MoveOnOK DEF FallBack, Absorbed

LEMMA ReabsorbOK ==
    ASSUME IInv, Reabsorb
    PROVE  IInv'
<1>1. Absorb(Main, "clear") /\ "clear" \in {"idle", "register", "count", "clear"} /\ step[Main] = "restored"
      /\ Main \in Threads /\ UNCHANGED blocks
  BY MainAssumption DEF Reabsorb
<1>2. OnlyMoves(Main) /\ Ahead(Main)' = "clear"
      /\ Absorbed(Main, "clear")
  BY <1>1, AbsorbOK DEF Reabsorb, OnlyMoves, IInv, TypeOK
<1>3. EquippedAt(Main)'
  <2>1. blocks # <<>>
    BY <1>1 DEF IInv, Equipped, EquippedAt, Ahead
  <2> QED BY <1>1, <1>2, <2>1 DEF EquippedAt, Absorbed
<1> QED BY <1>1, <1>2, <1>3, MoveOnOK DEF Reabsorb, Absorbed

LEMMA WalkOK ==
    ASSUME IInv, NEW t \in Threads, NEW r \in Refs, Walk(t, r)
    PROVE  IInv'
<1>1. OnlyMoves(t) /\ step'[t] = "walked" /\ job'[t] = r /\ step[t] = "idle"
  BY DEF Walk, Go, OnlyMoves, IInv, TypeOK, Steps
<1>2. EquippedAt(t)'
  BY <1>1 DEF EquippedAt, Ahead
<1> QED BY <1>1, <1>2, MoveOnOK DEF Walk

LEMMA ReadCounterOK ==
    ASSUME IInv, NEW t \in Threads, ReadCounter(t)
    PROVE  IInv'
<1>1. step[t] = "count" /\ job[t] \in Classes
  BY DEF ReadCounter, IInv, Equipped, EquippedAt, Ahead
<1>2. fired[job[t]] \in Nat \cup {None}
  BY <1>1 DEF IInv, TypeOK
<1>3. OnlyMoves(t) /\ step'[t] \in {"idle", "store"}
      /\ (step'[t] = "store" => job'[t] = job[t])
  <2>1. CASE fired[job[t]] = None
    <3>1. Done(t) /\ UNCHANGED after
      BY <2>1 DEF ReadCounter
    <3> QED BY <3>1 DEF Done, Go, OnlyMoves, IInv, TypeOK, Steps
  <2>2. CASE fired[job[t]] # None
    BY <1>2, <2>2 DEF ReadCounter, Go, OnlyMoves, IInv, TypeOK, Steps
  <2> QED BY <2>1, <2>2
<1>4. EquippedAt(t)'
  BY <1>1, <1>3 DEF EquippedAt, Ahead
<1> QED BY <1>1, <1>3, <1>4, MoveOnOK DEF ReadCounter

LEMMA DefaultsOK ==
    ASSUME IInv,
           \/ \E t \in Threads, k \in Classes, f \in Factories \cup {None} :
                 SetDefault(t, k, f)
           \/ ClearDefaults
    PROVE  IInv'
<1>1. ASSUME NEW t \in Threads, NEW k \in Classes, NEW f \in Factories \cup {None},
             SetDefault(t, k, f)
      PROVE  IInv'
  <2>1. OnlyMoves(t) /\ step[t] = "idle" /\ step'[t] = "idle"
    BY <1>1 DEF SetDefault, local, OnlyMoves, IInv, TypeOK
  <2>2. EquippedAt(t)'
    BY <2>1 DEF EquippedAt, Ahead
  <2>3. defaults' \in [Classes -> Factories \cup {None}]
    BY <1>1 DEF SetDefault, IInv, TypeOK
  <2> QED BY <1>1, <2>1, <2>2, <2>3, MoveOK DEF SetDefault
<1>2. CASE ClearDefaults
  <2>1. /\ Main \in Threads /\ OnlyMoves(Main)
        /\ step[Main] = "clear" /\ step'[Main] = "update"
    BY <1>2, MainAssumption DEF ClearDefaults, Go, OnlyMoves, IInv, TypeOK, Steps
  <2>2. EquippedAt(Main)'
    <3>1. blocks # <<>> /\ UNCHANGED blocks
      BY <1>2, <2>1 DEF ClearDefaults, IInv, Equipped, EquippedAt, Ahead
    <3> QED BY <2>1, <3>1 DEF EquippedAt, Ahead
  <2>3. defaults' \in [Classes -> Factories \cup {None}]
    BY <1>2 DEF ClearDefaults
  <2> QED BY <1>2, <2>1, <2>2, <2>3, MoveOK DEF ClearDefaults
<1> QED BY <1>1, <1>2

(* The end of a block: the catalogue is merged, what waited waits again.    *)
LEMMA MergedOK ==
    ASSUME TypeOK, blocks # <<>>
    PROVE  /\ Innermost \in Saved
           /\ Merged(Innermost) \in [Keys -> Declaration \cup {None}]
<1>1. Innermost \in Saved
  BY DEF TypeOK, Innermost
<1>2. Innermost.declared \in [Keys -> Declaration \cup {None}]
  BY <1>1 DEF Saved
<1> QED BY <1>1, <1>2 DEF TypeOK, Merged

LEMMA RestoreOK ==
    ASSUME IInv, Restore
    PROVE  IInv'
<1>1. /\ Main \in Threads /\ step[Main] = "idle" /\ blocks # <<>>
      /\ TypeOK /\ Innermost \in Saved
      /\ Merged(Innermost) \in [Keys -> Declaration \cup {None}]
      /\ Len(blocks) \in 1..Len(blocks) /\ Classes \subseteq Keys
  <2>1. TypeOK /\ blocks # <<>> /\ step[Main] = "idle"
    BY DEF IInv, Restore
  <2>2. Len(blocks) \in 1..Len(blocks)
    BY <2>1 DEF TypeOK
  <2> QED BY <2>1, <2>2, MergedOK, MainAssumption DEF Keys
<1>2. /\ declared' = Merged(Innermost)
      /\ fired' = [k \in Classes |->
              IF declared'[k] = None \/ ~declared'[k].marked THEN None
              ELSE IF Innermost.fired[k] = None THEN 0 ELSE Innermost.fired[k]]
      /\ pending' = Innermost.pending \cup {e \in pending : e.made.imported}
      /\ dropped' = Innermost.dropped /\ scanAt' = -1
      /\ forgotten' = forgotten \cup {d.serial : d \in MadeInside(Innermost)}
      /\ step' = [step EXCEPT ![Main] = "restored"]
      /\ \A u \in Threads : step[u] # "ask"
      /\ asked = {} /\ found = {}
      /\ UNCHANGED <<target, resolved, count, imported, asked, found, defaults, blocks,
                     seen, after, job, made, serial, landed, promised>>
  <2>1. \A u \in Threads : step[u] # "ask"
    BY <1>1 DEF Restore, Unlocked
  <2>2. asked = {} /\ found = {}
    BY <1>1, <2>1 DEF IInv, OneAsks, TypeOK
  <2> QED BY <2>1, <2>2 DEF Restore, Go, refs
<1>3. TypeOK'
  <2>1. /\ Innermost.fired \in [Classes -> Nat \cup {None}]
        /\ Innermost.pending \subseteq Pending /\ Innermost.dropped \subseteq Nat
    BY <1>1 DEF Saved
  <2>2. forgotten' \subseteq Nat
    <3>1. \A d \in MadeInside(Innermost) : d \in Declaration
      BY <1>1 DEF TypeOK, MadeInside, Pending
    <3> QED BY <1>1, <1>2, <3>1 DEF TypeOK, Declaration
  <2>3. fired' \in [Classes -> Nat \cup {None}]
    BY <1>2, <2>1
  <2> QED BY <1>1, <1>2, <2>1, <2>2, <2>3 DEF TypeOK, Steps
<1>4. Equipped'
  BY <1>1, <1>2 DEF IInv, Equipped, EquippedAt, Ahead, TypeOK, Steps
<1>5. Numbered'
  <2>1. \A e \in Innermost.pending : e.made.serial <= serial
    BY <1>1 DEF IInv, Numbered, Innermost
  <2> QED BY <1>2, <2>1 DEF IInv, Numbered
<1>6. PromisesWait'
  <2> SUFFICES ASSUME NEW s \in promised, s \notin landed
               PROVE  \E e \in pending' : e.made.serial = s /\ e.made.imported
    BY <1>2 DEF PromisesWait
  <2>1. PICK e \in pending : e.made.serial = s /\ e.made.imported
    BY DEF IInv, PromisesWait
  <2> QED BY <1>2, <2>1
<1>7. SuspiciousCounted'
  <2>1. Innermost.fired \in [Classes -> Nat \cup {None}] /\ None \notin Nat
    BY <1>1, NoneAssumption DEF Saved
  <2> QED BY <1>2, <2>1 DEF SuspiciousCounted
<1>8. ModulesKept'
  <2>1. \A k \in Keys : imported'[k] # None => declared'[k] # None
    BY <1>1, <1>2 DEF Merged
  <2> QED BY <1>2, <1>6, <2>1 DEF ModulesKept, PromisesWait
<1>9. ASSUME Indivisible PROVE ScansBehind' /\ AskedTooEarly' /\ NothingMissed'
  <2>1. count \in Nat /\ scanAt' = -1 /\ count' = count
    BY <1>1, <1>2 DEF TypeOK
  <2>2. ScansBehind'
    BY <1>1, <1>2, <1>9, <2>1 DEF IInv, ScansBehind, TypeOK
  <2> QED BY <1>2, <2>1, <2>2 DEF NothingMissed, AskedTooEarly
<1>10. OneAsks'
  BY <1>1, <1>2 DEF OneAsks, TypeOK
<1> QED BY <1>10, <1>3, <1>4, <1>5, <1>6, <1>7, <1>8, <1>9 DEF IInv

LEMMA IsolateEnterOK ==
    ASSUME IInv, IsolateEnter
    PROVE  IInv'
<1> DEFINE saved == [declared |-> declared, pending |-> pending, fired |-> fired,
                     dropped |-> dropped, defaults |-> defaults, serial |-> serial]
<1>1. /\ saved \in Saved /\ blocks \in Seq(Saved) /\ blocks' = Append(blocks, saved)
      /\ saved.pending = pending
      /\ UNCHANGED <<refs, count, scanAt, tables, defaults, local, serial, history>>
  BY DEF IInv, TypeOK, Saved, IsolateEnter
<1> HIDE DEF saved
<1>2. /\ blocks' \in Seq(Saved) /\ blocks' # <<>>
      /\ \A i \in 1..Len(blocks') :
             \/ blocks'[i].pending = pending
             \/ i \in 1..Len(blocks) /\ blocks'[i] = blocks[i]
  <2>1. blocks' \in Seq(Saved) /\ Len(blocks') = Len(blocks) + 1 /\ Len(blocks) \in Nat
    BY <1>1
  <2>2. ASSUME NEW i \in 1..Len(blocks) PROVE blocks'[i] = blocks[i]
    BY <1>1
  <2>3. blocks'[Len(blocks')] = saved /\ blocks' # <<>>
    BY <1>1, <2>1
  <2>4. \A i \in 1..Len(blocks') : i = Len(blocks') \/ i \in 1..Len(blocks)
    BY <2>1
  <2>5. ASSUME NEW i \in 1..Len(blocks')
        PROVE  \/ blocks'[i].pending = pending
               \/ i \in 1..Len(blocks) /\ blocks'[i] = blocks[i]
    <3>1. CASE i = Len(blocks')
      BY <1>1, <2>3, <3>1
    <3>2. CASE i \in 1..Len(blocks)
      BY <2>2, <3>2
    <3> QED BY <2>4, <3>1, <3>2
  <2> QED BY <2>1, <2>3, <2>5
<1>3. TypeOK'
  BY <1>1, <1>2 DEF IInv, TypeOK, refs, tables, local, history
<1>4. Equipped'
  BY <1>1, <1>2 DEF IInv, Equipped, EquippedAt, Ahead, local
<1>5. Numbered'
  <2>1. \A e \in pending' : e.made.serial <= serial'
    BY <1>1 DEF IInv, Numbered, tables
  <2>2. ASSUME NEW i \in 1..Len(blocks') PROVE \A e \in blocks'[i].pending : e.made.serial <= serial'
    BY <1>1, <1>2 DEF IInv, Numbered
  <2> QED BY <2>1, <2>2 DEF Numbered
<1>6. PromisesWait' /\ SuspiciousCounted' /\ ModulesKept'
  BY <1>1 DEF IInv, PromisesWait, SuspiciousCounted, ModulesKept, tables, history
<1>7. ASSUME Indivisible PROVE ScansBehind' /\ AskedTooEarly' /\ NothingMissed'
  BY <1>1, <1>7 DEF IInv, ScansBehind, AskedTooEarly, NothingMissed, refs, tables, local
<1>8. OneAsks'
  BY <1>1 DEF IInv, OneAsks, tables, local
<1> QED BY <1>8, <1>3, <1>4, <1>5, <1>6, <1>7 DEF IInv

LEMMA UpdateDefaultsOK ==
    ASSUME IInv, UpdateDefaults
    PROVE  IInv'
<1>1. /\ Main \in Threads /\ step[Main] = "update" /\ TypeOK /\ blocks # <<>>
      /\ blocks' = SubSeq(blocks, 1, Len(blocks) - 1)
      /\ step' = [step EXCEPT ![Main] = "idle"]
      /\ UNCHANGED <<refs, count, scanAt, tables, seen, after, job, made, serial, history>>
  BY MainAssumption DEF IInv, Equipped, EquippedAt, Ahead, UpdateDefaults, Go
<1>2. /\ blocks' \in Seq(Saved)
      /\ \A i \in 1..Len(blocks') : i \in 1..Len(blocks) /\ blocks'[i] = blocks[i]
  BY <1>1 DEF TypeOK
<1>3. defaults' \in [Classes -> Factories \cup {None}]
  <2>1. Innermost.defaults \in [Classes -> Factories \cup {None}]
    BY <1>1, MergedOK DEF Saved
  <2> QED BY <1>1, <2>1 DEF UpdateDefaults, TypeOK
<1>4. TypeOK'
  BY <1>1, <1>2, <1>3 DEF TypeOK, Steps, refs, tables, history
<1>5. Equipped'
  <2>1. ASSUME NEW u \in Threads, u # Main PROVE EquippedAt(u)'
    BY <1>1, <2>1 DEF IInv, Equipped, EquippedAt, Ahead, TypeOK
  <2>2. EquippedAt(Main)'
    BY <1>1 DEF EquippedAt, Ahead, TypeOK
  <2> QED BY <2>1, <2>2 DEF Equipped
<1>6. Numbered'
  BY <1>1, <1>2 DEF IInv, Numbered, tables
<1>7. PromisesWait' /\ SuspiciousCounted' /\ ModulesKept'
  BY <1>1 DEF IInv, PromisesWait, SuspiciousCounted, ModulesKept, tables, history
<1>8. ASSUME Indivisible PROVE ScansBehind' /\ AskedTooEarly'
  BY <1>1, <1>8 DEF IInv, ScansBehind, AskedTooEarly, TypeOK, refs, tables
<1>9. ASSUME Indivisible PROVE NothingMissed'
  BY <1>1, <1>9 DEF IInv, NothingMissed, TypeOK, refs, tables
<1>10. OneAsks'
  BY <1>1 DEF IInv, OneAsks, TypeOK, tables
<1> QED BY <1>10, <1>4, <1>5, <1>6, <1>7, <1>8, <1>9 DEF IInv

-----------------------------------------------------------------------------
(* Filling a ref and counting it.                                           *)

LEMMA FillOK ==
    ASSUME IInv, NEW t \in Threads, Fill(t)
    PROVE  IInv'
<1>1. /\ step[t] = "walked" /\ job[t] \in Refs /\ TypeOK
      /\ resolved' = resolved \cup {job[t]}
      /\ step' = [step EXCEPT ![t] = "bump"]
      /\ UNCHANGED <<target, count, scanAt, tables, defaults, blocks, seen, after,
                     job, made, serial, history>>
  BY DEF IInv, Equipped, EquippedAt, Ahead, Fill, Go
<1>2. TypeOK'
  BY <1>1 DEF TypeOK, Steps, tables, history
<1>3. Equipped'
  BY <1>1 DEF IInv, Equipped, EquippedAt, Ahead, TypeOK
<1>4. Numbered' /\ PromisesWait' /\ SuspiciousCounted' /\ ModulesKept'
  BY <1>1 DEF IInv, Numbered, PromisesWait, SuspiciousCounted, ModulesKept, tables, history
<1>5. ASSUME Indivisible PROVE ScansBehind' /\ AskedTooEarly'
  <2>1. ScansBehind'
    BY <1>1, <1>5 DEF IInv, ScansBehind, TypeOK
  <2>2. AskedTooEarly'
    <3> SUFFICES ASSUME NEW u \in Threads, NEW e \in asked \ found, step'[u] = "ask",
                        e.ref \in resolved', seen[u] = count
                 PROVE  \E v \in Threads : step'[v] \in {"bump", "write"} /\ job'[v] = e.ref
      BY <1>1 DEF AskedTooEarly, tables
    <3>1. CASE e.ref = job[t]
      BY <1>1, <3>1 DEF TypeOK
    <3>2. CASE e.ref \in resolved
      <4>1. step[u] = "ask"
        BY <1>1 DEF TypeOK
      <4>2. PICK v \in Threads : step[v] \in {"bump", "write"} /\ job[v] = e.ref
        BY <1>5, <3>2, <4>1 DEF IInv, AskedTooEarly
      <4> QED BY <1>1, <4>2 DEF TypeOK
    <3> QED BY <1>1, <3>1, <3>2
  <2> QED BY <2>1, <2>2
<1>7. OneAsks'
  BY <1>1 DEF IInv, OneAsks, TypeOK, tables
<1>6. ASSUME Indivisible PROVE NothingMissed'
  <2> SUFFICES ASSUME NEW e \in pending, e.ref \in resolved', scanAt = count
               PROVE  \E u \in Threads : step'[u] \in {"bump", "write"} /\ job'[u] = e.ref
    BY <1>1 DEF NothingMissed, tables
  <2>1. CASE e.ref = job[t]
    BY <1>1, <2>1 DEF TypeOK
  <2>2. CASE e.ref \in resolved
    <3>1. PICK u \in Threads : step[u] \in {"bump", "write"} /\ job[u] = e.ref
      BY <1>6, <2>2 DEF IInv, NothingMissed
    <3> QED BY <1>1, <3>1 DEF TypeOK
  <2> QED BY <1>1, <2>1, <2>2
<1> QED BY <1>2, <1>3, <1>4, <1>5, <1>6, <1>7 DEF IInv

(* While a thread is about to write the count, no other one is.             *)
LEMMA BumpOK ==
    ASSUME IInv, NEW t \in Threads, Bump(t)
    PROVE  IInv'
<1>1. /\ TypeOK /\ step[t] = "bump" /\ job[t] \in Refs
      /\ Indivisible => \A u \in Threads : step[u] # "write"
      /\ step' = [step EXCEPT ![t] = "write"] /\ seen' = [seen EXCEPT ![t] = count]
      /\ UNCHANGED <<refs, count, scanAt, tables, defaults, blocks, after, job, made,
                     serial, history>>
  BY DEF IInv, Equipped, EquippedAt, Ahead, Bump, Go
<1>2. OnlyMoves(t) /\ step'[t] = "write" /\ seen'[t] = count
  BY <1>1 DEF TypeOK, OnlyMoves, Steps
<1>3. TypeOK'
  BY <1>1, <1>2 DEF TypeOK, OnlyMoves, refs, tables, history
<1>4. Equipped'
  <2>1. ASSUME NEW u \in Threads, u # t PROVE EquippedAt(u)'
    BY <1>1, <1>2, <2>1 DEF IInv, Equipped, EquippedAt, Ahead, OnlyMoves
  <2>2. EquippedAt(t)'
    BY <1>1, <1>2 DEF EquippedAt, Ahead
  <2> QED BY <2>1, <2>2 DEF Equipped
<1>5. Numbered' /\ PromisesWait' /\ SuspiciousCounted' /\ ModulesKept'
  BY <1>1 DEF IInv, Numbered, PromisesWait, SuspiciousCounted, ModulesKept, tables, history
<1>7. OneAsks'
  BY <1>1, <1>2 DEF IInv, OneAsks, OnlyMoves, tables
<1>6. ASSUME Indivisible PROVE ScansBehind' /\ AskedTooEarly' /\ NothingMissed'
  <2>1. ScansBehind'
    BY <1>1, <1>2, <1>6 DEF IInv, ScansBehind, OnlyMoves
  <2>3. AskedTooEarly'
    <3> SUFFICES ASSUME NEW u \in Threads, NEW e \in asked \ found, step'[u] = "ask",
                        e.ref \in resolved, seen'[u] = count
                 PROVE  \E v \in Threads : step'[v] \in {"bump", "write"} /\ job'[v] = e.ref
      BY <1>1 DEF AskedTooEarly, tables, refs
    <3>1. u # t /\ step[u] = "ask" /\ seen[u] = count
      BY <1>1, <1>2 DEF OnlyMoves
    <3>2. PICK v \in Threads : step[v] \in {"bump", "write"} /\ job[v] = e.ref
      BY <1>6, <3>1 DEF IInv, AskedTooEarly
    <3> QED BY <1>1, <1>2, <3>2 DEF OnlyMoves
  <2>2. NothingMissed'
    <3> SUFFICES ASSUME NEW e \in pending, e.ref \in resolved, scanAt = count
                 PROVE  \E u \in Threads : step'[u] \in {"bump", "write"} /\ job'[u] = e.ref
      BY <1>1 DEF NothingMissed, refs, tables
    <3>1. PICK u \in Threads : step[u] \in {"bump", "write"} /\ job[u] = e.ref
      BY <1>6 DEF IInv, NothingMissed
    <3> QED BY <1>1, <1>2, <3>1 DEF OnlyMoves
  <2> QED BY <2>1, <2>2, <2>3
<1> QED BY <1>3, <1>4, <1>5, <1>6, <1>7 DEF IInv

(* Once the count is written no scan can have recorded it.                  *)
LEMMA WriteCountOK ==
    ASSUME IInv, NEW t \in Threads, WriteCount(t)
    PROVE  IInv'
<1>1. /\ TypeOK /\ step[t] = "write" /\ Done(t) /\ count' = seen[t] + 1
      /\ UNCHANGED <<refs, scanAt, tables, defaults, blocks, after, serial, history>>
  BY DEF IInv, WriteCount
<1>2. OnlyMoves(t) /\ step'[t] = "idle" /\ count' \in Nat
  BY <1>1 DEF Done, Go, TypeOK, OnlyMoves, Steps
<1>3. TypeOK'
  BY <1>1, <1>2 DEF TypeOK, OnlyMoves, refs, tables, history
<1>4. Equipped'
  <2>1. ASSUME NEW u \in Threads, u # t PROVE EquippedAt(u)'
    BY <1>1, <1>2, <2>1 DEF IInv, Equipped, EquippedAt, Ahead, OnlyMoves
  <2>2. EquippedAt(t)'
    BY <1>2 DEF EquippedAt, Ahead
  <2> QED BY <2>1, <2>2 DEF Equipped
<1>5. Numbered' /\ PromisesWait' /\ SuspiciousCounted' /\ ModulesKept'
  BY <1>1 DEF IInv, Numbered, PromisesWait, SuspiciousCounted, ModulesKept, tables, history
<1>7. OneAsks'
  BY <1>1, <1>2 DEF IInv, OneAsks, OnlyMoves, tables
<1>6. ASSUME Indivisible PROVE ScansBehind' /\ AskedTooEarly' /\ NothingMissed'
  <2>1. /\ ScansBehind /\ count \in Nat /\ scanAt \in Int
        /\ \A u \in Threads : seen[u] \in Nat
    BY <1>1, <1>6 DEF IInv, TypeOK
  <2>2. /\ count' = count + 1 /\ scanAt' = scanAt
        /\ \A u \in Threads : step'[u] # "write"
    BY <1>1, <1>2, <2>1 DEF ScansBehind, OnlyMoves
  <2> QED BY <1>2, <2>1, <2>2 DEF ScansBehind, AskedTooEarly, NothingMissed, OnlyMoves
<1> QED BY <1>3, <1>4, <1>5, <1>6, <1>7 DEF IInv

-----------------------------------------------------------------------------
(* Scans and registrations.                                                 *)

LEMMA AskOK ==
    ASSUME IInv, NEW t \in Threads, Ask(t)
    PROVE  IInv'
<1>1. /\ TypeOK /\ step[t] \in {"scan", "ask"} /\ \A u \in Threads \ {t} : step[u] # "ask"
      /\ step' = [step EXCEPT ![t] = "ask"]
      /\ UNCHANGED <<refs, count, scanAt, declared, imported, pending, fired, dropped,
                     defaults, blocks, seen, after, job, made, serial, history>>
  BY DEF IInv, Ask, Unlocked, Go
<1>2. PICK e \in pending \ asked :
          /\ asked' = asked \cup {e}
          /\ found' = IF e.ref \in resolved THEN found \cup {e} ELSE found
  BY DEF Ask, Earliest
<1>3. TypeOK'
  BY <1>1, <1>2 DEF TypeOK, Steps, refs, history
<1>4. Equipped'
  BY <1>1 DEF IInv, Equipped, EquippedAt, Ahead, TypeOK
<1>5. Numbered' /\ PromisesWait' /\ SuspiciousCounted' /\ ModulesKept'
  BY <1>1 DEF IInv, Numbered, PromisesWait, SuspiciousCounted, ModulesKept, history
<1>6. OneAsks'
  BY <1>1 DEF OneAsks, TypeOK
<1>7. ASSUME Indivisible PROVE ScansBehind' /\ AskedTooEarly' /\ NothingMissed'
  <2>1. ScansBehind'
    BY <1>1, <1>7 DEF IInv, ScansBehind, TypeOK
  <2>2. NothingMissed'
    BY <1>1, <1>7 DEF IInv, NothingMissed, TypeOK, refs
  <2>3. AskedTooEarly'
    <3> SUFFICES ASSUME NEW u \in Threads, NEW f \in asked' \ found', step'[u] = "ask",
                        f.ref \in resolved, seen[u] = count
                 PROVE  \E v \in Threads : step'[v] \in {"bump", "write"} /\ job'[v] = f.ref
      BY <1>1 DEF AskedTooEarly, refs
    <3>1. f \in asked \ found /\ u = t
      BY <1>1, <1>2 DEF TypeOK
    <3>2. step[t] = "ask"
      BY <1>1, <3>1 DEF IInv, OneAsks
    <3>3. PICK v \in Threads : step[v] \in {"bump", "write"} /\ job[v] = f.ref
      BY <1>7, <3>1, <3>2 DEF IInv, AskedTooEarly
    <3> QED BY <1>1, <3>3 DEF TypeOK
  <2> QED BY <2>1, <2>2, <2>3
<1> QED BY <1>3, <1>4, <1>5, <1>6, <1>7 DEF IInv

LEMMA ScanOK ==
    ASSUME IInv, NEW t \in Threads, Scan(t)
    PROVE  IInv'
<1> DEFINE L == {[key |-> target[e.ref], made |-> e.made] : e \in Ready}
<1>1. /\ TypeOK /\ SuspiciousCounted /\ step[t] \in {"scan", "ask"} /\ Land(L)
      /\ \A u \in Threads \ {t} : step[u] # "ask"
      /\ pending' = pending \ Ready /\ asked' = {} /\ found' = {}
      /\ landed' = landed \cup {e.made.serial : e \in Ready}
      /\ scanAt' = seen[t]
      /\ step' = [step EXCEPT ![t] = after[t]]
      /\ seen' = [seen EXCEPT ![t] = 0] /\ after' = [after EXCEPT ![t] = "idle"]
      /\ UNCHANGED <<refs, count, defaults, blocks, job, made, serial, promised, forgotten>>
  BY DEF IInv, Scan, Unlocked, Go
<1>10. Ready \subseteq pending
  BY <1>1 DEF Ready, TypeOK
<1>2. Landing(L)
  <2>1. \A e \in Ready : e.made \in Declaration /\ e.made.serial <= serial
    BY <1>1, <1>10 DEF IInv, Numbered, TypeOK, Pending
  <2>2. \A e \in Ready : e.made.serial <= serial + 1
    BY <1>1, <2>1 DEF TypeOK, Declaration
  <2> QED BY <2>1, <2>2 DEF Landing
<1>3. /\ declared' \in [Keys -> Declaration \cup {None}]
      /\ imported' \in [Keys -> Declaration \cup {None}]
      /\ fired' \in [Classes -> Nat \cup {None}]
      /\ dropped' \subseteq Nat
      /\ SuspiciousCounted'
      /\ \A k \in Keys : imported'[k] # None => declared'[k] # None
  <2>1. \A k \in Keys : imported[k] # None => declared[k] # None
    BY DEF IInv, ModulesKept
  <2> HIDE DEF L
  <2> QED BY <1>1, <1>2, <2>1, LandOK
<1> HIDE DEF L
<1>4. TypeOK'
  <2>1. landed' \subseteq Nat
    <3>1. \A e \in Ready : e.made.serial \in Nat
      BY <1>1, <1>10 DEF TypeOK, Pending, Declaration
    <3> QED BY <1>1, <3>1 DEF TypeOK
  <2> QED BY <1>1, <1>3, <2>1 DEF TypeOK, Steps, refs
<1>5. Equipped'
  <2>1. ASSUME NEW u \in Threads, u # t PROVE EquippedAt(u)'
    BY <1>1, <2>1 DEF IInv, Equipped, EquippedAt, Ahead, TypeOK
  <2>2. Ahead(t)' = Ahead(t) /\ EquippedAt(t)
    BY <1>1 DEF IInv, Equipped, EquippedAt, Ahead, TypeOK
  <2>3. EquippedAt(t)'
    BY <1>1, <2>2 DEF EquippedAt
  <2> QED BY <2>1, <2>3 DEF Equipped
<1>6. Numbered'
  BY <1>1 DEF IInv, Numbered
<1>7. PromisesWait'
  BY <1>1 DEF IInv, PromisesWait
<1>8. ModulesKept'
  BY <1>1, <1>3 DEF IInv, ModulesKept
<1>11. after[t] \notin {"write", "ask"} /\ OneAsks' /\ AskedTooEarly'
  <2>1. after[t] \notin {"write", "ask"}
    BY <1>1 DEF IInv, Equipped, EquippedAt
  <2> QED BY <1>1, <2>1 DEF OneAsks, AskedTooEarly, TypeOK
<1>9. ASSUME Indivisible PROVE ScansBehind' /\ NothingMissed'
  <2>1. ScansBehind'
    <3>1. ScansBehind /\ after[t] # "write" /\ after[t] # "scan"
      BY <1>1, <1>9 DEF IInv, Equipped, EquippedAt
    <3> QED BY <1>1, <3>1 DEF ScansBehind, TypeOK
  <2>2. NothingMissed'
    <3> SUFFICES ASSUME NEW e \in pending', e.ref \in resolved, seen[t] = count
                 PROVE  \E u \in Threads : step'[u] \in {"bump", "write"} /\ job'[u] = e.ref
      BY <1>1 DEF NothingMissed, refs
    <3>1. e \in asked \ found /\ step[t] = "ask"
      <4>1. e \in asked \ found
        BY <1>1 DEF Ready
      <4> QED BY <1>1, <4>1 DEF IInv, OneAsks
    <3>2. PICK u \in Threads : step[u] \in {"bump", "write"} /\ job[u] = e.ref
      BY <1>9, <3>1 DEF IInv, AskedTooEarly
    <3> QED BY <1>1, <3>2 DEF TypeOK
  <2> QED BY <2>1, <2>2
<1> QED BY <1>3, <1>4, <1>5, <1>6, <1>7, <1>8, <1>9, <1>11 DEF IInv

LEMMA RegisterOK ==
    ASSUME IInv, NEW t \in Threads, Register(t)
    PROVE  IInv'
<1> DEFINE d == [made[t] EXCEPT !.serial = serial + 1]
           L == {[key |-> job[t], made |-> d]}
<1>1. /\ TypeOK /\ SuspiciousCounted /\ step[t] = "register"
      /\ job[t] \in Keys \cup Refs /\ made[t] \in Declaration
      /\ serial' = serial + 1 /\ Done(t)
      /\ UNCHANGED <<refs, count, asked, found, defaults, blocks, after, landed, forgotten>>
  BY DEF IInv, Equipped, EquippedAt, Ahead, Register
<1>14. asked = {} /\ found = {} /\ \A u \in Threads : step[u] # "ask"
  <2>1. \A u \in Threads : step[u] # "ask"
    BY <1>1 DEF Register, Unlocked
  <2> QED BY <1>1, <2>1 DEF IInv, OneAsks, TypeOK
<1>2. d \in Declaration /\ d.serial = serial + 1 /\ d.imported = made[t].imported
      /\ serial \in Nat
  <2>1. serial \in Nat /\ serial + 1 \in Nat
    BY <1>1 DEF TypeOK
  <2> QED BY <1>1, <2>1 DEF Declaration
<1>3. \/ /\ job[t] \in Refs
         /\ pending' = pending \cup {[ref |-> job[t], made |-> d]}
         /\ scanAt' = -1
         /\ promised' = promised \cup (IF d.imported THEN {d.serial} ELSE {})
         /\ UNCHANGED <<declared, imported, fired, dropped>>
      \/ /\ job[t] \notin Refs /\ Land(L)
         /\ UNCHANGED <<pending, scanAt, promised>>
  BY DEF Register
<1> HIDE DEF d
<1>4. /\ declared' \in [Keys -> Declaration \cup {None}]
      /\ imported' \in [Keys -> Declaration \cup {None}]
      /\ fired' \in [Classes -> Nat \cup {None}]
      /\ dropped' \subseteq Nat
      /\ SuspiciousCounted'
      /\ \A k \in Keys : imported'[k] # None => declared'[k] # None
  <2>1. \A k \in Keys : imported[k] # None => declared[k] # None
    BY DEF IInv, ModulesKept
  <2>2. CASE job[t] \in Refs
    <3>1. UNCHANGED <<declared, imported, fired, dropped>>
      BY <1>3, <2>2
    <3> QED BY <1>1, <2>1, <3>1 DEF TypeOK, SuspiciousCounted
  <2>3. CASE job[t] \notin Refs
    <3>1. Landing(L)
      BY <1>2 DEF Landing
    <3>2. Land(L)
      BY <1>3, <2>3
    <3> HIDE DEF L
    <3> QED BY <1>1, <2>1, <3>1, <3>2, LandOK
  <2> QED BY <2>2, <2>3
<1> HIDE DEF L
<1>5. /\ pending' \subseteq Pending /\ scanAt' \in Int /\ promised' \subseteq Nat
      /\ pending \subseteq pending'
      /\ \A e \in pending' : e \in pending \/ e.made = d
      /\ \A s \in promised' : \/ s \in promised
                             \/ \E e \in pending' : e.made.serial = s /\ e.made.imported
      /\ (\E e \in pending' : e \notin pending) => scanAt' = -1
      /\ scanAt' \in {scanAt, -1}
  <2>1. CASE job[t] \in Refs
    <3>1. [ref |-> job[t], made |-> d] \in Pending
      BY <1>2, <2>1 DEF Pending
    <3>2. serial + 1 \in Nat
      BY <1>2
    <3> DEFINE new == [ref |-> job[t], made |-> d]
    <3>3. /\ new.made = d /\ pending' = pending \cup {new} /\ scanAt' = -1
          /\ promised' = promised \cup (IF d.imported THEN {d.serial} ELSE {})
      BY <1>3, <2>1
    <3> HIDE DEF new
    <3>4. /\ pending' \subseteq Pending /\ scanAt' \in Int /\ promised' \subseteq Nat
          /\ pending \subseteq pending' /\ scanAt' \in {scanAt, -1}
      BY <1>1, <1>2, <3>1, <3>2, <3>3 DEF TypeOK, new
    <3>5. \A e \in pending' : e \in pending \/ e.made = d
      BY <3>3
    <3>6. \A s \in promised' : \/ s \in promised
                             \/ \E e \in pending' : e.made.serial = s /\ e.made.imported
      BY <1>2, <3>3
    <3> QED BY <3>3, <3>4, <3>5, <3>6
  <2>2. CASE job[t] \notin Refs
    BY <1>1, <1>3, <2>2 DEF TypeOK
  <2> QED BY <2>1, <2>2
<1>6. /\ OnlyMoves(t) /\ step'[t] = "idle"
  BY <1>1 DEF Done, Go, OnlyMoves, TypeOK, Steps
<1>7. TypeOK'
  BY <1>1, <1>2, <1>4, <1>5, <1>6, <1>14 DEF TypeOK, OnlyMoves, refs
<1>15. OneAsks' /\ AskedTooEarly'
  BY <1>1, <1>6, <1>14 DEF OneAsks, AskedTooEarly, OnlyMoves
<1>8. Equipped'
  <2>1. ASSUME NEW u \in Threads, u # t PROVE EquippedAt(u)'
    BY <1>1, <1>6, <2>1 DEF IInv, Equipped, EquippedAt, Ahead, OnlyMoves
  <2>2. EquippedAt(t)'
    BY <1>6 DEF EquippedAt, Ahead
  <2> QED BY <2>1, <2>2 DEF Equipped
<1>9. Numbered'
  <2>1. \A e \in pending : e.made.serial \in Nat /\ e.made.serial <= serial
    BY <1>1 DEF IInv, Numbered, TypeOK, Pending, Declaration
  <2>2. \A e \in pending' : e.made.serial <= serial'
    BY <1>1, <1>2, <1>5, <2>1
  <2>3. ASSUME NEW i \in 1..Len(blocks), NEW e \in blocks[i].pending
        PROVE  e.made.serial <= serial'
    <3>1. blocks[i] \in Saved /\ e.made.serial <= serial
      BY <1>1 DEF IInv, Numbered, TypeOK
    <3>2. e.made.serial \in Nat
      BY <3>1 DEF Saved, Pending, Declaration
    <3> QED BY <1>1, <1>2, <3>1, <3>2
  <2> QED BY <1>1, <2>2, <2>3 DEF Numbered
<1>10. PromisesWait'
  BY <1>1, <1>5 DEF IInv, PromisesWait
<1>11. ModulesKept'
  BY <1>4, <1>10 DEF ModulesKept, PromisesWait
<1>12. ASSUME Indivisible PROVE ScansBehind'
  <2>1. ScansBehind /\ scanAt' <= count'
    BY <1>1, <1>5, <1>12 DEF IInv, ScansBehind, TypeOK
  <2> QED BY <1>1, <1>6, <2>1 DEF ScansBehind, OnlyMoves
<1>13. ASSUME Indivisible PROVE NothingMissed'
  <2> SUFFICES ASSUME NEW e \in pending', e.ref \in resolved, scanAt' = count
               PROVE  \E u \in Threads : step'[u] \in {"bump", "write"} /\ job'[u] = e.ref
    BY <1>1 DEF NothingMissed, refs
  <2>1. count # -1 /\ e \in pending /\ scanAt = count
    BY <1>1, <1>5 DEF TypeOK
  <2>2. PICK u \in Threads : step[u] \in {"bump", "write"} /\ job[u] = e.ref
    BY <1>13, <2>1 DEF IInv, NothingMissed
  <2> QED BY <1>1, <1>6, <2>2 DEF OnlyMoves
<1> QED BY <1>4, <1>7, <1>8, <1>9, <1>10, <1>11, <1>12, <1>13, <1>15 DEF IInv

LEMMA WriteCounterOK ==
    ASSUME IInv, NEW t \in Threads, WriteCounter(t)
    PROVE  IInv'
<1>1. /\ TypeOK /\ step[t] = "store" /\ job[t] \in Classes /\ Done(t)
      /\ fired' = [fired EXCEPT ![job[t]] = seen[t] + 1]
      /\ UNCHANGED <<refs, count, scanAt, declared, imported, pending, dropped, asked,
                     found, defaults, blocks, after, serial, history>>
  BY DEF IInv, Equipped, EquippedAt, Ahead, WriteCounter
<1>2. OnlyMoves(t) /\ step'[t] = "idle"
  BY <1>1 DEF Done, Go, OnlyMoves, TypeOK, Steps
<1>3. /\ fired' \in [Classes -> Nat \cup {None}]
      /\ \A k \in Classes : fired[k] # None => fired'[k] # None
  BY <1>1, NoneAssumption DEF TypeOK
<1>4. TypeOK'
  BY <1>1, <1>2, <1>3 DEF TypeOK, OnlyMoves, refs, history
<1>5. Equipped'
  <2>1. ASSUME NEW u \in Threads, u # t PROVE EquippedAt(u)'
    BY <1>1, <1>2, <2>1 DEF IInv, Equipped, EquippedAt, Ahead, OnlyMoves
  <2>2. EquippedAt(t)'
    BY <1>2 DEF EquippedAt, Ahead
  <2> QED BY <2>1, <2>2 DEF Equipped
<1>6. Numbered' /\ PromisesWait' /\ ModulesKept'
  BY <1>1 DEF IInv, Numbered, PromisesWait, ModulesKept, history
<1>7. SuspiciousCounted'
  BY <1>1, <1>3 DEF IInv, SuspiciousCounted
<1>8. ASSUME Indivisible PROVE ScansBehind' /\ AskedTooEarly'
  BY <1>1, <1>2, <1>8 DEF IInv, ScansBehind, AskedTooEarly, OnlyMoves, refs
<1>10. OneAsks'
  BY <1>1, <1>2 DEF IInv, OneAsks, OnlyMoves
<1>9. ASSUME Indivisible PROVE NothingMissed'
  <2> SUFFICES ASSUME NEW e \in pending, e.ref \in resolved, scanAt = count
               PROVE  \E u \in Threads : step'[u] \in {"bump", "write"} /\ job'[u] = e.ref
    BY <1>1 DEF NothingMissed, refs
  <2>1. PICK u \in Threads : step[u] \in {"bump", "write"} /\ job[u] = e.ref
    BY <1>9 DEF IInv, NothingMissed
  <2> QED BY <1>1, <1>2, <2>1 DEF OnlyMoves
<1> QED BY <1>4, <1>5, <1>6, <1>7, <1>8, <1>9, <1>10 DEF IInv

-----------------------------------------------------------------------------

LEMMA InitOK == Init => IInv
<1> SUFFICES ASSUME Init PROVE IInv
  OBVIOUS
<1>1. TypeOK
  BY DEF Init, TypeOK, Steps
<1>2. Equipped
  BY DEF Init, Equipped, EquippedAt, Ahead
<1>3. Numbered /\ PromisesWait /\ SuspiciousCounted /\ ModulesKept
  BY DEF Init, Numbered, PromisesWait, SuspiciousCounted, ModulesKept, Keys
<1>4. OneAsks /\ ScansBehind /\ AskedTooEarly /\ NothingMissed
  BY DEF Init, OneAsks, ScansBehind, AskedTooEarly, NothingMissed
<1> QED BY <1>1, <1>2, <1>3, <1>4 DEF IInv

LEMMA NextOK == IInv /\ [Next]_vars => IInv'
<1> SUFFICES ASSUME IInv, [Next]_vars PROVE IInv'
  OBVIOUS
<1>1. ASSUME NEW t \in Threads,
             \/ ReadCatalogue(t) \/ Ask(t) \/ Scan(t) \/ Register(t)
             \/ Fill(t) \/ Bump(t) \/ WriteCount(t)
             \/ ReadCounter(t) \/ WriteCounter(t)
      PROVE  IInv'
  BY <1>1, ReadCatalogueOK, AskOK, ScanOK, RegisterOK, FillOK, BumpOK, WriteCountOK,
     ReadCounterOK, WriteCounterOK
<1>2. ASSUME NEW t \in Threads,
             \/ \E x \in Keys \cup Refs, m, i \in BOOLEAN : Declare(t, x, m, i)
             \/ \E r \in Refs : Walk(t, r)
             \/ \E k \in Classes : FallBack(t, k)
      PROVE  IInv'
  BY <1>2, DeclareOK, WalkOK, FallBackOK
<1>3. ASSUME NEW t \in Threads, NEW k \in Classes, NEW f \in Factories \cup {None},
             SetDefault(t, k, f)
      PROVE  IInv'
  BY <1>3, DefaultsOK
<1>4. CASE Isolating
  BY <1>4, IsolateEnterOK, RestoreOK, ReabsorbOK, DefaultsOK, UpdateDefaultsOK
     DEF Isolating
<1>5. CASE UNCHANGED vars
  <2>1. TypeOK'
    BY <1>5 DEF IInv, TypeOK, vars, tables, local, history, refs
  <2>2. Equipped' /\ Numbered'
    BY <1>5 DEF IInv, Equipped, EquippedAt, Ahead, Numbered, vars, tables, local
  <2>3. PromisesWait' /\ SuspiciousCounted' /\ ModulesKept'
    BY <1>5 DEF IInv, PromisesWait, SuspiciousCounted, ModulesKept, vars, tables, history
  <2>4. ASSUME Indivisible PROVE ScansBehind' /\ AskedTooEarly' /\ NothingMissed'
    BY <1>5, <2>4 DEF IInv, ScansBehind, AskedTooEarly, NothingMissed, vars, tables, local, refs
  <2>5. OneAsks'
    BY <1>5 DEF IInv, OneAsks, vars, tables, local
  <2> QED BY <2>1, <2>2, <2>3, <2>4, <2>5 DEF IInv
<1> QED BY <1>1, <1>2, <1>3, <1>4, <1>5 DEF Next

(* IInv holds in every state.                                               *)
THEOREM Inductive == Spec => []IInv
BY InitOK, NextOK, PTL DEF Spec

(* Every table keeps its shape: a declaration is never half written, and a  *)
(* thread between two steps has what the next one works on.                 *)
THEOREM TypeCorrect == Spec => []TypeOK
<1>1. IInv => TypeOK
  BY DEF IInv
<1> QED BY <1>1, Inductive, PTL

(* While no two `count += 1' overlap, no declaration is left behind a scan: *)
(* once its ref has resolved the next read of the catalogue lands it        *)
(* (_declare.py:228-231).                                                   *)
THEOREM NeverMissed == ASSUME Indivisible PROVE Spec => []NothingMissed
<1>1. IInv => NothingMissed
  BY DEF IInv
<1> QED BY <1>1, Inductive, PTL

(* A class declared suspicious has a counter through redeclarations, scans, *)
(* firings and rollbacks, so the gate of the miss path lets none by.        *)
THEOREM AlwaysCounted == Spec => []SuspiciousCounted
<1>1. IInv => SuspiciousCounted
  BY DEF IInv
<1> QED BY <1>1, Inductive, PTL

(* No block takes a key a module's body declared out of the catalogue, the  *)
(* declaration under it being that one or another, and what a module        *)
(* declared through a ref waits until it lands.                             *)
THEOREM ModulesStay == Spec => []ModulesKept
<1>1. IInv => ModulesKept
  BY DEF IInv
<1> QED BY <1>1, Inductive, PTL

-----------------------------------------------------------------------------
(* What a block made is forgotten, and what landed does not land again.     *)

\* The declarations a table holds, and those a waiting list does.
Told(table) == {table[k] : k \in {j \in Keys : table[j] # None}}
Waiting(P) == {e.made : e \in P}

\* What one isolate() block can still bring back.
Kept(b) == Told(b.declared) \cup Waiting(b.pending)

\* Every declaration some later step can still put into the catalogue.
Around == Told(declared) \cup Told(imported) \cup Waiting(pending)
              \cup UNION {Kept(blocks[i]) : i \in 1..Len(blocks)}

\* A serial tells whether a module made the declaration, and what was rolled back is
\* nowhere around.
Remembered ==
    /\ \A d, c \in Around : d.serial = c.serial => d.imported = c.imported
    /\ \A d \in Told(imported) : d.imported
    /\ \A d \in Around : d.serial <= serial /\ d.serial \notin forgotten
    /\ \A s \in forgotten : s <= serial

\* What a block saved was declared by then, and blocks nest.
SavedInOrder ==
    \A i \in 1..Len(blocks) :
        /\ blocks[i].serial <= serial
        /\ \A d \in Kept(blocks[i]) : d.serial <= blocks[i].serial
        /\ \A j \in i..Len(blocks) : blocks[i].serial <= blocks[j].serial

\* What waits, or waited when a block began.
EverWaiting == pending \cup UNION {blocks[i].pending : i \in 1..Len(blocks)}

\* Whatever landed and is to wait again has a ref that resolved, and between the end of
\* a block and the scan it forces only; no scan is told `not yet' of it.
Relanding ==
    /\ \A e, f \in EverWaiting : e.made.serial = f.made.serial => e = f
    /\ \A e \in EverWaiting : e.made.serial \in landed => e.ref \in resolved
    /\ \A s \in landed : s <= serial
    /\ (\E e \in pending : e.made.serial \in landed) =>
           \/ step[Main] = "restored" /\ scanAt = -1
           \/ step[Main] \in {"scan", "ask"} /\ after[Main] = "clear"
    /\ \A e \in found : e.ref \in resolved
    /\ \A e \in asked \ found : e.made.serial \notin landed

\* The second inductive invariant: what was rolled back or landed stays so.
HInv == IInv /\ Remembered /\ SavedInOrder /\ Relanding

LEMMA AroundTyped == TypeOK => Around \subseteq Declaration
<1> SUFFICES ASSUME TypeOK, NEW d \in Around PROVE d \in Declaration OBVIOUS
<1>1. Told(declared) \subseteq Declaration /\ Told(imported) \subseteq Declaration
      /\ Waiting(pending) \subseteq Declaration
  BY DEF TypeOK, Told, Waiting, Pending
<1>2. ASSUME NEW i \in 1..Len(blocks) PROVE Kept(blocks[i]) \subseteq Declaration
  <2>1. blocks[i] \in Saved BY DEF TypeOK
  <2>2. QED BY <2>1 DEF Saved, Kept, Told, Waiting, Pending
<1>3. QED BY <1>1, <1>2 DEF Around

LEMMA AroundTypedNext == TypeOK' => (Around \subseteq Declaration)'
BY AroundTyped, PTL

\* As long as everything around stands for something that was, or for the one
\* declaration just made, the past stays past.
LEMMA GrowsOK ==
    ASSUME HInv, TypeOK', UNCHANGED <<blocks, forgotten>>, serial' \in {serial, serial + 1},
           NEW flag \in BOOLEAN,
           \A d \in Around' :
               \/ \E c \in Around : d.serial = c.serial /\ d.imported = c.imported
               \/ serial' = serial + 1 /\ d.serial = serial' /\ d.imported = flag,
           \A d \in Told(imported') : d.imported
    PROVE  Remembered' /\ SavedInOrder'
<1>1. serial \in Nat /\ serial' \in Nat /\ forgotten \subseteq Nat /\ Around \subseteq Declaration
      /\ Around' \subseteq Declaration
  BY AroundTyped, AroundTypedNext DEF HInv, IInv, TypeOK
<1>2. \A d \in Around : d.serial \in Nat /\ d.serial <= serial
  BY <1>1 DEF HInv, Remembered, Declaration
<1>3. Remembered'
  <2>1. ASSUME NEW d \in Around', NEW c \in Around', d.serial = c.serial
        PROVE  d.imported = c.imported
    <3> DEFINE Old(x) == \E y \in Around : x.serial = y.serial /\ x.imported = y.imported
               New(x) == serial' = serial + 1 /\ x.serial = serial' /\ x.imported = flag
    <3>1. CASE Old(d) /\ Old(c)
      <4>1. PICK x \in Around : d.serial = x.serial /\ d.imported = x.imported BY <3>1
      <4>2. PICK y \in Around : c.serial = y.serial /\ c.imported = y.imported BY <3>1
      <4>3. x.serial = y.serial BY <2>1, <4>1, <4>2
      <4>4. x.imported = y.imported BY <4>3 DEF HInv, Remembered
      <4>5. QED BY <4>1, <4>2, <4>4
    <3>2. CASE New(d) /\ New(c) BY <3>2
    <3>3. ASSUME NEW x \in Around', NEW y \in Around', x.serial = y.serial PROVE ~(Old(x) /\ New(y))
      BY <1>1, <1>2, <3>3
    <3>4. QED BY <2>1, <3>1, <3>2, <3>3
  <2>2. ASSUME NEW d \in Around' PROVE d.serial <= serial' /\ d.serial \notin forgotten'
    <3>1. CASE \E c \in Around : d.serial = c.serial /\ d.imported = c.imported
      BY <1>1, <1>2, <3>1 DEF HInv, Remembered
    <3>2. CASE serial' = serial + 1 /\ d.serial = serial'
      BY <1>1, <3>2 DEF HInv, Remembered
    <3>3. QED BY <3>1, <3>2
  <2>3. \A s \in forgotten' : s <= serial' BY <1>1 DEF HInv, Remembered
  <2>4. QED BY <2>1, <2>2, <2>3 DEF Remembered
<1>4. SavedInOrder'
  <2>1. blocks \in Seq(Saved) BY DEF HInv, IInv, TypeOK
  <2>2. ASSUME NEW i \in 1..Len(blocks) PROVE blocks[i].serial \in Nat
    <3>1. blocks[i] \in Saved BY <2>1
    <3>2. QED BY <3>1 DEF Saved
  <2>3. QED BY <1>1, <2>2 DEF HInv, SavedInOrder
<1>5. QED BY <1>3, <1>4

\* No new declaration and no forgetting.
LEMMA SameAroundOK ==
    ASSUME HInv, TypeOK', UNCHANGED <<declared, imported, pending, blocks, serial, forgotten>>
    PROVE  Remembered' /\ SavedInOrder'
<1>1. Around' = Around BY DEF Around
<1>2. \A d \in Told(imported') : d.imported BY DEF HInv, Remembered
<1>3. QED BY <1>1, <1>2, GrowsOK

\* What lands stands for what is made to land.
LEMMA LandStandsFor ==
    ASSUME TypeOK, NEW L, Landing(L), Land(L)
    PROVE  /\ \A d \in Told(declared') :
                  \/ d \in Told(declared)
                  \/ \E x \in L : d.serial = x.made.serial /\ d.imported = x.made.imported
           /\ \A d \in Told(imported') :
                  \/ d \in Told(imported)
                  \/ /\ \E x \in L : d.serial = x.made.serial /\ d.imported = x.made.imported
                     /\ d.imported
<1>1. serial \in Nat BY DEF TypeOK
<1>2. ASSUME NEW k \in Keys, NEW d \in Declaration
      PROVE  Recorded(k, d).serial = d.serial /\ Recorded(k, d).imported = d.imported
  BY DEF Recorded, Declaration
<1>3. ASSUME NEW d \in Told(declared')
      PROVE  \/ d \in Told(declared)
             \/ \E x \in L : d.serial = x.made.serial /\ d.imported = x.made.imported
  <2>1. PICK k \in Keys : d = declared'[k] /\ d # None BY DEF Told
  <2>2. CASE For(L, k) = {} BY <2>1, <2>2 DEF Land, Told
  <2>3. CASE For(L, k) # {}
    <3>1. d = Recorded(k, Latest(For(L, k))) BY <2>1, <2>3 DEF Land
    <3>2. Latest(For(L, k)) \in For(L, k) /\ Latest(For(L, k)) \in Declaration
      BY <1>1, <2>3, LatestLands
    <3>3. QED BY <1>2, <3>1, <3>2 DEF For
  <2>4. QED BY <2>2, <2>3
<1>4. ASSUME NEW d \in Told(imported')
      PROVE  \/ d \in Told(imported)
             \/ /\ \E x \in L : d.serial = x.made.serial /\ d.imported = x.made.imported
                /\ d.imported
  <2>1. PICK k \in Keys : d = imported'[k] /\ d # None BY DEF Told
  <2> DEFINE D == {c \in For(L, k) : c.imported}
  <2>2. CASE D = {} BY <2>1, <2>2 DEF Land, Told
  <2>3. CASE D # {}
    <3>1. d = Recorded(k, Latest(D)) BY <2>1, <2>3 DEF Land
    <3>2. D \in SUBSET For(L, k) /\ \A c \in D : c.imported OBVIOUS
    <3> HIDE DEF D
    <3>3. Latest(D) \in D /\ Latest(D) \in Declaration BY <1>1, <2>3, <3>2, LatestLands
    <3>4. QED BY <1>2, <3>1, <3>2, <3>3 DEF For
  <2>4. QED BY <2>2, <2>3
<1>5. QED BY <1>3, <1>4

\* A step that moves no declaration, of a thread not about to scan what a block put back.
LEMMA QuietOK ==
    ASSUME HInv, IInv', NEW t \in Threads,
           step[t] \notin {"restored", "scan", "ask"},
           \A u \in Threads \ {t} : step'[u] = step[u] /\ after'[u] = after[u],
           resolved \subseteq resolved',
           UNCHANGED <<declared, imported, pending, asked, found, blocks, serial, landed,
                       forgotten, scanAt>>
    PROVE  HInv'
<1>1. Remembered' /\ SavedInOrder' BY SameAroundOK DEF IInv
<1>2. Relanding'
  <2>1. EverWaiting' = EverWaiting BY DEF EverWaiting
  <2>2. ASSUME \E e \in pending : e.made.serial \in landed
        PROVE  \/ step'[Main] = "restored" /\ scanAt' = -1
               \/ step'[Main] \in {"scan", "ask"} /\ after'[Main] = "clear"
    <3>1. \/ step[Main] = "restored" /\ scanAt = -1
          \/ step[Main] \in {"scan", "ask"} /\ after[Main] = "clear"
      BY <2>2 DEF HInv, Relanding
    <3>2. Main # t /\ Main \in Threads BY <3>1, MainAssumption
    <3>3. QED BY <3>1, <3>2
  <2>3. QED BY <2>1, <2>2 DEF HInv, Relanding
<1>3. QED BY <1>1, <1>2 DEF HInv

LEMMA QuietStepsOK ==
    ASSUME HInv, IInv', NEW t \in Threads,
           \/ ReadCatalogue(t) \/ Fill(t) \/ Bump(t) \/ WriteCount(t)
           \/ ReadCounter(t) \/ WriteCounter(t)
           \/ \E x \in Keys \cup Refs, m, i \in BOOLEAN : Declare(t, x, m, i)
           \/ \E r \in Refs : Walk(t, r)
           \/ \E k \in Classes :
                  FallBack(t, k) \/ \E f \in Factories \cup {None} : SetDefault(t, k, f)
    PROVE  HInv'
<1>1. step \in [Threads -> Steps] /\ after \in [Threads -> Steps] BY DEF HInv, IInv, TypeOK
<1> USE DEF Absorb, Done, Go, tables, local, history, refs
<1>2. CASE \/ ReadCatalogue(t)
           \/ \E x \in Keys \cup Refs, m, i \in BOOLEAN : Declare(t, x, m, i)
           \/ \E k \in Classes : FallBack(t, k)
  BY <1>1, <1>2, QuietOK DEF ReadCatalogue, Declare, FallBack
<1>3. CASE Fill(t) \/ Bump(t) \/ WriteCount(t)
  BY <1>1, <1>3, QuietOK DEF Fill, Bump, WriteCount
<1>4. CASE ReadCounter(t) \/ WriteCounter(t)
  BY <1>1, <1>4, QuietOK DEF ReadCounter, WriteCounter
<1>5. CASE \E r \in Refs : Walk(t, r) BY <1>1, <1>5, QuietOK DEF Walk
<1>6. CASE \E k \in Classes, f \in Factories \cup {None} : SetDefault(t, k, f)
  BY <1>1, <1>6, QuietOK DEF SetDefault
<1>7. QED BY <1>2, <1>3, <1>4, <1>5, <1>6

LEMMA ClearDefaultsQuiet == ASSUME HInv, IInv', ClearDefaults PROVE HInv'
<1>1. step \in [Threads -> Steps] /\ after \in [Threads -> Steps] /\ Main \in Threads
  BY MainAssumption DEF HInv, IInv, TypeOK
<1>2. QED BY <1>1, QuietOK DEF ClearDefaults, Go, tables, history, refs

\* A scan lands what waited: nothing that landed waits any more.
\* What landed and waits again has a ref that resolved, so a scan finds it.
LEMMA AskRemembers == ASSUME HInv, IInv', NEW t \in Threads, Ask(t) PROVE HInv'
<1>1. /\ step[t] \in {"scan", "ask"} /\ step' = [step EXCEPT ![t] = "ask"]
      /\ step \in [Threads -> Steps]
      /\ UNCHANGED <<refs, scanAt, declared, imported, pending, blocks, after, serial, history>>
  BY DEF HInv, IInv, TypeOK, Ask, Go
<1>2. PICK e \in pending :
          /\ asked' = asked \cup {e}
          /\ found' = IF e.ref \in resolved THEN found \cup {e} ELSE found
  BY DEF Ask, Earliest
<1>3. Remembered' /\ SavedInOrder' BY <1>1, SameAroundOK DEF IInv, history
<1>4. Relanding'
  <2>1. EverWaiting' = EverWaiting /\ e \in EverWaiting BY <1>1 DEF EverWaiting
  <2>2. \A f \in found' : f.ref \in resolved BY <1>2 DEF HInv, Relanding
  <2>3. \A f \in asked' \ found' : f.made.serial \notin landed
    BY <1>2, <2>1 DEF HInv, Relanding
  <2>4. Main \in Threads BY MainAssumption
  <2>5. QED BY <1>1, <2>1, <2>2, <2>3, <2>4 DEF HInv, Relanding, refs, history
<1>5. QED BY <1>3, <1>4 DEF HInv

LEMMA ScanRemembers == ASSUME HInv, IInv', NEW t \in Threads, Scan(t) PROVE HInv'
<1> DEFINE L == {[key |-> target[e.ref], made |-> e.made] : e \in Ready}
<1>1. /\ TypeOK /\ Land(L)
      /\ pending' = pending \ Ready /\ asked' = {} /\ found' = {}
      /\ landed' = landed \cup {e.made.serial : e \in Ready}
      /\ UNCHANGED <<refs, blocks, serial, forgotten>>
  BY DEF HInv, IInv, Scan
<1>2. Ready \subseteq pending /\ pending \subseteq Pending /\ serial \in Nat
  BY <1>1 DEF Ready, TypeOK
<1>3. Landing(L)
  <2>1. ASSUME NEW e \in Ready PROVE e.made \in Declaration /\ e.made.serial <= serial + 1
    <3>1. e.made \in Declaration /\ e.made.serial <= serial
      BY <1>2 DEF HInv, IInv, Numbered, Pending
    <3>2. QED BY <1>2, <3>1 DEF Declaration
  <2>2. QED BY <2>1 DEF Landing
<1>4. \A x \in L : x.made \in Waiting(pending) BY <1>2 DEF Waiting
<1> HIDE DEF L
<1>5. Remembered' /\ SavedInOrder'
  <2>1. \A d \in Told(declared') \cup Told(imported') :
            \E c \in Around : d.serial = c.serial /\ d.imported = c.imported
    BY <1>1, <1>3, <1>4, LandStandsFor DEF Around
  <2>2. \A d \in Told(imported') : d.imported
    BY <1>1, <1>3, LandStandsFor DEF HInv, Remembered
  <2>3. \A d \in Waiting(pending') \cup UNION {Kept(blocks[i]) : i \in 1..Len(blocks)} : d \in Around
    BY <1>1 DEF Waiting, Around
  <2>4. \A d \in Around' : \E c \in Around : d.serial = c.serial /\ d.imported = c.imported
    BY <1>1, <2>1, <2>3 DEF Around
  <2>5. QED BY <1>1, <2>2, <2>4, GrowsOK DEF IInv
<1>6. Relanding'
  <2>1. EverWaiting' \subseteq EverWaiting /\ Ready \subseteq EverWaiting
    BY <1>1, <1>2 DEF EverWaiting
  <2>2. \A e \in Ready : e.ref \in resolved BY DEF Ready, HInv, Relanding
  <2>3. ASSUME NEW e \in EverWaiting', e.made.serial \in landed' PROVE e.ref \in resolved'
    <3>1. CASE e.made.serial \in landed BY <1>1, <2>1, <3>1 DEF HInv, Relanding, refs
    <3>2. CASE \E f \in Ready : e.made.serial = f.made.serial
      BY <1>1, <2>1, <2>2, <3>2 DEF HInv, Relanding, refs
    <3>3. QED BY <1>1, <2>3, <3>1, <3>2
  <2>4. ASSUME NEW e \in pending' PROVE e.made.serial \notin landed'
    <3>1. e \in EverWaiting' /\ e \in pending /\ e \notin Ready
      BY <1>1 DEF EverWaiting
    <3>2. CASE e.made.serial \in landed
      <4>1. e.ref \in resolved BY <1>1, <2>3, <3>1, <3>2 DEF refs
      <4>2. e \in asked \ found BY <3>1, <4>1 DEF Ready
      <4>3. QED BY <3>2, <4>2 DEF HInv, Relanding
    <3>3. CASE \E f \in Ready : e.made.serial = f.made.serial
      BY <2>1, <3>1, <3>3 DEF HInv, Relanding
    <3>4. QED BY <1>1, <3>2, <3>3
  <2>5. \A s \in landed' : s <= serial'
    <3>1. \A e \in Ready : e.made.serial <= serial BY <1>2 DEF HInv, IInv, Numbered
    <3>2. QED BY <1>1, <3>1 DEF HInv, Relanding
  <2>6. QED BY <1>1, <2>1, <2>3, <2>4, <2>5 DEF HInv, Relanding
<1>7. QED BY <1>5, <1>6 DEF HInv

\* A registration brings one declaration that has not been before.
LEMMA RegisterRemembers == ASSUME HInv, IInv', NEW t \in Threads, Register(t) PROVE HInv'
<1> DEFINE d == [made[t] EXCEPT !.serial = serial + 1]
           L == {[key |-> job[t], made |-> d]}
           new == [ref |-> job[t], made |-> d]
<1>1. /\ TypeOK /\ step[t] = "register" /\ made[t] \in Declaration
      /\ serial' = serial + 1 /\ Done(t) /\ serial \in Nat
      /\ UNCHANGED <<refs, asked, found, blocks, after, landed, forgotten>>
  BY DEF HInv, IInv, TypeOK, Equipped, EquippedAt, Ahead, Register
<1>2. d \in Declaration /\ d.serial = serial + 1 BY <1>1 DEF Declaration
<1>3. \/ pending' = pending \cup {new} /\ scanAt' = -1 /\ UNCHANGED <<declared, imported>>
      \/ Land(L) /\ UNCHANGED <<pending, scanAt>>
  BY DEF Register
<1>4. \A x \in L : x.made = d OBVIOUS
<1>5. new.made = d OBVIOUS
<1> HIDE DEF d
<1>6. Landing(L)
  <2>1. d.serial <= serial + 1 BY <1>1, <1>2
  <2>2. QED BY <1>2, <1>4, <2>1 DEF Landing
<1> HIDE DEF L, new
<1>7. /\ \A c \in Told(declared') : c \in Told(declared) \/ (c.serial = d.serial /\ c.imported = d.imported)
      /\ \A c \in Told(imported') :
            c \in Told(imported) \/ (c.serial = d.serial /\ c.imported = d.imported /\ c.imported)
  BY <1>1, <1>3, <1>4, <1>6, LandStandsFor
<1>8. Remembered' /\ SavedInOrder'
  <2>1. \A c \in Waiting(pending') : c \in Waiting(pending) \/ c = d BY <1>3, <1>5 DEF Waiting
  <2>2. \A c \in Around' : c \in Around \/ (c.serial = d.serial /\ c.imported = d.imported)
    BY <1>1, <1>7, <2>1 DEF Around
  <2>3. \A c \in Told(imported') : c.imported BY <1>7 DEF HInv, Remembered
  <2>4. d.imported \in BOOLEAN BY <1>2 DEF Declaration
  <2>5. \A c \in Around' : \/ \E x \in Around : c.serial = x.serial /\ c.imported = x.imported
                           \/ serial' = serial + 1 /\ c.serial = serial' /\ c.imported = d.imported
    BY <1>1, <1>2, <2>2
  <2>6. QED BY <1>1, <2>3, <2>4, <2>5, GrowsOK DEF IInv
<1>9. Relanding'
  <2>1. \A e \in EverWaiting : e.made.serial \in Nat /\ e.made.serial <= serial
    <3>1. ASSUME NEW e \in pending PROVE e.made.serial \in Nat /\ e.made.serial <= serial
      BY <1>1 DEF HInv, IInv, Numbered, TypeOK, Pending, Declaration
    <3>2. ASSUME NEW i \in 1..Len(blocks), NEW e \in blocks[i].pending
          PROVE  e.made.serial \in Nat /\ e.made.serial <= serial
      <4>1. blocks[i] \in Saved /\ e.made.serial <= serial
        BY <1>1 DEF HInv, IInv, Numbered, TypeOK
      <4>2. QED BY <4>1 DEF Saved, Pending, Declaration
    <3>3. QED BY <3>1, <3>2 DEF EverWaiting
  <2>2. \A e \in EverWaiting' : e \in EverWaiting \/ e = new BY <1>1, <1>3 DEF EverWaiting
  <2>3. \A e, f \in EverWaiting' : e.made.serial = f.made.serial => e = f
    BY <1>1, <1>2, <1>5, <2>1, <2>2 DEF HInv, Relanding
  <2>4. landed \subseteq Nat /\ \A s \in landed : s <= serial
    BY <1>1 DEF HInv, Relanding, TypeOK
  <2>5. d.serial \notin landed BY <1>1, <1>2, <2>4
  <2>6. \A e \in EverWaiting' : e.made.serial \in landed' => e.ref \in resolved'
    BY <1>1, <1>5, <2>2, <2>5 DEF HInv, Relanding, refs
  <2>7. \A s \in landed' : s <= serial' BY <1>1, <2>4
  <2>8. ASSUME NEW e \in pending', e.made.serial \in landed'
        PROVE  \/ step'[Main] = "restored" /\ scanAt' = -1
               \/ step'[Main] \in {"scan", "ask"} /\ after'[Main] = "clear"
    <3>1. e \in pending /\ e.made.serial \in landed BY <1>1, <1>3, <1>5, <2>5, <2>8
    <3>2. \/ step[Main] = "restored" /\ scanAt = -1
          \/ step[Main] \in {"scan", "ask"} /\ after[Main] = "clear"
      BY <3>1 DEF HInv, Relanding
    <3>3. Main # t /\ scanAt' \in {scanAt, -1} BY <1>1, <1>3, <3>2
    <3>4. step'[Main] = step[Main] /\ after'[Main] = after[Main]
      BY <1>1, <3>3, MainAssumption DEF Done, Go, TypeOK
    <3>5. QED BY <3>2, <3>3, <3>4
  <2>9. QED BY <1>1, <2>3, <2>6, <2>7, <2>8 DEF HInv, Relanding, refs
<1>10. QED BY <1>8, <1>9 DEF HInv

\* While the main thread is at rest nothing that landed waits.
LEMMA NoneRelands ==
    ASSUME HInv, step[Main] \notin {"restored", "scan", "ask"}, NEW e \in pending
    PROVE  e.made.serial \notin landed
BY DEF HInv, Relanding

LEMMA IsolateEnterRemembers == ASSUME HInv, IInv', IsolateEnter PROVE HInv'
<1> DEFINE b == [declared |-> declared, pending |-> pending, fired |-> fired,
                 dropped |-> dropped, defaults |-> defaults, serial |-> serial]
<1>1. /\ TypeOK /\ blocks' = Append(blocks, b) /\ step[Main] = "idle"
      /\ UNCHANGED <<refs, scanAt, tables, local, serial, history>>
  BY DEF HInv, IInv, IsolateEnter
<1>2. b \in Saved BY <1>1 DEF TypeOK, Saved
<1>3. b.serial = serial /\ b.pending = pending /\ b.declared = declared OBVIOUS
<1> HIDE DEF b
<1>4. blocks \in Seq(Saved) /\ Len(blocks) \in Nat /\ serial \in Nat BY <1>1 DEF TypeOK
<1>5. /\ Len(blocks') = Len(blocks) + 1 /\ blocks'[Len(blocks) + 1] = b
      /\ \A i \in 1..Len(blocks) : blocks'[i] = blocks[i]
  BY <1>1, <1>2, <1>4
<1>6. Kept(b) \subseteq Around BY <1>3 DEF Kept, Around
<1>7. Around' \subseteq Around
  <2>1. ASSUME NEW i \in 1..Len(blocks') PROVE Kept(blocks'[i]) \subseteq Around
    <3>1. CASE i = Len(blocks) + 1 BY <1>5, <1>6, <3>1
    <3>2. CASE i # Len(blocks) + 1
      <4>1. i \in 1..Len(blocks) BY <1>4, <1>5, <3>2
      <4>2. QED BY <1>5, <4>1 DEF Around
    <3>3. QED BY <3>1, <3>2
  <2>2. Told(declared') \cup Told(imported') \cup Waiting(pending') \subseteq Around
    BY <1>1 DEF Around, tables
  <2>3. QED BY <2>1, <2>2 DEF Around
<1>8. Remembered' BY <1>1, <1>7 DEF HInv, Remembered, tables, history
<1>9. SavedInOrder'
  <2>1. \A d \in Around : d.serial <= serial BY DEF HInv, Remembered
  <2>2. ASSUME NEW i \in 1..Len(blocks')
        PROVE  blocks'[i].serial <= serial /\ \A d \in Kept(blocks'[i]) : d.serial <= blocks'[i].serial
    <3>1. CASE i = Len(blocks) + 1 BY <1>3, <1>4, <1>5, <1>6, <2>1, <3>1
    <3>2. CASE i # Len(blocks) + 1
      <4>1. i \in 1..Len(blocks) BY <1>4, <1>5, <3>2
      <4>2. QED BY <1>5, <4>1 DEF HInv, SavedInOrder
    <3>3. QED BY <3>1, <3>2
  <2>3. ASSUME NEW i \in 1..Len(blocks'), NEW j \in i..Len(blocks')
        PROVE  blocks'[i].serial <= blocks'[j].serial
    <3>1. CASE j = Len(blocks) + 1 BY <1>3, <1>5, <2>2, <3>1
    <3>2. CASE j # Len(blocks) + 1
      <4>1. i \in 1..Len(blocks) /\ j \in i..Len(blocks) BY <1>4, <1>5, <3>2
      <4>2. j \in 1..Len(blocks) BY <4>1
      <4>3. QED BY <1>5, <4>1, <4>2 DEF HInv, SavedInOrder
    <3>3. QED BY <3>1, <3>2
  <2>4. QED BY <1>1, <2>2, <2>3 DEF SavedInOrder
<1>10. Relanding'
  <2>1. EverWaiting' \subseteq EverWaiting
    <3>1. ASSUME NEW i \in 1..Len(blocks') PROVE blocks'[i].pending \subseteq EverWaiting
      <4>1. CASE i = Len(blocks) + 1 BY <1>3, <1>5, <4>1 DEF EverWaiting
      <4>2. CASE i # Len(blocks) + 1
        <5>1. i \in 1..Len(blocks) BY <1>4, <1>5, <4>2
        <5>2. QED BY <1>5, <5>1 DEF EverWaiting
      <4>3. QED BY <4>1, <4>2
    <3>2. QED BY <1>1, <3>1 DEF EverWaiting, tables
  <2>2. \A e \in pending' : e.made.serial \notin landed'
    BY <1>1, NoneRelands DEF tables, history
  <2>3. QED BY <1>1, <2>1, <2>2 DEF HInv, Relanding, refs, tables, history
<1>11. QED BY <1>8, <1>9, <1>10 DEF HInv

\* The end of a block forgets what nobody saved before it began and no module made.
LEMMA RestoreRemembers == ASSUME HInv, IInv', Restore PROVE HInv'
<1>1. /\ TypeOK /\ Main \in Threads /\ step[Main] = "idle" /\ blocks # <<>>
      /\ Innermost \in Saved
      /\ declared' = Merged(Innermost)
      /\ pending' = Innermost.pending \cup {e \in pending : e.made.imported}
      /\ scanAt' = -1 /\ step' = [step EXCEPT ![Main] = "restored"]
      /\ forgotten' = forgotten \cup {d.serial : d \in MadeInside(Innermost)}
      /\ UNCHANGED <<refs, imported, asked, found, blocks, serial, landed>>
  BY MergedOK, MainAssumption DEF HInv, IInv, Restore, Go
<1>2. Len(blocks) \in 1..Len(blocks) /\ Innermost = blocks[Len(blocks)]
  BY <1>1 DEF TypeOK, Innermost
<1>3. MadeInside(Innermost) \subseteq Around BY DEF MadeInside, Around, Told, Waiting
<1>4. \A d \in Told(declared') : d \in Told(Innermost.declared) \cup Told(imported)
  BY <1>1 DEF Told, Merged
<1>5. \A d \in Waiting(pending') :
          d \in Waiting(Innermost.pending) \/ (d \in Waiting(pending) /\ d.imported)
  BY <1>1 DEF Waiting
<1>6. Kept(Innermost) \subseteq Around BY <1>2 DEF Around
<1>7. ASSUME NEW d \in Around'
      PROVE  d \in Around /\ (d.serial <= Innermost.serial \/ d.imported)
  <2>1. CASE d \in Kept(Innermost) BY <1>2, <1>6, <2>1 DEF HInv, SavedInOrder
  <2>2. CASE d \in Told(imported) BY <2>2 DEF HInv, Remembered, Around
  <2>3. CASE d \in Waiting(pending) /\ d.imported BY <2>3 DEF Around
  <2>4. CASE \E i \in 1..Len(blocks) : d \in Kept(blocks[i])
    <3>1. PICK i \in 1..Len(blocks) : d \in Kept(blocks[i]) BY <2>4
    <3>2. blocks[i] \in Saved BY <1>1 DEF TypeOK
    <3>3. Len(blocks) \in i..Len(blocks) BY <1>2
    <3>4. d \in Around /\ d.serial <= blocks[i].serial /\ blocks[i].serial <= Innermost.serial
      BY <1>2, <3>1, <3>3 DEF HInv, SavedInOrder, Around
    <3>5. d.serial \in Nat /\ blocks[i].serial \in Nat /\ Innermost.serial \in Nat
      BY <1>1, <3>2, <3>4, AroundTyped DEF Saved, Declaration
    <3>6. QED BY <3>4, <3>5
  <2>5. QED BY <1>1, <1>4, <1>5, <2>1, <2>2, <2>3, <2>4 DEF Around, Kept
<1>8. Remembered'
  <2>1. ASSUME NEW d \in Around', NEW m \in MadeInside(Innermost) PROVE d.serial # m.serial
    <3>1. m.serial > Innermost.serial /\ ~m.imported BY DEF MadeInside
    <3>2. d \in Declaration /\ m \in Declaration /\ Innermost.serial \in Nat
      BY <1>1, <1>3, <1>7, AroundTyped DEF Saved
    <3>3. d.serial = m.serial => d.imported = m.imported
      BY <1>3, <1>7 DEF HInv, Remembered
    <3>4. QED BY <1>7, <3>1, <3>2, <3>3 DEF Declaration
  <2>2. \A d \in Around' : d.serial \notin forgotten' /\ d.serial <= serial
    BY <1>1, <1>7, <2>1 DEF HInv, Remembered
  <2>3. \A s \in forgotten' : s <= serial BY <1>1, <1>3 DEF HInv, Remembered
  <2>4. \A d, c \in Around' : d.serial = c.serial => d.imported = c.imported
    BY <1>7 DEF HInv, Remembered
  <2>5. QED BY <1>1, <2>2, <2>3, <2>4 DEF HInv, Remembered
<1>9. SavedInOrder' BY <1>1 DEF HInv, SavedInOrder
<1>10. Relanding'
  <2>1. EverWaiting' \subseteq EverWaiting BY <1>1, <1>2 DEF EverWaiting
  <2>2. step'[Main] = "restored" BY <1>1 DEF TypeOK
  <2>3. QED BY <1>1, <2>1, <2>2 DEF HInv, Relanding, refs
<1>11. QED BY <1>8, <1>9, <1>10 DEF HInv

\* What was put back and may have landed already is scanned for at once.
LEMMA ReabsorbRemembers == ASSUME HInv, IInv', Reabsorb PROVE HInv'
<1>1. /\ TypeOK /\ step[Main] = "restored" /\ Absorb(Main, "clear") /\ Main \in Threads
      /\ UNCHANGED <<refs, count, scanAt, tables, blocks, serial, history>>
  BY MainAssumption DEF HInv, IInv, Reabsorb
<1>2. Remembered' /\ SavedInOrder' BY <1>1, SameAroundOK DEF IInv, tables, history
<1>3. ASSUME NEW e \in pending, e.made.serial \in landed
      PROVE  step'[Main] = "scan" /\ after'[Main] = "clear"
  <2>1. scanAt = -1 BY <1>1, <1>3 DEF HInv, Relanding
  <2>2. pending # {} /\ count # scanAt BY <1>1, <1>3, <2>1 DEF TypeOK
  <2>3. QED BY <1>1, <2>2 DEF Absorb, Go, TypeOK
<1>4. EverWaiting' = EverWaiting BY <1>1 DEF EverWaiting, tables
<1>5. Relanding' BY <1>1, <1>3, <1>4 DEF HInv, Relanding, tables, history, refs
<1>6. QED BY <1>2, <1>5 DEF HInv

LEMMA UpdateDefaultsRemembers == ASSUME HInv, IInv', UpdateDefaults PROVE HInv'
<1>1. /\ TypeOK /\ step[Main] = "update" /\ Main \in Threads
      /\ blocks' = SubSeq(blocks, 1, Len(blocks) - 1)
      /\ UNCHANGED <<refs, scanAt, tables, after, serial, history>>
  BY MainAssumption DEF HInv, IInv, UpdateDefaults
<1>2. blocks # <<>> BY <1>1 DEF HInv, IInv, Equipped, EquippedAt, Ahead
<1>3. /\ Len(blocks) \in Nat /\ Len(blocks') \in Nat
      /\ \A i \in 1..Len(blocks') : i \in 1..Len(blocks) /\ blocks'[i] = blocks[i]
  BY <1>1, <1>2 DEF TypeOK
<1>4. Around' \subseteq Around
  <2>1. \A i \in 1..Len(blocks') : Kept(blocks'[i]) \subseteq Around BY <1>3 DEF Around
  <2>2. Told(declared') \cup Told(imported') \cup Waiting(pending') \subseteq Around
    BY <1>1 DEF Around, tables
  <2>3. QED BY <2>1, <2>2 DEF Around
<1>5. Remembered' BY <1>1, <1>4 DEF HInv, Remembered, tables, history
<1>6. SavedInOrder'
  <2>1. \A i \in 1..Len(blocks') : \A j \in i..Len(blocks') :
            j \in i..Len(blocks) /\ j \in 1..Len(blocks') BY <1>3
  <2>2. QED BY <1>1, <1>3, <2>1 DEF HInv, SavedInOrder
<1>7. Relanding'
  <2>1. EverWaiting' \subseteq EverWaiting
    <3>1. \A i \in 1..Len(blocks') : blocks'[i].pending \subseteq EverWaiting
      BY <1>3 DEF EverWaiting
    <3>2. QED BY <1>1, <3>1 DEF EverWaiting, tables
  <2>2. \A e \in pending' : e.made.serial \notin landed'
    BY <1>1, NoneRelands DEF tables, history
  <2>3. QED BY <1>1, <2>1, <2>2 DEF HInv, Relanding, refs, tables, history
<1>8. QED BY <1>5, <1>6, <1>7 DEF HInv

LEMMA HInitOK == Init => HInv
<1> SUFFICES ASSUME Init PROVE HInv OBVIOUS
<1>1. IInv BY InitOK
<1>2. Around = {} /\ Told(imported) = {} BY DEF Init, Around, Told, Waiting
<1>3. EverWaiting = {} /\ asked = {} /\ found = {} BY DEF Init, EverWaiting
<1>4. QED BY <1>1, <1>2, <1>3 DEF Init, HInv, Remembered, SavedInOrder, Relanding

LEMMA HNextOK == HInv /\ [Next]_vars => HInv'
<1> SUFFICES ASSUME HInv, [Next]_vars PROVE HInv' OBVIOUS
<1>1. IInv' BY NextOK DEF HInv
<1>2. ASSUME NEW t \in Threads,
             \/ ReadCatalogue(t) \/ Fill(t) \/ Bump(t) \/ WriteCount(t)
             \/ ReadCounter(t) \/ WriteCounter(t)
             \/ \E x \in Keys \cup Refs, m, i \in BOOLEAN : Declare(t, x, m, i)
             \/ \E r \in Refs : Walk(t, r)
             \/ \E k \in Classes :
                    FallBack(t, k) \/ \E f \in Factories \cup {None} : SetDefault(t, k, f)
      PROVE  HInv'
  BY <1>1, <1>2, QuietStepsOK
<1>3. ASSUME NEW t \in Threads, Ask(t) \/ Scan(t) \/ Register(t) PROVE HInv'
  BY <1>1, <1>3, AskRemembers, ScanRemembers, RegisterRemembers
<1>4. CASE Isolating
  BY <1>1, <1>4, IsolateEnterRemembers, RestoreRemembers, ReabsorbRemembers, ClearDefaultsQuiet,
     UpdateDefaultsRemembers DEF Isolating
<1>5. CASE UNCHANGED vars
  <2>1. Remembered' /\ SavedInOrder' BY <1>1, <1>5, SameAroundOK DEF IInv, vars, tables, history
  <2>2. EverWaiting' = EverWaiting BY <1>5 DEF EverWaiting, vars, tables
  <2>3. Relanding' BY <1>5, <2>2 DEF HInv, Relanding, vars, tables, history, refs, local
  <2>4. QED BY <1>1, <2>1, <2>3 DEF HInv
<1>6. QED BY <1>2, <1>3, <1>4, <1>5 DEF Next

THEOREM RollbackInductive == Spec => []HInv
BY HInitOK, HNextOK, PTL DEF Spec

(* What an isolate() block declared is gone for good once the block is      *)
(* over: no enclosing block's snapshot, no declaration waiting for its ref  *)
(* and no scan of another thread brings it back.                            *)
THEOREM BlocksForget == Spec => []BlockForgotten
<1>1. HInv => BlockForgotten
  BY DEF HInv, Remembered, BlockForgotten, Around, Told, Waiting
<1> QED BY <1>1, RollbackInductive, PTL

(* Outside isolate() a declaration that landed is not waiting to land over  *)
(* a later one, however blocks, scans and resolutions overlapped.           *)
THEOREM LandedOnce == Spec => []LandsOnce
<1>1. HInv => LandsOnce
  <2> SUFFICES ASSUME HInv, blocks = <<>>, NEW e \in pending, e.made.serial \in landed
               PROVE  FALSE
    BY DEF LandsOnce
  <2>1. Ahead(Main) \in {"restored", "clear"} BY DEF HInv, Relanding, Ahead
  <2>2. QED BY <2>1, MainAssumption DEF HInv, IInv, Equipped, EquippedAt
<1> QED BY <1>1, RollbackInductive, PTL

=============================================================================
