------------------------------ MODULE LazyProof ------------------------------
(***************************************************************************)
(* Lazy values are built once, and no threads wait for each other in a      *)
(* circle, for every number of threads and nested cells and whatever the   *)
(* factories read.                                                         *)
(***************************************************************************)
EXTENDS Lazy, TLAPS

LEMMA InitOK == Init => IInv
<1> USE DEF Init, IInv, Levels, Cells
<1>1. Init => TypeOK
  BY DEF TypeOK, Places, Pending
<1>2. Init => LockHeld /\ SelfReadRefused
  BY DEF LockHeld, SelfReadRefused, Inside, Active
<1>3. Init => OwnerRuns /\ ScopeKept /\ HandsOutOutcome
  BY NoThreadAssumption DEF OwnerRuns, ScopeKept, HandsOutOutcome, Unsettled, Pending
<1> QED BY <1>1, <1>2, <1>3

(* What moving one frame does to the places of all others. *)
LEMMA Moved ==
    ASSUME TypeOK, NEW t \in Threads, NEW i \in Cells, NEW n \in Levels,
           NEW p \in Places, Move(t, i, n, p)
    PROVE  /\ at' \in [Threads -> [Cells -> [Levels -> Places]]]
           /\ at'[t][i][n] = p
           /\ \A s \in Threads, j \in Cells, m \in Levels :
                  ~(s = t /\ j = i /\ m = n) => at'[s][j][m] = at[s][j][m]
BY DEF TypeOK, Move

(* A factory's own read stays inside it when neither frame moves away.      *)
LEMMA SelfReadStays ==
    ASSUME IInv, NEW t \in Threads, NEW i \in Cells, NEW n \in Levels, NEW p \in Places,
           Move(t, i, n, p),
           n = 1 => at[t][i][2] = "idle" \/ p = "running",
           n = 2 => \/ p = "idle"
                    \/ at[t][i][1] = "running" /\ p \in {"blocked", "locked", "refused"}
    PROVE  SelfReadRefused'
<1>1. /\ at'[t][i][n] = p
      /\ \A s \in Threads, j \in Cells, m \in Levels :
             ~(s = t /\ j = i /\ m = n) => at'[s][j][m] = at[s][j][m]
      /\ 1 \in Levels /\ 2 \in Levels /\ n \in {1, 2}
  BY Moved DEF IInv, Levels
<1> SUFFICES ASSUME NEW s \in Threads, NEW j \in Cells, at'[s][j][2] # "idle"
             PROVE  /\ at'[s][j][1] = "running"
                    /\ at'[s][j][2] \in {"blocked", "locked", "refused"}
  BY DEF SelfReadRefused, Active
<1>2. CASE ~(s = t /\ j = i)
  <2>1. at'[s][j][1] = at[s][j][1] /\ at'[s][j][2] = at[s][j][2]
    BY <1>1, <1>2
  <2> QED BY <2>1 DEF IInv, SelfReadRefused, Active
<1>3. CASE s = t /\ j = i /\ n = 1
  <2>1. at'[t][i][2] = at[t][i][2] /\ at'[t][i][1] = p
    BY <1>1, <1>3
  <2> QED BY <1>3, <2>1 DEF IInv, SelfReadRefused, Active
<1>4. CASE s = t /\ j = i /\ n = 2
  <2>1. at'[t][i][1] = at[t][i][1] /\ at'[t][i][2] = p
    BY <1>1, <1>4
  <2> QED BY <1>4, <2>1
<1> QED BY <1>1, <1>2, <1>3, <1>4

LEMMA ReadOK ==
    ASSUME IInv, NEW t \in Threads, NEW i \in Cells, NEW n \in Levels, Read(t, i, n)
    PROVE  IInv'
<1>1. TypeOK
  BY DEF IInv
<1>2. asked' \in [Threads -> [Cells -> [Levels -> SUBSET Cells]]] /\ reads' \in [Threads -> Nat]
  <2>1. CASE ApplicationReads(t, n)
    BY <1>1, <2>1 DEF ApplicationReads, TypeOK
  <2>2. CASE FactoryReads(t, i, n)
    <3>1. PICK j \in Cells, m \in Levels :
              asked' = [asked EXCEPT ![t][j][m] = @ \cup {i}] /\ UNCHANGED reads
      BY <2>2 DEF FactoryReads
    <3>2. asked[t][j][m] \cup {i} \in SUBSET Cells
      BY <1>1 DEF TypeOK
    <3> QED BY <1>1, <3>1, <3>2 DEF TypeOK
  <2> QED BY <2>1, <2>2 DEF Read
<1>3. UNCHANGED <<cell, lock, runs>>
  BY DEF Read
<1>4. CASE value[i] # Pending
  <2>1. seen' = [seen EXCEPT ![i] = @ \cup {<<"none", value[i]>>}] /\ UNCHANGED at
    BY <1>4 DEF Read
  <2>2. ~Unsettled(i) /\ <<"none", value[i]>> = Outcome(i)
    BY <1>4 DEF Unsettled, Outcome, IInv, HandsOutOutcome
  <2>3. seen' \in [Cells -> SUBSET Outcomes]
    BY <1>1, <2>1 DEF TypeOK, Outcomes
  <2>4. TypeOK'
    BY <1>1, <1>2, <1>3, <2>1, <2>3 DEF TypeOK, cell, lock
  <2>5. HandsOutOutcome'
    BY <1>1, <1>3, <2>1, <2>2 DEF IInv, HandsOutOutcome, TypeOK, cell, Unsettled, Outcome
  <2> QED BY <1>3, <2>1, <2>4, <2>5 DEF IInv, cell, lock, LockHeld, SelfReadRefused,
             OwnerRuns, ScopeKept, Active, Unsettled
<1>5. CASE value[i] = Pending
  <2>1. Move(t, i, n, "blocked") /\ UNCHANGED seen
    BY <1>5 DEF Read
  <2>2. at[t][i][n] = "idle" /\ (n = 2 => at[t][i][1] = "running")
    <3>1. CASE ApplicationReads(t, n)
      BY <3>1 DEF ApplicationReads, Active
    <3>2. CASE FactoryReads(t, i, n)
      <4>1. PICK j \in Cells, m \in Levels :
                /\ at[t][j][m] = "running" /\ OnTop(t, j, m)
                /\ i \in Reads[j]
                /\ n = IF i = j THEN m + 1 ELSE 1
        BY <3>2 DEF FactoryReads
      <4>2. m = 1
        BY <4>1 DEF IInv, SelfReadRefused, Active, Levels
      <4>3. i \in 1..j /\ i \in Int /\ j \in Int
        BY <4>1, ReadsAssumption, DepthAssumption DEF Cells
      <4>4. CASE i = j
        BY <4>1, <4>2, <4>4 DEF OnTop, Active
      <4>5. CASE i # j
        BY <4>1, <4>3, <4>5 DEF OnTop, Active, Levels
      <4> QED BY <4>4, <4>5
    <3> QED BY <3>1, <3>2 DEF Read
  <2>3. /\ at' \in [Threads -> [Cells -> [Levels -> Places]]] /\ at'[t][i][n] = "blocked"
        /\ \A s \in Threads, j \in Cells, m \in Levels :
               ~(s = t /\ j = i /\ m = n) => at'[s][j][m] = at[s][j][m]
    BY <1>1, <2>1, Moved DEF Places
  <2>4. TypeOK'
    BY <1>1, <1>2, <1>3, <2>1, <2>3 DEF TypeOK, cell, lock
  <2>5. /\ \A s \in Threads, j \in Cells, m \in Levels :
              /\ Inside(at'[s][j][m]) <=> Inside(at[s][j][m])
              /\ at'[s][j][m] = "running" <=> at[s][j][m] = "running"
              /\ at'[s][j][m] = "leaving" <=> at[s][j][m] = "leaving"
        /\ 1 \in Levels /\ 2 \in Levels
    BY <2>2, <2>3 DEF Inside, Levels
  <2>6. LockHeld'
    BY <1>3, <2>5 DEF IInv, LockHeld, lock
  <2>7. SelfReadRefused'
    <3>1. n = 1 => at[t][i][2] = "idle"
      BY <2>2 DEF IInv, SelfReadRefused, Active
    <3> QED BY <2>1, <2>2, <3>1, SelfReadStays DEF Places
  <2>8. OwnerRuns'
    BY <1>3, <2>5 DEF IInv, OwnerRuns, Unsettled, cell
  <2>9. ScopeKept' /\ HandsOutOutcome'
    BY <1>3, <2>1, <2>5 DEF IInv, ScopeKept, HandsOutOutcome, Unsettled, Outcome, cell
  <2> QED BY <2>4, <2>6, <2>7, <2>8, <2>9 DEF IInv
<1> QED BY <1>4, <1>5

LEMMA AcquireOK ==
    ASSUME IInv, NEW t \in Threads, NEW i \in Cells, NEW n \in Levels, Acquire(t, i, n)
    PROVE  IInv'
<1>1. TypeOK
  BY DEF IInv
<1>2. /\ at[t][i][n] = "blocked" /\ holder[i] \in {NoThread, t}
      /\ holder' = [holder EXCEPT ![i] = t]
      /\ held' = [held EXCEPT ![i] = @ + 1]
      /\ Move(t, i, n, "locked")
      /\ UNCHANGED <<value, error, context, owner, runs, asked, reads, seen>>
  BY DEF Acquire, cell
<1>3. /\ at' \in [Threads -> [Cells -> [Levels -> Places]]] /\ at'[t][i][n] = "locked"
      /\ \A s \in Threads, j \in Cells, m \in Levels :
             ~(s = t /\ j = i /\ m = n) => at'[s][j][m] = at[s][j][m]
  BY <1>1, <1>2, Moved DEF Places
<1>4. /\ \A s \in Threads, j \in Cells, m \in Levels :
            /\ at'[s][j][m] = "running" <=> at[s][j][m] = "running"
            /\ at'[s][j][m] = "leaving" <=> at[s][j][m] = "leaving"
            /\ Active(s, j, m)' <=> Active(s, j, m)
      /\ 1 \in Levels /\ 2 \in Levels /\ n \in {1, 2}
  BY <1>2, <1>3 DEF Active, Levels
<1>5. TypeOK'
  BY <1>1, <1>2, <1>3 DEF TypeOK
<1>6. LockHeld'
  <2> SUFFICES ASSUME NEW j \in Cells
               PROVE  /\ \A s \in Threads, m \in Levels : Inside(at'[s][j][m]) => holder'[j] = s
                      /\ holder'[j] = NoThread => held'[j] = 0
                      /\ \A s \in Threads :
                             holder'[j] = s =>
                                 held'[j] = (IF Inside(at'[s][j][1]) THEN 1 ELSE 0)
                                            + (IF Inside(at'[s][j][2]) THEN 1 ELSE 0)
    BY DEF LockHeld
  <2>1. CASE j # i
    BY <1>1, <1>2, <1>3, <1>4, <2>1 DEF IInv, LockHeld, TypeOK
  <2>2. CASE j = i
    <3>1. holder'[i] = t /\ held'[i] = held[i] + 1 /\ held[i] \in Nat /\ t # NoThread
      BY <1>1, <1>2, NoThreadAssumption DEF TypeOK
    <3>2. \A s \in Threads, m \in Levels : Inside(at'[s][i][m]) => s = t
      BY <1>2, <1>3, NoThreadAssumption DEF IInv, LockHeld
    <3>3. held[i] = (IF Inside(at[t][i][1]) THEN 1 ELSE 0)
                    + (IF Inside(at[t][i][2]) THEN 1 ELSE 0)
      <4>1. CASE holder[i] = t
        BY <4>1 DEF IInv, LockHeld
      <4>2. CASE holder[i] = NoThread
        BY <1>4, <4>2, NoThreadAssumption DEF IInv, LockHeld
      <4> QED BY <1>2, <4>1, <4>2
    <3>4. Inside(at'[t][i][n]) /\ ~Inside(at[t][i][n])
      BY <1>2, <1>3 DEF Inside
    <3>5. held'[i] = (IF Inside(at'[t][i][1]) THEN 1 ELSE 0)
                     + (IF Inside(at'[t][i][2]) THEN 1 ELSE 0)
      <4>1. CASE n = 1
        <5>1. at'[t][i][2] = at[t][i][2]
          BY <1>3, <1>4, <4>1
        <5> QED BY <3>1, <3>3, <3>4, <4>1, <5>1
      <4>2. CASE n = 2
        <5>1. at'[t][i][1] = at[t][i][1]
          BY <1>3, <1>4, <4>2
        <5> QED BY <3>1, <3>3, <3>4, <4>2, <5>1
      <4> QED BY <1>4, <4>1, <4>2
    <3> QED BY <2>2, <3>1, <3>2, <3>5
  <2> QED BY <2>1, <2>2
<1>7. SelfReadRefused'
  <2>1. n = 1 => at[t][i][2] = "idle"
    BY <1>2 DEF IInv, SelfReadRefused, Active
  <2>2. n = 2 => at[t][i][1] = "running"
    BY <1>2 DEF IInv, SelfReadRefused, Active
  <2> QED BY <1>2, <2>1, <2>2, SelfReadStays DEF Places
<1>8. OwnerRuns'
  BY <1>2, <1>4 DEF IInv, OwnerRuns, Unsettled
<1>9. ScopeKept' /\ HandsOutOutcome'
  BY <1>2, <1>4 DEF IInv, ScopeKept, HandsOutOutcome, Unsettled, Outcome
<1> QED BY <1>5, <1>6, <1>7, <1>8, <1>9 DEF IInv

(* A frame that stays inside the lock leaves the lock as it is. *)
LEMMA InsideKeepsLock ==
    ASSUME IInv, NEW t \in Threads, NEW i \in Cells, NEW n \in Levels, NEW p \in Places,
           Inside(at[t][i][n]), Inside(p), Move(t, i, n, p), UNCHANGED lock
    PROVE  LockHeld'
<1>1. /\ at'[t][i][n] = p
      /\ \A s \in Threads, j \in Cells, m \in Levels :
             ~(s = t /\ j = i /\ m = n) => at'[s][j][m] = at[s][j][m]
  BY Moved DEF IInv
<1>2. /\ \A s \in Threads, j \in Cells, m \in Levels :
            Inside(at'[s][j][m]) <=> Inside(at[s][j][m])
      /\ 1 \in Levels /\ 2 \in Levels
  BY <1>1 DEF Levels
<1> QED BY <1>2 DEF IInv, LockHeld, lock

LEMMA DecideOK ==
    ASSUME IInv, NEW t \in Threads, NEW i \in Cells, NEW n \in Levels,
           AlreadySettled(t, i, n) \/ Refuse(t, i, n)
    PROVE  IInv'
<1>1. TypeOK
  BY DEF IInv
<1>2. PICK p \in {"leaving", "refused"} :
         /\ at[t][i][n] = "locked" /\ Move(t, i, n, p)
         /\ p = "leaving" => ~Unsettled(i)
         /\ p = "refused" => Unsettled(i)
         /\ UNCHANGED lock
         /\ UNCHANGED <<value, error, context, owner, runs, asked, reads, seen>>
  BY DEF AlreadySettled, Refuse, cell
<1>3. /\ at' \in [Threads -> [Cells -> [Levels -> Places]]] /\ at'[t][i][n] = p
      /\ \A s \in Threads, j \in Cells, m \in Levels :
             ~(s = t /\ j = i /\ m = n) => at'[s][j][m] = at[s][j][m]
  BY <1>1, <1>2, Moved DEF Places
<1>4. \A s \in Threads, j \in Cells, m \in Levels :
         at'[s][j][m] = "running" <=> at[s][j][m] = "running"
  BY <1>2, <1>3
<1>5. 1 \in Levels /\ 2 \in Levels
  BY DEF Levels
<1>6. TypeOK'
  BY <1>1, <1>2, <1>3 DEF TypeOK, lock
<1>7. LockHeld'
  BY <1>2, InsideKeepsLock DEF Inside, Places
<1>8. SelfReadRefused'
  <2>1. n = 1 => at[t][i][2] = "idle"
    BY <1>2 DEF IInv, SelfReadRefused, Active
  <2>2. n = 2 => at[t][i][1] = "running" /\ Unsettled(i)
    BY <1>2 DEF IInv, SelfReadRefused, OwnerRuns, Active
  <2> QED BY <1>2, <2>1, <2>2, SelfReadStays DEF Places
<1>9. OwnerRuns'
  BY <1>2, <1>4, <1>5 DEF IInv, OwnerRuns, Unsettled
<1>10. ScopeKept'
  BY <1>2 DEF IInv, ScopeKept, Unsettled
<1>11. HandsOutOutcome'
  <2>1. \A s \in Threads, j \in Cells, m \in Levels :
           at'[s][j][m] = "leaving" => ~Unsettled(j)
    <3> SUFFICES ASSUME NEW s \in Threads, NEW j \in Cells, NEW m \in Levels,
                        at'[s][j][m] = "leaving"
                 PROVE  ~Unsettled(j)
      OBVIOUS
    <3>1. CASE s = t /\ j = i /\ m = n
      BY <1>2, <1>3, <3>1
    <3>2. CASE ~(s = t /\ j = i /\ m = n)
      <4>1. at[s][j][m] = "leaving"
        BY <1>3, <3>2
      <4> QED BY <4>1 DEF IInv, HandsOutOutcome
    <3> QED BY <3>1, <3>2
  <2> QED BY <1>2, <2>1 DEF IInv, HandsOutOutcome, Unsettled, Outcome
<1> QED BY <1>6, <1>7, <1>8, <1>9, <1>10, <1>11 DEF IInv

LEMMA BuildOK ==
    ASSUME IInv, NEW t \in Threads, NEW i \in Cells, NEW n \in Levels, Build(t, i, n)
    PROVE  IInv'
<1>1. TypeOK
  BY DEF IInv
<1>2. /\ at[t][i][n] = "locked" /\ Move(t, i, n, "running")
      /\ Unsettled(i) /\ owner[i] # t
      /\ owner' = [owner EXCEPT ![i] = t]
      /\ runs' = [runs EXCEPT ![i] = @ + 1]
      /\ asked' = [asked EXCEPT ![t][i][n] = {}]
      /\ UNCHANGED lock
      /\ UNCHANGED <<value, error, context, holder, held, reads, seen>>
  BY DEF Build, lock
<1>3. /\ at' \in [Threads -> [Cells -> [Levels -> Places]]] /\ at'[t][i][n] = "running"
      /\ \A s \in Threads, j \in Cells, m \in Levels :
             ~(s = t /\ j = i /\ m = n) => at'[s][j][m] = at[s][j][m]
  BY <1>1, <1>2, Moved DEF Places
<1>4. 1 \in Levels /\ 2 \in Levels /\ n \in {1, 2}
  BY DEF Levels
<1>5. n = 1
  BY <1>2, <1>4 DEF IInv, SelfReadRefused, OwnerRuns, Active
<1>6. \A s \in Threads : at[s][i][1] # "running"
  <2>1. holder[i] = t
    BY <1>2 DEF IInv, LockHeld, Inside
  <2>2. at[t][i][1] # "running"
    BY <1>2, <1>5
  <2> QED BY <1>4, <2>1, <2>2 DEF IInv, LockHeld, Inside
<1>7. TypeOK'
  <2>1. asked' \in [Threads -> [Cells -> [Levels -> SUBSET Cells]]]
    BY <1>1, <1>2 DEF TypeOK
  <2>2. owner' \in [Cells -> Threads \cup {NoThread}] /\ runs' \in [Cells -> Nat]
    BY <1>1, <1>2 DEF TypeOK
  <2> QED BY <1>1, <1>2, <1>3, <2>1, <2>2 DEF TypeOK
<1>8. LockHeld'
  BY <1>2, InsideKeepsLock DEF Inside, Places
<1>9. SelfReadRefused'
  BY <1>2, <1>5, SelfReadStays DEF Places
<1>10. OwnerRuns'
  <2> SUFFICES ASSUME NEW s \in Threads, NEW j \in Cells
               PROVE  /\ owner'[j] = s <=> at'[s][j][1] = "running"
                      /\ at'[s][j][1] = "running" => Unsettled(j)
    BY <1>2 DEF OwnerRuns, Unsettled
  <2>1. CASE j = i
    BY <1>1, <1>2, <1>3, <1>4, <1>5, <1>6, <2>1 DEF TypeOK
  <2>2. CASE j # i
    BY <1>1, <1>2, <1>3, <1>4, <2>2 DEF IInv, OwnerRuns, TypeOK
  <2> QED BY <2>1, <2>2
<1>11. ScopeKept'
  BY <1>2 DEF IInv, ScopeKept, Unsettled
<1>12. HandsOutOutcome'
  BY <1>1, <1>2, <1>3 DEF IInv, HandsOutOutcome, Unsettled, Outcome, TypeOK
<1> QED BY <1>7, <1>8, <1>9, <1>10, <1>11, <1>12 DEF IInv

(* However the factory ends, the cell settles once or goes back to pending. *)
LEMMA FactoryEndsOK ==
    ASSUME IInv, NEW t \in Threads, NEW i \in Cells, NEW n \in Levels,
           FactoryEnds(t, i, n)
    PROVE  IInv'
<1>1. TypeOK
  BY DEF IInv
<1>2. /\ at[t][i][2] = "idle" \/ n = 2
      /\ at[t][i][n] = "running"
      /\ owner' = [owner EXCEPT ![i] = NoThread]
      /\ UNCHANGED lock
      /\ UNCHANGED <<holder, held, runs, asked, reads, seen>>
  BY DEF FactoryEnds, Returns, ReturnsSelf, Raises, Cancelled, FactoryOver, OnTop,
         Active, Levels, lock
<1>3. 1 \in Levels /\ 2 \in Levels /\ n \in {1, 2}
  BY DEF Levels
<1>4. n = 1 /\ at[t][i][2] = "idle"
  BY <1>2, <1>3 DEF IInv, SelfReadRefused, Active
<1>5. Unsettled(i) /\ owner[i] = t /\ context[i] = "scope" /\ runs[i] > 0 /\ runs[i] \in Nat
  BY <1>1, <1>2, <1>4, NoThreadAssumption
     DEF IInv, OwnerRuns, ScopeKept, HandsOutOutcome, TypeOK
<1>6. PICK e \in {"none", "raised", "self"}, v \in Nat, x \in {"scope", "bare"},
           p \in {"leaving", "cancelled"} :
         /\ error' = [error EXCEPT ![i] = e]
         /\ value' = [value EXCEPT ![i] = v]
         /\ context' = [context EXCEPT ![i] = x]
         /\ Move(t, i, n, p)
         /\ p = "leaving" <=> ~(e = "none" /\ v = Pending)
         /\ p = "cancelled" => x = "scope"
         /\ v # Pending => e = "none"
  <2>1. /\ error = [error EXCEPT ![i] = "none"]
        /\ value = [value EXCEPT ![i] = Pending]
        /\ context = [context EXCEPT ![i] = "scope"]
        /\ Pending \in Nat
    BY <1>1, <1>5 DEF TypeOK, Unsettled, Pending
  <2>2. CASE Returns(t, i, n)
    <3>1. runs[i] # Pending
      BY <1>5 DEF Pending
    <3> QED BY <1>5, <2>1, <2>2, <3>1 DEF Returns
  <2>3. CASE ReturnsSelf(t, i, n)
    BY <2>1, <2>3 DEF ReturnsSelf
  <2>4. CASE Raises(t, i, n)
    BY <2>1, <2>4 DEF Raises
  <2>5. CASE Cancelled(t, i, n)
    BY <2>1, <2>5 DEF Cancelled
  <2> QED BY <2>2, <2>3, <2>4, <2>5 DEF FactoryEnds
<1>7. /\ at' \in [Threads -> [Cells -> [Levels -> Places]]] /\ at'[t][i][1] = p
      /\ \A s \in Threads, j \in Cells, m \in Levels :
             ~(s = t /\ j = i /\ m = 1) => at'[s][j][m] = at[s][j][m]
  <2>1. p \in Places
    BY DEF Places
  <2>2. /\ at' \in [Threads -> [Cells -> [Levels -> Places]]] /\ at'[t][i][n] = p
        /\ \A s \in Threads, j \in Cells, m \in Levels :
               ~(s = t /\ j = i /\ m = n) => at'[s][j][m] = at[s][j][m]
    BY <1>1, <1>6, <2>1, Moved
  <2> QED BY <1>4, <2>2
<1>8. TypeOK'
  BY <1>1, <1>2, <1>6, <1>7 DEF TypeOK
<1>9. LockHeld'
  BY <1>2, <1>6, InsideKeepsLock DEF Inside, Places
<1>10. SelfReadRefused'
  BY <1>4, <1>6, SelfReadStays DEF Places
<1>11. \A s \in Threads, m \in Levels : Inside(at[s][i][m]) => s = t
  BY <1>2 DEF IInv, LockHeld, Inside
<1>12. OwnerRuns'
  <2> SUFFICES ASSUME NEW s \in Threads, NEW j \in Cells
               PROVE  /\ owner'[j] = s <=> at'[s][j][1] = "running"
                      /\ at'[s][j][1] = "running" => Unsettled(j)'
    BY DEF OwnerRuns
  <2>1. CASE j = i
    <3>1. at'[s][i][1] # "running"
      BY <1>3, <1>6, <1>7, <1>11 DEF Inside
    <3> QED BY <1>1, <1>2, <2>1, <3>1, NoThreadAssumption DEF TypeOK
  <2>2. CASE j # i
    BY <1>1, <1>2, <1>3, <1>6, <1>7, <2>2 DEF IInv, OwnerRuns, TypeOK, Unsettled
  <2> QED BY <2>1, <2>2
<1>13. ScopeKept'
  BY <1>1, <1>6 DEF IInv, ScopeKept, Unsettled, TypeOK
<1>14. HandsOutOutcome'
  <2> SUFFICES ASSUME NEW j \in Cells
               PROVE  /\ \A y \in seen'[j] : ~Unsettled(j)' /\ y = Outcome(j)'
                      /\ \A s \in Threads, m \in Levels :
                             at'[s][j][m] = "leaving" => ~Unsettled(j)'
                      /\ value'[j] # Pending => error'[j] = "none"
                      /\ owner'[j] # NoThread => runs'[j] > 0
    BY DEF HandsOutOutcome
  <2>1. CASE j = i
    <3>1. seen[i] = {}
      BY <1>5 DEF IInv, HandsOutOutcome
    <3>2. \A s \in Threads, m \in Levels :
              at'[s][i][m] = "leaving" => s = t /\ m = 1
      <4> SUFFICES ASSUME NEW s \in Threads, NEW m \in Levels, ~(s = t /\ m = 1)
                   PROVE  at'[s][i][m] # "leaving"
        OBVIOUS
      <4>1. at'[s][i][m] = at[s][i][m]
        BY <1>7
      <4> QED BY <1>5, <4>1 DEF IInv, HandsOutOutcome
    <3>3. error'[i] = e /\ value'[i] = v /\ owner'[i] = NoThread
      BY <1>1, <1>2, <1>6 DEF TypeOK
    <3> QED BY <1>2, <1>6, <1>7, <2>1, <3>1, <3>2, <3>3 DEF Unsettled
  <2>2. CASE j # i
    <3>1. /\ error'[j] = error[j] /\ value'[j] = value[j] /\ owner'[j] = owner[j]
          /\ seen'[j] = seen[j] /\ runs'[j] = runs[j]
          /\ \A s \in Threads, m \in Levels : at'[s][j][m] = at[s][j][m]
      BY <1>1, <1>2, <1>6, <1>7, <2>2 DEF TypeOK
    <3> QED BY <3>1 DEF IInv, HandsOutOutcome, Unsettled, Outcome
  <2> QED BY <2>1, <2>2
<1> QED BY <1>8, <1>9, <1>10, <1>12, <1>13, <1>14 DEF IInv

LEMMA ReleaseOK ==
    ASSUME IInv, NEW t \in Threads, NEW i \in Cells, NEW n \in Levels, Release(t, i, n)
    PROVE  IInv'
<1>1. TypeOK
  BY DEF IInv
<1>2. /\ at[t][i][n] \in {"leaving", "cancelled", "refused"}
      /\ held' = [held EXCEPT ![i] = @ - 1]
      /\ holder' = [holder EXCEPT ![i] = IF held[i] = 1 THEN NoThread ELSE @]
      /\ seen' = IF at[t][i][n] = "leaving"
                 THEN [seen EXCEPT ![i] = @ \cup {Outcome(i)}] ELSE seen
      /\ Move(t, i, n, "idle")
      /\ UNCHANGED <<value, error, context, owner, runs, asked, reads>>
  BY DEF Release, cell
<1>3. /\ at' \in [Threads -> [Cells -> [Levels -> Places]]] /\ at'[t][i][n] = "idle"
      /\ \A s \in Threads, j \in Cells, m \in Levels :
             ~(s = t /\ j = i /\ m = n) => at'[s][j][m] = at[s][j][m]
  BY <1>1, <1>2, Moved DEF Places
<1>4. 1 \in Levels /\ 2 \in Levels /\ n \in {1, 2}
  BY DEF Levels
<1>5. holder[i] = t /\ held[i] \in Nat /\ t # NoThread
  BY <1>1, <1>2, NoThreadAssumption DEF IInv, LockHeld, Inside, TypeOK
<1>6. held[i] = (IF Inside(at[t][i][1]) THEN 1 ELSE 0)
                + (IF Inside(at[t][i][2]) THEN 1 ELSE 0)
  BY <1>5 DEF IInv, LockHeld
<1>7. Inside(at[t][i][n]) /\ ~Inside(at'[t][i][n])
  BY <1>2, <1>3 DEF Inside
<1>8. TypeOK'
  <2>1. held[i] - 1 \in Nat
    BY <1>4, <1>6, <1>7
  <2>2. Outcome(i) \in Outcomes
    BY <1>1, <1>2 DEF Outcome, Outcomes, TypeOK, IInv, HandsOutOutcome
  <2>3. seen' \in [Cells -> SUBSET Outcomes]
    BY <1>1, <1>2, <2>2 DEF TypeOK
  <2> QED BY <1>1, <1>2, <1>3, <2>1, <2>3 DEF TypeOK
<1>9. LockHeld'
  <2> SUFFICES ASSUME NEW j \in Cells
               PROVE  /\ \A s \in Threads, m \in Levels : Inside(at'[s][j][m]) => holder'[j] = s
                      /\ holder'[j] = NoThread => held'[j] = 0
                      /\ \A s \in Threads :
                             holder'[j] = s =>
                                 held'[j] = (IF Inside(at'[s][j][1]) THEN 1 ELSE 0)
                                            + (IF Inside(at'[s][j][2]) THEN 1 ELSE 0)
    BY DEF LockHeld
  <2>1. CASE j # i
    BY <1>1, <1>2, <1>3, <1>4, <2>1 DEF IInv, LockHeld, TypeOK
  <2>2. CASE j = i
    <3>1. held'[i] = held[i] - 1
      BY <1>1, <1>2 DEF TypeOK
    <3>2. holder'[i] = IF held[i] = 1 THEN NoThread ELSE t
      BY <1>1, <1>2, <1>5 DEF TypeOK
    <3>3. \A s \in Threads, m \in Levels : Inside(at'[s][i][m]) => s = t /\ m # n
      <4> SUFFICES ASSUME NEW s \in Threads, NEW m \in Levels, Inside(at'[s][i][m])
                   PROVE  s = t /\ m # n
        OBVIOUS
      <4>1. ~(s = t /\ m = n)
        BY <1>7
      <4>2. at'[s][i][m] = at[s][i][m]
        BY <1>3, <4>1
      <4>3. holder[i] = s
        BY <4>2 DEF IInv, LockHeld
      <4> QED BY <1>5, <4>1, <4>3
    <3>4. held'[i] = (IF Inside(at'[t][i][1]) THEN 1 ELSE 0)
                     + (IF Inside(at'[t][i][2]) THEN 1 ELSE 0)
      <4>1. CASE n = 1
        <5>1. at'[t][i][2] = at[t][i][2]
          BY <1>3, <1>4, <4>1
        <5> QED BY <1>5, <1>6, <1>7, <3>1, <4>1, <5>1
      <4>2. CASE n = 2
        <5>1. at'[t][i][1] = at[t][i][1]
          BY <1>3, <1>4, <4>2
        <5> QED BY <1>5, <1>6, <1>7, <3>1, <4>2, <5>1
      <4> QED BY <1>4, <4>1, <4>2
    <3>5. \A m \in Levels : m \in {1, 2}
      BY DEF Levels
    <3>6. CASE held[i] = 1
      <4>1. \A s \in Threads, m \in Levels : ~Inside(at'[s][i][m])
        BY <3>1, <3>3, <3>4, <3>5, <3>6
      <4> QED BY <2>2, <3>1, <3>2, <3>6, <4>1, NoThreadAssumption
    <3>7. CASE held[i] # 1
      BY <1>5, <2>2, <3>2, <3>3, <3>4, <3>7
    <3> QED BY <3>6, <3>7
  <2> QED BY <2>1, <2>2
<1>10. SelfReadRefused'
  <2>1. n = 1 => at[t][i][2] = "idle"
    BY <1>2 DEF IInv, SelfReadRefused, Active
  <2> QED BY <1>2, <2>1, SelfReadStays DEF Places
<1>11. \A s \in Threads, j \in Cells, m \in Levels :
          /\ at'[s][j][m] = "running" <=> at[s][j][m] = "running"
          /\ at'[s][j][m] = "leaving" => at[s][j][m] = "leaving"
  BY <1>2, <1>3
<1>12. OwnerRuns'
  BY <1>2, <1>4, <1>11 DEF IInv, OwnerRuns, Unsettled
<1>13. ScopeKept'
  BY <1>2 DEF IInv, ScopeKept, Unsettled
<1>14. HandsOutOutcome'
  <2>1. at[t][i][n] = "leaving" => ~Unsettled(i)
    BY DEF IInv, HandsOutOutcome
  <2>2. \A j \in Cells : \A y \in seen'[j] : y \in seen[j] \/ (~Unsettled(j) /\ y = Outcome(j))
    BY <1>1, <1>2, <2>1 DEF TypeOK
  <2> QED BY <1>2, <1>11, <2>2 DEF IInv, HandsOutOutcome, Unsettled, Outcome
<1> QED BY <1>8, <1>9, <1>10, <1>12, <1>13, <1>14 DEF IInv

LEMMA NextOK == IInv /\ [Next]_vars => IInv'
<1> SUFFICES ASSUME IInv, [Next]_vars PROVE IInv'
  OBVIOUS
<1>1. ASSUME NEW t \in Threads, NEW i \in Cells, NEW n \in Levels, Read(t, i, n)
      PROVE  IInv'
  BY <1>1, ReadOK
<1>2. ASSUME NEW t \in Threads, NEW i \in Cells, NEW n \in Levels, Step(t, i, n)
      PROVE  IInv'
  BY <1>2, AcquireOK, DecideOK, BuildOK, FactoryEndsOK, ReleaseOK DEF Step
<1>3. CASE UNCHANGED vars
  BY <1>3 DEF vars, cell, lock, IInv, TypeOK, LockHeld, SelfReadRefused, OwnerRuns,
     ScopeKept, HandsOutOutcome, Unsettled, Outcome, Active
<1> QED BY <1>1, <1>2, <1>3 DEF Next, AllRead

(* The strengthening holds in every behaviour. *)
THEOREM Inductive == Spec => []IInv
BY InitOK, NextOK, PTL DEF Spec

(* Every variable keeps its type. *)
THEOREM TypeCorrect == Spec => []TypeOK
<1>1. IInv => TypeOK
  BY DEF IInv
<1> QED BY <1>1, Inductive, PTL

(* A factory never runs on two threads at once nor inside itself.           *)
THEOREM BuildsAlone == Spec => []OneBuilder
<1>1. IInv => OneBuilder
  <2> SUFFICES ASSUME IInv, NEW i \in Cells, NEW s \in Threads, NEW t \in Threads,
                      NEW m \in Levels, NEW n \in Levels,
                      at[s][i][m] = "running", at[t][i][n] = "running"
               PROVE  s = t /\ m = n
    BY DEF OneBuilder
  <2>1. holder[i] = s /\ holder[i] = t
    BY DEF IInv, LockHeld, Inside
  <2>2. m \in {1, 2} /\ n \in {1, 2} /\ m # 2 /\ n # 2
    BY DEF IInv, SelfReadRefused, Active, Levels
  <2> QED BY <2>1, <2>2
<1> QED BY <1>1, Inductive, PTL

(* All readers of a cell get one outcome, whichever thread built it.        *)
THEOREM SameForAll == Spec => []OneOutcome
<1>1. IInv => OneOutcome
  BY DEF IInv, HandsOutOutcome, OneOutcome
<1> QED BY <1>1, Inductive, PTL

(* The factory runs in the scope that declared it, on every retry too.      *)
THEOREM ScopeAtEveryRun == Spec => []RunsInScope
<1>1. IInv => RunsInScope
  <2> SUFFICES ASSUME IInv, NEW t \in Threads, NEW i \in Cells, NEW n \in Levels,
                      at[t][i][n] = "running"
               PROVE  context[i] = "scope"
    BY DEF RunsInScope
  <2>1. n \in {1, 2} /\ n # 2
    BY DEF IInv, SelfReadRefused, Active, Levels
  <2> QED BY <2>1 DEF IInv, OwnerRuns, ScopeKept
<1> QED BY <1>1, Inductive, PTL

-----------------------------------------------------------------------------
(* Lock order: a thread's reads are nested inwards out, each but the        *)
(* innermost in the factory that made it.                                   *)

\* Of two cells one thread is reading, the inner one is running its factory.
NestedReads ==
    \A t \in Threads, i, j \in Cells, m, n \in Levels :
        Active(t, j, m) /\ Active(t, i, n) /\ j < i => at[t][i][n] = "running"

\* A lock somebody holds is held at least once.
HeldOnce == \A i \in Cells : holder[i] # NoThread => held[i] > 0

OInv == IInv /\ NestedReads /\ HeldOnce

\* A step of a frame that is not running, on which nothing of its thread is nested, and
\* one that ends a frame, leave the nesting as it is.
LEMMA NestedStays ==
    ASSUME OInv, NEW t \in Threads, NEW i \in Cells, NEW n \in Levels, NEW p \in Places,
           Move(t, i, n, p), Active(t, i, n),
           p # "idle" /\ at[t][i][n] = "running" => \A j \in Cells, m \in Levels :
                                                      j < i => ~Active(t, j, m)
    PROVE  NestedReads'
<1>1. /\ at'[t][i][n] = p
      /\ \A s \in Threads, j \in Cells, m \in Levels :
             ~(s = t /\ j = i /\ m = n) => at'[s][j][m] = at[s][j][m]
  BY Moved DEF OInv, IInv
<1>2. ASSUME NEW s \in Threads, NEW k \in Cells, NEW j \in Cells, NEW m \in Levels,
             NEW l \in Levels, at'[s][j][m] # "idle", at'[s][k][l] # "idle", j < k
      PROVE  at'[s][k][l] = "running"
  <2>1. Active(s, j, m) /\ Active(s, k, l)
    BY <1>1, <1>2 DEF Active
  <2>2. at[s][k][l] = "running"
    BY <1>2, <2>1 DEF OInv, NestedReads
  <2>3. CASE s = t /\ k = i /\ l = n
    BY <1>1, <1>2, <2>1, <2>2, <2>3
  <2>4. CASE ~(s = t /\ k = i /\ l = n)
    BY <1>1, <2>2, <2>4
  <2> QED BY <2>3, <2>4
<1> QED BY <1>2 DEF NestedReads, Active

LEMMA ReadNests ==
    ASSUME OInv, NEW t \in Threads, NEW i \in Cells, NEW n \in Levels, Read(t, i, n)
    PROVE  NestedReads'
<1>1. TypeOK /\ SelfReadRefused /\ NestedReads
  BY DEF OInv, IInv
<1>2. CASE UNCHANGED at
  BY <1>1, <1>2 DEF NestedReads, Active
<1>3. CASE Move(t, i, n, "blocked")
  <2>1. /\ at'[t][i][n] = "blocked"
        /\ \A s \in Threads, j \in Cells, m \in Levels :
               ~(s = t /\ j = i /\ m = n) => at'[s][j][m] = at[s][j][m]
    BY <1>1, <1>3, Moved DEF Places
  <2>2. \A j \in Cells, m \in Levels :
            Active(t, j, m) => ~(j < i) /\ (i < j => at[t][j][m] = "running")
    <3>1. CASE ApplicationReads(t, n)
      BY <3>1 DEF ApplicationReads
    <3>2. CASE FactoryReads(t, i, n)
      <4>1. PICK k \in Cells, l \in Levels :
                /\ at[t][k][l] = "running" /\ OnTop(t, k, l) /\ i \in Reads[k]
        BY <3>2 DEF FactoryReads
      <4>2. i <= k /\ k \in Int /\ i \in Int
        BY <4>1, ReadsAssumption DEF Cells
      <4>3. l = 1 /\ Active(t, k, l)
        BY <1>1, <4>1 DEF SelfReadRefused, Active, Levels
      <4>4. ASSUME NEW j \in Cells, NEW m \in Levels, Active(t, j, m)
            PROVE  ~(j < i) /\ (i < j => at[t][j][m] = "running")
        <5>1. j \in Int /\ ~(j < k)
          BY <4>1, <4>4 DEF OnTop, Cells
        <5>2. CASE j = k
          BY <4>1, <4>2, <4>3, <4>4, <5>2 DEF OnTop, Levels
        <5>3. CASE k < j
          BY <1>1, <4>2, <4>3, <4>4, <5>3 DEF NestedReads
        <5> QED BY <4>2, <5>1, <5>2, <5>3
      <4> QED BY <4>4
    <3> QED BY <3>1, <3>2 DEF Read
  <2>3. ASSUME NEW s \in Threads, NEW k \in Cells, NEW j \in Cells, NEW m \in Levels,
               NEW l \in Levels, at'[s][j][m] # "idle", at'[s][k][l] # "idle", j < k
        PROVE  at'[s][k][l] = "running"
    <3>0. j \in Int /\ k \in Int
      BY DEF Cells
    <3>1. CASE s = t /\ k = i /\ l = n
      BY <2>1, <2>2, <2>3, <3>0, <3>1 DEF Active
    <3>2. CASE s = t /\ j = i /\ m = n
      BY <2>1, <2>2, <2>3, <3>0, <3>2 DEF Active
    <3>3. CASE ~(s = t /\ k = i /\ l = n) /\ ~(s = t /\ j = i /\ m = n)
      BY <1>1, <2>1, <2>3, <3>3 DEF NestedReads, Active
    <3> QED BY <3>1, <3>2, <3>3
  <2> QED BY <2>3 DEF NestedReads, Active
<1> QED BY <1>2, <1>3 DEF Read

LEMMA StepNests ==
    ASSUME OInv, NEW t \in Threads, NEW i \in Cells, NEW n \in Levels, Step(t, i, n)
    PROVE  NestedReads'
<1>1. CASE Acquire(t, i, n)
  BY <1>1, NestedStays DEF Acquire, Active, Places
<1>2. CASE AlreadySettled(t, i, n) \/ Refuse(t, i, n) \/ Build(t, i, n)
  BY <1>2, NestedStays DEF AlreadySettled, Refuse, Build, Active, Places
<1>3. CASE FactoryEnds(t, i, n)
  <2>1. /\ at[t][i][n] = "running" /\ OnTop(t, i, n)
        /\ \E p \in {"leaving", "cancelled"} : Move(t, i, n, p)
    BY <1>3 DEF FactoryEnds, Returns, ReturnsSelf, Raises, Cancelled, FactoryOver
  <2> QED BY <2>1, NestedStays DEF OnTop, Active, Places
<1>4. CASE Release(t, i, n)
  BY <1>4, NestedStays DEF Release, Active, Places
<1> QED BY <1>1, <1>2, <1>3, <1>4 DEF Step

LEMMA StepHolds ==
    ASSUME OInv, NEW t \in Threads, NEW i \in Cells, NEW n \in Levels, Step(t, i, n)
    PROVE  HeldOnce'
<1>1. /\ holder \in [Cells -> Threads \cup {NoThread}] /\ held \in [Cells -> Nat]
      /\ HeldOnce
  BY DEF OInv, IInv, TypeOK
<1>2. CASE Acquire(t, i, n)
  BY <1>1, <1>2 DEF Acquire, HeldOnce
<1>3. CASE Release(t, i, n)
  <2>1. /\ held' = [held EXCEPT ![i] = @ - 1]
        /\ holder' = [holder EXCEPT ![i] = IF held[i] = 1 THEN NoThread ELSE @]
    BY <1>3 DEF Release
  <2> QED BY <1>1, <2>1 DEF HeldOnce
<1>4. CASE UNCHANGED lock
  BY <1>1, <1>4 DEF lock, HeldOnce
<1> QED BY <1>2, <1>3, <1>4 DEF Step, AlreadySettled, Refuse, Build, FactoryEnds, Returns,
             ReturnsSelf, Raises, Cancelled, FactoryOver

LEMMA OrderNextOK == OInv /\ [Next]_vars => OInv'
<1> SUFFICES ASSUME OInv, [Next]_vars PROVE OInv'
  OBVIOUS
<1>1. IInv'
  BY NextOK DEF OInv
<1>2. ASSUME NEW t \in Threads, NEW i \in Cells, NEW n \in Levels, Read(t, i, n)
      PROVE  NestedReads' /\ HeldOnce'
  BY <1>2, ReadNests DEF Read, lock, OInv, HeldOnce
<1>3. ASSUME NEW t \in Threads, NEW i \in Cells, NEW n \in Levels, Step(t, i, n)
      PROVE  NestedReads' /\ HeldOnce'
  BY <1>3, StepNests, StepHolds
<1>4. CASE UNCHANGED vars
  BY <1>1, <1>4 DEF vars, lock, OInv, NestedReads, Active, HeldOnce
<1> QED BY <1>1, <1>2, <1>3, <1>4 DEF Next, AllRead, OInv

THEOREM OrderInductive == Spec => []OInv
<1>1. Init => OInv
  BY InitOK DEF Init, OInv, NestedReads, Active, HeldOnce
<1> QED BY <1>1, OrderNextOK, PTL DEF Spec

(* A thread that waits for a cell holds only the locks of cells further in. *)
THEOREM InwardsOut == Spec => []LockOrder
<1>1. OInv => LockOrder
  <2> SUFFICES ASSUME OInv, NEW t \in Threads, NEW i \in Cells, NEW j \in Cells,
                      NEW m \in Levels, NEW n \in Levels,
                      at[t][i][m] = "blocked", at[t][j][n] \notin {"idle", "blocked"},
                      ~(i <= j)
               PROVE  FALSE
    BY DEF LockOrder
  <2>1. j < i
    BY DEF Cells
  <2> QED BY <2>1 DEF OInv, NestedReads, Active
<1> QED BY <1>1, OrderInductive, PTL

\* Thread t waits for a lock that thread s has.
WaitsFor(t, i, s) ==
    /\ s # t /\ holder[i] = s
    /\ \E n \in Levels : at[t][i][n] = "blocked"

\* Along a chain of threads that wait for each other, cells get further out.
WaitsOutwards ==
    \A s, t, u \in Threads, i, j \in Cells :
        WaitsFor(t, i, s) /\ WaitsFor(s, j, u) => j < i

(* Threads that read lazy values never wait for each other in a circle: a   *)
(* chain of waits runs outwards from cell to cell, and there are finitely   *)
(* many.  No fairness is needed for that.                                   *)
THEOREM NoCircularWait == Spec => []WaitsOutwards
<1>1. OInv /\ LockOrder => WaitsOutwards
  <2> SUFFICES ASSUME OInv, LockOrder, NEW s \in Threads, NEW t \in Threads, NEW u \in Threads,
                      NEW i \in Cells, NEW j \in Cells,
                      WaitsFor(t, i, s), WaitsFor(s, j, u)
               PROVE  j < i
    BY DEF WaitsOutwards
  <2>1. i # j /\ i \in Int /\ j \in Int
    BY DEF WaitsFor, Cells
  <2>2. \E n \in Levels : Inside(at[s][i][n])
    BY NoThreadAssumption DEF OInv, HeldOnce, IInv, LockHeld, WaitsFor, Levels
  <2>3. j <= i
    BY <2>2 DEF LockOrder, WaitsFor, Inside
  <2> QED BY <2>1, <2>3
<1> QED BY <1>1, OrderInductive, InwardsOut, PTL

=============================================================================
