-------------------------------- MODULE Lazy --------------------------------
(***************************************************************************)
(* Lazy values: provider(lazy(key, factory)) publishes a cell, and the     *)
(* first read builds its value once, under a reentrant lock, in a snapshot *)
(* of the scope that opened it.  Threads share cells through the contexts  *)
(* they copied.                                                            *)
(*                                                                         *)
(* Cells are numbered outside in: cell i was opened inside cells 1..i-1,   *)
(* and its snapshot, taken after it was published, holds cells 1..i.  A    *)
(* factory that looks its keys up reads those, its own cell included.      *)
(*                                                                         *)
(* Frame t, i, n is one resolve() of cell i on the stack of thread t; n is *)
(* 2 for the resolve() of a factory that reads its own cell.               *)
(***************************************************************************)
EXTENDS Integers

CONSTANTS
    Threads,
    Depth,        \* cells 1..Depth, nested
    Reads,        \* Reads[i]: the cells the factory of i reads
    MaxRuns,      \* bound: runs of one factory, so cancellations end
    MaxReads,     \* bound: reads the application makes on each thread
    NoThread

Cells == 1..Depth
Levels == {1, 2}

ASSUME DepthAssumption == Depth \in Nat
ASSUME ReadsAssumption == /\ Reads \in [Cells -> SUBSET Cells]
                          /\ \A i \in Cells : Reads[i] \subseteq 1..i
ASSUME BoundsAssumption == MaxRuns \in Nat /\ MaxReads \in Nat
ASSUME NoThreadAssumption == NoThread \notin Threads

\* Where a frame is: not on the stack; waiting for the lock; holding it before
\* deciding; running the factory; or on its way out with the settled result, a
\* BaseException or the self-reference error.
Places == {"idle", "blocked", "locked", "running", "leaving", "cancelled", "refused"}

Pending == 0

VARIABLES
    at,           \* at[t][i][n]: where the frame is
    value,        \* value[i]: Pending, or the run that built the value
    error,        \* error[i]: "none", or what is cached instead of a value
    context,      \* context[i]: "scope", or "bare" once dropped
    owner,        \* owner[i]: the thread building
    holder,       \* holder[i], held[i]: the reentrant lock
    held,
    runs,         \* runs[i]: how often the factory was started
    asked,        \* asked[t][i][n]: cells the frame's factory has read
    reads,        \* reads[t]: application reads so far
    seen          \* seen[i]: what readers of cell i got (history)

cell == <<value, error, context, owner>>
lock == <<holder, held>>
vars == <<at, cell, lock, runs, asked, reads, seen>>

Outcomes == {"none", "raised", "self"} \X Nat

TypeOK ==
    /\ at \in [Threads -> [Cells -> [Levels -> Places]]]
    /\ value \in [Cells -> Nat]
    /\ error \in [Cells -> {"none", "raised", "self"}]
    /\ context \in [Cells -> {"scope", "bare"}]
    /\ owner \in [Cells -> Threads \cup {NoThread}]
    /\ holder \in [Cells -> Threads \cup {NoThread}]
    /\ held \in [Cells -> Nat]
    /\ runs \in [Cells -> Nat]
    /\ asked \in [Threads -> [Cells -> [Levels -> SUBSET Cells]]]
    /\ reads \in [Threads -> Nat]
    /\ seen \in [Cells -> SUBSET Outcomes]

Init ==
    /\ at = [t \in Threads |-> [i \in Cells |-> [n \in Levels |-> "idle"]]]
    /\ value = [i \in Cells |-> Pending]
    /\ error = [i \in Cells |-> "none"]
    /\ context = [i \in Cells |-> "scope"]
    /\ owner = [i \in Cells |-> NoThread]
    /\ holder = [i \in Cells |-> NoThread]
    /\ held = [i \in Cells |-> 0]
    /\ runs = [i \in Cells |-> 0]
    /\ asked = [t \in Threads |-> [i \in Cells |-> [n \in Levels |-> {}]]]
    /\ reads = [t \in Threads |-> 0]
    /\ seen = [i \in Cells |-> {}]

Unsettled(i) == error[i] = "none" /\ value[i] = Pending
Outcome(i) == <<error[i], value[i]>>

Active(t, i, n) == at[t][i][n] # "idle"
Move(t, i, n, p) == at' = [at EXCEPT ![t][i][n] = p]

\* The frame is on top of its thread's stack: factories read inwards out.
OnTop(t, i, n) ==
    /\ \A j \in Cells, m \in Levels : j < i => ~Active(t, j, m)
    /\ n = 1 => ~Active(t, i, 2)

-----------------------------------------------------------------------------
(* A read.  _LazyCell._nodrill_resolve, then _Resolution.resolve.          *)

\* The application reads a cell on a thread that is not inside a factory.
ApplicationReads(t, n) ==
    /\ n = 1
    /\ \A j \in Cells, m \in Levels : ~Active(t, j, m)
    /\ reads[t] < MaxReads
    /\ reads' = [reads EXCEPT ![t] = @ + 1]
    /\ UNCHANGED asked

\* Mutant: the factory runs in the reader's scope, not in the snapshot.
FactoryReadsAnything(t, i, n) ==
    \E j \in Cells, m \in Levels :
        /\ at[t][j][m] = "running" /\ OnTop(t, j, m)
        /\ i \in Cells \ asked[t][j][m]
        /\ n = IF i = j THEN m + 1 ELSE 1
        /\ asked' = [asked EXCEPT ![t][j][m] = @ \cup {i}]
        /\ UNCHANGED reads

\* The factory of cell j reads cell i, at most once in a run (bound).
FactoryReads(t, i, n) ==
    \E j \in Cells, m \in Levels :
        /\ at[t][j][m] = "running" /\ OnTop(t, j, m)
        /\ i \in Reads[j] \ asked[t][j][m]
        /\ n = IF i = j THEN m + 1 ELSE 1
        /\ asked' = [asked EXCEPT ![t][j][m] = @ \cup {i}]
        /\ UNCHANGED reads

\* A read starts, and takes a built value without the lock.
Read(t, i, n) ==
    /\ ApplicationReads(t, n) \/ FactoryReads(t, i, n)
    /\ IF value[i] # Pending
       THEN seen' = [seen EXCEPT ![i] = @ \cup {<<"none", value[i]>>}] /\ UNCHANGED at
       ELSE Move(t, i, n, "blocked") /\ UNCHANGED seen
    /\ UNCHANGED <<cell, lock, runs>>

-----------------------------------------------------------------------------
(* fill() and build(), inside the lock. *)

\* Mutant: no lock around the build.
AcquireWithoutLock(t, i, n) ==
    /\ at[t][i][n] = "blocked"
    /\ holder' = [holder EXCEPT ![i] = t]
    /\ held' = [held EXCEPT ![i] = @ + 1]
    /\ Move(t, i, n, "locked")
    /\ UNCHANGED <<cell, runs, asked, reads, seen>>

Acquire(t, i, n) ==
    /\ at[t][i][n] = "blocked"
    /\ holder[i] \in {NoThread, t}
    /\ holder' = [holder EXCEPT ![i] = t]
    /\ held' = [held EXCEPT ![i] = @ + 1]
    /\ Move(t, i, n, "locked")
    /\ UNCHANGED <<cell, runs, asked, reads, seen>>

\* Somebody else settled the cell meanwhile.
AlreadySettled(t, i, n) ==
    /\ at[t][i][n] = "locked"
    /\ ~Unsettled(i)
    /\ Move(t, i, n, "leaving")
    /\ UNCHANGED <<cell, lock, runs, asked, reads, seen>>

\* The lock let the building thread through again: its factory reads itself.
Refuse(t, i, n) ==
    /\ at[t][i][n] = "locked"
    /\ Unsettled(i) /\ owner[i] = t
    /\ Move(t, i, n, "refused")
    /\ UNCHANGED <<cell, lock, runs, asked, reads, seen>>

\* Mutant: what the lock was waited for is not checked again.
BuildUnchecked(t, i, n) ==
    /\ at[t][i][n] = "locked"
    /\ owner[i] # t
    /\ owner' = [owner EXCEPT ![i] = t]
    /\ runs' = [runs EXCEPT ![i] = @ + 1]
    /\ asked' = [asked EXCEPT ![t][i][n] = {}]
    /\ Move(t, i, n, "running")
    /\ UNCHANGED <<value, error, context, lock, reads, seen>>

\* The factory starts, inside the cell's context.
Build(t, i, n) ==
    /\ at[t][i][n] = "locked"
    /\ Unsettled(i) /\ owner[i] # t
    /\ owner' = [owner EXCEPT ![i] = t]
    /\ runs' = [runs EXCEPT ![i] = @ + 1]
    /\ asked' = [asked EXCEPT ![t][i][n] = {}]
    /\ Move(t, i, n, "running")
    /\ UNCHANGED <<value, error, context, lock, reads, seen>>

\* The factory of the frame is over and nothing it called is still going.
FactoryOver(t, i, n) ==
    /\ at[t][i][n] = "running" /\ OnTop(t, i, n)
    /\ owner' = [owner EXCEPT ![i] = NoThread]
    /\ UNCHANGED <<lock, runs, asked, reads, seen>>

Returns(t, i, n) ==
    /\ FactoryOver(t, i, n)
    /\ context' = [context EXCEPT ![i] = "bare"]
    /\ value' = [value EXCEPT ![i] = runs[i]]
    /\ Move(t, i, n, "leaving")
    /\ UNCHANGED error

\* The factory returned a view of the very cell it was building.
ReturnsSelf(t, i, n) ==
    /\ FactoryOver(t, i, n)
    /\ context' = [context EXCEPT ![i] = "bare"]
    /\ error' = [error EXCEPT ![i] = "self"]
    /\ Move(t, i, n, "leaving")
    /\ UNCHANGED value

\* An Exception is cached, so every reader gets the same failure.
Raises(t, i, n) ==
    /\ FactoryOver(t, i, n)
    /\ context' = [context EXCEPT ![i] = "bare"]
    /\ error' = [error EXCEPT ![i] = "raised"]
    /\ Move(t, i, n, "leaving")
    /\ UNCHANGED value

\* Mutant: the context is dropped though the factory has to run again.
CancelledDropsContext(t, i, n) ==
    /\ FactoryOver(t, i, n)
    /\ runs[i] < MaxRuns
    /\ context' = [context EXCEPT ![i] = "bare"]
    /\ Move(t, i, n, "cancelled")
    /\ UNCHANGED <<value, error>>

\* A BaseException is not: the next reader starts the factory again.
Cancelled(t, i, n) ==
    /\ FactoryOver(t, i, n)
    /\ runs[i] < MaxRuns
    /\ Move(t, i, n, "cancelled")
    /\ UNCHANGED <<value, error, context>>

FactoryEnds(t, i, n) ==
    \/ Returns(t, i, n) \/ ReturnsSelf(t, i, n)
    \/ Raises(t, i, n) \/ Cancelled(t, i, n)

\* Mutant: the lock is given up whole by the innermost frame.
ReleaseWhole(t, i, n) ==
    /\ at[t][i][n] \in {"leaving", "cancelled", "refused"}
    /\ held' = [held EXCEPT ![i] = IF @ = 2 THEN 0 ELSE @ - 1]
    /\ holder' = [holder EXCEPT ![i] = NoThread]
    /\ seen' = IF at[t][i][n] = "leaving"
               THEN [seen EXCEPT ![i] = @ \cup {Outcome(i)}] ELSE seen
    /\ Move(t, i, n, "idle")
    /\ UNCHANGED <<cell, runs, asked, reads>>

\* Mutant: a BaseException leaves with the lock.
ReleaseUnlessCancelled(t, i, n) ==
    /\ at[t][i][n] \in {"leaving", "cancelled", "refused"}
    /\ IF at[t][i][n] = "cancelled"
       THEN UNCHANGED lock
       ELSE /\ held' = [held EXCEPT ![i] = @ - 1]
            /\ holder' = [holder EXCEPT ![i] = IF held[i] = 1 THEN NoThread ELSE @]
    /\ seen' = IF at[t][i][n] = "leaving"
               THEN [seen EXCEPT ![i] = @ \cup {Outcome(i)}] ELSE seen
    /\ Move(t, i, n, "idle")
    /\ UNCHANGED <<cell, runs, asked, reads>>

\* The lock is released and the frame returns or raises what it read under it.
Release(t, i, n) ==
    /\ at[t][i][n] \in {"leaving", "cancelled", "refused"}
    /\ held' = [held EXCEPT ![i] = @ - 1]
    /\ holder' = [holder EXCEPT ![i] = IF held[i] = 1 THEN NoThread ELSE @]
    /\ seen' = IF at[t][i][n] = "leaving"
               THEN [seen EXCEPT ![i] = @ \cup {Outcome(i)}] ELSE seen
    /\ Move(t, i, n, "idle")
    /\ UNCHANGED <<cell, runs, asked, reads>>

\* What a thread does by itself once a read has started.
Step(t, i, n) ==
    \/ Acquire(t, i, n) \/ AlreadySettled(t, i, n) \/ Refuse(t, i, n)
    \/ Build(t, i, n) \/ FactoryEnds(t, i, n) \/ Release(t, i, n)

\* Every thread has made its reads.
AllRead ==
    /\ \A t \in Threads :
           /\ reads[t] = MaxReads
           /\ \A i \in Cells, n \in Levels : ~Active(t, i, n)
    /\ UNCHANGED vars

Next ==
    \/ \E t \in Threads, i \in Cells, n \in Levels : Read(t, i, n) \/ Step(t, i, n)
    \/ AllRead

Spec == Init /\ [][Next]_vars

\* A thread that can run does: a free lock is taken by whoever waits for it,
\* and a factory ends.
Fairness ==
    \A t \in Threads : WF_vars(\E i \in Cells, n \in Levels : Step(t, i, n))

FairSpec == Spec /\ Fairness

-----------------------------------------------------------------------------
(* Properties. *)

\* A cell has at most one factory running, on one thread and never inside
\* itself: contextvars refuses to enter a Context twice at a time.
OneBuilder ==
    \A i \in Cells, s, t \in Threads, m, n \in Levels :
        at[s][i][m] = "running" /\ at[t][i][n] = "running" => s = t /\ m = n

\* Every reader of a cell, on any thread and any path, gets one and the same
\* outcome: the same built object or the same failure.
OneOutcome == \A i \in Cells : \A x, y \in seen[i] : x = y

\* Whoever touches the cell first, and after however many cancellations, the
\* factory runs in the snapshot of the scope that declared it.
RunsInScope ==
    \A t \in Threads, i \in Cells, n \in Levels :
        at[t][i][n] = "running" => context[i] = "scope"

\* A thread waiting for a cell holds only the locks of cells further in, so
\* no two threads wait for each other.
LockOrder ==
    \A t \in Threads, i, j \in Cells, m, n \in Levels :
        /\ at[t][i][m] = "blocked"
        /\ at[t][j][n] \notin {"idle", "blocked"}
        => i <= j

Reading(t) == \E i \in Cells, n \in Levels : Active(t, i, n)

\* Every read that starts comes back, so do those its factory made, and no
\* thread waits forever for a lock.
ReadsEnd == \A t \in Threads : Reading(t) ~> ~Reading(t)

-----------------------------------------------------------------------------
(* The inductive invariant behind OneBuilder, OneOutcome and RunsInScope.  *)

Inside(p) == p \notin {"idle", "blocked"}

\* A frame past the acquire has the lock, which is held once per such frame.
LockHeld ==
    \A i \in Cells :
        /\ \A t \in Threads, n \in Levels : Inside(at[t][i][n]) => holder[i] = t
        /\ holder[i] = NoThread => held[i] = 0
        /\ \A t \in Threads :
               holder[i] = t =>
                   held[i] = (IF Inside(at[t][i][1]) THEN 1 ELSE 0)
                             + (IF Inside(at[t][i][2]) THEN 1 ELSE 0)

\* A factory's read of its own cell waits inside that factory, and only ever
\* gets the self-reference error.
SelfReadRefused ==
    \A t \in Threads, i \in Cells :
        Active(t, i, 2) => /\ at[t][i][1] = "running"
                           /\ at[t][i][2] \in {"blocked", "locked", "refused"}

\* The owner is the thread whose factory runs, and it runs while unsettled.
OwnerRuns ==
    \A t \in Threads, i \in Cells :
        /\ owner[i] = t <=> at[t][i][1] = "running"
        /\ at[t][i][1] = "running" => Unsettled(i)

\* A factory that is running, or that may still have to, has its scope.
ScopeKept == \A i \in Cells : Unsettled(i) => context[i] = "scope"

\* Only a settled cell hands anything out, and only what it settled on.
HandsOutOutcome ==
    \A i \in Cells :
        /\ \A x \in seen[i] : ~Unsettled(i) /\ x = Outcome(i)
        /\ \A t \in Threads, n \in Levels : at[t][i][n] = "leaving" => ~Unsettled(i)
        /\ value[i] # Pending => error[i] = "none"
        /\ owner[i] # NoThread => runs[i] > 0

IInv ==
    /\ TypeOK
    /\ LockHeld
    /\ SelfReadRefused
    /\ OwnerRuns
    /\ ScopeKept
    /\ HandsOutOutcome

=============================================================================
