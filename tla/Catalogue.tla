----------------------------- MODULE Catalogue -----------------------------
(***************************************************************************)
(* The process-wide configuration: the catalogue declare() writes, the     *)
(* declarations waiting for their ref to resolve, the counters of          *)
(* suspicious fallbacks, the set_default() table, and how isolate() rolls  *)
(* all of it back.                                                         *)
(*                                                                         *)
(* _lock makes one registration atomic, and keeps everything but refs away *)
(* from a scan, which asks them in turn while they resolve; what it found  *)
(* lands at once, when it is done.  What runs without the lock is a step   *)
(* of its own: the test whether a scan is due, the walk of a ref, the      *)
(* assignment of its target, the count of resolutions, the read and the    *)
(* write of a counter, and the two halves of putting the defaults back.    *)
(*                                                                         *)
(* isolate() is used by one thread, a test's, and nests.  The waiting      *)
(* declarations are then always in the order they were made, so the list   *)
(* is a set of entries ordered by `serial'.                                *)
(***************************************************************************)
EXTENDS Integers, Sequences, FiniteSets

CONSTANTS
    Threads,
    Main,         \* the thread that uses isolate()
    Classes,
    Names,        \* string keys
    Refs,
    Unusable,     \* something a ref can name that is no key
    None,         \* no declaration, no counter, no factory
    Factories,
    Indivisible,  \* whether no two `count += 1' overlap, as under the GIL
    MaxSerial,    \* bound: declarations made
    MaxCount,     \* bound: refs filled, double fills included
    MaxFired,     \* bound: firings counted
    MaxDepth      \* bound: isolate() blocks open at a time

Keys == Classes \cup Names

ASSUME MainAssumption == Main \in Threads
ASSUME KeysAssumption == Classes \cap Names = {} /\ Unusable \notin Keys
ASSUME RefsAssumption == Refs \cap Keys = {}
ASSUME BoundsAssumption == /\ Indivisible \in BOOLEAN
                           /\ {MaxSerial, MaxCount, MaxFired, MaxDepth} \subseteq Nat

\* One declaration.  `marked' is fallback="suspicious", `imported' says that a
\* module body on the stack made it, and `serial' stands for the rest.
Declaration == [serial : Nat, marked : BOOLEAN, imported : BOOLEAN]
Pending == [ref : Refs, made : Declaration]

ASSUME NoneAssumption == None \notin Declaration \cup Nat \cup Factories

VARIABLES
    target,       \* target[r]: what ref r names, a key or Unusable
    resolved,     \* refs whose _target is set
    count,        \* _resolutions.count
    scanAt,       \* _scan.at
    declared,     \* _declared[k]
    imported,     \* _imported_declared[k]
    pending,      \* _pending
    fired,        \* _fired[k]
    dropped,      \* serials of the declarations _dropped has a note about
    asked,        \* waiting entries the scan that holds the lock has asked so far
    found,        \* those of them whose ref it found resolved
    defaults,     \* _defaults[k]
    blocks,       \* the isolate() blocks open, each with what it saved
    step,         \* step[t]: what thread t does next
    seen,         \* seen[t]: the count or the firings t read
    after,        \* after[t]: what follows t's scan
    job,          \* job[t]: the key or ref t works on
    made,         \* made[t]: the declaration t is making
    serial,       \* declarations made so far
    landed,       \* serials that reached the catalogue through a ref (history)
    promised,     \* serials of what modules declared through a ref (history)
    forgotten     \* serials a block's end rolled back (history)

tables == <<declared, imported, pending, fired, dropped, asked, found>>
local == <<step, seen, after, job, made>>
history == <<landed, promised, forgotten>>
refs == <<target, resolved>>
vars == <<refs, count, scanAt, tables, defaults, blocks, local, serial, history>>

Saved == [declared : [Keys -> Declaration \cup {None}],
          pending : SUBSET Pending,
          fired : [Classes -> Nat \cup {None}],
          dropped : SUBSET Nat,
          defaults : [Classes -> Factories \cup {None}],
          serial : Nat]

Steps == {"idle", "scan", "ask", "register", "count", "store", "walked", "bump",
          "write", "restored", "clear", "update"}

TypeOK ==
    /\ target \in [Refs -> Keys \cup {Unusable}]
    /\ resolved \subseteq Refs
    /\ count \in Nat
    /\ scanAt \in Int
    /\ declared \in [Keys -> Declaration \cup {None}]
    /\ imported \in [Keys -> Declaration \cup {None}]
    /\ pending \subseteq Pending
    /\ fired \in [Classes -> Nat \cup {None}]
    /\ dropped \subseteq Nat
    /\ found \subseteq asked /\ asked \subseteq pending
    /\ defaults \in [Classes -> Factories \cup {None}]
    /\ blocks \in Seq(Saved)
    /\ step \in [Threads -> Steps]
    /\ seen \in [Threads -> Nat]
    /\ after \in [Threads -> Steps]
    /\ job \in [Threads -> Keys \cup Refs \cup {None}]
    /\ made \in [Threads -> Declaration \cup {None}]
    /\ serial \in Nat
    /\ landed \subseteq Nat
    /\ promised \subseteq Nat
    /\ forgotten \subseteq Nat

Init ==
    /\ target \in [Refs -> Keys \cup {Unusable}]
    /\ resolved = {} /\ count = 0 /\ scanAt = -1
    /\ declared = [k \in Keys |-> None] /\ imported = [k \in Keys |-> None]
    /\ pending = {} /\ dropped = {} /\ asked = {} /\ found = {}
    /\ fired = [k \in Classes |-> None]
    /\ defaults = [k \in Classes |-> None]
    /\ blocks = <<>>
    /\ step = [t \in Threads |-> "idle"] /\ after = [t \in Threads |-> "idle"]
    /\ seen = [t \in Threads |-> 0]
    /\ job = [t \in Threads |-> None] /\ made = [t \in Threads |-> None]
    /\ serial = 0 /\ landed = {} /\ promised = {} /\ forgotten = {}

Go(t, s) == step' = [step EXCEPT ![t] = s]

\* Thread t is done with what it was doing.
Done(t) ==
    /\ Go(t, "idle")
    /\ seen' = [seen EXCEPT ![t] = 0]
    /\ job' = [job EXCEPT ![t] = None]
    /\ made' = [made EXCEPT ![t] = None]

-----------------------------------------------------------------------------
(* Writing the catalogue.  What lands together lands in `serial' order.    *)

Latest(D) == CHOOSE d \in D : \A c \in D : c.serial <= d.serial

\* The declarations of L that are for key k.
For(L, k) == {x.made : x \in {y \in L : y.key = k}}

\* A string key has no factory to count, so it loses the mark.
Recorded(k, d) == IF k \in Classes THEN d ELSE [d EXCEPT !.marked = FALSE]

\* Mutant: a new mark finds no counter waiting.
CounterUnseeded(k, D) == IF ~Latest(D).marked THEN None ELSE fired[k]

\* The counter of k once D landed on it: seeded at zero, kept by a repeat, and
\* gone as soon as one declaration drops the mark.
Counter(k, D) ==
    IF ~Latest(D).marked THEN None
    ELSE IF fired[k] # None /\ \A d \in D : d.marked THEN fired[k] ELSE 0

\* _register() for each of L, a set of keys with their declarations.
Land(L) ==
    /\ declared' = [k \in Keys |-> IF For(L, k) = {} THEN declared[k]
                                   ELSE Recorded(k, Latest(For(L, k)))]
    /\ imported' = [k \in Keys |->
           LET D == {d \in For(L, k) : d.imported} IN
           IF D = {} THEN imported[k] ELSE Recorded(k, Latest(D))]
    /\ fired' = [k \in Classes |-> IF For(L, k) = {} THEN fired[k]
                                   ELSE Counter(k, For(L, k))]
    /\ dropped' = dropped \cup
           {x.made.serial : x \in {y \in L : \/ y.key = Unusable
                                             \/ y.key \in Names /\ y.made.marked}}

\* _absorb(): a scan is due when a declaration waits and a ref was resolved,
\* or one was added, since the last scan.
Absorb(t, then) ==
    IF pending = {} \/ count = scanAt
    THEN Go(t, then) /\ UNCHANGED <<seen, after>>
    ELSE /\ Go(t, "scan")
         /\ seen' = [seen EXCEPT ![t] = count]
         /\ after' = [after EXCEPT ![t] = then]

\* _lock is free for t: no other thread is in the middle of a scan.
Unlocked(t) == \A u \in Threads \ {t} : step[u] # "ask"

\* The entry a scan asks next.
Earliest(P) == {e \in P : \A f \in P : e.made.serial <= f.made.serial}

\* A scan asks one entry's ref; the last ones it asks as it ends.
Ask(t) ==
    /\ step[t] \in {"scan", "ask"} /\ Unlocked(t)
    /\ \E e \in Earliest(pending \ asked) :
           /\ pending \ asked # {e}
           /\ asked' = asked \cup {e}
           /\ found' = IF e.ref \in resolved THEN found \cup {e} ELSE found
    /\ Go(t, "ask")
    /\ UNCHANGED <<refs, count, scanAt, declared, imported, pending, fired, dropped,
                   defaults, blocks, seen, after, job, made, serial, history>>

\* What a scan that ends now has found resolved.
Ready == found \cup {e \in pending \ asked : e.ref \in resolved}

Scan(t) ==
    /\ step[t] \in {"scan", "ask"} /\ Unlocked(t)
    /\ Land({[key |-> target[e.ref], made |-> e.made] : e \in Ready})
    /\ pending' = pending \ Ready
    /\ asked' = {} /\ found' = {}
    /\ landed' = landed \cup {e.made.serial : e \in Ready}
    /\ scanAt' = seen[t]
    /\ Go(t, after[t])
    /\ seen' = [seen EXCEPT ![t] = 0]
    /\ after' = [after EXCEPT ![t] = "idle"]
    /\ UNCHANGED <<refs, count, defaults, blocks, job, made, serial, promised, forgotten>>

\* keys(), explain() and a miss read the catalogue as soon as it is absorbed.
ReadCatalogue(t) ==
    /\ step[t] = "idle"
    /\ pending # {} /\ count # scanAt
    /\ Absorb(t, "idle")
    /\ UNCHANGED <<refs, count, scanAt, tables, defaults, blocks, job, made,
                   serial, history>>

\* declare(): a string key takes no mark, a ref is not imported.
Declare(t, x, marked, byModule) ==
    /\ step[t] = "idle"
    /\ serial + Cardinality({u \in Threads : made[u] # None}) < MaxSerial
    /\ x \in Names => ~marked
    /\ job' = [job EXCEPT ![t] = x]
    /\ made' = [made EXCEPT ![t] =
           [serial |-> 0, marked |-> marked, imported |-> byModule]]
    /\ Absorb(t, "register")
    /\ UNCHANGED <<refs, count, scanAt, tables, defaults, blocks, serial,
                   history>>

\* Mutant: a declaration added for a ref does not reopen the scan.
RegisterUnforced(t) ==
    /\ step[t] = "register" /\ Unlocked(t)
    /\ LET d == [made[t] EXCEPT !.serial = serial + 1] IN
       IF job[t] \in Refs
       THEN /\ pending' = pending \cup {[ref |-> job[t], made |-> d]}
            /\ promised' = promised \cup (IF d.imported THEN {d.serial} ELSE {})
            /\ UNCHANGED <<declared, imported, fired, dropped, scanAt>>
       ELSE /\ Land({[key |-> job[t], made |-> d]})
            /\ UNCHANGED <<pending, scanAt, promised>>
    /\ serial' = serial + 1
    /\ Done(t)
    /\ UNCHANGED <<refs, count, asked, found, defaults, blocks, after, landed, forgotten>>

Register(t) ==
    /\ step[t] = "register" /\ Unlocked(t)
    /\ LET d == [made[t] EXCEPT !.serial = serial + 1] IN
       IF job[t] \in Refs
       THEN /\ pending' = pending \cup {[ref |-> job[t], made |-> d]}
            /\ scanAt' = -1
            /\ promised' = promised \cup (IF d.imported THEN {d.serial} ELSE {})
            /\ UNCHANGED <<declared, imported, fired, dropped>>
       ELSE /\ Land({[key |-> job[t], made |-> d]})
            /\ UNCHANGED <<pending, scanAt, promised>>
    /\ serial' = serial + 1
    /\ Done(t)
    /\ UNCHANGED <<refs, count, asked, found, defaults, blocks, after, landed, forgotten>>

-----------------------------------------------------------------------------
(* Resolving a ref.  The walk imports, so it runs unlocked; two threads may *)
(* walk one ref at once.  A walk that fails leaves nothing behind.          *)

Walk(t, r) ==
    /\ step[t] = "idle" /\ r \notin resolved /\ count < MaxCount
    /\ job' = [job EXCEPT ![t] = r]
    /\ Go(t, "walked")
    /\ UNCHANGED <<refs, count, scanAt, tables, defaults, blocks, seen, after,
                   made, serial, history>>

Fill(t) ==
    /\ step[t] = "walked"
    /\ resolved' = resolved \cup {job[t]}
    /\ Go(t, "bump")
    /\ UNCHANGED <<target, count, scanAt, tables, defaults, blocks, seen, after, job,
                   made, serial, history>>

\* `count += 1' reads the count and writes it back.  Where it is indivisible
\* no two of them overlap.
Bump(t) ==
    /\ step[t] = "bump"
    /\ Indivisible => \A u \in Threads : step[u] # "write"
    /\ seen' = [seen EXCEPT ![t] = count]
    /\ Go(t, "write")
    /\ UNCHANGED <<refs, count, scanAt, tables, defaults, blocks, after, job, made,
                   serial, history>>

WriteCount(t) ==
    /\ step[t] = "write"
    /\ count' = seen[t] + 1
    /\ Done(t)
    /\ UNCHANGED <<refs, scanAt, tables, defaults, blocks, after, serial,
                   history>>

-----------------------------------------------------------------------------
(* Fallback factories and their counters. *)

SetDefault(t, k, f) ==
    /\ step[t] = "idle"
    /\ defaults' = [defaults EXCEPT ![k] = f]
    /\ UNCHANGED <<refs, count, scanAt, tables, blocks, local, serial,
                   history>>

\* use(k) falls back to the factory, past the gate of the miss path.
FallBack(t, k) ==
    /\ step[t] = "idle"
    /\ defaults[k] # None
    /\ pending # {} \/ fired[k] # None
    /\ fired[k] # None => fired[k] < MaxFired
    /\ job' = [job EXCEPT ![t] = k]
    /\ Absorb(t, "count")
    /\ UNCHANGED <<refs, count, scanAt, tables, defaults, blocks, made, serial,
                   history>>

\* Mutant: a class without a counter is counted all the same.
ReadCounterUnguarded(t) ==
    /\ step[t] = "count"
    /\ Go(t, "store")
    /\ seen' = [seen EXCEPT ![t] = fired[job[t]]]
    /\ UNCHANGED <<job, made>>
    /\ UNCHANGED <<refs, count, scanAt, tables, defaults, blocks, after, serial,
                   history>>

\* The counter is read and written back unlocked.
ReadCounter(t) ==
    /\ step[t] = "count"
    /\ IF fired[job[t]] = None
       THEN Done(t)
       ELSE /\ Go(t, "store")
            /\ seen' = [seen EXCEPT ![t] = fired[job[t]]]
            /\ UNCHANGED <<job, made>>
    /\ UNCHANGED <<refs, count, scanAt, tables, defaults, blocks, after, serial,
                   history>>

WriteCounter(t) ==
    /\ step[t] = "store"
    /\ fired' = [fired EXCEPT ![job[t]] = seen[t] + 1]
    /\ Done(t)
    /\ UNCHANGED <<refs, count, scanAt, declared, imported, pending, dropped, asked,
                   found, defaults, blocks, after, serial, history>>

-----------------------------------------------------------------------------
(* isolate(). *)

Innermost == blocks[Len(blocks)]

IsolateEnter ==
    /\ step[Main] = "idle" /\ Len(blocks) < MaxDepth /\ Unlocked(Main)
    /\ blocks' = Append(blocks,
           [declared |-> declared, pending |-> pending, fired |-> fired,
            dropped |-> dropped, defaults |-> defaults, serial |-> serial])
    /\ UNCHANGED <<refs, count, scanAt, tables, defaults, local, serial,
                   history>>

\* Mutant: nothing is pruned.
MergedUnpruned(saved) ==
    [k \in Keys |-> IF saved.declared[k] # None THEN saved.declared[k]
                    ELSE IF imported[k] # None THEN imported[k] ELSE declared[k]]

\* Mutant: a block takes the declarations of the modules it imported with it.
MergedSavedOnly(saved) == saved.declared

\* The catalogue a block leaves: what it started from over what modules said.
Merged(saved) ==
    [k \in Keys |-> IF saved.declared[k] # None THEN saved.declared[k] ELSE imported[k]]

\* The declarations a block made itself and no module did.
MadeInside(saved) ==
    {d \in {declared[k] : k \in {j \in Keys : declared[j] # None}}
             \cup {e.made : e \in pending} :
        d.serial > saved.serial /\ ~d.imported}

\* _restore(), the part under the lock.
Restore ==
    /\ step[Main] = "idle" /\ blocks # <<>> /\ Unlocked(Main)
    /\ LET merged == Merged(Innermost) IN
       /\ declared' = merged
       /\ fired' = [k \in Classes |->
              IF merged[k] = None \/ ~merged[k].marked THEN None
              ELSE IF Innermost.fired[k] = None THEN 0 ELSE Innermost.fired[k]]
    /\ pending' = Innermost.pending \cup {e \in pending : e.made.imported}
    /\ dropped' = Innermost.dropped
    /\ scanAt' = -1
    /\ forgotten' = forgotten \cup {d.serial : d \in MadeInside(Innermost)}
    /\ Go(Main, "restored")
    /\ UNCHANGED <<refs, count, imported, asked, found, defaults, blocks, seen, after,
                   job, made, serial, landed, promised>>

\* Mutant: what was put back to wait is left waiting.
ReabsorbNothing ==
    /\ step[Main] = "restored"
    /\ Go(Main, "clear")
    /\ UNCHANGED <<refs, count, scanAt, tables, defaults, blocks, seen, after, job,
                   made, serial, history>>

\* A declaration made before the block whose ref resolved inside lands again.
Reabsorb ==
    /\ step[Main] = "restored"
    /\ Absorb(Main, "clear")
    /\ UNCHANGED <<refs, count, scanAt, tables, defaults, blocks, job, made,
                   serial, history>>

\* The defaults are emptied, then filled with what was saved.
ClearDefaults ==
    /\ step[Main] = "clear"
    /\ defaults' = [k \in Classes |-> None]
    /\ Go(Main, "update")
    /\ UNCHANGED <<refs, count, scanAt, tables, blocks, seen, after, job, made,
                   serial, history>>

UpdateDefaults ==
    /\ step[Main] = "update"
    /\ defaults' = [k \in Classes |-> IF Innermost.defaults[k] # None
                                      THEN Innermost.defaults[k] ELSE defaults[k]]
    /\ blocks' = SubSeq(blocks, 1, Len(blocks) - 1)
    /\ Go(Main, "idle")
    /\ UNCHANGED <<refs, count, scanAt, tables, seen, after, job, made, serial,
                   history>>

Isolating == IsolateEnter \/ Restore \/ Reabsorb \/ ClearDefaults \/ UpdateDefaults

Next ==
    \/ \E t \in Threads :
           \/ ReadCatalogue(t) \/ Ask(t) \/ Scan(t) \/ Register(t)
           \/ Fill(t) \/ Bump(t) \/ WriteCount(t)
           \/ ReadCounter(t) \/ WriteCounter(t)
           \/ \E x \in Keys \cup Refs, m, i \in BOOLEAN : Declare(t, x, m, i)
           \/ \E r \in Refs : Walk(t, r)
           \/ \E k \in Classes :
                  \/ FallBack(t, k)
                  \/ \E f \in Factories \cup {None} : SetDefault(t, k, f)
    \/ Isolating

Spec == Init /\ [][Next]_vars

-----------------------------------------------------------------------------
(* Properties. *)

\* A declaration made through a ref takes effect once the ref has resolved:
\* whatever scans and resolutions overlapped, the next read of the catalogue
\* still scans for it (_declare.py:228-231).
NothingMissed ==
    \A e \in pending :
        e.ref \in resolved =>
            \/ scanAt # count
            \/ \E t \in Threads : step[t] \in {"bump", "write"} /\ job[t] = e.ref

\* A class declared suspicious has a counter, through every redeclaration and
\* rollback, so the gate of the miss path never lets a firing by uncounted.
SuspiciousCounted ==
    \A k \in Classes :
        declared[k] # None => (declared[k].marked => fired[k] # None)

\* A key some module's body declared stays in the catalogue whatever block ends,
\* with that declaration or another one, and what a module declared through a ref
\* waits until it lands.
ModulesKept ==
    /\ \A k \in Keys : imported[k] # None => declared[k] # None
    /\ \A s \in promised : s \in landed \/ \E e \in pending : e.made.serial = s

\* What a block declared itself never comes back once the block is over, from
\* no snapshot, waiting list or scan under way on another thread.
BlockForgotten ==
    /\ \A k \in Keys : declared[k] # None => declared[k].serial \notin forgotten
    /\ \A e \in pending : e.made.serial \notin forgotten

\* Outside isolate() a declaration that reached the catalogue is no longer
\* waiting, so it cannot land again over a later one.
LandsOnce == blocks = <<>> => \A e \in pending : e.made.serial \notin landed

\* A declaration a module made while a block imported it stays, except over
\* one the block started from (docs/content/ref/declaring.rst:52).
ModuleDeclarationStays ==
    step[Main] = "clear" =>
        \A k \in Keys :
            Innermost.declared[k] = None /\ imported[k] # None
                => declared[k] = imported[k]

-----------------------------------------------------------------------------
(* The inductive invariant behind NothingMissed, SuspiciousCounted and      *)
(* ModulesKept.                                                             *)

\* What a thread goes on with after its scan, or at once without one.
Ahead(t) == IF step[t] \in {"scan", "ask"} THEN after[t] ELSE step[t]

\* A thread in the middle of something has what it works on.
EquippedAt(t) ==
    /\ step[t] \in {"scan", "ask"} => after[t] \in {"idle", "register", "count", "clear"}
    /\ Ahead(t) \in {"walked", "bump", "write"} => job[t] \in Refs
    /\ Ahead(t) = "register" => job[t] \in Keys \cup Refs /\ made[t] \in Declaration
    /\ Ahead(t) \in {"count", "store"} => job[t] \in Classes
    /\ Ahead(t) \in {"restored", "clear", "update"} => t = Main /\ blocks # <<>>

Equipped == \A t \in Threads : EquippedAt(t)

\* Serials are handed out in order.
Numbered ==
    /\ \A e \in pending : e.made.serial <= serial
    /\ \A i \in 1..Len(blocks) :
           \A e \in blocks[i].pending : e.made.serial <= serial

\* A scan never records a count the resolutions have not reached, and only one
\* thread at a time is about to write the next one.
ScansBehind ==
    /\ scanAt <= count
    /\ \A t \in Threads : step[t] \in {"scan", "ask"} => seen[t] <= count
    /\ \A t \in Threads : step[t] = "write" =>
           /\ seen[t] = count
           /\ \A u \in Threads : step[u] = "write" => u = t

\* One thread holds the lock, and nobody has asked anything without it.
OneAsks ==
    /\ \A t, u \in Threads : step[t] = "ask" /\ step[u] = "ask" => t = u
    /\ asked # {} => \E t \in Threads : step[t] = "ask"

\* Where a scan was answered `not yet' and the ref has resolved since, the count
\* moves on from the one the scan is to record.
AskedTooEarly ==
    \A t \in Threads, e \in asked \ found :
        step[t] = "ask" /\ e.ref \in resolved =>
            \/ seen[t] # count
            \/ \E u \in Threads : step[u] \in {"bump", "write"} /\ job[u] = e.ref

\* What a module declared through a ref waits as a module's declaration.
PromisesWait ==
    \A s \in promised :
        s \in landed \/ \E e \in pending : e.made.serial = s /\ e.made.imported

IInv ==
    /\ TypeOK
    /\ Equipped
    /\ Numbered
    /\ OneAsks
    /\ PromisesWait
    /\ SuspiciousCounted
    /\ ModulesKept
    /\ Indivisible => ScansBehind /\ AskedTooEarly /\ NothingMissed

=============================================================================
