------------------------------- MODULE Audit -------------------------------
(***************************************************************************)
(* The contract audit: what a process records, the shard it writes on its  *)
(* way out, and the contract rendered from the shards of a directory.      *)
(*                                                                         *)
(* Processes start on their own, are spawned or are forked; they record    *)
(* facts, leave through their exit hooks or are killed, and a write may    *)
(* fail.  A thread may go on recording while the hooks run.  The directory *)
(* is reused from run to run.  Rendering reads it and changes nothing, so  *)
(* it is an operator, `Renders': what `python -m nodrill contract' would   *)
(* print if it ran now.                                                    *)
(***************************************************************************)
EXTENDS Naturals, FiniteSets

CONSTANTS
    Procs,
    Runs,        \* NODRILL_CONTRACT_RUN, minted or set from outside
    Entries,     \* entry points
    Keys,        \* what they read
    Facts,       \* what the program's lookups can record
    Late,        \* what the threads that outlive its main one can record
    Declared,    \* entries named by NODRILL_CONTRACT_ENTRY
    Limit,       \* _READS_LIMIT
    Stub,        \* a key cut short by a torn write
    None

\* (entry, verb, key), where the verb "opened" says that a declared boundary
\* opened and "requires" stands for the three verbs that record a read.
Fact == [entry : Entries, verb : {"requires", "opened"}, key : Keys \cup {Stub}]
ASSUME FactsAssumption ==
    /\ Late \subseteq Facts /\ Facts \subseteq Fact
    /\ \A f \in Facts : f.key # Stub /\ (f.verb = "opened" => f.entry \in Declared)
ASSUME LimitAssumption == Limit \in Nat
\* Where a shard's text ends: where the reader refuses it, having no first line or
\* half a last one, where the reader does not, or where the writer meant it to.
Shard == [run : Runs, facts : SUBSET Fact, ends : {"cut", "line", "whole"}]
Ids == Procs \X {1, 2}
ASSUME NoneAssumption == None \notin Runs \cup Shard

VARIABLES
    phase,    \* phase[p]: new, running, exiting or gone
    run,      \* run[p]: the run p joined, or None
    reads,    \* reads[p]: _reads
    hooks,    \* hooks[p]: exit hooks still to run
    dump,     \* dump[p]: where _dump() is
    shards,   \* shards[<<p, n>>]: the file p wrote in its last hook but n - 1
    newest,   \* runs holding a shard with the greatest mtime, several on a tie
    owed,     \* owed[p]: facts p recorded before it began to exit (history)
    later,    \* later[p]: facts p recorded while exiting, since _dump() last
              \* forgot (history)
    broken    \* processes killed or refused by the disk (history)

history == <<owed, later, broken>>
vars == <<phase, run, reads, hooks, dump, shards, newest, history>>

Idle == [step |-> "none", facts |-> {}]
Dump == [step : {"none", "copied", "forgotten", "writing"}, facts : SUBSET Fact]

TypeOK ==
    /\ phase \in [Procs -> {"new", "running", "exiting", "gone"}]
    /\ run \in [Procs -> Runs \cup {None}]
    /\ reads \in [Procs -> SUBSET Facts]
    /\ hooks \in [Procs -> 0..2]
    /\ dump \in [Procs -> Dump]
    /\ shards \in [Ids -> Shard \cup {None}]
    /\ newest \subseteq Runs
    /\ owed \in [Procs -> SUBSET Facts] /\ later \in [Procs -> SUBSET Facts]
    /\ broken \subseteq Procs
    /\ \A p \in Procs : IsFiniteSet(reads[p]) /\ Cardinality(reads[p]) <= Limit

Init ==
    /\ phase = [p \in Procs |-> "new"]
    /\ run = [p \in Procs |-> None]
    /\ reads = [p \in Procs |-> {}]
    /\ hooks = [p \in Procs |-> 0]
    /\ dump = [p \in Procs |-> Idle]
    /\ shards = [i \in Ids |-> None]
    /\ newest = {}
    /\ owed = [p \in Procs |-> {}] /\ later = [p \in Procs |-> {}]
    /\ broken = {}

-----------------------------------------------------------------------------
(* Processes. *)

\* A fresh interpreter imports the library, which arms it.  It has the atexit
\* hook and the finalizer, or a pool worker's finalizer alone.
Armed(p, r, n) ==
    /\ phase[p] = "new"
    /\ phase' = [phase EXCEPT ![p] = "running"]
    /\ run' = [run EXCEPT ![p] = r]
    /\ hooks' = [hooks EXCEPT ![p] = n]

Start(p, r) ==
    /\ Armed(p, r, 2)
    /\ UNCHANGED <<reads, dump, shards, newest, history>>

Spawn(p, q) ==
    /\ phase[q] = "running"
    /\ \E n \in {1, 2} : Armed(p, run[q], n)
    /\ UNCHANGED <<reads, dump, shards, newest, history>>

\* Mutant: the fork clears the finalizer and nothing registers it again.
ForkUnregistered(p, q) ==
    /\ phase[q] = "running"
    /\ Armed(p, run[q], 0)
    /\ reads' = [reads EXCEPT ![p] = reads[q]]
    /\ owed' = [owed EXCEPT ![p] = reads[q]]
    /\ UNCHANGED <<dump, shards, newest, later, broken>>

\* A forked worker has its parent's memory and registers the finalizer again.
Fork(p, q) ==
    /\ phase[q] = "running"
    /\ Armed(p, run[q], 1)
    /\ reads' = [reads EXCEPT ![p] = reads[q]]
    /\ owed' = [owed EXCEPT ![p] = reads[q]]
    /\ UNCHANGED <<dump, shards, newest, later, broken>>

Exit(p) ==
    /\ phase[p] = "running"
    /\ phase' = [phase EXCEPT ![p] = "exiting"]
    /\ UNCHANGED <<run, reads, hooks, dump, shards, newest, history>>

\* A process takes its memory with it.
Gone(p) ==
    /\ phase' = [phase EXCEPT ![p] = "gone"]
    /\ reads' = [reads EXCEPT ![p] = {}]
    /\ dump' = [dump EXCEPT ![p] = Idle]
    /\ hooks' = [hooks EXCEPT ![p] = 0]
    /\ later' = [later EXCEPT ![p] = {}]
    /\ UNCHANGED <<run, shards, newest>>

Over(p) ==
    /\ phase[p] = "exiting" /\ hooks[p] = 0
    /\ Gone(p)
    /\ UNCHANGED <<owed, broken>>

Kill(p) ==
    /\ phase[p] \in {"running", "exiting"}
    /\ Gone(p)
    /\ owed' = [owed EXCEPT ![p] = {}]
    /\ broken' = broken \cup {p}

-----------------------------------------------------------------------------
(* Recording. *)

\* Mutant: nothing counts what is recorded.
NoteUncapped(p, f) ==
    /\ phase[p] = "running" /\ f \notin reads[p]
    /\ reads' = [reads EXCEPT ![p] = @ \cup {f}]
    /\ owed' = [owed EXCEPT ![p] = @ \cup {f}]
    /\ UNCHANGED <<phase, run, hooks, dump, shards, newest, later, broken>>

\* _note(), in one step: two threads at the cap might pass it by one.  Past the
\* cap a fact is dropped, with a message the first time.
Note(p, f) ==
    /\ phase[p] = "running" \/ (phase[p] = "exiting" /\ f \in Late)
    /\ f \notin reads[p]
    /\ Cardinality(reads[p]) < Limit
    /\ reads' = [reads EXCEPT ![p] = @ \cup {f}]
    /\ IF phase[p] = "running"
       THEN owed' = [owed EXCEPT ![p] = @ \cup {f}] /\ UNCHANGED later
       ELSE later' = [later EXCEPT ![p] = @ \cup {f}] /\ UNCHANGED owed
    /\ UNCHANGED <<phase, run, hooks, dump, shards, newest, broken>>

-----------------------------------------------------------------------------
(* _dump(), which each exit hook runs: copy, forget, open a file, write it. *)

HookOver(p) ==
    /\ hooks' = [hooks EXCEPT ![p] = @ - 1]
    /\ dump' = [dump EXCEPT ![p] = Idle]

Copy(p) ==
    /\ phase[p] = "exiting" /\ hooks[p] > 0 /\ dump[p].step = "none"
    /\ IF reads[p] = {} THEN HookOver(p)
       ELSE /\ dump' = [dump EXCEPT ![p] = [step |-> "copied", facts |-> reads[p]]]
            /\ UNCHANGED hooks
    /\ UNCHANGED <<phase, run, reads, shards, newest, history>>

At(p, step) == phase[p] = "exiting" /\ dump[p].step = step

Forget(p) ==
    /\ At(p, "copied")
    /\ reads' = [reads EXCEPT ![p] = {}]
    /\ dump' = [dump EXCEPT ![p].step = "forgotten"]
    /\ later' = [later EXCEPT ![p] = {}]
    /\ UNCHANGED <<phase, run, hooks, shards, newest, owed, broken>>

\* The shard holds these facts, and ends there.  Its mtime is past the others',
\* or a coarse clock's tie with them.
Put(p, facts, ends) ==
    /\ shards' = [shards EXCEPT ![<<p, hooks[p]>>] =
                    [run |-> run[p], facts |-> facts, ends |-> ends]]
    /\ newest' \in {{run[p]}, newest \cup {run[p]}}

\* Opening creates the file empty.
Open(p) ==
    /\ At(p, "forgotten")
    /\ Put(p, {}, "cut")
    /\ dump' = [dump EXCEPT ![p].step = "writing"]
    /\ UNCHANGED <<phase, run, reads, hooks, history>>

\* A buffer reaches the disk, one before the last: some of the lines, and where
\* it was cut.  Past its last tab, a cut line reads as a fact with a shorter key;
\* before it, the reader refuses the file whatever else it holds.
WriteSome(p) ==
    /\ At(p, "writing") /\ shards[<<p, hooks[p]>>].ends = "cut"
    /\ \E kept \in SUBSET dump[p].facts \ {dump[p].facts} :
        \/ Put(p, kept, "line")
        \/ \E f \in dump[p].facts \ kept :
               Put(p, kept \cup {[f EXCEPT !.key = Stub]}, "line")
    /\ UNCHANGED <<phase, run, reads, hooks, dump, history>>

Write(p) ==
    /\ At(p, "writing")
    /\ Put(p, dump[p].facts, "whole")
    /\ HookOver(p)
    /\ UNCHANGED <<phase, run, reads, history>>

\* OSError from the directory, the open or a write: a message, and no retry.
Fail(p) ==
    /\ At(p, "forgotten") \/ At(p, "writing")
    /\ HookOver(p)
    /\ broken' = broken \cup {p}
    /\ owed' = [owed EXCEPT ![p] = {}]
    /\ UNCHANGED <<phase, run, reads, shards, newest, later>>

DumpStep(p) == Copy(p) \/ Forget(p) \/ Open(p) \/ Write(p) \/ Over(p)

-----------------------------------------------------------------------------
(* Rendering. *)

Written == {i \in Ids : shards[i] # None}
Group(r) == {i \in Written : shards[i].run = r}

\* _merge(): the run that wrote last, any of them on a tie; the shards of the
\* other runs are left out.
Current(r) == r \in newest

\* Mutant: a directory used again is read whole.
MergedAll(r) == UNION {shards[i].facts : i \in Written}
Merged(r) == UNION {shards[i].facts : i \in Group(r)}

\* _parse(): the reader refuses a shard that stops short of its first line or
\* inside a line, and with it the contract.
Legible(r) == \A i \in Group(r) : shards[i].ends \in {"line", "whole"}

Visible(facts) ==
    LET read == {f.entry : f \in {g \in facts : g.verb # "opened"}}
    IN {f \in facts : f.verb # "opened" \/ f.entry \notin read}

\* Mutant: a boundary that read nothing counts as unseen.
UnseenIdle(facts) == Declared \ {f.entry : f \in {g \in facts : g.verb # "opened"}}
Unseen(facts) == Declared \ {f.entry : f \in facts}

\* _contract(), where it returns 0: what it renders and what it says is unseen.
Renders == {[run |-> r, facts |-> Visible(Merged(r)), unseen |-> Unseen(Merged(r))] :
              r \in {q \in Runs : Current(q) /\ Legible(q)}}

-----------------------------------------------------------------------------

Next ==
    \/ \E p \in Procs :
        \/ \E r \in Runs : Start(p, r)
        \/ \E q \in Procs : Spawn(p, q) \/ Fork(p, q)
        \/ \E f \in Facts : Note(p, f)
        \/ Exit(p) \/ Kill(p)
        \/ DumpStep(p) \/ WriteSome(p) \/ Fail(p)

Spec == Init /\ [][Next]_vars

-----------------------------------------------------------------------------
(* Properties. *)

OnDisk(p) == UNION {shards[i].facts : i \in {<<p, n>> : n \in {1, 2}} \cap
                                        {j \in Written : shards[j].ends = "whole"}}

\* A fact that a process recorded before it began to exit is in its reads, on
\* its way to the disk or on the disk, whatever its other threads record while
\* its hooks run, unless it was killed or the disk failed.
NoneLost ==
    \A p \in Procs : owed[p] \subseteq reads[p] \cup dump[p].facts \cup OnDisk(p)

\* A process is finalized as well as registered at exit: what its second hook
\* takes was recorded after the first had forgotten.
NothingTwice ==
    \A p \in Procs :
        dump[p].step = "copied" /\ shards[<<p, 2>>] # None => dump[p].facts \subseteq later[p]

\* A rendered contract holds facts of its own run's processes, however many runs
\* share the directory.
ContractIsOfItsRun ==
    \A c \in Renders : \A f \in c.facts : \E p \in Procs, n \in {1, 2} :
        run[p] = c.run /\ shards[<<p, n>>] # None /\ f \in shards[<<p, n>>].facts

Quiet(r) == \A p \in Procs : run[p] = r => phase[p] = "gone" /\ p \notin broken

\* Once every process of a run has left through its hooks, its contract
\* accounts for each fact they recorded, and a boundary reported as unopened
\* was opened by none of them.
ContractComplete ==
    \A c \in Renders : Quiet(c.run) =>
        \A p \in Procs : run[p] = c.run =>
            \A f \in owed[p] :
                /\ f.entry \in {g.entry : g \in c.facts}
                /\ f.verb # "opened" => f \in c.facts
                /\ f.entry \notin c.unseen
=============================================================================
