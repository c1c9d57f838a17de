----------------------------- MODULE AuditProof -----------------------------
(***************************************************************************)
(* Proofs about Audit: an exit hook takes over what the process recorded   *)
(* and leaves no gap between its memory and the disk, and a second hook    *)
(* writes nothing the first one wrote.                                     *)
(***************************************************************************)
EXTENDS Audit, TLAPS, FiniteSetTheorems

Types ==
    /\ phase \in [Procs -> {"new", "running", "exiting", "gone"}]
    /\ run \in [Procs -> Runs \cup {None}]
    /\ reads \in [Procs -> SUBSET Facts]
    /\ hooks \in [Procs -> 0..2]
    /\ dump \in [Procs -> Dump]
    /\ shards \in [Ids -> Shard \cup {None}]
    /\ owed \in [Procs -> SUBSET Facts] /\ later \in [Procs -> SUBSET Facts]

Whole(p, n) == shards[<<p, n>>] # None /\ shards[<<p, n>>].ends = "whole"

\* A process that has not begun to exit has written nothing; a hook that has
\* begun is counted.
Phased(p) ==
    /\ phase[p] = "new" => hooks[p] = 0 /\ owed[p] = {}
    /\ phase[p] \in {"new", "running"} => \A n \in {1, 2} : shards[<<p, n>>] = None
    /\ phase[p] \in {"running", "exiting"} => run[p] \in Runs
    /\ phase[p] = "running" => hooks[p] > 0
    /\ phase[p] = "gone" => hooks[p] = 0
    /\ \A n \in {1, 2} : shards[<<p, n>>] # None => shards[<<p, n>>].run = run[p]
    /\ dump[p].step # "none" => phase[p] = "exiting" /\ hooks[p] > 0
    /\ dump[p].step = "none" => dump[p].facts = {}

\* Of the hooks still to run, only the one that is writing has a file, which is
\* not whole.
Opened(p) ==
    \A n \in {1, 2} :
        n <= hooks[p] /\ shards[<<p, n>>] # None =>
            n = hooks[p] /\ dump[p].step = "writing" /\ ~Whole(p, n)

Saved(p, f) == \E n \in {1, 2} : Whole(p, n) /\ f \in shards[<<p, n>>].facts

\* A fact owed is in the copy or on the disk, or still in memory if no hook has
\* copied it.
Held(p) ==
    \A f \in owed[p] : \/ Saved(p, f)
                       \/ f \in dump[p].facts
                       \/ dump[p].step = "none" /\ hooks[p] > 0 /\ f \in reads[p]

\* What is in memory once a hook has forgotten was recorded since.
Forgotten(p) ==
    /\ dump[p].step \in {"forgotten", "writing"} => reads[p] \subseteq later[p]
    /\ shards[<<p, 2>>] # None => reads[p] \subseteq later[p]
    /\ dump[p].step = "copied" => dump[p].facts \subseteq reads[p]

Process(p) == Phased(p) /\ Opened(p) /\ Held(p) /\ Forgotten(p)
IInv == Types /\ \A p \in Procs : Process(p)

Same(p) ==
    /\ phase'[p] = phase[p] /\ run'[p] = run[p] /\ reads'[p] = reads[p]
    /\ hooks'[p] = hooks[p] /\ dump'[p] = dump[p]
    /\ owed'[p] = owed[p] /\ later'[p] = later[p]
    /\ \A n \in {1, 2} : shards'[<<p, n>>] = shards[<<p, n>>]

-----------------------------------------------------------------------------

LEMMA FactsIn == Facts \subseteq Fact
BY FactsAssumption

\* A step that leaves a process alone keeps what holds of it.
LEMMA Frame ==
    ASSUME NEW p \in Procs, Process(p), Same(p) PROVE Process(p)'
BY DEF Process, Same, Phased, Opened, Held, Forgotten, Saved, Whole

LEMMA ArmedHolds ==
    ASSUME IInv, NEW p \in Procs, NEW r \in Runs, NEW n \in 1..2, Armed(p, r, n),
           UNCHANGED <<dump, shards>>,
           \/ UNCHANGED <<reads, history>>
           \/ \E q \in Procs : /\ reads' = [reads EXCEPT ![p] = reads[q]]
                               /\ owed' = [owed EXCEPT ![p] = reads[q]]
                               /\ UNCHANGED later
    PROVE  IInv'
<1>1. Types' BY DEF IInv, Types, Armed, history
<1>2. \A q \in Procs \ {p} : Same(q) BY DEF IInv, Types, Armed, Same, history
<1>3. Process(p)'
  <2>1. Process(p) /\ phase[p] = "new" BY DEF IInv, Armed
  <2>2. /\ phase'[p] = "running" /\ run'[p] = r /\ hooks'[p] = n /\ dump' = dump /\ shards' = shards
        /\ owed'[p] \subseteq reads'[p] BY <2>1 DEF IInv, Types, Armed, Process, Phased, history
  <2>3. dump[p].step = "none" BY <2>1 DEF Process, Phased
  <2>4. QED BY <2>1, <2>2, <2>3 DEF Process, Phased, Opened, Held, Forgotten, Saved, Whole
<1>4. QED BY <1>1, <1>2, <1>3, Frame DEF IInv

LEMMA ExitHolds == ASSUME IInv, NEW p \in Procs, Exit(p) PROVE IInv'
<1>1. Types' BY DEF IInv, Types, Exit, history
<1>2. \A q \in Procs \ {p} : Same(q) BY DEF IInv, Types, Exit, Same, history
<1>3. Process(p)'
  <2>1. Process(p) /\ phase'[p] = "exiting" /\ dump[p].step = "none"
    BY DEF IInv, Types, Exit, Process, Phased
  <2>2. QED BY <2>1 DEF Exit, history, Process, Phased, Opened, Held, Forgotten, Saved, Whole
<1>4. QED BY <1>1, <1>2, <1>3, Frame DEF IInv

\* A process that is over has run its hooks; one that was killed is owed nothing.
LEMMA GoneHolds ==
    ASSUME IInv, NEW p \in Procs, Gone(p), phase[p] \in {"running", "exiting"},
           \/ hooks[p] = 0 /\ UNCHANGED owed
           \/ owed' = [owed EXCEPT ![p] = {}],
           phase[p] = "exiting" \/ owed'[p] = {}
    PROVE  IInv'
<1>1. Types' BY DEF IInv, Types, Gone, Idle, Dump
<1>2. \A q \in Procs \ {p} : Same(q) BY DEF IInv, Types, Gone, Same
<1>3. Process(p)'
  <2>1. /\ Process(p) /\ phase'[p] = "gone" /\ dump'[p].step = "none" /\ dump'[p].facts = {}
        /\ hooks'[p] = 0 /\ reads'[p] = {} /\ shards' = shards /\ run' = run
    BY DEF IInv, Types, Gone, Idle
  <2>2. Held(p)'
    <3>1. CASE hooks[p] = 0 /\ UNCHANGED owed
      <4>1. dump[p].step = "none" /\ dump[p].facts = {} BY <2>1, <3>1 DEF Process, Phased
      <4>2. QED BY <2>1, <3>1, <4>1 DEF Process, Held, Saved, Whole
    <3>2. CASE owed' = [owed EXCEPT ![p] = {}] BY <3>2 DEF IInv, Types, Held
    <3>3. QED BY <3>1, <3>2
  <2>3. QED BY <2>1, <2>2 DEF Process, Phased, Opened, Forgotten, Saved, Whole
<1>4. QED BY <1>1, <1>2, <1>3, Frame DEF IInv

LEMMA NoteHolds == ASSUME IInv, NEW p \in Procs, NEW f \in Facts, Note(p, f) PROVE IInv'
<1>1. Types' BY DEF IInv, Types, Note
<1>2. \A q \in Procs \ {p} : Same(q) BY DEF IInv, Types, Note, Same
<1>3. Process(p)'
  <2>1. /\ Process(p) /\ reads'[p] = reads[p] \cup {f}
        /\ UNCHANGED <<phase, run, hooks, dump, shards>>
    BY DEF IInv, Types, Note
  <2>2. CASE phase[p] = "running"
    <3>1. /\ dump[p].step = "none" /\ owed'[p] = owed[p] \cup {f} /\ later' = later
          /\ shards[<<p, 2>>] = None
      BY <2>1, <2>2 DEF IInv, Types, Note, Process, Phased
    <3>2. QED BY <2>1, <2>2, <3>1 DEF Process, Phased, Opened, Held, Forgotten, Saved, Whole
  <2>3. CASE phase[p] = "exiting"
    <3>1. owed' = owed /\ later'[p] = later[p] \cup {f} BY <2>3 DEF IInv, Types, Note
    <3>2. QED BY <2>1, <2>3, <3>1 DEF Process, Phased, Opened, Held, Forgotten, Saved, Whole
  <2>4. QED BY <2>2, <2>3 DEF Note
<1>4. QED BY <1>1, <1>2, <1>3, Frame DEF IInv

LEMMA CopyHolds == ASSUME IInv, NEW p \in Procs, Copy(p) PROVE IInv'
<1>1. Types'
  <2>1. reads[p] \in SUBSET Fact BY FactsIn DEF IInv, Types
  <2>2. CASE reads[p] = {} BY <2>2 DEF IInv, Types, Copy, HookOver, Idle, Dump, history
  <2>3. CASE reads[p] # {} BY <2>1, <2>3 DEF IInv, Types, Copy, Dump, history
  <2>4. QED BY <2>2, <2>3
<1>2. \A q \in Procs \ {p} : Same(q) BY DEF IInv, Types, Copy, HookOver, Same, history
<1>3. Process(p)'
  <2>1. /\ Process(p) /\ phase[p] = "exiting" /\ hooks[p] > 0 /\ dump[p].step = "none"
        /\ hooks[p] \in 0..2 /\ dump[p].facts = {}
        /\ UNCHANGED <<phase, run, reads, shards, owed, later>>
    BY DEF IInv, Types, Copy, Process, Phased, history
  <2>2. CASE reads[p] = {}
    <3>1. hooks'[p] = hooks[p] - 1 /\ dump'[p] = Idle BY <2>2 DEF IInv, Types, Copy, HookOver
    <3>2. QED BY <2>1, <2>2, <3>1 DEF Process, Phased, Opened, Held, Forgotten, Saved, Whole, Idle
  <2>3. CASE reads[p] # {}
    <3>1. dump'[p] = [step |-> "copied", facts |-> reads[p]] /\ hooks' = hooks
      BY <2>3 DEF IInv, Types, Copy
    <3>2. QED BY <2>1, <3>1 DEF Process, Phased, Opened, Held, Forgotten, Saved, Whole
  <2>4. QED BY <2>2, <2>3
<1>4. QED BY <1>1, <1>2, <1>3, Frame DEF IInv

LEMMA ForgetHolds == ASSUME IInv, NEW p \in Procs, Forget(p) PROVE IInv'
<1>1. Types' BY DEF IInv, Types, Forget, Dump
<1>2. \A q \in Procs \ {p} : Same(q) BY DEF IInv, Types, Forget, Same
<1>3. Process(p)'
  <2>1. /\ Process(p) /\ phase[p] = "exiting" /\ dump[p].step = "copied"
        /\ dump'[p].step = "forgotten" /\ dump'[p].facts = dump[p].facts
        /\ reads'[p] = {} /\ UNCHANGED <<phase, run, hooks, shards, owed>>
    BY DEF IInv, Types, Dump, Forget, At
  <2>2. QED BY <2>1 DEF Process, Phased, Opened, Held, Forgotten, Saved, Whole
<1>4. QED BY <1>1, <1>2, <1>3, Frame DEF IInv

\* What Put() leaves of the other files.
LEMMA PutFrame ==
    ASSUME Types, NEW p \in Procs, hooks[p] \in {1, 2}, run[p] \in Runs,
           NEW facts \in SUBSET Fact, NEW ends \in {"cut", "line", "whole"}, Put(p, facts, ends)
    PROVE  /\ shards' \in [Ids -> Shard \cup {None}]
           /\ \A q \in Procs, n \in {1, 2} :
                 ~(q = p /\ n = hooks[p]) => shards'[<<q, n>>] = shards[<<q, n>>]
           /\ shards'[<<p, hooks[p]>>] # None
           /\ shards'[<<p, hooks[p]>>].facts = facts /\ shards'[<<p, hooks[p]>>].ends = ends
           /\ shards'[<<p, hooks[p]>>].run = run[p]
<1> DEFINE new == [run |-> run[p], facts |-> facts, ends |-> ends]
<1>1. new \in Shard /\ new # None BY NoneAssumption DEF Shard
<1>2. <<p, hooks[p]>> \in Ids /\ shards' = [shards EXCEPT ![<<p, hooks[p]>>] = new] BY DEF Ids, Put
<1>3. \A q \in Procs, n \in {1, 2} :
        <<q, n>> \in Ids /\ (~(q = p /\ n = hooks[p]) => <<q, n>> # <<p, hooks[p]>>) BY DEF Ids
<1>4. shards \in [Ids -> Shard \cup {None}] BY DEF Types
<1>5. shards'[<<p, hooks[p]>>] = new BY <1>2, <1>4
<1> HIDE DEF new
<1>6. new.facts = facts /\ new.ends = ends /\ new.run = run[p] BY DEF new
<1>7. QED BY <1>1, <1>2, <1>3, <1>4, <1>5, <1>6

LEMMA OpenHolds == ASSUME IInv, NEW p \in Procs, Open(p) PROVE IInv'
<1>1. /\ Process(p) /\ dump[p].step = "forgotten" /\ hooks[p] \in {1, 2} /\ run[p] \in Runs
      /\ phase[p] = "exiting" /\ UNCHANGED <<phase, run, reads, hooks, owed, later>>
  <2>1. dump[p].step = "forgotten" /\ phase[p] = "exiting" BY DEF Open, At
  <2>2. UNCHANGED <<phase, run, reads, hooks, owed, later>> BY DEF Open, history
  <2>3. hooks[p] \in 0..2 BY DEF IInv, Types
  <2>4. Process(p) BY DEF IInv
  <2>5. hooks[p] > 0 /\ run[p] \in Runs BY <2>1, <2>4 DEF Process, Phased
  <2>6. QED BY <2>1, <2>2, <2>3, <2>4, <2>5
<1>2. Put(p, {}, "cut") BY DEF Open
<1>3. /\ shards' \in [Ids -> Shard \cup {None}]
      /\ \A q \in Procs, n \in {1, 2} :
            ~(q = p /\ n = hooks[p]) => shards'[<<q, n>>] = shards[<<q, n>>]
      /\ shards'[<<p, hooks[p]>>] # None /\ shards'[<<p, hooks[p]>>].ends = "cut"
      /\ shards'[<<p, hooks[p]>>].run = run[p]
  BY <1>1, <1>2, PutFrame, {} \in SUBSET Fact DEF IInv
<1>4. dump' \in [Procs -> Dump] /\ dump'[p].step = "writing" /\ dump'[p].facts = dump[p].facts
  BY DEF IInv, Types, Open, Dump
<1>5. Types' BY <1>1, <1>3, <1>4 DEF IInv, Types
<1>6. \A q \in Procs \ {p} : Same(q) BY <1>1, <1>3 DEF IInv, Types, Open, Same
<1>7. Process(p)'
  <2>1. ~Whole(p, hooks[p]) /\ ~Whole(p, hooks[p])' BY <1>1, <1>3 DEF Process, Opened, Whole
  <2>2. Phased(p)' BY <1>1, <1>3, <1>4 DEF Process, Phased
  <2>3. Opened(p)' BY <1>1, <1>3, <1>4, <2>1 DEF Process, Opened, Whole
  <2>4. \A f : Saved(p, f) => Saved(p, f)' BY <1>1, <1>3, <2>1 DEF Saved, Whole
  <2>5. Held(p)' BY <1>1, <1>4, <2>4 DEF Process, Held
  <2>6. Forgotten(p)' BY <1>1, <1>4 DEF Process, Forgotten
  <2>7. QED BY <2>2, <2>3, <2>5, <2>6 DEF Process
<1>8. QED BY <1>5, <1>6, <1>7, Frame DEF IInv

LEMMA WriteSomeHolds == ASSUME IInv, NEW p \in Procs, WriteSome(p) PROVE IInv'
<1>1. /\ Process(p) /\ dump[p].step = "writing" /\ hooks[p] \in {1, 2} /\ run[p] \in Runs
      /\ phase[p] = "exiting" /\ shards[<<p, hooks[p]>>].ends = "cut"
      /\ UNCHANGED <<phase, run, reads, hooks, dump, owed, later>>
  <2>1. /\ dump[p].step = "writing" /\ phase[p] = "exiting"
        /\ shards[<<p, hooks[p]>>].ends = "cut" BY DEF WriteSome, At
  <2>2. UNCHANGED <<phase, run, reads, hooks, dump, owed, later>> BY DEF WriteSome, history
  <2>3. hooks[p] \in 0..2 BY DEF IInv, Types
  <2>4. Process(p) BY DEF IInv
  <2>5. hooks[p] > 0 /\ run[p] \in Runs BY <2>1, <2>4 DEF Process, Phased
  <2>6. QED BY <2>1, <2>2, <2>3, <2>4, <2>5
<1>2. PICK facts \in SUBSET Fact : Put(p, facts, "line")
  <2>1. dump[p].facts \subseteq Fact BY DEF IInv, Types, Dump
  <2>2. \A f \in Fact : [f EXCEPT !.key = Stub] \in Fact BY DEF Fact
  <2>3. QED BY <2>1, <2>2 DEF WriteSome
<1>3. /\ shards' \in [Ids -> Shard \cup {None}]
      /\ \A q \in Procs, n \in {1, 2} :
            ~(q = p /\ n = hooks[p]) => shards'[<<q, n>>] = shards[<<q, n>>]
      /\ shards'[<<p, hooks[p]>>] # None /\ shards'[<<p, hooks[p]>>].ends = "line"
      /\ shards'[<<p, hooks[p]>>].run = run[p]
  BY <1>1, <1>2, PutFrame DEF IInv
<1>4. Types' BY <1>1, <1>3 DEF IInv, Types
<1>5. \A q \in Procs \ {p} : Same(q) BY <1>1, <1>3 DEF Same
<1>6. Process(p)'
  <2>1. ~Whole(p, hooks[p]) /\ ~Whole(p, hooks[p])' BY <1>1, <1>3 DEF Whole
  <2>2. Phased(p)' BY <1>1, <1>3 DEF Process, Phased
  <2>3. Opened(p)' BY <1>1, <1>3, <2>1 DEF Process, Opened, Whole
  <2>4. \A f : Saved(p, f) => Saved(p, f)' BY <1>1, <1>3, <2>1 DEF Saved, Whole
  <2>5. Held(p)' BY <1>1, <2>4 DEF Process, Held
  <2>6. Forgotten(p)' BY <1>1 DEF Process, Forgotten
  <2>7. QED BY <2>2, <2>3, <2>5, <2>6 DEF Process
<1>7. QED BY <1>4, <1>5, <1>6, Frame DEF IInv

\* What the hook copied reaches the disk as it ends.
LEMMA WriteHolds == ASSUME IInv, NEW p \in Procs, Write(p) PROVE IInv'
<1>1. /\ Process(p) /\ dump[p].step = "writing" /\ hooks[p] \in {1, 2} /\ run[p] \in Runs
      /\ phase[p] = "exiting" /\ UNCHANGED <<phase, run, reads, owed, later>>
      /\ Put(p, dump[p].facts, "whole") /\ dump[p].facts \in SUBSET Fact
  <2>1. dump[p].step = "writing" /\ phase[p] = "exiting" BY DEF Write, At
  <2>2. UNCHANGED <<phase, run, reads, owed, later>> BY DEF Write, history
  <2>3. hooks[p] \in 0..2 /\ dump[p].facts \in SUBSET Fact BY DEF IInv, Types, Dump
  <2>4. Process(p) BY DEF IInv
  <2>5. hooks[p] > 0 /\ run[p] \in Runs BY <2>1, <2>4 DEF Process, Phased
  <2>6. QED BY <2>1, <2>2, <2>3, <2>4, <2>5 DEF Write
<1>2. /\ shards' \in [Ids -> Shard \cup {None}]
      /\ \A q \in Procs, n \in {1, 2} :
            ~(q = p /\ n = hooks[p]) => shards'[<<q, n>>] = shards[<<q, n>>]
      /\ shards'[<<p, hooks[p]>>] # None /\ shards'[<<p, hooks[p]>>].ends = "whole"
      /\ shards'[<<p, hooks[p]>>].facts = dump[p].facts
      /\ shards'[<<p, hooks[p]>>].run = run[p]
  BY <1>1, PutFrame DEF IInv
<1>3. /\ dump' \in [Procs -> Dump] /\ dump'[p] = Idle
      /\ hooks' \in [Procs -> 0..2] /\ hooks'[p] = hooks[p] - 1
  <2>1. dump' = [dump EXCEPT ![p] = Idle] /\ Idle \in Dump BY DEF Write, HookOver, Idle, Dump
  <2>2. hooks' = [hooks EXCEPT ![p] = hooks[p] - 1] /\ hooks[p] - 1 \in 0..2
    BY <1>1 DEF Write, HookOver
  <2>3. QED BY <2>1, <2>2 DEF IInv, Types
<1>4. Types' BY <1>1, <1>2, <1>3 DEF IInv, Types
<1>5. \A q \in Procs \ {p} : Same(q) BY <1>1, <1>2 DEF IInv, Types, Write, HookOver, Same
<1>6. Process(p)'
  <2>1. ~Whole(p, hooks[p]) BY <1>1 DEF Process, Opened, Whole
  <2>2. Phased(p)' BY <1>1, <1>2, <1>3 DEF Process, Phased, Idle
  <2>3. Opened(p)' BY <1>1, <1>2, <1>3 DEF Process, Opened, Whole
  <2>4. \A f : Saved(p, f) \/ f \in dump[p].facts => Saved(p, f)'
    BY <1>1, <1>2, <2>1 DEF Saved, Whole
  <2>5. Held(p)' BY <1>1, <2>4 DEF Process, Held
  <2>6. Forgotten(p)' BY <1>1, <1>3 DEF Process, Forgotten, Idle
  <2>7. QED BY <2>2, <2>3, <2>5, <2>6 DEF Process
<1>7. QED BY <1>4, <1>5, <1>6, Frame DEF IInv

LEMMA FailHolds == ASSUME IInv, NEW p \in Procs, Fail(p) PROVE IInv'
<1>1. /\ Process(p) /\ dump[p].step \in {"forgotten", "writing"} /\ hooks[p] \in {1, 2}
      /\ phase[p] = "exiting" /\ UNCHANGED <<phase, run, reads, shards, later>>
  <2>1. dump[p].step \in {"forgotten", "writing"} /\ phase[p] = "exiting" BY DEF Fail, At
  <2>2. hooks[p] \in 0..2 BY DEF IInv, Types
  <2>3. Process(p) BY DEF IInv
  <2>4. hooks[p] > 0 BY <2>1, <2>3 DEF Process, Phased
  <2>5. QED BY <2>1, <2>2, <2>3, <2>4 DEF Fail
<1>2. /\ dump' \in [Procs -> Dump] /\ dump'[p] = Idle
      /\ hooks' \in [Procs -> 0..2] /\ hooks'[p] = hooks[p] - 1
      /\ owed' \in [Procs -> SUBSET Facts] /\ owed'[p] = {}
  <2>1. dump' = [dump EXCEPT ![p] = Idle] /\ Idle \in Dump BY DEF Fail, HookOver, Idle, Dump
  <2>2. hooks' = [hooks EXCEPT ![p] = hooks[p] - 1] /\ hooks[p] - 1 \in 0..2
    BY <1>1 DEF Fail, HookOver
  <2>3. owed' = [owed EXCEPT ![p] = {}] BY DEF Fail
  <2>4. QED BY <2>1, <2>2, <2>3 DEF IInv, Types
<1>3. Types' BY <1>1, <1>2 DEF IInv, Types
<1>4. \A q \in Procs \ {p} : Same(q) BY DEF IInv, Types, Fail, HookOver, Same
<1>5. Process(p)'
  BY <1>1, <1>2 DEF Process, Phased, Opened, Held, Forgotten, Saved, Whole, Idle
<1>6. QED BY <1>3, <1>4, <1>5, Frame DEF IInv

-----------------------------------------------------------------------------

LEMMA InitHolds == ASSUME Init PROVE IInv
<1>1. Types BY DEF Init, Types, Idle, Dump
<1>2. \A p \in Procs, n \in {1, 2} : shards[<<p, n>>] = None BY DEF Init, Ids
<1>3. \A p \in Procs : Process(p)
  BY <1>2 DEF Init, Process, Phased, Opened, Held, Forgotten, Saved, Whole, Idle
<1>4. QED BY <1>1, <1>3 DEF IInv

LEMMA NextHolds == ASSUME IInv, [Next]_vars PROVE IInv'
<1>1. CASE UNCHANGED vars
  <2>1. Types' BY <1>1 DEF vars, history, IInv, Types
  <2>2. \A p \in Procs : Same(p) BY <1>1 DEF vars, history, Same
  <2>3. QED BY <2>1, <2>2, Frame DEF IInv
<1>2. ASSUME NEW p \in Procs, NEW r \in Runs, Start(p, r) PROVE IInv'
  BY <1>2, ArmedHolds DEF Start
<1>3. ASSUME NEW p \in Procs, NEW q \in Procs, Spawn(p, q) PROVE IInv'
  <2>1. run[q] \in Runs BY <1>3 DEF IInv, Process, Phased, Spawn
  <2>2. QED BY <1>3, <2>1, ArmedHolds DEF Spawn
<1>4. ASSUME NEW p \in Procs, NEW q \in Procs, Fork(p, q) PROVE IInv'
  <2>1. run[q] \in Runs BY <1>4 DEF IInv, Process, Phased, Fork
  <2>2. /\ reads' = [reads EXCEPT ![p] = reads[q]] /\ owed' = [owed EXCEPT ![p] = reads[q]]
        /\ UNCHANGED later /\ UNCHANGED <<dump, shards>> BY <1>4 DEF Fork
  <2>3. Armed(p, run[q], 1) BY <1>4 DEF Fork
  <2>4. \E o \in Procs : /\ reads' = [reads EXCEPT ![p] = reads[o]]
                         /\ owed' = [owed EXCEPT ![p] = reads[o]] /\ UNCHANGED later
    BY <2>2
  <2>5. 1 \in 1..2 OBVIOUS
  <2>6. QED BY <2>1, <2>2, <2>3, <2>4, <2>5, ArmedHolds
<1>5. ASSUME NEW p \in Procs, Over(p) PROVE IInv'
  BY <1>5, GoneHolds DEF Over
<1>6. ASSUME NEW p \in Procs, Kill(p) PROVE IInv'
  <2>1. /\ Gone(p) /\ phase[p] \in {"running", "exiting"}
        /\ owed' = [owed EXCEPT ![p] = {}] BY <1>6 DEF Kill
  <2>2. owed'[p] = {} BY <2>1 DEF IInv, Types
  <2>3. QED BY <2>1, <2>2, GoneHolds
<1>7. ASSUME NEW p \in Procs, DumpStep(p) \/ WriteSome(p) \/ Fail(p) PROVE IInv'
  BY <1>5, <1>7, CopyHolds, ForgetHolds, OpenHolds, WriteSomeHolds, WriteHolds, FailHolds
     DEF DumpStep
<1>8. ASSUME NEW p \in Procs, NEW f \in Facts, Note(p, f) PROVE IInv'
  BY <1>8, NoteHolds
<1>9. ASSUME NEW p \in Procs, Exit(p) PROVE IInv'
  BY <1>9, ExitHolds
<1>10. QED BY <1>1, <1>2, <1>3, <1>4, <1>6, <1>7, <1>8, <1>9 DEF Next

LEMMA Invariance == Spec => []IInv
BY InitHolds, NextHolds, PTL DEF Spec

Bounded ==
    /\ newest \subseteq Runs /\ broken \subseteq Procs
    /\ \A p \in Procs : IsFiniteSet(reads[p]) /\ Cardinality(reads[p]) <= Limit

LEMMA NextBounded == ASSUME IInv, Bounded, [Next]_vars PROVE Bounded'
<1> USE DEF Bounded
<1>1. \A p \in Procs : phase[p] = "exiting" => run[p] \in Runs BY DEF IInv, Process, Phased
<1>2. IsFiniteSet({}) /\ Cardinality({}) <= Limit
  BY FS_EmptySet, LimitAssumption
<1>3. reads \in [Procs -> SUBSET Facts] BY DEF IInv, Types
<1>4. CASE UNCHANGED vars BY <1>4 DEF vars, history
<1>5. ASSUME NEW p \in Procs, NEW r \in Runs, Start(p, r) PROVE Bounded'
  BY <1>5 DEF Start, history
<1>6. ASSUME NEW p \in Procs, NEW q \in Procs, Spawn(p, q) PROVE Bounded'
  BY <1>6 DEF Spawn, history
<1>7. ASSUME NEW p \in Procs, NEW q \in Procs, Fork(p, q) PROVE Bounded'
  BY <1>3, <1>7 DEF Fork
<1>8. ASSUME NEW p \in Procs, NEW f \in Facts, Note(p, f) PROVE Bounded'
  <2>1. /\ IsFiniteSet(reads[p] \cup {f})
        /\ Cardinality(reads[p] \cup {f}) = Cardinality(reads[p]) + 1
    BY <1>8, FS_AddElement DEF Note
  <2>2. Cardinality(reads[p]) \in Nat BY FS_CardinalityType
  <2>3. Cardinality(reads[p]) < Limit BY <1>8 DEF Note
  <2>4. Cardinality(reads[p] \cup {f}) <= Limit BY <2>1, <2>2, <2>3, LimitAssumption
  <2>5. reads' = [reads EXCEPT ![p] = reads[p] \cup {f}] /\ UNCHANGED <<newest, broken>>
    BY <1>8 DEF Note
  <2>6. QED BY <1>3, <2>1, <2>4, <2>5
<1>9. ASSUME NEW p \in Procs, Exit(p) PROVE Bounded'
  BY <1>9 DEF Exit, history
<1>10. ASSUME NEW p \in Procs, Over(p) \/ Kill(p) PROVE Bounded'
  <2>1. reads' = [reads EXCEPT ![p] = {}] /\ newest' = newest /\ broken' \subseteq Procs
    BY <1>10 DEF Over, Kill, Gone
  <2>2. QED BY <1>2, <1>3, <2>1
<1>11. ASSUME NEW p \in Procs, Copy(p) PROVE Bounded'
  BY <1>11 DEF Copy, history
<1>12. ASSUME NEW p \in Procs, Forget(p) PROVE Bounded'
  <2>1. reads' = [reads EXCEPT ![p] = {}] /\ UNCHANGED <<newest, broken>> BY <1>12 DEF Forget
  <2>2. QED BY <1>2, <1>3, <2>1
<1>13. ASSUME NEW p \in Procs, Open(p) \/ WriteSome(p) \/ Write(p) PROVE Bounded'
  <2>1. phase[p] = "exiting" BY <1>13 DEF Open, WriteSome, Write, At
  <2>2. newest' \in {{run[p]}, newest \cup {run[p]}} BY <1>13 DEF Open, WriteSome, Write, Put
  <2>3. reads' = reads /\ broken' = broken BY <1>13 DEF Open, WriteSome, Write, history
  <2>4. QED BY <1>1, <2>1, <2>2, <2>3
<1>14. ASSUME NEW p \in Procs, Fail(p) PROVE Bounded'
  BY <1>14 DEF Fail
<1>15. QED
  BY <1>4, <1>5, <1>6, <1>7, <1>8, <1>9, <1>10, <1>11, <1>12, <1>13, <1>14 DEF Next, DumpStep

\* What a process records stays under the cap (_READS_LIMIT), and every shard is
\* of a run.
THEOREM TypeCorrect == Spec => []TypeOK
<1>1. ASSUME Init PROVE Bounded
  BY <1>1, FS_EmptySet, LimitAssumption DEF Init, Bounded
<1>2. ASSUME IInv, Bounded PROVE TypeOK BY <1>2 DEF IInv, Types, Bounded, TypeOK
<1>3. QED BY <1>1, <1>2, NextBounded, Invariance, PTL DEF Spec

\* However many threads record while the hooks of their process run, what was
\* recorded before is in memory, on its way or on the disk (_dump).
THEOREM NothingLost == Spec => []NoneLost
<1>1. ASSUME IInv PROVE NoneLost
  <2>1. ASSUME NEW p \in Procs, NEW f, Saved(p, f) PROVE f \in OnDisk(p)
    BY <2>1 DEF OnDisk, Saved, Whole, Written, Ids
  <2>2. QED BY <1>1, <2>1 DEF IInv, Process, Held, NoneLost
<1>2. QED BY <1>1, Invariance, PTL

\* Forgetting makes the second hook of a process a no-op, or a write of what
\* came after (_dump).
THEOREM WrittenOnce == Spec => []NothingTwice
<1>1. ASSUME IInv PROVE NothingTwice
  BY <1>1 DEF IInv, Process, Forgotten, NothingTwice
<1>2. QED BY <1>1, Invariance, PTL

\* A contract accounts for all the processes of its run that left through their
\* hooks, and for no other run's (_merge, _visible, _unseen).
THEOREM Complete == Spec => []ContractComplete
<1>1. ASSUME IInv PROVE ContractComplete
  <2> SUFFICES ASSUME NEW c \in Renders, Quiet(c.run), NEW p \in Procs, run[p] = c.run,
                      NEW f \in owed[p]
               PROVE  /\ f.entry \in {g.entry : g \in c.facts}
                      /\ f.verb # "opened" => f \in c.facts
                      /\ f.entry \notin c.unseen
    BY DEF ContractComplete
  <2>1. c.facts = Visible(Merged(c.run)) /\ c.unseen = Unseen(Merged(c.run)) BY DEF Renders
  <2>2. f \in Merged(c.run)
    <3>1. phase[p] = "gone" BY DEF Quiet
    <3>2. hooks[p] = 0 /\ dump[p].facts = {} BY <1>1, <3>1 DEF IInv, Process, Phased
    <3>3. Saved(p, f) BY <1>1, <3>2 DEF IInv, Process, Held
    <3>4. PICK n \in {1, 2} : Whole(p, n) /\ f \in shards[<<p, n>>].facts BY <3>3 DEF Saved
    <3>5. <<p, n>> \in Group(c.run)
      BY <1>1, <3>4 DEF IInv, Process, Phased, Whole, Group, Written, Ids
    <3>6. QED BY <3>4, <3>5 DEF Merged
  <2>3. f.verb # "opened" => f \in c.facts BY <2>1, <2>2 DEF Visible
  <2>4. f.entry \in {g.entry : g \in c.facts} BY <2>1, <2>2 DEF Visible
  <2>5. f.entry \notin c.unseen BY <2>1, <2>2 DEF Unseen
  <2>6. QED BY <2>3, <2>4, <2>5
<1>2. QED BY <1>1, Invariance, PTL

\* Shards are grouped by the run that wrote them, also where a child joined its
\* parent's (_merge, _arm).
THEOREM OwnRun == Spec => []ContractIsOfItsRun
<1>1. ASSUME IInv PROVE ContractIsOfItsRun
  <2> SUFFICES ASSUME NEW c \in Renders, NEW f \in c.facts
               PROVE  \E p \in Procs, n \in {1, 2} :
                         run[p] = c.run /\ shards[<<p, n>>] # None /\ f \in shards[<<p, n>>].facts
    BY DEF ContractIsOfItsRun
  <2>1. f \in Merged(c.run) BY DEF Renders, Visible
  <2>2. PICK i \in Group(c.run) : f \in shards[i].facts BY <2>1 DEF Merged
  <2>3. PICK p \in Procs, n \in {1, 2} : i = <<p, n>> BY <2>2 DEF Group, Written, Ids
  <2>4. shards[<<p, n>>] # None /\ shards[<<p, n>>].run = c.run
    BY <2>2, <2>3 DEF Group, Written
  <2>5. QED BY <1>1, <2>2, <2>3, <2>4 DEF IInv, Process, Phased
<1>2. QED BY <1>1, Invariance, PTL

=============================================================================
