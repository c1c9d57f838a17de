------------------------------- MODULE Ledger -------------------------------
(***************************************************************************)
(* The debug ledger and the instrumented registry.  While debug() is on,   *)
(* every provider block is recorded on entry and filed on exit, and with   *)
(* debug(unused=True) the mapping it installs credits each read to the     *)
(* block that provides the key.  The contract recorder labels the same     *)
(* mappings with the entry point they answer to.                           *)
(*                                                                         *)
(* The switches are process-wide and tested without the lock, so entering  *)
(* a block takes three steps, the two tests and the record, and leaving    *)
(* one takes two, the unwinding and the filing.                            *)
(*                                                                         *)
(* Blocks, chains and repairs are those of Registry, where each block is   *)
(* closed by the thread that opened it; a mapping carries its              *)
(* instrumentation besides.  `at' numbers the entries and stands for the   *)
(* serial the ledger gives them.                                           *)
(***************************************************************************)
EXTENDS Naturals, Sequences, FiniteSets
LOCAL INSTANCE Functions

CONSTANTS
    Threads,      \* threads or tasks, each running in its own context
    Root,
    Keys,
    Blocks,       \* provider objects
    KeyOf,
    Declared,     \* keys named as boundaries of the contract
    None,
    ClosedLimit,  \* exits remembered
    MaxClock,     \* bound: entries in a behaviour
    MaxDepth(_, _)  \* bound: debug() blocks open at a time, by audit, threads

ASSUME RootAssumption == Root \in Threads
ASSUME KeyOfAssumption == KeyOf \in [Blocks -> Keys]
ASSUME DeclaredAssumption == Declared \subseteq Keys
ASSUME BoundsAssumption == {ClosedLimit, MaxClock} \subseteq Nat

\* One entry of a block and the thread or task it was opened on.
Entry == [block : Blocks, where : Threads, at : Nat]
ASSUME NoneAssumption == None \notin Entry \cup Keys \cup Blocks

\* owners[k] is the entry a read of k is credited to; `label' the entry point.
Mapping == [by : Entry \cup {None}, vals : [Keys -> Entry \cup {None}],
            chain : SUBSET Entry, instrumented : BOOLEAN,
            owners : [Keys -> Entry \cup {None}], label : Keys \cup {None}]
ASSUME MappingAssumption == None \notin Mapping

Nobody == [k \in Keys |-> None]
Empty == [by |-> None, vals |-> Nobody, chain |-> {},
          instrumented |-> FALSE, owners |-> Nobody, label |-> None]

\* A _Block of the ledger: counted when it has a _Reads to mark.
Record == [entry : Entry, counted : BOOLEAN]

VARIABLES
    auditing,     \* whether the contract recorder is armed, from import on
    depth,        \* _state.depth; recording is depth > 0
    unused,       \* _state.unused_depth; counting is unused > 0
    open,         \* _open
    closed,       \* _closed, oldest exit first
    forgotten,    \* _forgotten, oldest first
    hit,          \* watched entries whose _Reads was marked
    live,         \* threads that have started
    registry,     \* registry[t]: the mapping in t's context
    token,        \* token[b]: the mapping _token restores, or None
    entered,      \* entered[b]: the mapping b installed, or None
    handle,       \* handle[b]: the entry _block stands for, or None
    doing,        \* doing[t]: idle, entering a block or filing an exit
    clock,
    read,         \* watched entries that answered a lookup below them (history)
    late,         \* entries of the ledger recorded after a wipe (history)
    exited        \* keys filed since the ledger was wiped (history)

ledger == <<open, closed, forgotten>>
switches == <<auditing, depth, unused>>
blocks == <<token, entered, handle>>
history == <<read, late, exited>>
vars == <<switches, ledger, hit, live, registry, blocks, doing, clock, history>>

Idle == [step |-> "idle", block |-> None, counted |-> FALSE, entry |-> None]
Doing == [step : {"idle", "watched", "recording", "filing"}, block : Blocks \cup {None},
          counted : BOOLEAN, entry : Entry \cup {None}]

TypeOK ==
    /\ auditing \in BOOLEAN
    /\ depth \in Nat /\ unused \in 0..depth
    /\ open \subseteq Record /\ closed \in Seq(Record) /\ forgotten \in Seq(Keys)
    /\ hit \subseteq Entry /\ live \subseteq Threads
    /\ registry \in [Threads -> Mapping]
    /\ token \in [Blocks -> Mapping \cup {None}]
    /\ entered \in [Blocks -> Mapping \cup {None}]
    /\ handle \in [Blocks -> Entry \cup {None}]
    /\ doing \in [Threads -> Doing]
    /\ clock \in Nat
    /\ read \cup late \subseteq Entry
    /\ exited \subseteq Keys

Init ==
    /\ auditing \in BOOLEAN
    /\ depth = 0 /\ unused = 0
    /\ open = {} /\ closed = <<>> /\ forgotten = <<>> /\ hit = {}
    /\ live = {Root}
    /\ registry = [t \in Threads |-> Empty]
    /\ token = [b \in Blocks |-> None]
    /\ entered = [b \in Blocks |-> None]
    /\ handle = [b \in Blocks |-> None]
    /\ doing = [t \in Threads |-> Idle]
    /\ clock = 0
    /\ read = {} /\ late = {} /\ exited = {}

Recording == depth > 0
Counting == unused > 0
Ready(t) == t \in live /\ doing[t] = Idle
Key(e) == KeyOf[e.block]

Innermost(S) == CHOOSE e \in S : \A f \in S : f.at <= e.at
Outermost(S) == CHOOSE e \in S : \A f \in S : e.at <= f.at

\* _entry_for(): the innermost declared boundary, else the outermost block.
EntryFor(chain) ==
    LET boundaries == {e \in chain : Key(e) \in Declared} IN
    IF boundaries # {} THEN Key(Innermost(boundaries))
    ELSE IF chain # {} THEN Key(Outermost(chain)) ELSE None

-----------------------------------------------------------------------------
(* debug(). *)

DebugEnter(counts) ==
    /\ depth < MaxDepth(auditing, Cardinality(live))
    /\ depth' = depth + 1
    /\ unused' = IF counts THEN unused + 1 ELSE unused
    /\ UNCHANGED <<auditing, ledger, hit, live, registry, blocks, doing, clock,
                   history>>

\* Mutant: counting goes on when the debug() block that asked for it is over.
DebugExitCounting(counts) ==
    /\ IF counts THEN unused > 0 ELSE depth > unused
    /\ depth' = depth - 1
    /\ UNCHANGED <<auditing, unused, ledger, hit, live, registry, blocks, doing,
                   clock, history>>

\* The last debug() block to close wipes the ledger.
DebugExit(counts) ==
    /\ IF counts THEN unused > 0 ELSE depth > unused
    /\ depth' = depth - 1
    /\ unused' = IF counts THEN unused - 1 ELSE unused
    /\ IF depth = 1
       THEN /\ open' = {} /\ closed' = <<>> /\ forgotten' = <<>>
            /\ hit' = {} /\ read' = {} /\ exited' = {} /\ late' = {}
       ELSE UNCHANGED <<ledger, hit, history>>
    /\ UNCHANGED <<auditing, live, registry, blocks, doing, clock>>

-----------------------------------------------------------------------------
(* Entering a block. *)

\* Mutant: a block that is not counted drops what its mapping was crediting.
OwnersAfresh(m, e, counts) ==
    IF counts THEN [Nobody EXCEPT ![Key(e)] = e] ELSE Nobody

\* Who the reads below entry e are credited to.  A plain mapping credits nobody.
Owners(m, e, counts) == IF counts THEN [m.owners EXCEPT ![Key(e)] = e] ELSE m.owners

\* Mutant: a boundary opened below another block takes that block's label.
LabelUndeclared(m, e) ==
    IF ~auditing THEN None
    ELSE IF m.instrumented /\ m.chain # {} THEN m.label ELSE Key(e)

\* The entry point reads below entry e answer to; only the audit needs it.
Label(m, e) ==
    IF ~auditing THEN None
    ELSE IF m.instrumented /\ m.chain # {} /\ Key(e) \notin Declared
    THEN m.label ELSE Key(e)

\* The mapping entry e installs over m when debug() or the audit watches.
Instrumented(m, e, counts) ==
    [by |-> e, vals |-> [m.vals EXCEPT ![Key(e)] = e], chain |-> m.chain \cup {e},
     instrumented |-> auditing \/ Owners(m, e, counts) # Nobody,
     owners |-> Owners(m, e, counts), label |-> Label(m, e)]

\* What it installs when nothing watches.
Plain(m, e) ==
    [Empty EXCEPT !.by = e, !.vals = [m.vals EXCEPT ![Key(e)] = e],
                  !.chain = m.chain \cup {e}]

Install(t, b, m) ==
    /\ token' = [token EXCEPT ![b] = registry[t]]
    /\ entered' = [entered EXCEPT ![b] = m]
    /\ registry' = [registry EXCEPT ![t] = m]
    /\ clock' = clock + 1

NewEntry(t, b) == [block |-> b, where |-> t, at |-> clock + 1]

\* Nothing watches: the block is open at once.
Enter(t, b) ==
    /\ Ready(t) /\ clock < MaxClock
    /\ token[b] = None /\ \A u \in Threads : doing[u].block # b
    /\ IF Recording \/ auditing
       THEN /\ doing' = [doing EXCEPT ![t].step = "watched", ![t].block = b]
            /\ UNCHANGED <<registry, blocks, clock>>
       ELSE /\ Install(t, b, Plain(registry[t], NewEntry(t, b)))
            /\ UNCHANGED <<handle, doing>>
    /\ UNCHANGED <<switches, ledger, hit, live, history>>

\* The switches are tested again, and read for what the record will say.
TestRecording(t) ==
    /\ doing[t].step = "watched"
    /\ IF Recording
       THEN /\ doing' = [doing EXCEPT ![t].step = "recording",
                                     ![t].counted = Counting]
            /\ UNCHANGED <<registry, blocks, clock>>
       ELSE /\ clock < MaxClock
            /\ LET b == doing[t].block IN
               Install(t, b, Instrumented(registry[t], NewEntry(t, b), FALSE))
            /\ doing' = [doing EXCEPT ![t] = Idle]
            /\ UNCHANGED handle
    /\ UNCHANGED <<switches, ledger, hit, live, history>>

\* The ledger gets the block, whatever became of the switches since.
RecordEnter(t) ==
    /\ doing[t].step = "recording" /\ clock < MaxClock
    /\ LET b == doing[t].block
           e == NewEntry(t, b)
       IN  /\ open' = open \cup {[entry |-> e, counted |-> doing[t].counted]}
           /\ handle' = [handle EXCEPT ![b] = e]
           /\ Install(t, b, Instrumented(registry[t], e, doing[t].counted))
           /\ late' = IF Recording THEN late ELSE late \cup {e}
    /\ doing' = [doing EXCEPT ![t] = Idle]
    /\ UNCHANGED <<switches, closed, forgotten, hit, live, read, exited>>

-----------------------------------------------------------------------------
(* A lookup, by use() or an extending layer. *)

\* The entries whose marks somebody will still look at.
Watched == {r.entry : r \in {x \in open : x.counted}}

Read(t, k) ==
    /\ Ready(t)
    /\ LET m == registry[t] IN
       /\ m.vals[k] # None
       /\ read' = read \cup ({m.vals[k]} \cap m.chain \cap Watched)
       /\ hit' = hit \cup ({m.owners[k]} \cap Watched)
    /\ UNCHANGED <<switches, ledger, live, registry, blocks, doing, clock,
                   late, exited>>

-----------------------------------------------------------------------------
(* Leaving a block. *)

\* The blocks still open under b's key, and the mapping the innermost entered.
Heirs(m, b) == {e \in m.chain : /\ e.block # b /\ Key(e) = KeyOf[b]
                                /\ entered[e.block] # None}
Heir(m, b) == IF Heirs(m, b) = {} THEN Empty
              ELSE entered[Innermost(Heirs(m, b)).block]

\* Mutant: reads go on being credited to the block that leaves.
CreditedAsBefore(m, b) == m.owners

\* A key restored from a block still open is credited to that block.
Credited(m, b) ==
    LET owner == Heir(m, b).owners[KeyOf[b]] IN
    IF m.instrumented /\ owner # None THEN [m.owners EXCEPT ![KeyOf[b]] = owner]
    ELSE m.owners

\* _repaired() and _reinstrument().
Repaired(m, b) ==
    LET rest == {e \in m.chain : e.block # b} IN
    [m EXCEPT !.by = None, !.chain = rest, !.owners = Credited(m, b),
              !.vals[KeyOf[b]] = Heir(m, b).vals[KeyOf[b]],
              !.label = IF auditing THEN EntryFor(rest) ELSE None]

\* _unwind(): the token is reset if the mapping is the one b installed, the
\* mapping repaired if something was opened since.
Unwound(m, b) ==
    IF m.by = entered[b].by THEN token[b]
    ELSE IF \E e \in m.chain : e.block = b THEN Repaired(m, b) ELSE m

\* __exit__() up to the ledger.
Exit(t, b) ==
    /\ Ready(t) /\ token[b] # None /\ entered[b].by.where = t
    /\ registry' = [registry EXCEPT ![t] = Unwound(registry[t], b)]
    /\ token' = [token EXCEPT ![b] = None]
    /\ entered' = [entered EXCEPT ![b] = None]
    /\ handle' = [handle EXCEPT ![b] = None]
    /\ doing' = IF handle[b] = None THEN doing
                ELSE [doing EXCEPT ![t].step = "filing", ![t].entry = handle[b]]
    /\ UNCHANGED <<switches, ledger, hit, live, clock, history>>

Slot(r) == <<Key(r.entry), r.entry.where>>

\* dict.pop(): I is where the key is, one place of s or none.
Popped(s, I) ==
    LET i == CHOOSE i \in I : TRUE IN
    IF I = {} THEN s ELSE [j \in 1..Len(s) - 1 |-> s[IF j < i THEN j ELSE j + 1]]

\* The exits remembered and the keys forgotten, when r is filed.
Exits(r) == Append(Popped(closed, {i \in DOMAIN closed : Slot(closed[i]) = Slot(r)}), r)
Traces(r) == Popped(forgotten, {i \in DOMAIN forgotten : forgotten[i] = Key(r.entry)})

\* Mutant: a dropped exit leaves no trace.
RememberedNoTrace(r) ==
    [closed |-> IF Len(Exits(r)) > ClosedLimit THEN Tail(Exits(r)) ELSE Exits(r),
     forgotten |-> Traces(r)]

\* _remember_closed(): the last exit of a key on a thread replaces the one
\* before; the oldest exit over the limit is forgotten but for its key.
Remembered(r) ==
    LET gone == Key(Head(Exits(r)).entry)
        traces == IF \E i \in DOMAIN Traces(r) : Traces(r)[i] = gone THEN Traces(r)
                  ELSE Append(Traces(r), gone)
    IN  IF Len(Exits(r)) <= ClosedLimit
        THEN [closed |-> Exits(r), forgotten |-> Traces(r)]
        ELSE [closed |-> Tail(Exits(r)),
              forgotten |-> IF Len(traces) > ClosedLimit THEN Tail(traces) ELSE traces]

\* Mutant: the record is filed and left open.
RecordExitKeepsOpen(t) ==
    /\ doing[t].step = "filing"
    /\ \E r \in {x \in open : x.entry = doing[t].entry} :
           /\ closed' = Remembered(r).closed /\ forgotten' = Remembered(r).forgotten
           /\ exited' = exited \cup {Key(r.entry)}
    /\ doing' = [doing EXCEPT ![t] = Idle]
    /\ UNCHANGED <<switches, open, hit, live, registry, blocks, clock, read, late>>

\* The exit is filed.  A record that a wipe took files nothing.  A counted
\* block is reported unused here unless it was hit or its body raised.
RecordExit(t) ==
    /\ doing[t].step = "filing"
    /\ LET e == doing[t].entry
           records == {r \in open : r.entry = e}
       IN  /\ open' = open \ records
           /\ hit' = hit \ {e} /\ read' = read \ {e}
           /\ IF records = {}
              THEN UNCHANGED <<closed, forgotten, exited>>
              ELSE \E r \in records :
                       /\ closed' = Remembered(r).closed
                       /\ forgotten' = Remembered(r).forgotten
                       /\ exited' = exited \cup {Key(e)}
    /\ late' = late \cap {r.entry : r \in open' \cup Range(closed')}
    /\ doing' = [doing EXCEPT ![t] = Idle]
    /\ UNCHANGED <<switches, live, registry, blocks, clock>>

-----------------------------------------------------------------------------

\* Thread t starts a thread or a task with a copy of its context, which is
\* empty before t enters anything.
Start(t, u) ==
    /\ Ready(t) /\ u \notin live
    /\ live' = live \cup {u}
    /\ registry' = [registry EXCEPT ![u] = registry[t]]
    /\ UNCHANGED <<switches, ledger, hit, blocks, doing, clock, history>>

Next ==
    \/ \E counts \in BOOLEAN : DebugEnter(counts) \/ DebugExit(counts)
    \/ \E t \in Threads :
           \/ \E b \in Blocks : Enter(t, b) \/ Exit(t, b)
           \/ TestRecording(t) \/ RecordEnter(t) \/ RecordExit(t)
           \/ \E k \in Keys : Read(t, k)
           \/ \E u \in Threads : Start(t, u)

Spec == Init /\ [][Next]_vars

-----------------------------------------------------------------------------
(* Properties. *)

\* A block whose value a lookup below it returned is marked as read, and so never
\* reported unused, through repairs, shadowing, re-entry and counting that
\* starts and stops, unless the last debug() block had wiped the ledger first.
\* A repair may also hand a thread the value of a block it inherited closed and
\* that was entered again elsewhere; the thread is not below that entry.
ReadsCredited ==
    \A r \in open : r.counted /\ r.entry \in read => r.entry \in hit \cup late

\* A record says "open right now" only of a block that is open, or that its
\* thread is just filing: nothing in the ledger outlives its block.
OpenIsOpen ==
    \A r \in open :
        \/ handle[r.entry.block] = r.entry
        \/ \E t \in Threads : doing[t].entry = r.entry

\* A key that exited is remembered, or reported as aged out, and never taken
\* for one that nothing provided.
KnownOrGone ==
    IsFiniteSet(Keys) /\ Cardinality(Keys) <= ClosedLimit =>
        \A k \in exited :
            \/ \E i \in DOMAIN closed : Key(closed[i].entry) = k
            \/ \E i \in DOMAIN forgotten : forgotten[i] = k

\* With the contract recorder armed, every read below a block is recorded, and
\* under the entry point its chain of open blocks answers to, repaired or not.
LabelsAnswer ==
    auditing => \A t \in Threads :
                    LET m == registry[t] IN
                    m.chain # {} => m.instrumented /\ m.label = EntryFor(m.chain)

=============================================================================
