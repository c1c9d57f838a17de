-------------------------------- MODULE Views --------------------------------
(***************************************************************************)
(* What provider blocks hand out: plain, extending, frozen and sealed      *)
(* namespaces, the views over them, and the values they hold.              *)
(*                                                                         *)
(* A task sees the blocks it opened and those open around it when it was   *)
(* forked.  It closes its own, innermost first (Registry has the other     *)
(* orders).  A view is what one entry of a provider object hands out: its  *)
(* "own" side is what the block is yielded, its "public" side what use()   *)
(* returns.  References travel freely: anybody may write through any view  *)
(* there is, and into any container a namespace holds.                     *)
(***************************************************************************)
EXTENDS Naturals, SequencesExt

CONSTANTS
    Tasks,
    Main,         \* the task the program starts in
    Names,        \* provider names
    Attrs,        \* attribute names
    Providers,    \* provider objects, all made before the program's first step
    NameOf,       \* the name each provides
    Extending,    \* those made with extend=True
    Instances,    \* those of an object that is no Namespace
    Frozen,       \* those made with frozen=True
    Sealed,       \* those made with sealed=True
    Layer,        \* the attributes each was given
    FirstBoxes,   \* the containers among them, and what they hold
    Scalars,      \* values JSON can hold
    Assigned,     \* what the program assigns
    Opaque,       \* a value it cannot
    Absent,       \* an attribute that is not set
    None,
    MaxEntries    \* bound: blocks opened in a behaviour

\* A container is known by its identity.  Number 0 came with the program, the
\* others were built by the export() or adopt() call of that number.
Ids == Nat \X Names \X Attrs
Content == Scalars \cup {Opaque}
Value == Content \cup {Absent} \cup Ids
Space == [Attrs -> Value]

\* scope is 0 for what is not sealed; prov is None for what adopt() opened.  A
\* provider that extends makes a namespace per entry, known by the entry's number,
\* and any other has the one namespace it was made with.
Entry == [name : Names, prov : Providers \cup {None}, task : Tasks,
          space : Providers \cup Nat, scope : Nat]

ASSUME MainAssumption == Main \in Tasks
ASSUME ProvidersAssumption ==
    /\ NameOf \in [Providers -> Names]
    /\ Extending \cap Instances = {}
    /\ Providers \cap ({None} \cup Nat) = {}
ASSUME LayerAssumption ==
    /\ \A i \in DOMAIN FirstBoxes : i[1] = 0 /\ i \in Ids /\ FirstBoxes[i] \in Content
    /\ Layer \in [Providers -> [Attrs -> Content \cup {Absent} \cup DOMAIN FirstBoxes]]
ASSUME AssignedAssumption == Assigned \subseteq Content \cup {Absent} \cup DOMAIN FirstBoxes
ASSUME AtomsAssumption == (Content \cup {Absent}) \cap Ids = {}
ASSUME SidesAssumption == None \notin {"own", "public"}
ASSUME BoundAssumption == MaxEntries \in Nat

VARIABLES
    spaces,       \* spaces[s]: the attributes of namespace s, for those made so far
    boxes,        \* boxes[i]: what container i holds, for those built so far
    entries,      \* every block entered, in order
    stack,        \* stack[t]: the entries open around what t runs, innermost last
    active,       \* active[p]: the entry p is open in, or 0 (_token)
    expired,      \* the scopes that ended (_Scope.exited)
    by            \* the side of the view the last step wrote through, or None (history)

views == <<spaces, boxes, entries, stack, active, expired, by>>

ViewsTypeOK ==
    /\ DOMAIN spaces \subseteq Providers \cup Nat
    /\ \A s \in DOMAIN spaces : spaces[s] \in Space
    /\ DOMAIN boxes \subseteq Ids
    /\ \A i \in DOMAIN boxes : boxes[i] \in Content
    /\ entries \in Seq(Entry)
    /\ stack \in [Tasks -> Seq(Nat)]
    /\ active \in [Providers -> Nat]
    /\ expired \subseteq Nat
    /\ by \in {"own", "public", None}
    /\ \A e \in DOMAIN entries : entries[e].space \in DOMAIN spaces
    /\ \A t \in Tasks : \A i \in DOMAIN stack[t] : stack[t][i] \in DOMAIN entries
    /\ \A p \in Providers : active[p] \in DOMAIN entries \cup {0}

\* provider() builds the namespace of what does not extend.
ViewsInit ==
    /\ spaces = [p \in Providers \ Extending |-> Layer[p]]
    /\ boxes = FirstBoxes
    /\ entries = <<>>
    /\ stack = [t \in Tasks |-> <<>>]
    /\ active = [p \in Providers |-> 0]
    /\ expired = {}
    /\ by = None

\* f with a value for one more argument.
With(f, x, v) == [y \in DOMAIN f \cup {x} |-> IF y = x THEN v ELSE f[y]]

Dead(e) == entries[e].scope \in expired

\* The entry use(n) answers with in task t, or 0.
Open(t, n) == {i \in DOMAIN stack[t] : entries[stack[t][i]].name = n}
Found(t, n) ==
    IF Open(t, n) = {} THEN 0
    ELSE stack[t][CHOOSE i \in Open(t, n) : \A j \in Open(t, n) : j <= i]

-----------------------------------------------------------------------------
(* Opening and closing. *)

\* Only a namespace can be extended, and an expired one cannot be read.
Extensible(e) == e # 0 => entries[e].prov \notin Instances /\ ~Dead(e)

\* Layer p over a copy of entry e's attributes, which shares their containers.
Merged(p, e) ==
    [a \in Attrs |-> IF e = 0 \/ Layer[p][a] # Absent THEN Layer[p][a]
                                                       ELSE spaces[entries[e].space][a]]

\* A fresh scope for every entry of a sealed provider.
Scope(p) == IF p \in Sealed THEN Len(entries) + 1 ELSE 0

Innermost(t) == stack[t] # <<>> /\ entries[Last(stack[t])].task = t

\* In the middle of an exit.
Leaving(t) == Innermost(t) /\ Dead(Last(stack[t]))

Push(t, entry) ==
    /\ ~Leaving(t)
    /\ Len(entries) < MaxEntries
    /\ entries' = Append(entries, entry)
    /\ stack' = [stack EXCEPT ![t] = Append(@, Len(entries) + 1)]

\* Mutant: one scope per provider object, which entering makes live again.
EnterReviving(t, p) ==
    LET past == {e \in DOMAIN entries : entries[e].prov = p}
        scope == IF past = {} THEN Scope(p) ELSE entries[CHOOSE e \in past : TRUE].scope
    IN  /\ p \notin Extending
        /\ active[p] = 0
        /\ Push(t, [name |-> NameOf[p], prov |-> p, task |-> t, space |-> p, scope |-> scope])
        /\ active' = [active EXCEPT ![p] = Len(entries) + 1]
        /\ expired' = expired \ {scope}
        /\ by' = None
        /\ UNCHANGED <<spaces, boxes>>

\* A provider that extends nothing, whose namespace is there already.
EnterPlain(t, p) ==
    /\ p \notin Extending
    /\ active[p] = 0
    /\ Push(t, [name |-> NameOf[p], prov |-> p, task |-> t, space |-> p, scope |-> Scope(p)])
    /\ active' = [active EXCEPT ![p] = Len(entries) + 1]
    /\ by' = None
    /\ UNCHANGED <<spaces, boxes, expired>>

EnterExtending(t, p) ==
    LET outer == Found(t, NameOf[p])
        space == Len(entries) + 1
    IN  /\ p \in Extending
        /\ active[p] = 0
        /\ Extensible(outer)
        /\ Push(t, [name |-> NameOf[p], prov |-> p, task |-> t, space |-> space,
                    scope |-> Scope(p)])
        /\ spaces' = With(spaces, space, Merged(p, outer))
        /\ active' = [active EXCEPT ![p] = Len(entries) + 1]
        /\ by' = None
        /\ UNCHANGED <<boxes, expired>>

\* The first half of a sealed block's exit.
Expire(t) ==
    /\ Innermost(t)
    /\ LET e == Last(stack[t]) IN
          /\ entries[e].scope # 0 /\ ~Dead(e)
          /\ expired' = expired \cup {entries[e].scope}
    /\ by' = None
    /\ UNCHANGED <<spaces, boxes, entries, stack, active>>

\* The other half, and the whole of any other block's.
Unwind(t) ==
    /\ Innermost(t)
    /\ LET e == Last(stack[t]) IN
          /\ entries[e].scope # 0 => Dead(e)
          /\ active' = [p \in Providers |-> IF p = entries[e].prov THEN 0 ELSE active[p]]
          /\ stack' = [stack EXCEPT ![t] = Front(@)]
    /\ by' = None
    /\ UNCHANGED <<spaces, boxes, entries, expired>>

\* Task t starts task u, which inherits what is open and owns none of it.
Fork(t, u) ==
    /\ u # Main /\ stack[u] = <<>> /\ \A e \in DOMAIN entries : entries[e].task # u
    /\ stack[t] # <<>> /\ ~Leaving(t)
    /\ stack' = [stack EXCEPT ![u] = stack[t]]
    /\ by' = None
    /\ UNCHANGED <<spaces, boxes, entries, active, expired>>

-----------------------------------------------------------------------------
(* Writing. *)

\* Containers a namespace holds.
Held == {spaces[s][a] : s \in DOMAIN spaces, a \in Attrs} \cap DOMAIN boxes

\* Mutant: a sealed view is of the namespace, whether frozen or not.
ReadOnlyUnlessSealed(e, side) ==
    side = "public" /\ entries[e].prov \in Frozen /\ entries[e].scope = 0

\* What use() returns for a frozen provider refuses writes, under its seal too.
ReadOnly(e, side) == side = "public" /\ entries[e].prov \in Frozen

\* An attribute is set, or deleted, through a view.
Write(e, side, a, v) ==
    /\ ~Dead(e) /\ ~ReadOnly(e, side)
    /\ LET s == entries[e].space IN
          /\ spaces[s][a] # v
          /\ spaces' = [spaces EXCEPT ![s][a] = v]
    /\ by' = side
    /\ UNCHANGED <<boxes, entries, stack, active, expired>>

\* A container is written into; neither kind of view reaches that deep.
WriteBox(i, v) ==
    /\ boxes[i] # v
    /\ boxes' = [boxes EXCEPT ![i] = v]
    /\ by' = None
    /\ UNCHANGED <<spaces, entries, stack, active, expired>>

Blocks(t) ==
    \/ \E p \in Providers : EnterPlain(t, p) \/ EnterExtending(t, p)
    \/ Expire(t)
    \/ Unwind(t)
    \/ \E u \in Tasks : Fork(t, u)

Writes ==
    \/ \E e \in DOMAIN entries, side \in {"own", "public"}, a \in Attrs :
          \E v \in Assigned : Write(e, side, a, v)
    \/ \E i \in Held, v \in Assigned \cap Content : WriteBox(i, v)

ViewsNext == (\E t \in Tasks : Blocks(t)) \/ Writes
ViewsSpec == ViewsInit /\ [][ViewsNext]_views

-----------------------------------------------------------------------------
(* What the views promise. *)

\* A sealed view works exactly as long as its own entry's block is open: until its
\* exit begins, whatever a forked task still inherits, and never again, however
\* often the provider object is entered later.
SealFollowsBlock ==
    \A e \in DOMAIN entries :
        LET t == entries[e].task IN
        entries[e].scope # 0 =>
            /\ ~Dead(e) => e \in ToSet(stack[t])
            /\ Dead(e) => e \notin ToSet(stack[t]) \/ e = Last(stack[t])

\* The attributes of a namespace change by a write through a view of an entry that
\* has it, never through what the callees of a frozen block get, and never because a
\* block opens over it, closes, is exported or is adopted.
ChangedByWrites ==
    [][\A s \in DOMAIN spaces : spaces'[s] # spaces[s] =>
          /\ by' # None
          /\ \A e \in DOMAIN entries :
                entries[e].space = s /\ entries[e].prov \in Frozen => by' = "own"]_views
=============================================================================
