------------------------------ MODULE LedgerProof ------------------------------
(***************************************************************************)
(* Proofs about Ledger: no record of an open block outlives the block;     *)
(* every mapping, repaired or not, is labelled with the entry point its    *)
(* chain of open blocks answers to; a key that exited is remembered or     *)
(* known to be forgotten; and the reads of a counted block are credited to *)
(* it by every mapping below it.                                           *)
(***************************************************************************)
EXTENDS Ledger, FiniteSetTheorems, SequenceTheorems, WellFoundedInduction, TLAPS

\* A chain of entries made up to time n, no two at once.
Chain(S, n) ==
    /\ S \subseteq Entry
    /\ \A e \in S : e.at \in 1..n
    /\ \A e, f \in S : e.at = f.at => e = f

\* A mapping made up to time n, whose label is right if the recorder is armed.
Sound(m, n, armed) ==
    /\ m \in Mapping /\ Chain(m.chain, n)
    /\ armed /\ m.chain # {} => m.instrumented /\ m.label = EntryFor(m.chain)

Mappings ==
    /\ clock \in Nat /\ auditing \in BOOLEAN
    /\ DOMAIN registry = Threads /\ DOMAIN token = Blocks /\ DOMAIN entered = Blocks
    /\ \A t \in Threads : Sound(registry[t], clock, auditing)
    /\ \A b \in Blocks :
          /\ token[b] # None => Sound(token[b], clock, auditing)
          /\ entered[b] # None => Sound(entered[b], clock, auditing)

\* What a thread is in the middle of: a block it enters is not open, nor entered by
\* another, and an entry is there to be filed as long as it files.
Busy ==
    /\ DOMAIN doing = Threads
    /\ \A t \in Threads :
          /\ doing[t] \in Doing
          /\ doing[t].step # "filing" => doing[t].entry = None
          /\ doing[t].step \in {"watched", "recording"} => doing[t].block \in Blocks
          /\ doing[t].block \in Blocks => token[doing[t].block] = None
          /\ doing[t].block \in Blocks =>
                \A u \in Threads \ {t} : doing[u].block # doing[t].block

Handles ==
    /\ DOMAIN handle = Blocks
    /\ \A b \in Blocks : handle[b] \in Entry \cup {None} /\ (token[b] = None => handle[b] = None)

LInv == Mappings /\ Busy /\ Handles /\ open \subseteq Record /\ OpenIsOpen

-----------------------------------------------------------------------------
(* Chains. *)

LEMMA Least ==
    ASSUME NEW n \in Nat, NEW S, Chain(S, n), S # {}
    PROVE  Outermost(S) \in S /\ \A f \in S : Outermost(S).at <= f.at
<1> DEFINE below == {pair \in Nat \X Nat : pair[1] < pair[2]}
           T == {e.at : e \in S}
<1>1. IsWellFoundedOn(below, Nat) BY NatLessThanWellFounded DEF OpToRel
<1>2. T \subseteq Nat /\ T # {} BY DEF Chain
<1>3. \A x, y \in Nat : x < y => <<x, y>> \in below OBVIOUS
<1> HIDE DEF below
<1>4. PICK x \in T : \A y \in T : ~ (<<y, x>> \in below) BY <1>1, <1>2, WFMin
<1>5. PICK e \in S : e.at = x BY <1>4
<1>6. ASSUME NEW f \in S PROVE e.at <= f.at
  <2>1. f.at \in T /\ f.at \in Nat /\ x \in Nat BY <1>2
  <2>2. ~ (f.at < x) BY <1>3, <1>4, <2>1
  <2>3. QED BY <1>5, <2>1, <2>2
<1>7. QED BY <1>6 DEF Outermost

LEMMA Greatest ==
    ASSUME NEW n \in Nat, NEW S, Chain(S, n), S # {}
    PROVE  Innermost(S) \in S /\ \A f \in S : f.at <= Innermost(S).at
<1> DEFINE below == {pair \in Nat \X Nat : pair[1] < pair[2]}
           T == {n - e.at : e \in S}
<1>1. IsWellFoundedOn(below, Nat) BY NatLessThanWellFounded DEF OpToRel
<1>2. T \subseteq Nat /\ T # {} BY DEF Chain
<1>3. \A x, y \in Nat : x < y => <<x, y>> \in below OBVIOUS
<1> HIDE DEF below
<1>4. PICK x \in T : \A y \in T : ~ (<<y, x>> \in below) BY <1>1, <1>2, WFMin
<1>5. PICK e \in S : n - e.at = x BY <1>4
<1>6. ASSUME NEW f \in S PROVE f.at <= e.at
  <2>1. n - f.at \in T /\ n - f.at \in Nat /\ x \in Nat /\ f.at \in Nat /\ e.at \in Nat
    BY <1>2 DEF Chain
  <2>2. ~ (n - f.at < x) BY <1>3, <1>4, <2>1
  <2>3. QED BY <1>5, <2>1, <2>2
<1>7. QED BY <1>6 DEF Innermost

LEMMA EntryForIs ==
    ASSUME NEW n \in Nat, NEW S, Chain(S, n) PROVE EntryFor(S) \in Keys \cup {None}
<1> DEFINE B == {e \in S : Key(e) \in Declared}
<1>1. \A e \in S : Key(e) \in Keys BY KeyOfAssumption DEF Chain, Entry, Key
<1>2. Chain(B, n) BY DEF Chain
<1>3. CASE B # {} BY <1>1, <1>2, <1>3, Greatest DEF EntryFor
<1>4. CASE B = {} /\ S # {} BY <1>1, <1>4, Least DEF EntryFor
<1>5. CASE S = {} BY <1>5 DEF EntryFor
<1>6. QED BY <1>3, <1>4, <1>5

\* A newer entry is the entry point if it is a boundary or opens the chain.
LEMMA Newer ==
    ASSUME NEW n \in Nat, NEW S, Chain(S, n), NEW e \in Entry, e.at = n + 1
    PROVE  /\ Chain(S \cup {e}, n + 1) /\ Chain(S, n + 1)
           /\ S = {} \/ Key(e) \in Declared => EntryFor(S \cup {e}) = Key(e)
           /\ S # {} /\ Key(e) \notin Declared => EntryFor(S \cup {e}) = EntryFor(S)
<1> DEFINE B == {f \in S : Key(f) \in Declared}
           C == {f \in S \cup {e} : Key(f) \in Declared}
<1>1. \A f \in S : f.at \in 1..n /\ f.at < e.at /\ f \in Entry /\ f.at \in 1..n + 1
  BY DEF Chain
<1>2. Chain(S, n + 1) BY <1>1 DEF Chain
<1>3. Chain(S \cup {e}, n + 1)
  <2>1. S \cup {e} \subseteq Entry /\ \A f \in S \cup {e} : f.at \in 1..n + 1 BY <1>1
  <2>2. ASSUME NEW f \in S \cup {e}, NEW g \in S \cup {e}, f.at = g.at PROVE f = g
    BY <1>1, <2>2 DEF Chain
  <2>3. QED BY <2>1, <2>2 DEF Chain
<1>4. n + 1 \in Nat /\ Chain(C, n + 1) BY <1>3 DEF Chain
<1>5. CASE Key(e) \in Declared
  <2>1. e \in C BY <1>5
  <2>2. Innermost(C) \in C /\ e.at <= Innermost(C).at BY <1>4, <2>1, Greatest
  <2>3. Innermost(C) = e BY <1>1, <2>2
  <2>4. EntryFor(S \cup {e}) = Key(e) BY <2>1, <2>3 DEF EntryFor
  <2>5. QED BY <1>2, <1>3, <1>5, <2>4
<1>6. CASE Key(e) \notin Declared
  <2>1. C = B BY <1>6
  <2>2. CASE S = {}
    <3>1. C = {} BY <2>1, <2>2
    <3>2. Outermost(S \cup {e}) \in S \cup {e} BY <1>3, <1>4, Least
    <3>3. QED BY <1>2, <1>3, <1>6, <2>2, <3>1, <3>2 DEF EntryFor
  <2>3. CASE S # {} /\ B # {}
    <3>1. EntryFor(S \cup {e}) = Key(Innermost(C)) BY <2>1, <2>3 DEF EntryFor
    <3>2. EntryFor(S) = Key(Innermost(B)) BY <2>3 DEF EntryFor
    <3>3. QED BY <1>2, <1>3, <1>6, <2>1, <2>3, <3>1, <3>2
  <2>4. CASE S # {} /\ B = {}
    <3>1. EntryFor(S \cup {e}) = Key(Outermost(S \cup {e})) BY <2>1, <2>4 DEF EntryFor
    <3>2. EntryFor(S) = Key(Outermost(S)) BY <2>4 DEF EntryFor
    <3>3. Outermost(S) \in S /\ \A f \in S : Outermost(S).at <= f.at BY <2>4, Least
    <3>4. /\ Outermost(S \cup {e}) \in S \cup {e}
          /\ \A f \in S \cup {e} : Outermost(S \cup {e}).at <= f.at
      BY <1>3, <1>4, Least
    <3>5. Outermost(S \cup {e}) \in S BY <1>1, <3>3, <3>4
    <3>6. Outermost(S \cup {e}).at = Outermost(S).at
      BY <1>1, <3>3, <3>4, <3>5
    <3>7. Outermost(S \cup {e}) = Outermost(S) BY <3>3, <3>5, <3>6 DEF Chain
    <3>8. QED BY <1>2, <1>3, <1>6, <2>4, <3>1, <3>2, <3>7
  <2>5. QED BY <2>2, <2>3, <2>4
<1>7. QED BY <1>5, <1>6

-----------------------------------------------------------------------------
(* Mappings. *)

LEMMA Later ==
    ASSUME NEW n \in Nat, NEW m, NEW armed, Sound(m, n, armed) PROVE Sound(m, n + 1, armed)
BY DEF Sound, Chain

LEMMA InstrumentedIs ==
    ASSUME NEW n \in Nat, auditing \in BOOLEAN, NEW m, Sound(m, n, auditing),
           NEW e \in Entry, e.at = n + 1, NEW counts \in BOOLEAN
    PROVE  Sound(Instrumented(m, e, counts), n + 1, auditing)
<1> DEFINE new == Instrumented(m, e, counts)
<1>1. Key(e) \in Keys BY KeyOfAssumption DEF Entry, Key
<1>2. m \in Mapping /\ Chain(m.chain, n) BY DEF Sound
<1>3. Owners(m, e, counts) \in [Keys -> Entry \cup {None}] BY <1>1, <1>2 DEF Owners, Mapping
<1>4. Label(m, e) \in Keys \cup {None} BY <1>1, <1>2 DEF Label, Mapping
<1>5. [m.vals EXCEPT ![Key(e)] = e] \in [Keys -> Entry \cup {None}] BY <1>1, <1>2 DEF Mapping
<1>6. m.chain \cup {e} \in SUBSET Entry BY <1>2 DEF Mapping
<1>7. (auditing \/ Owners(m, e, counts) # Nobody) \in BOOLEAN OBVIOUS
<1>8. new \in Mapping BY <1>3, <1>4, <1>5, <1>6, <1>7 DEF Instrumented, Mapping
<1>9. /\ new.chain = m.chain \cup {e} /\ new.label = Label(m, e)
      /\ auditing => new.instrumented
  BY DEF Instrumented
<1>10. auditing => Label(m, e) = EntryFor(m.chain \cup {e})
  BY <1>2, Newer DEF Label, Sound
<1>11. Chain(new.chain, n + 1) BY <1>2, <1>9, Newer
<1> HIDE DEF new
<1>12. Sound(new, n + 1, auditing) BY <1>8, <1>9, <1>10, <1>11 DEF Sound
<1>13. QED BY <1>12 DEF new

LEMMA EmptyIs == Empty \in Mapping /\ Empty.chain = {}
BY DEF Empty, Mapping, Nobody

LEMMA PlainIs ==
    ASSUME NEW n \in Nat, ~ auditing, NEW m, Sound(m, n, auditing),
           NEW e \in Entry, e.at = n + 1
    PROVE  Sound(Plain(m, e), n + 1, auditing)
<1>1. Key(e) \in Keys BY KeyOfAssumption DEF Entry, Key
<1>2. m \in Mapping /\ Chain(m.chain, n) BY DEF Sound
<1>3. [m.vals EXCEPT ![Key(e)] = e] \in [Keys -> Entry \cup {None}] BY <1>1, <1>2 DEF Mapping
<1>4. m.chain \cup {e} \in SUBSET Entry BY <1>2 DEF Mapping
<1>5. Plain(m, e) \in Mapping BY <1>3, <1>4, EmptyIs DEF Plain, Mapping
<1>6. Plain(m, e).chain = m.chain \cup {e} BY EmptyIs DEF Plain, Mapping
<1>7. Chain(Plain(m, e).chain, n + 1) BY <1>2, <1>6, Newer
<1>8. QED BY <1>5, <1>7 DEF Sound

LEMMA HeirIs ==
    ASSUME Mappings, NEW m, Sound(m, clock, auditing), NEW b PROVE Heir(m, b) \in Mapping
<1>1. CASE Heirs(m, b) = {} BY <1>1, EmptyIs DEF Heir
<1>2. CASE Heirs(m, b) # {}
  <2>1. Heirs(m, b) \subseteq m.chain BY DEF Heirs
  <2>2. Chain(Heirs(m, b), clock) BY <2>1 DEF Sound, Chain
  <2>3. Innermost(Heirs(m, b)) \in Heirs(m, b) BY <1>2, <2>2, Greatest DEF Mappings
  <2>4. /\ entered[Innermost(Heirs(m, b)).block] # None
        /\ Innermost(Heirs(m, b)).block \in Blocks
    BY <2>2, <2>3 DEF Heirs, Chain, Entry
  <2>5. QED BY <1>2, <2>4 DEF Heir, Mappings, Sound
<1>3. QED BY <1>1, <1>2

LEMMA RepairedIs ==
    ASSUME Mappings, NEW m, Sound(m, clock, auditing), NEW b \in Blocks
    PROVE  Sound(Repaired(m, b), clock, auditing)
<1> DEFINE rest == {e \in m.chain : e.block # b}
           k == KeyOf[b]
           new == Repaired(m, b)
           label == IF auditing THEN EntryFor(rest) ELSE None
           vals == [m.vals EXCEPT ![k] = Heir(m, b).vals[k]]
<1>1. m \in Mapping /\ Chain(m.chain, clock) /\ clock \in Nat /\ k \in Keys
  BY KeyOfAssumption DEF Sound, Mappings
<1>2. Heir(m, b) \in Mapping BY HeirIs
<1>3. vals \in [Keys -> Entry \cup {None}] BY <1>1, <1>2 DEF Mapping
<1>4. Credited(m, b) \in [Keys -> Entry \cup {None}] BY <1>1, <1>2 DEF Credited, Mapping
<1>5. rest \in SUBSET Entry /\ Chain(rest, clock) BY <1>1 DEF Mapping, Chain
<1>6. label \in Keys \cup {None} BY <1>1, <1>5, EntryForIs
<1>7. new = [m EXCEPT !.by = None, !.chain = rest, !.owners = Credited(m, b), !.vals = vals,
                      !.label = label]
  BY <1>1 DEF Repaired, Mapping
<1> HIDE DEF rest, new, label, vals
<1>8. new \in Mapping BY <1>1, <1>3, <1>4, <1>5, <1>6, <1>7 DEF Mapping
<1>9. new.chain = rest /\ new.label = label /\ new.instrumented = m.instrumented
  BY <1>1, <1>7 DEF Mapping
<1>10. rest # {} => m.chain # {} BY DEF rest
<1>11. Sound(new, clock, auditing) BY <1>5, <1>8, <1>9, <1>10 DEF Sound, label
<1>12. QED BY <1>11 DEF new

-----------------------------------------------------------------------------
(* Steps. *)

\* A block opens: entry e of it is installed over what t had.
LEMMA Installed ==
    ASSUME LInv, NEW t \in Threads, NEW b \in Blocks, NEW m, Install(t, b, m),
           Sound(m, clock + 1, auditing), UNCHANGED auditing,
           DOMAIN doing' = Threads,
           \A u \in Threads : doing'[u].block # b /\ doing'[u] \in Doing,
           \A u \in Threads \ {t} : doing'[u] = doing[u],
           doing'[t] = Idle \/ doing'[t] = doing[t],
           DOMAIN handle' = Blocks, handle'[b] \in Entry \cup {None},
           \A c \in Blocks \ {b} : handle'[c] = handle[c]
    PROVE  Mappings' /\ Busy' /\ Handles'
<1>1. /\ token' = [token EXCEPT ![b] = registry[t]]
      /\ entered' = [entered EXCEPT ![b] = m]
      /\ registry' = [registry EXCEPT ![t] = m]
      /\ clock' = clock + 1 /\ clock \in Nat /\ auditing' = auditing
      /\ DOMAIN registry = Threads /\ DOMAIN token = Blocks /\ DOMAIN entered = Blocks
  BY DEF Install, LInv, Mappings
<1>2. Sound(registry[t], clock, auditing) /\ registry[t] # None
  BY MappingAssumption DEF LInv, Mappings, Sound
<1>3. \A u \in Threads : Sound(registry'[u], clock', auditing')
  BY <1>1, Later DEF LInv, Mappings
<1>4. ASSUME NEW c \in Blocks
      PROVE  /\ token'[c] # None => Sound(token'[c], clock', auditing')
             /\ entered'[c] # None => Sound(entered'[c], clock', auditing')
  BY <1>1, <1>2, Later DEF LInv, Mappings
<1>5. Mappings' BY <1>1, <1>3, <1>4 DEF LInv, Mappings
<1>6. token'[b] # None /\ \A c \in Blocks \ {b} : token'[c] = token[c] BY <1>1, <1>2
<1>7. \A u \in Threads : doing'[u] = Idle \/ doing'[u] = doing[u] OBVIOUS
<1>8. Idle.block = None /\ Idle.entry = None /\ Idle.step = "idle" /\ None \notin Blocks
  BY NoneAssumption DEF Idle
<1>9. Busy' BY <1>6, <1>7, <1>8 DEF LInv, Busy
<1>10. Handles' BY <1>6 DEF LInv, Handles
<1>11. QED BY <1>5, <1>9, <1>10

\* A step that leaves every block and mapping as it was.
LEMMA Still ==
    ASSUME LInv, UNCHANGED <<auditing, registry, token, entered, handle, clock>>,
           Busy', open' \subseteq Record, OpenIsOpen'
    PROVE  LInv'
<1>1. Mappings' BY DEF LInv, Mappings
<1>2. Handles' BY DEF LInv, Handles
<1>3. QED BY <1>1, <1>2 DEF LInv

LEMMA Debugging ==
    ASSUME LInv, NEW counts \in BOOLEAN, DebugEnter(counts) \/ DebugExit(counts)
    PROVE  LInv'
<1>1. /\ UNCHANGED <<auditing, registry, token, entered, handle, clock, doing>>
      /\ open' = {} \/ open' = open
  BY DEF DebugEnter, DebugExit, switches, ledger, blocks
<1>2. Busy' BY <1>1 DEF LInv, Busy
<1>3. open' \subseteq Record /\ OpenIsOpen' BY <1>1 DEF LInv, OpenIsOpen
<1>4. QED BY <1>1, <1>2, <1>3, Still

LEMMA EntryIs ==
    ASSUME LInv, NEW t \in Threads, NEW b \in Blocks
    PROVE  NewEntry(t, b) \in Entry /\ NewEntry(t, b).at = clock + 1 /\ NewEntry(t, b) # None
           /\ NewEntry(t, b).block = b
BY NoneAssumption DEF LInv, Mappings, NewEntry, Entry

LEMMA EnterStep == ASSUME LInv, NEW t \in Threads, NEW b \in Blocks, Enter(t, b) PROVE LInv'
<1> DEFINE d == [doing[t] EXCEPT !.step = "watched", !.block = b]
<1>1. /\ doing[t] = Idle /\ token[b] = None /\ \A u \in Threads : doing[u].block # b
      /\ UNCHANGED <<auditing, depth, unused, open>>
  BY DEF Enter, Ready, switches, ledger
<1>2. DOMAIN doing = Threads BY DEF LInv, Busy
<1>3. CASE Recording \/ auditing
  <2>1. /\ doing' = [doing EXCEPT ![t] = d]
        /\ UNCHANGED <<registry, token, entered, handle, clock>>
    BY <1>3, <1>2 DEF Enter, blocks
  <2>2. d \in Doing /\ d.step = "watched" /\ d.block = b /\ d.entry = None
    <3>1. doing[t] \in Doing BY DEF LInv, Busy
    <3>2. Idle.entry = None BY DEF Idle
    <3>3. QED BY <1>1, <3>1, <3>2 DEF Doing
  <2> HIDE DEF d
  <2>3. doing'[t] = d /\ \A u \in Threads \ {t} : doing'[u] = doing[u] BY <1>2, <2>1
  <2>4. Busy' BY <1>1, <1>2, <2>1, <2>2, <2>3 DEF LInv, Busy
  <2>5. doing[t].entry = None BY <1>1 DEF Idle
  <2>6. OpenIsOpen' /\ open' \subseteq Record
    BY <1>1, <2>1, <2>3, <2>5, NoneAssumption DEF LInv, OpenIsOpen, Record
  <2>7. QED BY <1>1, <2>1, <2>4, <2>6, Still
<1>4. CASE ~ (Recording \/ auditing)
  <2> DEFINE m == Plain(registry[t], NewEntry(t, b))
  <2>1. Install(t, b, m) /\ UNCHANGED <<handle, doing>> BY <1>4 DEF Enter
  <2>2. Sound(m, clock + 1, auditing) BY <1>4, PlainIs, EntryIs DEF LInv, Mappings
  <2> HIDE DEF m
  <2>3. \A u \in Threads : doing'[u] = doing[u] /\ doing[u] \in Doing
    BY <2>1 DEF LInv, Busy
  <2>4. Mappings' /\ Busy' /\ Handles'
    BY <1>1, <1>2, <2>1, <2>2, <2>3, Installed DEF LInv, Handles
  <2>5. OpenIsOpen' /\ open' \subseteq Record BY <1>1, <2>1 DEF LInv, OpenIsOpen
  <2>6. QED BY <2>4, <2>5 DEF LInv
<1>5. QED BY <1>3, <1>4

LEMMA TestStep == ASSUME LInv, NEW t \in Threads, TestRecording(t) PROVE LInv'
<1> DEFINE b == doing[t].block
           d == [doing[t] EXCEPT !.step = "recording", !.counted = Counting]
<1>1. /\ doing[t].step = "watched" /\ doing[t].entry = None /\ b \in Blocks /\ token[b] = None
      /\ doing[t] \in Doing /\ DOMAIN doing = Threads
      /\ UNCHANGED <<auditing, depth, unused, open>>
  BY DEF TestRecording, switches, ledger, LInv, Busy
<1>2. CASE Recording
  <2>1. /\ doing' = [doing EXCEPT ![t] = d]
        /\ UNCHANGED <<registry, token, entered, handle, clock>>
    BY <1>1, <1>2 DEF TestRecording, blocks
  <2>2. Counting \in BOOLEAN BY DEF Counting
  <2>3. d \in Doing /\ d.step = "recording" /\ d.block = b /\ d.entry = None
    BY <1>1, <2>2 DEF Doing
  <2> HIDE DEF d
  <2>4. doing'[t] = d /\ \A u \in Threads \ {t} : doing'[u] = doing[u] BY <1>1, <2>1
  <2>5. Busy' BY <1>1, <2>1, <2>3, <2>4 DEF LInv, Busy
  <2>6. OpenIsOpen' /\ open' \subseteq Record
    BY <1>1, <2>1, <2>3, <2>4, NoneAssumption DEF LInv, OpenIsOpen, Record
  <2>7. QED BY <1>1, <2>1, <2>5, <2>6, Still
<1>3. CASE ~ Recording
  <2> DEFINE m == Instrumented(registry[t], NewEntry(t, b), FALSE)
  <2>1. Install(t, b, m) /\ doing' = [doing EXCEPT ![t] = Idle] /\ handle' = handle
    BY <1>3 DEF TestRecording
  <2>2. Sound(m, clock + 1, auditing) BY <1>1, InstrumentedIs, EntryIs DEF LInv, Mappings
  <2> HIDE DEF m
  <2>3. doing'[t] = Idle /\ \A u \in Threads \ {t} : doing'[u] = doing[u] BY <1>1, <2>1
  <2>4. Idle \in Doing /\ Idle.block = None /\ Idle.entry = None BY DEF Idle, Doing
  <2>5. \A u \in Threads : doing'[u].block # b /\ doing'[u] \in Doing
    BY <1>1, <2>3, <2>4, NoneAssumption DEF LInv, Busy
  <2> HIDE DEF b
  <2>6. Mappings' /\ Busy' /\ Handles'
    BY <1>1, <2>1, <2>2, <2>3, <2>5, Installed DEF LInv, Handles
  <2>7. OpenIsOpen' /\ open' \subseteq Record
    BY <1>1, <2>1, <2>3, <2>4, NoneAssumption DEF LInv, OpenIsOpen, Record
  <2>8. QED BY <2>6, <2>7 DEF LInv
<1>4. QED BY <1>2, <1>3

LEMMA RecordStep == ASSUME LInv, NEW t \in Threads, RecordEnter(t) PROVE LInv'
<1> DEFINE b == doing[t].block
           e == NewEntry(t, b)
           c == doing[t].counted
           m == Instrumented(registry[t], e, c)
<1>1. /\ doing[t].step = "recording" /\ doing[t].entry = None /\ b \in Blocks /\ token[b] = None
      /\ c \in BOOLEAN /\ DOMAIN doing = Threads /\ DOMAIN handle = Blocks /\ handle[b] = None
      /\ UNCHANGED auditing
  BY DEF RecordEnter, switches, LInv, Busy, Handles, Doing
<1>2. /\ Install(t, b, m) /\ doing' = [doing EXCEPT ![t] = Idle]
      /\ handle' = [handle EXCEPT ![b] = e]
      /\ open' = open \cup {[entry |-> e, counted |-> c]}
  BY DEF RecordEnter
<1>3. e \in Entry /\ e.at = clock + 1 /\ e # None /\ e.block = b BY <1>1, EntryIs
<1>4. Sound(m, clock + 1, auditing) BY <1>1, <1>3, InstrumentedIs DEF LInv, Mappings
<1> HIDE DEF m, e
<1>5. doing'[t] = Idle /\ \A u \in Threads \ {t} : doing'[u] = doing[u] BY <1>1, <1>2
<1>6. Idle \in Doing /\ Idle.block = None /\ Idle.entry = None BY DEF Idle, Doing
<1>7. \A u \in Threads : doing'[u].block # b /\ doing'[u] \in Doing
  BY <1>1, <1>5, <1>6, NoneAssumption DEF LInv, Busy
<1> HIDE DEF b, c
<1>8. Mappings' /\ Busy' /\ Handles'
  <2>1. /\ DOMAIN handle' = Blocks /\ handle'[b] \in Entry \cup {None}
        /\ \A x \in Blocks \ {b} : handle'[x] = handle[x]
    BY <1>1, <1>2, <1>3
  <2>2. DOMAIN doing' = Threads BY <1>1, <1>2
  <2>3. QED BY <1>1, <1>2, <1>4, <1>5, <1>7, <2>1, <2>2, Installed
<1>9. open' \subseteq Record BY <1>1, <1>2, <1>3 DEF LInv, Record
<1>10. OpenIsOpen'
  <2>1. \A r \in open : r.entry \in Entry /\ r.entry # None /\ r.entry.block \in Blocks
    BY NoneAssumption DEF LInv, Record, Entry
  <2>2. ASSUME NEW r \in open
        PROVE  handle'[r.entry.block] = r.entry \/ \E u \in Threads : doing'[u].entry = r.entry
    BY <1>1, <1>2, <1>5, <1>6, <2>1 DEF LInv, OpenIsOpen
  <2>3. ASSUME NEW r \in open', r \notin open
        PROVE  handle'[r.entry.block] = r.entry
    BY <1>1, <1>2, <1>3, <2>3
  <2>4. QED BY <2>2, <2>3 DEF OpenIsOpen
<1>11. QED BY <1>8, <1>9, <1>10 DEF LInv

LEMMA ExitStep == ASSUME LInv, NEW t \in Threads, NEW b \in Blocks, Exit(t, b) PROVE LInv'
<1> DEFINE m == Unwound(registry[t], b)
           d == [doing[t] EXCEPT !.step = "filing", !.entry = handle[b]]
<1>1. /\ doing[t] = Idle /\ token[b] # None
      /\ registry' = [registry EXCEPT ![t] = m]
      /\ token' = [token EXCEPT ![b] = None]
      /\ entered' = [entered EXCEPT ![b] = None]
      /\ handle' = [handle EXCEPT ![b] = None]
      /\ UNCHANGED <<auditing, open, clock>>
  BY DEF Exit, Ready, switches, ledger
<1>2. /\ DOMAIN registry = Threads /\ DOMAIN token = Blocks /\ DOMAIN entered = Blocks
      /\ DOMAIN handle = Blocks /\ DOMAIN doing = Threads
      /\ Idle.entry = None /\ Idle.block = None
  BY DEF LInv, Mappings, Busy, Handles, Idle
<1>3. Sound(m, clock, auditing)
  <2>1. Sound(registry[t], clock, auditing) /\ Sound(token[b], clock, auditing)
    BY <1>1 DEF LInv, Mappings
  <2>2. QED BY <2>1, RepairedIs DEF Unwound, LInv
<1> HIDE DEF m
<1>4. Mappings' BY <1>1, <1>2, <1>3 DEF LInv, Mappings
<1>5. Handles' BY <1>1, <1>2 DEF LInv, Handles
<1>6. CASE handle[b] = None
  <2>1. doing' = doing BY <1>6 DEF Exit
  <2>2. Busy' BY <1>1, <1>2, <2>1 DEF LInv, Busy
  <2>3. OpenIsOpen' /\ open' \subseteq Record
    <3>1. \A r \in open : r.entry # None /\ r.entry.block \in Blocks
      BY NoneAssumption DEF LInv, Record, Entry
    <3>2. QED BY <1>1, <1>2, <1>6, <2>1, <3>1 DEF LInv, OpenIsOpen
  <2>4. QED BY <1>4, <1>5, <2>2, <2>3 DEF LInv
<1>7. CASE handle[b] # None
  <2>1. doing' = [doing EXCEPT ![t] = d] BY <1>2, <1>7 DEF Exit
  <2>2. /\ doing[t] \in Doing /\ doing[t].block = None
        /\ handle[b] \in Entry /\ handle[b] # None
    BY <1>1, <1>2, <1>7 DEF LInv, Busy, Handles
  <2>3. d \in Doing /\ d.step = "filing" /\ d.block = None /\ d.entry = handle[b]
    BY <2>2 DEF Doing
  <2> HIDE DEF d
  <2>4. doing'[t] = d /\ \A u \in Threads \ {t} : doing'[u] = doing[u] BY <1>2, <2>1
  <2>5. Busy'
    <3>1. DOMAIN doing' = Threads /\ None \notin Blocks BY <1>2, <2>1, NoneAssumption
    <3>2. ASSUME NEW c, token[c] = None, c \in Blocks PROVE token'[c] = None BY <1>1, <1>2, <3>2
    <3>3. QED BY <1>1, <1>2, <2>3, <2>4, <3>1, <3>2 DEF LInv, Busy
  <2>6. OpenIsOpen' /\ open' \subseteq Record
    <3>1. \A r \in open : r.entry # None /\ r.entry.block \in Blocks
      BY NoneAssumption DEF LInv, Record, Entry
    <3>2. ASSUME NEW r \in open
          PROVE  handle'[r.entry.block] = r.entry \/ \E u \in Threads : doing'[u].entry = r.entry
      BY <1>1, <1>2, <2>3, <2>4, <3>1 DEF LInv, OpenIsOpen
    <3>3. QED BY <1>1, <3>2 DEF LInv, OpenIsOpen
  <2>7. QED BY <1>4, <1>5, <2>5, <2>6 DEF LInv
<1>8. QED BY <1>6, <1>7

LEMMA FileStep == ASSUME LInv, NEW t \in Threads, RecordExit(t) PROVE LInv'
<1> DEFINE e == doing[t].entry
<1>1. /\ doing' = [doing EXCEPT ![t] = Idle] /\ DOMAIN doing = Threads
      /\ open' = open \ {r \in open : r.entry = e}
      /\ UNCHANGED <<auditing, registry, token, entered, handle, clock>>
  BY DEF RecordExit, switches, blocks, LInv, Busy
<1>2. Idle \in Doing /\ Idle.block = None /\ Idle.entry = None /\ Idle.step = "idle"
  BY DEF Idle, Doing
<1>3. doing'[t] = Idle /\ \A u \in Threads \ {t} : doing'[u] = doing[u] BY <1>1
<1>4. Busy' BY <1>1, <1>2, <1>3, NoneAssumption DEF LInv, Busy
<1>5. OpenIsOpen' /\ open' \subseteq Record BY <1>1, <1>2, <1>3 DEF LInv, OpenIsOpen
<1>6. QED BY <1>1, <1>4, <1>5, Still

LEMMA StartStep ==
    ASSUME LInv, NEW t \in Threads, NEW u \in Threads, Start(t, u) PROVE LInv'
<1>1. /\ registry' = [registry EXCEPT ![u] = registry[t]]
      /\ UNCHANGED <<auditing, open, token, entered, handle, clock, doing>>
  BY DEF Start, switches, ledger, blocks
<1>2. Mappings' BY <1>1 DEF LInv, Mappings
<1>3. Busy' /\ Handles' BY <1>1 DEF LInv, Busy, Handles
<1>4. open' \subseteq Record /\ OpenIsOpen' BY <1>1 DEF LInv, OpenIsOpen
<1>5. QED BY <1>2, <1>3, <1>4 DEF LInv

LEMMA Frame ==
    ASSUME LInv, UNCHANGED <<auditing, open, registry, token, entered, handle, clock, doing>>
    PROVE  LInv'
<1>1. Busy' BY DEF LInv, Busy
<1>2. open' \subseteq Record /\ OpenIsOpen' BY DEF LInv, OpenIsOpen
<1>3. QED BY <1>1, <1>2, Still

-----------------------------------------------------------------------------
(* The inductive invariant, and what follows from it. *)

LEMMA Starts == Init => LInv
<1> SUFFICES ASSUME Init PROVE LInv OBVIOUS
<1>1. /\ DOMAIN registry = Threads /\ \A t \in Threads : registry[t] = Empty
      /\ DOMAIN token = Blocks /\ \A b \in Blocks : token[b] = None
      /\ DOMAIN entered = Blocks /\ \A b \in Blocks : entered[b] = None
      /\ DOMAIN handle = Blocks /\ \A b \in Blocks : handle[b] = None
      /\ DOMAIN doing = Threads /\ \A t \in Threads : doing[t] = Idle
      /\ clock = 0 /\ open = {} /\ auditing \in BOOLEAN
  BY DEF Init
<1>2. Sound(Empty, 0, auditing) BY EmptyIs DEF Sound, Chain
<1>3. Idle \in Doing /\ Idle.block = None /\ Idle.entry = None /\ Idle.step = "idle"
  BY DEF Idle, Doing
<1>4. Mappings BY <1>1, <1>2 DEF Mappings
<1>5. Busy BY <1>1, <1>3, NoneAssumption DEF Busy
<1>6. Handles /\ OpenIsOpen BY <1>1 DEF Handles, OpenIsOpen
<1>7. QED BY <1>1, <1>4, <1>5, <1>6 DEF LInv

LEMMA Inductive == LInv /\ [Next]_vars => LInv'
<1> SUFFICES ASSUME LInv, [Next]_vars PROVE LInv' OBVIOUS
<1>1. ASSUME NEW counts \in BOOLEAN, DebugEnter(counts) \/ DebugExit(counts) PROVE LInv'
  BY <1>1, Debugging
<1>2. ASSUME NEW t \in Threads, NEW b \in Blocks, Enter(t, b) PROVE LInv' BY <1>2, EnterStep
<1>3. ASSUME NEW t \in Threads, NEW b \in Blocks, Exit(t, b) PROVE LInv' BY <1>3, ExitStep
<1>4. ASSUME NEW t \in Threads, TestRecording(t) PROVE LInv' BY <1>4, TestStep
<1>5. ASSUME NEW t \in Threads, RecordEnter(t) PROVE LInv' BY <1>5, RecordStep
<1>6. ASSUME NEW t \in Threads, RecordExit(t) PROVE LInv' BY <1>6, FileStep
<1>7. ASSUME NEW t \in Threads, NEW k \in Keys, Read(t, k) PROVE LInv'
  BY <1>7, Frame DEF Read, switches, ledger, blocks
<1>8. ASSUME NEW t \in Threads, NEW u \in Threads, Start(t, u) PROVE LInv' BY <1>8, StartStep
<1>9. CASE UNCHANGED vars BY <1>9, Frame DEF vars, switches, ledger, blocks
<1>10. QED BY <1>1, <1>2, <1>3, <1>4, <1>5, <1>6, <1>7, <1>8, <1>9 DEF Next

LEMMA Always == Spec => []LInv
BY Starts, Inductive, PTL DEF Spec

\* However blocks, debug() blocks, wipes and threads interleave with the two steps of
\* an entry and of an exit, the ledger never calls a block open that is neither open
\* nor being filed.
THEOREM NothingOutlives == Spec => []OpenIsOpen
BY Always, PTL DEF LInv

\* A mapping answers to the entry point its chain says, whether it was entered,
\* restored by a token, inherited by a thread or repaired under a block closed early.
THEOREM Labelled == Spec => []LabelsAnswer
<1>1. LInv => LabelsAnswer BY DEF LInv, Mappings, Sound, LabelsAnswer
<1>2. QED BY <1>1, Always, PTL

-----------------------------------------------------------------------------
(* The exits remembered. *)

\* The ledger's remaining state has its type, and a forgotten key is there once.
Books ==
    /\ depth \in Nat /\ unused \in 0..depth
    /\ closed \in Seq(Record) /\ forgotten \in Seq(Keys) /\ exited \subseteq Keys
    /\ hit \subseteq Entry /\ live \subseteq Threads /\ read \cup late \subseteq Entry
    /\ \A i, j \in DOMAIN forgotten : forgotten[i] = forgotten[j] => i = j

BInv == LInv /\ Books /\ KnownOrGone

\* Popping loses nothing but what is popped, and repeats nothing.
LEMMA PoppedIs ==
    ASSUME NEW S, NEW s \in Seq(S), NEW I \in SUBSET DOMAIN s
    PROVE  /\ Popped(s, I) \in Seq(S)
           /\ \A i \in DOMAIN s \ I : \E j \in DOMAIN Popped(s, I) : Popped(s, I)[j] = s[i]
           /\ (\A i, j \in DOMAIN s : s[i] = s[j] => i = j) =>
                 \A i, j \in DOMAIN Popped(s, I) : Popped(s, I)[i] = Popped(s, I)[j] => i = j
<1>1. CASE I = {} BY <1>1 DEF Popped
<1>2. CASE I # {}
  <2> DEFINE p == CHOOSE i \in I : TRUE
             n == Len(s)
             q == [j \in 1..n - 1 |-> s[IF j < p THEN j ELSE j + 1]]
  <2>1. p \in 1..n /\ n \in Nat /\ DOMAIN s = 1..n /\ p \in I /\ n - 1 \in Nat
    BY <1>2, LenProperties
  <2>2. Popped(s, I) = q BY <1>2 DEF Popped
  <2> HIDE DEF p, n
  <2>3. \A j \in 1..n - 1 : (IF j < p THEN j ELSE j + 1) \in 1..n BY <2>1
  <2>4. \A i \in 1..n : s[i] \in S BY <2>1, ElementOfSeq DEF n
  <2>5. q \in [1..n - 1 -> S] BY <2>3, <2>4
  <2>6. q \in Seq(S) BY <2>1, <2>5, IsASeq
  <2>7. DOMAIN q = 1..n - 1 OBVIOUS
  <2>8. ASSUME NEW i \in DOMAIN s \ I PROVE \E j \in DOMAIN q : q[j] = s[i]
    <3>1. i \in 1..n /\ i # p BY <2>1
    <3>2. CASE i < p
      <4>1. i \in 1..n - 1 BY <2>1, <3>1, <3>2
      <4>2. q[i] = s[i] BY <3>2, <4>1
      <4>3. QED BY <2>7, <4>1, <4>2
    <3>3. CASE i > p
      <4>1. i - 1 \in 1..n - 1 /\ ~ (i - 1 < p) /\ (i - 1) + 1 = i BY <2>1, <3>1, <3>3
      <4>2. q[i - 1] = s[i] BY <4>1
      <4>3. QED BY <2>7, <4>1, <4>2
    <3>4. QED BY <2>1, <3>1, <3>2, <3>3
  <2>9. ASSUME \A i, j \in DOMAIN s : s[i] = s[j] => i = j,
               NEW i \in DOMAIN q, NEW j \in DOMAIN q, q[i] = q[j]
        PROVE  i = j
    <3> DEFINE at(x) == IF x < p THEN x ELSE x + 1
    <3>1. q[i] = s[at(i)] /\ q[j] = s[at(j)] /\ at(i) \in 1..n /\ at(j) \in 1..n
      BY <2>3, <2>7
    <3>2. at(i) = at(j) BY <2>1, <2>9, <3>1
    <3>3. QED BY <2>1, <2>7, <3>2
  <2> HIDE DEF q
  <2>10. QED BY <2>2, <2>6, <2>8, <2>9
<1>3. QED BY <1>1, <1>2

\* A sequence with no repetition is no longer than what it draws from.
LEMMA Distinct ==
    ASSUME NEW S, IsFiniteSet(S), NEW s \in Seq(S),
           \A i, j \in DOMAIN s : s[i] = s[j] => i = j
    PROVE  Len(s) <= Cardinality(S)
<1> DEFINE n == Len(s)
<1>1. n \in Nat /\ DOMAIN s = 1..n /\ s \in [1..n -> S] BY LenProperties
<1>2. s \in Injection(1..n, S) BY <1>1 DEF Injection, IsInjective
<1>3. Cardinality(1..n) <= Cardinality(S) BY <1>2, FS_Injection
<1>4. Cardinality(1..n) = n BY <1>1, FS_Interval
<1>5. QED BY <1>3, <1>4

LEMMA RememberedIs ==
    ASSUME BInv, NEW r \in open
    PROVE  /\ Remembered(r).closed \in Seq(Record) /\ Remembered(r).forgotten \in Seq(Keys)
           /\ \A i, j \in DOMAIN Remembered(r).forgotten :
                 Remembered(r).forgotten[i] = Remembered(r).forgotten[j] => i = j
           /\ IsFiniteSet(Keys) /\ Cardinality(Keys) <= ClosedLimit =>
                 \A k \in exited \cup {Key(r.entry)} :
                    \/ \E i \in DOMAIN Remembered(r).closed :
                          Key(Remembered(r).closed[i].entry) = k
                    \/ \E i \in DOMAIN Remembered(r).forgotten :
                          Remembered(r).forgotten[i] = k
<1> DEFINE popped == Popped(closed, {i \in DOMAIN closed : Slot(closed[i]) = Slot(r)})
           exits == Exits(r)
           traces == Traces(r)
           gone == Key(Head(exits).entry)
           more == IF \E i \in DOMAIN traces : traces[i] = gone THEN traces
                   ELSE Append(traces, gone)
           new == Remembered(r)
           n == Len(exits)
<1>1. /\ r \in Record /\ closed \in Seq(Record) /\ forgotten \in Seq(Keys)
      /\ \A i, j \in DOMAIN forgotten : forgotten[i] = forgotten[j] => i = j
      /\ ClosedLimit \in Nat
  BY BoundsAssumption DEF BInv, LInv, Books
<1>2. \A x \in Record : Key(x.entry) \in Keys BY KeyOfAssumption DEF Record, Entry, Key
<1>3. /\ popped \in Seq(Record)
      /\ \A i \in DOMAIN closed : Slot(closed[i]) # Slot(r) =>
            \E j \in DOMAIN popped : popped[j] = closed[i]
  <2> DEFINE I == {i \in DOMAIN closed : Slot(closed[i]) = Slot(r)}
  <2>1. I \in SUBSET DOMAIN closed OBVIOUS
  <2>2. \A i \in DOMAIN closed : Slot(closed[i]) # Slot(r) => i \notin I OBVIOUS
  <2>3. popped = Popped(closed, I) OBVIOUS
  <2> HIDE DEF I, popped
  <2>4. QED BY <1>1, <2>1, <2>2, <2>3, PoppedIs
<1>4. /\ traces \in Seq(Keys)
      /\ \A i \in DOMAIN forgotten : forgotten[i] # Key(r.entry) =>
            \E j \in DOMAIN traces : traces[j] = forgotten[i]
      /\ \A i, j \in DOMAIN traces : traces[i] = traces[j] => i = j
  <2> DEFINE I == {i \in DOMAIN forgotten : forgotten[i] = Key(r.entry)}
  <2>1. I \in SUBSET DOMAIN forgotten OBVIOUS
  <2>2. \A i \in DOMAIN forgotten : forgotten[i] # Key(r.entry) => i \notin I OBVIOUS
  <2>3. traces = Popped(forgotten, I) BY DEF Traces
  <2> HIDE DEF I, traces
  <2>4. QED BY <1>1, <2>1, <2>2, <2>3, PoppedIs
<1> HIDE DEF popped, traces
<1>5. /\ exits \in Seq(Record) /\ n \in Nat /\ n = Len(popped) + 1 /\ DOMAIN exits = 1..n
      /\ Len(popped) \in Nat /\ DOMAIN popped = 1..Len(popped)
      /\ exits[n] = r /\ \A i \in DOMAIN popped : exits[i] = popped[i]
  <2>1. exits = Append(popped, r) BY DEF Exits, popped
  <2>2. QED BY <1>1, <1>3, <2>1, AppendProperties, LenProperties
<1> HIDE DEF exits, n
<1>6. \A i \in 1..n : exits[i] \in Record BY <1>5, ElementOfSeq DEF n
<1>7. Head(exits) = exits[1] /\ 1 \in 1..n BY <1>5, HeadTailProperties, EmptySeq DEF n
<1>8. gone \in Keys BY <1>2, <1>6, <1>7
<1> HIDE DEF gone
<1>9. /\ more \in Seq(Keys)
      /\ \A i, j \in DOMAIN more : more[i] = more[j] => i = j
      /\ \E i \in DOMAIN more : more[i] = gone
      /\ \A i \in DOMAIN traces : \E j \in DOMAIN more : more[j] = traces[i]
  <2>1. CASE \E i \in DOMAIN traces : traces[i] = gone BY <1>4, <2>1
  <2>2. CASE ~ \E i \in DOMAIN traces : traces[i] = gone
    <3>1. more = Append(traces, gone) BY <2>2
    <3>2. /\ more \in Seq(Keys) /\ Len(traces) \in Nat /\ DOMAIN traces = 1..Len(traces)
          /\ DOMAIN more = 1..Len(traces) + 1 /\ more[Len(traces) + 1] = gone
          /\ \A i \in 1..Len(traces) : more[i] = traces[i]
      BY <1>4, <1>8, <3>1, AppendProperties, LenProperties
    <3> HIDE DEF more
    <3>3. QED BY <1>4, <2>2, <3>2
  <2>3. QED BY <2>1, <2>2
<1> HIDE DEF more
<1>10. CASE n <= ClosedLimit
  <2>1. new.closed = exits /\ new.forgotten = traces
    BY <1>10 DEF Remembered, n, exits, traces
  <2>2. ASSUME NEW k \in exited \cup {Key(r.entry)}, IsFiniteSet(Keys),
               Cardinality(Keys) <= ClosedLimit
        PROVE  \/ \E i \in DOMAIN exits : Key(exits[i].entry) = k
               \/ \E i \in DOMAIN traces : traces[i] = k
    <3>1. CASE k = Key(r.entry) BY <1>5, <1>7, <3>1
    <3>2. CASE k # Key(r.entry)
      <4>1. \/ \E i \in DOMAIN closed : Key(closed[i].entry) = k
            \/ \E i \in DOMAIN forgotten : forgotten[i] = k
        BY <2>2, <3>2 DEF BInv, KnownOrGone
      <4>2. ASSUME NEW i \in DOMAIN closed, Key(closed[i].entry) = k
            PROVE  \E j \in DOMAIN exits : Key(exits[j].entry) = k
        <5>1. Slot(closed[i]) # Slot(r) BY <3>2, <4>2 DEF Slot
        <5>2. PICK j \in DOMAIN popped : popped[j] = closed[i] BY <1>3, <5>1
        <5>3. j \in DOMAIN exits /\ exits[j] = closed[i] BY <1>5, <5>2
        <5>4. QED BY <4>2, <5>3
      <4>3. QED BY <1>4, <3>2, <4>1, <4>2
    <3>3. QED BY <3>1, <3>2
  <2>3. QED BY <1>4, <1>5, <2>1, <2>2
<1>11. CASE n > ClosedLimit
  <2> DEFINE rest == Tail(exits)
             kept == IF Len(more) > ClosedLimit THEN Tail(more) ELSE more
  <2>1. new.closed = rest /\ new.forgotten = kept
    <3>1. ~ (n <= ClosedLimit) BY <1>1, <1>5, <1>11
    <3>2. QED BY <3>1 DEF Remembered, n, exits, traces, more, gone
  <2>2. /\ rest \in Seq(Record) /\ Len(rest) = n - 1 /\ DOMAIN rest = 1..n - 1
        /\ \A i \in 1..n - 1 : rest[i] = exits[i + 1]
    <3>1. exits # <<>> BY <1>5, EmptySeq DEF n
    <3>2. QED BY <1>5, <3>1, HeadTailProperties, LenProperties DEF n
  <2>3. kept \in Seq(Keys) /\ \A i, j \in DOMAIN kept : kept[i] = kept[j] => i = j
    <3>1. CASE Len(more) > ClosedLimit
      <4>1. Len(more) \in Nat /\ DOMAIN more = 1..Len(more) BY <1>9, LenProperties
      <4>2. more # <<>> BY <1>1, <3>1, <4>1, EmptySeq
      <4>3. /\ kept \in Seq(Keys) /\ DOMAIN kept = 1..Len(more) - 1
            /\ \A i \in 1..Len(more) - 1 : kept[i] = more[i + 1]
        BY <1>9, <3>1, <4>1, <4>2, HeadTailProperties, LenProperties
      <4> HIDE DEF kept
      <4>4. ASSUME NEW i \in DOMAIN kept, NEW j \in DOMAIN kept, kept[i] = kept[j] PROVE i = j
        <5>1. i + 1 \in DOMAIN more /\ j + 1 \in DOMAIN more /\ i \in Int /\ j \in Int
          BY <4>1, <4>3
        <5>2. more[i + 1] = more[j + 1] BY <4>3, <4>4
        <5>3. i + 1 = j + 1 BY <1>9, <5>1, <5>2
        <5>4. QED BY <5>1, <5>3
      <4>5. QED BY <4>3, <4>4
    <3>2. CASE ~ (Len(more) > ClosedLimit) BY <1>9, <3>2
    <3>3. QED BY <3>1, <3>2
  <2>4. ASSUME NEW k \in exited \cup {Key(r.entry)}, IsFiniteSet(Keys),
               Cardinality(Keys) <= ClosedLimit
        PROVE  \/ \E i \in DOMAIN rest : Key(rest[i].entry) = k
               \/ \E i \in DOMAIN kept : kept[i] = k
    <3>1. Len(more) <= Cardinality(Keys) BY <1>9, <2>4, Distinct
    <3>2. Len(more) \in Nat /\ Cardinality(Keys) \in Nat
      BY <1>9, <2>4, LenProperties, FS_CardinalityType
    <3>3. kept = more BY <1>1, <2>4, <3>1, <3>2
    <3>4. ClosedLimit > 0
      <4>1. Cardinality(Keys) # 0 BY <1>8, <2>4, FS_EmptySet
      <4>2. QED BY <1>1, <2>4, <3>2, <4>1
    <3>5. n - 1 \in 1..n - 1 BY <1>1, <1>5, <1>11, <3>4
    <3> HIDE DEF rest, kept
    <3>6. CASE k = Key(r.entry)
      <4>1. rest[n - 1] = r BY <1>5, <2>2, <3>5
      <4>2. QED BY <2>2, <3>5, <3>6, <4>1
    <3>7. CASE k # Key(r.entry)
      <4>1. \/ \E i \in DOMAIN closed : Key(closed[i].entry) = k
            \/ \E i \in DOMAIN forgotten : forgotten[i] = k
        BY <2>4, <3>7 DEF BInv, KnownOrGone
      <4>2. CASE \E i \in DOMAIN forgotten : forgotten[i] = k
        <5>1. \E j \in DOMAIN traces : traces[j] = k BY <1>4, <3>7, <4>2
        <5>2. QED BY <1>9, <3>3, <5>1
      <4>3. ASSUME NEW i \in DOMAIN closed, Key(closed[i].entry) = k
            PROVE  \/ \E j \in DOMAIN rest : Key(rest[j].entry) = k
                   \/ \E j \in DOMAIN kept : kept[j] = k
        <5>1. Slot(closed[i]) # Slot(r) BY <3>7, <4>3 DEF Slot
        <5>2. PICK j \in DOMAIN popped : popped[j] = closed[i] BY <1>3, <5>1
        <5>3. j \in 1..n /\ exits[j] = closed[i] BY <1>5, <5>2
        <5>4. CASE j = 1
          <6>1. gone = k BY <1>7, <4>3, <5>3, <5>4 DEF gone
          <6>2. QED BY <1>9, <3>3, <6>1
        <5>5. CASE j # 1
          <6>1. j - 1 \in 1..n - 1 /\ (j - 1) + 1 = j BY <1>5, <5>3, <5>5
          <6>2. rest[j - 1] = closed[i] BY <2>2, <5>3, <6>1
          <6>3. QED BY <2>2, <4>3, <6>1, <6>2
        <5>6. QED BY <5>4, <5>5
      <4>4. QED BY <4>1, <4>2, <4>3
    <3>8. QED BY <3>6, <3>7
  <2>5. QED BY <2>1, <2>2, <2>3, <2>4
<1>12. QED BY <1>1, <1>5, <1>10, <1>11

LEMMA BooksStill ==
    ASSUME BInv, LInv', UNCHANGED <<closed, forgotten, exited>>,
           depth' \in Nat, unused' \in 0..depth',
           hit' \subseteq Entry, live' \subseteq Threads, read' \cup late' \subseteq Entry
    PROVE  BInv'
<1>1. Books' BY DEF BInv, Books
<1>2. KnownOrGone' BY DEF BInv, KnownOrGone
<1>3. QED BY <1>1, <1>2 DEF BInv

LEMMA BooksFiled ==
    ASSUME BInv, LInv', NEW t \in Threads, RecordExit(t) PROVE BInv'
<1> DEFINE e == doing[t].entry
           records == {r \in open : r.entry = e}
<1>1. /\ depth' = depth /\ unused' = unused /\ live' = live
      /\ hit' = hit \ {e} /\ read' = read \ {e} /\ late' \subseteq late
  BY DEF RecordExit, switches
<1>2. /\ depth' \in Nat /\ unused' \in 0..depth' /\ hit' \subseteq Entry
      /\ live' \subseteq Threads /\ read' \cup late' \subseteq Entry
  BY <1>1 DEF BInv, Books
<1>3. CASE records = {}
  <2>1. UNCHANGED <<closed, forgotten, exited>> BY <1>3 DEF RecordExit
  <2>2. QED BY <1>2, <2>1, BooksStill
<1>4. CASE records # {}
  <2>1. PICK r \in records : /\ closed' = Remembered(r).closed
                             /\ forgotten' = Remembered(r).forgotten
                             /\ exited' = exited \cup {Key(e)}
    BY <1>4 DEF RecordExit
  <2>2. r \in open /\ r.entry = e /\ r \in Record BY DEF BInv, LInv
  <2>3. Key(e) \in Keys BY <2>2, KeyOfAssumption DEF Record, Entry, Key
  <2>4. Books' BY <1>2, <2>1, <2>2, <2>3, RememberedIs DEF BInv, Books
  <2>5. KnownOrGone' BY <2>1, <2>2, RememberedIs DEF KnownOrGone
  <2>6. QED BY <2>4, <2>5 DEF BInv
<1>5. QED BY <1>3, <1>4

LEMMA BooksStart == Init => BInv
<1> SUFFICES ASSUME Init PROVE BInv OBVIOUS
<1>1. LInv BY Starts
<1>2. /\ depth = 0 /\ unused = 0 /\ closed = <<>> /\ forgotten = <<>> /\ exited = {}
      /\ hit = {} /\ live = {Root} /\ read = {} /\ late = {}
  BY DEF Init
<1>3. closed \in Seq(Record) /\ forgotten \in Seq(Keys) /\ DOMAIN forgotten = {}
  BY <1>2, EmptySeq
<1>4. Books BY <1>2, <1>3, RootAssumption DEF Books
<1>5. KnownOrGone BY <1>2 DEF KnownOrGone
<1>6. QED BY <1>1, <1>4, <1>5 DEF BInv

LEMMA BooksKept == BInv /\ [Next]_vars => BInv'
<1> SUFFICES ASSUME BInv, [Next]_vars PROVE BInv' OBVIOUS
<1>1. LInv' BY Inductive DEF BInv
<1>2. /\ depth \in Nat /\ unused \in 0..depth /\ hit \subseteq Entry /\ live \subseteq Threads
      /\ read \subseteq Entry /\ late \subseteq Entry
  BY DEF BInv, Books
<1>3. Watched \subseteq Entry BY DEF BInv, LInv, Watched, Record
<1>4. ASSUME NEW counts \in BOOLEAN, DebugEnter(counts) PROVE BInv'
  BY <1>1, <1>2, <1>4, BooksStill DEF DebugEnter, ledger, history
<1>5. ASSUME NEW counts \in BOOLEAN, DebugExit(counts) PROVE BInv'
  <2>1. depth' \in Nat /\ unused' \in 0..depth' BY <1>2, <1>5 DEF DebugExit
  <2>2. CASE depth = 1
    <3>1. /\ closed' = <<>> /\ forgotten' = <<>> /\ hit' = {} /\ read' = {} /\ exited' = {}
          /\ late' = {} /\ live' = live
      BY <1>5, <2>2 DEF DebugExit
    <3>2. closed' \in Seq(Record) /\ forgotten' \in Seq(Keys) /\ DOMAIN forgotten' = {}
      BY <3>1, EmptySeq
    <3>3. Books' BY <1>2, <2>1, <3>1, <3>2 DEF Books
    <3>4. KnownOrGone' BY <3>1 DEF KnownOrGone
    <3>5. QED BY <1>1, <3>3, <3>4 DEF BInv
  <2>3. CASE depth # 1
    BY <1>1, <1>2, <1>5, <2>1, <2>3, BooksStill DEF DebugExit, ledger, history
  <2>4. QED BY <2>2, <2>3
<1>6. ASSUME NEW t \in Threads, NEW b \in Blocks, Enter(t, b) \/ Exit(t, b) PROVE BInv'
  BY <1>1, <1>2, <1>6, BooksStill DEF Enter, Exit, switches, ledger, history
<1>7. ASSUME NEW t \in Threads, TestRecording(t) PROVE BInv'
  BY <1>1, <1>2, <1>7, BooksStill DEF TestRecording, switches, ledger, history
<1>8. ASSUME NEW t \in Threads, RecordEnter(t) PROVE BInv'
  <2>1. doing[t].block \in Blocks BY <1>8 DEF RecordEnter, BInv, LInv, Busy
  <2>2. NewEntry(t, doing[t].block) \in Entry BY <2>1, EntryIs DEF BInv
  <2>3. late' \subseteq Entry BY <1>2, <1>8, <2>2 DEF RecordEnter
  <2>4. QED BY <1>1, <1>2, <1>8, <2>3, BooksStill DEF RecordEnter, switches
<1>9. ASSUME NEW t \in Threads, RecordExit(t) PROVE BInv' BY <1>1, <1>9, BooksFiled
<1>10. ASSUME NEW t \in Threads, NEW k \in Keys, Read(t, k) PROVE BInv'
  <2>1. hit' \subseteq Entry /\ read' \subseteq Entry BY <1>2, <1>3, <1>10 DEF Read
  <2>2. QED BY <1>1, <1>2, <1>10, <2>1, BooksStill DEF Read, switches, ledger
<1>11. ASSUME NEW t \in Threads, NEW u \in Threads, Start(t, u) PROVE BInv'
  BY <1>1, <1>2, <1>11, BooksStill DEF Start, switches, ledger, history
<1>12. CASE UNCHANGED vars
  BY <1>1, <1>2, <1>12, BooksStill DEF vars, switches, ledger, history
<1>13. QED BY <1>4, <1>5, <1>6, <1>7, <1>8, <1>9, <1>10, <1>11, <1>12 DEF Next

LEMMA BooksAlways == Spec => []BInv
BY BooksStart, BooksKept, PTL DEF Spec

\* What is looked up by thread or by block is a function of it.
Maps ==
    /\ registry = [t \in Threads |-> registry[t]] /\ doing = [t \in Threads |-> doing[t]]
    /\ token = [b \in Blocks |-> token[b]] /\ entered = [b \in Blocks |-> entered[b]]
    /\ handle = [b \in Blocks |-> handle[b]]

LEMMA MapsKept == Maps /\ [Next]_vars => Maps'
<1> SUFFICES ASSUME Maps, [Next]_vars PROVE Maps' OBVIOUS
<1>1. ASSUME UNCHANGED <<registry, blocks, doing>> PROVE Maps'
  BY <1>1 DEF Maps, blocks
<1>2. ASSUME NEW counts \in BOOLEAN, DebugEnter(counts) \/ DebugExit(counts) PROVE Maps'
  BY <1>1, <1>2 DEF DebugEnter, DebugExit
<1>3. ASSUME NEW t \in Threads, NEW b \in Blocks, Enter(t, b) PROVE Maps'
  BY <1>3 DEF Enter, Install, Maps, blocks
<1>4. ASSUME NEW t \in Threads, NEW b \in Blocks, Exit(t, b) PROVE Maps'
  BY <1>4 DEF Exit, Maps
<1>5. ASSUME NEW t \in Threads, TestRecording(t) PROVE Maps'
  BY <1>5 DEF TestRecording, Install, Maps, blocks
<1>6. ASSUME NEW t \in Threads, RecordEnter(t) PROVE Maps'
  BY <1>6 DEF RecordEnter, Install, Maps
<1>7. ASSUME NEW t \in Threads, RecordExit(t) PROVE Maps' BY <1>7 DEF RecordExit, Maps, blocks
<1>8. ASSUME NEW t \in Threads, NEW k \in Keys, Read(t, k) PROVE Maps'
  BY <1>1, <1>8 DEF Read
<1>9. ASSUME NEW t \in Threads, NEW u \in Threads, Start(t, u) PROVE Maps'
  BY <1>9 DEF Start, Maps, blocks
<1>10. CASE UNCHANGED vars BY <1>1, <1>10 DEF vars
<1>11. QED BY <1>2, <1>3, <1>4, <1>5, <1>6, <1>7, <1>8, <1>9, <1>10 DEF Next

\* Every variable keeps its type: unused_depth never passes depth, so closing the last
\* debug() block also ends the counting, whichever order they are closed in.
THEOREM WellTyped == Spec => []TypeOK
<1>1. Init => Maps BY DEF Init, Maps
<1>2. ASSUME BInv, Maps PROVE TypeOK
  <2>1. \A t \in Threads : registry[t] \in Mapping /\ doing[t] \in Doing
    BY <1>2 DEF BInv, LInv, Mappings, Sound, Busy
  <2>2. \A b \in Blocks : /\ token[b] \in Mapping \cup {None}
                          /\ entered[b] \in Mapping \cup {None}
                          /\ handle[b] \in Entry \cup {None}
    BY <1>2 DEF BInv, LInv, Mappings, Sound, Handles
  <2>3. registry \in [Threads -> Mapping] /\ doing \in [Threads -> Doing]
    BY <1>2, <2>1 DEF Maps
  <2>4. /\ token \in [Blocks -> Mapping \cup {None}]
        /\ entered \in [Blocks -> Mapping \cup {None}]
        /\ handle \in [Blocks -> Entry \cup {None}]
    BY <1>2, <2>2 DEF Maps
  <2>5. QED BY <1>2, <2>3, <2>4 DEF BInv, LInv, Mappings, Books, TypeOK
<1>3. QED BY <1>1, <1>2, MapsKept, BooksAlways, PTL DEF Spec

\* A key whose blocks have exited is never taken for one that nothing provided, for
\* programs with no more keys than the ledger remembers exits: a key is forgotten once,
\* so the memory of forgotten keys drops none.
THEOREM KeysRemembered == Spec => []KnownOrGone
BY BooksAlways, PTL DEF BInv

-----------------------------------------------------------------------------
(* Reads credited. *)

\* A value is kept under its key, and below an entry of `due' reads are counted
\* and those of its value are its own.
Settled(m, due) ==
    /\ \A k \in Keys : m.vals[k] # None => Key(m.vals[k]) = k
    /\ \A e \in m.chain \cap due :
          /\ m.instrumented /\ m.owners[Key(e)] # None
          /\ m.vals[Key(e)] = e => m.owners[Key(e)] = e

\* The entries whose reads the ledger has to credit.
Due == Watched \ late

Crediting ==
    /\ \A t \in Threads : Settled(registry[t], Due)
    /\ \A b \in Blocks : /\ token[b] # None => Settled(token[b], Due)
                         /\ entered[b] # None => Settled(entered[b], Due)

\* What an open block provides is its own value.
Provides ==
    \A b \in Blocks : entered[b] # None =>
        LET m == entered[b] IN m.by \in m.chain /\ m.vals[KeyOf[b]] = m.by

\* Marks are of entries made, and with nothing recording none is due.
Marks ==
    /\ depth = 0 => Due = {}
    /\ \A e \in Watched \cup read : e.at <= clock

CInv == BInv /\ Crediting /\ Provides /\ Marks /\ ReadsCredited

\* Nothing more is due of a mapping when only newer entries become due.
LEMMA SettledLess ==
    ASSUME NEW m, NEW due, NEW less, Settled(m, due), less \cap m.chain \subseteq due
    PROVE  Settled(m, less)
BY DEF Settled

LEMMA KeyIs == ASSUME NEW e \in Entry PROVE Key(e) \in Keys
BY KeyOfAssumption DEF Entry, Key

LEMMA InstrumentedSettled ==
    ASSUME NEW n \in Nat, NEW armed, NEW m, Sound(m, n, armed), NEW due, Settled(m, due),
           NEW e \in Entry, e.at = n + 1, NEW counts \in BOOLEAN, auditing \in BOOLEAN
    PROVE  Settled(Instrumented(m, e, counts), IF counts THEN due \cup {e} ELSE due \ {e})
<1> DEFINE new == Instrumented(m, e, counts)
           k == Key(e)
           owners == Owners(m, e, counts)
           more == IF counts THEN due \cup {e} ELSE due \ {e}
<1>1. m \in Mapping /\ m.chain \subseteq Entry /\ e \notin m.chain /\ k \in Keys /\ e # None
  BY KeyIs, NoneAssumption DEF Sound, Chain
<1>2. /\ owners \in [Keys -> Entry \cup {None}]
      /\ \A j \in Keys : m.owners[j] # None => owners[j] # None
      /\ \A j \in Keys \ {k} : owners[j] = m.owners[j]
      /\ counts => owners[k] = e
  BY <1>1 DEF Owners, Mapping
<1>3. /\ new.vals = [m.vals EXCEPT ![k] = e] /\ new.chain = m.chain \cup {e}
      /\ new.instrumented = (auditing \/ owners # Nobody) /\ new.owners = owners
  BY DEF Instrumented
<1>4. \A j \in Keys : new.vals[j] = IF j = k THEN e ELSE m.vals[j] BY <1>1, <1>3 DEF Mapping
<1> HIDE DEF new, owners
<1>5. ASSUME NEW j \in Keys, owners[j] # None PROVE new.instrumented
  BY <1>3, <1>5 DEF Nobody
<1>6. ASSUME NEW j \in Keys, new.vals[j] # None PROVE Key(new.vals[j]) = j
  BY <1>4, <1>6 DEF Settled
<1>7. ASSUME NEW f \in new.chain \cap more
      PROVE  /\ new.instrumented /\ owners[Key(f)] # None
             /\ new.vals[Key(f)] = f => owners[Key(f)] = f
  <2>1. CASE f = e BY <1>1, <1>2, <1>5, <1>7, <2>1
  <2>2. CASE f # e
    <3>1. f \in m.chain \cap due BY <1>3, <1>7, <2>2
    <3>2. Key(f) \in Keys BY <1>1, <3>1, KeyIs
    <3>3. m.owners[Key(f)] # None /\ (m.vals[Key(f)] = f => m.owners[Key(f)] = f)
      BY <3>1 DEF Settled
    <3>4. QED BY <1>2, <1>4, <1>5, <2>2, <3>2, <3>3
  <2>3. QED BY <2>1, <2>2
<1>8. QED BY <1>3, <1>6, <1>7 DEF Settled, new

LEMMA PlainSettled ==
    ASSUME NEW m \in Mapping, NEW due, Settled(m, due), NEW e \in Entry
    PROVE  Settled(Plain(m, e), {})
<1>1. Plain(m, e).vals = [m.vals EXCEPT ![Key(e)] = e] BY EmptyIs DEF Plain, Mapping
<1>2. ASSUME NEW j \in Keys, Plain(m, e).vals[j] # None PROVE Key(Plain(m, e).vals[j]) = j
  BY <1>1, <1>2, KeyIs DEF Settled, Mapping
<1>3. QED BY <1>2 DEF Settled

\* What a repair restores comes from a block that is open, and its reads are
\* credited as they are below that block.
LEMMA RepairedSettled ==
    ASSUME BInv, Crediting, Provides, NEW m, Sound(m, clock, auditing), Settled(m, Due),
           NEW b \in Blocks
    PROVE  Settled(Repaired(m, b), Due)
<1> DEFINE k == KeyOf[b]
           rest == {e \in m.chain : e.block # b}
           heir == Heir(m, b)
           owners == Credited(m, b)
           new == Repaired(m, b)
<1>1. m \in Mapping /\ m.chain \subseteq Entry /\ k \in Keys
  BY KeyOfAssumption DEF Sound, Chain
<1>2. /\ heir \in Mapping /\ (heir.vals[k] # None => Key(heir.vals[k]) = k)
      /\ \A f \in Due : heir.vals[k] = f /\ f # None => heir.owners[k] = f
  <2>1. heir \in Mapping BY HeirIs DEF BInv, LInv
  <2>2. CASE Heirs(m, b) = {}
    <3>1. heir.vals[k] = None BY <1>1, <2>2 DEF Heir, Empty, Nobody
    <3>2. QED BY <2>1, <3>1
  <2>3. CASE Heirs(m, b) # {}
    <3> DEFINE c == Innermost(Heirs(m, b)).block
    <3>1. clock \in Nat /\ Chain(Heirs(m, b), clock)
      BY DEF Heirs, Sound, Chain, BInv, LInv, Mappings
    <3>2. Innermost(Heirs(m, b)) \in Heirs(m, b) BY <2>3, <3>1, Greatest
    <3>3. c \in Blocks /\ KeyOf[c] = k /\ entered[c] # None
      BY <3>1, <3>2 DEF Heirs, Chain, Entry, Key
    <3>4. heir = entered[c] BY <2>3 DEF Heir
    <3> HIDE DEF c, heir
    <3>5. Settled(heir, Due) /\ heir.by \in heir.chain /\ heir.vals[k] = heir.by
      BY <3>3, <3>4 DEF Crediting, Provides
    <3>6. QED BY <1>1, <2>1, <3>5 DEF Settled
  <2>4. QED BY <2>2, <2>3
<1> HIDE DEF heir
<1>3. /\ owners = IF m.instrumented /\ heir.owners[k] # None
                  THEN [m.owners EXCEPT ![k] = heir.owners[k]] ELSE m.owners
      /\ m.owners \in [Keys -> Entry \cup {None}]
  BY <1>1 DEF Credited, heir, Mapping
<1>4. /\ new.vals = [m.vals EXCEPT ![k] = heir.vals[k]] /\ new.chain = rest
      /\ new.instrumented = m.instrumented /\ new.owners = owners
  BY <1>1 DEF Repaired, heir, Mapping
<1>5. \A j \in Keys : new.vals[j] = IF j = k THEN heir.vals[k] ELSE m.vals[j]
  BY <1>1, <1>4 DEF Mapping
<1> HIDE DEF new, owners, k
<1>6. ASSUME NEW j \in Keys, new.vals[j] # None PROVE Key(new.vals[j]) = j
  BY <1>2, <1>5, <1>6 DEF Settled
<1>7. ASSUME NEW f \in new.chain \cap Due
      PROVE  /\ new.instrumented /\ owners[Key(f)] # None
             /\ new.vals[Key(f)] = f => owners[Key(f)] = f
  <2>1. f \in m.chain /\ f \in Due /\ f # None /\ Key(f) \in Keys
    BY <1>1, <1>4, <1>7, KeyIs, NoneAssumption
  <2>2. /\ m.instrumented /\ m.owners[Key(f)] # None
        /\ m.vals[Key(f)] = f => m.owners[Key(f)] = f
    BY <2>1 DEF Settled
  <2>3. CASE Key(f) = k BY <1>1, <1>2, <1>3, <1>4, <1>5, <2>1, <2>2, <2>3
  <2>4. CASE Key(f) # k BY <1>1, <1>3, <1>4, <1>5, <2>1, <2>2, <2>4
  <2>5. QED BY <2>3, <2>4
<1>8. QED BY <1>4, <1>6, <1>7 DEF Settled, new

\* A block opens, and reads below it are credited as they should.
LEMMA InstalledSettled ==
    ASSUME CInv, NEW t \in Threads, NEW b \in Blocks, NEW m, Install(t, b, m),
           m.by.at = clock + 1, m.by \in m.chain, m.vals[KeyOf[b]] = m.by,
           Settled(m, Due'), Due' \subseteq Due \cup {m.by}
    PROVE  Crediting' /\ Provides'
<1>1. /\ token' = [token EXCEPT ![b] = registry[t]]
      /\ entered' = [entered EXCEPT ![b] = m]
      /\ registry' = [registry EXCEPT ![t] = m]
      /\ DOMAIN registry = Threads /\ DOMAIN token = Blocks /\ DOMAIN entered = Blocks
  BY DEF Install, CInv, BInv, LInv, Mappings
<1>2. ASSUME NEW x, Sound(x, clock, auditing), Settled(x, Due) PROVE Settled(x, Due')
  <2>1. clock \in Nat /\ \A e \in x.chain : e.at \in 1..clock
    BY <1>2 DEF Sound, Chain, CInv, BInv, LInv, Mappings
  <2>2. m.by \notin x.chain BY <2>1
  <2>3. QED BY <1>2, <2>2, SettledLess
<1>3. \A u \in Threads : Settled(registry'[u], Due')
  BY <1>1, <1>2 DEF CInv, BInv, LInv, Mappings, Crediting
<1>4. ASSUME NEW c \in Blocks
      PROVE  /\ token'[c] # None => Settled(token'[c], Due')
             /\ entered'[c] # None => Settled(entered'[c], Due')
  BY <1>1, <1>2 DEF CInv, BInv, LInv, Mappings, Crediting
<1>5. Provides' BY <1>1 DEF CInv, Provides
<1>6. QED BY <1>3, <1>4, <1>5 DEF Crediting

\* A step that opens and closes nothing, after which no more is due.
LEMMA SettledStill ==
    ASSUME CInv, UNCHANGED <<registry, token, entered>>, Due' \subseteq Due
    PROVE  Crediting' /\ Provides'
<1>1. \A x : Settled(x, Due) => Settled(x, Due') BY SettledLess
<1>2. QED BY <1>1 DEF CInv, Crediting, Provides

LEMMA DebugCredits ==
    ASSUME CInv, BInv', NEW counts \in BOOLEAN, DebugEnter(counts) \/ DebugExit(counts)
    PROVE  CInv'
<1>1. depth \in Nat /\ unused \in 0..depth BY DEF CInv, BInv, Books
<1>2. UNCHANGED <<registry, token, entered, clock>> BY DEF DebugEnter, DebugExit, blocks
<1>3. CASE DebugExit(counts) /\ depth = 1
  <2>1. open' = {} /\ read' = {} BY <1>3 DEF DebugExit
  <2>2. Watched' = {} /\ Due' = {} BY <2>1 DEF Watched, Due
  <2>3. Crediting' /\ Provides' BY <1>2, <2>2, SettledStill
  <2>4. Marks' BY <2>1, <2>2 DEF Marks
  <2>5. ReadsCredited' BY <2>1 DEF ReadsCredited
  <2>6. QED BY <2>3, <2>4, <2>5 DEF CInv
<1>4. CASE DebugEnter(counts) \/ depth # 1
  <2>1. UNCHANGED <<open, hit, read, late>> /\ depth' # 0
    BY <1>1, <1>4 DEF DebugEnter, DebugExit, ledger, history
  <2>2. Watched' = Watched /\ Due' = Due BY <2>1 DEF Watched, Due
  <2>3. Crediting' /\ Provides' BY <1>2, <2>2, SettledStill
  <2>4. Marks' BY <1>2, <2>1, <2>2 DEF CInv, Marks
  <2>5. ReadsCredited' BY <2>1 DEF CInv, ReadsCredited
  <2>6. QED BY <2>3, <2>4, <2>5 DEF CInv
<1>5. QED BY <1>3, <1>4

\* A step that leaves the ledger and the switches as they are.
LEMMA MarksStill ==
    ASSUME CInv, UNCHANGED <<depth, open, hit, read, late>>, clock' \in Nat, clock <= clock'
    PROVE  Marks' /\ ReadsCredited' /\ Due' = Due /\ Watched' = Watched
<1>1. Watched' = Watched /\ Due' = Due BY DEF Watched, Due
<1>2. /\ clock \in Nat /\ \A e \in Watched \cup read : e.at \in Nat /\ e.at <= clock
  <2>1. Watched \cup read \subseteq Entry
    BY DEF CInv, BInv, LInv, Books, Watched, Record
  <2>2. QED BY <2>1 DEF CInv, BInv, LInv, Mappings, Marks, Entry
<1>3. \A e \in Watched \cup read : e.at <= clock' BY <1>2
<1>4. Marks' BY <1>1, <1>3 DEF CInv, Marks
<1>5. ReadsCredited' BY DEF CInv, ReadsCredited
<1>6. QED BY <1>1, <1>4, <1>5

\* A new entry is not among those watched.
LEMMA EntryNew ==
    ASSUME CInv, NEW t \in Threads, NEW b \in Blocks
    PROVE  NewEntry(t, b) \notin Watched \cup read
<1>1. clock \in Nat /\ NewEntry(t, b).at = clock + 1 BY EntryIs DEF CInv, BInv, LInv, Mappings
<1>2. QED BY <1>1 DEF CInv, Marks

LEMMA EnterCredits ==
    ASSUME CInv, BInv', NEW t \in Threads, NEW b \in Blocks, Enter(t, b) PROVE CInv'
<1> DEFINE e == NewEntry(t, b)
           m == Plain(registry[t], e)
<1>1. UNCHANGED <<depth, open, hit, read, late>>
  BY DEF Enter, switches, ledger, history
<1>2. clock \in Nat /\ Sound(registry[t], clock, auditing) /\ Settled(registry[t], Due)
  BY DEF CInv, BInv, LInv, Mappings, Crediting
<1>3. CASE Recording \/ auditing
  <2>1. UNCHANGED <<registry, token, entered, clock>> BY <1>3 DEF Enter, blocks
  <2>2. Marks' /\ ReadsCredited' /\ Due' = Due BY <1>1, <1>2, <2>1, MarksStill
  <2>3. Crediting' /\ Provides' BY <2>1, <2>2, SettledStill
  <2>4. QED BY <2>2, <2>3 DEF CInv
<1>4. CASE ~ (Recording \/ auditing)
  <2>1. Install(t, b, m) BY <1>4 DEF Enter
  <2>2. clock' = clock + 1 BY <2>1 DEF Install
  <2>3. Marks' /\ ReadsCredited' /\ Due' = Due BY <1>1, <1>2, <2>2, MarksStill
  <2>4. Due = {} BY <1>4 DEF Recording, CInv, BInv, Books, Marks
  <2>5. e \in Entry /\ e.at = clock + 1 /\ e.block = b BY EntryIs DEF CInv, BInv
  <2>6. registry[t] \in Mapping BY <1>2 DEF Sound
  <2>7. Settled(m, Due') BY <1>2, <2>3, <2>4, <2>5, <2>6, PlainSettled
  <2>8. m.by = e /\ e \in m.chain /\ m.vals[KeyOf[b]] = e
    <3>1. Key(e) = KeyOf[b] /\ Key(e) \in Keys BY <2>5, KeyIs DEF Key
    <3>2. QED BY <2>6, <3>1, EmptyIs DEF Plain, Mapping
  <2> HIDE DEF m, e
  <2>9. Crediting' /\ Provides' BY <2>1, <2>3, <2>5, <2>7, <2>8, InstalledSettled
  <2>10. QED BY <2>3, <2>9 DEF CInv
<1>5. QED BY <1>3, <1>4

LEMMA TestCredits ==
    ASSUME CInv, BInv', NEW t \in Threads, TestRecording(t) PROVE CInv'
<1> DEFINE b == doing[t].block
           e == NewEntry(t, b)
           m == Instrumented(registry[t], e, FALSE)
<1>1. UNCHANGED <<depth, open, hit, read, late>>
  BY DEF TestRecording, switches, ledger, history
<1>2. /\ clock \in Nat /\ Sound(registry[t], clock, auditing) /\ Settled(registry[t], Due)
      /\ b \in Blocks /\ auditing \in BOOLEAN
  BY DEF TestRecording, CInv, BInv, LInv, Mappings, Busy, Crediting
<1>3. CASE Recording
  <2>1. UNCHANGED <<registry, token, entered, clock>> BY <1>3 DEF TestRecording, blocks
  <2>2. Marks' /\ ReadsCredited' /\ Due' = Due BY <1>1, <1>2, <2>1, MarksStill
  <2>3. Crediting' /\ Provides' BY <2>1, <2>2, SettledStill
  <2>4. QED BY <2>2, <2>3 DEF CInv
<1>4. CASE ~ Recording
  <2>1. Install(t, b, m) BY <1>4 DEF TestRecording
  <2>2. clock' = clock + 1 BY <2>1 DEF Install
  <2>3. Marks' /\ ReadsCredited' /\ Due' = Due BY <1>1, <1>2, <2>2, MarksStill
  <2>4. e \in Entry /\ e.at = clock + 1 /\ e.block = b BY <1>2, EntryIs DEF CInv, BInv
  <2>5. Settled(m, Due \ {e}) BY <1>2, <2>4, InstrumentedSettled
  <2>6. e \notin Due BY <1>2, EntryNew DEF Due
  <2>7. Due \ {e} = Due BY <2>6
  <2>8. m.by = e /\ e \in m.chain /\ m.vals[KeyOf[b]] = e
    <3>1. Key(e) = KeyOf[b] /\ Key(e) \in Keys BY <2>4, KeyIs DEF Key
    <3>2. QED BY <1>2, <3>1 DEF Instrumented, Sound, Mapping
  <2> HIDE DEF m, e, b
  <2>9. Crediting' /\ Provides' BY <1>2, <2>1, <2>3, <2>4, <2>5, <2>7, <2>8, InstalledSettled
  <2>10. QED BY <2>3, <2>9 DEF CInv
<1>5. QED BY <1>3, <1>4

LEMMA RecordCredits ==
    ASSUME CInv, BInv', NEW t \in Threads, RecordEnter(t) PROVE CInv'
<1> DEFINE b == doing[t].block
           c == doing[t].counted
           e == NewEntry(t, b)
           m == Instrumented(registry[t], e, c)
<1>1. /\ clock \in Nat /\ Sound(registry[t], clock, auditing) /\ Settled(registry[t], Due)
      /\ b \in Blocks /\ c \in BOOLEAN /\ auditing \in BOOLEAN
  BY DEF RecordEnter, CInv, BInv, LInv, Mappings, Busy, Doing, Crediting
<1>2. /\ Install(t, b, m) /\ open' = open \cup {[entry |-> e, counted |-> c]}
      /\ late' = IF Recording THEN late ELSE late \cup {e}
      /\ depth' = depth /\ hit' = hit /\ read' = read
  BY DEF RecordEnter, switches
<1>3. e \in Entry /\ e.at = clock + 1 /\ e.block = b BY <1>1, EntryIs DEF CInv, BInv
<1>4. e \notin Watched \cup read BY <1>1, EntryNew
<1>5. Settled(m, IF c THEN Due \cup {e} ELSE Due \ {e}) BY <1>1, <1>3, InstrumentedSettled
<1>6. m.by = e /\ e \in m.chain /\ m.vals[KeyOf[b]] = e
  <2>1. Key(e) = KeyOf[b] /\ Key(e) \in Keys BY <1>3, KeyIs DEF Key
  <2>2. QED BY <1>1, <2>1 DEF Instrumented, Sound, Mapping
<1>7. clock' = clock + 1 BY <1>2 DEF Install
<1> HIDE DEF m, e, b, c
<1>8. Watched' = IF c THEN Watched \cup {e} ELSE Watched
  <2> DEFINE r == [entry |-> e, counted |-> c]
  <2>1. open' = open \cup {r} /\ r.entry = e /\ r.counted = c BY <1>2
  <2> HIDE DEF r
  <2>2. CASE c BY <2>1, <2>2 DEF Watched
  <2>3. CASE ~ c BY <2>1, <2>3 DEF Watched
  <2>4. QED BY <2>2, <2>3
<1>9. Due' \subseteq IF c THEN Due \cup {e} ELSE Due \ {e} BY <1>2, <1>4, <1>8 DEF Due
<1>10. Settled(m, Due') BY <1>5, <1>9, SettledLess
<1>11. Due' \subseteq Due \cup {e} BY <1>9
<1>12. Crediting' /\ Provides' BY <1>1, <1>2, <1>3, <1>6, <1>10, <1>11, InstalledSettled
<1>13. Marks'
  <2>1. ASSUME depth' = 0 PROVE Due' = {}
    <3>1. Due = {} /\ late' = late \cup {e}
      BY <1>2, <2>1 DEF Recording, CInv, BInv, Books, Marks
    <3>2. QED BY <1>8, <3>1 DEF Due
  <2>2. Watched \cup read \subseteq Entry
    BY DEF CInv, BInv, LInv, Books, Watched, Record
  <2>3. \A f \in Watched \cup read : f.at <= clock /\ f.at \in Nat
    BY <2>2 DEF CInv, Marks, Entry
  <2>4. \A f \in Watched' \cup read' : f.at <= clock'
    BY <1>1, <1>2, <1>3, <1>7, <1>8, <2>3
  <2>5. QED BY <2>1, <2>4 DEF Marks
<1>14. ReadsCredited'
  <2>1. ASSUME NEW r \in open', r.counted, r.entry \in read' PROVE r.entry \in hit' \cup late'
    <3>1. r.entry # e BY <1>2, <1>4, <2>1
    <3>2. r \in open BY <1>2, <2>1, <3>1
    <3>3. QED BY <1>2, <2>1, <3>2 DEF CInv, ReadsCredited
  <2>2. QED BY <2>1 DEF ReadsCredited
<1>15. QED BY <1>12, <1>13, <1>14 DEF CInv

LEMMA ReadCredits ==
    ASSUME CInv, BInv', NEW t \in Threads, NEW k \in Keys, Read(t, k) PROVE CInv'
<1> DEFINE m == registry[t]
           v == m.vals[k]
<1>1. /\ v # None /\ UNCHANGED <<registry, token, entered, depth, open, late, clock>>
      /\ read' = read \cup ({v} \cap m.chain \cap Watched)
      /\ hit' = hit \cup ({m.owners[k]} \cap Watched)
  BY DEF Read, switches, ledger, blocks
<1>2. Watched' = Watched /\ Due' = Due BY <1>1 DEF Watched, Due
<1>3. Crediting' /\ Provides' BY <1>1, <1>2, SettledStill
<1>4. Marks' BY <1>1, <1>2 DEF CInv, Marks
<1>5. ReadsCredited'
  <2>1. ASSUME NEW r \in open, r.counted, r.entry \in read' PROVE r.entry \in hit' \cup late'
    <3>1. CASE r.entry \in read BY <1>1, <2>1, <3>1 DEF CInv, ReadsCredited
    <3>2. CASE r.entry = v /\ v \in m.chain \cap Watched /\ v \notin late
      <4>1. v \in m.chain \cap Due BY <3>2 DEF Due
      <4>2. Settled(m, Due) BY DEF CInv, Crediting
      <4>3. Key(v) = k BY <1>1, <4>2 DEF Settled
      <4>4. m.owners[k] = v BY <4>1, <4>2, <4>3 DEF Settled
      <4>5. QED BY <1>1, <3>2, <4>4
    <3>3. QED BY <1>1, <2>1, <3>1, <3>2
  <2>2. QED BY <1>1, <2>1 DEF ReadsCredited
<1>6. QED BY <1>3, <1>4, <1>5 DEF CInv

LEMMA ExitCredits ==
    ASSUME CInv, BInv', NEW t \in Threads, NEW b \in Blocks, Exit(t, b) PROVE CInv'
<1> DEFINE m == Unwound(registry[t], b)
<1>1. /\ token[b] # None /\ registry' = [registry EXCEPT ![t] = m]
      /\ token' = [token EXCEPT ![b] = None] /\ entered' = [entered EXCEPT ![b] = None]
      /\ UNCHANGED <<depth, open, hit, read, late, clock>>
  BY DEF Exit, switches, ledger, history
<1>2. /\ clock \in Nat /\ DOMAIN registry = Threads /\ DOMAIN token = Blocks
      /\ DOMAIN entered = Blocks
  BY DEF CInv, BInv, LInv, Mappings
<1>3. Marks' /\ ReadsCredited' /\ Due' = Due BY <1>1, <1>2, MarksStill
<1>4. Settled(m, Due)
  <2>1. Settled(registry[t], Due) /\ Settled(token[b], Due) BY <1>1 DEF CInv, Crediting
  <2>2. Sound(registry[t], clock, auditing) BY DEF CInv, BInv, LInv, Mappings
  <2>3. Settled(Repaired(registry[t], b), Due) BY <2>1, <2>2, RepairedSettled DEF CInv
  <2>4. QED BY <2>1, <2>3 DEF Unwound
<1> HIDE DEF m
<1>5. Crediting' BY <1>1, <1>2, <1>3, <1>4 DEF CInv, Crediting
<1>6. Provides' BY <1>1, <1>2 DEF CInv, Provides
<1>7. QED BY <1>3, <1>5, <1>6 DEF CInv

LEMMA FileCredits == ASSUME CInv, BInv', NEW t \in Threads, RecordExit(t) PROVE CInv'
<1> DEFINE e == doing[t].entry
<1>1. /\ open' = open \ {r \in open : r.entry = e}
      /\ hit' = hit \ {e} /\ read' = read \ {e}
      /\ UNCHANGED <<depth, registry, token, entered, clock>>
  BY DEF RecordExit, switches, blocks
<1>2. \A r \in open' : r.entry \in late <=> r.entry \in late' BY DEF RecordExit
<1>3. Watched' \subseteq Watched BY <1>1 DEF Watched
<1>4. \A f \in Watched' : \E r \in open' : r.entry = f BY DEF Watched
<1>5. Due' \subseteq Due BY <1>2, <1>3, <1>4 DEF Due
<1>6. Crediting' /\ Provides' BY <1>1, <1>5, SettledStill
<1>7. Marks' BY <1>1, <1>3, <1>5 DEF CInv, Marks
<1>8. ReadsCredited'
  <2>1. ASSUME NEW r \in open', r.counted, r.entry \in read' PROVE r.entry \in hit' \cup late'
    <3>1. r \in open /\ r.entry \in read /\ r.entry # e BY <1>1, <2>1
    <3>2. r.entry \in hit \cup late BY <2>1, <3>1 DEF CInv, ReadsCredited
    <3>3. QED BY <1>1, <1>2, <3>1, <3>2
  <2>2. QED BY <2>1 DEF ReadsCredited
<1>9. QED BY <1>6, <1>7, <1>8 DEF CInv

LEMMA StartCredits ==
    ASSUME CInv, BInv', NEW t \in Threads, NEW u \in Threads, Start(t, u) PROVE CInv'
<1>1. /\ registry' = [registry EXCEPT ![u] = registry[t]] /\ DOMAIN registry = Threads
      /\ UNCHANGED <<depth, open, hit, read, late, token, entered, clock>> /\ clock \in Nat
  BY DEF Start, switches, ledger, blocks, history, CInv, BInv, LInv, Mappings
<1>2. Marks' /\ ReadsCredited' /\ Due' = Due BY <1>1, MarksStill
<1>3. Crediting' BY <1>1, <1>2 DEF CInv, Crediting
<1>4. Provides' BY <1>1 DEF CInv, Provides
<1>5. QED BY <1>2, <1>3, <1>4 DEF CInv

LEMMA CreditsStart == Init => CInv
<1> SUFFICES ASSUME Init PROVE CInv OBVIOUS
<1>1. BInv BY BooksStart
<1>2. /\ open = {} /\ read = {} /\ \A t \in Threads : registry[t] = Empty
      /\ \A b \in Blocks : token[b] = None /\ entered[b] = None
  BY DEF Init
<1>3. Watched = {} /\ Due = {} BY <1>2 DEF Watched, Due
<1>4. Settled(Empty, {}) BY DEF Settled, Empty, Nobody
<1>5. Crediting BY <1>2, <1>3, <1>4 DEF Crediting
<1>6. Provides BY <1>2 DEF Provides
<1>7. Marks BY <1>2, <1>3 DEF Marks
<1>8. ReadsCredited BY <1>2 DEF ReadsCredited
<1>9. QED BY <1>1, <1>5, <1>6, <1>7, <1>8 DEF CInv

LEMMA CreditsKept == CInv /\ [Next]_vars => CInv'
<1> SUFFICES ASSUME CInv, [Next]_vars PROVE CInv' OBVIOUS
<1>1. BInv' BY BooksKept DEF CInv
<1>2. ASSUME NEW counts \in BOOLEAN, DebugEnter(counts) \/ DebugExit(counts) PROVE CInv'
  BY <1>1, <1>2, DebugCredits
<1>3. ASSUME NEW t \in Threads, NEW b \in Blocks, Enter(t, b) PROVE CInv'
  BY <1>1, <1>3, EnterCredits
<1>4. ASSUME NEW t \in Threads, NEW b \in Blocks, Exit(t, b) PROVE CInv'
  BY <1>1, <1>4, ExitCredits
<1>5. ASSUME NEW t \in Threads, TestRecording(t) PROVE CInv' BY <1>1, <1>5, TestCredits
<1>6. ASSUME NEW t \in Threads, RecordEnter(t) PROVE CInv' BY <1>1, <1>6, RecordCredits
<1>7. ASSUME NEW t \in Threads, RecordExit(t) PROVE CInv' BY <1>1, <1>7, FileCredits
<1>8. ASSUME NEW t \in Threads, NEW k \in Keys, Read(t, k) PROVE CInv'
  BY <1>1, <1>8, ReadCredits
<1>9. ASSUME NEW t \in Threads, NEW u \in Threads, Start(t, u) PROVE CInv'
  BY <1>1, <1>9, StartCredits
<1>10. CASE UNCHANGED vars
  <2>1. /\ UNCHANGED <<depth, open, hit, read, late, registry, token, entered, clock>>
        /\ clock \in Nat
    BY <1>10 DEF vars, switches, ledger, blocks, history, CInv, BInv, LInv, Mappings
  <2>2. Marks' /\ ReadsCredited' /\ Due' = Due BY <2>1, MarksStill
  <2>3. Crediting' /\ Provides' BY <2>1, <2>2, SettledStill
  <2>4. QED BY <1>1, <2>2, <2>3 DEF CInv
<1>11. QED BY <1>2, <1>3, <1>4, <1>5, <1>6, <1>7, <1>8, <1>9, <1>10 DEF Next

LEMMA CreditsAlways == Spec => []CInv
BY CreditsStart, CreditsKept, PTL DEF Spec

\* A counted block whose value a lookup below it returned is marked, so it is never
\* reported unused, however blocks shadow each other, close out of order and are
\* inherited, and however counting and recording are switched under them.
THEOREM NoReadMissed == Spec => []ReadsCredited
BY CreditsAlways, PTL DEF CInv

===============================================================================
