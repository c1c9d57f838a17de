------------------------------ MODULE Scoping -------------------------------
(***************************************************************************)
(* What scoped context promises, without mappings, tokens or repairs: each *)
(* execution context has a scope, the set of blocks open in it, and a key  *)
(* answers with the innermost block of the scope under that key.  Blocks   *)
(* close in any order; a context starts from a copy of the scope it was    *)
(* created in, or from nothing.                                            *)
(***************************************************************************)
EXTENDS Naturals

CONSTANTS Contexts, Root, Keys, KeyOfEntry(_), Entry, Isolates, NoEntry, NoScope

VARIABLES
    born,         \* contexts created so far
    scope,        \* scope[c]: the entries open in c
    shown,        \* shown[c][k]: what use(k) answers in c
    parked        \* parked[i]: the scope isolate() i set aside, or NoScope

vars == <<born, scope, shown, parked>>

\* The innermost entry under k, NoEntry when the scope has none.
Answer(S, k) ==
    LET under == {e \in S : KeyOfEntry(e) = k} IN
    IF under = {} THEN NoEntry
    ELSE CHOOSE e \in under : \A f \in under : f.at <= e.at

View(S) == [k \in Keys |-> Answer(S, k)]

\* Context c goes on with scope S.
Become(c, S) ==
    /\ scope' = [scope EXCEPT ![c] = S]
    /\ shown' = [shown EXCEPT ![c] = View(S)]

Init ==
    /\ born = {Root}
    /\ scope = [c \in Contexts |-> {}]
    /\ shown = [c \in Contexts |-> View({})]
    /\ parked = [i \in Isolates |-> NoScope]

\* A new innermost block: later than everything in the scope.
OpenBlock(c, e) ==
    /\ \A f \in scope[c] : f.at < e.at
    /\ Become(c, scope[c] \cup {e})
    /\ UNCHANGED <<born, parked>>

CloseBlock(c, e) ==
    /\ e \in scope[c]
    /\ Become(c, scope[c] \ {e})
    /\ UNCHANGED <<born, parked>>

\* A new context: a copy of c's scope, or nothing.
Inherit(c, d) ==
    /\ d \notin born
    /\ born' = born \cup {d}
    /\ Become(d, scope[c])
    /\ UNCHANGED parked

StartEmpty(d) ==
    /\ d \notin born
    /\ born' = born \cup {d}
    /\ UNCHANGED <<scope, shown, parked>>

SetAside(c, i) ==
    /\ parked[i] = NoScope
    /\ parked' = [parked EXCEPT ![i] = [ctx |-> c, scope |-> scope[c]]]
    /\ Become(c, {})
    /\ UNCHANGED born

PutBack(c, i) ==
    /\ parked[i] # NoScope
    /\ parked[i].ctx = c
    /\ Become(c, parked[i].scope)
    /\ parked' = [parked EXCEPT ![i] = NoScope]
    /\ UNCHANGED born

Next ==
    \/ \E c \in born, e \in Entry : OpenBlock(c, e)
    \/ \E c \in born : \E e \in scope[c] : CloseBlock(c, e)
    \/ \E c \in born, d \in Contexts : Inherit(c, d)
    \/ \E d \in Contexts : StartEmpty(d)
    \/ \E c \in born, i \in Isolates : SetAside(c, i) \/ PutBack(c, i)

Spec == Init /\ [][Next]_vars

=============================================================================
