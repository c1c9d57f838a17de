------------------------------ MODULE MCAudit ------------------------------
(* Two processes of two runs, and the facts a declared and an undeclared   *)
(* entry point record.                                                     *)
EXTENDS Audit, TLC

CONSTANTS web, job, db, nothing, p1, p2, r1, r2

FactsOf == {[entry |-> web, verb |-> "requires", key |-> db],
            [entry |-> web, verb |-> "opened", key |-> nothing],
            [entry |-> job, verb |-> "requires", key |-> db]}
LateOf == {[entry |-> web, verb |-> "requires", key |-> db]}

\* Processes and runs are interchangeable.
ProcSymmetry == Permutations(Procs) \cup Permutations(Runs)
=============================================================================
