------------------------------ MODULE MCLedger ------------------------------
(* Small instances of Ledger: two blocks under one key, one under another.  *)
EXTENDS Ledger, TLC

CONSTANTS t1, t2, k1, k2, b1, b2, b3

\* Two debug() blocks nest while one thread runs, so that counting may stop
\* while recording goes on; the contract recorder needs none of them.
DepthBound(audited, threads) ==
    IF audited THEN 2 - threads ELSE 3 - threads

KeyOfThree == b1 :> k1 @@ b2 :> k1 @@ b3 :> k2

\* The two blocks under k1 are interchangeable.
BlockSymmetry == Permutations({b1, b2})

=============================================================================
