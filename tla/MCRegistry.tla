----------------------------- MODULE MCRegistry -----------------------------
(* Small instances of Registry: two blocks under one key and, in the larger *)
(* one, a third under another.                                              *)
EXTENDS Registry, TLC

CONSTANTS c1, c2, c3, k1, k2, b1, b2, b3

KeyOfTwo == b1 :> k1 @@ b2 :> k1
KeyOfThree == b1 :> k1 @@ b2 :> k1 @@ b3 :> k2

\* The two blocks under k1 are interchangeable.
BlockSymmetry == Permutations({b1, b2})

=============================================================================
