------------------------------- MODULE MCLazy -------------------------------
(* Small instances of Lazy: two nested cells, every factory reading all it  *)
(* can see.                                                                 *)
EXTENDS Lazy, TLC

ReadAll == [i \in 1..Depth |-> 1..i]

=============================================================================
