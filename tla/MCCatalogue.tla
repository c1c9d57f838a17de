---------------------------- MODULE MCCatalogue ----------------------------
(* Small instances of Catalogue: one class, one string key, and refs whose  *)
(* target is either of them or no key at all.                               *)
EXTENDS Catalogue

CONSTANTS main, other, k1, n1, r1, r2, r3, f1

=============================================================================
