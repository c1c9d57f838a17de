------------------------------ MODULE MCPortable ------------------------------
(* A namespace with a container, another with a value JSON cannot hold, and *)
(* payloads from elsewhere, one malformed and one of another version.       *)
EXTENDS Portable, TLC

CONSTANTS t1, x, y, attr, px, py, v1, v2, k1, c1

Box == <<0, x, attr>>
NameOfAll == px :> x @@ py :> y
LayerOf == px :> (attr :> Box) @@ py :> (attr :> Opaque)
BoxesOf == Box :> v1
CodedOf == c1 :> k1

Sent(v, atX, atY) == [v |-> v, ctx |-> (x :> atX @@ y :> atY), via |-> Nothing, was |-> Nothing]
ForeignOf == {Sent(1, attr :> v1, attr :> Opaque), Sent(2, attr :> v1, None)}
=============================================================================
