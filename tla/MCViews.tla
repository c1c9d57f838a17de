------------------------------- MODULE MCViews -------------------------------
(* Small instances of Views: the kinds of provider there are, under one name. *)
EXTENDS Views, TLC

CONSTANTS t1, t2, app, attr, plain, layer, sealed, object, v1

Box == <<0, app, attr>>
NameOfAll == [p \in {plain, layer, sealed, object} |-> app]
LayerOf == plain :> (attr :> Box) @@ layer :> (attr :> v1)
           @@ sealed :> (attr :> Absent) @@ object :> (attr :> v1)
AssignedAll == {v1, Absent, Box}
BoxesOf == Box :> Opaque

=============================================================================
