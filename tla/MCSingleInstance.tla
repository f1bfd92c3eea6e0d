--------------------------- MODULE MCSingleInstance ---------------------------
(* Launches are interchangeable: none is named in the specification. *)
EXTENDS SingleInstance

LaunchSymmetry == Permutations(Launches)

==============================================================================
