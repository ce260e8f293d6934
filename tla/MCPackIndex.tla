---------------------------- MODULE MCPackIndex ----------------------------
(* Four objects of one and two bytes, and index lines with any offset in   *)
(* the pack or just past it, either size and any digest, one of them of no *)
(* object.                                                                 *)
EXTENDS PackIndex, TLC

MCSizeOf == 1 :> 1 @@ 2 :> 2 @@ 3 :> 1 @@ 4 :> 1

MCIndex == [off : 0..8, len : 1..2, obj : 1..5]
=============================================================================
