--------------------------- MODULE MCPackLanding ---------------------------
(* PackLanding on a pack of five objects laid end to end, any of which is  *)
(* there already, and one reference that is inlined.                       *)
EXTENDS PackLanding

CONSTANTS o1, o2, o3, o4, o5, inlined

MCIndex ==
    {[off |-> 0, len |-> 1, obj |-> o1],
     [off |-> 1, len |-> 2, obj |-> o2],
     [off |-> 3, len |-> 2, obj |-> o3],
     [off |-> 5, len |-> 2, obj |-> o4],
     [off |-> 7, len |-> 1, obj |-> o5]}

MCRefs == {o1, o2, o3, o4, o5, inlined}
=============================================================================
