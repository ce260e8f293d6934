------------------------------ MODULE Landing ------------------------------
(***************************************************************************)
(* What landing promises to whoever materializes a deployment, without     *)
(* saying where the bytes come from: when it is done every wanted object   *)
(* is in the store, whatever earlier landings left there, and nothing is   *)
(* taken away before the deployment has been materialized.  A landing that *)
(* fails or is cut short keeps what it has placed, and leaves at most one  *)
(* object behind that is in place without its seal.                        *)
(***************************************************************************)
CONSTANT
    Objects         \* what can be in the store

VARIABLES
    store,          \* store[o]: absent, unsealed or sealed
    wanted,         \* what the landing under way is for
    phase           \* "idle", "landing" or "done"

state == <<store, wanted, phase>>

InPlace(objs) == \A o \in objs : store[o] # "absent"

Init ==
    /\ store \in [Objects -> {"absent", "sealed"}]
    /\ wanted = {}
    /\ phase = "idle"

\* A landing that finds everything in place is done at once.
Start(objs) ==
    /\ phase # "landing"
    /\ wanted' = objs
    /\ phase' \in {"landing", "done"}
    /\ phase' = "done" => InPlace(objs)
    /\ UNCHANGED store

Place(o) ==
    /\ phase = "landing"
    /\ o \in wanted /\ store[o] = "absent"
    /\ store' = [store EXCEPT ![o] = "sealed"]
    /\ UNCHANGED <<wanted, phase>>

Finish ==
    /\ phase = "landing"
    /\ InPlace(wanted)
    /\ phase' = "done"
    /\ UNCHANGED <<store, wanted>>

\* The deployment is complete, or the command fails or is cut short.
Leave ==
    /\ phase # "idle"
    /\ phase' = "idle"
    /\ wanted' = {}

LeaveUnsealed(o) ==
    /\ phase = "landing"
    /\ o \in wanted /\ store[o] = "absent"
    /\ store' = [store EXCEPT ![o] = "unsealed"]
    /\ Leave

Remove(o) ==
    /\ phase = "idle"
    /\ store[o] # "absent"
    /\ store' = [store EXCEPT ![o] = "absent"]
    /\ UNCHANGED <<wanted, phase>>

Next ==
    \/ \E objs \in SUBSET Objects : Start(objs)
    \/ \E o \in Objects : Place(o) \/ LeaveUnsealed(o) \/ Remove(o)
    \/ Finish
    \/ Leave /\ UNCHANGED store

Spec == Init /\ [][Next]_state
=============================================================================
