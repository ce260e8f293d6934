----------------------------- MODULE HostRoles -----------------------------
(***************************************************************************)
(* The protocol of the three role symlinks of a host, without the files,   *)
(* the ESP, the lock or the number of processes: an update moves a build   *)
(* that is on disk from staging to current in four steps, a rollback swaps *)
(* two roles in two, and garbage collection takes what neither a role nor  *)
(* a rollback under way names.  A command may be cut short after each.     *)
(***************************************************************************)
CONSTANTS
    Builds,         \* what a role can name
    None            \* an unset role; no rollback under way

VARIABLES
    current,        \* the targets of the three role symlinks
    fallback,
    staging,
    landed,         \* the builds that are on disk
    swap            \* what a rollback has taken out of the current role

roles == <<current, fallback, staging>>

state == <<roles, landed, swap>>

Init ==
    /\ current \in Builds
    /\ fallback = None
    /\ staging = None
    /\ landed = {current}
    /\ swap = None

Land(b) ==
    /\ swap = None
    /\ landed' = landed \cup {b}
    /\ UNCHANGED <<roles, swap>>

\* An update, in four steps.  Only what is on disk is staged, the build that
\* is replaced is the fallback before it is replaced, and staging is cleared
\* once the build it names is current.
Mark(b) ==
    /\ swap = None
    /\ b \in landed \ {current}
    /\ staging' = b
    /\ UNCHANGED <<current, fallback, landed, swap>>

Demote ==
    /\ swap = None
    /\ staging \notin {None, current}
    /\ fallback' = current
    /\ UNCHANGED <<current, staging, landed, swap>>

Promote ==
    /\ swap = None
    /\ staging \notin {None, current}
    /\ fallback = current
    /\ current' = staging
    /\ UNCHANGED <<fallback, staging, landed, swap>>

Clear ==
    /\ swap = None
    /\ staging = current
    /\ staging' = None
    /\ UNCHANGED <<current, fallback, landed, swap>>

\* A rollback, in two.
RollBack ==
    /\ swap = None
    /\ fallback # None
    /\ current' = fallback
    /\ swap' = current
    /\ UNCHANGED <<fallback, staging, landed>>

SwapBack ==
    /\ swap # None
    /\ fallback' = swap
    /\ swap' = None
    /\ UNCHANGED <<current, staging, landed>>

\* The rollback is cut short there: what it took out of the current role has
\* no role any more.
SwapLost ==
    /\ swap # None
    /\ swap' = None
    /\ UNCHANGED <<roles, landed>>

Discard(builds) ==
    /\ swap = None
    /\ builds \cap {current, fallback, staging} = {}
    /\ landed' = landed \ builds
    /\ UNCHANGED <<roles, swap>>

Next ==
    \/ \E b \in Builds : Land(b) \/ Mark(b)
    \/ Demote \/ Promote \/ Clear
    \/ RollBack \/ SwapBack \/ SwapLost
    \/ \E builds \in SUBSET landed : Discard(builds)

Spec == Init /\ [][Next]_state
=============================================================================
