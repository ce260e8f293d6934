---------------------------- MODULE BootEntries ----------------------------
(***************************************************************************)
(* What the two Limine entries of a host promise, without saying how the   *)
(* files get there: the default entry (zerith/current.efi) and the         *)
(* previous one (zerith/fallback.efi).  An update and a rollback are one   *)
(* step each.  A command that is cut short has two more outcomes, and no   *)
(* others: an update is undone but has used up the previous entry, or a    *)
(* rollback has happened but lost it.                                      *)
(***************************************************************************)
CONSTANTS
    Images,         \* what an update can put on the ESP
    None            \* no file

VARIABLES
    cur,            \* the image of the default entry
    prev            \* the image of the previous entry, or None

entries == <<cur, prev>>

Init == cur \in Images /\ prev = None

Update(image) == cur' = image /\ prev' = cur

Rollback ==
    /\ prev # None
    /\ cur' = prev
    /\ prev' = cur

UpdateUndone ==
    /\ prev # None
    /\ cur' = prev
    /\ UNCHANGED prev

PreviousLost ==
    /\ prev' = None
    /\ UNCHANGED cur

Next ==
    \/ \E image \in Images : Update(image)
    \/ Rollback
    \/ UpdateUndone
    \/ PreviousLost

Spec == Init /\ [][Next]_entries
=============================================================================
