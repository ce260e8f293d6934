---------------------------- MODULE ObjectStore ----------------------------
(***************************************************************************)
(* The content-addressed object store of one host (zerith/objects.py):     *)
(* the files under @deploy/shared/objects, named by fs-verity digest, and  *)
(* the per-deployment holder directories of hardlinks whose link counts    *)
(* are the reference counts garbage collection reads.                      *)
(*                                                                         *)
(* The operations are actions on the two variables below; the module that  *)
(* sequences them (Lifecycle) says when each of them runs.                 *)
(***************************************************************************)
EXTENDS Naturals, FiniteSets, Layout

CONSTANTS
    Objects,        \* digests of the file payloads kept outside root.cfs
    Refs            \* Refs[d]: the objects root.cfs of d references

ASSUME StoreAssumption ==
    /\ IsFiniteSet(Deployments)
    /\ Refs \in [Deployments -> SUBSET Objects]

VARIABLES
    store,          \* store[o]: the file shared/objects/<o>
    holder          \* holder[d]: the hardlinks under <d>/objects

storeVars == <<store, holder>>

\* A file named by digest o is missing, in place but not (yet) sealed with
\* fs-verity, or sealed.  Its content always measures to o: place_object
\* compares the digest before the rename.
ObjectState == {"absent", "unsealed", "sealed"}

StoreTypeOK ==
    /\ store \in [Objects -> ObjectState]
    /\ holder \in [Deployments -> SUBSET Objects]

Present(o) == store[o] # "absent"

----------------------------------------------------------------------------
(* Landing: place_object renames a verified blob into the store and then   *)
(* seals it.  The existence test comes first, so an object that is in      *)
(* place is neither fetched nor sealed again.                              *)

\* Seeded fault: what the other deployments on disk need counts as present.
MissingFromDiff(d) ==
    {o \in Refs[d] : ~Present(o) /\ \A e \in dirs \ {d} : o \notin Refs[e]}

Missing(d) == {o \in Refs[d] : ~Present(o)}

\* How far place_object got with o: to its end, or only to the rename.
Place(o, state) ==
    /\ store[o] = "absent"
    /\ store' = [store EXCEPT ![o] = state]
    /\ UNCHANGED holder

(* Holding: one hardlink per referenced object that is in the store; an    *)
(* object that is not there is passed over, one already linked is kept.    *)

\* Seeded fault: an object that another deployment holds is not linked.
LinkableUnheld(d) ==
    {o \in Refs[d] : Present(o) /\ \A e \in Deployments : o \notin holder[e]}

Linkable(d) == {o \in Refs[d] : Present(o) /\ o \notin holder[d]}

LinkObject(d, o) ==
    /\ o \in Linkable(d)
    /\ holder' = [holder EXCEPT ![d] = @ \cup {o}]
    /\ UNCHANGED store

UnlinkHeld(d, o) ==
    /\ o \in holder[d]
    /\ holder' = [holder EXCEPT ![d] = @ \ {o}]
    /\ UNCHANGED store

----------------------------------------------------------------------------
(* Sweeping: st_nlink is one for the store entry plus one per holder.  An  *)
(* object that cannot be looked at or unlinked stays, without an error.    *)

Holders(o) == {d \in Deployments : o \in holder[d]}

LinkCount(o) == 1 + Cardinality(Holders(o))

\* Seeded faults: the store entry is left out of the count; an object that
\* was never sealed is passed over.
OrphanOffByOne(o) == Present(o) /\ LinkCount(o) <= 2

OrphanSealed(o) == store[o] = "sealed" /\ LinkCount(o) = 1

Orphan(o) == Present(o) /\ LinkCount(o) = 1

Sweep(o) ==
    /\ store' = [store EXCEPT ![o] = IF Orphan(o) THEN "absent" ELSE @]
    /\ UNCHANGED holder

----------------------------------------------------------------------------
\* Every hardlink a deployment holds is still backed by the store entry of
\* the same name: sweep_orphans never removes an object that any deployment,
\* whole or half removed, still holds, so a count of one really means that
\* nobody needs the object.
HeldObjectsPresent ==
    \A d \in Deployments : \A o \in holder[d] : Present(o)
=============================================================================
