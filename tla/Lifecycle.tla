----------------------------- MODULE Lifecycle -----------------------------
(***************************************************************************)
(* The deployment lifecycle of an installed host (zerith/lifecycle.py):    *)
(* deploy/update (stage, then promote), rollback and gc, one command at a  *)
(* time under the deploy lock, one file-system effect per step, with the   *)
(* command cut short (an error exit, an exception, a kill, a power cut)    *)
(* between any two effects.                                                *)
(*                                                                         *)
(* Effects reach the disk in program order; Layout and ObjectStore hold    *)
(* the persistent state, the variables below the running command.          *)
(***************************************************************************)
EXTENDS ObjectStore

CONSTANTS
    WithLoader,     \* deployments whose artifact ships a Limine loader
    MaxAborts       \* bound: the faults of one behaviour

ASSUME LifecycleAssumption ==
    /\ WithLoader \subseteq Deployments
    /\ MaxAborts \in Nat

VARIABLES
    pc,             \* the step of the running command, "idle" without one
    target,         \* promote's new_id, rollback's fb, gc's victim
    old,            \* promote's old_current, rollback's cur
    stale,          \* what _collect_stale returned, less what is removed
    unswept,        \* the objects sweep_orphans has still to look at
    missed,         \* the orphans it could not look at or unlink
    aborts,         \* faults so far: commands cut short, orphans missed
    booted          \* the deployment the machine runs from

procVars == <<pc, target, old, stale, unswept, missed>>

vars == <<storeVars, layoutVars, procVars, aborts, booted>>

StagePc == {"land", "cfs", "link", "uki", "loader", "meta", "stage"}

PromotePc == {"promote", "swing", "espLoader", "roleFallback",
              "roleCurrent", "clearStaging"}

RollbackPc == {"swapIn", "swapOut", "rollCurrent", "rollFallback"}

GcPc == {"gc", "reap", "rmtree", "sweep"}

TypeOK ==
    /\ StoreTypeOK
    /\ LayoutTypeOK
    /\ pc \in {"idle"} \cup StagePc \cup PromotePc \cup RollbackPc \cup GcPc
    /\ target \in Deployments \cup {None}
    /\ pc \notin {"idle", "gc", "reap", "sweep"} => target \in Deployments
    /\ old \in Deployments \cup {None}
    /\ stale \subseteq Deployments
    /\ unswept \cup missed \subseteq Objects
    /\ aborts \in 0..MaxAborts
    /\ booted \in Deployments

\* What an install of d0 leaves: one complete deployment, current, on the ESP.
InstalledHost(d0) ==
    /\ store = [o \in Objects |->
                    IF o \in Refs[d0] THEN "sealed" ELSE "absent"]
    /\ holder = [d \in Deployments |-> IF d = d0 THEN Refs[d0] ELSE {}]
    /\ dirs = {d0}
    /\ file = [d \in Deployments |-> [f \in FileNames |->
                  IF d = d0 /\ (f = "loader" => d0 \in WithLoader)
                  THEN "whole" ELSE "none"]]
    /\ role = [r \in Roles |-> IF r = "current" THEN d0 ELSE None]
    /\ esp = [s \in Slots |-> IF s = "current" THEN d0 ELSE None]
    /\ swapTmp = None

\* A host that an install has left with a loader and that booted from it.
Init ==
    \E d0 \in Deployments :
        /\ InstalledHost(d0)
        /\ espLoader = "whole"
        /\ pc = "idle"
        /\ target = None
        /\ old = None
        /\ stale = {} /\ unswept = {} /\ missed = {}
        /\ aborts = 0
        /\ booted = d0

\* The command returns: its local state is gone.
Finish ==
    /\ pc' = "idle"
    /\ target' = None
    /\ old' = None
    /\ stale' = {} /\ unswept' = {} /\ missed' = {}

Goto(next) ==
    /\ pc' = next
    /\ UNCHANGED <<target, old, stale, unswept, missed>>

Quiet == UNCHANGED <<aborts, booted>>

----------------------------------------------------------------------------
(* do_deploy and stage.  The artifact resolved to d; nothing happens when  *)
(* d is current.  A directory that has a root.cfs is taken as it is.       *)

Begin(d, next) ==
    /\ pc = "idle"
    /\ d # role["current"]
    /\ target' = d
    /\ pc' = next
    /\ UNCHANGED <<old, stale, unswept, missed>>

ReuseDeployment(d) ==
    /\ Begin(d, "stage")
    /\ Exists(d, "cfs")
    /\ UNCHANGED <<storeVars, layoutVars>> /\ Quiet

StartMaterialize(d) ==
    /\ Begin(d, "land")
    /\ ~Exists(d, "cfs")
    /\ dirs' = dirs \cup {d}
    /\ UNCHANGED <<storeVars, file, role, esp, espLoader, swapTmp>> /\ Quiet

(* materialize.  A phase is over when nothing is left for it to do.  A     *)
(* file that a copy has begun to write is torn until the copy is done; as  *)
(* nobody else looks meanwhile, only Abort shows it.                       *)

PlaceObject(o) ==
    /\ pc = "land"
    /\ o \in Missing(target)
    /\ Place(o, "sealed")
    /\ UNCHANGED <<layoutVars, procVars>> /\ Quiet

FinishLanding ==
    /\ pc = "land"
    /\ Missing(target) = {}
    /\ Goto("cfs")
    /\ UNCHANGED <<storeVars, layoutVars>> /\ Quiet

\* A step that changes file f of the target and nothing else on disk.
WriteFile(f, state) ==
    /\ SetFile(target, f, state)
    /\ UNCHANGED <<storeVars, dirs, role, esp, espLoader, swapTmp>>

PlaceRootCfs ==
    /\ pc = "cfs"
    /\ WriteFile("cfs", "whole") /\ Quiet
    /\ Goto("link")

LinkHolder(o) ==
    /\ pc = "link"
    /\ LinkObject(target, o)
    /\ UNCHANGED <<layoutVars, procVars>> /\ Quiet

FinishLinking ==
    /\ pc = "link"
    /\ Linkable(target) = {}
    /\ Goto("uki")
    /\ UNCHANGED <<storeVars, layoutVars>> /\ Quiet

CopyUki ==
    /\ pc = "uki"
    /\ WriteFile("uki", "whole") /\ Quiet
    /\ Goto(IF target \in WithLoader THEN "loader" ELSE "meta")

CopyLoader ==
    /\ pc = "loader"
    /\ WriteFile("loader", "whole") /\ Quiet
    /\ Goto("meta")

WriteMeta ==
    /\ pc = "meta"
    /\ WriteFile("meta", "whole") /\ Quiet
    /\ Goto("stage")

\* A step that changes one role symlink and nothing else on disk.
RoleStep(change) ==
    /\ change
    /\ UNCHANGED <<storeVars, dirs, file, esp, espLoader, swapTmp>> /\ Quiet

SetStaging ==
    /\ pc = "stage"
    /\ RoleStep(SetRole("staging", target))
    /\ Goto("promote")

----------------------------------------------------------------------------
(* promote: the ESP first (fallback, current, loader), then the roles,     *)
(* then gc.                                                                *)

\* A step that changes the UKIs on the ESP and nothing else on disk.
EspStep(change) ==
    /\ change
    /\ UNCHANGED <<storeVars, dirs, file, role, espLoader, swapTmp>> /\ Quiet

StagedUkiMissing ==
    /\ pc = "promote"
    /\ ~Exists(target, "uki")
    /\ Finish
    /\ UNCHANGED <<storeVars, layoutVars>> /\ Quiet

\* Seeded faults: the fallback is written once and then kept; the new image
\* goes in first.
PreserveCurrentOnce ==
    IF esp["fallback"] = None THEN CopyToEsp("fallback", esp["current"])
    ELSE UNCHANGED esp

SwingBeforePreserving == CopyToEsp("current", UkiOf(target))

PreserveCurrent ==
    IF role["current"] # None /\ esp["current"] # None
    THEN CopyToEsp("fallback", esp["current"])
    ELSE UNCHANGED esp

DemoteOnEsp ==
    /\ pc = "promote"
    /\ Exists(target, "uki")
    /\ EspStep(PreserveCurrent)
    /\ old' = role["current"]
    /\ pc' = "swing"
    /\ UNCHANGED <<target, stale, unswept, missed>>

SwingCurrent ==
    /\ pc = "swing"
    /\ EspStep(CopyToEsp("current", UkiOf(target)))
    /\ Goto("espLoader")

RefreshLoader ==
    /\ pc = "espLoader"
    /\ espLoader' = IF Exists(target, "loader")
                    THEN file[target]["loader"] ELSE espLoader
    /\ Goto("roleFallback")
    /\ UNCHANGED <<storeVars, dirs, file, role, esp, swapTmp>> /\ Quiet

DemoteRole ==
    /\ pc = "roleFallback"
    /\ RoleStep(IF old # None THEN SetRole("fallback", old)
                ELSE UNCHANGED role)
    /\ Goto("roleCurrent")

PromoteRole ==
    /\ pc = "roleCurrent"
    /\ RoleStep(SetRole("current", target))
    /\ Goto("clearStaging")

ClearStaging ==
    /\ pc = "clearStaging"
    /\ RoleStep(ClearRole("staging"))
    /\ Goto("gc")

----------------------------------------------------------------------------
(* rollback: swap the two UKIs through a temporary, then the two roles.    *)

\* Seeded fault: the role is not looked at.
RollbackReadyOnEsp == \A s \in Slots : esp[s] # None

RollbackReady ==
    /\ role["fallback"] # None
    /\ \A s \in Slots : esp[s] # None

StartRollback ==
    /\ pc = "idle"
    /\ RollbackReady
    /\ swapTmp' = esp["current"]
    /\ target' = role["fallback"]
    /\ old' = role["current"]
    /\ pc' = "swapIn"
    /\ UNCHANGED <<stale, unswept, missed>>
    /\ UNCHANGED <<storeVars, dirs, file, role, esp, espLoader>> /\ Quiet

SwapIn ==
    /\ pc = "swapIn"
    /\ EspStep(esp' = [current |-> esp["fallback"], fallback |-> None])
    /\ Goto("swapOut")

SwapOut ==
    /\ pc = "swapOut"
    /\ esp' = [esp EXCEPT !["fallback"] = swapTmp]
    /\ swapTmp' = None
    /\ Goto("rollCurrent")
    /\ UNCHANGED <<storeVars, dirs, file, role, espLoader>> /\ Quiet

RollCurrent ==
    /\ pc = "rollCurrent"
    /\ RoleStep(SetRole("current", target))
    /\ Goto("rollFallback")

RollFallback ==
    /\ pc = "rollFallback"
    /\ RoleStep(IF old # None THEN SetRole("fallback", old)
                ELSE UNCHANGED role)
    /\ Finish

----------------------------------------------------------------------------
(* gc, as a command or at the end of promote: remove every directory no    *)
(* role points at, file by file, then sweep the store.                     *)

StartGc ==
    /\ pc = "idle"
    /\ Goto("gc")
    /\ UNCHANGED <<storeVars, layoutVars>> /\ Quiet

CollectStale ==
    /\ pc = "gc"
    /\ stale' = dirs \ Protected
    /\ pc' = "reap"
    /\ UNCHANGED <<storeVars, layoutVars, target, old, unswept, missed>>
    /\ Quiet

BeginRmtree(d) ==
    /\ pc = "reap"
    /\ d \in stale
    /\ target' = d
    /\ stale' = stale \ {d}
    /\ pc' = "rmtree"
    /\ UNCHANGED <<storeVars, layoutVars, old, unswept, missed>> /\ Quiet

\* shutil.rmtree removes in the order the directory lists its entries: any.
RemoveFile(f) ==
    /\ pc = "rmtree"
    /\ Exists(target, f)
    /\ WriteFile(f, "none") /\ Quiet
    /\ UNCHANGED procVars

RemoveHeld(o) ==
    /\ pc = "rmtree"
    /\ UnlinkHeld(target, o)
    /\ UNCHANGED <<layoutVars, procVars>> /\ Quiet

RemoveDir ==
    /\ pc = "rmtree"
    /\ \A f \in FileNames : ~Exists(target, f)
    /\ holder[target] = {}
    /\ dirs' = dirs \ {target}
    /\ Goto("reap")
    /\ UNCHANGED <<storeVars, file, role, esp, espLoader, swapTmp>> /\ Quiet

StartSweep ==
    /\ pc = "reap"
    /\ stale = {}
    /\ pc' = "sweep"
    /\ unswept' = {o \in Objects : Present(o)}
    /\ UNCHANGED <<storeVars, layoutVars, target, old, stale, missed>> /\ Quiet

\* The walk over the store comes to o.
LookAt(o) ==
    /\ pc = "sweep"
    /\ o \in unswept
    /\ unswept' = unswept \ {o}
    /\ UNCHANGED <<layoutVars, pc, target, old, stale>>

SweepObject(o) ==
    /\ LookAt(o)
    /\ Sweep(o)
    /\ UNCHANGED missed /\ Quiet

\* stat or unlink fails, and the walk goes on.
MissOrphan(o) ==
    /\ LookAt(o)
    /\ Orphan(o)
    /\ aborts < MaxAborts
    /\ aborts' = aborts + 1
    /\ missed' = missed \cup {o}
    /\ UNCHANGED <<storeVars, booted>>

FinishGc ==
    /\ pc = "sweep"
    /\ unswept = {}
    /\ Finish
    /\ UNCHANGED <<storeVars, layoutVars>> /\ Quiet

----------------------------------------------------------------------------
(* The environment.                                                        *)

\* What the step under way has done when it is cut short: nothing, half a
\* file, or the rename of an object without its seal.
HalfDone ==
    \/ UNCHANGED <<storeVars, layoutVars>>
    \/ pc \in FileNames /\ WriteFile(pc, "torn")
    \/ /\ pc = "land"
       /\ \E o \in Missing(target) : Place(o, "unsealed")
       /\ UNCHANGED layoutVars

\* The command dies where it is: die(), an uncaught exception, a signal, a
\* power cut.  The kernel drops the lock; the disk stays as it is.
Abort ==
    /\ pc # "idle"
    /\ aborts < MaxAborts
    /\ HalfDone
    /\ aborts' = aborts + 1
    /\ Finish
    /\ UNCHANGED booted

\* The firmware starts Limine, Limine one of the two UKIs, and init mounts
\* the root it names, refusing any root.cfs but the one with the pinned digest.
Mountable(image) == image \in Deployments /\ file[image]["cfs"] = "whole"

Reboot(slot) ==
    /\ pc = "idle"
    /\ espLoader = "whole"
    /\ Mountable(esp[slot])
    /\ booted' = esp[slot]
    /\ UNCHANGED <<storeVars, layoutVars, procVars, aborts>>

Materialize ==
    \/ \E o \in Objects : PlaceObject(o) \/ LinkHolder(o)
    \/ FinishLanding \/ PlaceRootCfs \/ FinishLinking
    \/ CopyUki \/ CopyLoader \/ WriteMeta

Promote ==
    \/ SetStaging \/ StagedUkiMissing \/ DemoteOnEsp \/ SwingCurrent
    \/ RefreshLoader \/ DemoteRole \/ PromoteRole \/ ClearStaging

Rollback == SwapIn \/ SwapOut \/ RollCurrent \/ RollFallback

Gc ==
    \/ CollectStale
    \/ \E d \in Deployments : BeginRmtree(d)
    \/ \E f \in FileNames : RemoveFile(f)
    \/ \E o \in Objects : RemoveHeld(o) \/ SweepObject(o) \/ MissOrphan(o)
    \/ RemoveDir \/ StartSweep \/ FinishGc

\* A step of the command that is running.
CommandStep == Materialize \/ Promote \/ Rollback \/ Gc

\* The user or a timer starts a command.
StartCommand ==
    \/ \E d \in Deployments : ReuseDeployment(d) \/ StartMaterialize(d)
    \/ StartRollback
    \/ StartGc

Next ==
    \/ CommandStep
    \/ StartCommand
    \/ Abort
    \/ \E slot \in Slots : Reboot(slot)

Spec == Init /\ [][Next]_vars

----------------------------------------------------------------------------
(* What the lifecycle promises.                                            *)

\* The root of an image mounts and all of it can be read: composefs refuses
\* a backing object that is missing or carries no fs-verity seal.
Bootable(image) ==
    /\ Mountable(image)
    /\ \A o \in Refs[image] : store[o] = "sealed"

\* Everything materialize writes is there.
Complete(d) ==
    /\ d \in dirs
    /\ \A f \in FileNames :
          (f = "loader" => d \in WithLoader) => file[d][f] = "whole"
    /\ holder[d] = Refs[d]

\* A role never dangles, however often commands are cut short: its target is
\* a directory with a root.cfs, and current and fallback also have the UKI
\* that promote checked.  gc reads the roles once and removes afterwards.
RolesOnDisk ==
    \A r \in Roles :
        role[r] # None =>
            /\ role[r] \in dirs
            /\ Exists(role[r], "cfs")
            /\ r # "staging" => Exists(role[r], "uki")

\* Power lost at any instant of any command finds a host that boots: the
\* loader is whole, the default entry boots, and, outside the two renames of
\* a rollback, so does the previous entry once there is a fallback.  This is
\* the "crash-safe order" of promote, for every step up to and including the
\* first fault; StagedComplete and PreviousRetained show what a later command
\* makes of an interrupted one.
PowerLossSafe ==
    [][aborts = 0 =>
         /\ espLoader' = "whole"
         /\ Bootable(esp["current"])'
         /\ role'["fallback"] # None /\ "swapOut" \notin {pc, pc'}
                => Bootable(esp["fallback"])']_vars

\* Between commands, as long as there has been no fault, the three views agree:
\* the ESP names what the roles name, both deployments are complete, nothing is
\* left of any other deployment and no object is without a holder.
QuietCoherent ==
    aborts = 0 /\ pc = "idle" =>
        /\ \A s \in Slots : esp[s] = role[s]
        /\ role["staging"] = None
        /\ role["current"] # role["fallback"]
        /\ dirs = Protected
        /\ \A d \in dirs : Complete(d)
        /\ \A d \in Deployments \ dirs :
              holder[d] = {} /\ \A f \in FileNames : ~Exists(d, f)
        /\ \A o \in Objects : Present(o) <=> Holders(o) # {}

\* To whoever boots the host, an update is one step, taken when promote starts
\* on the ESP, and so is a rollback, taken at its first rename; a command cut
\* short between two effects has one of the outcomes BootEntries lists.
DefaultEntry == IF pc = "swing" THEN UkiOf(target) ELSE esp["current"]

PreviousEntry == IF pc = "swapOut" THEN swapTmp ELSE esp["fallback"]

Entries == INSTANCE BootEntries
    WITH Images <- Deployments \cup {Torn},
         cur <- DefaultEntry,
         prev <- PreviousEntry

EntriesSpec == Entries!Spec

\* To whoever reads the role symlinks, deploy, update, rollback and gc follow
\* the protocol of HostRoles, whatever is cut short: what is staged is on disk,
\* the deployment an update replaces has become the fallback before, and
\* rmtree takes the root.cfs of no deployment that a role, or a rollback
\* between its two role changes, still names.
OnDisk == {d \in Deployments : Exists(d, "cfs")}

HostProtocol == INSTANCE HostRoles
    WITH Builds <- Deployments,
         current <- role["current"],
         fallback <- role["fallback"],
         staging <- role["staging"],
         landed <- OnDisk,
         swap <- IF pc = "rollFallback" THEN old ELSE None

RolesSpec == HostProtocol!Spec

\* The store behaves for materialize as Landing promises, which is also what
\* PackLanding implements with its ranges, its pool and its faults: gc sweeps
\* nothing between the landing of an object and the end of the materialize
\* that needs it.
LandingPhase ==
    CASE pc = "land" -> "landing"
      [] pc \in {"cfs", "link", "uki", "loader", "meta"} -> "done"
      [] OTHER -> "idle"

StoreLanding == INSTANCE Landing
    WITH phase <- LandingPhase,
         wanted <- IF LandingPhase = "idle" THEN {} ELSE Refs[target]

StoreLandingSpec == StoreLanding!Spec

\* A materialize that returns leaves a complete deployment, whatever the ones
\* that were cut short and the gcs in between have left of it.
MaterializesWhole ==
    [][pc = "meta" /\ pc' = "stage" => Complete(target)']_vars

\* A deployment that is complete stays so for as long as a role names it, and
\* bootable if it is: however commands are cut short and repeated, none of
\* them writes to it, unlinks from it or sweeps an object it needs.
NamedStayWhole ==
    [][\A d \in {role[r] : r \in Roles} \ {None} :
         Complete(d) => /\ Complete(d)'
                        /\ Bootable(d) => Bootable(d)']_vars

\* A gc that returns leaves exactly the deployments the roles name and no
\* object without a holder but those whose stat or unlink failed in this very
\* sweep, also when it cleans up after commands that were cut short and after
\* sweeps that missed some: no link goes while the walk is under way.
GcReclaims ==
    [][pc = "sweep" /\ pc' = "idle" /\ aborts' = aborts
         => /\ dirs = Protected
            /\ \A o \in Objects \ missed : Present(o) => Holders(o) # {}]_vars

----------------------------------------------------------------------------
(* What the documentation says and an interrupted command breaks.          *)

\* docs/deployment.md: a staged deployment was materialized; one that is on
\* disk already can be reused.
StagedComplete ==
    role["staging"] # None => Complete(role["staging"])

\* docs/architecture.md: the previous image is always retained as fallback, so
\* the previous entry is another image than the default one, and one whose
\* deployment is on disk.
PreviousRetained ==
    pc = "idle" /\ role["staging"] = None /\ esp["fallback"] \in Deployments =>
        /\ esp["fallback"] # esp["current"]
        /\ esp["fallback"] \in dirs

\* docs/deployment.md: a rollback swaps the two entries and the two roles, so
\* the default entry is a deployment that is on disk.
DefaultRetained ==
    pc = "idle" /\ esp["current"] \in Deployments => esp["current"] \in dirs

\* docs/strengths.md: every backing object is fs-verity-sealed.
CurrentSealed ==
    pc = "idle" /\ role["staging"] = None =>
        \A o \in Refs[role["current"]] : store[o] # "unsealed"
=============================================================================
