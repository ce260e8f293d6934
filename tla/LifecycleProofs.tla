-------------------------- MODULE LifecycleProofs --------------------------
(***************************************************************************)
(* Theorems about Lifecycle, for every set of deployments and objects,     *)
(* every reference map and any number of interrupted commands.             *)
(***************************************************************************)
EXTENDS Lifecycle, FiniteSetTheorems, TLAPS

----------------------------------------------------------------------------
(* Types.                                                                  *)

LEMMA InitTypeOK == Init => TypeOK
BY StoreAssumption, LayoutAssumption, LifecycleAssumption
   DEF Init, InstalledHost, TypeOK, StoreTypeOK, LayoutTypeOK, ObjectState,
       FileState, Roles,
       Slots, Images, FileNames, StagePc, PromotePc, RollbackPc, GcPc

LEMMA StartTypeOK ==
    ASSUME TypeOK, StartCommand
    PROVE  TypeOK'
<1> USE StoreAssumption, LayoutAssumption, LifecycleAssumption
    DEF TypeOK, StoreTypeOK, LayoutTypeOK, StagePc, PromotePc, RollbackPc,
        GcPc, storeVars, layoutVars, procVars, Quiet
<1>1. ASSUME NEW d \in Deployments, ReuseDeployment(d)
      PROVE  TypeOK'
  BY <1>1 DEF ReuseDeployment, Begin
<1>2. ASSUME NEW d \in Deployments, StartMaterialize(d)
      PROVE  TypeOK'
  BY <1>2 DEF StartMaterialize, Begin
<1>3. CASE StartRollback
  BY <1>3 DEF StartRollback, RollbackReady, Roles, Slots, Images
<1>4. CASE StartGc
  BY <1>4 DEF StartGc, Goto
<1>5. QED
  BY <1>1, <1>2, <1>3, <1>4 DEF StartCommand

LEMMA MaterializeTypeOK ==
    ASSUME TypeOK, Materialize
    PROVE  TypeOK'
<1> USE StoreAssumption, LayoutAssumption, LifecycleAssumption
    DEF TypeOK, StoreTypeOK, LayoutTypeOK, StagePc, PromotePc, RollbackPc,
        GcPc, storeVars, layoutVars, procVars, Quiet, Goto, WriteFile,
        SetFile, FileNames, FileState
<1>1. ASSUME NEW o \in Objects, PlaceObject(o)
      PROVE  TypeOK'
  BY <1>1 DEF PlaceObject, Place, ObjectState
<1>2. ASSUME NEW o \in Objects, LinkHolder(o)
      PROVE  TypeOK'
  BY <1>2 DEF LinkHolder, LinkObject
<1>3. CASE FinishLanding
  BY <1>3 DEF FinishLanding
<1>4. CASE PlaceRootCfs
  BY <1>4 DEF PlaceRootCfs
<1>5. CASE FinishLinking
  BY <1>5 DEF FinishLinking
<1>6. CASE CopyUki
  BY <1>6 DEF CopyUki
<1>7. CASE CopyLoader
  BY <1>7 DEF CopyLoader
<1>8. CASE WriteMeta
  BY <1>8 DEF WriteMeta
<1>9. QED
  BY <1>1, <1>2, <1>3, <1>4, <1>5, <1>6, <1>7, <1>8 DEF Materialize

LEMMA PromoteTypeOK ==
    ASSUME TypeOK, Promote
    PROVE  TypeOK'
<1> USE StoreAssumption, LayoutAssumption, LifecycleAssumption
    DEF TypeOK, StoreTypeOK, LayoutTypeOK, StagePc, PromotePc, RollbackPc,
        GcPc, storeVars, layoutVars, procVars, Quiet, Goto, Roles, Slots
<1>1. CASE SetStaging
  BY <1>1 DEF SetStaging, RoleStep, SetRole
<1>2. CASE StagedUkiMissing
  BY <1>2 DEF StagedUkiMissing, Finish
<1>3. CASE DemoteOnEsp
  BY <1>3 DEF DemoteOnEsp, EspStep, PreserveCurrent, CopyToEsp
<1>4. CASE SwingCurrent
  BY <1>4 DEF SwingCurrent, EspStep, CopyToEsp, UkiOf, Images
<1>5. CASE RefreshLoader
  BY <1>5 DEF RefreshLoader, Exists, FileNames, FileState
<1>6. CASE DemoteRole
  BY <1>6 DEF DemoteRole, RoleStep, SetRole
<1>7. CASE PromoteRole
  BY <1>7 DEF PromoteRole, RoleStep, SetRole
<1>8. CASE ClearStaging
  BY <1>8 DEF ClearStaging, RoleStep, ClearRole
<1>9. QED
  BY <1>1, <1>2, <1>3, <1>4, <1>5, <1>6, <1>7, <1>8 DEF Promote

LEMMA RollbackTypeOK ==
    ASSUME TypeOK, Rollback
    PROVE  TypeOK'
<1> USE StoreAssumption, LayoutAssumption, LifecycleAssumption
    DEF TypeOK, StoreTypeOK, LayoutTypeOK, StagePc, PromotePc, RollbackPc,
        GcPc, storeVars, layoutVars, procVars, Quiet, Goto, Roles, Slots
<1>1. CASE SwapIn
  BY <1>1 DEF SwapIn, EspStep, Images
<1>2. CASE SwapOut
  BY <1>2 DEF SwapOut, Images
<1>3. CASE RollCurrent
  BY <1>3 DEF RollCurrent, RoleStep, SetRole
<1>4. CASE RollFallback
  BY <1>4 DEF RollFallback, RoleStep, SetRole, Finish
<1>5. QED
  BY <1>1, <1>2, <1>3, <1>4 DEF Rollback

LEMMA GcTypeOK ==
    ASSUME TypeOK, Gc
    PROVE  TypeOK'
<1> USE StoreAssumption, LayoutAssumption, LifecycleAssumption
    DEF TypeOK, StoreTypeOK, LayoutTypeOK, StagePc, PromotePc, RollbackPc,
        GcPc, storeVars, layoutVars, procVars, Quiet, Goto
<1>1. CASE CollectStale
  BY <1>1 DEF CollectStale
<1>2. ASSUME NEW d \in Deployments, BeginRmtree(d)
      PROVE  TypeOK'
  BY <1>2 DEF BeginRmtree
<1>3. ASSUME NEW f \in FileNames, RemoveFile(f)
      PROVE  TypeOK'
  BY <1>3 DEF RemoveFile, WriteFile, SetFile, FileState
<1>4. ASSUME NEW o \in Objects, RemoveHeld(o)
      PROVE  TypeOK'
  BY <1>4 DEF RemoveHeld, UnlinkHeld
<1>5. ASSUME NEW o \in Objects, SweepObject(o)
      PROVE  TypeOK'
  BY <1>5 DEF SweepObject, LookAt, Sweep, ObjectState
<1>6. ASSUME NEW o \in Objects, MissOrphan(o)
      PROVE  TypeOK'
  BY <1>6 DEF MissOrphan, LookAt
<1>7. CASE RemoveDir
  BY <1>7 DEF RemoveDir
<1>8. CASE StartSweep
  BY <1>8 DEF StartSweep
<1>9. CASE FinishGc
  BY <1>9 DEF FinishGc, Finish
<1>10. QED
  BY <1>1, <1>2, <1>3, <1>4, <1>5, <1>6, <1>7, <1>8, <1>9 DEF Gc

LEMMA EnvironmentTypeOK ==
    ASSUME TypeOK, Abort \/ \E slot \in Slots : Reboot(slot)
    PROVE  TypeOK'
<1> USE StoreAssumption, LayoutAssumption, LifecycleAssumption
    DEF TypeOK, StoreTypeOK, LayoutTypeOK, StagePc, PromotePc, RollbackPc,
        GcPc, storeVars, layoutVars, procVars
<1>1. CASE Abort
  <2>1. StoreTypeOK' /\ LayoutTypeOK'
    <3>1. CASE UNCHANGED <<storeVars, layoutVars>>
      BY <3>1
    <3>2. CASE pc \in FileNames /\ WriteFile(pc, "torn")
      BY <3>2 DEF WriteFile, SetFile, FileNames, FileState
    <3>3. CASE /\ \E o \in Missing(target) : Place(o, "unsealed")
               /\ UNCHANGED layoutVars
      BY <3>3 DEF Place, ObjectState
    <3>4. QED
      BY <1>1, <3>1, <3>2, <3>3 DEF Abort, HalfDone
  <2>2. QED
    BY <1>1, <2>1 DEF Abort, HalfDone, Finish
<1>2. ASSUME NEW slot \in Slots, Reboot(slot)
      PROVE  TypeOK'
  BY <1>2 DEF Reboot, Mountable
<1>3. QED
  BY <1>1, <1>2

\* Type correctness: the disk and the running command stay inside their
\* types, and a step that works on a deployment always has one.
THEOREM TypeCorrect == Spec => []TypeOK
<1>1. TypeOK /\ [Next]_vars => TypeOK'
  <2> SUFFICES ASSUME TypeOK, [Next]_vars
               PROVE  TypeOK'
    OBVIOUS
  <2>1. CASE Next
    BY <2>1, StartTypeOK, MaterializeTypeOK, PromoteTypeOK, RollbackTypeOK,
       GcTypeOK, EnvironmentTypeOK DEF Next, CommandStep
  <2>2. CASE UNCHANGED vars
    BY <2>2 DEF vars, storeVars, layoutVars, procVars, TypeOK, StoreTypeOK,
                LayoutTypeOK
  <2>3. QED
    BY <2>1, <2>2
<1>2. QED
  BY InitTypeOK, <1>1, PTL DEF Spec

----------------------------------------------------------------------------
(* No object that is held is swept.                                        *)

\* A link count of one means that no deployment holds the object: what
\* sweep_orphans relies on when it reads st_nlink.
LEMMA OrphanHasNoHolder ==
    ASSUME NEW o, Orphan(o)
    PROVE  Holders(o) = {}
<1>1. IsFiniteSet(Holders(o))
  BY StoreAssumption, FS_Subset DEF Holders
<1>2. Cardinality(Holders(o)) = 0
  BY <1>1, FS_CardinalityType DEF Orphan, LinkCount
<1>3. QED
  BY <1>1, <1>2, FS_EmptySet

\* The converse of OrphanHasNoHolder: what the walk leaves has a holder.
LEMMA SweptOrHeld ==
    ASSUME NEW o, Present(o), ~Orphan(o)
    PROVE  Holders(o) # {}
<1>1. SUFFICES ASSUME Holders(o) = {}
               PROVE  FALSE
  OBVIOUS
<1>2. Cardinality(Holders(o)) = 0
  BY <1>1, FS_EmptySet
<1>3. QED
  BY <1>2 DEF Orphan, LinkCount

\* A step of the walk over the store changes nothing but the store and what is
\* left of the walk,
LEMMA WalkFrame ==
    ASSUME NEW o \in Objects, SweepObject(o) \/ MissOrphan(o)
    PROVE  /\ pc = "sweep"
           /\ UNCHANGED <<holder, layoutVars, pc, target, old, stale>>
BY DEF SweepObject, MissOrphan, LookAt, Sweep, storeVars

\* and the store by at most one object, one without a holder.
LEMMA WalkStore ==
    ASSUME TypeOK, NEW o \in Objects, SweepObject(o) \/ MissOrphan(o)
    PROVE  \/ store' = store
           \/ Orphan(o) /\ store' = [store EXCEPT ![o] = "absent"]
BY DEF SweepObject, MissOrphan, Sweep, storeVars, TypeOK, StoreTypeOK

\* Every command and every interruption of one keeps held objects in place.
LEMMA StepKeepsHeld ==
    ASSUME TypeOK, HeldObjectsPresent, Next
    PROVE  HeldObjectsPresent'
<1> USE DEF HeldObjectsPresent, Present, TypeOK, StoreTypeOK
<1>1. CASE UNCHANGED storeVars
  BY <1>1 DEF storeVars
<1>2. ASSUME NEW o, NEW state \in {"sealed", "unsealed"}, Place(o, state)
      PROVE  HeldObjectsPresent'
  BY <1>2 DEF Place
<1>3. ASSUME NEW o \in Objects, PlaceObject(o)
      PROVE  HeldObjectsPresent'
  BY <1>2, <1>3 DEF PlaceObject
<1>4. ASSUME NEW o \in Objects, LinkHolder(o)
      PROVE  HeldObjectsPresent'
  <2>1. target \in Deployments
    BY <1>4 DEF LinkHolder
  <2>2. QED
    BY <1>4, <2>1 DEF LinkHolder, LinkObject, Linkable
<1>5. ASSUME NEW o \in Objects, RemoveHeld(o)
      PROVE  HeldObjectsPresent'
  BY <1>5 DEF RemoveHeld, UnlinkHeld
<1>6. ASSUME NEW o \in Objects, SweepObject(o) \/ MissOrphan(o)
      PROVE  HeldObjectsPresent'
  <2>1. CASE store' = store
    BY <1>6, <2>1, WalkFrame
  <2>2. CASE Orphan(o) /\ store' = [store EXCEPT ![o] = "absent"]
    <3>1. \A d \in Deployments : o \notin holder[d]
      BY <2>2, OrphanHasNoHolder DEF Holders
    <3>2. QED
      BY <1>6, <2>2, <3>1, WalkFrame
  <2>3. QED
    BY <1>6, <2>1, <2>2, WalkStore
<1>7. CASE \/ Promote \/ Rollback \/ StartCommand
           \/ \E slot \in Slots : Reboot(slot)
  BY <1>7, <1>1
     DEF Promote, Rollback, StartCommand, RoleStep, EspStep, SetStaging,
         StagedUkiMissing, DemoteOnEsp, SwingCurrent, RefreshLoader,
         DemoteRole, PromoteRole, ClearStaging, SwapIn, SwapOut, RollCurrent,
         RollFallback, ReuseDeployment, StartMaterialize, StartRollback,
         StartGc, Reboot
<1>8. CASE Abort
  BY <1>8, <1>1, <1>2 DEF Abort, HalfDone, WriteFile
<1>9. CASE \/ FinishLanding \/ PlaceRootCfs \/ FinishLinking
           \/ CopyUki \/ CopyLoader \/ WriteMeta
  BY <1>9, <1>1
     DEF FinishLanding, PlaceRootCfs, FinishLinking, CopyUki, CopyLoader,
         WriteMeta, WriteFile
<1>10. CASE \/ CollectStale \/ RemoveDir \/ StartSweep \/ FinishGc
            \/ \E d \in Deployments : BeginRmtree(d)
            \/ \E f \in FileNames : RemoveFile(f)
  BY <1>10, <1>1
     DEF CollectStale, RemoveDir, StartSweep, FinishGc, BeginRmtree,
         RemoveFile, WriteFile
<1>11. QED
  BY <1>3, <1>4, <1>5, <1>6, <1>7, <1>8, <1>9, <1>10
     DEF Next, CommandStep, Materialize, Gc

\* However commands are interrupted and repeated, no object that a
\* deployment directory holds, whole or half removed, leaves the store.
THEOREM HeldObjectsStay == Spec => []HeldObjectsPresent
<1>1. Init => HeldObjectsPresent
  BY StoreAssumption DEF Init, InstalledHost, HeldObjectsPresent, Present
<1>2. TypeOK /\ HeldObjectsPresent /\ [Next]_vars => HeldObjectsPresent'
  BY StepKeepsHeld
     DEF vars, storeVars, HeldObjectsPresent, Present
<1>3. QED
  BY TypeCorrect, <1>1, <1>2, PTL DEF Spec

----------------------------------------------------------------------------
(* Roles never dangle.  RolesOnDisk is not inductive: what keeps it true   *)
(* is where each command stands.  The target of a stage is on disk before  *)
(* the role names it, promote and rollback hold on to deployments that     *)
(* still have a role or had one when they began, and gc removes only what  *)
(* no role named when it looked, while nothing else runs.                  *)

\* A deployment a boot role may name.
Standing(d) == d \in dirs /\ Exists(d, "cfs") /\ Exists(d, "uki")

StageInv ==
    /\ pc \in StagePc => target \in dirs
    /\ pc \in StagePc \ {"land", "cfs"} => Exists(target, "cfs")

PromoteInv ==
    /\ pc \in PromotePc => role["staging"] = target
    /\ pc \in PromotePc \ {"promote"} => Exists(target, "uki")
    /\ pc \in {"swing", "espLoader", "roleFallback", "roleCurrent"}
          => old = role["current"]

RollbackInv ==
    pc \in RollbackPc => Standing(target) /\ (old # None => Standing(old))

GcInv ==
    /\ pc \in {"reap", "rmtree"} => stale \cap Protected = {}
    /\ pc = "rmtree" => target \notin Protected

\* A file lies in a directory.
FilesInDirs ==
    \A d \in Deployments : \A f \in FileNames : Exists(d, f) => d \in dirs

RoleInv ==
    /\ FilesInDirs
    /\ role["current"] # None
    /\ RolesOnDisk
    /\ StageInv
    /\ PromoteInv
    /\ RollbackInv
    /\ GcInv

\* What makes each step on the ESP one of BootEntries.
EntryInv ==
    /\ esp["current"] # None
    /\ pc = "swing" => esp["fallback"] = esp["current"]
    /\ pc = "swapIn" => esp["fallback"] # None /\ swapTmp = esp["current"]
    /\ pc = "swapOut" => esp["fallback"] = None /\ swapTmp # None


LEMMA StartRoleInv ==
    ASSUME TypeOK, RoleInv, StartCommand
    PROVE  RoleInv'
<1> USE LayoutAssumption
    DEF TypeOK, LayoutTypeOK, RoleInv, FilesInDirs, RolesOnDisk, Standing,
        StageInv, PromoteInv, RollbackInv, GcInv, Exists, Protected, StagePc,
        PromotePc, RollbackPc, layoutVars, Roles, FileNames
<1>1. ASSUME NEW d \in Deployments, ReuseDeployment(d)
      PROVE  RoleInv'
  <2>1. file[d]["cfs"] # "none" /\ d \in dirs
    BY <1>1 DEF ReuseDeployment
  <2>2. QED
    BY <1>1, <2>1 DEF ReuseDeployment, Begin
<1>2. ASSUME NEW d \in Deployments, StartMaterialize(d)
      PROVE  RoleInv'
  BY <1>2 DEF StartMaterialize, Begin
<1>3. CASE StartRollback
  BY <1>3 DEF StartRollback, RollbackReady
<1>4. CASE StartGc
  BY <1>4 DEF StartGc, Goto
<1>5. QED
  BY <1>1, <1>2, <1>3, <1>4 DEF StartCommand

LEMMA MaterializeRoleInv ==
    ASSUME TypeOK, RoleInv, Materialize
    PROVE  RoleInv'
<1> USE LayoutAssumption
    DEF TypeOK, LayoutTypeOK, RoleInv, FilesInDirs, RolesOnDisk, Standing,
        StageInv, PromoteInv, RollbackInv, GcInv, Exists, Protected, StagePc,
        PromotePc, RollbackPc, layoutVars, procVars, Roles, FileNames, Goto,
        WriteFile, SetFile
<1>1. ASSUME NEW o \in Objects, PlaceObject(o)
      PROVE  RoleInv'
  BY <1>1 DEF PlaceObject
<1>2. ASSUME NEW o \in Objects, LinkHolder(o)
      PROVE  RoleInv'
  BY <1>2 DEF LinkHolder
<1>3. CASE FinishLanding
  BY <1>3 DEF FinishLanding
<1>4. CASE PlaceRootCfs
  BY <1>4 DEF PlaceRootCfs
<1>5. CASE FinishLinking
  BY <1>5 DEF FinishLinking
<1>6. CASE CopyUki
  BY <1>6 DEF CopyUki
<1>7. CASE CopyLoader
  BY <1>7 DEF CopyLoader
<1>8. CASE WriteMeta
  BY <1>8 DEF WriteMeta
<1>9. QED
  BY <1>1, <1>2, <1>3, <1>4, <1>5, <1>6, <1>7, <1>8 DEF Materialize

LEMMA PromoteRoleInv ==
    ASSUME TypeOK, RoleInv, Promote
    PROVE  RoleInv'
<1> USE LayoutAssumption
    DEF TypeOK, LayoutTypeOK, RoleInv, FilesInDirs, RolesOnDisk, Standing,
        StageInv, PromoteInv, RollbackInv, GcInv, Exists, Protected, StagePc,
        PromotePc, RollbackPc, layoutVars, procVars, Roles, FileNames, Goto
<1>1. CASE SetStaging
  BY <1>1 DEF SetStaging, RoleStep, SetRole
<1>2. CASE StagedUkiMissing
  BY <1>2 DEF StagedUkiMissing, Finish
<1>3. CASE DemoteOnEsp
  BY <1>3 DEF DemoteOnEsp, EspStep
<1>4. CASE SwingCurrent
  BY <1>4 DEF SwingCurrent, EspStep
<1>5. CASE RefreshLoader
  BY <1>5 DEF RefreshLoader
<1>6. CASE DemoteRole
  BY <1>6 DEF DemoteRole, RoleStep, SetRole
<1>7. CASE PromoteRole
  BY <1>7 DEF PromoteRole, RoleStep, SetRole
<1>8. CASE ClearStaging
  BY <1>8 DEF ClearStaging, RoleStep, ClearRole
<1>9. QED
  BY <1>1, <1>2, <1>3, <1>4, <1>5, <1>6, <1>7, <1>8 DEF Promote

LEMMA RollbackRoleInv ==
    ASSUME TypeOK, RoleInv, Rollback
    PROVE  RoleInv'
<1> USE LayoutAssumption
    DEF TypeOK, LayoutTypeOK, RoleInv, FilesInDirs, RolesOnDisk, Standing,
        StageInv, PromoteInv, RollbackInv, GcInv, Exists, Protected, StagePc,
        PromotePc, RollbackPc, layoutVars, procVars, Roles, FileNames, Goto
<1>1. CASE SwapIn
  BY <1>1 DEF SwapIn, EspStep
<1>2. CASE SwapOut
  BY <1>2 DEF SwapOut
<1>3. CASE RollCurrent
  BY <1>3 DEF RollCurrent, RoleStep, SetRole
<1>4. CASE RollFallback
  BY <1>4 DEF RollFallback, RoleStep, SetRole, Finish
<1>5. QED
  BY <1>1, <1>2, <1>3, <1>4 DEF Rollback

LEMMA GcRoleInv ==
    ASSUME TypeOK, RoleInv, Gc
    PROVE  RoleInv'
<1> USE LayoutAssumption
    DEF TypeOK, LayoutTypeOK, RoleInv, FilesInDirs, RolesOnDisk, Standing,
        StageInv, PromoteInv, RollbackInv, GcInv, Exists, Protected, StagePc,
        PromotePc, RollbackPc, layoutVars, procVars, Roles, FileNames, Goto
<1>1. CASE CollectStale
  BY <1>1 DEF CollectStale
<1>2. ASSUME NEW d \in Deployments, BeginRmtree(d)
      PROVE  RoleInv'
  BY <1>2 DEF BeginRmtree
<1>3. ASSUME NEW f \in FileNames, RemoveFile(f)
      PROVE  RoleInv'
  BY <1>3 DEF RemoveFile, WriteFile, SetFile
<1>4. ASSUME NEW o \in Objects, RemoveHeld(o)
      PROVE  RoleInv'
  BY <1>4 DEF RemoveHeld
<1>5. ASSUME NEW o \in Objects, SweepObject(o) \/ MissOrphan(o)
      PROVE  RoleInv'
  BY <1>5, WalkFrame
<1>6. CASE RemoveDir
  BY <1>6 DEF RemoveDir
<1>7. CASE StartSweep
  BY <1>7 DEF StartSweep
<1>8. CASE FinishGc
  BY <1>8 DEF FinishGc, Finish
<1>9. QED
  BY <1>1, <1>2, <1>3, <1>4, <1>5, <1>6, <1>7, <1>8 DEF Gc

LEMMA EnvironmentRoleInv ==
    ASSUME TypeOK, RoleInv, Abort \/ \E slot \in Slots : Reboot(slot)
    PROVE  RoleInv'
<1> USE LayoutAssumption
    DEF TypeOK, LayoutTypeOK, RoleInv, FilesInDirs, RolesOnDisk, Standing,
        StageInv, PromoteInv, RollbackInv, GcInv, Exists, Protected, StagePc,
        PromotePc, RollbackPc, layoutVars, procVars, Roles, FileNames, Goto
<1>1. CASE Abort
  BY <1>1 DEF Abort, HalfDone, Finish, WriteFile, SetFile
<1>2. ASSUME NEW slot \in Slots, Reboot(slot)
      PROVE  RoleInv'
  BY <1>2 DEF Reboot
<1>3. QED
  BY <1>1, <1>2

LEMMA RoleInvariant == Spec => []RoleInv
<1>1. Init => RoleInv
  BY LayoutAssumption
     DEF Init, InstalledHost, RoleInv, FilesInDirs, RolesOnDisk, Standing,
         StageInv, PromoteInv, RollbackInv, GcInv, Exists, StagePc, PromotePc,
         RollbackPc, Roles, FileNames
<1>2. TypeOK /\ RoleInv /\ [Next]_vars => RoleInv'
  <2> SUFFICES ASSUME TypeOK, RoleInv, [Next]_vars
               PROVE  RoleInv'
    OBVIOUS
  <2>1. CASE Next
    BY <2>1, StartRoleInv, MaterializeRoleInv, PromoteRoleInv,
       RollbackRoleInv, GcRoleInv, EnvironmentRoleInv DEF Next, CommandStep
  <2>2. CASE UNCHANGED vars
    BY <2>2
       DEF vars, layoutVars, procVars, RoleInv, FilesInDirs, RolesOnDisk,
           Standing, StageInv, PromoteInv, RollbackInv, GcInv, Exists,
           Protected
  <2>3. QED
    BY <2>1, <2>2
<1>3. QED
  BY TypeCorrect, <1>1, <1>2, PTL DEF Spec

\* The roles are always good: no role dangles, and the boot roles name
\* deployments with a root.cfs and a UKI, however often commands are cut
\* short and repeated.
THEOREM RolesStayOnDisk == Spec => []RolesOnDisk
<1>1. RoleInv => RolesOnDisk
  BY DEF RoleInv
<1>2. QED
  BY RoleInvariant, <1>1, PTL

----------------------------------------------------------------------------
(* gc, too, relies on nothing changing under it: what it collected is all  *)
(* that no role names, until it is done.                                   *)

CollectedInv ==
    /\ pc = "reap" => dirs \subseteq Protected \cup stale
    /\ pc = "rmtree" => dirs \subseteq Protected \cup stale \cup {target}
    /\ pc = "sweep" => dirs \subseteq Protected

LEMMA StepKeepsCollected ==
    ASSUME CollectedInv, Next
    PROVE  CollectedInv'
<1> USE DEF CollectedInv, Protected, layoutVars, procVars, Goto, WriteFile
<1>1. CASE StartCommand
  BY <1>1 DEF StartCommand, ReuseDeployment, StartMaterialize, Begin,
              StartRollback, StartGc
<1>2. CASE Materialize
  BY <1>2 DEF Materialize, PlaceObject, LinkHolder, FinishLanding,
              PlaceRootCfs, FinishLinking, CopyUki, CopyLoader, WriteMeta
<1>3. CASE Promote \/ Rollback
  BY <1>3 DEF Promote, Rollback, SetStaging, StagedUkiMissing, DemoteOnEsp,
              SwingCurrent, RefreshLoader, DemoteRole, PromoteRole,
              ClearStaging, SwapIn, SwapOut, RollCurrent, RollFallback, Finish
<1>4. CASE CollectStale \/ RemoveDir \/ StartSweep \/ FinishGc
  BY <1>4 DEF CollectStale, RemoveDir, StartSweep, FinishGc, Finish
<1>5. ASSUME NEW d \in Deployments, BeginRmtree(d)
      PROVE  CollectedInv'
  BY <1>5 DEF BeginRmtree
<1>6. ASSUME NEW f \in FileNames, RemoveFile(f)
      PROVE  CollectedInv'
  BY <1>6 DEF RemoveFile
<1>7. ASSUME NEW o \in Objects,
             RemoveHeld(o) \/ SweepObject(o) \/ MissOrphan(o)
      PROVE  CollectedInv'
  BY <1>7, WalkFrame DEF RemoveHeld
<1>8. CASE Abort \/ \E slot \in Slots : Reboot(slot)
  BY <1>8 DEF Abort, HalfDone, Reboot, Finish
<1>9. QED
  BY <1>1, <1>2, <1>3, <1>4, <1>5, <1>6, <1>7, <1>8
     DEF Next, CommandStep, Gc

\* The walk over the store looks at the link count of an object once.  That is
\* enough, since no step of a sweep unlinks what a deployment holds: what it
\* found held still is when the sweep ends.
SweepInv ==
    pc = "sweep" =>
        \A o \in Objects \ (unswept \cup missed) :
            Present(o) => Holders(o) # {}

LEMMA WalkKeepsSwept ==
    ASSUME TypeOK, SweepInv, NEW o \in Objects,
           SweepObject(o) \/ MissOrphan(o)
    PROVE  SweepInv'
<1> SUFFICES ASSUME NEW q \in Objects \ (unswept' \cup missed'), Present(q)'
             PROVE  Holders(q)' # {}
  BY DEF SweepInv
<1>1. pc = "sweep" /\ Holders(q)' = Holders(q)
  BY WalkFrame DEF Holders
<1>2. CASE q = o
  <2>1. SweepObject(o)
    BY <1>2 DEF MissOrphan
  <2>2. ~Orphan(o) /\ Present(o)
    BY <1>2, <2>1 DEF SweepObject, Sweep, Orphan, Present, TypeOK, StoreTypeOK
  <2>3. QED
    BY <1>1, <1>2, <2>2, SweptOrHeld
<1>3. CASE q # o
  <2>1. q \notin unswept \cup missed
    BY <1>3 DEF SweepObject, MissOrphan, LookAt
  <2>2. Present(q)
    BY <1>3, WalkStore DEF Present, TypeOK, StoreTypeOK
  <2>3. QED
    BY <1>1, <2>1, <2>2 DEF SweepInv
<1>4. QED
  BY <1>2, <1>3

LEMMA StepKeepsSwept ==
    ASSUME TypeOK, SweepInv, Next
    PROVE  SweepInv'
<1>1. CASE pc' # "sweep"
  BY <1>1 DEF SweepInv
<1>2. CASE StartSweep
  BY <1>2 DEF StartSweep, SweepInv, Present, storeVars
<1>3. ASSUME NEW o \in Objects, SweepObject(o) \/ MissOrphan(o)
      PROVE  SweepInv'
  BY <1>3, WalkKeepsSwept
<1>4. CASE \E slot \in Slots : Reboot(slot)
  BY <1>4 DEF Reboot, SweepInv, Present, Holders, storeVars, procVars
<1>5. QED
  BY <1>1, <1>2, <1>3, <1>4
     DEF Next, CommandStep, StartCommand, ReuseDeployment, StartMaterialize,
         Begin, StartRollback, StartGc, Materialize, PlaceObject, LinkHolder,
         FinishLanding, PlaceRootCfs, FinishLinking, CopyUki, CopyLoader,
         WriteMeta, Promote, SetStaging, StagedUkiMissing, DemoteOnEsp,
         SwingCurrent, RefreshLoader, DemoteRole, PromoteRole, ClearStaging,
         Rollback, SwapIn, SwapOut, RollCurrent, RollFallback, Gc,
         CollectStale, BeginRmtree, RemoveFile, RemoveHeld, RemoveDir,
         FinishGc, Abort, Finish, Goto, procVars

LEMMA SweptInvariant == Spec => []SweepInv
<1>1. Init => SweepInv
  BY DEF Init, SweepInv
<1>2. TypeOK /\ SweepInv /\ [Next]_vars => SweepInv'
  <2>1. CASE UNCHANGED vars
    BY <2>1 DEF SweepInv, Present, Holders, vars, storeVars, procVars
  <2>2. QED
    BY <2>1, StepKeepsSwept
<1>3. QED
  BY TypeCorrect, <1>1, <1>2, PTL DEF Spec

\* A gc that returns has removed every directory that no role names and every
\* object that nobody holds and that it could look at and unlink, whatever
\* interrupted commands and earlier sweeps left behind.
THEOREM GcLeavesNothing == Spec => GcReclaims
<1>1. Init => CollectedInv
  BY DEF Init, InstalledHost, CollectedInv
<1>2. CollectedInv /\ [Next]_vars => CollectedInv'
  BY StepKeepsCollected DEF CollectedInv, Protected, vars, layoutVars, procVars
<1>3. TypeOK /\ RoleInv /\ CollectedInv /\ SweepInv /\ [Next]_vars
        => [pc = "sweep" /\ pc' = "idle" /\ aborts' = aborts
              => /\ dirs = Protected
                 /\ \A o \in Objects \ missed :
                       Present(o) => Holders(o) # {}]_vars
  <2> SUFFICES ASSUME TypeOK, RoleInv, CollectedInv, SweepInv, Next,
                      pc = "sweep", pc' = "idle", aborts' = aborts
               PROVE  /\ dirs = Protected
                      /\ \A o \in Objects \ missed :
                            Present(o) => Holders(o) # {}
    BY DEF vars, procVars
  <2>1. Protected \subseteq dirs
    BY DEF RoleInv, RolesOnDisk, Protected
  <2>2. FinishGc
    BY DEF Next, CommandStep, StartCommand, ReuseDeployment, StartMaterialize,
           Begin, StartRollback, StartGc, Materialize, PlaceObject,
           LinkHolder, FinishLanding, PlaceRootCfs, FinishLinking, CopyUki,
           CopyLoader, WriteMeta, Promote, SetStaging, StagedUkiMissing,
           DemoteOnEsp, SwingCurrent, RefreshLoader, DemoteRole, PromoteRole,
           ClearStaging, Rollback, SwapIn, SwapOut, RollCurrent, RollFallback,
           Gc, CollectStale, BeginRmtree, RemoveFile, RemoveHeld, RemoveDir,
           StartSweep, SweepObject, MissOrphan, LookAt, procVars, Abort,
           HalfDone, Reboot, TypeOK
  <2>3. QED
    BY <2>1, <2>2 DEF FinishGc, CollectedInv, SweepInv
<1>4. QED
  BY TypeCorrect, RoleInvariant, SweptInvariant, <1>1, <1>2, <1>3, PTL
     DEF Spec, GcReclaims

----------------------------------------------------------------------------
(* The ESP behaves as BootEntries says.                                    *)

\* A step that leaves the ESP and its temporary alone, neither beginning nor
\* ending one of the two ESP updates, does not show.
LEMMA OffEspStep ==
    ASSUME EntryInv, UNCHANGED <<esp, swapTmp>>,
           pc \notin {"swing", "swapIn", "swapOut"},
           pc' \notin {"swing", "swapIn", "swapOut"}
    PROVE  EntryInv' /\ UNCHANGED Entries!entries
BY DEF EntryInv, Entries!entries, DefaultEntry, PreviousEntry

LEMMA StartEntries ==
    ASSUME TypeOK, RoleInv, EntryInv, StartCommand
    PROVE  EntryInv' /\ UNCHANGED Entries!entries
<1>1. CASE StartRollback
  BY <1>1 DEF StartRollback, RollbackReady, Slots, EntryInv,
              Entries!entries, DefaultEntry, PreviousEntry
<1>2. ASSUME NEW d \in Deployments, ReuseDeployment(d) \/ StartMaterialize(d)
      PROVE  EntryInv' /\ UNCHANGED Entries!entries
  BY <1>2, OffEspStep DEF ReuseDeployment, StartMaterialize, Begin, layoutVars
<1>3. CASE StartGc
  BY <1>3, OffEspStep DEF StartGc, Goto, layoutVars
<1>4. QED
  BY <1>1, <1>2, <1>3 DEF StartCommand

LEMMA MaterializeEntries ==
    ASSUME TypeOK, RoleInv, EntryInv, Materialize
    PROVE  EntryInv' /\ UNCHANGED Entries!entries
<1> USE OffEspStep DEF layoutVars, procVars, Goto, WriteFile
<1>1. ASSUME NEW o \in Objects, PlaceObject(o) \/ LinkHolder(o)
      PROVE  EntryInv' /\ UNCHANGED Entries!entries
  BY <1>1 DEF PlaceObject, LinkHolder
<1>2. CASE FinishLanding \/ PlaceRootCfs \/ FinishLinking
  BY <1>2 DEF FinishLanding, PlaceRootCfs, FinishLinking
<1>3. CASE CopyUki \/ CopyLoader \/ WriteMeta
  BY <1>3 DEF CopyUki, CopyLoader, WriteMeta
<1>4. QED
  BY <1>1, <1>2, <1>3 DEF Materialize

\* An update shows when promote copies current.efi over fallback.efi: the
\* very next rename brings in the new UKI.
LEMMA PromoteEntries ==
    ASSUME TypeOK, RoleInv, EntryInv, Promote
    PROVE  EntryInv' /\ [Entries!Next]_(Entries!entries)
<1> USE DEF layoutVars, procVars, Goto, RoleStep, EspStep
<1>1. CASE DemoteOnEsp
  <2>1. target \in Deployments
    BY <1>1 DEF DemoteOnEsp, TypeOK
  <2>2. /\ esp'["fallback"] = esp["current"]
        /\ esp'["current"] = esp["current"]
        /\ pc = "promote" /\ pc' = "swing"
        /\ UNCHANGED <<file, target, swapTmp>>
    BY <1>1 DEF DemoteOnEsp, PreserveCurrent, CopyToEsp, RoleInv, EntryInv,
                TypeOK, LayoutTypeOK, Slots
  <2>3. UkiOf(target) \in Deployments \cup {Torn}
    BY <2>1 DEF UkiOf
  <2>4. Entries!Update(UkiOf(target))
    BY <2>2 DEF Entries!Update, DefaultEntry, PreviousEntry, UkiOf
  <2>5. EntryInv'
    BY <2>2 DEF EntryInv
  <2>6. QED
    BY <2>3, <2>4, <2>5 DEF Entries!Next
<1>2. CASE SwingCurrent
  <2>1. target \in Deployments
    BY <1>2 DEF SwingCurrent, TypeOK
  <2>2. /\ esp'["current"] = UkiOf(target)
        /\ esp'["fallback"] = esp["fallback"]
        /\ pc = "swing" /\ pc' = "espLoader"
    BY <1>2 DEF SwingCurrent, CopyToEsp, TypeOK, LayoutTypeOK, Slots
  <2>3. UNCHANGED Entries!entries
    BY <2>2 DEF Entries!entries, DefaultEntry, PreviousEntry
  <2>4. EntryInv'
    BY <2>1, <2>2, LayoutAssumption DEF EntryInv, UkiOf
  <2>5. QED
    BY <2>3, <2>4
<1>3. CASE SetStaging \/ StagedUkiMissing
  BY <1>3, OffEspStep DEF SetStaging, StagedUkiMissing, Finish
<1>4. CASE RefreshLoader
  BY <1>4, OffEspStep DEF RefreshLoader
<1>5. CASE DemoteRole \/ PromoteRole \/ ClearStaging
  BY <1>5, OffEspStep DEF DemoteRole, PromoteRole, ClearStaging
<1>6. QED
  BY <1>1, <1>2, <1>3, <1>4, <1>5 DEF Promote

\* A rollback shows at its first rename.
LEMMA RollbackEntries ==
    ASSUME TypeOK, RoleInv, EntryInv, Rollback
    PROVE  EntryInv' /\ [Entries!Next]_(Entries!entries)
<1> USE DEF layoutVars, procVars, Goto, RoleStep, EspStep
<1>1. CASE SwapIn
  <2>1. Entries!Rollback
    BY <1>1 DEF SwapIn, Entries!Rollback, DefaultEntry, PreviousEntry, EntryInv
  <2>2. EntryInv'
    BY <1>1 DEF SwapIn, EntryInv
  <2>3. QED
    BY <2>1, <2>2 DEF Entries!Next
<1>2. CASE SwapOut
  BY <1>2 DEF SwapOut, EntryInv, Entries!entries, DefaultEntry, PreviousEntry,
              TypeOK, LayoutTypeOK, Slots
<1>3. CASE RollCurrent \/ RollFallback
  BY <1>3, OffEspStep DEF RollCurrent, RollFallback, Finish
<1>4. QED
  BY <1>1, <1>2, <1>3 DEF Rollback

LEMMA GcEntries ==
    ASSUME TypeOK, RoleInv, EntryInv, Gc
    PROVE  EntryInv' /\ UNCHANGED Entries!entries
<1> USE OffEspStep DEF layoutVars, procVars, Goto, WriteFile
<1>1. CASE CollectStale \/ StartSweep \/ FinishGc \/ RemoveDir
  BY <1>1 DEF CollectStale, StartSweep, FinishGc, RemoveDir, Finish
<1>2. ASSUME NEW d \in Deployments, BeginRmtree(d)
      PROVE  EntryInv' /\ UNCHANGED Entries!entries
  BY <1>2 DEF BeginRmtree
<1>3. ASSUME NEW f \in FileNames, RemoveFile(f)
      PROVE  EntryInv' /\ UNCHANGED Entries!entries
  BY <1>3 DEF RemoveFile
<1>4. ASSUME NEW o \in Objects,
             RemoveHeld(o) \/ SweepObject(o) \/ MissOrphan(o)
      PROVE  EntryInv' /\ UNCHANGED Entries!entries
  BY <1>4, WalkFrame DEF RemoveHeld
<1>5. QED
  BY <1>1, <1>2, <1>3, <1>4 DEF Gc

\* An interruption shows only between the two renames of an update, which it
\* undoes, and between those of a rollback, which then has no previous entry.
LEMMA AbortEntries ==
    ASSUME TypeOK, RoleInv, EntryInv, Abort
    PROVE  EntryInv' /\ [Entries!Next]_(Entries!entries)
<1>1. UNCHANGED <<esp, swapTmp>> /\ pc' = "idle"
  BY DEF Abort, HalfDone, Finish, layoutVars, WriteFile
<1>2. EntryInv'
  BY <1>1 DEF EntryInv
<1>3. CASE pc = "swing"
  <2>1. Entries!UpdateUndone
    BY <1>1, <1>3 DEF EntryInv, Entries!UpdateUndone, DefaultEntry,
                      PreviousEntry
  <2>2. QED
    BY <1>2, <2>1 DEF Entries!Next
<1>4. CASE pc = "swapOut"
  <2>1. Entries!PreviousLost
    BY <1>1, <1>4 DEF EntryInv, Entries!PreviousLost, DefaultEntry,
                      PreviousEntry
  <2>2. QED
    BY <1>2, <2>1 DEF Entries!Next
<1>5. CASE pc \notin {"swing", "swapOut"}
  BY <1>1, <1>2, <1>5 DEF Entries!entries, DefaultEntry, PreviousEntry
<1>6. QED
  BY <1>3, <1>4, <1>5

\* The lifecycle implements BootEntries: to whoever boots the host, updates
\* and rollbacks are atomic, and an interruption has one of two outcomes
\* besides all or nothing.
THEOREM EntriesRefined == Spec => EntriesSpec
<1>1. Init => EntryInv /\ Entries!Init
  BY LayoutAssumption
     DEF Init, InstalledHost, EntryInv, Entries!Init, DefaultEntry,
         PreviousEntry, Slots
<1>2. TypeOK /\ RoleInv /\ EntryInv /\ [Next]_vars
        => EntryInv' /\ [Entries!Next]_(Entries!entries)
  <2> SUFFICES ASSUME TypeOK, RoleInv, EntryInv, [Next]_vars
               PROVE  EntryInv' /\ [Entries!Next]_(Entries!entries)
    OBVIOUS
  <2>1. CASE UNCHANGED vars
    BY <2>1 DEF vars, layoutVars, procVars, EntryInv, Entries!entries,
                DefaultEntry, PreviousEntry, UkiOf
  <2>2. ASSUME NEW slot \in Slots, Reboot(slot)
        PROVE  EntryInv' /\ UNCHANGED Entries!entries
    BY <2>2, OffEspStep DEF Reboot, layoutVars, procVars
  <2>3. CASE CommandStep
    BY <2>3, MaterializeEntries, PromoteEntries, RollbackEntries, GcEntries
       DEF CommandStep
  <2>4. QED
    BY <2>1, <2>2, <2>3, StartEntries, AbortEntries DEF Next
<1>3. QED
  BY TypeCorrect, RoleInvariant, <1>1, <1>2, PTL
     DEF Spec, EntriesSpec, Entries!Spec

----------------------------------------------------------------------------
(* The roles follow HostRoles.  What ProtocolInv adds to RoleInv is where  *)
(* the two roles that a promote or a rollback is about to change stand.    *)

ProtocolInv ==
    /\ pc \in StagePc \cup {"promote", "swing", "espLoader", "roleFallback",
                            "roleCurrent"}
          => target # role["current"]
    /\ pc = "roleCurrent" => role["fallback"] = role["current"]
    /\ pc = "clearStaging" => role["current"] = target
    /\ pc \in {"swapIn", "swapOut", "rollCurrent"}
          => target = role["fallback"] /\ old = role["current"]
    /\ pc = "rollFallback" => old # None

\* A step that no role and no root.cfs takes part in does not show.
LEMMA OffRoleStep ==
    ASSUME UNCHANGED role, OnDisk' = OnDisk,
           pc # "rollFallback", pc' # "rollFallback"
    PROVE  UNCHANGED HostProtocol!state
BY DEF HostProtocol!state, HostProtocol!roles

LEMMA SameFiles ==
    ASSUME UNCHANGED file
    PROVE  OnDisk' = OnDisk
BY DEF OnDisk, Exists

LEMMA OtherFile ==
    ASSUME TypeOK, pc \notin {"idle", "gc", "reap", "sweep"},
           NEW f \in FileNames \ {"cfs"}, NEW s \in FileState, WriteFile(f, s)
    PROVE  OnDisk' = OnDisk
BY DEF TypeOK, LayoutTypeOK, OnDisk, Exists, WriteFile, SetFile, FileNames

LEMMA StartProtocol ==
    ASSUME TypeOK, RoleInv, ProtocolInv, StartCommand
    PROVE  ProtocolInv' /\ UNCHANGED HostProtocol!state
<1> USE OffRoleStep, SameFiles
    DEF ProtocolInv, StagePc, Begin, layoutVars, procVars, Goto
<1>1. ASSUME NEW d \in Deployments, ReuseDeployment(d) \/ StartMaterialize(d)
      PROVE  ProtocolInv' /\ UNCHANGED HostProtocol!state
  BY <1>1 DEF ReuseDeployment, StartMaterialize
<1>2. CASE StartRollback
  BY <1>2 DEF StartRollback
<1>3. CASE StartGc
  BY <1>3 DEF StartGc
<1>4. QED
  BY <1>1, <1>2, <1>3 DEF StartCommand

\* root.cfs appears: the build has landed.
LEMMA MaterializeProtocol ==
    ASSUME TypeOK, RoleInv, ProtocolInv, Materialize
    PROVE  ProtocolInv' /\ [HostProtocol!Next]_(HostProtocol!state)
<1> USE DEF layoutVars, procVars, Goto
<1>1. CASE PlaceRootCfs
  <2>1. target \in Deployments /\ UNCHANGED <<role, target, old>>
        /\ pc = "cfs" /\ pc' = "link"
    BY <1>1 DEF PlaceRootCfs, WriteFile, TypeOK
  <2>2. OnDisk' = OnDisk \cup {target}
    BY <1>1, <2>1 DEF PlaceRootCfs, WriteFile, SetFile, OnDisk, Exists, TypeOK,
                      LayoutTypeOK, FileNames
  <2>3. HostProtocol!Land(target)
    BY <2>1, <2>2 DEF HostProtocol!Land, HostProtocol!roles
  <2>4. ProtocolInv'
    BY <2>1 DEF ProtocolInv, StagePc
  <2>5. QED
    BY <2>1, <2>3, <2>4 DEF HostProtocol!Next
<1>2. ASSUME NEW o \in Objects, PlaceObject(o) \/ LinkHolder(o)
      PROVE  ProtocolInv' /\ UNCHANGED HostProtocol!state
  BY <1>2, OffRoleStep, SameFiles
     DEF PlaceObject, LinkHolder, ProtocolInv, StagePc
<1>3. CASE FinishLanding \/ FinishLinking
  BY <1>3, OffRoleStep, SameFiles
     DEF FinishLanding, FinishLinking, ProtocolInv, StagePc
<1>4. CASE CopyUki \/ CopyLoader \/ WriteMeta
  <2>1. OnDisk' = OnDisk
    BY <1>4, OtherFile DEF CopyUki, CopyLoader, WriteMeta, FileNames, FileState
  <2>2. QED
    BY <1>4, <2>1, OffRoleStep
       DEF CopyUki, CopyLoader, WriteMeta, WriteFile, ProtocolInv, StagePc
<1>5. QED
  BY <1>1, <1>2, <1>3, <1>4 DEF Materialize

LEMMA PromoteProtocol ==
    ASSUME TypeOK, RoleInv, ProtocolInv, Promote
    PROVE  ProtocolInv' /\ [HostProtocol!Next]_(HostProtocol!state)
<1> USE LayoutAssumption
    DEF TypeOK, LayoutTypeOK, RoleInv, PromoteInv, StageInv, ProtocolInv,
        StagePc, PromotePc, RoleStep, Goto, Roles, SetRole, ClearRole
<1> DEFINE Kept == OnDisk' = OnDisk
<1>1. CASE SetStaging
  <2>1. target \in OnDisk \ {role["current"]} /\ Kept /\ target \in Deployments
    BY <1>1, SameFiles DEF SetStaging, OnDisk
  <2>2. /\ role'["staging"] = target /\ role'["current"] = role["current"]
        /\ role'["fallback"] = role["fallback"]
        /\ pc = "stage" /\ pc' = "promote" /\ UNCHANGED <<target, old>>
    BY <1>1 DEF SetStaging
  <2>3. HostProtocol!Mark(target)
    BY <2>1, <2>2 DEF HostProtocol!Mark
  <2>4. QED
    BY <2>1, <2>2, <2>3 DEF HostProtocol!Next
<1>2. CASE StagedUkiMissing \/ DemoteOnEsp \/ SwingCurrent \/ RefreshLoader
  <2>1. ProtocolInv'
    BY <1>2 DEF StagedUkiMissing, DemoteOnEsp, SwingCurrent, RefreshLoader,
                Finish, EspStep, layoutVars
  <2>2. UNCHANGED <<role, file>> /\ "rollFallback" \notin {pc, pc'}
    BY <1>2 DEF StagedUkiMissing, DemoteOnEsp, SwingCurrent, RefreshLoader,
                Finish, EspStep, layoutVars
  <2>3. QED
    BY <2>1, <2>2, OffRoleStep, SameFiles
<1>3. CASE DemoteRole
  <2>1. Kept /\ target \in Deployments
    BY <1>3, SameFiles DEF DemoteRole
  <2>2. /\ role'["fallback"] = role["current"]
        /\ role'["current"] = role["current"]
        /\ role'["staging"] = role["staging"] /\ role["staging"] = target
        /\ pc = "roleFallback" /\ pc' = "roleCurrent"
        /\ UNCHANGED <<target, old>>
    BY <1>3 DEF DemoteRole
  <2>3. HostProtocol!Demote
    BY <2>1, <2>2 DEF HostProtocol!Demote
  <2>4. QED
    BY <2>1, <2>2, <2>3 DEF HostProtocol!Next
<1>4. CASE PromoteRole
  <2>1. Kept /\ target \in Deployments
    BY <1>4, SameFiles DEF PromoteRole
  <2>2. /\ role'["fallback"] = role["fallback"]
        /\ role'["current"] = target
        /\ role'["staging"] = role["staging"] /\ role["staging"] = target
        /\ pc = "roleCurrent" /\ pc' = "clearStaging"
        /\ UNCHANGED <<target, old>>
    BY <1>4 DEF PromoteRole
  <2>3. HostProtocol!Promote
    BY <2>1, <2>2 DEF HostProtocol!Promote
  <2>4. QED
    BY <2>1, <2>2, <2>3 DEF HostProtocol!Next
<1>5. CASE ClearStaging
  <2>1. Kept
    BY <1>5, SameFiles DEF ClearStaging
  <2>2. /\ role'["fallback"] = role["fallback"]
        /\ role'["current"] = role["current"] /\ role["current"] = target
        /\ role'["staging"] = None /\ role["staging"] = target
        /\ pc = "clearStaging" /\ pc' = "gc"
        /\ UNCHANGED <<target, old>>
    BY <1>5 DEF ClearStaging
  <2>3. HostProtocol!Clear
    BY <2>1, <2>2 DEF HostProtocol!Clear
  <2>4. QED
    BY <2>1, <2>2, <2>3 DEF HostProtocol!Next
<1>6. QED
  BY <1>1, <1>2, <1>3, <1>4, <1>5 DEF Promote

LEMMA RollbackProtocol ==
    ASSUME TypeOK, RoleInv, ProtocolInv, Rollback
    PROVE  ProtocolInv' /\ [HostProtocol!Next]_(HostProtocol!state)
<1> USE LayoutAssumption
    DEF TypeOK, LayoutTypeOK, RoleInv, ProtocolInv, StagePc, RollbackPc,
        RoleStep, Goto, Roles, SetRole
<1>1. CASE SwapIn \/ SwapOut
  <2>1. ProtocolInv'
    BY <1>1 DEF SwapIn, SwapOut, EspStep
  <2>2. UNCHANGED <<role, file>> /\ "rollFallback" \notin {pc, pc'}
    BY <1>1 DEF SwapIn, SwapOut, EspStep
  <2>3. QED
    BY <2>1, <2>2, OffRoleStep, SameFiles
<1>2. CASE RollCurrent
  <2>1. OnDisk' = OnDisk /\ target \in Deployments
    BY <1>2, SameFiles DEF RollCurrent
  <2>2. /\ role'["fallback"] = role["fallback"]
        /\ role'["current"] = role["fallback"]
        /\ role["fallback"] = target
        /\ role'["staging"] = role["staging"]
        /\ old = role["current"] /\ old # None
        /\ pc = "rollCurrent" /\ pc' = "rollFallback"
        /\ UNCHANGED <<target, old>>
    BY <1>2 DEF RollCurrent
  <2>3. HostProtocol!RollBack
    BY <2>1, <2>2 DEF HostProtocol!RollBack
  <2>4. QED
    BY <2>2, <2>3 DEF HostProtocol!Next
<1>3. CASE RollFallback
  <2>1. OnDisk' = OnDisk
    BY <1>3, SameFiles DEF RollFallback
  <2>2. /\ role'["fallback"] = old /\ old # None
        /\ role'["current"] = role["current"]
        /\ role'["staging"] = role["staging"]
        /\ pc = "rollFallback" /\ pc' = "idle"
    BY <1>3 DEF RollFallback, Finish
  <2>3. HostProtocol!SwapBack
    BY <2>1, <2>2 DEF HostProtocol!SwapBack
  <2>4. QED
    BY <2>2, <2>3 DEF HostProtocol!Next
<1>4. QED
  BY <1>1, <1>2, <1>3 DEF Rollback

\* rmtree has reached the root.cfs of a deployment that no role names.
LEMMA GcProtocol ==
    ASSUME TypeOK, RoleInv, ProtocolInv, Gc
    PROVE  ProtocolInv' /\ [HostProtocol!Next]_(HostProtocol!state)
<1> USE DEF ProtocolInv, StagePc, layoutVars, procVars, Goto
<1>1. CASE RemoveFile("cfs")
  <2>1. target \in Deployments /\ target \notin Protected
        /\ UNCHANGED <<role, pc, target, old>> /\ pc = "rmtree"
    BY <1>1 DEF RemoveFile, WriteFile, TypeOK, RoleInv, GcInv
  <2>2. OnDisk' = OnDisk \ {target} /\ target \in OnDisk
    BY <1>1, <2>1 DEF RemoveFile, WriteFile, SetFile, OnDisk, Exists, TypeOK,
                      LayoutTypeOK, FileNames
  <2>3. {target} \cap {role["current"], role["fallback"], role["staging"]} = {}
    BY <2>1, LayoutAssumption DEF Protected, Roles
  <2>4. HostProtocol!Discard({target})
    BY <2>1, <2>2, <2>3 DEF HostProtocol!Discard, HostProtocol!roles
  <2>5. {target} \in SUBSET OnDisk
    BY <2>2
  <2>6. QED
    BY <2>1, <2>4, <2>5 DEF HostProtocol!Next
<1>2. ASSUME NEW f \in FileNames \ {"cfs"}, RemoveFile(f)
      PROVE  ProtocolInv' /\ UNCHANGED HostProtocol!state
  <2>1. OnDisk' = OnDisk
    BY <1>2, OtherFile DEF RemoveFile, FileState
  <2>2. QED
    BY <1>2, <2>1, OffRoleStep DEF RemoveFile, WriteFile
<1>3. CASE CollectStale \/ StartSweep \/ FinishGc \/ RemoveDir
  BY <1>3, OffRoleStep, SameFiles
     DEF CollectStale, StartSweep, FinishGc, RemoveDir, Finish
<1>4. ASSUME NEW d \in Deployments, BeginRmtree(d)
      PROVE  ProtocolInv' /\ UNCHANGED HostProtocol!state
  BY <1>4, OffRoleStep, SameFiles DEF BeginRmtree
<1>5. ASSUME NEW o \in Objects,
             RemoveHeld(o) \/ SweepObject(o) \/ MissOrphan(o)
      PROVE  ProtocolInv' /\ UNCHANGED HostProtocol!state
  BY <1>5, OffRoleStep, SameFiles, WalkFrame DEF RemoveHeld
<1>6. QED
  BY <1>1, <1>2, <1>3, <1>4, <1>5 DEF Gc

\* An interruption shows in two places: root.cfs has begun to appear, or a
\* rollback ends without the role for what was current.
LEMMA AbortProtocol ==
    ASSUME TypeOK, RoleInv, ProtocolInv, Abort
    PROVE  ProtocolInv' /\ [HostProtocol!Next]_(HostProtocol!state)
<1>1. UNCHANGED role /\ pc' = "idle"
  BY DEF Abort, HalfDone, Finish, layoutVars, WriteFile
<1>2. ProtocolInv'
  BY <1>1 DEF ProtocolInv, StagePc
<1>3. CASE pc = "cfs" /\ WriteFile("cfs", "torn")
  <2>1. target \in Deployments
    BY <1>3 DEF TypeOK
  <2>2. OnDisk' = OnDisk \cup {target}
    BY <1>3, <2>1 DEF WriteFile, SetFile, OnDisk, Exists, TypeOK, LayoutTypeOK,
                      FileNames
  <2>3. HostProtocol!Land(target)
    BY <1>1, <1>3, <2>2 DEF HostProtocol!Land, HostProtocol!roles
  <2>4. QED
    BY <1>2, <2>1, <2>3 DEF HostProtocol!Next
<1>4. CASE ~(pc = "cfs" /\ WriteFile("cfs", "torn"))
  <2>1. OnDisk' = OnDisk
    <3>1. CASE UNCHANGED file
      BY <3>1, SameFiles
    <3>2. CASE pc \in FileNames /\ WriteFile(pc, "torn")
      BY <1>4, <3>2, OtherFile DEF FileNames, FileState
    <3>3. QED
      BY <3>1, <3>2 DEF Abort, HalfDone, layoutVars
  <2>2. CASE pc = "rollFallback"
    <3>1. HostProtocol!SwapLost
      BY <1>1, <2>1, <2>2 DEF HostProtocol!SwapLost, HostProtocol!roles,
                              ProtocolInv
    <3>2. QED
      BY <1>2, <3>1 DEF HostProtocol!Next
  <2>3. CASE pc # "rollFallback"
    BY <1>1, <1>2, <2>1, <2>3, OffRoleStep
  <2>4. QED
    BY <2>2, <2>3
<1>5. QED
  BY <1>3, <1>4

\* The role symlinks implement HostRoles: through any number of interrupted
\* commands a role is only ever given to what is on disk, an update replaces
\* the current deployment only after it has made it the fallback, and gc takes
\* the root of nothing that a role or a rollback under way names.
THEOREM RolesRefined == Spec => RolesSpec
<1>1. Init => ProtocolInv /\ HostProtocol!Init
  <2> SUFFICES ASSUME Init PROVE ProtocolInv /\ HostProtocol!Init
    OBVIOUS
  <2>1. PICK d0 \in Deployments : InstalledHost(d0) /\ pc = "idle"
    BY DEF Init
  <2>2. OnDisk = {d0}
    BY <2>1 DEF InstalledHost, OnDisk, Exists, FileNames
  <2>3. QED
    BY <2>1, <2>2 DEF InstalledHost, ProtocolInv, StagePc, HostProtocol!Init,
                      Roles
<1>2. TypeOK /\ RoleInv /\ ProtocolInv /\ [Next]_vars
        => ProtocolInv' /\ [HostProtocol!Next]_(HostProtocol!state)
  <2> SUFFICES ASSUME TypeOK, RoleInv, ProtocolInv, [Next]_vars
               PROVE  ProtocolInv' /\ [HostProtocol!Next]_(HostProtocol!state)
    OBVIOUS
  <2>1. CASE UNCHANGED vars
    BY <2>1, SameFiles DEF vars, layoutVars, procVars, ProtocolInv,
                           HostProtocol!state, HostProtocol!roles
  <2>2. ASSUME NEW slot \in Slots, Reboot(slot)
        PROVE  ProtocolInv' /\ UNCHANGED HostProtocol!state
    BY <2>2, OffRoleStep, SameFiles
       DEF Reboot, layoutVars, procVars, ProtocolInv, StagePc
  <2>3. QED
    BY <2>1, <2>2, StartProtocol, MaterializeProtocol, PromoteProtocol,
       RollbackProtocol, GcProtocol, AbortProtocol DEF Next, CommandStep
<1>3. QED
  BY TypeCorrect, RoleInvariant, <1>1, <1>2, PTL
     DEF Spec, RolesSpec, HostProtocol!Spec

----------------------------------------------------------------------------
(* Landing inside materialize.  No invariant beyond the types is needed:   *)
(* the phase is where the command stands, and only the landing adds to the *)
(* store and only the sweep takes from it.                                 *)

LEMMA OffLandingStep ==
    ASSUME UNCHANGED store, LandingPhase = "idle", LandingPhase' = "idle"
    PROVE  UNCHANGED StoreLanding!state
BY DEF StoreLanding!state

LEMMA StartLandingStep ==
    ASSUME TypeOK, StartCommand
    PROVE  [StoreLanding!Next]_(StoreLanding!state)
<1> USE DEF LandingPhase, layoutVars, storeVars
<1>1. ASSUME NEW d \in Deployments, StartMaterialize(d)
      PROVE  StoreLanding!Next
  <2>1. Refs[d] \in SUBSET Objects
    BY StoreAssumption
  <2>2. StoreLanding!Start(Refs[d])
    BY <1>1 DEF StartMaterialize, Begin, StoreLanding!Start
  <2>3. QED
    BY <2>1, <2>2 DEF StoreLanding!Next
<1>2. ASSUME NEW d \in Deployments, ReuseDeployment(d)
      PROVE  UNCHANGED StoreLanding!state
  BY <1>2, OffLandingStep DEF ReuseDeployment, Begin
<1>3. CASE StartRollback \/ StartGc
  BY <1>3, OffLandingStep DEF StartRollback, StartGc, Goto
<1>4. QED
  BY <1>1, <1>2, <1>3 DEF StartCommand

LEMMA MaterializeLandingStep ==
    ASSUME TypeOK, Materialize
    PROVE  [StoreLanding!Next]_(StoreLanding!state)
<1> USE DEF LandingPhase, layoutVars, storeVars, procVars, Goto, WriteFile
<1>1. ASSUME NEW o \in Objects, PlaceObject(o)
      PROVE  StoreLanding!Next
  <2>1. StoreLanding!Place(o)
    BY <1>1 DEF PlaceObject, Place, Missing, Present, StoreLanding!Place
  <2>2. QED
    BY <2>1 DEF StoreLanding!Next
<1>2. CASE FinishLanding
  <2>1. StoreLanding!Finish
    BY <1>2 DEF FinishLanding, Missing, Present, StoreLanding!Finish,
                StoreLanding!InPlace
  <2>2. QED
    BY <2>1 DEF StoreLanding!Next
<1>3. CASE WriteMeta
  <2>1. StoreLanding!Leave /\ UNCHANGED store
    BY <1>3 DEF WriteMeta, StoreLanding!Leave
  <2>2. QED
    BY <2>1 DEF StoreLanding!Next
<1>4. ASSUME NEW o \in Objects, LinkHolder(o)
      PROVE  UNCHANGED StoreLanding!state
  BY <1>4 DEF LinkHolder, LinkObject, StoreLanding!state
<1>5. CASE PlaceRootCfs \/ FinishLinking \/ CopyUki \/ CopyLoader
  BY <1>5 DEF PlaceRootCfs, FinishLinking, CopyUki, CopyLoader,
              StoreLanding!state
<1>6. QED
  BY <1>1, <1>2, <1>3, <1>4, <1>5 DEF Materialize

LEMMA QuietLandingStep ==
    ASSUME TypeOK, Promote \/ Rollback \/ \E slot \in Slots : Reboot(slot)
    PROVE  UNCHANGED StoreLanding!state
<1>1. UNCHANGED store
  BY DEF Promote, Rollback, Reboot, RoleStep, EspStep, SetStaging,
         StagedUkiMissing, DemoteOnEsp, SwingCurrent, RefreshLoader,
         DemoteRole, PromoteRole, ClearStaging, SwapIn, SwapOut, RollCurrent,
         RollFallback, storeVars
<1>2. LandingPhase = "idle" /\ LandingPhase' = "idle"
  BY DEF Promote, Rollback, Reboot, SetStaging, StagedUkiMissing, DemoteOnEsp,
         SwingCurrent, RefreshLoader, DemoteRole, PromoteRole, ClearStaging,
         SwapIn, SwapOut, RollCurrent, RollFallback, Goto, Finish, procVars,
         LandingPhase
<1>3. QED
  BY <1>1, <1>2, OffLandingStep

LEMMA GcLandingStep ==
    ASSUME TypeOK, Gc
    PROVE  [StoreLanding!Next]_(StoreLanding!state)
<1> USE OffLandingStep
    DEF LandingPhase, layoutVars, storeVars, procVars, Goto, WriteFile
<1>1. ASSUME NEW o \in Objects, SweepObject(o) \/ MissOrphan(o)
      PROVE  [StoreLanding!Next]_(StoreLanding!state)
  <2>1. CASE store' = store
    BY <1>1, <2>1, WalkFrame
  <2>2. CASE Orphan(o) /\ store' = [store EXCEPT ![o] = "absent"]
    <3>1. StoreLanding!Remove(o)
      BY <1>1, <2>2, WalkFrame DEF Orphan, Present, StoreLanding!Remove
    <3>2. QED
      BY <3>1 DEF StoreLanding!Next
  <2>3. QED
    BY <1>1, <2>1, <2>2, WalkStore
<1>2. ASSUME NEW o \in Objects, RemoveHeld(o)
      PROVE  UNCHANGED StoreLanding!state
  BY <1>2 DEF RemoveHeld, UnlinkHeld
<1>3. ASSUME NEW f \in FileNames, RemoveFile(f)
      PROVE  UNCHANGED StoreLanding!state
  BY <1>3 DEF RemoveFile
<1>4. ASSUME NEW d \in Deployments, BeginRmtree(d)
      PROVE  UNCHANGED StoreLanding!state
  BY <1>4 DEF BeginRmtree
<1>5. CASE CollectStale \/ StartSweep \/ FinishGc \/ RemoveDir
  BY <1>5 DEF CollectStale, StartSweep, FinishGc, RemoveDir, Finish
<1>6. QED
  BY <1>1, <1>2, <1>3, <1>4, <1>5 DEF Gc

LEMMA AbortLandingStep ==
    ASSUME TypeOK, Abort
    PROVE  [StoreLanding!Next]_(StoreLanding!state)
<1> USE DEF LandingPhase
<1>1. pc' = "idle"
  BY DEF Abort, Finish
<1>2. ASSUME pc = "land", NEW o \in Missing(target), Place(o, "unsealed")
      PROVE  StoreLanding!Next
  <2>1. o \in Objects
    BY <1>2, StoreAssumption DEF Missing, TypeOK
  <2>2. StoreLanding!LeaveUnsealed(o)
    BY <1>1, <1>2 DEF Missing, Place, Present, StoreLanding!LeaveUnsealed,
                      StoreLanding!Leave
  <2>3. QED
    BY <2>1, <2>2 DEF StoreLanding!Next
<1>3. CASE UNCHANGED store
  <2>1. CASE LandingPhase = "idle"
    BY <1>1, <1>3, <2>1, OffLandingStep
  <2>2. CASE LandingPhase # "idle"
    <3>1. StoreLanding!Leave
      BY <1>1, <2>2 DEF StoreLanding!Leave
    <3>2. QED
      BY <1>3, <3>1 DEF StoreLanding!Next
  <2>3. QED
    BY <2>1, <2>2
<1>4. QED
  BY <1>2, <1>3 DEF Abort, HalfDone, storeVars, WriteFile

\* The store keeps the promise of Landing to materialize: it is done with an
\* object store that has everything the deployment references, and nothing is
\* swept before the deployment is complete.
THEOREM LandingRefined == Spec => StoreLandingSpec
<1>1. Init => StoreLanding!Init
  BY DEF Init, InstalledHost, StoreLanding!Init, LandingPhase
<1>2. TypeOK /\ [Next]_vars => [StoreLanding!Next]_(StoreLanding!state)
  <2>1. CASE UNCHANGED vars
    BY <2>1 DEF vars, storeVars, procVars, StoreLanding!state, LandingPhase
  <2>2. QED
    BY <2>1, StartLandingStep, MaterializeLandingStep, QuietLandingStep,
       GcLandingStep, AbortLandingStep DEF Next, CommandStep
<1>3. QED
  BY TypeCorrect, <1>1, <1>2, PTL
     DEF Spec, StoreLandingSpec, StoreLanding!Spec

----------------------------------------------------------------------------
(* What is complete stays complete.                                        *)

\* How far a materialize has got, on a deployment that no role names.
WholeInv ==
    /\ \A d \in Deployments : holder[d] \subseteq Refs[d]
    /\ pc \in StagePc \ {"stage"} => target \notin Protected
    /\ pc \in {"cfs", "link"} => \A o \in Refs[target] : Present(o)
    /\ pc \in {"link", "uki", "loader", "meta"}
          => file[target]["cfs"] = "whole"
    /\ pc \in {"uki", "loader", "meta"} => holder[target] = Refs[target]
    /\ pc \in {"loader", "meta"} => file[target]["uki"] = "whole"
    /\ pc = "meta" /\ target \in WithLoader
          => file[target]["loader"] = "whole"

LEMMA StartWhole ==
    ASSUME TypeOK, RoleInv, WholeInv, StartCommand
    PROVE  WholeInv'
<1> USE DEF WholeInv, StagePc, Begin, layoutVars, storeVars, procVars, Goto,
            Protected
<1>1. ASSUME NEW d \in Deployments, ReuseDeployment(d)
      PROVE  WholeInv'
  BY <1>1 DEF ReuseDeployment
<1>2. ASSUME NEW d \in Deployments, StartMaterialize(d)
      PROVE  WholeInv'
  <2>1. d \notin Protected
    BY <1>2 DEF StartMaterialize, RoleInv, RolesOnDisk
  <2>2. QED
    BY <1>2, <2>1 DEF StartMaterialize
<1>3. CASE StartRollback \/ StartGc
  BY <1>3 DEF StartRollback, StartGc
<1>4. QED
  BY <1>1, <1>2, <1>3 DEF StartCommand

LEMMA MaterializeWhole ==
    ASSUME TypeOK, WholeInv, Materialize
    PROVE  WholeInv'
<1> USE DEF TypeOK, StoreTypeOK, LayoutTypeOK, WholeInv, StagePc, layoutVars,
            storeVars, procVars, Goto, Protected, WriteFile, SetFile,
            FileNames, Present
<1>1. ASSUME NEW o \in Objects, PlaceObject(o)
      PROVE  WholeInv'
  BY <1>1 DEF PlaceObject, Place
<1>2. ASSUME NEW o \in Objects, LinkHolder(o)
      PROVE  WholeInv'
  BY <1>2 DEF LinkHolder, LinkObject, Linkable
<1>3. CASE FinishLanding
  BY <1>3 DEF FinishLanding, Missing
<1>4. CASE PlaceRootCfs
  BY <1>4 DEF PlaceRootCfs
<1>5. CASE FinishLinking
  <2>1. target \in Deployments
    BY <1>5 DEF FinishLinking
  <2>2. holder[target] = Refs[target]
    BY <1>5, <2>1 DEF FinishLinking, Linkable
  <2>3. QED
    BY <1>5, <2>2 DEF FinishLinking
<1>6. CASE CopyUki
  BY <1>6 DEF CopyUki
<1>7. CASE CopyLoader
  BY <1>7 DEF CopyLoader
<1>8. CASE WriteMeta
  BY <1>8 DEF WriteMeta
<1>9. QED
  BY <1>1, <1>2, <1>3, <1>4, <1>5, <1>6, <1>7, <1>8 DEF Materialize

LEMMA OthersWhole ==
    ASSUME TypeOK, WholeInv,
           \/ Promote \/ Rollback \/ Gc \/ Abort
           \/ \E slot \in Slots : Reboot(slot)
    PROVE  WholeInv'
<1>1. pc' \notin StagePc
  BY DEF Promote, Rollback, Gc, Abort, Reboot, SetStaging, StagedUkiMissing,
         DemoteOnEsp, SwingCurrent, RefreshLoader, DemoteRole, PromoteRole,
         ClearStaging, SwapIn, SwapOut, RollCurrent, RollFallback,
         CollectStale, BeginRmtree, RemoveFile, RemoveHeld, SweepObject,
         MissOrphan, LookAt, RemoveDir, StartSweep, FinishGc, Goto, Finish,
         procVars, StagePc
<1>2. \A d \in Deployments : holder'[d] \subseteq holder[d]
  <2>1. CASE UNCHANGED holder
    BY <2>1
  <2>2. ASSUME NEW o \in Objects, RemoveHeld(o)
        PROVE  \A d \in Deployments : holder'[d] \subseteq holder[d]
    BY <2>2 DEF RemoveHeld, UnlinkHeld, TypeOK, StoreTypeOK
  <2>3. QED
    BY <2>1, <2>2, WalkFrame
       DEF Promote, Rollback, Gc, Abort, Reboot, SetStaging, StagedUkiMissing,
           DemoteOnEsp, SwingCurrent, RefreshLoader, DemoteRole, PromoteRole,
           ClearStaging, RoleStep, EspStep, SwapIn, SwapOut, RollCurrent,
           RollFallback, CollectStale, BeginRmtree, RemoveFile, WriteFile,
           RemoveDir, StartSweep, FinishGc, HalfDone, Place, storeVars
<1>3. QED
  BY <1>1, <1>2 DEF WholeInv, StagePc

LEMMA WholeInvariant == Spec => []WholeInv
<1>1. Init => WholeInv
  BY StoreAssumption DEF Init, InstalledHost, WholeInv, StagePc
<1>2. TypeOK /\ RoleInv /\ WholeInv /\ [Next]_vars => WholeInv'
  <2>1. CASE UNCHANGED vars
    BY <2>1 DEF vars, storeVars, layoutVars, procVars, WholeInv, Protected,
                Present
  <2>2. QED
    BY <2>1, StartWhole, MaterializeWhole, OthersWhole DEF Next, CommandStep
<1>3. QED
  BY TypeCorrect, RoleInvariant, <1>1, <1>2, PTL DEF Spec

\* What materialize returns with is complete, even when it has worked on what
\* interrupted commands and a gc half way through have left of the directory.
THEOREM MaterializedIsWhole == Spec => MaterializesWhole
<1>1. TypeOK /\ RoleInv /\ WholeInv /\ [Next]_vars
        => [pc = "meta" /\ pc' = "stage" => Complete(target)']_vars
  <2> SUFFICES ASSUME TypeOK, RoleInv, WholeInv, Next,
                      pc = "meta", pc' = "stage"
               PROVE  Complete(target)'
    BY DEF vars, procVars
  <2>1. WriteMeta
    BY DEF Next, CommandStep, StartCommand, ReuseDeployment, StartMaterialize,
           Begin, StartRollback, StartGc, Materialize, PlaceObject,
           LinkHolder, FinishLanding, PlaceRootCfs, FinishLinking, CopyUki,
           CopyLoader, Promote, SetStaging, StagedUkiMissing, DemoteOnEsp,
           SwingCurrent, RefreshLoader, DemoteRole, PromoteRole, ClearStaging,
           Rollback, SwapIn, SwapOut, RollCurrent, RollFallback, Gc,
           CollectStale, BeginRmtree, RemoveFile, RemoveHeld, RemoveDir,
           StartSweep, SweepObject, MissOrphan, LookAt, FinishGc, Finish,
           procVars, Abort, Reboot
  <2>2. target \in dirs /\ target \in Deployments
    BY DEF RoleInv, StageInv, StagePc, TypeOK, LayoutTypeOK
  <2>3. QED
    BY <2>1, <2>2
       DEF WriteMeta, WriteFile, SetFile, Goto, WholeInv, Complete, TypeOK,
           LayoutTypeOK, FileNames, storeVars
<1>2. QED
  BY TypeCorrect, RoleInvariant, WholeInvariant, <1>1, PTL
     DEF Spec, MaterializesWhole

\* The commands write to, remove from and unlink only what no role names.
LEMMA NamedUntouched ==
    ASSUME TypeOK, RoleInv, WholeInv, Next, NEW d \in Protected
    PROVE  file'[d] = file[d] /\ holder'[d] = holder[d] /\ (d \in dirs')
<1> USE DEF TypeOK, StoreTypeOK, LayoutTypeOK, RoleInv, WholeInv, StagePc,
            layoutVars, storeVars
<1>1. d \in Deployments /\ d \in dirs
  BY DEF Protected, RolesOnDisk
<1>2. CASE UNCHANGED <<file, holder, dirs>>
  BY <1>1, <1>2
<1>3. ASSUME NEW e \in Deployments \ {d}, NEW f \in FileNames, NEW s,
             SetFile(e, f, s), UNCHANGED <<holder, dirs>>
      PROVE  file'[d] = file[d] /\ holder'[d] = holder[d] /\ (d \in dirs')
  BY <1>1, <1>3 DEF SetFile
<1>4. ASSUME NEW o \in Objects, LinkHolder(o)
      PROVE  holder'[d] = holder[d] /\ UNCHANGED <<file, dirs>>
  BY <1>1, <1>4 DEF LinkHolder, LinkObject
<1>5. ASSUME NEW o \in Objects, RemoveHeld(o)
      PROVE  holder'[d] = holder[d] /\ UNCHANGED <<file, dirs>>
  BY <1>1, <1>5 DEF RemoveHeld, UnlinkHeld, GcInv
<1>6. CASE PlaceRootCfs \/ CopyUki \/ CopyLoader \/ WriteMeta
  BY <1>3, <1>6 DEF PlaceRootCfs, CopyUki, CopyLoader, WriteMeta, WriteFile,
                    FileNames
<1>7. ASSUME NEW f \in FileNames, RemoveFile(f)
      PROVE  file'[d] = file[d] /\ holder'[d] = holder[d] /\ (d \in dirs')
  BY <1>3, <1>7 DEF RemoveFile, WriteFile, GcInv
<1>8. CASE RemoveDir
  BY <1>1, <1>8 DEF RemoveDir, GcInv
<1>9. CASE Abort
  <2>1. CASE pc \in FileNames /\ WriteFile(pc, "torn")
    BY <1>3, <2>1 DEF WriteFile, FileNames
  <2>2. QED
    BY <1>2, <1>9, <2>1 DEF Abort, HalfDone, Place
<1>10. ASSUME NEW e \in Deployments, StartMaterialize(e)
       PROVE  UNCHANGED <<file, holder>> /\ (d \in dirs')
  BY <1>1, <1>10 DEF StartMaterialize
<1>11. CASE \/ Promote \/ Rollback \/ StartRollback \/ StartGc
            \/ \E slot \in Slots : Reboot(slot)
            \/ \E e \in Deployments : ReuseDeployment(e)
  BY <1>2, <1>11
     DEF Promote, Rollback, StartRollback, StartGc, Reboot, ReuseDeployment,
         RoleStep, EspStep, SetStaging, StagedUkiMissing, DemoteOnEsp,
         SwingCurrent, RefreshLoader, DemoteRole, PromoteRole, ClearStaging,
         SwapIn, SwapOut, RollCurrent, RollFallback
<1>12. CASE \/ FinishLanding \/ FinishLinking \/ CollectStale \/ StartSweep
            \/ FinishGc \/ \E e \in Deployments : BeginRmtree(e)
            \/ \E o \in Objects : \/ PlaceObject(o) \/ SweepObject(o)
                                  \/ MissOrphan(o)
  BY <1>2, <1>12, WalkFrame
     DEF FinishLanding, FinishLinking, CollectStale, StartSweep, FinishGc,
         BeginRmtree, PlaceObject, Place
<1>13. QED
  BY <1>1, <1>4, <1>5, <1>6, <1>7, <1>8, <1>9, <1>10, <1>11, <1>12
     DEF Next, CommandStep, StartCommand, Materialize, Gc

\* The store loses only what nobody holds, and its seals never.
LEMMA HeldStaysSealed ==
    ASSUME TypeOK, Next, NEW d \in Deployments, NEW o \in holder[d],
           store[o] = "sealed"
    PROVE  store'[o] = "sealed"
<1> USE DEF TypeOK, StoreTypeOK, storeVars
<1>1. CASE UNCHANGED store
  BY <1>1
<1>2. ASSUME NEW q, NEW state \in {"sealed", "unsealed"}, Place(q, state)
      PROVE  store'[o] = "sealed"
  BY <1>2 DEF Place
<1>3. ASSUME NEW q \in Objects, SweepObject(q) \/ MissOrphan(q)
      PROVE  store'[o] = "sealed"
  <2>1. CASE Orphan(q) /\ store' = [store EXCEPT ![q] = "absent"]
    BY <2>1, OrphanHasNoHolder DEF Holders
  <2>2. QED
    BY <1>1, <1>3, <2>1, WalkStore
<1>4. CASE StartCommand \/ Promote \/ Rollback
  BY <1>1, <1>4
     DEF StartCommand, ReuseDeployment, StartMaterialize, StartRollback,
         StartGc, Promote, Rollback, RoleStep, EspStep, SetStaging,
         StagedUkiMissing, DemoteOnEsp, SwingCurrent, RefreshLoader,
         DemoteRole, PromoteRole, ClearStaging, SwapIn, SwapOut, RollCurrent,
         RollFallback
<1>5. CASE Materialize
  BY <1>1, <1>2, <1>5
     DEF Materialize, PlaceObject, LinkHolder, LinkObject, FinishLanding,
         PlaceRootCfs, FinishLinking, CopyUki, CopyLoader, WriteMeta,
         WriteFile
<1>6. CASE Gc
  BY <1>1, <1>3, <1>6
     DEF Gc, CollectStale, BeginRmtree, RemoveFile, WriteFile, RemoveHeld,
         UnlinkHeld, RemoveDir, StartSweep, FinishGc
<1>7. CASE Abort \/ \E slot \in Slots : Reboot(slot)
  BY <1>1, <1>2, <1>7 DEF Abort, HalfDone, WriteFile, Reboot
<1>8. QED
  BY <1>4, <1>5, <1>6, <1>7 DEF Next, CommandStep

\* A deployment that a role names stays complete, and stays bootable, through
\* any number of interrupted and repeated commands: with a single failure or
\* many, nothing an update, a rollback or a gc does spoils an image that is
\* whole and has a role.
THEOREM NamedStay == Spec => NamedStayWhole
<1>1. TypeOK /\ RoleInv /\ WholeInv /\ [Next]_vars
        => [\A d \in {role[r] : r \in Roles} \ {None} :
              Complete(d) => /\ Complete(d)'
                             /\ Bootable(d) => Bootable(d)']_vars
  <2> SUFFICES ASSUME TypeOK, RoleInv, WholeInv, Next, NEW d \in Protected,
                      Complete(d)
               PROVE  Complete(d)' /\ (Bootable(d) => Bootable(d)')
    BY DEF Protected
  <2>1. file'[d] = file[d] /\ holder'[d] = holder[d] /\ (d \in dirs')
    BY NamedUntouched
  <2>2. d \in Deployments
    BY DEF Protected, TypeOK, LayoutTypeOK
  <2>3. Complete(d)'
    BY <2>1 DEF Complete
  <2>4. ASSUME Bootable(d)
        PROVE  Bootable(d)'
    <3>1. Mountable(d)'
      BY <2>1, <2>4 DEF Bootable, Mountable
    <3>2. \A o \in Refs[d] : store'[o] = "sealed"
      BY <2>2, <2>4, HeldStaysSealed DEF Bootable, Complete
    <3>3. QED
      BY <3>1, <3>2 DEF Bootable
  <2>5. QED
    BY <2>3, <2>4
<1>2. QED
  BY TypeCorrect, RoleInvariant, WholeInvariant, <1>1, PTL
     DEF Spec, NamedStayWhole
=============================================================================
