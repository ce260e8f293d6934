--------------------------- MODULE PowerLossProofs ---------------------------
(***************************************************************************)
(* Theorems about Lifecycle up to the first fault, a command cut short or  *)
(* an orphan missed: the host boots at every instant, and commands that    *)
(* return leave the ESP, the roles, the directories and the store in       *)
(* agreement.                                                              *)
(***************************************************************************)
EXTENDS LifecycleProofs

----------------------------------------------------------------------------
(* The host boots through the first fault.  While there has been none,     *)
(* each step of a command knows exactly what the ESP, the roles and the    *)
(* directories hold; CleanInv says it step by step.                        *)

Boot == {"current", "fallback"}

\* Nothing half written, nothing unsealed, no hardlink out of place.
TidyInv ==
    /\ espLoader = "whole"
    /\ \A d \in Deployments : \A f \in FileNames : file[d][f] # "torn"
    /\ \A o \in Objects : store[o] # "unsealed"
    /\ \A d \in Deployments : holder[d] \subseteq Refs[d]
    /\ \A d \in Deployments : holder[d] # {} => d \in dirs
    /\ \A r \in Boot : role[r] # None => Complete(role[r])

\* Where the boot roles and the ESP agree and the staging role is unset.
SettledInv ==
    pc \in {"idle"} \cup StagePc \cup GcPc =>
        /\ role["staging"] = None
        /\ role["fallback"] # role["current"]
        /\ esp = [s \in Slots |-> role[s]]

\* Which directories there are.
DirsInv ==
    /\ pc = "idle" => dirs \subseteq {role["current"], role["fallback"]}
    /\ pc \in StagePc
          => dirs \subseteq {role["current"], role["fallback"], target}
    /\ CollectedInv
    /\ pc \in RollbackPc => dirs \subseteq {target, old}

\* Which objects there are.
StoreInv ==
    /\ missed = {}
    /\ pc \in {"idle"} \cup RollbackPc =>
          \A o \in Objects : Present(o) => Holders(o) # {}

\* How far materialize got with its target.
BuildInv ==
    /\ pc \in StagePc \ {"stage"}
          => target \notin {role["current"], role["fallback"]}
    /\ pc \in StagePc \ {"land", "cfs", "stage"}
          => file[target]["cfs"] = "whole"
    /\ pc \in {"cfs", "link"} => Missing(target) = {}
    /\ pc \in {"uki", "loader", "meta"} => holder[target] = Refs[target]
    /\ pc \in {"loader", "meta"} => file[target]["uki"] = "whole"
    /\ pc = "meta" /\ target \in WithLoader
          => file[target]["loader"] = "whole"
    /\ pc \in {"stage"} \cup PromotePc => Complete(target)

\* What promote has done on the ESP and to the roles.
SwitchInv ==
    /\ pc \in {"stage"} \cup (PromotePc \ {"clearStaging"})
          => target # role["current"]
    /\ pc \in {"promote", "swing", "espLoader", "roleFallback"}
          => role["fallback"] # role["current"]
    /\ pc = "promote" => esp = [s \in Slots |-> role[s]]
    /\ pc = "swing"
          => \A slot \in Slots : esp[slot] = role["current"]
    /\ pc \in {"espLoader", "roleFallback", "roleCurrent"}
          => esp["current"] = target /\ esp["fallback"] = role["current"]
    /\ pc = "roleCurrent" => role["fallback"] = role["current"]
    /\ pc = "clearStaging"
          => /\ role["current"] = target
             /\ role["fallback"] # target
             /\ esp = [s \in Slots |-> role[s]]

\* What rollback has done on the ESP and to the roles.
SwapInv ==
    /\ pc \in RollbackPc
          => /\ role["staging"] = None
             /\ target # old
             /\ old # None
             /\ Complete(target) /\ Complete(old)
             /\ role["fallback"] = target
    /\ pc \in RollbackPc \ {"rollFallback"} => role["current"] = old
    /\ pc = "rollFallback" => role["current"] = target
    /\ pc = "swapIn" => esp = [s \in Slots |-> role[s]]
    /\ pc \in {"swapOut", "rollCurrent", "rollFallback"}
          => esp["current"] = target
    /\ pc \in {"swapIn", "swapOut"} => swapTmp = old
    /\ pc \in {"rollCurrent", "rollFallback"} => esp["fallback"] = old

CleanInv ==
    aborts = 0 =>
        /\ TidyInv
        /\ SettledInv
        /\ DirsInv
        /\ StoreInv
        /\ BuildInv
        /\ SwitchInv
        /\ SwapInv

----------------------------------------------------------------------------
(* What CleanInv says is enough.                                           *)

\* A complete deployment boots when nothing it needs is half done.
LEMMA CompleteBoots ==
    ASSUME TypeOK, HeldObjectsPresent, TidyInv,
           NEW d \in Deployments, Complete(d)
    PROVE  Bootable(d)
BY StoreAssumption
   DEF Complete, Bootable, Mountable, TidyInv, HeldObjectsPresent, Present,
       TypeOK, StoreTypeOK, ObjectState, FileNames

\* The entries of the ESP that must boot name complete deployments.
LEMMA EntriesComplete ==
    ASSUME TypeOK, RoleInv, CleanInv, aborts = 0
    PROVE  /\ esp["current"] \in Deployments /\ Complete(esp["current"])
           /\ role["fallback"] # None /\ pc # "swapOut"
                => /\ esp["fallback"] \in Deployments
                   /\ Complete(esp["fallback"])
BY DEF TypeOK, LayoutTypeOK, RoleInv, CleanInv, TidyInv, SettledInv, BuildInv,
       SwitchInv, SwapInv, Boot, Roles, Slots, StagePc, PromotePc, RollbackPc,
       GcPc

----------------------------------------------------------------------------
(* Each step of a command keeps CleanInv.                                  *)

LEMMA CommandKeepsAborts ==
    ASSUME CommandStep \/ StartCommand
    PROVE  UNCHANGED aborts \/ \E o \in Objects : MissOrphan(o)
BY DEF CommandStep, StartCommand, Materialize, Promote, Rollback, Gc, Quiet,
       ReuseDeployment, StartMaterialize, StartRollback, StartGc, PlaceObject,
       FinishLanding, PlaceRootCfs, LinkHolder, FinishLinking, CopyUki,
       CopyLoader, WriteMeta, RoleStep, SetStaging, EspStep, StagedUkiMissing,
       DemoteOnEsp, SwingCurrent, RefreshLoader, DemoteRole, PromoteRole,
       ClearStaging, SwapIn, SwapOut, RollCurrent, RollFallback, CollectStale,
       BeginRmtree, RemoveFile, RemoveHeld, RemoveDir, StartSweep,
       SweepObject, LookAt, FinishGc

LEMMA StartClean ==
    ASSUME TypeOK, RoleInv, HeldObjectsPresent, CleanInv, aborts = 0,
           StartCommand
    PROVE  CleanInv'
<1> USE LayoutAssumption
    DEF TypeOK, StoreTypeOK, LayoutTypeOK, RoleInv, FilesInDirs, StageInv,
        RolesOnDisk, Exists, CleanInv, TidyInv, SettledInv, DirsInv,
        CollectedInv, StoreInv, BuildInv, SwitchInv, SwapInv, Complete, Boot,
        Roles, Slots, FileNames, StagePc, PromotePc, RollbackPc, GcPc,
        storeVars, layoutVars,
        procVars, Quiet, Goto, Finish, Present, Holders, Missing
<1>1. ASSUME NEW d \in Deployments, ReuseDeployment(d)
      PROVE  CleanInv'
  BY <1>1 DEF ReuseDeployment, Begin
<1>2. ASSUME NEW d \in Deployments, StartMaterialize(d)
      PROVE  CleanInv'
  BY <1>2 DEF StartMaterialize, Begin
<1>3. CASE StartRollback
  BY <1>3 DEF StartRollback, RollbackReady
<1>4. CASE StartGc
  BY <1>4 DEF StartGc
<1>5. QED
  BY <1>1, <1>2, <1>3, <1>4 DEF StartCommand

\* With every object landed, linking ends with the holder equal to what
\* root.cfs references: nothing was passed over.
LEMMA LinkedHolder ==
    ASSUME NEW d \in Deployments, holder[d] \subseteq Refs[d],
           Missing(d) = {}, Linkable(d) = {}
    PROVE  holder[d] = Refs[d]
BY DEF Missing, Linkable

LEMMA MaterializeClean ==
    ASSUME TypeOK, RoleInv, HeldObjectsPresent, CleanInv, aborts = 0,
           Materialize
    PROVE  CleanInv'
<1> USE LayoutAssumption
    DEF TypeOK, StoreTypeOK, LayoutTypeOK, RoleInv, FilesInDirs, StageInv,
        RolesOnDisk, Exists, CleanInv, TidyInv, SettledInv, DirsInv,
        CollectedInv, StoreInv, BuildInv, SwitchInv, SwapInv, Complete, Boot,
        Roles, Slots, FileNames, StagePc, PromotePc, RollbackPc, GcPc,
        storeVars, layoutVars,
        procVars, Quiet, Goto, Finish, Present, Holders, Missing
<1>1. ASSUME NEW o \in Objects, PlaceObject(o)
      PROVE  CleanInv'
  BY <1>1 DEF PlaceObject, Place
<1>2. ASSUME NEW o \in Objects, LinkHolder(o)
      PROVE  CleanInv'
  BY <1>2 DEF LinkHolder, LinkObject, Linkable
<1>3. CASE FinishLanding
  BY <1>3 DEF FinishLanding
<1>4. CASE PlaceRootCfs
  BY <1>4 DEF PlaceRootCfs, WriteFile, SetFile
<1>5. CASE FinishLinking
  <2>1. holder[target] = Refs[target]
    <3>1. target \in Deployments /\ pc = "link"
      BY <1>5 DEF FinishLinking
    <3>2. Missing(target) = {} /\ holder[target] \subseteq Refs[target]
      BY <3>1
    <3>3. QED
      BY ONLY <1>5, <3>1, <3>2, LinkedHolder DEF FinishLinking
  <2>2. QED
    BY <1>5, <2>1 DEF FinishLinking
<1>6. CASE CopyUki
  BY <1>6 DEF CopyUki, WriteFile, SetFile
<1>7. CASE CopyLoader
  BY <1>7 DEF CopyLoader, WriteFile, SetFile
<1>8. CASE WriteMeta
  BY <1>8 DEF WriteMeta, WriteFile, SetFile
<1>9. QED
  BY <1>1, <1>2, <1>3, <1>4, <1>5, <1>6, <1>7, <1>8 DEF Materialize

LEMMA PromoteClean ==
    ASSUME TypeOK, RoleInv, HeldObjectsPresent, CleanInv, aborts = 0, Promote
    PROVE  CleanInv'
<1> USE LayoutAssumption
    DEF TypeOK, StoreTypeOK, LayoutTypeOK, RoleInv, FilesInDirs, StageInv,
        RolesOnDisk, Exists, CleanInv, TidyInv, SettledInv, DirsInv,
        CollectedInv, StoreInv, BuildInv, SwitchInv, SwapInv, Complete, Boot,
        Roles, Slots, FileNames, StagePc, PromotePc, RollbackPc, GcPc,
        storeVars, layoutVars,
        procVars, Quiet, Goto, Finish, Present, Holders, Missing
<1>1. CASE SetStaging
  BY <1>1 DEF SetStaging, RoleStep, SetRole
<1>2. CASE StagedUkiMissing
  BY <1>2 DEF StagedUkiMissing
<1>3. CASE DemoteOnEsp
  BY <1>3 DEF DemoteOnEsp, EspStep, PreserveCurrent, CopyToEsp
<1>4. CASE SwingCurrent
  BY <1>4 DEF SwingCurrent, EspStep, CopyToEsp, UkiOf
<1>5. CASE RefreshLoader
  BY <1>5 DEF RefreshLoader, FileState
<1>6. CASE DemoteRole
  BY <1>6 DEF DemoteRole, RoleStep, SetRole, PromoteInv
<1>7. CASE PromoteRole
  BY <1>7 DEF PromoteRole, RoleStep, SetRole, PromoteInv
<1>8. CASE ClearStaging
  BY <1>8 DEF ClearStaging, RoleStep, ClearRole
<1>9. QED
  BY <1>1, <1>2, <1>3, <1>4, <1>5, <1>6, <1>7, <1>8 DEF Promote

LEMMA RollbackClean ==
    ASSUME TypeOK, RoleInv, HeldObjectsPresent, CleanInv, aborts = 0, Rollback
    PROVE  CleanInv'
<1> USE LayoutAssumption
    DEF TypeOK, StoreTypeOK, LayoutTypeOK, RoleInv, FilesInDirs, StageInv,
        RolesOnDisk, Exists, CleanInv, TidyInv, SettledInv, DirsInv,
        CollectedInv, StoreInv, BuildInv, SwitchInv, SwapInv, Complete, Boot,
        Roles, Slots, FileNames, StagePc, PromotePc, RollbackPc, GcPc,
        storeVars, layoutVars,
        procVars, Quiet, Goto, Finish, Present, Holders, Missing
<1>1. CASE SwapIn
  BY <1>1 DEF SwapIn, EspStep
<1>2. CASE SwapOut
  BY <1>2 DEF SwapOut
<1>3. CASE RollCurrent
  BY <1>3 DEF RollCurrent, RoleStep, SetRole
<1>4. CASE RollFallback
  BY <1>4 DEF RollFallback, RoleStep, SetRole
<1>5. QED
  BY <1>1, <1>2, <1>3, <1>4 DEF Rollback

LEMMA GcClean ==
    ASSUME TypeOK, RoleInv, HeldObjectsPresent, SweepInv, CleanInv, aborts = 0,
           Gc, ~ \E o \in Objects : MissOrphan(o)
    PROVE  CleanInv'
<1> USE LayoutAssumption
    DEF TypeOK, StoreTypeOK, LayoutTypeOK, RoleInv, FilesInDirs, StageInv,
        RolesOnDisk, Exists, CleanInv, TidyInv, SettledInv, DirsInv,
        CollectedInv, StoreInv, BuildInv, SwitchInv, SwapInv, Complete, Boot,
        Roles, Slots, FileNames, StagePc, PromotePc, RollbackPc, GcPc,
        storeVars, layoutVars,
        procVars, Quiet, Goto, Finish, Present, Holders, Missing
<1>1. CASE CollectStale
  BY <1>1 DEF CollectStale, Protected
<1>2. ASSUME NEW d \in Deployments, BeginRmtree(d)
      PROVE  CleanInv'
  BY <1>2 DEF BeginRmtree, Protected
<1>3. ASSUME NEW f \in FileNames, RemoveFile(f)
      PROVE  CleanInv'
  BY <1>3 DEF RemoveFile, WriteFile, SetFile, GcInv, Protected
<1>4. ASSUME NEW o \in Objects, RemoveHeld(o)
      PROVE  CleanInv'
  BY <1>4 DEF RemoveHeld, UnlinkHeld, GcInv, Protected
<1>5. ASSUME NEW o \in Objects, SweepObject(o)
      PROVE  CleanInv'
  <2>1. /\ pc = "sweep" /\ pc' = "sweep"
        /\ \A p \in Objects : store'[p] # "unsealed"
        /\ UNCHANGED <<holder, layoutVars, target, old, stale, missed, aborts>>
    BY <1>5 DEF SweepObject, LookAt, Sweep
  <2>2. QED
    BY <2>1 DEF Protected
<1>6. CASE RemoveDir
  BY <1>6 DEF RemoveDir, GcInv, Protected
<1>7. CASE StartSweep
  BY <1>7 DEF StartSweep, Protected
<1>8. CASE FinishGc
  <2>1. \A o \in Objects : Present(o) => Holders(o) # {}
    BY <1>8 DEF FinishGc, SweepInv
  <2>2. QED
    BY <1>8, <2>1 DEF FinishGc, Protected
<1>9. QED
  BY <1>1, <1>2, <1>3, <1>4, <1>5, <1>6, <1>7, <1>8 DEF Gc

LEMMA InitClean == Init => CleanInv
BY LayoutAssumption, StoreAssumption
   DEF Init, InstalledHost, CleanInv, TidyInv, SettledInv, DirsInv,
       CollectedInv, StoreInv,
       BuildInv, SwitchInv, SwapInv, Complete, Boot, Roles, Slots, FileNames,
       StagePc,
       PromotePc, RollbackPc, GcPc, Present, Holders

\* CleanInv holds until the first fault, and says nothing after.
LEMMA NextClean ==
    TypeOK /\ RoleInv /\ HeldObjectsPresent /\ SweepInv /\ CleanInv
      /\ [Next]_vars => CleanInv'
<1> SUFFICES ASSUME TypeOK, RoleInv, HeldObjectsPresent, SweepInv, CleanInv,
                    [Next]_vars, aborts' = 0
             PROVE  CleanInv'
  BY DEF CleanInv
<1>1. ~Abort /\ ~ \E o \in Objects : MissOrphan(o)
  BY DEF Abort, HalfDone, MissOrphan, TypeOK
<1>2. ASSUME NEW slot \in Slots, Reboot(slot)
      PROVE  UNCHANGED <<storeVars, layoutVars, procVars, aborts>>
  BY <1>2 DEF Reboot
<1>3. CASE UNCHANGED <<storeVars, layoutVars, procVars, aborts>>
  BY <1>3
     DEF storeVars, layoutVars, procVars, CleanInv, TidyInv, SettledInv,
         DirsInv, CollectedInv, StoreInv, BuildInv, SwitchInv, SwapInv,
         Complete, Present, Holders, Missing, Protected
<1>4. CASE UNCHANGED vars
  BY <1>3, <1>4 DEF vars
<1>5. CASE CommandStep \/ StartCommand
  <2>1. aborts = 0
    BY <1>1, <1>5, CommandKeepsAborts
  <2>2. QED
    BY <1>1, <1>5, <2>1, StartClean, MaterializeClean, PromoteClean,
       RollbackClean, GcClean DEF CommandStep
<1>6. QED
  BY <1>1, <1>2, <1>3, <1>4, <1>5 DEF Next

LEMMA CleanInvariant == Spec => [](RoleInv /\ HeldObjectsPresent /\ CleanInv)
<1>1. QED
  BY TypeCorrect, RoleInvariant, HeldObjectsStay, SweptInvariant, InitClean,
     NextClean, PTL DEF Spec

----------------------------------------------------------------------------
(* The two results.                                                        *)

\* What PowerLossSafe asks of the state a step leads to.
EntriesBoot ==
    /\ espLoader = "whole"
    /\ Bootable(esp["current"])
    /\ role["fallback"] # None /\ pc # "swapOut" => Bootable(esp["fallback"])

LEMMA CleanBoots ==
    ASSUME TypeOK, RoleInv, HeldObjectsPresent, CleanInv, aborts = 0
    PROVE  EntriesBoot
<1>1. TidyInv
  BY DEF CleanInv
<1>2. QED
  BY <1>1, EntriesComplete, CompleteBoots DEF EntriesBoot, TidyInv

\* The first command cut short leaves at worst a torn file of a deployment that
\* is not on the ESP, or an unsealed object that no bootable deployment needs.
LEMMA FirstAbortBoots ==
    ASSUME TypeOK, RoleInv, HeldObjectsPresent, CleanInv, aborts = 0, Abort,
           pc # "swapOut"
    PROVE  EntriesBoot'
<1>1. EntriesBoot
  BY CleanBoots
<1>2. UNCHANGED <<esp, espLoader, role>>
  BY DEF Abort, HalfDone, WriteFile, layoutVars
<1>3. ASSUME NEW d \in Deployments, Bootable(d),
             pc \in StagePc \ {"stage"} => d # target
      PROVE  Bootable(d)'
  <2>1. UNCHANGED file[d]
    BY <1>3 DEF Abort, HalfDone, WriteFile, SetFile, layoutVars, StagePc,
                FileNames, TypeOK, LayoutTypeOK
  <2>2. \A o \in Refs[d] : store'[o] = "sealed"
    BY <1>3, StoreAssumption
       DEF Abort, HalfDone, WriteFile, Place, storeVars, Bootable, TypeOK,
           StoreTypeOK
  <2>3. QED
    BY <1>3, <2>1, <2>2 DEF Bootable, Mountable
<1>4. pc \in StagePc \ {"stage"}
        => \A s \in Slots : esp[s] = role[s] /\ role[s] # target
  BY DEF CleanInv, SettledInv, BuildInv, Slots, StagePc
<1>5. Bootable(esp["current"])'
  <2>1. esp["current"] \in Deployments
    BY EntriesComplete
  <2>2. QED
    BY <1>1, <1>2, <1>3, <1>4, <2>1 DEF EntriesBoot, Bootable, Mountable, Slots
<1>6. ASSUME role["fallback"] # None
      PROVE  Bootable(esp["fallback"])'
  <2>1. esp["fallback"] \in Deployments
    BY <1>6, EntriesComplete
  <2>2. QED
    BY <1>1, <1>2, <1>3, <1>4, <1>6, <2>1
       DEF EntriesBoot, Bootable, Mountable, Slots
<1>7. QED
  BY <1>1, <1>2, <1>5, <1>6 DEF EntriesBoot

\* Power lost at any instant up to and including the first fault finds
\* a host that boots its default entry and, outside the renames of a
\* rollback, its previous one: the order of promote (fallback.efi before
\* current.efi before the roles) and that of gc are crash-safe.
THEOREM PowerLossBoots == Spec => PowerLossSafe
<1>1. TypeOK /\ RoleInv /\ HeldObjectsPresent /\ CleanInv
        => (aborts = 0 => EntriesBoot)
  BY CleanBoots
<1>2. TypeOK /\ RoleInv /\ HeldObjectsPresent /\ CleanInv
      /\ (aborts = 0 => EntriesBoot)' /\ [Next]_vars
        => [aborts = 0 =>
              /\ espLoader' = "whole"
              /\ Bootable(esp["current"])'
              /\ role'["fallback"] # None /\ "swapOut" \notin {pc, pc'}
                     => Bootable(esp["fallback"])']_vars
  <2> SUFFICES ASSUME TypeOK, RoleInv, HeldObjectsPresent, CleanInv,
                      (aborts = 0 => EntriesBoot)',
                      [Next]_vars, vars' # vars, aborts = 0
               PROVE  /\ espLoader' = "whole"
                      /\ Bootable(esp["current"])'
                      /\ role'["fallback"] # None /\ "swapOut" \notin {pc, pc'}
                             => Bootable(esp["fallback"])'
    OBVIOUS
  <2>1. CASE aborts' = 0
    BY <2>1 DEF EntriesBoot
  <2>2. CASE Abort
    <3>1. pc # "swapOut" => EntriesBoot'
      BY <2>2, FirstAbortBoots
    <3>2. CASE pc = "swapOut"
      BY <2>2, <3>2, CleanBoots
         DEF Abort, HalfDone, FileNames, EntriesBoot, Bootable, Mountable,
             storeVars, layoutVars
    <3>3. QED
      BY <3>1, <3>2 DEF EntriesBoot
  <2>3. CASE \E o \in Objects : MissOrphan(o)
    BY <2>3, CleanBoots
       DEF MissOrphan, LookAt, EntriesBoot, Bootable, Mountable, storeVars,
           layoutVars
  <2>4. QED
    BY <2>1, <2>2, <2>3, CommandKeepsAborts DEF Next, Reboot
<1>3. QED
  BY TypeCorrect, CleanInvariant, <1>1, <1>2, PTL DEF Spec, PowerLossSafe

\* Commands that run to their end leave the ESP, the roles, the directories,
\* the holders and the store in agreement.
THEOREM QuietHostCoherent == Spec => []QuietCoherent
<1>1. TypeOK /\ RoleInv /\ HeldObjectsPresent /\ CleanInv => QuietCoherent
  <2> SUFFICES ASSUME TypeOK, RoleInv, HeldObjectsPresent, CleanInv,
                      aborts = 0, pc = "idle"
               PROVE  QuietCoherent
    BY DEF QuietCoherent
  <2>1. /\ \A s \in Slots : esp[s] = role[s]
        /\ role["staging"] = None
        /\ role["current"] # role["fallback"]
    BY DEF CleanInv, SettledInv, Slots
  <2>2. dirs = Protected
    <3>1. dirs \subseteq Protected
      BY LayoutAssumption
         DEF CleanInv, DirsInv, Protected, Roles, TypeOK, LayoutTypeOK
    <3>2. Protected \subseteq dirs
      BY DEF RoleInv, RolesOnDisk, Protected
    <3>3. QED
      BY <3>1, <3>2
  <2>3. \A d \in dirs : Complete(d)
    BY <2>1, <2>2 DEF CleanInv, TidyInv, Boot, Protected, Roles
  <2>4. \A d \in Deployments \ dirs :
           holder[d] = {} /\ \A f \in FileNames : ~Exists(d, f)
    BY DEF CleanInv, TidyInv, RoleInv, FilesInDirs
  <2>5. \A o \in Objects : Present(o) <=> Holders(o) # {}
    BY DEF CleanInv, StoreInv, HeldObjectsPresent, Holders
  <2>6. QED
    BY <2>1, <2>2, <2>3, <2>4, <2>5 DEF QuietCoherent
<1>2. QED
  BY TypeCorrect, CleanInvariant, <1>1, PTL
=============================================================================
