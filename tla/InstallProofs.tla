--------------------------- MODULE InstallProofs ---------------------------
(***************************************************************************)
(* Theorems about Install, for every set of deployments, objects and       *)
(* factory files, every choice of calls and any number of failures.        *)
(***************************************************************************)
EXTENDS Install, TLAPS

----------------------------------------------------------------------------
(* Types.                                                                  *)

LEMMA InstallInitTypeOK == InstallInit => InstallTypeOK
<1> SUFFICES ASSUME InstallInit PROVE InstallTypeOK
  OBVIOUS
<1> USE DEF InstallInit
<1>1. StoreTypeOK
  BY DEF Blank, StoreTypeOK, ObjectState
<1>2. /\ dirs \subseteq Deployments
      /\ file \in [Deployments -> [FileNames -> FileState]]
      /\ role \in [Roles -> Deployments \cup {None}]
      /\ esp \in [Slots -> Images] /\ swapTmp = None
      /\ {espLoader, conf} \subseteq FileState
  BY DEF Blank, FileState, Images
<1>3. /\ parts \subseteq Targets
      /\ label \in [Targets -> Labels \cup {None}]
      /\ subvols \subseteq Subvolumes
      /\ var \in [VarNames -> VarContent]
      /\ mounted \subseteq Targets /\ opts \in Calls
      /\ ended \in {"none", "done", "failed", "killed"}
  BY DEF Blank, Labels, VarContent
<1>4. channel \in BOOLEAN
  BY Zenon
<1>5. /\ pc = "idle" /\ pc \notin TryPc
      /\ unswept = {} /\ missed = {}
      /\ aborts \in 0..MaxAborts
  BY LifecycleAssumption DEF TryPc, MaterializePc, StagePc
<1>6. QED
  BY <1>1, <1>2, <1>3, <1>4, <1>5 DEF InstallTypeOK

\* What InstallTypeOK says of the disk.
DiskTypeOK ==
    /\ StoreTypeOK
    /\ dirs \subseteq Deployments
    /\ file \in [Deployments -> [FileNames -> FileState]]
    /\ role \in [Roles -> Deployments \cup {None}]
    /\ esp \in [Slots -> Images] /\ swapTmp = None
    /\ {espLoader, conf} \subseteq FileState
    /\ parts \subseteq Targets
    /\ label \in [Targets -> Labels \cup {None}]
    /\ subvols \subseteq Subvolumes
    /\ var \in [VarNames -> VarContent]
    /\ channel \in BOOLEAN

\* The table and the two mkfs, done or cut short.
LEMMA FormatTypeOK ==
    ASSUME InstallTypeOK, NEW these \in SUBSET Targets,
           NEW name \in Labels \cup {None},
           Repartition(these) \/ MakeFat(name) \/ MakeBtrfs(name)
    PROVE  DiskTypeOK'
<1> USE DEF InstallTypeOK, DiskTypeOK, StoreTypeOK, storeVars, layoutVars
<1>1. CASE Repartition(these)
  BY <1>1 DEF Repartition
<1>2. CASE MakeFat(name)
  BY <1>2 DEF MakeFat, Blank, FileState, Images
<1>3. CASE MakeBtrfs(name)
  BY <1>3 DEF MakeBtrfs, Blank, ObjectState, FileState, VarContent
<1>4. QED
  BY <1>1, <1>2, <1>3

LEMMA HalfDoneTypeOK ==
    ASSUME InstallTypeOK, HalfDone
    PROVE  /\ StoreTypeOK'
           /\ dirs' \subseteq Deployments
           /\ file' \in [Deployments -> [FileNames -> FileState]]
           /\ role' \in [Roles -> Deployments \cup {None}]
           /\ esp' \in [Slots -> Images] /\ swapTmp' = None
           /\ espLoader' \in FileState
<1> USE StoreAssumption, LayoutAssumption
    DEF InstallTypeOK, StoreTypeOK, storeVars, layoutVars
<1>1. CASE UNCHANGED <<storeVars, layoutVars>>
  BY <1>1
<1>2. CASE pc \in FileNames /\ WriteFile(pc, "torn")
  BY <1>2 DEF WriteFile, SetFile, FileState
<1>3. CASE /\ pc = "land"
           /\ \E o \in Missing(target) : Place(o, "unsealed")
           /\ UNCHANGED layoutVars
  BY <1>3 DEF Place, ObjectState
<1>4. QED
  BY <1>1, <1>2, <1>3 DEF HalfDone

LEMMA FaultTypeOK ==
    ASSUME InstallTypeOK, Fault
    PROVE  DiskTypeOK' /\ aborts' \in 0..MaxAborts
<1>1. aborts' \in 0..MaxAborts
  BY LifecycleAssumption DEF Fault, InstallTypeOK
<1>2. CASE HalfDone /\ UNCHANGED extraVars
  BY <1>1, <1>2, HalfDoneTypeOK
     DEF InstallTypeOK, DiskTypeOK, extraVars, tableVars
<1>3. CASE \/ \E these \in {{}, {"efi"}} : Repartition(these)
           \/ MakeFat(None) \/ MakeBtrfs(None)
  BY <1>1, <1>3, FormatTypeOK DEF Targets
<1>4. CASE /\ pc = "conf" /\ conf = "none"
           /\ conf' = "torn"
           /\ UNCHANGED <<storeVars, layoutVars, tableVars, subvols, var,
                          channel>>
  BY <1>1, <1>4
     DEF InstallTypeOK, DiskTypeOK, StoreTypeOK, storeVars, layoutVars,
         tableVars, FileState
<1>5. CASE /\ pc = "limine"
           /\ espLoader' = "torn"
           /\ UNCHANGED <<storeVars, dirs, file, role, esp, swapTmp, extraVars>>
  BY <1>1, <1>5
     DEF InstallTypeOK, DiskTypeOK, StoreTypeOK, storeVars, extraVars,
         tableVars, FileState
<1>6. QED
  BY <1>2, <1>3, <1>4, <1>5 DEF Fault, HalfInstalled

\* A step of materialize, on any target.
LEMMA MaterializeFirstTypeOK ==
    ASSUME InstallTypeOK, MaterializeFirst
    PROVE  InstallTypeOK'
<1> USE StoreAssumption, LayoutAssumption, LifecycleAssumption
    DEF InstallTypeOK, StoreTypeOK, StagePc, MaterializePc, TryPc,
        DiskPc, storeVars, layoutVars, extraVars, tableVars, runVars, procVars,
        Quiet, Goto, WriteFile, SetFile, FileNames, FileState
<1> extraVars' = extraVars /\ runVars' = runVars /\ Materialize
  BY DEF MaterializeFirst
<1>1. ASSUME NEW o \in Objects, PlaceObject(o)
      PROVE  InstallTypeOK'
  BY <1>1 DEF PlaceObject, Place, ObjectState
<1>2. ASSUME NEW o \in Objects, LinkHolder(o)
      PROVE  InstallTypeOK'
  BY <1>2 DEF LinkHolder, LinkObject
<1>3. CASE FinishLanding
  BY <1>3 DEF FinishLanding
<1>4. CASE PlaceRootCfs
  BY <1>4 DEF PlaceRootCfs
<1>5. CASE FinishLinking
  BY <1>5 DEF FinishLinking
<1>6. CASE CopyUki
  BY <1>6 DEF CopyUki
<1>7. CASE CopyLoader
  BY <1>7 DEF CopyLoader
<1>8. CASE WriteMeta
  BY <1>8 DEF WriteMeta
<1>9. QED
  BY <1>1, <1>2, <1>3, <1>4, <1>5, <1>6, <1>7, <1>8 DEF Materialize

\* The steps before the try block and behind it.
LEMMA OuterTypeOK ==
    ASSUME InstallTypeOK,
           \/ \E o \in Calls : StartInstall(o)
           \/ Partition \/ FormatEsp \/ FormatSysroot \/ MountTargets
           \/ UmountEfi \/ UmountSysroot
           \/ \E these \in {{}, Targets} : UserMounts(these)
    PROVE  InstallTypeOK'
<1> USE InstallAssumption
    DEF InstallTypeOK, TryPc, DiskPc, StagePc, MaterializePc, Quiet, Goto,
        procVars, runVars, tableVars
<1>1. ASSUME NEW o \in Calls, StartInstall(o)
      PROVE  InstallTypeOK'
  BY <1>1 DEF StartInstall, diskVars, storeVars, layoutVars, extraVars,
              StoreTypeOK
<1>2. CASE Partition
  <2>1. DiskTypeOK'
    BY <1>2, FormatTypeOK DEF Partition
  <2>2. QED
    BY <1>2, <2>1 DEF Partition, DiskTypeOK
<1>3. CASE FormatEsp \/ FormatSysroot
  <2>1. opts.label \in Labels
    BY DEF Options
  <2>2. DiskTypeOK'
    BY <1>3, <2>1, FormatTypeOK DEF FormatEsp, FormatSysroot
  <2>3. QED
    BY <1>3, <2>2 DEF FormatEsp, FormatSysroot, DiskTypeOK
<1>4. ASSUME NEW from, NEW to \in SUBSET Targets,
             NEW next \in DiskPc \cup {"subvols"}, Remount(from, to, next)
      PROVE  InstallTypeOK'
  BY <1>4 DEF Remount, diskVars, storeVars, layoutVars, extraVars, StoreTypeOK
<1>5. CASE MountTargets \/ UmountEfi
  BY <1>4, <1>5 DEF MountTargets, UmountEfi, Targets
<1>6. CASE UmountSysroot
  BY <1>6 DEF UmountSysroot, Finish, diskVars, storeVars, layoutVars,
              extraVars, StoreTypeOK
<1>7. ASSUME NEW these \in {{}, Targets}, UserMounts(these)
      PROVE  InstallTypeOK'
  BY <1>7 DEF UserMounts, diskVars, storeVars, layoutVars, extraVars,
              StoreTypeOK
<1>8. QED
  BY <1>1, <1>2, <1>3, <1>5, <1>6, <1>7

\* The steps of the try block but those of materialize.
LEMMA InnerTypeOK ==
    ASSUME InstallTypeOK,
           \/ \E i \in 1..3 : InitLayout(i)
           \/ LayoutDone
           \/ \E d \in Deployments : AlreadyInstalled(d) \/ InstallDeploy(d)
           \/ (CopyUkiToEsp \/ SetCurrent) /\ UNCHANGED <<extraVars, runVars>>
           \/ SeedChannel \/ WriteLimineConf \/ InstallLimine
           \/ CreateNvramEntry
    PROVE  InstallTypeOK'
<1> USE InstallAssumption, LayoutAssumption
    DEF InstallTypeOK, TryPc, DiskPc, StagePc, MaterializePc, Quiet, Goto,
        procVars, runVars, tableVars, storeVars, layoutVars, StoreTypeOK
<1>1. ASSUME NEW i \in 1..3, InitLayout(i)
      PROVE  InstallTypeOK'
  BY <1>1 DEF InitLayout, Subvolumes
<1>2. CASE LayoutDone
  BY <1>2 DEF LayoutDone, diskVars, extraVars
<1>3. ASSUME NEW how \in {"done", "failed"}, LeaveTry(how)
      PROVE  /\ ended' = how /\ mounted' = mounted /\ opts' = opts
             /\ pc' \in {"idle", "umountEfi"}
             /\ unswept' = {} /\ missed' = {}
  BY <1>3 DEF LeaveTry, Finish
<1>4. ASSUME NEW d \in Deployments, AlreadyInstalled(d)
      PROVE  InstallTypeOK'
  BY <1>3, <1>4 DEF AlreadyInstalled, diskVars, extraVars
<1>5. ASSUME NEW d \in Deployments, InstallDeploy(d)
      PROVE  InstallTypeOK'
  BY <1>5 DEF InstallDeploy, extraVars
<1>6. CASE CopyUkiToEsp /\ UNCHANGED <<extraVars, runVars>>
  BY <1>6 DEF CopyUkiToEsp, EspStep, CopyToEsp, UkiOf, Images, extraVars
<1>7. CASE SetCurrent /\ UNCHANGED <<extraVars, runVars>>
  BY <1>7 DEF SetCurrent, RoleStep, SetRole, extraVars
<1>8. CASE SeedChannel
  <2>1. channel' \in BOOLEAN
    BY <1>8, Zenon DEF SeedChannel
  <2>2. QED
    BY <1>8, <2>1 DEF SeedChannel
<1>9. CASE WriteLimineConf
  BY <1>3, <1>9 DEF WriteLimineConf, FileState
<1>10. CASE InstallLimine
  BY <1>10 DEF InstallLimine, extraVars, FileState
<1>11. CASE CreateNvramEntry
  BY <1>3, <1>11 DEF CreateNvramEntry, diskVars, extraVars
<1>12. QED
  BY <1>1, <1>2, <1>4, <1>5, <1>6, <1>7, <1>8, <1>9, <1>10, <1>11

LEMMA FailureTypeOK ==
    ASSUME InstallTypeOK, StepFails \/ DiskStepFails \/ Killed
    PROVE  InstallTypeOK'
<1>1. Fault /\ ended' \in {"failed", "killed"} /\ opts' = opts
      /\ mounted' \in {mounted, {}} /\ pc' \in {"idle", "umountEfi"}
      /\ unswept' = {} /\ missed' = {}
  BY DEF StepFails, DiskStepFails, Killed, LeaveTry, Goto, Finish,
         InstallTypeOK
<1>2. QED
  BY <1>1, FaultTypeOK
     DEF InstallTypeOK, DiskTypeOK, TryPc, DiskPc, StagePc, MaterializePc

LEMMA NextTypeOK ==
    InstallTypeOK /\ [InstallNext]_installVars => InstallTypeOK'
<1> SUFFICES ASSUME InstallTypeOK, [InstallNext]_installVars
             PROVE  InstallTypeOK'
  OBVIOUS
<1>1. CASE InstallNext
  BY <1>1, MaterializeFirstTypeOK, OuterTypeOK, InnerTypeOK, FailureTypeOK
     DEF InstallNext, InstallStep
<1>2. CASE UNCHANGED installVars
  BY <1>2 DEF installVars, vars, extraVars, tableVars, runVars, storeVars,
              layoutVars, procVars, InstallTypeOK, StoreTypeOK
<1>3. QED
  BY <1>1, <1>2

\* The disk and the install that runs on it stay inside their types; in
\* particular the steps that work on a deployment have one.
THEOREM InstallTypes == InstallSpec => []InstallTypeOK
BY InstallInitTypeOK, NextTypeOK, PTL DEF InstallSpec

----------------------------------------------------------------------------
(* The current role.  A deployment that a role or the ESP names is never   *)
(* written again, as its directory is there; how far materialize got with  *)
(* the new one is known step by step, and only "stage" and what follows    *)
(* make it current.                                                        *)

\* What is named is complete.
NamedWhole ==
    /\ role["current"] # None => Complete(role["current"])
    /\ esp["current"] # None =>
          esp["current"] \in Deployments /\ Complete(esp["current"])

HoldersExact == \A d \in Deployments : holder[d] \subseteq Refs[d]

\* How far materialize got with its target, and that nothing names it yet.
BuiltInv ==
    /\ pc \in MaterializePc
          => /\ target \in dirs
             /\ target \notin {role["current"], esp["current"]}
    /\ pc \in {"link", "uki", "loader", "meta"}
          => file[target]["cfs"] = "whole"
    /\ pc \in {"cfs", "link"} => Missing(target) = {}
    /\ pc \in {"uki", "loader", "meta"} => holder[target] = Refs[target]
    /\ pc \in {"loader", "meta"} => file[target]["uki"] = "whole"
    /\ pc = "meta" /\ target \in WithLoader
          => file[target]["loader"] = "whole"
    /\ pc \in {"stage", "setCurrent"} => Complete(target)
    /\ pc = "setCurrent" => esp["current"] = target

StoredInv == NamedWhole /\ HoldersExact /\ BuiltInv

\* Where the ESP is known to be blank, and where it agrees with the roles.
MatchInv ==
    /\ pc = "mkfsBtrfs" => esp["current"] = None
    /\ \/ pc \in {"channel", "conf", "limine", "nvram"}
       \/ ended = "done" /\ pc \in {"idle", "umountEfi", "umountSysroot"}
       => role["current"] # None /\ esp["current"] = role["current"]

WholeInv == StoredInv /\ MatchInv

LEMMA WholeInit == InstallInit => WholeInv
<1> SUFFICES ASSUME InstallInit PROVE WholeInv
  OBVIOUS
<1>1. holder = [d \in Deployments |-> {}] /\ role = [r \in Roles |-> None]
      /\ esp = [s \in Slots |-> None]
      /\ pc = "idle" /\ ended = "none"
  BY DEF InstallInit, Blank
<1>2. QED
  BY <1>1 DEF WholeInv, StoredInv, MatchInv, NamedWhole, HoldersExact,
              BuiltInv, MaterializePc, StagePc, Roles, Slots

\* mkfs.fat takes what the ESP names and leaves the deployments alone.
LEMMA FatWhole ==
    ASSUME StoredInv, NEW name, MakeFat(name),
           pc' \in {"idle", "mkfsBtrfs", "umountEfi"}
    PROVE  StoredInv' /\ esp'["current"] = None
BY DEF MakeFat, Blank, Slots, storeVars, StoredInv, NamedWhole, Complete,
       HoldersExact, BuiltInv, MaterializePc, StagePc

\* mkfs.btrfs takes the deployments and the roles; by then no UKI is left
\* that names one.
LEMMA BtrfsWhole ==
    ASSUME esp["current"] = None, NEW name, MakeBtrfs(name),
           pc' \in {"idle", "mountSysroot", "umountEfi"}
    PROVE  StoredInv'
<1>1. holder' = [d \in Deployments |-> {}] /\ role' = [r \in Roles |-> None]
      /\ esp' = esp
  BY DEF MakeBtrfs, Blank
<1>2. QED
  BY <1>1 DEF StoredInv, NamedWhole, HoldersExact, BuiltInv, MaterializePc,
              StagePc, Roles

\* A step that leaves the deployments, the roles and the ESP alone, for a
\* place where nothing is being built.
LEMMA OutsideWhole ==
    ASSUME StoredInv, UNCHANGED <<dirs, file, holder, role, esp>>,
           pc' \notin MaterializePc \cup {"stage", "setCurrent"}
    PROVE  StoredInv'
BY DEF StoredInv, NamedWhole, Complete, HoldersExact, BuiltInv,
       MaterializePc, StagePc

LEMMA LinkedWhole ==
    ASSUME NEW d \in Deployments, holder[d] \subseteq Refs[d],
           Missing(d) = {}, Linkable(d) = {}
    PROVE  holder[d] = Refs[d]
BY DEF Missing, Linkable

\* What a step may do to the directory under construction and to nothing else.
LEMMA TargetStepKeeps ==
    ASSUME InstallTypeOK, StoredInv, pc \in MaterializePc,
           UNCHANGED <<target, role, esp, dirs>>,
           \A d \in Deployments \ {target} :
               file'[d] = file[d] /\ holder'[d] = holder[d],
           holder'[target] \subseteq Refs[target]
    PROVE  /\ NamedWhole' /\ HoldersExact'
           /\ target' \in dirs'
           /\ target' \notin {role'["current"], esp'["current"]}
<1>1. target \in Deployments
  BY DEF InstallTypeOK, TryPc, MaterializePc, StagePc
<1>2. HoldersExact'
  BY <1>1 DEF StoredInv, HoldersExact
<1>3. target \in dirs /\ target \notin {role["current"], esp["current"]}
  BY DEF StoredInv, BuiltInv
<1>4. ASSUME NEW d \in Deployments, d # target, Complete(d)
      PROVE  Complete(d)'
  BY <1>4 DEF Complete
<1>5. role["current"] # None => role["current"] \in Deployments
  BY DEF InstallTypeOK, Roles
<1>6. NamedWhole'
  BY <1>3, <1>4, <1>5 DEF StoredInv, NamedWhole
<1>7. QED
  BY <1>2, <1>3, <1>6

LEMMA MaterializeWhole ==
    ASSUME InstallTypeOK, StoredInv, MaterializeFirst
    PROVE  StoredInv'
<1> USE DEF MaterializePc, StagePc
<1>1. target \in Deployments /\ pc \in MaterializePc
  BY DEF InstallTypeOK, TryPc, MaterializeFirst
<1>2. holder[target] \subseteq Refs[target] /\ BuiltInv
  BY <1>1 DEF StoredInv, HoldersExact
<1>3. ASSUME NEW o \in Objects, PlaceObject(o)
      PROVE  StoredInv'
  <2>1. UNCHANGED <<target, role, esp, dirs, file, holder, pc>> /\ pc = "land"
    BY <1>3 DEF PlaceObject, Place, layoutVars, procVars
  <2>2. NamedWhole' /\ HoldersExact' /\ target' \in dirs'
        /\ target' \notin {role'["current"], esp'["current"]}
    BY <1>1, <1>2, <2>1, TargetStepKeeps
  <2>3. QED
    BY <2>1, <2>2 DEF StoredInv, BuiltInv
<1>4. ASSUME NEW o \in Objects, LinkHolder(o)
      PROVE  StoredInv'
  <2>1. UNCHANGED <<target, role, esp, dirs, file, store, pc>> /\ pc = "link"
        /\ holder' = [holder EXCEPT ![target] = @ \cup {o}]
        /\ o \in Refs[target]
    BY <1>4 DEF LinkHolder, LinkObject, Linkable, layoutVars, procVars
  <2>2. holder'[target] \subseteq Refs[target]
        /\ \A d \in Deployments \ {target} : holder'[d] = holder[d]
    BY <1>1, <1>2, <2>1 DEF InstallTypeOK, StoreTypeOK
  <2>3. NamedWhole' /\ HoldersExact' /\ target' \in dirs'
        /\ target' \notin {role'["current"], esp'["current"]}
    BY <1>1, <2>1, <2>2, TargetStepKeeps
  <2>4. QED
    BY <1>2, <2>1, <2>3 DEF StoredInv, BuiltInv, Missing, Present
<1>5. CASE FinishLanding
  BY <1>1, <1>2, <1>5, TargetStepKeeps
     DEF FinishLanding, Goto, storeVars, layoutVars, StoredInv, BuiltInv,
         Missing, Present
<1>6. CASE FinishLinking
  <2>1. UNCHANGED <<target, role, esp, dirs, file, store, holder>>
        /\ pc = "link" /\ pc' = "uki" /\ Linkable(target) = {}
    BY <1>6 DEF FinishLinking, Goto, storeVars, layoutVars
  <2>2. holder[target] = Refs[target]
    BY <1>1, <1>2, <2>1, LinkedWhole DEF BuiltInv
  <2>3. QED
    BY <1>1, <1>2, <2>1, <2>2, TargetStepKeeps DEF StoredInv, BuiltInv
<1>7. ASSUME NEW f \in FileNames, WriteFile(f, "whole"), target' = target
      PROVE  /\ NamedWhole' /\ HoldersExact' /\ target' \in dirs'
             /\ target' \notin {role'["current"], esp'["current"]}
             /\ file'[target][f] = "whole"
             /\ \A g \in FileNames \ {f} : file'[target][g] = file[target][g]
             /\ UNCHANGED <<store, holder, dirs, role, esp>>
  <2>1. UNCHANGED <<target, role, esp, dirs, store, holder>>
        /\ file' = [file EXCEPT ![target][f] = "whole"]
    BY <1>7 DEF WriteFile, SetFile, storeVars
  <2>2. file'[target][f] = "whole"
        /\ \A g \in FileNames \ {f} : file'[target][g] = file[target][g]
        /\ \A d \in Deployments \ {target} : file'[d] = file[d]
    BY <1>1, <2>1 DEF InstallTypeOK
  <2>3. QED
    BY <1>1, <1>2, <2>1, <2>2, TargetStepKeeps
<1>8. CASE PlaceRootCfs
  BY <1>2, <1>7, <1>8 DEF PlaceRootCfs, Goto, FileNames, StoredInv, BuiltInv,
                          Missing, Present
<1>9. CASE CopyUki
  BY <1>2, <1>7, <1>9 DEF CopyUki, Goto, FileNames, StoredInv, BuiltInv
<1>10. CASE CopyLoader
  BY <1>2, <1>7, <1>10 DEF CopyLoader, Goto, FileNames, StoredInv, BuiltInv
<1>11. CASE WriteMeta
  BY <1>2, <1>7, <1>11 DEF WriteMeta, Goto, FileNames, StoredInv, BuiltInv,
                           Complete
<1>12. QED
  BY <1>3, <1>4, <1>5, <1>6, <1>8, <1>9, <1>10, <1>11
     DEF MaterializeFirst, Materialize

\* The steps around materialize that touch a deployment, a role or the ESP.
LEMMA DeployWhole ==
    ASSUME InstallTypeOK, StoredInv,
           \/ \E d \in Deployments : InstallDeploy(d)
           \/ CopyUkiToEsp \/ SetCurrent
    PROVE  StoredInv'
<1> USE DEF MaterializePc, StagePc
<1>1. ASSUME NEW d \in Deployments, InstallDeploy(d)
      PROVE  StoredInv'
  <2>1. /\ UNCHANGED <<file, holder, role, esp>>
        /\ d \notin dirs /\ dirs' = dirs \cup {d}
        /\ target' = d /\ pc' = "land"
    BY <1>1 DEF InstallDeploy, MayInstall, storeVars
  <2>2. \A e \in Deployments : Complete(e) => Complete(e)' /\ e # d
    BY <2>1 DEF Complete
  <2>3. role["current"] # None => role["current"] \in Deployments
    BY DEF InstallTypeOK, Roles
  <2>4. d \notin {role["current"], esp["current"]}
    BY <2>1, LayoutAssumption DEF StoredInv, NamedWhole, Complete
  <2>5. QED
    BY <2>1, <2>2, <2>3, <2>4
       DEF StoredInv, NamedWhole, HoldersExact, BuiltInv
<1>2. CASE CopyUkiToEsp
  <2>1. /\ UNCHANGED <<dirs, file, holder, role, target>>
        /\ pc = "stage" /\ pc' = "setCurrent"
        /\ esp' = [esp EXCEPT !["current"] = UkiOf(target)]
    BY <1>2 DEF CopyUkiToEsp, EspStep, CopyToEsp, Goto, storeVars
  <2>2. Complete(target) /\ target \in Deployments
    BY <2>1 DEF StoredInv, BuiltInv, InstallTypeOK, TryPc
  <2>3. esp'["current"] = target
    BY <2>1, <2>2 DEF Complete, UkiOf, FileNames, InstallTypeOK, Slots
  <2>4. QED
    BY <2>1, <2>2, <2>3
       DEF StoredInv, NamedWhole, HoldersExact, BuiltInv, Complete
<1>3. CASE SetCurrent
  <2>1. /\ UNCHANGED <<dirs, file, holder, esp, target>>
        /\ pc = "setCurrent" /\ pc' = "channel"
        /\ role' = [role EXCEPT !["current"] = target]
    BY <1>3 DEF SetCurrent, RoleStep, SetRole, Goto, storeVars
  <2>2. Complete(target) /\ esp["current"] = target /\ target \in Deployments
    BY <2>1 DEF StoredInv, BuiltInv, InstallTypeOK, TryPc
  <2>3. role'["current"] = target
    BY <2>1 DEF InstallTypeOK, Roles
  <2>4. QED
    BY <2>1, <2>2, <2>3
       DEF StoredInv, NamedWhole, HoldersExact, BuiltInv, Complete
<1>4. QED
  BY <1>1, <1>2, <1>3

LEMMA HalfDoneWhole ==
    ASSUME InstallTypeOK, StoredInv, HalfDone, pc' \in {"idle", "umountEfi"}
    PROVE  StoredInv'
<1> USE DEF MaterializePc, StagePc
<1>1. CASE UNCHANGED <<dirs, file, holder, role, esp>>
  BY <1>1, OutsideWhole
<1>2. CASE pc \in FileNames /\ WriteFile(pc, "torn")
  <2>1. /\ UNCHANGED <<dirs, holder, role, esp>>
        /\ file' = [file EXCEPT ![target][pc] = "torn"]
        /\ pc \in MaterializePc
    BY <1>2 DEF WriteFile, SetFile, storeVars, FileNames
  <2>2. \A d \in Deployments \ {target} : file'[d] = file[d]
    BY <2>1 DEF InstallTypeOK
  <2>3. target \notin {role["current"], esp["current"]}
    BY <2>1 DEF StoredInv, BuiltInv
  <2>4. \A d \in Deployments \ {target} : Complete(d) => Complete(d)'
    BY <2>1, <2>2 DEF Complete
  <2>5. role["current"] # None => role["current"] \in Deployments
    BY DEF InstallTypeOK, Roles
  <2>6. QED
    BY <2>1, <2>3, <2>4, <2>5
       DEF StoredInv, NamedWhole, HoldersExact, BuiltInv
<1>3. QED
  BY <1>1, <1>2 DEF HalfDone, Place, storeVars, layoutVars

LEMMA FailureWhole ==
    ASSUME InstallTypeOK, StoredInv, MatchInv,
           StepFails \/ DiskStepFails \/ Killed
    PROVE  StoredInv'
<1>1. Fault /\ pc' \in {"idle", "umountEfi"}
  BY DEF StepFails, DiskStepFails, Killed, LeaveTry, Goto, Finish
<1>2. pc' \notin MaterializePc \cup {"stage", "setCurrent"}
  BY <1>1 DEF MaterializePc, StagePc
<1>3. CASE UNCHANGED <<dirs, file, holder, role, esp>>
  BY <1>2, <1>3, OutsideWhole
<1>4. CASE pc = "mkfsBtrfs" /\ MakeBtrfs(None)
  BY <1>1, <1>4, BtrfsWhole DEF MatchInv
<1>5. QED
  BY <1>1, <1>3, <1>4, HalfDoneWhole, FatWhole
     DEF Fault, HalfInstalled, Repartition, storeVars, layoutVars

\* Every other step leaves the deployments, the roles and the ESP alone.
LEMMA OtherWhole ==
    ASSUME StoredInv,
           \/ \E o \in Calls : StartInstall(o)
           \/ Partition \/ MountTargets \/ UmountEfi \/ UmountSysroot
           \/ \E these \in {{}, Targets} : UserMounts(these)
           \/ \E i \in 1..3 : InitLayout(i)
           \/ LayoutDone
           \/ \E d \in Deployments : AlreadyInstalled(d)
           \/ SeedChannel \/ WriteLimineConf \/ InstallLimine
           \/ CreateNvramEntry
    PROVE  StoredInv'
<1> USE DEF MaterializePc, StagePc, Goto, storeVars, layoutVars, diskVars
<1>1. CASE \E o \in Calls : StartInstall(o)
  BY <1>1, OutsideWhole DEF StartInstall
<1>2. CASE Partition \/ MountTargets \/ UmountEfi \/ UmountSysroot
  BY <1>2, OutsideWhole
     DEF Partition, Repartition, MountTargets, UmountEfi, UmountSysroot,
         Remount, Finish
<1>3. CASE \E these \in {{}, Targets} : UserMounts(these)
  BY <1>3, OutsideWhole DEF UserMounts, procVars
<1>4. CASE \E i \in 1..3 : InitLayout(i)
  BY <1>4, OutsideWhole DEF InitLayout, procVars
<1>5. CASE LayoutDone \/ SeedChannel \/ InstallLimine
  BY <1>5, OutsideWhole DEF LayoutDone, SeedChannel, InstallLimine
<1>6. CASE \/ \E d \in Deployments : AlreadyInstalled(d)
           \/ WriteLimineConf \/ CreateNvramEntry
  BY <1>6, OutsideWhole
     DEF AlreadyInstalled, WriteLimineConf, CreateNvramEntry, LeaveTry, Finish
<1>7. QED
  BY <1>1, <1>2, <1>3, <1>4, <1>5, <1>6

\* The ESP is blank between the two mkfs and agrees with the roles from
\* set_role on; a failure claims no success.
LEMMA MatchKeeps ==
    ASSUME InstallTypeOK, WholeInv, InstallNext
    PROVE  MatchInv'
<1> USE DEF MatchInv, Goto
<1>1. ASSUME pc' \notin {"mkfsBtrfs", "channel", "conf", "limine", "nvram",
                         "idle", "umountEfi", "umountSysroot"}
      PROVE  MatchInv'
  BY <1>1
<1>2. CASE \E o \in Calls : StartInstall(o)
  BY <1>1, <1>2 DEF StartInstall
<1>3. CASE MaterializeFirst
  <2>1. pc' \in MaterializePc \cup {"stage"}
    BY <1>3 DEF MaterializeFirst, Materialize, PlaceObject, LinkHolder,
                FinishLanding, PlaceRootCfs, FinishLinking, CopyUki,
                CopyLoader, WriteMeta, procVars, MaterializePc, StagePc
  <2>2. QED
    BY <1>1, <2>1 DEF MaterializePc, StagePc
<1>4. CASE \/ Partition \/ FormatSysroot \/ MountTargets \/ LayoutDone
           \/ CopyUkiToEsp
           \/ \E i \in 1..3 : InitLayout(i)
           \/ \E d \in Deployments : InstallDeploy(d)
  BY <1>1, <1>4
     DEF Partition, FormatSysroot, MountTargets, Remount, LayoutDone,
         CopyUkiToEsp, InitLayout, InstallDeploy, procVars
<1>5. CASE StepFails \/ DiskStepFails \/ Killed
           \/ \E d \in Deployments : AlreadyInstalled(d)
  BY <1>5 DEF StepFails, DiskStepFails, Killed, AlreadyInstalled, LeaveTry,
              Finish
<1>6. CASE FormatEsp
  BY <1>6 DEF FormatEsp, MakeFat, Blank, Slots
<1>7. CASE SetCurrent
  <2>1. /\ pc = "setCurrent" /\ pc' = "channel" /\ UNCHANGED esp
        /\ role' = [role EXCEPT !["current"] = target]
    BY <1>7 DEF SetCurrent, RoleStep, SetRole
  <2>2. esp["current"] = target /\ target \in Deployments
    BY <2>1 DEF WholeInv, StoredInv, BuiltInv, InstallTypeOK, TryPc
  <2>3. role'["current"] = target /\ target # None
    BY <2>1, <2>2, LayoutAssumption DEF InstallTypeOK, Roles
  <2>4. QED
    BY <2>1, <2>2, <2>3
<1>8. CASE SeedChannel \/ WriteLimineConf \/ InstallLimine
           \/ CreateNvramEntry
  <2>1. /\ UNCHANGED <<role, esp>>
        /\ pc \in {"channel", "conf", "limine", "nvram"}
    BY <1>8 DEF SeedChannel, WriteLimineConf, InstallLimine,
                CreateNvramEntry, layoutVars, diskVars
  <2>2. pc' # "mkfsBtrfs"
    BY <1>8 DEF SeedChannel, WriteLimineConf, InstallLimine,
                CreateNvramEntry, LeaveTry, Finish
  <2>3. QED
    BY <2>1, <2>2 DEF WholeInv
<1>9. CASE \/ UmountEfi \/ UmountSysroot
           \/ \E these \in {{}, Targets} : UserMounts(these)
  <2>1. /\ UNCHANGED <<role, esp, ended>>
        /\ {pc, pc'} \subseteq {"idle", "umountEfi", "umountSysroot"}
    BY <1>9 DEF UmountEfi, UmountSysroot, UserMounts, Remount, Finish,
                diskVars, layoutVars, procVars
  <2>2. QED
    BY <2>1 DEF WholeInv
<1>10. QED
  BY <1>2, <1>3, <1>4, <1>5, <1>6, <1>7, <1>8, <1>9
     DEF InstallNext, InstallStep

LEMMA NextWhole ==
    InstallTypeOK /\ WholeInv /\ [InstallNext]_installVars => WholeInv'
<1> SUFFICES ASSUME InstallTypeOK, WholeInv, [InstallNext]_installVars
             PROVE  WholeInv'
  OBVIOUS
<1>1. CASE FormatEsp \/ FormatSysroot
  <2>1. StoredInv'
    BY <1>1, FatWhole, BtrfsWhole
       DEF FormatEsp, FormatSysroot, Goto, WholeInv, MatchInv
  <2>2. QED
    BY <1>1, <2>1, MatchKeeps DEF WholeInv, InstallNext, InstallStep
<1>2. CASE UNCHANGED installVars
  BY <1>2 DEF installVars, vars, storeVars, layoutVars, procVars, runVars,
              WholeInv, StoredInv, MatchInv, NamedWhole, HoldersExact,
              BuiltInv, Complete, Missing, Present
<1>3. CASE InstallNext /\ ~FormatEsp /\ ~FormatSysroot
  <2>1. StoredInv'
    BY <1>3, MaterializeWhole, DeployWhole, FailureWhole, OtherWhole
       DEF InstallNext, InstallStep, WholeInv
  <2>2. QED
    BY <1>3, <2>1, MatchKeeps DEF WholeInv
<1>4. QED
  BY <1>1, <1>2, <1>3

\* The deployment the current role names and the one whose UKI is on the ESP
\* are complete, through any number of failed, killed and repeated installs,
\* each of the two mkfs included, and the same after one that succeeds.
THEOREM CurrentStaysWhole == InstallSpec => []CurrentWhole
<1>1. InstallSpec => []WholeInv
  BY InstallTypes, WholeInit, NextWhole, PTL DEF InstallSpec
<1>2. WholeInv => CurrentWhole
  BY DEF WholeInv, StoredInv, MatchInv, NamedWhole, CurrentWhole
<1>3. QED
  BY <1>1, <1>2, PTL

----------------------------------------------------------------------------
(* What an install on a whole disk has written by the time it ends.  The   *)
(* disk is blank until the first deployment gets its directory; from then  *)
(* on the step says what is there, and everything else is still blank.     *)

\* The steps at which file f of the target is not written yet.
Before == [cfs |-> {"land", "cfs"},
           uki |-> {"land", "cfs", "link", "uki"},
           loader |-> {"land", "cfs", "link", "uki", "loader"},
           meta |-> MaterializePc]

BlankPc == {"mountSysroot", "mountEfi", "subvols", "source"}

TargetPc == TryPc \ {"subvols", "source"}

BlankEsp ==
    /\ conf = "none" /\ espLoader = "none"
    /\ \A s \in Slots : esp[s] = None

BlankDisk ==
    /\ BlankEsp
    /\ dirs = {} /\ channel = FALSE
    /\ \A o \in Objects : store[o] = "absent"
    /\ \A d \in Deployments :
          holder[d] = {} /\ \A f \in FileNames : file[d][f] = "none"
    /\ \A r \in Roles : role[r] = None

Written ==
    \A d \in Deployments, f \in FileNames :
        file[d][f] = IF /\ d = target /\ pc \notin Before[f]
                        /\ f = "loader" => d \in WithLoader
                     THEN "whole" ELSE "none"

OnlyTarget ==
    /\ dirs = {target}
    /\ \A o \in Objects :
          store[o] = "absent" \/ (store[o] = "sealed" /\ o \in Refs[target])
    /\ pc # "land" => Missing(target) = {}
    /\ pc = "loader" => target \in WithLoader
    /\ \A d \in Deployments \ {target} : holder[d] = {}
    /\ pc \notin {"land", "cfs", "link"} => holder[target] = Refs[target]
    /\ Written

NamesTarget ==
    /\ \A r \in Roles :
          role[r] = IF r = "current" /\ pc \in {"channel", "conf", "limine",
                                                "nvram"}
                    THEN target ELSE None
    /\ \A s \in Slots :
          esp[s] = IF s = "current" /\ pc \in {"setCurrent", "channel", "conf",
                                               "limine", "nvram"}
                   THEN target ELSE None

Configured ==
    /\ channel = (opts.ref /\ pc \in {"conf", "limine", "nvram"})
    /\ conf = IF pc \in {"limine", "nvram"} THEN "whole" ELSE "none"
    /\ espLoader = IF pc = "nvram" THEN "whole" ELSE "none"
    /\ pc \in {"limine", "nvram"} => opts.limine /\ target \in WithLoader

\* A host as DiskInstallWhole wants it.
Whole ==
    /\ InstalledHost(role["current"])
    /\ parts = Targets /\ label = [t \in Targets |-> opts.label]
    /\ subvols = Subvolumes /\ conf = "whole"
    /\ channel = opts.ref
    /\ espLoader = IF opts.limine /\ role["current"] \in WithLoader
                   THEN "whole" ELSE "none"

\* The table as this install wants it.
Labelling == parts = Targets /\ label = [t \in Targets |-> opts.label]

ProgressInv ==
    /\ pc \in {"mkfsFat", "mkfsBtrfs"} => parts = Targets
    /\ pc = "mkfsBtrfs" => BlankEsp /\ label["efi"] = opts.label
    /\ pc \in BlankPc => BlankDisk
    /\ pc \in {"mountSysroot", "mountEfi"} \cup TryPc => Labelling
    /\ pc \in TryPc \ {"subvols"} => subvols = Subvolumes
    /\ pc \in TargetPc => OnlyTarget /\ NamesTarget /\ Configured

DiskInv ==
    /\ pc \in (TryPc \cup DiskPc) \ {"umountEfi", "umountSysroot"}
          => ended = "none"
    /\ opts.disk /\ ended = "done" => Whole
    /\ opts.disk => ProgressInv

LEMMA DiskInit == InstallInit => DiskInv
BY DEF InstallInit, DiskInv, ProgressInv, TryPc, DiskPc, BlankPc, TargetPc,
       MaterializePc, StagePc

\* An install that has ended otherwise than by success, or that is about to
\* begin, has nothing to show.
LEMMA NothingToShow ==
    ASSUME ended' # "done",
           \/ pc' \in {"idle", "umountEfi", "umountSysroot"}
           \/ pc' \in {"partition", "subvols"} /\ ended' = "none"
              /\ (opts'.disk => pc' = "partition")
    PROVE  DiskInv'
BY DEF DiskInv, ProgressInv, TryPc, DiskPc, BlankPc, TargetPc, MaterializePc,
       StagePc

\* A success is still one when only its mounts change.
LEMMA WholeStays ==
    ASSUME DiskInv, UNCHANGED <<diskVars, opts, ended>>,
           pc' \in {"idle", "umountEfi", "umountSysroot"}
    PROVE  DiskInv'
BY DEF DiskInv, ProgressInv, TryPc, DiskPc, BlankPc, TargetPc, MaterializePc,
       StagePc, Whole, InstalledHost, diskVars, storeVars, layoutVars,
       extraVars, tableVars

LEMMA BlankProgress ==
    ASSUME InstallTypeOK, DiskInv,
           \/ Partition \/ FormatEsp \/ FormatSysroot \/ MountTargets
           \/ \E i \in 1..3 : InitLayout(i)
           \/ LayoutDone
    PROVE  DiskInv'
<1> USE DEF DiskInv, ProgressInv, TryPc, DiskPc, BlankPc, TargetPc,
            MaterializePc, StagePc, Goto, Labelling
<1>1. CASE Partition
  BY <1>1 DEF Partition, Repartition, runVars
<1>2. ASSUME UNCHANGED <<storeVars, layoutVars, conf, channel>>, BlankDisk
      PROVE  BlankDisk'
  BY <1>2 DEF BlankDisk, BlankEsp, storeVars, layoutVars
<1>3. CASE FormatEsp
  <2>1. /\ UNCHANGED <<parts, opts, ended>> /\ BlankEsp'
        /\ pc = "mkfsFat" /\ pc' = "mkfsBtrfs"
        /\ label' = [label EXCEPT !["efi"] = opts.label]
    BY <1>3 DEF FormatEsp, MakeFat, Blank, BlankEsp, runVars
  <2>2. label'["efi"] = opts.label
    BY <2>1 DEF InstallTypeOK, Targets
  <2>3. QED
    BY <2>1, <2>2
<1>4. CASE FormatSysroot
  <2>1. /\ UNCHANGED <<parts, opts, ended, esp, espLoader, conf>>
        /\ pc = "mkfsBtrfs" /\ pc' = "mountSysroot"
        /\ label' = [label EXCEPT !["sysroot"] = opts.label]
    BY <1>4 DEF FormatSysroot, MakeBtrfs, runVars
  <2>2. BlankEsp => BlankDisk'
    BY <1>4, <2>1
       DEF FormatSysroot, MakeBtrfs, Blank, BlankDisk, BlankEsp
  <2>3. ASSUME label["efi"] = opts.label
        PROVE  label' = [t \in Targets |-> opts.label]
    BY <2>1, <2>3 DEF InstallTypeOK, Targets
  <2>4. QED
    BY <2>1, <2>2, <2>3
<1>5. CASE MountTargets
  <2>1. /\ UNCHANGED <<storeVars, layoutVars, conf, channel, tableVars,
                       opts, ended>>
        /\ <<pc, pc'>> \in {<<"mountSysroot", "mountEfi">>,
                            <<"mountEfi", "subvols">>}
    BY <1>5 DEF MountTargets, Remount, diskVars, extraVars
  <2>2. QED
    BY <1>2, <2>1 DEF tableVars
<1>6. CASE \E i \in 1..3 : InitLayout(i)
  <2>1. /\ UNCHANGED <<storeVars, layoutVars, conf, channel, tableVars,
                       opts, ended, pc>>
        /\ pc = "subvols"
    BY <1>6 DEF InitLayout, runVars, procVars
  <2>2. QED
    BY <1>2, <2>1 DEF tableVars
<1>7. CASE LayoutDone
  <2>1. /\ UNCHANGED <<storeVars, layoutVars, conf, channel, tableVars,
                       subvols, opts, ended>>
        /\ pc = "subvols" /\ pc' = "source" /\ subvols = Subvolumes
    BY <1>7 DEF LayoutDone, runVars, diskVars, extraVars
  <2>2. QED
    BY <1>2, <2>1 DEF tableVars
<1>8. QED
  BY <1>1, <1>3, <1>4, <1>5, <1>6, <1>7

\* A step from one place where there is a target to another: what is left to
\* show is what it makes of the three parts.
LEMMA TargetProgress ==
    ASSUME DiskInv, pc \in TargetPc \cup {"source"}, pc' \in TargetPc,
           UNCHANGED <<tableVars, subvols, opts, ended>>,
           opts.disk => (OnlyTarget /\ NamesTarget /\ Configured)'
    PROVE  DiskInv'
<1>1. pc' \notin BlankPc /\ pc' \in TryPc \ {"subvols"}
  BY DEF TargetPc, BlankPc, TryPc, MaterializePc, StagePc
<1>2. pc \in TryPc \ {"subvols"}
  BY DEF TargetPc, TryPc
<1>3. ended' = "none"
  BY <1>2 DEF DiskInv, DiskPc, TryPc, MaterializePc, StagePc
<1>4. opts.disk => Labelling /\ subvols = Subvolumes
  BY <1>2 DEF DiskInv, ProgressInv
<1>5. QED
  BY <1>1, <1>3, <1>4
     DEF DiskInv, ProgressInv, Labelling, tableVars, TryPc, MaterializePc,
         StagePc

LEMMA DeployProgress ==
    ASSUME InstallTypeOK, DiskInv, NEW d \in Deployments, InstallDeploy(d)
    PROVE  DiskInv'
<1>1. /\ UNCHANGED <<store, holder, file, role, esp, espLoader, conf, channel,
                     tableVars, subvols, opts, ended>>
      /\ pc = "source" /\ pc' = "land" /\ target' = d
      /\ dirs' = dirs \cup {d}
  BY DEF InstallDeploy, storeVars, extraVars, runVars
<1>2. opts.disk => BlankDisk
  BY <1>1 DEF DiskInv, ProgressInv, BlankPc
<1>3. \A f \in FileNames : "land" \in Before[f]
  BY DEF Before, FileNames, MaterializePc, StagePc
<1>4. opts.disk => (OnlyTarget /\ NamesTarget /\ Configured)'
  BY <1>1, <1>2, <1>3
     DEF BlankDisk, BlankEsp, OnlyTarget, Written, NamesTarget, Configured
<1>5. QED
  BY <1>1, <1>4, TargetProgress DEF TargetPc, TryPc, MaterializePc, StagePc

\* The copy of file f, which takes the step past it and past no other.
LEMMA CopyWrites ==
    ASSUME InstallTypeOK, target \in Deployments, Written,
           NEW f \in FileNames, WriteFile(f, "whole"), target' = target,
           pc' \notin Before[f], f = "loader" => target \in WithLoader,
           \A g \in FileNames \ {f} :
               \/ pc \in Before[g] <=> pc' \in Before[g]
               \/ g = "loader" /\ target \notin WithLoader
    PROVE  Written'
<1>1. file' = [file EXCEPT ![target][f] = "whole"]
  BY DEF WriteFile, SetFile
<1>2. \A d \in Deployments, g \in FileNames :
          file'[d][g] = IF d = target /\ g = f THEN "whole" ELSE file[d][g]
  BY <1>1 DEF InstallTypeOK
<1>3. QED
  BY <1>2 DEF Written

\* A step that only moves on between two places where the same is written.
LEMMA SameWritten ==
    ASSUME Written, UNCHANGED <<file, target>>,
           \A f \in FileNames : pc \in Before[f] <=> pc' \in Before[f]
    PROVE  Written'
BY DEF Written

LEMMA MaterializeProgress ==
    ASSUME InstallTypeOK, WholeInv, DiskInv, MaterializeFirst
    PROVE  DiskInv'
<1> USE DEF MaterializePc, StagePc
<1>1. /\ pc \in MaterializePc /\ target \in Deployments
      /\ UNCHANGED <<extraVars, runVars>>
  BY DEF MaterializeFirst, InstallTypeOK, TryPc
<1>2. pc \in TargetPc /\ (opts.disk => OnlyTarget /\ NamesTarget /\ Configured)
  BY <1>1 DEF TargetPc, TryPc, DiskInv, ProgressInv
<1>3. /\ UNCHANGED <<target, role, esp, espLoader>>
      /\ pc' \in MaterializePc \cup {"stage"} /\ UNCHANGED dirs
  BY DEF MaterializeFirst, Materialize, PlaceObject, LinkHolder,
         FinishLanding, PlaceRootCfs, FinishLinking, CopyUki, CopyLoader,
         WriteMeta, WriteFile, Goto, procVars, layoutVars
<1>4. opts.disk => (NamesTarget /\ Configured)'
  BY <1>1, <1>2, <1>3 DEF NamesTarget, Configured, extraVars, runVars
<1>5. ASSUME opts.disk
      PROVE  OnlyTarget'
  <2>1. OnlyTarget
    BY <1>2, <1>5
  <2>2. ASSUME NEW o \in Objects, PlaceObject(o)
        PROVE  OnlyTarget'
    <3>1. /\ store' = [store EXCEPT ![o] = "sealed"] /\ o \in Refs[target]
          /\ UNCHANGED <<holder, file, pc>> /\ pc = "land"
      BY <2>2 DEF PlaceObject, Place, Missing, layoutVars, procVars
    <3>2. \A q \in Objects : store'[q] = IF q = o THEN "sealed" ELSE store[q]
      BY <3>1 DEF InstallTypeOK, StoreTypeOK
    <3>3. Written'
      BY <1>3, <2>1, <3>1, SameWritten DEF OnlyTarget
    <3>4. QED
      BY <1>3, <2>1, <3>1, <3>2, <3>3 DEF OnlyTarget
  <2>3. CASE FinishLanding
    <3>1. UNCHANGED <<store, holder, file>> /\ Missing(target) = {}
          /\ pc = "land" /\ pc' = "cfs"
      BY <2>3 DEF FinishLanding, Goto, storeVars, layoutVars
    <3>2. Written'
      BY <1>3, <2>1, <3>1, SameWritten DEF OnlyTarget, Before, FileNames
    <3>3. QED
      BY <1>3, <2>1, <3>1, <3>2 DEF OnlyTarget, Missing, Present
  <2>4. ASSUME NEW o \in Objects, LinkHolder(o)
        PROVE  OnlyTarget'
    <3>1. /\ holder' = [holder EXCEPT ![target] = @ \cup {o}]
          /\ UNCHANGED <<store, file, pc>> /\ pc = "link"
      BY <2>4 DEF LinkHolder, LinkObject, layoutVars, procVars
    <3>2. \A d \in Deployments \ {target} : holder'[d] = holder[d]
      BY <3>1 DEF InstallTypeOK, StoreTypeOK
    <3>3. Written'
      BY <1>3, <2>1, <3>1, SameWritten DEF OnlyTarget
    <3>4. QED
      BY <1>3, <2>1, <3>1, <3>2, <3>3 DEF OnlyTarget, Missing, Present
  <2>5. CASE FinishLinking
    <3>1. UNCHANGED <<store, holder, file>> /\ Linkable(target) = {}
          /\ pc = "link" /\ pc' = "uki"
      BY <2>5 DEF FinishLinking, Goto, storeVars, layoutVars
    <3>2. holder[target] = Refs[target]
      BY <1>1, <2>1, <3>1, LinkedWhole
         DEF OnlyTarget, WholeInv, StoredInv, HoldersExact
    <3>3. Written'
      BY <1>3, <2>1, <3>1, SameWritten DEF OnlyTarget, Before, FileNames
    <3>4. QED
      BY <1>3, <2>1, <3>1, <3>2, <3>3 DEF OnlyTarget, Missing, Present
  <2>6. ASSUME NEW f \in FileNames, WriteFile(f, "whole"), pc = f,
               \/ f = "cfs" /\ pc' = "link"
               \/ f = "uki" /\ pc' = IF target \in WithLoader
                                     THEN "loader" ELSE "meta"
               \/ f = "loader" /\ pc' = "meta"
               \/ f = "meta" /\ pc' = "stage"
        PROVE  OnlyTarget'
    <3>1. UNCHANGED <<store, holder>>
      BY <2>6 DEF WriteFile, storeVars
    <3>2. Written /\ (f = "loader" => target \in WithLoader)
      BY <2>1, <2>6 DEF OnlyTarget
    <3>3. pc' \notin Before[f]
      BY <2>6 DEF Before
    <3>4. \A g \in FileNames \ {f} :
              \/ pc \in Before[g] <=> pc' \in Before[g]
              \/ g = "loader" /\ target \notin WithLoader
      BY <2>6 DEF Before, FileNames
    <3>5. Written'
      BY <1>1, <1>3, <2>6, <3>2, <3>3, <3>4, CopyWrites
    <3>6. QED
      BY <1>3, <2>1, <2>6, <3>1, <3>5 DEF OnlyTarget, Missing, Present
  <2>7. CASE PlaceRootCfs \/ CopyUki \/ CopyLoader \/ WriteMeta
    BY <2>6, <2>7 DEF PlaceRootCfs, CopyUki, CopyLoader, WriteMeta, Goto,
                      FileNames
  <2>8. QED
    BY <2>2, <2>3, <2>4, <2>5, <2>7 DEF MaterializeFirst, Materialize
<1>6. pc' \in TargetPc
  BY <1>3 DEF TargetPc, TryPc
<1>7. QED
  BY <1>1, <1>2, <1>4, <1>5, <1>6, <1>3, TargetProgress
     DEF extraVars, runVars

\* Where nothing is left to write, the host is the one an update starts from.
LEMMA HostWhole ==
    ASSUME InstallTypeOK, target \in Deployments, OnlyTarget, NamesTarget,
           pc \in {"conf", "nvram"}
    PROVE  InstalledHost(target) /\ role["current"] = target
<1>1. \A o \in Objects :
          store[o] = IF o \in Refs[target] THEN "sealed" ELSE "absent"
  BY DEF OnlyTarget, Missing, Present
<1>2. \A d \in Deployments :
          holder[d] = IF d = target THEN Refs[target] ELSE {}
  BY DEF OnlyTarget
<1>3. \A f \in FileNames : pc \notin Before[f]
  BY DEF Before, FileNames, MaterializePc, StagePc
<1>4. \A d \in Deployments, f \in FileNames :
          file[d][f] = IF d = target /\ (f = "loader" => target \in WithLoader)
                       THEN "whole" ELSE "none"
  BY <1>3 DEF OnlyTarget, Written
<1>5. \A r \in Roles : role[r] = IF r = "current" THEN target ELSE None
  BY DEF NamesTarget
<1>6. \A s \in Slots : esp[s] = IF s = "current" THEN target ELSE None
  BY DEF NamesTarget
<1>7. store = [o \in Objects |->
                   IF o \in Refs[target] THEN "sealed" ELSE "absent"]
  BY <1>1 DEF InstallTypeOK, StoreTypeOK
<1>8. holder = [d \in Deployments |->
                   IF d = target THEN Refs[target] ELSE {}]
  BY <1>2 DEF InstallTypeOK, StoreTypeOK
<1>9. \A d \in Deployments :
          file[d] = [f \in FileNames |->
                        IF d = target
                           /\ (f = "loader" => target \in WithLoader)
                        THEN "whole" ELSE "none"]
  BY <1>4 DEF InstallTypeOK
<1>10. file = [d \in Deployments |-> [f \in FileNames |->
                  IF d = target /\ (f = "loader" => target \in WithLoader)
                  THEN "whole" ELSE "none"]]
  BY <1>9 DEF InstallTypeOK
<1>11. role = [r \in Roles |-> IF r = "current" THEN target ELSE None]
  BY <1>5 DEF InstallTypeOK
<1>12. esp = [s \in Slots |-> IF s = "current" THEN target ELSE None]
  BY <1>6 DEF InstallTypeOK
<1>13. dirs = {target} /\ swapTmp = None
  BY DEF OnlyTarget, InstallTypeOK
<1>14. QED
  BY <1>5, <1>7, <1>8, <1>10, <1>11, <1>12, <1>13 DEF InstalledHost, Roles

\* The steps between materialize and the end.
LEMMA SwitchProgress ==
    ASSUME InstallTypeOK, DiskInv, UNCHANGED <<extraVars, runVars>>,
           CopyUkiToEsp \/ SetCurrent
    PROVE  DiskInv'
<1> USE DEF MaterializePc, StagePc
<1>1. /\ UNCHANGED <<target, storeVars, dirs, file, espLoader>>
      /\ <<pc, pc'>> \in {<<"stage", "setCurrent">>,
                          <<"setCurrent", "channel">>}
  BY DEF CopyUkiToEsp, SetCurrent, EspStep, RoleStep, Goto
<1>2. /\ pc \in TargetPc /\ pc' \in TargetPc /\ target \in Deployments
      /\ opts.disk => OnlyTarget /\ NamesTarget /\ Configured
  BY <1>1 DEF TargetPc, TryPc, DiskInv, ProgressInv, InstallTypeOK
<1>3. ASSUME opts.disk
      PROVE  (OnlyTarget /\ NamesTarget /\ Configured)'
  <2>1. \A f \in FileNames : pc \notin Before[f] /\ pc' \notin Before[f]
    BY <1>1 DEF Before, FileNames
  <2>2. OnlyTarget'
    BY <1>1, <1>2, <1>3, <2>1, SameWritten
       DEF OnlyTarget, Missing, Present, storeVars
  <2>3. Configured'
    BY <1>1, <1>2, <1>3 DEF Configured, extraVars, runVars
  <2>4. CASE CopyUkiToEsp
    <3>1. /\ esp' = [esp EXCEPT !["current"] = UkiOf(target)]
          /\ UNCHANGED role /\ pc = "stage" /\ pc' = "setCurrent"
      BY <2>4 DEF CopyUkiToEsp, EspStep, CopyToEsp, Goto
    <3>2. UkiOf(target) = target
      BY <1>2, <1>3, <2>1 DEF OnlyTarget, Written, UkiOf, FileNames
    <3>3. \A s \in Slots : esp'[s] = IF s = "current" THEN target ELSE esp[s]
      BY <3>1, <3>2 DEF InstallTypeOK
    <3>4. NamesTarget'
      BY <1>1, <1>2, <1>3, <3>1, <3>3 DEF NamesTarget
    <3>5. QED
      BY <2>2, <2>3, <3>4
  <2>5. CASE SetCurrent
    <3>1. /\ role' = [role EXCEPT !["current"] = target]
          /\ UNCHANGED esp /\ pc = "setCurrent" /\ pc' = "channel"
      BY <2>5 DEF SetCurrent, RoleStep, SetRole, Goto
    <3>2. \A r \in Roles : role'[r] = IF r = "current" THEN target ELSE role[r]
      BY <3>1 DEF InstallTypeOK
    <3>3. NamesTarget'
      BY <1>1, <1>2, <1>3, <3>1, <3>2 DEF NamesTarget
    <3>4. QED
      BY <2>2, <2>3, <3>3
  <2>6. QED
    BY <2>4, <2>5
<1>4. QED
  BY <1>2, <1>3, TargetProgress DEF extraVars, runVars

LEMMA ConfigureProgress ==
    ASSUME InstallTypeOK, DiskInv,
           SeedChannel \/ WriteLimineConf \/ InstallLimine \/ CreateNvramEntry
    PROVE  DiskInv'
<1> USE DEF MaterializePc, StagePc
<1>1. /\ UNCHANGED <<storeVars, dirs, file, role, esp, swapTmp, tableVars,
                     subvols, opts>>
      /\ pc \in {"channel", "conf", "limine", "nvram"}
  BY DEF SeedChannel, WriteLimineConf, InstallLimine, CreateNvramEntry,
         LeaveTry, layoutVars, diskVars, extraVars, runVars
<1>2. /\ pc \in TargetPc /\ target \in Deployments
      /\ opts.disk => OnlyTarget /\ NamesTarget /\ Configured
                      /\ Labelling /\ subvols = Subvolumes
  BY <1>1 DEF TargetPc, TryPc, DiskInv, ProgressInv, InstallTypeOK
<1>3. ASSUME opts.disk, UNCHANGED target,
             pc' \in {"channel", "conf", "limine", "nvram"}
      PROVE  OnlyTarget' /\ NamesTarget'
  <2>1. \A f \in FileNames : pc \notin Before[f] /\ pc' \notin Before[f]
    BY <1>1, <1>3 DEF Before, FileNames
  <2>2. OnlyTarget'
    BY <1>1, <1>2, <1>3, <2>1, SameWritten
       DEF OnlyTarget, Missing, Present, storeVars
  <2>3. QED
    BY <1>1, <1>2, <1>3, <2>2 DEF NamesTarget
<1>4. CASE SeedChannel
  <2>1. /\ channel' = (channel \/ opts.ref) /\ UNCHANGED <<conf, espLoader>>
        /\ pc = "channel" /\ pc' = "conf" /\ UNCHANGED <<target, ended>>
    BY <1>4 DEF SeedChannel, Goto, layoutVars, runVars
  <2>2. opts.ref \in BOOLEAN
    BY InstallAssumption DEF InstallTypeOK, Options
  <2>3. opts.disk => Configured'
    BY <1>1, <1>2, <2>1, <2>2 DEF Configured
  <2>4. QED
    BY <1>1, <1>2, <1>3, <2>1, <2>3, TargetProgress DEF TargetPc, TryPc
<1>5. CASE InstallLimine
  <2>1. /\ espLoader' = "whole" /\ UNCHANGED <<conf, channel>>
        /\ pc = "limine" /\ pc' = "nvram" /\ UNCHANGED <<target, ended>>
    BY <1>5 DEF InstallLimine, Goto, extraVars, runVars
  <2>2. opts.disk => Configured'
    BY <1>1, <1>2, <2>1 DEF Configured
  <2>3. QED
    BY <1>1, <1>2, <1>3, <2>1, <2>2, TargetProgress DEF TargetPc, TryPc
<1>6. CASE WriteLimineConf /\ opts.limine /\ target \in WithLoader
  <2>1. /\ conf' = (IF conf = "none" THEN "whole" ELSE conf)
        /\ UNCHANGED <<channel, espLoader, target, ended>>
        /\ pc = "conf" /\ pc' = "limine"
    BY <1>6 DEF WriteLimineConf, Goto, layoutVars, runVars
  <2>2. opts.disk => Configured'
    BY <1>1, <1>2, <1>6, <2>1 DEF Configured
  <2>3. QED
    BY <1>1, <1>2, <1>3, <2>1, <2>2, TargetProgress DEF TargetPc, TryPc
<1>7. ASSUME pc \in {"conf", "nvram"}, ended' = "done",
             opts.disk => pc' = "umountEfi",
             UNCHANGED <<channel, espLoader>>,
             opts.disk => conf' = "whole",
             pc = "conf" => ~(opts.limine /\ target \in WithLoader),
             pc' \in {"idle", "umountEfi"}
      PROVE  DiskInv'
  <2>1. ASSUME opts.disk
        PROVE  Whole'
    <3>1. InstalledHost(target) /\ role["current"] = target
      BY <1>2, <1>7, <2>1, HostWhole
    <3>2. InstalledHost(role["current"])' /\ role'["current"] = target
      BY <1>1, <3>1 DEF InstalledHost, storeVars
    <3>3. /\ channel = opts.ref
          /\ espLoader = IF opts.limine /\ target \in WithLoader
                         THEN "whole" ELSE "none"
      <4>1. opts.ref \in BOOLEAN
        BY InstallAssumption DEF InstallTypeOK, Options
      <4>2. pc = "nvram" => opts.limine /\ target \in WithLoader
        BY <1>2, <2>1 DEF Configured
      <4>3. QED
        BY <1>2, <1>7, <2>1, <4>1, <4>2 DEF Configured
    <3>4. QED
      BY <1>1, <1>2, <1>7, <2>1, <3>2, <3>3 DEF Whole, Labelling, tableVars
  <2>2. QED
    BY <1>1, <1>7, <2>1
       DEF DiskInv, ProgressInv, TryPc, DiskPc, BlankPc, TargetPc
<1>8. CASE WriteLimineConf /\ ~(opts.limine /\ target \in WithLoader)
  <2>1. /\ conf' = (IF conf = "none" THEN "whole" ELSE conf)
        /\ UNCHANGED <<channel, espLoader>> /\ pc = "conf"
        /\ ended' = "done" /\ pc' = IF opts.disk THEN "umountEfi" ELSE "idle"
    BY <1>8 DEF WriteLimineConf, LeaveTry, Goto, Finish, layoutVars
  <2>2. opts.disk => conf' = "whole"
    BY <1>2, <2>1 DEF Configured
  <2>3. QED
    BY <1>7, <1>8, <2>1, <2>2
<1>9. CASE CreateNvramEntry
  <2>1. /\ UNCHANGED <<channel, espLoader, conf>> /\ pc = "nvram"
        /\ ended' = "done" /\ pc' = IF opts.disk THEN "umountEfi" ELSE "idle"
    BY <1>9 DEF CreateNvramEntry, LeaveTry, Goto, Finish, diskVars,
                layoutVars, extraVars
  <2>2. opts.disk => conf' = "whole"
    BY <1>2, <2>1 DEF Configured
  <2>3. QED
    BY <1>7, <2>1, <2>2
<1>10. QED
  BY <1>4, <1>5, <1>6, <1>8, <1>9

LEMMA OtherProgress ==
    ASSUME InstallTypeOK, DiskInv,
           \/ \E o \in Calls : StartInstall(o)
           \/ \E d \in Deployments : AlreadyInstalled(d)
           \/ StepFails \/ DiskStepFails \/ Killed
           \/ \E these \in {{}, Targets} : UserMounts(these)
           \/ UmountEfi \/ UmountSysroot
    PROVE  DiskInv'
<1>1. CASE \E o \in Calls : StartInstall(o)
  BY <1>1, NothingToShow DEF StartInstall, Goto
<1>2. CASE \/ \E d \in Deployments : AlreadyInstalled(d)
           \/ StepFails \/ DiskStepFails \/ Killed
  BY <1>2, NothingToShow
     DEF AlreadyInstalled, StepFails, DiskStepFails, Killed, LeaveTry, Goto,
         Finish
<1>3. CASE \/ \E these \in {{}, Targets} : UserMounts(these)
           \/ UmountEfi \/ UmountSysroot
  BY <1>3, WholeStays
     DEF UserMounts, UmountEfi, UmountSysroot, Remount, Goto, Finish, procVars
<1>4. QED
  BY <1>1, <1>2, <1>3

LEMMA NextProgress ==
    InstallTypeOK /\ WholeInv /\ DiskInv /\ [InstallNext]_installVars
        => DiskInv'
<1> SUFFICES ASSUME InstallTypeOK, WholeInv, DiskInv,
                    [InstallNext]_installVars
             PROVE  DiskInv'
  OBVIOUS
<1>1. CASE UNCHANGED installVars
  BY <1>1 DEF installVars, vars, storeVars, layoutVars, procVars, extraVars,
              tableVars, runVars, DiskInv, ProgressInv, Labelling, Whole,
              InstalledHost, BlankDisk, BlankEsp, OnlyTarget, Written,
              NamesTarget, Configured, Missing, Present
<1>2. QED
  BY <1>1, BlankProgress, DeployProgress, MaterializeProgress, SwitchProgress,
     ConfigureProgress, OtherProgress
     DEF InstallNext, InstallStep

\* An install that reports success on a whole disk has left the host that the
\* lifecycle starts from, with its subvolumes, limine.conf, channel and loader,
\* whatever the disk held before and however earlier installs on it ended.
THEOREM SuccessIsWhole == InstallSpec => []DiskInstallWhole
<1>1. InstallSpec => [](InstallTypeOK /\ WholeInv)
  BY InstallTypes, WholeInit, NextWhole, PTL DEF InstallSpec
<1>2. InstallSpec => []DiskInv
  BY <1>1, DiskInit, NextProgress, PTL DEF InstallSpec
<1>3. DiskInv => DiskInstallWhole
  BY DEF DiskInv, Whole, DiskInstallWhole
<1>4. QED
  BY <1>2, <1>3, PTL

----------------------------------------------------------------------------
(* Mounts.                                                                 *)

Released ==
    opts.disk /\ pc # "idle" /\ pc' = "idle" /\ mounted' # {}
    => ended' = "killed" \/ (pc \in DiskPc /\ aborts' > aborts)

\* A disk install gives the disk back: only a kill or a failure of the very
\* step that mounts or unmounts leaves a file system mounted when it ends.
THEOREM DiskGivenBack == InstallSpec => MountsReleased
<1>1. ASSUME InstallTypeOK, [InstallNext]_installVars
      PROVE  Released
  <2> USE DEF Released, Goto
  <2>1. CASE MaterializeFirst
    BY <2>1 DEF MaterializeFirst, Materialize, PlaceObject, LinkHolder,
                FinishLanding, PlaceRootCfs, FinishLinking, CopyUki,
                CopyLoader, WriteMeta, procVars
  <2>2. CASE \E o \in Calls : StartInstall(o)
    BY <2>2 DEF StartInstall
  <2>3. CASE Partition \/ FormatEsp \/ FormatSysroot \/ MountTargets
             \/ UmountEfi
    BY <2>3 DEF Partition, FormatEsp, FormatSysroot, MountTargets, UmountEfi,
                Remount
  <2>4. CASE UmountSysroot
    BY <2>4 DEF UmountSysroot
  <2>5. CASE \/ \E d \in Deployments : AlreadyInstalled(d)
             \/ WriteLimineConf \/ CreateNvramEntry \/ StepFails
    BY <2>5 DEF AlreadyInstalled, WriteLimineConf, CreateNvramEntry, StepFails,
                LeaveTry
  <2>6. CASE \/ \E i \in 1..3 : InitLayout(i)
             \/ \E d \in Deployments : InstallDeploy(d)
             \/ LayoutDone \/ CopyUkiToEsp \/ SetCurrent \/ SeedChannel
             \/ InstallLimine
    BY <2>6 DEF InitLayout, InstallDeploy, LayoutDone, CopyUkiToEsp,
                SetCurrent, SeedChannel, InstallLimine, procVars
  <2>7. CASE DiskStepFails
    <3>1. pc \in DiskPc /\ aborts' = aborts + 1 /\ aborts \in Nat
      BY <1>1, <2>7, LifecycleAssumption DEF DiskStepFails, Fault, InstallTypeOK
    <3>2. QED
      BY <3>1
  <2>8. CASE Killed
    BY <2>8 DEF Killed
  <2>9. CASE \E these \in {{}, Targets} : UserMounts(these)
    BY <2>9 DEF UserMounts
  <2>10. CASE UNCHANGED installVars
    BY <2>10 DEF installVars, vars, procVars
  <2>11. QED
    BY <1>1, <2>1, <2>2, <2>3, <2>4, <2>5, <2>6, <2>7, <2>8, <2>9, <2>10
       DEF InstallNext, InstallStep
<1>2. QED
  BY <1>1, InstallTypes, PTL DEF InstallSpec, MountsReleased, Released
=============================================================================
