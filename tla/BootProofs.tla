----------------------------- MODULE BootProofs -----------------------------
(***************************************************************************)
(* Theorems about the disk as installs and boots take turns on it, for     *)
(* every set of deployments and factory files, every number of tries and   *)
(* any number of failures.  They rest on the step lemmas of InstallProofs. *)
(***************************************************************************)
EXTENDS Boot, InstallProofs

\* What a boot and the system it starts may change: /var, what is mounted, the
\* kernel's own state and the count of failures.
BootFrame ==
    /\ UNCHANGED <<storeVars, layoutVars, procVars>>
    /\ UNCHANGED <<tableVars, subvols, conf, channel, opts, ended>>
    /\ mounted' \in {mounted, {}}
    /\ aborts' \in {aborts, aborts + 1} /\ aborts' \in 0..MaxAborts
    /\ var' \in [VarNames -> VarContent]

\* The steps of BootNext but those of an install.
BootStep ==
    \/ \E slot \in Slots : PowerOn(slot)
    \/ \E x \in Devices : Appear(x)
    \/ InitStep
    \/ MountFails \/ CopyFails \/ PowerCut \/ PowerOff
    \/ \E f \in FactoryFiles : UserEdits(f)
    \/ FactoryReset

LEMMA StillFrames ==
    ASSUME InstallTypeOK, Still
    PROVE  BootFrame /\ booted' = booted
BY DEF Still, installVars, vars, extraVars, runVars, BootFrame, InstallTypeOK

LEMMA WriteFrames ==
    ASSUME InstallTypeOK, NEW f \in VarNames, NEW content \in VarContent,
           WriteVar(f, content), aborts' \in {aborts, aborts + 1},
           aborts' \in 0..MaxAborts
    PROVE  BootFrame /\ booted' = booted
BY DEF WriteVar, BootFrame, InstallTypeOK, runVars

LEMMA StepFrames ==
    ASSUME InstallTypeOK, BootStep
    PROVE  BootFrame
<1> USE DEF VarNames, VarContent
<1>1. CASE \E slot \in Slots : PowerOn(slot)
  BY <1>1 DEF PowerOn, BootFrame, InstallTypeOK, diskVars, extraVars
<1>2. CASE Still
  BY <1>2, StillFrames
<1>3. CASE \E f \in FactoryFiles : SeedFile(f) \/ UserEdits(f)
  <2>1. PICK f \in FactoryFiles : SeedFile(f) \/ UserEdits(f)
    BY <1>3
  <2>2. /\ f \in VarNames /\ aborts' = aborts /\ aborts \in 0..MaxAborts
        /\ \E content \in VarContent : WriteVar(f, content)
    BY <2>1 DEF SeedFile, UserEdits, InstallTypeOK
  <2>3. QED
    BY <2>2, WriteFrames
<1>4. CASE MountEtc
  <2>1. /\ "lib/etc" \in VarNames /\ "factory" \in VarContent
        /\ WriteVar("lib/etc", "factory")
        /\ aborts' = aborts /\ aborts \in 0..MaxAborts
    BY <1>4 DEF MountEtc, InstallTypeOK
  <2>2. QED
    BY <2>1, WriteFrames
<1>5. ASSUME BootFault
      PROVE  aborts' = aborts + 1 /\ aborts' \in 0..MaxAborts
  BY <1>5, LifecycleAssumption DEF BootFault, InstallTypeOK
<1>6. CASE MountFails
  <2>1. \/ UNCHANGED <<diskVars, procVars, booted, runVars>>
        \/ WriteVar("lib/etc", "factory")
    BY <1>6 DEF MountFails
  <2>2. CASE UNCHANGED <<diskVars, procVars, booted, runVars>>
    BY <1>5, <1>6, <2>2
       DEF MountFails, BootFrame, InstallTypeOK, diskVars, extraVars, runVars
  <2>3. CASE WriteVar("lib/etc", "factory")
    BY <1>5, <1>6, <2>3, WriteFrames DEF MountFails
  <2>4. QED
    BY <2>1, <2>2, <2>3
<1>7. CASE CopyFails \/ PowerCut
  <2>1. BootFault /\ HalfSeeded
    BY <1>7 DEF CopyFails, PowerCut
  <2>2. CASE \E f \in FactoryFiles : WriteVar(f, "torn")
    BY <1>5, <2>1, <2>2, WriteFrames
  <2>3. CASE UNCHANGED <<diskVars, procVars, booted, runVars>>
    BY <1>5, <2>1, <2>3
       DEF BootFrame, InstallTypeOK, diskVars, extraVars, runVars
  <2>4. QED
    BY <2>1, <2>2, <2>3 DEF HalfSeeded
<1>8. CASE FactoryReset
  BY <1>8 DEF FactoryReset, BootFrame, InstallTypeOK, runVars
<1>9. QED
  BY <1>1, <1>2, <1>3, <1>4, <1>6, <1>7, <1>8
     DEF BootStep, Appear, InitStep, Found, Sleep, FindLoop, MountBootDevice,
         MountRoot, MountEsp, MountState, CheckVar, SeedDone, PowerOff, At

LEMMA FrameKeeps ==
    ASSUME InstallTypeOK, BootFrame
    PROVE  InstallTypeOK'
BY DEF BootFrame, InstallTypeOK, StoreTypeOK, storeVars, layoutVars, procVars,
       tableVars

\* An install leaves /var alone or makes a new btrfs, boots nothing and forgets
\* no failure.
LEMMA InstallFrames ==
    ASSUME InstallTypeOK, InstallNext
    PROVE  /\ booted' = booted
           /\ var' = var \/ var' = [f \in VarNames |-> "none"]
           /\ aborts' \in {aborts, aborts + 1}
<1> USE DEF Quiet, extraVars, diskVars
<1>1. CASE \E o \in Calls : StartInstall(o)
  BY <1>1 DEF StartInstall
<1>2. CASE Partition \/ FormatEsp \/ FormatSysroot
  BY <1>2 DEF Partition, Repartition, FormatEsp, MakeFat, FormatSysroot,
              MakeBtrfs, Blank
<1>3. CASE MountTargets \/ UmountEfi \/ UmountSysroot
  BY <1>3 DEF MountTargets, UmountEfi, UmountSysroot, Remount
<1>4. CASE \E i \in 1..3 : InitLayout(i)
  BY <1>4 DEF InitLayout
<1>5. CASE \E d \in Deployments : AlreadyInstalled(d) \/ InstallDeploy(d)
  BY <1>5 DEF AlreadyInstalled, InstallDeploy
<1>6. CASE MaterializeFirst
  BY <1>6 DEF MaterializeFirst, Materialize, PlaceObject, LinkHolder,
              FinishLanding, PlaceRootCfs, FinishLinking, CopyUki, CopyLoader,
              WriteMeta
<1>7. CASE (CopyUkiToEsp \/ SetCurrent) /\ UNCHANGED <<extraVars, runVars>>
  BY <1>7 DEF CopyUkiToEsp, SetCurrent, EspStep, RoleStep
<1>8. CASE LayoutDone \/ SeedChannel \/ WriteLimineConf \/ InstallLimine
           \/ CreateNvramEntry
  BY <1>8 DEF LayoutDone, SeedChannel, WriteLimineConf, InstallLimine,
              CreateNvramEntry
<1>9. CASE StepFails \/ DiskStepFails \/ Killed
  <2>1. Fault
    BY <1>9 DEF StepFails, DiskStepFails, Killed
  <2>2. var' = var \/ var' = [f \in VarNames |-> "none"]
    BY <2>1 DEF Fault, HalfInstalled, Repartition, MakeFat, MakeBtrfs, Blank
  <2>3. QED
    BY <2>1, <2>2 DEF Fault
<1>10. CASE \E these \in {{}, Targets} : UserMounts(these)
  BY <1>10 DEF UserMounts
<1>11. QED
  BY <1>1, <1>2, <1>3, <1>4, <1>5, <1>6, <1>7, <1>8, <1>9, <1>10
     DEF InstallNext, InstallStep

LEMMA TriesOK ==
    DriverTries \in 0..DriverTries /\ DeviceTries \in 0..DeviceTries
BY BootAssumption

LEMMA StepBootTypeOK ==
    ASSUME InstallTypeOK, BootTypeOK, BootStep
    PROVE  BootTypeOK'
<1> USE TriesOK, BootAssumption DEF BootTypeOK, InitStages, Devices, Become
<1>1. pc' = pc
  BY StepFrames DEF BootFrame, procVars
<1>2. ASSUME NEW next \in {"off", "running", "shell"}, Leave(next),
             booted' = booted, next # "off" => stage # "off"
      PROVE  BootTypeOK'
  BY <1>1, <1>2 DEF Leave
<1>3. CASE \E slot \in Slots : PowerOn(slot)
  BY <1>1, <1>3 DEF PowerOn, Findable
<1>4. CASE \E x \in Devices : Appear(x)
  BY <1>1, <1>4, StillFrames DEF Appear, Findable
<1>5. ASSUME NEW x \in DOMAIN Retried, Found(x) \/ Sleep(x)
      PROVE  BootTypeOK'
  <2>1. booted' = booted /\ stage = x /\ x \in {"erofs", "overlay", "btrfs"}
    BY <1>5, StillFrames DEF Found, Sleep, At, Retried
  <2>2. CASE Found(x)
    <3>1. stage' \in {"overlay", "loop", "mount"}
      BY <2>1, <2>2 DEF Found, Retried
    <3>2. tries' \in {DriverTries, DeviceTries} /\ ready' = ready
      BY <2>2 DEF Found, Budget
    <3>3. stage # "off"
      BY <2>1
    <3>4. QED
      BY <1>1, <2>1, <3>1, <3>2, <3>3
  <2>3. CASE Sleep(x)
    <3>1. CASE tries > 1
      <4>1. tries' = tries - 1 /\ stage' = stage /\ ready' = ready
        BY <2>3, <3>1 DEF Sleep
      <4>2. tries' \in 0..DriverTries \cup 0..DeviceTries
        BY <3>1, <4>1
      <4>3. QED
        BY <1>1, <2>1, <4>1, <4>2
    <3>2. CASE ~(tries > 1)
      <4>1. Leave("shell") /\ stage # "off"
        BY <2>1, <2>3, <3>2 DEF Sleep
      <4>2. QED
        BY <1>2, <2>1, <4>1
    <3>3. QED
      BY <3>1, <3>2
  <2>4. QED
    BY <1>5, <2>2, <2>3
<1>6. CASE FindLoop
  BY <1>1, <1>2, <1>6, StillFrames DEF FindLoop, At
<1>7. CASE MountBootDevice \/ MountRoot \/ MountEsp \/ MountState \/ CheckVar
           \/ SeedDone
  BY <1>1, <1>2, <1>7, StillFrames
     DEF MountBootDevice, MountRoot, MountEsp, MountState, CheckVar, SeedDone,
         At
<1>8. CASE \E f \in FactoryFiles : SeedFile(f) \/ UserEdits(f)
  BY <1>1, <1>8 DEF SeedFile, UserEdits, WriteVar, bootVars
<1>9. CASE MountEtc
  BY <1>2, <1>9 DEF MountEtc, WriteVar
<1>10. CASE MountFails
  BY <1>2, <1>10 DEF MountFails, WriteVar
<1>11. CASE CopyFails \/ PowerCut
  BY <1>1, <1>2, <1>11 DEF CopyFails, PowerCut, HalfSeeded, WriteVar
<1>12. CASE PowerOff
  BY <1>2, <1>12, StillFrames DEF PowerOff
<1>13. CASE FactoryReset
  BY <1>1, <1>13 DEF FactoryReset, bootVars
<1>14. QED
  BY <1>3, <1>4, <1>5, <1>6, <1>7, <1>8, <1>9, <1>10, <1>11, <1>12, <1>13
     DEF BootStep, InitStep

LEMMA BootNextTypeOK ==
    ASSUME InstallTypeOK, BootTypeOK, [BootNext]_machineVars
    PROVE  InstallTypeOK' /\ BootTypeOK'
<1>1. CASE BootStep
  BY <1>1, StepFrames, FrameKeeps, StepBootTypeOK
<1>2. CASE stage = "off" /\ InstallNext /\ UNCHANGED bootVars
  <2>1. InstallTypeOK' /\ booted' = booted
    BY <1>2, NextTypeOK, InstallFrames
  <2>2. QED
    BY <1>2, <2>1 DEF bootVars, BootTypeOK
<1>3. CASE UNCHANGED machineVars
  <2>1. InstallTypeOK'
    BY <1>3, NextTypeOK DEF machineVars
  <2>2. UNCHANGED <<stage, tries, ready, booted, pc>>
    BY <1>3 DEF machineVars, bootVars, installVars, vars, procVars
  <2>3. QED
    BY <2>1, <2>2 DEF BootTypeOK
<1>4. QED
  BY <1>1, <1>2, <1>3 DEF BootNext, BootStep

LEMMA TypesInvariant == BootSpec => []MachineTypeOK
<1>1. BootInit => MachineTypeOK
  <2> SUFFICES ASSUME BootInit PROVE MachineTypeOK
    OBVIOUS
  <2>1. InstallTypeOK /\ booted = None
    BY InstallInitTypeOK DEF BootInit, InstallInit
  <2>2. QED
    BY <2>1, BootAssumption DEF BootInit, MachineTypeOK, BootTypeOK
<1>2. MachineTypeOK /\ [BootNext]_machineVars => MachineTypeOK'
  BY BootNextTypeOK DEF MachineTypeOK
<1>3. QED
  BY <1>1, <1>2, PTL DEF BootSpec

\* The disk and the machine stay inside their types: whatever power-ups and
\* failures do, init is in one of its steps and the tries within their budget.
THEOREM MachineTypes == BootSpec => []MachineTypeOK
BY TypesInvariant

\* Between installs the disk keeps what the last one has left, but for /var.
LEMMA DiskInvariant == BootSpec => [](WholeInv /\ DiskInv)
<1>1. BootInit => WholeInv /\ DiskInv
  BY WholeInit, DiskInit DEF BootInit
<1>2. MachineTypeOK /\ WholeInv /\ DiskInv /\ [BootNext]_machineVars
          => WholeInv' /\ DiskInv'
  <2> SUFFICES ASSUME MachineTypeOK, WholeInv, DiskInv, [BootNext]_machineVars
               PROVE  WholeInv' /\ DiskInv'
    OBVIOUS
  <2>1. CASE BootStep
    <3>1. UNCHANGED <<storeVars, layoutVars, procVars>>
          /\ UNCHANGED <<tableVars, subvols, conf, channel, opts, ended>>
      BY <2>1, StepFrames DEF MachineTypeOK, BootFrame
    <3>2. WholeInv'
      BY <3>1 DEF storeVars, layoutVars, procVars, WholeInv, StoredInv,
                  MatchInv, NamedWhole, HoldersExact, BuiltInv, Complete,
                  Missing, Present
    <3>3. DiskInv'
      BY <3>1 DEF storeVars, layoutVars, procVars, tableVars, DiskInv,
                  ProgressInv, Labelling, Whole, InstalledHost, BlankDisk,
                  BlankEsp, OnlyTarget, Written, NamesTarget,
                  Configured, Missing, Present
    <3>4. QED
      BY <3>2, <3>3
  <2>2. CASE [InstallNext]_installVars
    BY <2>2, NextWhole, NextProgress DEF MachineTypeOK
  <2>3. QED
    BY <2>1, <2>2 DEF BootNext, BootStep, machineVars
<1>3. QED
  BY <1>1, <1>2, TypesInvariant, PTL DEF BootSpec

\* What the current role names and what is on the ESP are complete whatever
\* cut installs and boots take turns on the disk.
THEOREM BootsCurrentWhole == BootSpec => []CurrentWhole
<1>1. WholeInv => CurrentWhole
  BY DEF WholeInv, StoredInv, MatchInv, NamedWhole, CurrentWhole
<1>2. QED
  BY <1>1, DiskInvariant, PTL

\* A host that a disk install has reported as done stays one the lifecycle
\* starts from through boots, cut short or not, and factory resets.
THEOREM BootsKeepHost == BootSpec => []DiskInstallWhole
<1>1. DiskInv => DiskInstallWhole
  BY DEF DiskInv, Whole, DiskInstallWhole
<1>2. QED
  BY <1>1, DiskInvariant, PTL

----------------------------------------------------------------------------
(* /var.  As long as nothing failed it is empty, being seeded, or seeded;  *)
(* and the copy never meets a file that somebody has edited.               *)

Seeded == \A f \in FactoryFiles : var[f] \in {"factory", "edited"}

SeedInv ==
    aborts = 0 =>
       /\ stage \in {"etc", "running"} => Seeded
       /\ VarEmpty \/ Seeded \/ stage = "copy"

EditInv ==
    /\ var["lib/etc"] # "edited"
    /\ stage = "copy" => \A f \in VarNames : var[f] # "edited"

VarInv == SeedInv /\ EditInv

\* What a step of an install or a factory reset makes of /var.
LEMMA BlankVar ==
    ASSUME InstallTypeOK, VarInv, stage' = "off", stage = "off",
           var' = var \/ var' = [f \in VarNames |-> "none"],
           aborts' \in {aborts, aborts + 1}
    PROVE  VarInv'
<1>1. aborts' = 0 => aborts = 0
  BY LifecycleAssumption DEF InstallTypeOK
<1>2. CASE var' = var
  BY <1>1, <1>2 DEF VarInv, SeedInv, EditInv, Seeded, VarEmpty
<1>3. CASE var' = [f \in VarNames |-> "none"]
  BY <1>3 DEF VarInv, SeedInv, EditInv, Seeded, VarEmpty, VarNames
<1>4. QED
  BY <1>2, <1>3

\* A step that leaves /var alone and neither copies nor has copied.
LEMMA SameVar ==
    ASSUME InstallTypeOK, VarInv, var' = var,
           aborts' \in {aborts, aborts + 1},
           stage' \notin {"copy", "etc", "running"},
           stage = "copy" => aborts' = aborts + 1
    PROVE  VarInv'
<1>1. aborts' = 0 => aborts = 0 /\ stage # "copy"
  BY LifecycleAssumption DEF InstallTypeOK
<1>2. QED
  BY <1>1 DEF VarInv, SeedInv, EditInv, Seeded, VarEmpty

LEMMA WrittenVar ==
    ASSUME InstallTypeOK, NEW f \in VarNames, NEW content,
           WriteVar(f, content)
    PROVE  /\ var'[f] = content
           /\ \A g \in VarNames \ {f} : var'[g] = var[g]
BY DEF WriteVar, InstallTypeOK

LEMMA CopyVar ==
    ASSUME InstallTypeOK, BootTypeOK, VarInv,
           \/ CheckVar \/ SeedDone \/ MountEtc
           \/ \E f \in FactoryFiles : SeedFile(f) \/ UserEdits(f)
    PROVE  VarInv'
<1> USE BootAssumption DEF VarInv, VarNames
<1>1. CASE CheckVar
  <2>1. var' = var /\ aborts' = aborts /\ stage = "seed"
    BY <1>1 DEF CheckVar, At, Still, installVars, vars, extraVars
  <2>2. CASE VarEmpty
    <3>1. stage' = "copy"
      BY <1>1, <2>2 DEF CheckVar, Become
    <3>2. QED
      BY <2>1, <2>2, <3>1 DEF SeedInv, EditInv, VarEmpty
  <2>3. CASE ~VarEmpty
    <3>1. stage' = "etc"
      BY <1>1, <2>3 DEF CheckVar, Become
    <3>2. QED
      BY <2>1, <2>3, <3>1 DEF SeedInv, EditInv, Seeded, VarEmpty
  <2>4. QED
    BY <2>2, <2>3
<1>2. CASE SeedDone
  <2>1. /\ var' = var /\ aborts' = aborts /\ stage = "copy" /\ stage' = "etc"
        /\ Seeded
    BY <1>2 DEF SeedDone, At, Become, Still, installVars, vars, extraVars,
                Seeded
  <2>2. QED
    BY <2>1 DEF SeedInv, EditInv, Seeded
<1>3. CASE MountEtc
  <2>1. /\ stage = "etc" /\ stage' = "running" /\ aborts' = aborts
        /\ WriteVar("lib/etc", "factory") /\ "lib/etc" \in VarNames
    BY <1>3 DEF MountEtc, Leave
  <2>2. var'["lib/etc"] = "factory" /\ \A f \in FactoryFiles : var'[f] = var[f]
    BY <2>1, WrittenVar
  <2>3. QED
    BY <2>1, <2>2 DEF SeedInv, EditInv, Seeded
<1>4. ASSUME NEW f \in FactoryFiles, SeedFile(f)
      PROVE  VarInv'
  <2>1. /\ stage = "copy" /\ stage' = "copy" /\ WriteVar(f, "factory")
        /\ f \in VarNames /\ f # "lib/etc"
    BY <1>4 DEF SeedFile, bootVars
  <2>2. var'[f] = "factory" /\ \A g \in VarNames \ {f} : var'[g] = var[g]
    BY <2>1, WrittenVar
  <2>3. QED
    BY <2>1, <2>2 DEF SeedInv, EditInv
<1>5. ASSUME NEW f \in FactoryFiles, UserEdits(f)
      PROVE  VarInv'
  <2>1. /\ stage = "running" /\ stage' = "running" /\ aborts' = aborts
        /\ WriteVar(f, "edited") /\ f \in VarNames /\ f # "lib/etc"
    BY <1>5 DEF UserEdits, bootVars
  <2>2. var'[f] = "edited" /\ \A g \in VarNames \ {f} : var'[g] = var[g]
    BY <2>1, WrittenVar
  <2>3. QED
    BY <2>1, <2>2 DEF SeedInv, EditInv, Seeded
<1>6. QED
  BY <1>1, <1>2, <1>3, <1>4, <1>5

LEMMA FailedVar ==
    ASSUME InstallTypeOK, VarInv, CopyFails \/ PowerCut
    PROVE  VarInv'
<1> USE BootAssumption DEF VarNames
<1>1. aborts' # 0 /\ stage' \in {"etc", "off"}
  BY LifecycleAssumption
     DEF CopyFails, PowerCut, BootFault, Become, Leave, InstallTypeOK
<1>2. var'["lib/etc"] = var["lib/etc"]
  <2>1. CASE var' = var
    BY <2>1
  <2>2. ASSUME NEW f \in FactoryFiles, WriteVar(f, "torn")
        PROVE  var'["lib/etc"] = var["lib/etc"]
    BY <2>2, WrittenVar
  <2>3. QED
    BY <2>1, <2>2 DEF CopyFails, PowerCut, HalfSeeded, diskVars, extraVars
<1>3. QED
  BY <1>1, <1>2 DEF VarInv, SeedInv, EditInv

LEMMA StepVar ==
    ASSUME InstallTypeOK, BootTypeOK, VarInv, BootStep
    PROVE  VarInv'
<1>1. ASSUME Still
      PROVE  var' = var /\ aborts' = aborts
  BY <1>1 DEF Still, installVars, vars, extraVars
<1>2. CASE \E slot \in Slots : PowerOn(slot)
  BY <1>2, SameVar DEF PowerOn, diskVars, extraVars
<1>3. CASE \E x \in Devices : Appear(x)
  BY <1>1, <1>3
     DEF Appear, VarInv, SeedInv, EditInv, Seeded, VarEmpty
<1>4. ASSUME NEW x \in DOMAIN Retried, Found(x) \/ Sleep(x)
      PROVE  VarInv'
  <2>1. /\ x \in {"erofs", "overlay", "btrfs"} /\ stage = x
        /\ var' = var /\ aborts' = aborts
    BY <1>1, <1>4 DEF Found, Sleep, At, Retried
  <2>2. stage' \in {x, "shell", "overlay", "loop", "mount"}
    BY <1>4, <2>1 DEF Found, Sleep, Retried, Leave
  <2>3. QED
    BY <2>1, <2>2, SameVar
<1>5. CASE FindLoop \/ MountBootDevice \/ MountRoot \/ MountEsp \/ MountState
           \/ PowerOff
  <2>1. /\ var' = var /\ aborts' = aborts /\ stage # "copy"
        /\ stage' \notin {"copy", "etc", "running"}
    BY <1>1, <1>5
       DEF FindLoop, MountBootDevice, MountRoot, MountEsp, MountState, PowerOff,
           At, Become, Leave
  <2>2. QED
    BY <2>1, SameVar
<1>6. CASE MountFails
  <2>1. aborts' = aborts + 1 /\ stage' = "shell" /\ stage # "copy"
    BY <1>6 DEF MountFails, BootFault, Leave
  <2>2. CASE var' = var
    BY <2>1, <2>2, SameVar
  <2>3. CASE WriteVar("lib/etc", "factory")
    <3>1. aborts' # 0 /\ var'["lib/etc"] = "factory"
      BY <2>1, <2>3, WrittenVar, LifecycleAssumption
         DEF InstallTypeOK, VarNames
    <3>2. QED
      BY <2>1, <3>1 DEF VarInv, SeedInv, EditInv
  <2>4. QED
    BY <1>6, <2>2, <2>3 DEF MountFails, diskVars, extraVars
<1>7. CASE FactoryReset
  <2>1. /\ stage = "off" /\ stage' = "off" /\ aborts' = aborts
        /\ var' = [f \in VarNames |-> "none"]
    BY <1>7 DEF FactoryReset, bootVars
  <2>2. QED
    BY <2>1, BlankVar
<1>8. QED
  BY <1>2, <1>3, <1>4, <1>5, <1>6, <1>7, CopyVar, FailedVar
     DEF BootStep, InitStep

LEMMA NextVar ==
    ASSUME InstallTypeOK, BootTypeOK, VarInv, [BootNext]_machineVars
    PROVE  VarInv'
<1>1. CASE BootStep
  BY <1>1, StepVar
<1>2. CASE stage = "off" /\ InstallNext /\ UNCHANGED bootVars
  BY <1>2, InstallFrames, BlankVar DEF bootVars
<1>3. CASE UNCHANGED machineVars
  <2>1. UNCHANGED <<var, aborts, stage>>
    BY <1>3 DEF machineVars, bootVars, installVars, vars, extraVars
  <2>2. QED
    BY <2>1 DEF VarInv, SeedInv, EditInv, Seeded, VarEmpty
<1>4. QED
  BY <1>1, <1>2, <1>3 DEF BootNext, BootStep

LEMMA VarInvariant == BootSpec => [](MachineTypeOK /\ VarInv)
<1>1. BootInit => VarInv
  BY DEF BootInit, InstallInit, Blank, VarInv, SeedInv, EditInv, VarEmpty,
         VarNames
<1>2. MachineTypeOK /\ VarInv /\ [BootNext]_machineVars => VarInv'
  BY NextVar DEF MachineTypeOK
<1>3. QED
  BY <1>1, <1>2, TypesInvariant, PTL DEF BootSpec

\* A system that runs has all of its factory files unless something failed
\* before: the first boot, the boot after an install and the boot after a
\* factory reset all seed what they must.
THEOREM RunningIsSeeded == BootSpec => []SeedWhole
<1>1. MachineTypeOK /\ VarInv => SeedWhole
  BY DEF VarInv, SeedInv, Seeded, SeedWhole
<1>2. QED
  BY <1>1, VarInvariant, PTL

\* Nobody but a reset of /var or a new btrfs takes an edited file away.
THEOREM EditsStay == BootSpec => EditsKept
<1> DEFINE Kept == \A f \in VarNames :
                      var[f] = "edited" /\ var'[f] # "edited" =>
                         \A g \in VarNames : var'[g] = "none"
<1>1. ASSUME MachineTypeOK, VarInv, [BootNext]_machineVars
      PROVE  Kept
  <2> InstallTypeOK
    BY <1>1 DEF MachineTypeOK
  <2>1. CASE var' = var \/ var' = [f \in VarNames |-> "none"]
    BY <2>1
  <2>2. ASSUME NEW f \in VarNames, NEW content, WriteVar(f, content),
               var[f] # "edited" \/ content = "edited"
        PROVE  Kept
    BY <2>2, WrittenVar
  <2>3. CASE \E f \in FactoryFiles : SeedFile(f) \/ UserEdits(f)
    BY <1>1, <2>2, <2>3 DEF SeedFile, UserEdits, VarInv, EditInv, VarNames
  <2>4. CASE MountEtc
    BY <1>1, <2>2, <2>4 DEF MountEtc, VarInv, EditInv, VarNames
  <2>5. CASE CopyFails \/ PowerCut
    <3>1. \/ var' = var
          \/ \E f \in FactoryFiles : var[f] = "none" /\ WriteVar(f, "torn")
      BY <2>5 DEF CopyFails, PowerCut, HalfSeeded, diskVars, extraVars
    <3>2. QED
      BY <2>1, <2>2, <3>1 DEF VarNames
  <2>6. CASE stage = "off" /\ InstallNext
    BY <2>1, <2>6, InstallFrames
  <2>7. CASE FactoryReset
    BY <2>1, <2>7 DEF FactoryReset
  <2>8. CASE Still
    BY <2>1, <2>8 DEF Still, installVars, vars, extraVars
  <2>9. CASE MountFails \/ \E slot \in Slots : PowerOn(slot)
    <3>1. var' = var \/ (stage = "etc" /\ WriteVar("lib/etc", "factory"))
      BY <2>9 DEF MountFails, PowerOn, diskVars, extraVars
    <3>2. QED
      BY <1>1, <2>1, <2>2, <3>1 DEF VarInv, EditInv, VarNames
  <2>10. CASE UNCHANGED machineVars
    BY <2>1, <2>10 DEF machineVars, installVars, vars, extraVars
  <2>11. QED
    BY <1>1, <2>3, <2>4, <2>5, <2>6, <2>7, <2>8, <2>9, <2>10
       DEF BootNext, InitStep, Appear, Found, Sleep, FindLoop,
           MountBootDevice, MountRoot, MountEsp, MountState, CheckVar,
           SeedDone, PowerOff, At
<1>2. QED
  BY <1>1, VarInvariant, PTL DEF BootSpec, EditsKept
=============================================================================
