-------------------------------- MODULE Boot --------------------------------
(***************************************************************************)
(* The initramfs script (src/init) on a disk that Install has made: from   *)
(* the entry the user picks in Limine to the hand-off, or to the rescue    *)
(* shell, with devices that appear late, mounts that fail and power that   *)
(* goes, boot after boot.                                                  *)
(***************************************************************************)
EXTENDS Install

CONSTANTS
    DriverTries,    \* how often a file system driver is looked for
    DeviceTries     \* how often the boot device is looked for

ASSUME BootAssumption ==
    /\ DriverTries \in Nat \ {0}
    /\ DeviceTries \in Nat \ {0}
    /\ "lib/etc" \notin FactoryFiles

VARIABLES
    stage,          \* the step of init, or what runs instead of it
    tries,          \* what is left of the retry under way
    ready           \* the drivers and devices the kernel has found

bootVars == <<stage, tries, ready>>

machineVars == <<installVars, bootVars>>

\* "btrfs" and "efi" are the partitions with the labels zerith and efi-zerith.
Devices == {"erofs", "overlay", "loop", "btrfs", "efi"}

InitStages == Devices \cup {"mount", "root", "state", "seed", "copy", "etc"}

BootTypeOK ==
    /\ stage \in {"off", "running", "shell"} \cup InitStages
    /\ tries \in 0..DriverTries \cup 0..DeviceTries
    /\ ready \subseteq Devices
    /\ booted \in Deployments \cup {None}
    /\ stage # "off" => pc = "idle" /\ booted \in Deployments

MachineTypeOK == InstallTypeOK /\ BootTypeOK

BootInit ==
    /\ InstallInit
    /\ stage = "off" /\ tries = 0 /\ ready = {}

\* What the kernel can find: the labels are those the init asks for.
Labelled(t) == t \in parts /\ label[t] = "zerith"

Findable ==
    {"erofs", "overlay", "loop"}
        \cup (IF Labelled("sysroot") THEN {"btrfs"} ELSE {})
        \cup (IF Labelled("efi") THEN {"efi"} ELSE {})

Become(next) == stage' = next /\ UNCHANGED <<tries, ready>>

\* What init has found out is gone when it is over.
Leave(next) == stage' = next /\ tries' = 0 /\ ready' = {}

Still == UNCHANGED installVars

\* A step of init that changes nothing outside of it.
At(from) == stage = from /\ Still

----------------------------------------------------------------------------
\* Firmware, Limine and its configuration, then the UKI of one entry.
PowerOn(slot) ==
    /\ stage = "off" /\ pc = "idle"
    /\ "efi" \in parts /\ espLoader = "whole" /\ conf = "whole"
    /\ esp[slot] \in Deployments
    /\ mounted' = {}
    /\ booted' = esp[slot]
    /\ stage' = "erofs" /\ tries' = DriverTries
    /\ ready' \in SUBSET Findable
    /\ UNCHANGED <<diskVars, procVars, aborts, opts, ended>>

Appear(x) ==
    /\ x \in Findable \ ready
    /\ stage \in InitStages
    /\ ready' = ready \cup {x}
    /\ UNCHANGED <<stage, tries>> /\ Still

(* retry, for the two file systems and for the boot device.                *)

Retried == [erofs |-> "overlay", overlay |-> "loop", btrfs |-> "mount"]

Budget(x) == IF x = "btrfs" THEN DeviceTries ELSE DriverTries

Found(x) ==
    /\ At(x)
    /\ x \in ready
    /\ stage' = Retried[x]
    /\ tries' = Budget(Retried[x])
    /\ UNCHANGED ready

\* Seeded fault: the tries are not counted.
SleepOn(x) ==
    /\ At(x)
    /\ x \notin ready
    /\ UNCHANGED bootVars

\* Seeded fault: the tries run out one below zero.
SleepPast(x) ==
    /\ At(x)
    /\ x \notin ready
    /\ IF tries >= 0
       THEN tries' = tries - 1 /\ UNCHANGED <<stage, ready>>
       ELSE Leave("shell")

Sleep(x) ==
    /\ At(x)
    /\ x \notin ready
    /\ IF tries > 1
       THEN tries' = tries - 1 /\ UNCHANGED <<stage, ready>>
       ELSE Leave("shell")

(* What is looked for once, and the mounts.                                *)

FindLoop ==
    /\ At("loop")
    /\ IF "loop" \in ready
       THEN stage' = "btrfs" /\ tries' = DeviceTries /\ UNCHANGED ready
       ELSE Leave("shell")

MountBootDevice ==
    /\ At("mount")
    /\ Become("root")

\* mount.composefs refuses every root.cfs but the one the UKI pins.
MountRoot ==
    /\ At("root")
    /\ IF Mountable(booted) THEN Become("efi") ELSE Leave("shell")

MountEsp ==
    /\ At("efi")
    /\ IF "efi" \in ready THEN Become("state") ELSE Leave("shell")

MountState ==
    /\ At("state")
    /\ IF subvols = Subvolumes THEN Become("seed") ELSE Leave("shell")

(* The seed of /var and the /etc overlay.                                  *)

\* Seeded faults: the seed is taken for needed at every boot, or at none.
VarEmptyAlways == TRUE

VarEmptyNever == FALSE

VarEmpty == \A f \in VarNames : var[f] = "none"

CheckVar ==
    /\ At("seed")
    /\ Become(IF VarEmpty THEN "copy" ELSE "etc")

WriteVar(f, content) ==
    /\ var' = [var EXCEPT ![f] = content]
    /\ UNCHANGED <<storeVars, layoutVars, procVars, booted>>
    /\ UNCHANGED <<tableVars, subvols, conf, channel, runVars>>

SeedFile(f) ==
    /\ stage = "copy"
    /\ var[f] # "factory"
    /\ WriteVar(f, "factory")
    /\ UNCHANGED <<bootVars, aborts>>

SeedDone ==
    /\ At("copy")
    /\ \A f \in FactoryFiles : var[f] = "factory"
    /\ Become("etc")

\* The overlay needs its directories in @var; a boot that has come this far
\* binds /dev, mounts /run and hands over.
MountEtc ==
    /\ stage = "etc"
    /\ WriteVar("lib/etc", "factory")
    /\ Leave("running")
    /\ UNCHANGED aborts

----------------------------------------------------------------------------
(* Failures and the user.                                                  *)

BootFault ==
    /\ aborts < MaxAborts
    /\ aborts' = aborts + 1

\* A step of cp has been cut short.
HalfSeeded ==
    \/ UNCHANGED <<diskVars, procVars, booted, runVars>>
    \/ /\ stage = "copy"
       /\ \E f \in FactoryFiles : var[f] = "none" /\ WriteVar(f, "torn")

\* A mount fails; the directories of the overlay are made before its own.
MountFails ==
    /\ stage \in {"mount", "root", "efi", "state", "etc"}
    /\ BootFault
    /\ \/ UNCHANGED <<diskVars, procVars, booted, runVars>>
       \/ stage = "etc" /\ WriteVar("lib/etc", "factory")
    /\ Leave("shell")

\* cp fails, and nobody looks.
CopyFails ==
    /\ stage = "copy"
    /\ BootFault
    /\ HalfSeeded
    /\ Become("etc")

PowerCut ==
    /\ stage \in InitStages
    /\ BootFault
    /\ HalfSeeded
    /\ Leave("off")

PowerOff ==
    /\ stage \in {"running", "shell"}
    /\ Still
    /\ Leave("off")

\* The running system changes a file of /var.
UserEdits(f) ==
    /\ stage = "running"
    /\ WriteVar(f, "edited")
    /\ UNCHANGED <<bootVars, aborts>>

\* The documented factory reset: @var is deleted and made again while nothing
\* runs from it.
FactoryReset ==
    /\ stage = "off" /\ pc = "idle" /\ "@var" \in subvols
    /\ var' = [f \in VarNames |-> "none"]
    /\ UNCHANGED <<storeVars, layoutVars, procVars, aborts, booted>>
    /\ UNCHANGED <<tableVars, subvols, conf, channel, runVars, bootVars>>

InitStep ==
    \/ \E x \in DOMAIN Retried : Found(x) \/ Sleep(x)
    \/ FindLoop \/ MountBootDevice \/ MountRoot \/ MountEsp \/ MountState
    \/ CheckVar \/ SeedDone \/ MountEtc
    \/ \E f \in FactoryFiles : SeedFile(f)

BootNext ==
    \/ stage = "off" /\ InstallNext /\ UNCHANGED bootVars
    \/ \E slot \in Slots : PowerOn(slot)
    \/ \E x \in Devices : Appear(x)
    \/ InitStep
    \/ MountFails \/ CopyFails \/ PowerCut \/ PowerOff
    \/ \E f \in FactoryFiles : UserEdits(f)
    \/ FactoryReset

BootSpec == BootInit /\ [][BootNext]_machineVars

\* A command and a script that run keep running; a download may stall.
FairBoot ==
    /\ BootSpec
    /\ WF_machineVars(InstallStep /\ ~Fetching /\ UNCHANGED bootVars)
    /\ WF_machineVars(InitStep)

----------------------------------------------------------------------------
(* What a boot promises.                                                   *)

\* No boot hangs: it hands over or drops to the shell, unless power goes.
BootEnds == stage \in InitStages ~> stage \in {"running", "shell", "off"}

\* A host that a disk install reported as done and whose devices are there
\* hands over when nothing else fails.
InstalledHostBoots ==
    /\ stage = "erofs" /\ ready = Devices
    /\ ended = "done" /\ opts.disk
    /\ aborts = MaxAborts
    ~> stage = "running"

\* The seed never touches what the user has in /var: an edited file changes
\* only in a factory reset or when the disk is wiped.
EditsKept ==
    [][\A f \in VarNames : var[f] = "edited" /\ var'[f] # "edited" =>
          \A g \in VarNames : var'[g] = "none"]_machineVars

\* As long as nothing has failed, a system that runs has all of its factory
\* files, after a factory reset too.
SeedWhole ==
    stage = "running" /\ aborts = 0 =>
        \A f \in FactoryFiles : var[f] \in {"factory", "edited"}

----------------------------------------------------------------------------
(* What the documentation says and does not hold.                          *)

\* docs/architecture.md: the initramfs seeds @var on the first boot.
FirstBootSeeds ==
    stage = "running" =>
        \A f \in FactoryFiles : var[f] \in {"factory", "edited"}
=============================================================================
