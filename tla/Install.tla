------------------------------ MODULE Install ------------------------------
(***************************************************************************)
(* `zerithctl install` (zerith/cli.py, installer.py, disk.py,              *)
(* bootloader.py), on a whole disk or on partitions that are mounted, with *)
(* every step failing or cut short and with the command repeated on what   *)
(* it left.                                                                *)
(*                                                                         *)
(* The disk, the store and materialize are those of Lifecycle; an install  *)
(* takes no deploy lock, as the host it makes is not running yet.  aborts  *)
(* counts failures and cuts.                                               *)
(***************************************************************************)
EXTENDS Lifecycle

CONSTANTS
    FactoryFiles,   \* the files of /usr/share/factory/var
    Calls           \* the arguments installs are given, a subset of Options

VARIABLES
    parts,          \* the partitions in the partition table
    label,          \* label[t]: of the file system on t, None without one
    subvols,        \* the subvolumes at the top level of the btrfs
    var,            \* var[f]: the file f in @var
    conf,           \* limine.conf
    channel,        \* source.conf exists
    mounted,        \* which of the two file systems are mounted
    opts,           \* the arguments of the last install
    ended           \* how it ended

tableVars == <<parts, label>>

extraVars == <<tableVars, subvols, var, conf, channel>>

diskVars == <<storeVars, layoutVars, extraVars>>

runVars == <<mounted, opts, ended>>

installVars == <<vars, extraVars, runVars>>

Labels == {"zerith", "other"}

\* In the order they are made.
SubvolumeOrder == <<"@var", "@home", "@deploy">>

Subvolumes == {SubvolumeOrder[i] : i \in 1..3}

\* The btrfs and the ESP; an installed label "zerith" stands for the two names
\* zerith and efi-zerith.
Targets == {"sysroot", "efi"}

\* The directories of the /etc overlay, which init makes in @var.
VarNames == FactoryFiles \cup {"lib/etc"}

VarContent == {"none", "torn", "factory", "edited"}

\* --disk and --label, or two mountpoints; --ref or --local; --no-limine.
Options == [disk : BOOLEAN, label : Labels, ref : BOOLEAN, limine : BOOLEAN]

ASSUME InstallAssumption == Calls \subseteq Options

MaterializePc == StagePc \ {"stage"}

\* The steps inside the try block of _cmd_install, and those around it.
TryPc == {"subvols", "source", "stage", "setCurrent", "channel", "conf",
          "limine", "nvram"} \cup MaterializePc

DiskPc == {"partition", "mkfsFat", "mkfsBtrfs", "mountSysroot", "mountEfi",
           "umountEfi", "umountSysroot"}

InstallTypeOK ==
    /\ StoreTypeOK
    /\ dirs \subseteq Deployments
    /\ file \in [Deployments -> [FileNames -> FileState]]
    /\ role \in [Roles -> Deployments \cup {None}]
    /\ esp \in [Slots -> Images] /\ swapTmp = None
    /\ {espLoader, conf} \subseteq FileState
    /\ parts \subseteq Targets
    /\ label \in [Targets -> Labels \cup {None}]
    /\ subvols \subseteq Subvolumes
    /\ var \in [VarNames -> VarContent]
    /\ channel \in BOOLEAN
    /\ mounted \subseteq Targets
    /\ opts \in Calls
    /\ ended \in {"none", "done", "failed", "killed"}
    /\ pc \in {"idle"} \cup TryPc \cup DiskPc
    /\ pc \in TryPc \ {"subvols", "source"} => target \in Deployments
    /\ unswept = {} /\ missed = {}
    /\ aborts \in 0..MaxAborts

\* Two file systems with nothing on them.
Blank ==
    [store |-> [o \in Objects |-> "absent"],
     holder |-> [d \in Deployments |-> {}],
     file |-> [d \in Deployments |-> [f \in FileNames |-> "none"]],
     role |-> [r \in Roles |-> None],
     esp |-> [s \in Slots |-> None],
     var |-> [f \in VarNames |-> "none"]]

\* A disk with nothing of use on it, or with the two partitions made by hand.
InstallInit ==
    /\ store = Blank.store /\ holder = Blank.holder
    /\ dirs = {} /\ file = Blank.file /\ role = Blank.role
    /\ esp = Blank.esp /\ espLoader = "none" /\ swapTmp = None
    /\ subvols = {} /\ var = Blank.var /\ conf = "none" /\ channel = FALSE
    /\ \/ parts = {} /\ label = [t \in Targets |-> None]
       \/ parts = Targets /\ label = [t \in Targets |-> "zerith"]
    /\ pc = "idle" /\ target = None /\ old = None
    /\ stale = {} /\ unswept = {} /\ missed = {}
    /\ mounted = {} /\ ended = "none" /\ aborts = 0 /\ booted = None
    /\ opts \in Calls

----------------------------------------------------------------------------
(* Before the try block.  A disk with a mounted partition is refused.      *)

StartInstall(o) ==
    /\ pc = "idle"
    /\ mounted = IF o.disk THEN {} ELSE Targets
    /\ opts' = o
    /\ ended' = "none"
    /\ Goto(IF o.disk THEN "partition" ELSE "subvols")
    /\ UNCHANGED <<diskVars, mounted>> /\ Quiet

(* partition_disk: the table, then one mkfs after the other.  sgdisk writes *)
(* the table and nothing else, and every install is given the same ESP     *)
(* size, so what an earlier one left shows again until its mkfs.           *)

Repartition(these) ==
    /\ parts' = these
    /\ UNCHANGED <<storeVars, layoutVars, label, subvols, var, conf, channel>>

Partition ==
    /\ pc = "partition"
    /\ Repartition(Targets)
    /\ Goto("mkfsFat")
    /\ UNCHANGED runVars /\ Quiet

\* mkfs.fat on the ESP; a label of None when it does not get to its end.
MakeFat(name) ==
    /\ esp' = Blank.esp /\ espLoader' = "none" /\ swapTmp' = None
    /\ conf' = "none"
    /\ label' = [label EXCEPT !["efi"] = name]
    /\ UNCHANGED <<storeVars, dirs, file, role, parts, subvols, var, channel>>

FormatEsp ==
    /\ pc = "mkfsFat"
    /\ MakeFat(opts.label)
    /\ Goto("mkfsBtrfs")
    /\ UNCHANGED runVars /\ Quiet

\* mkfs.btrfs -f on the other partition, likewise.
MakeBtrfs(name) ==
    /\ store' = Blank.store /\ holder' = Blank.holder
    /\ dirs' = {} /\ file' = Blank.file /\ role' = Blank.role
    /\ subvols' = {} /\ var' = Blank.var /\ channel' = FALSE
    /\ label' = [label EXCEPT !["sysroot"] = name]
    /\ UNCHANGED <<esp, espLoader, swapTmp, parts, conf>>

\* Seeded fault: the file system that is there is kept and gets the label.
FormatSysrootKept ==
    /\ pc = "mkfsBtrfs"
    /\ label' = [label EXCEPT !["sysroot"] = opts.label]
    /\ Goto("mountSysroot")
    /\ UNCHANGED <<storeVars, layoutVars, parts, subvols, var, conf, channel,
                   runVars>>
    /\ Quiet

FormatSysroot ==
    /\ pc = "mkfsBtrfs"
    /\ MakeBtrfs(opts.label)
    /\ Goto("mountSysroot")
    /\ UNCHANGED runVars /\ Quiet

Remount(from, to, next) ==
    /\ pc = from
    /\ mounted' = to
    /\ Goto(next)
    /\ UNCHANGED <<diskVars, opts, ended>> /\ Quiet

MountTargets ==
    \/ Remount("mountSysroot", {"sysroot"}, "mountEfi")
    \/ Remount("mountEfi", Targets, "subvols")

----------------------------------------------------------------------------
(* The try block: init_layout, the source, install_deploy, install_limine. *)

\* Seeded fault: only an exception unmounts nothing.
LeaveTryMounted(how) ==
    /\ ended' = how
    /\ UNCHANGED <<mounted, opts>>
    /\ IF opts.disk /\ how = "done" THEN Goto("umountEfi") ELSE Finish

\* The try block is left, for the better or worse; finally unmounts.
LeaveTry(how) ==
    /\ ended' = how
    /\ UNCHANGED <<mounted, opts>>
    /\ IF opts.disk THEN Goto("umountEfi") ELSE Finish

\* A subvolume that is there is left in place.
InitLayout(i) ==
    /\ pc = "subvols"
    /\ SubvolumeOrder[i] \notin subvols
    /\ \A j \in 1..(i - 1) : SubvolumeOrder[j] \in subvols
    /\ subvols' = subvols \cup {SubvolumeOrder[i]}
    /\ UNCHANGED <<storeVars, layoutVars, tableVars, var, conf, channel>>
    /\ UNCHANGED <<procVars, runVars>> /\ Quiet

\* Seeded fault: one subvolume is taken for all of them.
LayoutDoneEarly ==
    /\ pc = "subvols"
    /\ subvols # {}
    /\ Goto("source")
    /\ UNCHANGED <<diskVars, runVars>> /\ Quiet

LayoutDone ==
    /\ pc = "subvols"
    /\ subvols = Subvolumes
    /\ Goto("source")
    /\ UNCHANGED <<diskVars, runVars>> /\ Quiet

\* Seeded fault: a deployment that is there is installed again.
MayInstallAny(d) == TRUE

MayInstall(d) == d \notin dirs

AlreadyInstalled(d) ==
    /\ pc = "source"
    /\ ~MayInstall(d)
    /\ LeaveTry("failed")
    /\ UNCHANGED diskVars /\ Quiet

InstallDeploy(d) ==
    /\ pc = "source"
    /\ MayInstall(d)
    /\ target' = d
    /\ dirs' = dirs \cup {d}
    /\ pc' = "land"
    /\ UNCHANGED <<storeVars, file, role, esp, espLoader, swapTmp, extraVars>>
    /\ UNCHANGED <<runVars, old, stale, unswept, missed>> /\ Quiet

\* The deployment is materialized as by an update.
MaterializeFirst ==
    /\ pc \in MaterializePc
    /\ Materialize
    /\ UNCHANGED <<extraVars, runVars>>

CopyUkiToEsp ==
    /\ pc = "stage"
    /\ EspStep(CopyToEsp("current", UkiOf(target)))
    /\ Goto("setCurrent")

SetCurrent ==
    /\ pc = "setCurrent"
    /\ RoleStep(SetRole("current", target))
    /\ Goto("channel")

SeedChannel ==
    /\ pc = "channel"
    /\ channel' = (channel \/ opts.ref)
    /\ Goto("conf")
    /\ UNCHANGED <<storeVars, layoutVars, tableVars, subvols, var, conf>>
    /\ UNCHANGED runVars /\ Quiet

\* A limine.conf that is there is left alone, whatever is in it.
WriteLimineConf ==
    /\ pc = "conf"
    /\ conf' = IF conf = "none" THEN "whole" ELSE conf
    /\ IF opts.limine /\ target \in WithLoader
       THEN Goto("limine") /\ UNCHANGED runVars
       ELSE LeaveTry("done")
    /\ UNCHANGED <<storeVars, layoutVars, tableVars, subvols, var, channel>>
    /\ Quiet

InstallLimine ==
    /\ pc = "limine"
    /\ espLoader' = "whole"
    /\ Goto("nvram")
    /\ UNCHANGED <<storeVars, dirs, file, role, esp, swapTmp, extraVars,
                   runVars>>
    /\ Quiet

CreateNvramEntry ==
    /\ pc = "nvram"
    /\ LeaveTry("done")
    /\ UNCHANGED diskVars /\ Quiet

UmountEfi == Remount("umountEfi", {"sysroot"}, "umountSysroot")

UmountSysroot ==
    /\ pc = "umountSysroot"
    /\ mounted' = {}
    /\ Finish
    /\ UNCHANGED <<diskVars, opts, ended>> /\ Quiet

----------------------------------------------------------------------------
(* Failures.                                                               *)

\* What the step under way has done when it fails or is cut short.
HalfInstalled ==
    \/ HalfDone /\ UNCHANGED extraVars
    \/ /\ pc = "partition"
       /\ \E these \in {{}, {"efi"}} : Repartition(these)
    \/ pc = "mkfsFat" /\ MakeFat(None)
    \/ pc = "mkfsBtrfs" /\ MakeBtrfs(None)
    \/ /\ pc = "conf" /\ conf = "none"
       /\ conf' = "torn"
       /\ UNCHANGED <<storeVars, layoutVars, tableVars, subvols, var, channel>>
    \/ /\ pc = "limine"
       /\ espLoader' = "torn"
       /\ UNCHANGED <<storeVars, dirs, file, role, esp, swapTmp, extraVars>>

Fault ==
    /\ aborts < MaxAborts
    /\ aborts' = aborts + 1
    /\ HalfInstalled
    /\ UNCHANGED booted

\* An exception or a SystemExit inside the try block, Ctrl-C included.
StepFails ==
    /\ pc \in TryPc
    /\ Fault
    /\ LeaveTry("failed")

\* The same outside of it: nobody unmounts what is mounted.
DiskStepFails ==
    /\ pc \in DiskPc
    /\ Fault
    /\ ended' = "failed"
    /\ Finish
    /\ UNCHANGED <<mounted, opts>>

\* The process is killed, or the machine loses power and with it the mounts.
Killed ==
    /\ pc \in TryPc \cup DiskPc
    /\ Fault
    /\ ended' = "killed"
    /\ mounted' \in {mounted, {}}
    /\ Finish
    /\ UNCHANGED opts

\* The user mounts the two partitions, or unmounts what is mounted.
UserMounts(these) ==
    /\ pc = "idle"
    /\ \A t \in these : t \in parts /\ label[t] # None
    /\ these # mounted
    /\ mounted' = these
    /\ UNCHANGED <<diskVars, procVars, opts, ended>> /\ Quiet

InstallStep ==
    \/ Partition \/ FormatEsp \/ FormatSysroot \/ MountTargets
    \/ \E i \in 1..3 : InitLayout(i)
    \/ LayoutDone
    \/ \E d \in Deployments : AlreadyInstalled(d) \/ InstallDeploy(d)
    \/ MaterializeFirst
    \/ (CopyUkiToEsp \/ SetCurrent) /\ UNCHANGED <<extraVars, runVars>>
    \/ SeedChannel \/ WriteLimineConf \/ InstallLimine \/ CreateNvramEntry
    \/ UmountEfi \/ UmountSysroot

InstallNext ==
    \/ \E o \in Calls : StartInstall(o)
    \/ InstallStep
    \/ StepFails \/ DiskStepFails \/ Killed
    \/ \E these \in {{}, Targets} : UserMounts(these)

InstallSpec == InstallInit /\ [][InstallNext]_installVars

----------------------------------------------------------------------------
(* What an install promises.                                               *)

\* The deployment the current role names is all there and so is the one whose
\* UKI is on the ESP, however often installs are cut short and repeated on what
\* they left: mkfs.fat goes first, so no UKI outlives its deployment, and one
\* that is half made is refused.  The two differ, or one is missing, after an
\* install that was cut short between them, never after one that reports
\* success.
CurrentWhole ==
    /\ role["current"] # None => Complete(role["current"])
    /\ esp["current"] # None =>
          esp["current"] \in Deployments /\ Complete(esp["current"])
    /\ pc = "idle" /\ ended = "done" =>
          role["current"] # None /\ esp["current"] = role["current"]

\* An install that reports success on a whole disk leaves the host that the
\* lifecycle starts from, with its subvolumes, limine.conf and, when the
\* artifact ships one, the loader, and gives the disk back.
DiskInstallWhole ==
    pc = "idle" /\ ended = "done" /\ opts.disk =>
        /\ InstalledHost(role["current"])
        /\ parts = Targets /\ label = [t \in Targets |-> opts.label]
        /\ subvols = Subvolumes /\ conf = "whole"
        /\ channel = opts.ref
        /\ espLoader = IF opts.limine /\ role["current"] \in WithLoader
                       THEN "whole" ELSE "none"

\* A disk install that ends with a file system still mounted, which makes the
\* next one refuse the disk, was killed or had a mount or an unmount fail at
\* that very step: success, a refusal and a failure inside the try block all
\* give the disk back.
MountsReleased ==
    [][opts.disk /\ pc # "idle" /\ pc' = "idle" /\ mounted' # {}
         => \/ ended' = "killed"
            \/ pc \in DiskPc /\ aborts' > aborts]_installVars

\* cosign, oras and curl, which have no timeout, of an install by ref.
Fetching == opts.ref /\ pc \in {"source", "land"}

\* A disk install that meets no more failures succeeds, whatever earlier ones
\* left, unless what it downloads neither arrives nor fails.
DiskInstallRecovers ==
    \/ pc = "partition" /\ aborts = MaxAborts ~> pc = "idle" /\ ended = "done"
    \/ <>[]Fetching
=============================================================================
