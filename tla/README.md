# Zerith in TLA+

TLA+ models of Zerith, an image-based Linux: the host tool `zerithctl` that
installs deployments and moves a host from one to the next, and the CI scripts
that publish what it pulls. TLC checks the models on small instances, TLAPS
proves the main properties for every value of the constants. References such as
`lifecycle.py:138` are to `src/zerith/` unless they say otherwise.

Contents: [inventory](#1-the-system) · [modules](#2-the-modules) ·
[runs](#3-the-runs) · [findings](#4-what-the-code-does-not-keep) ·
[proofs](#5-the-proofs) · [limits](#6-what-is-not-modelled) ·
[plan](#7-plan)

## 1. The system

A host has a btrfs subvolume `@deploy` and an ESP. `@deploy` holds one
directory per deployment, a shared store of content-addressed objects, and three
role symlinks. The ESP holds two UKIs, one per Limine entry, and the loader.
CI pushes each image to a registry as two artifacts, moves a tag, and signs.
`zerithctl` reads the tag, lands what is missing and switches the roles.

| Component | State it keeps | Operations | Works with | What makes it hard |
| --- | --- | --- | --- | --- |
| Deployment lifecycle (`lifecycle.py`) | what is on `@deploy` and the ESP; the running command keeps ids of its own | `stage`/`materialize`, `promote`, `rollback`, `gc`, `status` | layout, store, verity; called by the commands | a dozen disk effects per command, each a place to be interrupted; what a later command makes of the remains |
| Boot entries (`promote`, `rollback`) | `current.efi`, `fallback.efi`, the loader | copies and renames | firmware and Limine read them at any time | the order against the roles |
| Disk layout (`layout.py`, `config.py`) | directories, role symlinks, `deployment.json`, `source.conf` | `set_role`, `clear_role`, `atomic_copy`, `read_source`, `write_source` | everything | which change is one rename, which is not |
| Object store (`objects.py`, `verity.py`) | `shared/objects`, the hardlink holders | `place_object`, `link_holder`, `sweep_orphans` | shared by all deployments | link counts as reference counts; rename before seal |
| Range coalescing (`objects.py:146`) | the ranges being built | `_coalesce_ranges` | feeds the fetch pool | offsets, the last range, the gap |
| Pack landing (`objects.py:249`) | futures, staging directory, buffers | `land_from_pack`, `_fetch_range`, `_place_from_buffer` | registry, store | a pool and a main thread, failures in either, repetition on a half-filled store |
| Commands and deploy lock (`cli.py`, `lifecycle.py:26`) | the flock on `@deploy` | `deploy`, `update`, `rollback`, `gc`, `status` | each other | commands that wait while the world changes |
| OCI source (`oci.py`) | what it pulled | `cosign_verify`, `source_from_ref` | registry | a tag that is resolved twice |
| Update channel (`source.conf`) | one ref | `read_source`, `write_source` | commands | written at another moment than the roles |
| CI publishing (`scripts/ci/push-artifacts.sh`, `cosign-sign.sh`, `build.yml`) | registry, tag, signature | push, tag, push, sign | hosts | a newer run cancels an older one at any step; the tag moves before the objects are there |
| CI pack and gate (`pack-objects.sh`, `verify-pack.py`) | the pack and its index | concatenate, compare | read by landing | what a wrong index gets past the gate |
| Boot init (`init`) | `/var`, mounts | wait for devices, mount, seed `/var` | reads ESP and `@deploy` | retries; a seed cut short; what is looked up once |
| Installer (`installer.py`, `disk.py`, `bootloader.py`) | partitions, mounts, the first deployment | `install` | lifecycle's `materialize` | failures after half of it, repetition |
| Runtime, progress (`runtime.py`, `progress.py`) | none | `run`, `die` | everything | where commands end early |

What each of them has to get right:

* **Lifecycle.** A role never dangles. Power lost at any instant leaves a host
  that boots. Commands that return leave roles, ESP, directories, holders and
  store in agreement.
* **Boot entries.** An update and a rollback look like one step to whoever
  boots.
* **Store.** No object that a deployment holds is swept; gc leaves no garbage
  but what it could not unlink.
* **Coalescing.** Each slice is its index entry, inside the bytes asked for;
  none is forgotten; requests are not closer, and their gaps not longer, than
  the setting says.
* **Landing.** A landing that succeeds is complete; one that fails has a cause;
  the pool and its staging directory are left in order; nothing waits for ever
  but for a transfer that stalls.
* **Pack and gate.** What passes the gate is cut, by every host, into exactly
  the objects; a pack that nothing went wrong with is not refused.
* **Install.** What it reports as done is a whole host that boots; a repetition
  recovers from whatever an earlier one left, a disk with one of its two file
  systems made included; mounts are given back.
* **Boot init.** It hands over or ends in the shell and does not hang; the seed
  of `/var` is whole and touches nothing the user has edited.
* **Commands, channel, CI.** Signed builds are complete; a host never goes back
  on its channel and follows the channel it is on; whoever waits for the lock
  gets it, unless a download stalls under it.

PROJECT.json lists every hazard at its line with the properties that would
catch it.

## 2. The modules

| Module | What it is |
| --- | --- |
| `Layout` | deployment directories, files, roles, ESP; the primitives on them |
| `ObjectStore` | the store, the holders, landing, linking, link counts, sweeping |
| `Lifecycle` | the commands as sequences of steps on the two, with `Abort` and `Reboot` |
| `BootEntries` | abstract: what the two Limine entries promise; `Lifecycle` implements it |
| `HostRoles` | abstract: the protocol of the three roles; `Lifecycle` and `Channel` implement it |
| `Landing` | abstract: what a landing promises; `PackLanding` and the landing in `Lifecycle` implement it |
| `MCLifecycle` | three deployments, one shared object and one of its own each |
| `LifecycleProofs`, `PowerLossProofs` | theorems about `Lifecycle` |
| `Coalesce`, `CoalesceProofs` | `_coalesce_ranges` |
| `PackIndex`, `MCPackIndex`, `PackIndexProofs` | the packer, the gate and a host's lookup, in front of `Coalesce` |
| `PackLanding`, `MCPackLanding`, `PackLandingProofs` | the fetch pool around `Coalesce` |
| `Channel`, `MCChannel`, `ChannelProofs` | CI, registry, and several commands under the lock |
| `Install`, `InstallProofs` | `install` on a disk or on mounts, around `Lifecycle`'s `materialize` |
| `Boot`, `MCBoot`, `BootProofs` | `src/init` on the disk of `Install`, boot after boot |

`PackIndex` and `PackLanding` EXTEND `Coalesce`; `Install` EXTENDS `Lifecycle`
and `Boot` EXTENDS `Install`, so one behaviour of `Boot` is a disk that is
partitioned, installed on, cut off, installed on again, booted, edited and
reset.

The models of the host are of different grain and meet in the abstract modules.
`Channel` has many processes and whole builds, `Lifecycle` one command and every
file: both implement `HostRoles`, so the steps by which the one moves builds
between roles are those the other takes on disk. `Lifecycle` lands one object
after the other from nowhere, `PackLanding` lands them out of ranges fetched by
a pool: both implement `Landing`, so `materialize` relies on what
`land_from_pack` keeps.

Definitions marked "Seeded fault" are not part of a specification. Each is a
plausible mistake in the code (an order swapped, a test forgotten, a count off
by one) that some property must notice when it takes the place of the definition
after it; PROJECT.json pairs them under "mutants".

### Lifecycle

| Code | Model |
| --- | --- |
| `<id>/root.cfs`, `zerith.efi`, `BOOTX64.EFI`, `deployment.json` | `file[d][f]`, `f` in `cfs, uki, loader, meta`: `none`, `torn` or `whole` |
| `current`, `fallback`, `staging` symlinks | `role` |
| `zerith/current.efi`, `fallback.efi`, `.swap.efi.tmp`, `EFI/BOOT/BOOTX64.EFI` | `esp`, `swapTmp`, `espLoader` |
| `shared/objects/<o>`, `<id>/objects/<o>` | `store[o]`, `holder[d]` |
| the position and locals of the running command | `pc`, `target`, `old`, `stale`, `unswept` |
| the orphans whose `stat` or `unlink` failed in a sweep | `missed` |
| the deployment the kernel command line names | `booted` |
| `do_deploy`, `stage` | `ReuseDeployment`, `StartMaterialize`, `SetStaging` |
| `materialize` | `PlaceObject`, `PlaceRootCfs`, `LinkHolder`, `CopyUki`, `CopyLoader`, `WriteMeta` and the `Finish...` of its loops |
| `promote` | `StagedUkiMissing`, `DemoteOnEsp`, `SwingCurrent`, `RefreshLoader`, `DemoteRole`, `PromoteRole`, `ClearStaging`, then gc |
| `rollback` | `StartRollback` (with the copy to the temporary), `SwapIn`, `SwapOut`, `RollCurrent`, `RollFallback` |
| `gc` | `CollectStale`, `BeginRmtree`, `RemoveFile`, `RemoveHeld`, `RemoveDir`, `StartSweep`, `LookAt` an object and `SweepObject` or `MissOrphan`, `FinishGc` |
| an error exit, an exception, a signal, a power cut | `Abort` |
| firmware, Limine, init | `Reboot` |

One action is one effect on the disk. A rename is atomic. A copy into a
deployment directory is not: `Abort` during one leaves the file torn, `Abort`
during a landing may leave an object renamed and not yet sealed. `rmtree`
removes in any order. The sweep looks at the objects one by one and passes over
one that it cannot `stat` or `unlink` (`objects.py:332-354`): `MissOrphan`,
which counts as a fault like `Abort` does. Content is verified before it is
renamed into the store (`objects.py:48`), so an object is only absent, unsealed
or sealed, and a deployment is only as wrong as its files. Effects reach the
disk in program order; the code syncs nothing, so on a real disk a power cut may
lose the later of two effects *or* the earlier: the second is not modelled.

Small print. The branch of `promote` for `new_id == old_current`
(`lifecycle.py:139`) cannot be reached, because `do_deploy` returns first.
Temporaries of `atomic_copy` that an interruption leaves are overwritten by the
next copy and are left out. A command that dies on a missing UKI or fallback
(`StagedUkiMissing`, the guard `RollbackReady`) changes nothing.

### Coalesce and PackLanding

`Coalesce` is `_coalesce_ranges`: each step takes the wanted entry of least
offset and opens the first range (`First`), extends the running one (`Merge`) or
closes it and opens the next (`Cut`); `Flush` is the code after the loop. Lists
are sets: nothing but the pass depends on their order.

`PackLanding` EXTENDS it with what goes before and after. `StartLanding` is
`_missing_objects`. `SubmitAll` makes a future of every range. Workers move
futures from `queued` through `running` to `whole`, `other` (right length, wrong
bytes) or `failed`. The main thread takes a finished one (`Collect`), cuts,
verifies, places and seals (`PlaceSlice`, `RefuseSlice`, `SealFails`), goes on
to the next (`FinishBuffer`), and leaves by `ExitPool`, which waits for every
worker as the `with` block does, before the staging directory goes. A landing
that fails or is killed is followed by another on the store it left. The
existence tests in `_place_from_buffer` and `place_object` never succeed there,
because the deploy lock keeps every other writer out. Submitting all futures is
one step: no result is looked at before. A curl may also go on for ever: no
fairness is assumed of it.

### PackIndex

| Code | Model |
| --- | --- |
| the files `pack-objects.sh` still has to write; index and pack | `todo`; `lines`, `pack` |
| the loop of `pack-objects.sh` | `PackObject` in sorted order, `FinishPack` |
| `verify-pack.py`, its loop and what follows it | `CheckLine` (a `Line` with a wrong offset or other bytes), `Verdict` with `TotalsGood` |
| `_fetch_index`, `_missing_objects` | `Entry` (the last line of a digest), `MissingObjects` |
| `_coalesce_ranges` | the actions of `Coalesce` |

A byte of the pack is a pair of object and place, so `CutsExact` says that the
bytes are those of the object, not only their number. The faults the gate is
there for are `Damage`: an object listed twice (`ListTwice`) or not at all
(`ListNot`), a line altered (`WrongLine`), a pack cut short (`Truncate`). A
digest is a number, as the packer sorts by it. The gate compares the number of
lines with the number of files: an object listed twice hides one not listed, and
a host takes that one for inlined. `ClientComplete` says that this is the only
way to lose an object.

### Install

| Code | Model |
| --- | --- |
| partition table, labels, subvolumes, `@var`, `limine.conf`, `source.conf` | `parts`, `label`, `subvols`, `var`, `conf`, `channel` |
| `--disk` and `--label`, or two mountpoints; `--ref` or `--local`; `--no-limine` | `opts` |
| `partition_disk`: `sgdisk`, `mkfs.fat`, `mkfs.btrfs` | `Partition`, `FormatEsp` (clears the ESP), `FormatSysroot` (clears the btrfs) |
| `mount_targets` | `MountTargets` |
| `init_layout` | `InitLayout`, one subvolume each, `LayoutDone` |
| `install_deploy` | `AlreadyInstalled` or `InstallDeploy`, then `MaterializeFirst` (the steps of `Lifecycle`), `CopyUkiToEsp`, `SetCurrent` |
| `write_source`, `install_limine` | `SeedChannel`, `WriteLimineConf`, `InstallLimine`, `CreateNvramEntry` |
| `finally: umount_targets` | `LeaveTry`, `UmountEfi`, `UmountSysroot` |
| an error of a step, inside or outside the `try` | `StepFails`, `DiskStepFails` |
| `SIGKILL`, a power cut | `Killed`, with or without the mounts |
| what the user does between two installs | `UserMounts` |

`sgdisk` writes the table and no partition. Every install is given the same
`--esp-size` here, so the partitions come back where they were and what an
earlier install left in them shows again until the `mkfs` of each (`disk.py:56`,
`61`); between the two there is a blank ESP beside the old btrfs with its roles.

`HalfInstalled` is what the interrupted step has already done: a file torn, an
object unsealed, a table without all of its partitions, a file system cleared
and without a label. A disk with a mounted partition is
refused (the guard of `StartInstall`). The boot entry in NVRAM is a step without
effect on the disk. No deploy lock is taken, as in the code.

### Boot

`PowerOn` is firmware and Limine: it needs the loader, a whole `limine.conf` and
a UKI in the slot the user picks. Then `init`: `Found` and `Sleep` are `retry`
over the two file system drivers and the boot device (`Appear` is the kernel
finding one); `FindLoop` looks for its device once; `MountBootDevice`,
`MountRoot`, `MountEsp`, `MountState` are the mounts in their order; `CheckVar`,
`SeedFile`, `SeedDone` the seed of `/var`; `MountEtc` the overlay and the
hand-off. `MountFails` and `CopyFails` are failures (the second is not looked
at, `init:96`), `PowerCut` ends a boot anywhere. A mount that fails in
`MountEtc` has already made the overlay's directories. `UserEdits` and
`FactoryReset` are what a running host and `docs/` do to `@var` between boots.

The init asks for file systems labelled `zerith`. A disk installed with another
label drops to the shell, which `docs/host-tooling.md:63` announces; `Findable`
says so, and `InstalledHostBoots` is about hosts whose devices are found.

### Channel

CI: `StartBuild` (which cancels the run before it, wherever it was),
`PushDeployment`, `MoveTag`, `PushObjects`, `Sign`, as in `push-artifacts.sh`
and `cosign-sign.sh`. Host: each process of `zerithctl` runs one command: `Run`,
`Acquire` (the flock), `Resolve` (`read_source`), `Verify` and `Pull` (the tag
is resolved by each), `UpToDate` or `Compare`, `Stage` and `MarkStaging` (the
two effects of `stage`), `DemoteRole`, `PromoteRole`, `ClearStaging` and
`CollectGarbage` (`promote`), `WriteSource`; or `Rollback` and `SwapFallback`;
or `CollectGarbage` alone. `Die` ends it anywhere, so that a command may be cut
short between two role changes. The files, the ESP and the directories of
`Lifecycle` are not told apart here: a build lands, or goes, in one step. A ref
pinned to a deploy id is a channel with one build. `status` is not a process
here, as it changes nothing.

## 3. The runs

| Run | Shows |
| --- | --- |
| `lifecycle_crashes` | deploys, rollbacks, gcs and reboots in any order, with two faults: a command cut short anywhere, or an orphan a sweep cannot unlink. `HeldObjectsPresent`: no holder's object is swept. `RolesOnDisk`: no role dangles, ever. `QuietCoherent`: agreement of roles, ESP, directories, holders and store after commands that returned. `EntriesSpec`: the ESP implements `BootEntries`. `PowerLossSafe`: the host boots through the first fault. `GcReclaims`: a gc that returns leaves no garbage but the objects whose `stat` or `unlink` failed in its own sweep, also when it cleans up after interrupted commands and incomplete sweeps. `RolesSpec`, `StoreLandingSpec`: it implements `HostRoles` and `Landing`. `MaterializesWhole`: a materialize that returns has made a complete deployment of whatever it found. `NamedStayWhole`: a complete deployment with a role stays complete, and bootable if it was |
| `pack_slices` | a pack with up to two faults, the gate, and for every set of missing objects the ranges: `CutsExact`, `ClientComplete`, `GateAccepts`, and of the ranges `AllCovered`, `RangesApart`, `GapsShort` |
| `packlanding_faults` | `StagingHeld`, `FailsForCause` with two workers and two faults, from any store, repeated; `LandingReturns`: a landing ends unless a curl of it stalls; `StoreLandingSpec`: a landing that returns has landed all, one that fails leaves at most one object unsealed |
| `channel_races` | `SignedComplete`, `NeverBackwards`, `OnChannel` with three commands and two channels; `RolesSpec`: the roles follow `HostRoles`, so no gc, in whatever terminal, takes a build that a role names or is about to name |
| `channel_waits` | `WaitersReturn` with two commands: who waits for the lock ends, unless a download stalls under it |
| `boot_install` | installs and boots with two faults anywhere. `CurrentWhole`: the deployment `current` names is complete, and so is the one on the ESP, however often installs are cut short and repeated, between the two `mkfs` too; after a success they are one. `DiskInstallWhole`: success on a disk is the host the lifecycle starts from (`InstalledHost` of `Lifecycle`). `MountsReleased`, `DiskInstallRecovers`; `SeedWhole`, `EditsKept`, `BootEnds`, `InstalledHostBoots` |
| `lifecycle_staged_complete`, `lifecycle_previous`, `lifecycle_rollback`, `lifecycle_unsealed`, `channel_lands`, `boot_seed` | counterexamples to what a document says, see the next section |

**Refinement.** `Lifecycle` maps to `BootEntries` by `DefaultEntry` and
`PreviousEntry`. An update takes effect when `promote` starts on the ESP: while
the old UKI is in both files (`pc = "swing"`) the default entry counts as the
new one already. A rollback takes effect at its first rename: while
`fallback.efi` is away the temporary counts as the previous entry. `BootEntries`
lists the two more outcomes that an interruption there has: the update is undone
and the previous image is used up, or the rollback has happened and lost its way
back.

`HostRoles` has the three roles, what is on disk, and what a rollback has taken
out of the current role while the fallback role is not written yet (`swap`). In
`Lifecycle`, on disk is what has a `root.cfs` (the test of `lifecycle.py:125`)
and `swap` is `old` in `rollFallback`; in `Channel` they are `landed` and the
`src` of the process that is there. A rollback cut short at that point is
`SwapLost`. `Landing` has the store, the objects a landing is for, and its
phase. In `Lifecycle` the phase is "done" from the last object to the end of
`materialize`, when nothing may be removed; in `PackLanding` it is the outcome
of the landing, and the objects are the referenced ones that the index lists.

**Bounds.** `lifecycle_crashes` has three deployments, enough for a current, a
fallback and the one that displaces them, and for deploying again what gc has
removed; one object shared by all and one private object each, enough for a link
count that is right by accident for neither; one of three deployments without a
loader; two faults (`MaxAborts`: commands cut short and orphans missed), as
every finding here needs at most one and what a second adds is a command
interrupted while it works on the remains of an interrupted one, or a sweep
after one that missed an orphan. Sequences of commands are unbounded.
`pack_slices` has four objects of one and two bytes and a gap of one, so that
gaps shorter than, equal to and longer than the setting all occur, and lines
with any offset in the pack or just past it, either size and any digest, one of
them of no object; two faults (`MaxDamage`) are what it takes for one to hide
the other. `packlanding_faults` has five objects, a gap of one and two workers,
so that there are up to three ranges, more than workers. The channel runs have
two image names, two builds each (`MaxBuilds`): the one a host runs and the one
that is being published while it updates. `channel_races` identifies states that
differ only in the names of processes or of channels (`Symmetric`): the
properties quantify over both and no definition singles one out. `channel_waits`
has no symmetry, because it checks liveness. `channel_races` runs every command
with `--insecure-skip-verify`, which allows all that a checked command may do;
`channel_waits` has the checked ones, whose signature may be missing.
`boot_install` has two deployments that share an object, one without a loader;
four sets of arguments (a plain disk install, one with another label, one with
neither loader nor channel, one on mounts); two factory files, so that a seed
can be cut between them; two faults over installs and boots together (a cut
between the two `mkfs` is one), so that one can meet the remains of another; and
budgets of two and three tries, which differ and allow a device to appear
between two of them. In all of these a third element adds no case the code tells
apart.

**Deadlock** is checked except where the system does stop: `PackIndex` ends with
a refused pack or the last range, the processes of `Channel` run one command
each, and a `Boot` may end with a disk that does not boot.

**Fairness.** No run assumes that `cosign`, `oras` or `curl` ends: the retries
of `curl` are counted (`objects.py:185`), but one attempt has no time limit and
`run` waits without a timeout (`runtime.py:48`). Each liveness property about
them therefore has a second disjunct, `<>[]`, for the download that stalls for
ever, and rules out every other way to hang. `PackLanding`: weak fairness of the
main thread and of the pool's starting what is queued; the operating system runs
the threads. `Channel`: weak fairness of a command that is under way and not
downloading, and of its acquiring the lock. The kernel hands a flock to
some waiter when it is released; as every process runs one command, each waiter
gets it at last. On a host that starts commands faster than they finish, the
kernel promises no waiter in particular its turn, and the run says nothing of
that. `Boot`: weak fairness of the running install outside of its downloads and
of the running `init`, which no one schedules but the kernel; retries count
down. It says nothing of devices appearing, of faults or of the user.

## 4. What the code does not keep

Each run finds one sentence of a document or comment broken; PROJECT.json quotes
it and tells the behaviour.

| Run | What happens |
| --- | --- |
| `lifecycle_staged_complete` | `stage` takes a directory with a `root.cfs` as a finished deployment (`lifecycle.py:125`). One whose copy was interrupted is staged as it is; `promote` then dies on the missing UKI, and the staging role keeps gc from removing the directory, so every update to that image fails in the same way. |
| `lifecycle_previous` | The previous image is not always kept. An update interrupted after `current.efi` was swung and repeated copies the new UKI over `fallback.efi` (`lifecycle.py:149`): both entries are the new image while the role `fallback` names the old one. And a rollback interrupted between its two role changes (`lifecycle.py:188-190`) leaves both roles on one deployment, so the next gc removes the other, which `fallback.efi` boots. |
| `lifecycle_rollback` | A rollback interrupted between its two role changes (`lifecycle.py:188-190`) and repeated reads the same deployment for both roles (`lifecycle.py:169-170`): it swaps the ESP back, moves no role and reports success. The default entry is then a deployment without a role, and the next gc removes it. `NamedStayWhole` is silent on it, as it has no role. |
| `lifecycle_unsealed` | An object whose landing was interrupted between rename and seal (`objects.py:53-54`) counts as landed for ever and is never sealed. |
| `channel_lands` | `cosign` and `oras` each resolve the tag (`oci.py:154-156`). When it moves in between, a build that has no signature yet is landed. |
| `boot_seed` | The init takes any file in `@var` for a finished seed (`init:94`) and does not look at how `cp` ends (`init:96`). A first boot that fails while it seeds leaves a `/var` that no later boot completes. |

More of the kind, seen in the code or in variants of these runs, and without a
run of their own:

* Between the two renames of a rollback (`lifecycle.py:184-185`) there is no
  `fallback.efi`; interrupted there, the rollback cannot be repeated.
  `BootEntries!PreviousLost` is this outcome.
* gc keeps what roles name, not what is booted (`lifecycle.py:197`). Two updates
  without a reboot remove the objects that the running root is made of. No
  document promises otherwise; what does hold is `NamedStayWhole`.
* The sweep counts an object as swept whose `unlink` failed (`objects.py:354`),
  and what it reports as reclaimed may still be there until a later gc.
* `limine.conf` is written in place and an existing one is left alone
  (`bootloader.py:45`). One cut short on mounted partitions stays as it is, and
  later installs succeed around it; a disk install wipes it.
* A failed `mount` of the ESP leaves the btrfs mount made before it
  (`disk.py:79`), and the next install refuses the disk until somebody unmounts
  it; `MountsReleased` says that a failing mount or unmount, or a kill, is the
  only way to get there. On mounted partitions an install that failed after the
  directory was made cannot be repeated for the same image (`installer.py:41`).
* A UKI or loader half copied into a deployment directory is not copied again
  when the directory is reused, and goes to the ESP as it is: `promote` asks
  only whether the UKI is a file (`lifecycle.py:145`), so a command that reports
  success leaves a default entry that does not start. It is another way to break
  `StagedComplete`.
* A gc interrupted inside `rmtree`, followed by a redeploy of the same image
  interrupted while `root.cfs` is copied, ends with a current deployment whose
  holder is incomplete; the gc at the end of `promote` then sweeps its objects.
* `ZERITH_COALESCE_GAP=0`, "0 disables coalescing" (`config.py:59`), still
  merges objects that are neighbours in the pack (`objects.py:161`: their
  distance is 0). And the gap bounds each gap, not the sum of them in one
  request as `docs/objects.md:76` can be read.
* A `deploy` of another channel that is cut short after `promote` leaves
  `source.conf` on the old one (`cli.py:145-147`), and the next `update` goes
  back.

## 5. The proofs

All theorems hold for any deployments, objects, index, gap, pool size, channels,
processes and bounds. They assume only the named assumptions of the modules:
`LayoutAssumption` (`None` and `Torn` are no deployments), `StoreAssumption`
(finitely many deployments; each refers to objects), `LifecycleAssumption`,
`InstallAssumption` (arguments are arguments), `BootAssumption` (retries have at
least one try; the `/etc` overlay's directories are not factory files),
`CoalesceAssumption` (entries have an offset and a positive length; the gap is a
natural number), `PackAssumption` (digests are numbers and objects are not
empty), `LandingAssumption` (at least one worker), `ChannelAssumption` (`None`
is none of the others). TLC evaluates each of them on the instances.

**LifecycleProofs.**

* `TypeCorrect`, by one lemma per group of actions.
* `HeldObjectsStay`: `HeldObjectsPresent` is inductive with `TypeOK`. The step
  that could break it is `Sweep`; `OrphanHasNoHolder` shows from the cardinality
  of a finite set that a link count of one means no holder. The order of
  `materialize` does not matter for it, which is why it survives any
  interruption.
* `RolesStayOnDisk`: `RolesOnDisk` is not inductive. `RoleInv` adds what each
  step knows: the target of a stage is a directory with a `root.cfs`
  (`StageInv`), `promote` has checked the UKI and `staging` still names it
  (`PromoteInv`), both deployments of a rollback stand (`RollbackInv`), and gc's
  victims are unnamed and stay so, because no role changes during a gc
  (`GcInv`).
* `GcLeavesNothing`: `CollectedInv`, every directory is named by a role or still
  on gc's list, and `SweepInv`, every object without a holder is still to be
  looked at or has been missed, which holds because no link goes while the walk
  is under way.
* `EntriesRefined`: with `EntryInv` (what the ESP holds at the three steps where
  the mapping looks elsewhere) every step is a step of `BootEntries` or leaves
  both entries as they are; one lemma per group of actions, `AbortEntries` for
  the outcomes of an interruption.
* `RolesRefined`: every step is a step of `HostRoles` or leaves the roles and
  the set of `root.cfs` alone. `ProtocolInv` says what each step knows of the
  roles (a target is not current while it is built and promoted; the old
  current is the fallback when current is replaced; a rollback works on the two
  roles it has read), and `GcInv` that gc's victims are unnamed.
* `LandingRefined`: needs types only, since the mapping reads the phase off the
  position of the command.
* `MaterializedIsWhole`: `WholeInv` follows `materialize` through what it has
  established so far (objects, `root.cfs`, holder, UKI, loader) and needs that
  the directory being filled has no role (`Protected`) and that a holder never
  holds more than its deployment references.
* `NamedStay` rests on the same invariant: no command writes into, or removes
  from, a directory a role names (`NamedUntouched`), and an object that a
  complete holder has is not an orphan. No bound on interruptions enters. It
  speaks of deployments with a role: what the ESP names beside them is the
  subject of `PowerLossBoots` and of section 4.

**PowerLossProofs.** `PowerLossBoots` and `QuietHostCoherent` rest on
`CleanInv`, which holds until the first fault and says for each step what
the ESP, the roles, the directories and the store hold: nothing torn or unsealed
(`TidyInv`), roles and ESP agree outside a switch (`SettledInv`), how far a
build, a promotion and a swap are (`BuildInv`, `SwitchInv`, `SwapInv`), which
directories and objects there are (`DirsInv`, `StoreInv`). `CompleteBoots` turns
complete deployments into bootable ones. `FirstAbortBoots` shows that the first
interruption, with whatever it leaves half done, touches nothing that the
two entries need.

**CoalesceProofs.** `PassInv`: at most one running range, begun no later than
any entry that is left, and every finished range more than the gap before it.
Without the last two, two ranges might still grow into each other. It gives
`PassTypes`, `SlicesAreEntries`, `NothingForgotten`, `RequestsApart`. Entries
may overlap. `NothingIdle` is `GapsShort`, inductive with `EndsInv` (a range
ends where an entry does): a joining entry begins at most a gap after the entry
that the range ended with (`JoinShort`).

**PackIndexProofs.** `PassInv` is kept by the steps of the packer and the gate,
and so carries over. `GateInv`: every line the gate has passed without an error
lies below `expected` and its bytes are those of its object; with `SlicesExact`
it gives `CutsAreObjects`, for whatever faults and however many
(`RequestsOfIndex`: a host asks for lines of the index only). `GateNeverErrs`
rests on `CleanInv`: without a fault each line begins where the one before it
ends and there are as many as files written. `NothingTakenForInlined` rests on
`CountedInv` and a pigeonhole argument, `EveryObjectListed`: as many distinct
lines as objects leave no object out.

**PackLandingProofs.** `LandingInv` joins `PassInv`, `PoolInv` (futures are the
ranges of a finished pass; no worker is left when the landing is over) and
`PlacedInv` (what was not wanted is there, so is every slice of a buffer that is
done with). It gives `LandingComplete` and `StagingStays`. `FailuresHaveCause`
uses `SliceMeasures`: by `SlicesExact`, what is cut out of the right bytes
always measures to its digest, so only wrong bytes are refused. `LandingTypes`
adds `FutureInv`. `UnsealedCounted` is `CountInv`: the unsealed objects are
finitely many and not more than the faults, as each fault adds at most one
(`CountAdds`). `LandingRefined` shows that the steps implement `Landing`: a
slice that is placed is a wanted object that was absent (`SliceWanted`, from
`SlicesExact`), and `LandingInv` is what allows the last step; `PhaseInv` ties
the outcome to the position of the main thread.

**InstallProofs.** `InstallTypes` by one lemma per group of steps.
`CurrentStaysWhole` rests on two invariants. `StoredInv`: what the role or the
ESP names is complete (`NamedWhole`), no holder holds more than its deployment
references (`HoldersExact`), and how far `materialize` got (`BuiltInv`), with
the directory being filled named by neither. That holds because a directory that
is there is refused (`MayInstall`), and it is why no cut needs to be repaired.
It survives `mkfs.btrfs` because `mkfs.fat` goes first. `MatchInv`: the ESP is
blank between the two, and it names what the role does from `SetCurrent` to the
end of an install that succeeds. `DiskGivenBack` is the action property
`MountsReleased`. `SuccessIsWhole` is `DiskInstallWhole`: `ProgressInv` says of
each step of an install on a disk what the steps before it have left, beginning
with the ESP that `mkfs.fat` has blanked (`BlankEsp`) and then the whole disk
(`BlankDisk`); `DiskInv` adds that an ended install that reports success has
left all of it.

**BootProofs.** A step of `Boot` is a step of `Install` or leaves what
`Install`'s invariants speak of as it is (`StepFrames`, `FrameKeeps`), which
carries `InstallTypeOK` and `CurrentWhole` over (`MachineTypes`,
`BootsCurrentWhole`, `BootsKeepHost`). `VarInv` joins `SeedInv` (without a
fault, `/var` is empty, being seeded or seeded) and `EditInv` (the copy meets no
edited file) and gives `RunningIsSeeded` and `EditsStay`.

**ChannelProofs.** `Inv`: what a run has pushed at each of its steps (`CIInv`),
a tag is never newer than the last run (`TagInv`), the host runs and keeps
nothing newer than the tag (`HostInv`), and what a process knows while it has
the lock (`ProcInv`): its channel is still the one in `source.conf`, the build
it pulled is still not older than the current one (`Ahead`) or is the current
one (`Behind`). `ProcInv` is inductive because only the holder of the lock
changes the host (`OnlyHolderActs`, `OthersKeep`). It gives `ChannelTypes`,
`SignedIsComplete`, `PromotesForward` and `StaysOnChannel`. `RolesStayLanded`
adds `RoleInv`, which needs `OnlyHolderActs` again: no other process collects
between the landing of a build and its role. `RolesRefined` adds `RoleOrder`,
what a process between two role changes knows of the roles, for each process;
the others keep it as they keep `ProcInv`. A process that dies between the two
role changes of a rollback is a `SwapLost`, one that dies anywhere else a
stutter, so the next holder of the lock starts from a state of `HostRoles`.

**Proved without a run.** `LandedAll`, `UnsealedByFault`, `SlicesExact`,
`RolesLanded` and the type invariants of `Install` and `Coalesce` alone are
theorems (`LandingComplete`, `UnsealedCounted`, `SlicesAreEntries`,
`RolesStayLanded`, `InstallTypes`, `PassTypes`) that the others rest on. No run
lists them, because a run checks more: `StoreLandingSpec` for the first two,
`CutsExact`, `RolesSpec`, `MachineTypeOK` and `IndexTypeOK` for the others.

**Only model-checked.** The liveness properties (`LandingReturns`,
`WaitersReturn`, `DiskInstallRecovers`, `BootEnds`, `InstalledHostBoots`), as
the prover has no rule for fairness here. The findings are counterexamples on
small instances.

## 6. What is not modelled

* **`status` and the dry run**: they change nothing. `status` reads without the
  lock, which is listed as a hazard.
* **Names and prompts of the installer**: which partition node belongs to which
  disk, the search for the ESP's disk, the question before the wipe.
* **Parsing and formatting** (refs, the registry's token exchange, the kernel
  command line, image names, tokens, `deployment.json`, `limine.conf` text,
  progress bars): computations without interaction.
* **An install beside a host command**: `install` takes no deploy lock and is
  meant for a host that is not running. On the mounted partitions of one that
  is, a `gc` could remove the directory it fills; `Install` and `Channel` each
  have their processes to themselves.
* **Temporary directories** a failed pull leaves (`oci.py:155`): nothing reads
  them again.
* **Unsynced writes** (`layout.py:151`): see section 2.
* **A change of `--esp-size`** between two installs on one disk: the old btrfs
  would then be gone with `sgdisk`, and a cut before `mkfs.fat` would leave a
  UKI on the ESP without its deployment.
* **A download that stalls** may hold the deploy lock for ever; the models allow
  it and prove nothing about how long anything takes.
* **The image build** (Containerfile, UKI rendering, rootfs export) and the
  **bootstrap script**: straight-line calls of external tools.
* **External tools** (`cosign`, `oras`, `curl`, `fsverity`, the kernel's flock,
  btrfs, the firmware) appear by what the code relies on.

## 7. Plan

In this order:

1. Done: `Layout`, `ObjectStore`, `Lifecycle` with `BootEntries`; `Coalesce`,
   `PackLanding`; `Channel`; `Install`, composed with `Lifecycle`; `Boot`,
   composed with `Install`; `PackIndex`, composed with `Coalesce`; the proofs of
   section 5.
2. Done: refinement of the landing inside `Lifecycle` and of `PackLanding` to
   one `Landing`, of the host inside `Channel` and of `Lifecycle` to one
   `HostRoles`, with their proofs.
3. What an `install` promises as an abstract module of its own, from which
   `Boot` and `Lifecycle` start.
4. `status` as a reader without the lock, once it promises something.
