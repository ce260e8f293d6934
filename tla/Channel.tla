------------------------------ MODULE Channel ------------------------------
(***************************************************************************)
(* The way of a build from CI to the current role of a host: the two       *)
(* publishing scripts (scripts/ci/push-artifacts.sh, cosign-sign.sh) that  *)
(* a newer workflow run cancels, the registry, and the commands of         *)
(* zerithctl that read it (zerith/cli.py, oci.py), which run as processes  *)
(* of their own and contend for the lock on @deploy.                       *)
(*                                                                         *)
(* What stage, promote and gc do to the files and the ESP is the subject   *)
(* of Lifecycle; here a build lands, or goes, in one step.  A ref pinned   *)
(* to a deploy id is a channel that carries one build.  Each process runs  *)
(* one command.                                                            *)
(***************************************************************************)
EXTENDS Naturals

CONSTANTS
    Channels,       \* the refs whose tag CI moves: one per image name
    Procs,          \* the processes of zerithctl
    Kinds,          \* the commands they run
    Skips,          \* the values of --insecure-skip-verify they are given
    None,           \* no ref, no build, no process
    MaxBuilds       \* bound: the workflow runs of a channel

Build == [channel : Channels, n : 1..MaxBuilds]

ASSUME ChannelAssumption ==
    /\ MaxBuilds \in Nat
    /\ Kinds \subseteq {"deploy", "update", "rollback", "gc"}
    /\ Skips \subseteq BOOLEAN
    /\ None \notin Channels \cup Procs \cup Build

VARIABLES
    build,          \* build[c]: the number of the last workflow run
    step,           \* step[c]: what that run has done
    registry,       \* registry[b]: the parts of build b that are there
    tag,            \* tag[c]: the build the tag of c points at
    conf,           \* the ref in source.conf
    current,        \* the build in the current role
    fallback,       \* the build in the fallback role
    staging,        \* the build in the staging role
    landed,         \* the builds with a complete deployment on disk
    pc,             \* pc[p]: where process p is
    cmd,            \* cmd[p]: what it was asked for
    src,            \* src[p]: the build it pulled, rollback's cur
    lock            \* the process that holds the flock on @deploy

ciVars == <<build, step, registry, tag>>
hostVars == <<conf, current, fallback, staging, landed>>
procVars == <<pc, cmd, src, lock>>
vars == <<ciVars, hostVars, procVars>>

Parts == {"deployment", "objects", "signature"}

Command ==
    [kind : {"deploy", "update", "rollback", "gc"},
     ref : Channels \cup {None}, skip : BOOLEAN]

Ended == {"ok", "failed"}

TypeOK ==
    /\ build \in [Channels -> 0..MaxBuilds]
    /\ step \in [Channels -> {"built", "pushed", "tagged", "packed", "idle"}]
    /\ registry \in [Build -> SUBSET Parts]
    /\ tag \in [Channels -> Build \cup {None}]
    /\ conf \in Channels \cup {None}
    /\ current \in Build
    /\ {fallback, staging} \subseteq Build \cup {None}
    /\ landed \subseteq Build
    /\ pc \in [Procs -> {"new", "lock", "held", "verify", "pull", "compare",
                         "stage", "mark", "promote", "current", "clear", "gc",
                         "swap", "conf"} \cup Ended]
    /\ cmd \in [Procs -> Command \cup {None}]
    /\ src \in [Procs -> Build \cup {None}]
    /\ lock \in Procs \cup {None}

\* A channel has had no build yet or one that was published to the end.  The
\* host was installed from such a build, by ref or from a local directory:
\* install_deploy seeds source.conf only in the first case.
Init ==
    /\ build \in [Channels -> 0..1]
    /\ step = [c \in Channels |-> "idle"]
    /\ tag = [c \in Channels |->
                IF build[c] = 1 THEN [channel |-> c, n |-> 1] ELSE None]
    /\ registry = [b \in Build |->
                     IF b.n <= build[b.channel] THEN Parts ELSE {}]
    /\ current \in {b \in Build : b.n <= build[b.channel]}
    /\ conf \in {None, current.channel}
    /\ fallback = None
    /\ staging = None
    /\ landed = {current}
    /\ pc = [p \in Procs |-> "new"]
    /\ cmd = [p \in Procs |-> None]
    /\ src = [p \in Procs |-> None]
    /\ lock = None

----------------------------------------------------------------------------
(* CI.  A workflow run may stop at any step, and the next one cancels it.  *)

Building(c) == [channel |-> c, n |-> build[c]]

StartBuild(c) ==
    /\ build[c] < MaxBuilds
    /\ build' = [build EXCEPT ![c] = @ + 1]
    /\ step' = [step EXCEPT ![c] = "built"]
    /\ UNCHANGED <<registry, tag, hostVars, procVars>>

\* The run for c goes from one step to the next, and a part is uploaded.
Upload(c, from, part, to) ==
    /\ step[c] = from
    /\ step' = [step EXCEPT ![c] = to]
    /\ registry' = [registry EXCEPT ![Building(c)] = @ \cup {part}]
    /\ UNCHANGED <<build, tag, hostVars, procVars>>

PushDeployment(c) == Upload(c, "built", "deployment", "pushed")

MoveTag(c) ==
    /\ step[c] = "pushed"
    /\ step' = [step EXCEPT ![c] = "tagged"]
    /\ tag' = [tag EXCEPT ![c] = Building(c)]
    /\ UNCHANGED <<build, registry, hostVars, procVars>>

PushObjects(c) == Upload(c, "tagged", "objects", "packed")

\* Seeded fault: the artifact is signed as soon as the tag has moved.
SignEarly(c) == Upload(c, "tagged", "signature", "idle")

Sign(c) == Upload(c, "packed", "signature", "idle")

CI(c) ==
    StartBuild(c) \/ PushDeployment(c) \/ MoveTag(c) \/ PushObjects(c)
        \/ Sign(c)

----------------------------------------------------------------------------
(* A command of zerithctl: the lock first, then everything else under it.  *)

Goto(p, from, to) ==
    /\ pc[p] = from
    /\ pc' = [pc EXCEPT ![p] = to]

\* Seeded fault: a command that dies goes without giving up the lock.
EndHolding(p, how) ==
    /\ pc' = [pc EXCEPT ![p] = how]
    /\ cmd' = [cmd EXCEPT ![p] = None]
    /\ src' = [src EXCEPT ![p] = None]
    /\ lock' = IF lock = p /\ how = "ok" THEN None ELSE lock

\* The process ends; closing the descriptor gives up the lock, if it had it.
End(p, how) ==
    /\ pc' = [pc EXCEPT ![p] = how]
    /\ cmd' = [cmd EXCEPT ![p] = None]
    /\ src' = [src EXCEPT ![p] = None]
    /\ lock' = IF lock = p THEN None ELSE lock

Run(p, k, c, skip) ==
    /\ Goto(p, "new", "lock")
    /\ cmd' = [cmd EXCEPT ![p] =
                 [kind |-> k, ref |-> IF k = "deploy" THEN c ELSE None,
                  skip |-> skip]]
    /\ UNCHANGED <<ciVars, hostVars, src, lock>>

\* Seeded fault: the lock is not held while objects land.
AcquireWhileLanding(p) ==
    /\ Goto(p, "lock", "held")
    /\ \A q \in Procs : lock = q => pc[q] = "stage"
    /\ lock' = p
    /\ UNCHANGED <<ciVars, hostVars, cmd, src>>

Acquire(p) ==
    /\ Goto(p, "lock", "held")
    /\ lock = None
    /\ lock' = p
    /\ UNCHANGED <<ciVars, hostVars, cmd, src>>

\* read_source; `deploy` has its ref from the command line.
Target(p) == IF cmd[p].kind = "update" THEN conf ELSE cmd[p].ref

Resolve(p) ==
    /\ Goto(p, "held", "verify")
    /\ cmd[p].kind \in {"deploy", "update"}
    /\ cmd[p].kind = "update" => conf # None
    /\ cmd' = [cmd EXCEPT ![p] =
                 [kind |-> @.kind, ref |-> Target(p), skip |-> @.skip]]
    /\ UNCHANGED <<ciVars, hostVars, src, lock>>

NoChannel(p) ==
    /\ pc[p] = "held"
    /\ cmd[p].kind = "update" /\ conf = None
    /\ End(p, "failed")
    /\ UNCHANGED <<ciVars, hostVars>>

Has(b, part) == b # None /\ part \in registry[b]

\* cosign resolves the tag ...
Verify(p) ==
    /\ Goto(p, "verify", "pull")
    /\ cmd[p].skip \/ Has(tag[cmd[p].ref], "signature")
    /\ UNCHANGED <<ciVars, hostVars, cmd, src, lock>>

VerifyFails(p) ==
    /\ pc[p] = "verify"
    /\ ~cmd[p].skip /\ ~Has(tag[cmd[p].ref], "signature")
    /\ End(p, "failed")
    /\ UNCHANGED <<ciVars, hostVars>>

\* ... and oras resolves it once more.
Pull(p) ==
    /\ Goto(p, "pull", "compare")
    /\ tag[cmd[p].ref] # None
    /\ src' = [src EXCEPT ![p] = tag[cmd[p].ref]]
    /\ UNCHANGED <<ciVars, hostVars, cmd, lock>>

PullFails(p) ==
    /\ pc[p] = "pull"
    /\ tag[cmd[p].ref] = None
    /\ End(p, "failed")
    /\ UNCHANGED <<ciVars, hostVars>>

\* The last thing `deploy` does is to write source.conf; `update` returns.
FinishDeploying(p) ==
    \/ /\ cmd[p].kind = "deploy"
       /\ pc' = [pc EXCEPT ![p] = "conf"]
       /\ UNCHANGED <<cmd, src, lock>>
    \/ cmd[p].kind = "update" /\ End(p, "ok")

\* Seeded fault: a deployment that is up to date leaves source.conf alone.
UpToDateEnds(p) ==
    /\ pc[p] = "compare"
    /\ src[p] = current
    /\ End(p, "ok")
    /\ UNCHANGED <<ciVars, hostVars>>

UpToDate(p) ==
    /\ pc[p] = "compare"
    /\ src[p] = current
    /\ FinishDeploying(p)
    /\ UNCHANGED <<ciVars, hostVars>>

Compare(p) ==
    /\ Goto(p, "compare", "stage")
    /\ src[p] # current
    /\ UNCHANGED <<ciVars, hostVars, cmd, src, lock>>

\* A deployment that is on disk is used again; else its objects are fetched.
Stage(p) ==
    /\ Goto(p, "stage", "mark")
    /\ src[p] \in landed \/ "objects" \in registry[src[p]]
    /\ landed' = landed \cup {src[p]}
    /\ UNCHANGED <<ciVars, conf, current, fallback, staging, cmd, src, lock>>

MarkStaging(p) ==
    /\ Goto(p, "mark", "promote")
    /\ staging' = src[p]
    /\ UNCHANGED <<ciVars, conf, current, fallback, landed, cmd, src, lock>>

StageFails(p) ==
    /\ pc[p] = "stage"
    /\ src[p] \notin landed /\ "objects" \notin registry[src[p]]
    /\ End(p, "failed")
    /\ UNCHANGED <<ciVars, hostVars>>

\* A step of promote that changes one role and goes on to the next.
RoleStep(p, from, to) ==
    /\ Goto(p, from, to)
    /\ UNCHANGED <<ciVars, conf, landed, cmd, src, lock>>

DemoteRole(p) ==
    /\ RoleStep(p, "promote", "current")
    /\ fallback' = current
    /\ UNCHANGED <<current, staging>>

PromoteRole(p) ==
    /\ RoleStep(p, "current", "clear")
    /\ current' = src[p]
    /\ UNCHANGED <<fallback, staging>>

ClearStaging(p) ==
    /\ RoleStep(p, "clear", "gc")
    /\ staging' = None
    /\ UNCHANGED <<current, fallback>>

WriteSource(p) ==
    /\ pc[p] = "conf"
    /\ conf' = cmd[p].ref
    /\ End(p, "ok")
    /\ UNCHANGED <<ciVars, current, fallback, staging, landed>>

\* Seeded fault: the fallback role is not looked at first.
RollbackUnchecked(p) ==
    /\ Goto(p, "held", "swap")
    /\ cmd[p].kind = "rollback"
    /\ current' = fallback
    /\ src' = [src EXCEPT ![p] = current]
    /\ UNCHANGED <<ciVars, conf, fallback, staging, landed, cmd, lock>>

Rollback(p) ==
    /\ Goto(p, "held", "swap")
    /\ cmd[p].kind = "rollback" /\ fallback # None
    /\ current' = fallback
    /\ src' = [src EXCEPT ![p] = current]
    /\ UNCHANGED <<ciVars, conf, fallback, staging, landed, cmd, lock>>

SwapFallback(p) ==
    /\ pc[p] = "swap"
    /\ fallback' = src[p]
    /\ End(p, "ok")
    /\ UNCHANGED <<ciVars, conf, current, staging, landed>>

NoFallback(p) ==
    /\ pc[p] = "held"
    /\ cmd[p].kind = "rollback" /\ fallback = None
    /\ End(p, "failed")
    /\ UNCHANGED <<ciVars, hostVars>>

\* gc, as a command or at the end of promote: every directory goes that no
\* role points at, whoever left it.
CollectGarbage(p) ==
    /\ \/ pc[p] = "held" /\ cmd[p].kind = "gc" /\ End(p, "ok")
       \/ pc[p] = "gc" /\ FinishDeploying(p)
    /\ landed' = landed \cap {current, fallback, staging}
    /\ UNCHANGED <<ciVars, conf, current, fallback, staging>>

Working(p) ==
    \/ Resolve(p) \/ NoChannel(p)
    \/ Verify(p) \/ VerifyFails(p)
    \/ Pull(p) \/ PullFails(p)
    \/ UpToDate(p) \/ Compare(p)
    \/ Stage(p) \/ StageFails(p) \/ MarkStaging(p)
    \/ DemoteRole(p) \/ PromoteRole(p) \/ ClearStaging(p)
    \/ WriteSource(p)
    \/ Rollback(p) \/ SwapFallback(p) \/ NoFallback(p)
    \/ CollectGarbage(p)

\* A signal, a failed transfer, an exception of the operating system.
Die(p) ==
    /\ pc[p] \notin {"new"} \cup Ended
    /\ End(p, "failed")
    /\ UNCHANGED <<ciVars, hostVars>>

Process(p) ==
    \/ \E k \in Kinds, c \in Channels, skip \in Skips : Run(p, k, c, skip)
    \/ Acquire(p)
    \/ Working(p)
    \/ Die(p)

Next == (\E c \in Channels : CI(c)) \/ (\E p \in Procs : Process(p))

Spec == Init /\ [][Next]_vars

\* cosign, oras and curl run without a timeout.
Downloading == {"verify", "pull", "stage"}

\* A command that waits for no registry goes on, and the kernel hands the lock
\* to a waiter.
FairSpec ==
    /\ Spec
    /\ \A p \in Procs :
          /\ WF_vars(pc[p] \notin Downloading /\ Working(p))
          /\ WF_vars(Acquire(p))

----------------------------------------------------------------------------
(* What publishing and pulling promise.                                    *)

\* A signature says more than who made the build: once it is there, so is
\* everything a host needs to land the build, although the tag moves before
\* the objects are pushed.
SignedComplete ==
    \A b \in Build : "signature" \in registry[b] => registry[b] = Parts

\* `update` and `deploy` never replace a build by an older one of the same
\* channel: what was pulled is still the newest that any command has seen,
\* whatever ran while this one waited or was cut short half way through its
\* roles, and whatever CI published since.
NeverBackwards ==
    [][\A p \in Procs :
         (/\ pc[p] = "current" /\ pc'[p] = "clear"
          /\ current' # current
          /\ current'.channel = current.channel)
            => current'.n > current.n]_vars

\* A `deploy` or an `update` that succeeds leaves the host on a build of the
\* channel in source.conf, although it read or will write source.conf at
\* another moment than it promotes.
OnChannel ==
    [][\A p \in Procs :
         (/\ pc[p] \notin Ended /\ pc'[p] = "ok"
          /\ cmd[p].kind \in {"deploy", "update"})
            => current'.channel = conf']_vars

\* What a role points at is on disk, and so is what a command is about to give
\* a role, although any command may be cut short between two role changes, or
\* between landing a build and its role, and a gc, its own or one that another
\* terminal runs, removes whatever has none.
RolesLanded ==
    /\ {current, fallback, staging} \ {None} \subseteq landed
    /\ \A p \in Procs :
          pc[p] \in {"mark", "promote", "current", "swap"}
            => src[p] \in landed

\* With any number of commands in any number of terminals the roles still
\* follow the protocol of HostRoles, as if there were one command at a time:
\* a command that is cut short between two role changes leaves nothing that
\* the one which takes the lock next does not cope with.
Swapped == IF lock # None /\ pc[lock] = "swap" THEN src[lock] ELSE None

HostProtocol == INSTANCE HostRoles
    WITH Builds <- Build,
         swap <- Swapped

RolesSpec == HostProtocol!Spec

\* Every command that waits for the lock goes on to its end: whoever holds it
\* gives it up, at its end or when it is cut short, and nothing but a download
\* that stalls under the lock keeps it, and with it every waiter, for ever.
WaitersReturn ==
    \/ \A p \in Procs : pc[p] = "lock" ~> pc[p] \in Ended
    \/ \E q \in Procs : <>[](lock = q /\ pc[q] \in Downloading)

----------------------------------------------------------------------------
(* What the documents say of them and the code does not keep.              *)

\* "zerithctl verifies that signature before anything is allowed to land on
\* disk" (docs/integrity.md).
LandsVerified ==
    [][\A b \in landed' \ landed : "signature" \in registry[b]]_vars
=============================================================================
