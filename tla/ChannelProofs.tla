--------------------------- MODULE ChannelProofs ---------------------------
(***************************************************************************)
(* Proofs about Channel, for any number of channels, processes and builds: *)
(* publishing is complete when it is signed, and the lock serialises the   *)
(* commands so that no host goes backwards or ends up off its channel.     *)
(***************************************************************************)
EXTENDS Channel, TLAPS

\* Where a process holds the lock, and where it knows its ref.
Locked == {"held", "verify", "pull", "compare", "stage", "mark", "promote",
           "current", "clear", "gc", "swap", "conf"}

Resolved == Locked \ {"held", "swap"}

\* The steps before and after the current role names the build that was pulled.
Ahead == {"compare", "stage", "mark", "promote", "current"}

Behind == {"clear", "gc", "conf"}

----------------------------------------------------------------------------
(* The inductive invariant.  CIInv: what the steps of a workflow run have  *)
(* put into the registry.  HostInv: the tag of a channel is at least as    *)
(* new as any build of it that the host runs or keeps.  ProcInv(p): what   *)
(* process p knows, which stays true because it has the lock.              *)

StepInv(c) ==
    /\ step[c] # "idle" => build[c] > 0
    /\ step[c] = "built" => registry[Building(c)] = {}
    /\ step[c] \in {"pushed", "tagged"}
         => registry[Building(c)] = {"deployment"}
    /\ step[c] = "packed"
         => registry[Building(c)] = {"deployment", "objects"}

CIInv ==
    /\ \A c \in Channels : StepInv(c)
    /\ \A b \in Build : b.n > build[b.channel] => registry[b] = {}
    /\ SignedComplete

TagInv ==
    \A c \in Channels :
        tag[c] # None => tag[c].channel = c /\ tag[c].n <= build[c]

Seen(b) == tag[b.channel] # None /\ b.n <= tag[b.channel].n

HostInv == Seen(current) /\ (fallback # None => Seen(fallback))

RoleInv == {current, fallback, staging} \ {None} \subseteq landed

Pulled(p) ==
    /\ src[p] \in Build
    /\ src[p].channel = cmd[p].ref
    /\ Seen(src[p])
    /\ current.channel = cmd[p].ref => current.n <= src[p].n

ProcInv(p) ==
    /\ pc[p] \notin {"new"} \cup Ended
         => /\ cmd[p] \in Command
            /\ cmd[p].kind = "deploy" => cmd[p].ref \in Channels
    /\ pc[p] \in Locked => lock = p
    /\ pc[p] \in Resolved
         => cmd[p].ref \in Channels /\ cmd[p].kind \in {"deploy", "update"}
    /\ pc[p] \in Resolved /\ cmd[p].kind = "update" => cmd[p].ref = conf
    /\ pc[p] \in Ahead => Pulled(p)
    /\ pc[p] \in Ahead \ {"compare"} => src[p] # current
    /\ pc[p] \in {"mark", "promote", "current", "swap"} => src[p] \in landed
    /\ pc[p] \in Behind => current.channel = cmd[p].ref
    /\ pc[p] = "conf" => cmd[p].kind = "deploy"
    /\ pc[p] = "swap"
         => src[p] \in Build /\ Seen(src[p]) /\ cmd[p].kind = "rollback"

Inv ==
    /\ TypeOK
    /\ CIInv
    /\ TagInv
    /\ HostInv
    /\ RoleInv
    /\ \A p \in Procs : ProcInv(p)

----------------------------------------------------------------------------
LEMMA InitInv == Init => Inv
<1> SUFFICES ASSUME Init PROVE Inv
  OBVIOUS
<1>1. TypeOK
  BY ChannelAssumption DEF Init, TypeOK, Build, Parts, Ended
<1>2. CIInv
  BY <1>1 DEF Init, CIInv, StepInv, SignedComplete, TypeOK, Build, Parts
<1>3. TagInv
  BY DEF Init, TagInv
<1>4. HostInv
  <2>1. current \in Build /\ current.n <= build[current.channel]
        /\ current.channel \in Channels /\ current.n \in 1..MaxBuilds
    BY DEF Init, Build
  <2>2. build[current.channel] = 1 /\ current.n = 1
    BY <2>1, ChannelAssumption DEF Init
  <2>3. tag[current.channel] = [channel |-> current.channel, n |-> 1]
    BY <2>1, <2>2 DEF Init
  <2>4. tag[current.channel] \in Build
    BY <2>1, <2>2, <2>3 DEF Build
  <2>5. Seen(current)
    <3>1. tag[current.channel].n = 1
      BY <2>3
    <3> QED BY <2>2, <2>4, <3>1, ChannelAssumption DEF Seen
  <2> QED BY <2>5 DEF Init, HostInv
<1>5. \A p \in Procs : ProcInv(p)
  BY DEF Init, ProcInv, Locked, Resolved, Ahead, Behind
<1>6. RoleInv
  BY DEF Init, RoleInv
<1> QED BY <1>1, <1>2, <1>3, <1>4, <1>5, <1>6 DEF Inv

----------------------------------------------------------------------------
(* The steps of CI.  They leave the host alone; all it can notice is that  *)
(* a tag has moved, and that only forwards.                                *)

LEMMA HostNotices ==
  ASSUME Inv, UNCHANGED <<hostVars, procVars>>, TypeOK', CIInv', TagInv',
         \A b \in Build : Seen(b) => Seen(b)'
  PROVE  Inv'
<1>1. HostInv'
  BY DEF Inv, HostInv, hostVars, TypeOK
<1>2. ASSUME NEW p \in Procs PROVE ProcInv(p)'
  BY DEF Inv, ProcInv, Pulled, hostVars, procVars
<1>3. RoleInv'
  BY DEF Inv, RoleInv, hostVars
<1> QED BY <1>1, <1>2, <1>3 DEF Inv

LEMMA Published ==
  ASSUME Inv, NEW c \in Channels, step[c] # "idle"
  PROVE  build[c] \in 1..MaxBuilds /\ Building(c) \in Build
<1>1. build[c] \in 0..MaxBuilds /\ build[c] > 0
  BY DEF Inv, TypeOK, CIInv, StepInv
<1> QED BY <1>1, ChannelAssumption DEF Building, Build

LEMMA CIStep ==
  ASSUME Inv, NEW c \in Channels, CI(c)
  PROVE  Inv'
<1> USE DEF Inv
<1>1. build[c] \in Nat /\ build[c] <= MaxBuilds
  BY ChannelAssumption DEF TypeOK
<1>2. CASE StartBuild(c)
  <2>1. build' = [build EXCEPT ![c] = build[c] + 1]
        /\ step' = [step EXCEPT ![c] = "built"]
        /\ registry' = registry /\ tag' = tag
    BY <1>2 DEF StartBuild
  <2>2. TypeOK'
    BY <1>1, <1>2, <2>1, ChannelAssumption
       DEF StartBuild, TypeOK, hostVars, procVars
  <2>3. CIInv'
    <3>1. ASSUME NEW b \in Build, b.n > build'[b.channel]
          PROVE  registry[b] = {}
      BY <1>1, <2>1, <3>1, ChannelAssumption DEF CIInv, TypeOK, Build
    <3>2. Building(c)' \in Build
      BY <1>1, <1>2, <2>1, ChannelAssumption
         DEF StartBuild, Building, Build, TypeOK
    <3>3. registry[Building(c)'] = {}
      BY <1>1, <2>1, <3>2 DEF CIInv, Building, TypeOK
    <3>4. ASSUME NEW d \in Channels PROVE StepInv(d)'
      BY <1>1, <2>1, <3>3, <3>4 DEF CIInv, StepInv, Building, TypeOK
    <3> QED BY <2>1, <3>1, <3>4 DEF CIInv, SignedComplete
  <2>4. TagInv'
    BY <1>1, <2>1, ChannelAssumption DEF TagInv, TypeOK, Build
  <2>5. \A b \in Build : Seen(b) => Seen(b)'
    BY <2>1 DEF Seen
  <2> QED BY <1>2, <2>2, <2>3, <2>4, <2>5, HostNotices DEF StartBuild
<1>3. CASE MoveTag(c)
  <2>1. build[c] \in 1..MaxBuilds /\ Building(c) \in Build
    BY <1>3, Published DEF MoveTag
  <2>2. TypeOK'
    BY <1>3, <2>1 DEF MoveTag, TypeOK, hostVars, procVars
  <2>3. CIInv'
    BY <1>3 DEF MoveTag, CIInv, StepInv, SignedComplete, Building, TypeOK
  <2>4. TagInv'
    BY <1>1, <1>3 DEF MoveTag, TagInv, Building, TypeOK
  <2>5. ASSUME NEW b \in Build, Seen(b) PROVE Seen(b)'
    <3>1. b.channel \in Channels /\ b.n \in Nat
      BY ChannelAssumption DEF Build
    <3>2. CASE b.channel = c
      <4>1. tag[c] \in Build /\ tag[c].n \in Nat
        BY <2>5, <3>2, ChannelAssumption DEF Seen, TypeOK, Build
      <4>2. b.n <= build[c]
        BY <1>1, <2>5, <3>1, <3>2, <4>1 DEF Seen, TagInv
      <4>3. tag'[c] = Building(c) /\ Building(c).n = build[c]
        BY <1>3 DEF MoveTag, Building, TypeOK
      <4> QED BY <2>1, <3>2, <4>2, <4>3, ChannelAssumption DEF Seen
    <3>3. CASE b.channel # c
      BY <1>3, <2>5, <3>1, <3>3 DEF MoveTag, Seen, TypeOK
    <3> QED BY <3>2, <3>3
  <2> QED BY <1>3, <2>2, <2>3, <2>4, <2>5, HostNotices DEF MoveTag
<1>4. ASSUME NEW from \in {"built", "tagged", "packed"},
             NEW part \in Parts, NEW to \in {"pushed", "packed", "idle"},
             Upload(c, from, part, to),
             to = "pushed" =>
               registry[Building(c)] \cup {part} = {"deployment"},
             to = "packed" =>
               registry[Building(c)] \cup {part} = {"deployment", "objects"},
             to = "idle" => registry[Building(c)] \cup {part} = Parts,
             part = "signature" => to = "idle",
             "signature" \notin registry[Building(c)]
      PROVE  Inv'
  <2>1. build[c] \in 1..MaxBuilds /\ Building(c) \in Build
    BY <1>4, Published DEF Upload
  <2>2. /\ registry' = [registry EXCEPT ![Building(c)] =
                          registry[Building(c)] \cup {part}]
        /\ step' = [step EXCEPT ![c] = to]
        /\ build' = build /\ tag' = tag
    BY <1>4 DEF Upload
  <2>3. TypeOK'
    BY <1>4, <2>1, <2>2 DEF Upload, TypeOK, hostVars, procVars
  <2>4. CIInv'
    <3>1. registry'[Building(c)] = registry[Building(c)] \cup {part}
      BY <2>1, <2>2 DEF TypeOK
    <3>2. \A b \in Build \ {Building(c)} : registry'[b] = registry[b]
      BY <2>2 DEF TypeOK
    <3>3. \A d \in Channels \ {c} : Building(d) # Building(c)
      BY DEF Building
    <3>4. \A d \in Channels : step[d] # "idle" => Building(d) \in Build
      BY Published
    <3>5. ASSUME NEW d \in Channels PROVE StepInv(d)'
      <4>1. CASE d = c
        <5>1. /\ step'[d] = to /\ build'[d] = build[d]
              /\ (registry[Building(d)])' = registry[Building(c)] \cup {part}
          BY <2>2, <3>1, <4>1 DEF TypeOK, Building
        <5> QED BY <1>4, <2>1, <4>1, <5>1 DEF StepInv
      <4>2. CASE d # c
        <5>1. step'[d] = step[d] /\ Building(d)' = Building(d)
          BY <2>2, <4>2 DEF TypeOK, Building
        <5>2. CASE step[d] = "idle"
          BY <5>1, <5>2 DEF StepInv
        <5>3. CASE step[d] # "idle"
          <6>1. registry'[Building(d)'] = registry[Building(d)]
            BY <3>2, <3>3, <3>4, <4>2, <5>1, <5>3
          <6>2. StepInv(d) /\ build'[d] = build[d]
            BY <2>2 DEF CIInv
          <6>3. (registry[Building(d)])' = registry[Building(d)]
            BY <6>1
          <6> QED BY <5>1, <6>2, <6>3 DEF StepInv
        <5> QED BY <5>2, <5>3
      <4> QED BY <4>1, <4>2
    <3>6. \A b \in Build : b.n > build[b.channel] => registry'[b] = {}
      BY <1>1, <3>2 DEF CIInv, Building, Build
    <3>7. SignedComplete'
      BY <1>4, <3>1, <3>2 DEF SignedComplete, CIInv, Parts
    <3> QED BY <2>2, <3>5, <3>6, <3>7 DEF CIInv
  <2>5. TagInv'
    BY <2>2 DEF TagInv
  <2>6. \A b \in Build : Seen(b) => Seen(b)'
    BY <2>2 DEF Seen
  <2> QED BY <1>4, <2>3, <2>4, <2>5, <2>6, HostNotices DEF Upload
<1>5. CASE PushDeployment(c)
  BY <1>4, <1>5 DEF PushDeployment, Upload, CIInv, StepInv, Parts
<1>6. CASE PushObjects(c)
  BY <1>4, <1>6 DEF PushObjects, Upload, CIInv, StepInv, Parts
<1>7. CASE Sign(c)
  BY <1>4, <1>7 DEF Sign, Upload, CIInv, StepInv, Parts
<1> QED BY <1>2, <1>3, <1>5, <1>6, <1>7 DEF CI

----------------------------------------------------------------------------
(* The steps of a process.  They leave CI alone.  While a process has the  *)
(* lock no other is past taking it, so what it knows about the host is     *)
(* changed by nobody but itself.                                           *)

LEMMA OthersUnmoved ==
  ASSUME Inv, NEW p \in Procs, Process(p), NEW q \in Procs, q # p
  PROVE  /\ pc'[q] = pc[q] /\ cmd'[q] = cmd[q] /\ src'[q] = src[q]
         /\ UNCHANGED ciVars
  BY DEF Inv, TypeOK, Process, Working, Run, Acquire, Resolve, NoChannel,
         Verify, VerifyFails, Pull, PullFails, UpToDate, Compare, Stage,
         MarkStaging, StageFails, DemoteRole, PromoteRole, ClearStaging,
         RoleStep, WriteSource, Rollback, SwapFallback, NoFallback,
         CollectGarbage, Die, FinishDeploying, End, Goto

LEMMA OnlyHolderActs ==
  ASSUME Inv, NEW p \in Procs, Process(p), NEW q \in Procs, q # p,
         pc[q] \in Locked
  PROVE  UNCHANGED <<hostVars, lock>>
  BY ChannelAssumption
     DEF Inv, TypeOK, ProcInv, Locked, Process, Working, Run, Acquire, Resolve,
         NoChannel, Verify, VerifyFails, Pull, PullFails, UpToDate, Compare,
         Stage, MarkStaging, StageFails, DemoteRole, PromoteRole, ClearStaging,
         RoleStep, WriteSource, Rollback, SwapFallback, NoFallback,
         CollectGarbage, Die, FinishDeploying, End, Goto

LEMMA OthersKeep ==
  ASSUME Inv, NEW p \in Procs, Process(p), NEW q \in Procs, q # p
  PROVE  ProcInv(q)'
<1>1. /\ pc'[q] = pc[q] /\ cmd'[q] = cmd[q] /\ src'[q] = src[q]
      /\ UNCHANGED ciVars
  BY OthersUnmoved
<1>2. CASE pc[q] \in Locked
  <2>1. UNCHANGED <<hostVars, lock>>
    BY <1>2, OnlyHolderActs
  <2> QED BY <1>1, <2>1
          DEF Inv, ProcInv, Pulled, Seen, hostVars, ciVars
<1>3. CASE pc[q] \notin Locked
  BY <1>1, <1>3 DEF Inv, ProcInv, Locked, Resolved, Ahead, Behind
<1> QED BY <1>2, <1>3

LEMMA RunStep ==
  ASSUME Inv, NEW p \in Procs, NEW k \in Kinds, NEW c \in Channels,
         NEW skip \in Skips, Run(p, k, c, skip)
  PROVE  TypeOK' /\ HostInv' /\ ProcInv(p)'
<1>1. [kind |-> k, ref |-> IF k = "deploy" THEN c ELSE None, skip |-> skip]
        \in Command
  BY ChannelAssumption DEF Command
<1>2. TypeOK'
  BY <1>1 DEF Inv, Run, Goto, TypeOK, ciVars, hostVars
<1>3. HostInv'
  BY DEF Inv, Run, HostInv, Seen, ciVars, hostVars
<1>4. /\ pc'[p] = "lock" /\ cmd'[p] \in Command
      /\ cmd'[p].kind = "deploy" => cmd'[p].ref \in Channels
  BY <1>1 DEF Inv, Run, Goto, TypeOK
<1>5. ProcInv(p)'
  BY <1>4 DEF ProcInv, Locked, Resolved, Ahead, Behind
<1> QED BY <1>2, <1>3, <1>5

\* A process that ends takes nothing with it but the lock.
LEMMA EndStep ==
  ASSUME Inv, NEW p \in Procs, NEW how \in Ended, End(p, how),
         UNCHANGED ciVars,
         conf' \in Channels \cup {None}, landed' \subseteq Build,
         staging' \in Build \cup {None},
         current' \in Build, fallback' \in Build \cup {None}
  PROVE  TypeOK' /\ ProcInv(p)'
<1>1. TypeOK'
  BY DEF Inv, End, TypeOK, ciVars
<1>2. pc'[p] = how
  BY DEF Inv, End, TypeOK
<1>3. ProcInv(p)'
  BY <1>2 DEF ProcInv, Ended, Locked, Resolved, Ahead, Behind
<1> QED BY <1>1, <1>3

\* Ending with the host as it is.
LEMMA QuietEndStep ==
  ASSUME Inv, NEW p \in Procs, NEW how \in Ended, End(p, how),
         UNCHANGED <<ciVars, hostVars>>
  PROVE  TypeOK' /\ HostInv' /\ ProcInv(p)'
<1>1. TypeOK' /\ ProcInv(p)'
  BY EndStep DEF Inv, TypeOK, hostVars
<1>2. HostInv'
  BY DEF Inv, HostInv, Seen, ciVars, hostVars
<1> QED BY <1>1, <1>2

\* Going on to the next step of the command with the host as it is.
LEMMA GotoStep ==
  ASSUME Inv, NEW p \in Procs, NEW from \in Locked \cup {"lock"},
         NEW to \in Locked, Goto(p, from, to),
         cmd' \in [Procs -> Command \cup {None}],
         src' \in [Procs -> Build \cup {None}],
         lock' \in Procs \cup {None},
         UNCHANGED <<ciVars, conf, current, fallback>>,
         landed' \subseteq Build, staging' \in Build \cup {None}
  PROVE  TypeOK' /\ HostInv' /\ pc'[p] = to
<1>1. TypeOK' /\ pc'[p] = to
  BY DEF Inv, Goto, TypeOK, ciVars, Locked
<1>2. HostInv'
  BY DEF Inv, HostInv, Seen, ciVars
<1> QED BY <1>1, <1>2

LEMMA AcquireStep ==
  ASSUME Inv, NEW p \in Procs, Acquire(p)
  PROVE  TypeOK' /\ HostInv' /\ ProcInv(p)'
<1>1. TypeOK' /\ HostInv' /\ pc'[p] = "held"
  BY GotoStep DEF Inv, Acquire, TypeOK, Locked, ciVars, hostVars
<1>2. ProcInv(p)'
  BY <1>1
     DEF Inv, Acquire, Goto, TypeOK, ProcInv, Locked, Resolved, Ahead, Behind,
         Ended
<1> QED BY <1>1, <1>2

LEMMA ResolveStep ==
  ASSUME Inv, NEW p \in Procs, Resolve(p)
  PROVE  TypeOK' /\ HostInv' /\ ProcInv(p)'
<1>1. pc[p] = "held" /\ cmd[p] \in Command /\ lock = p
  BY DEF Inv, Resolve, Goto, ProcInv, Locked, Ended
<1>2. Target(p) \in Channels
  BY <1>1 DEF Inv, Resolve, Target, Command, TypeOK, ProcInv, Ended
<1>3. /\ cmd'[p].kind = cmd[p].kind /\ cmd'[p].ref = Target(p)
      /\ cmd'[p] \in Command /\ cmd' \in [Procs -> Command \cup {None}]
  BY <1>1, <1>2 DEF Inv, Resolve, TypeOK, Command
<1>4. TypeOK' /\ HostInv' /\ pc'[p] = "verify"
  BY <1>3, GotoStep DEF Inv, Resolve, TypeOK, Locked, hostVars
<1>5. ProcInv(p)'
  BY <1>1, <1>2, <1>3, <1>4
     DEF Resolve, ProcInv, Target, Locked, Resolved, Ahead, Behind, Ended,
         hostVars
<1> QED BY <1>4, <1>5

\* Verify and Compare: nothing but the place of the process changes.
LEMMA VerifyStep ==
  ASSUME Inv, NEW p \in Procs, Verify(p)
  PROVE  TypeOK' /\ HostInv' /\ ProcInv(p)'
<1>1. TypeOK' /\ HostInv' /\ pc'[p] = "pull"
  BY GotoStep DEF Inv, Verify, TypeOK, Locked, hostVars
<1>2. ProcInv(p)'
  BY <1>1
     DEF Inv, Verify, Goto, ProcInv, Locked, Resolved, Ahead, Behind, Ended,
         hostVars
<1> QED BY <1>1, <1>2

LEMMA CompareStep ==
  ASSUME Inv, NEW p \in Procs, Compare(p)
  PROVE  TypeOK' /\ HostInv' /\ ProcInv(p)'
<1>1. TypeOK' /\ HostInv' /\ pc'[p] = "stage"
  BY GotoStep DEF Inv, Compare, TypeOK, Locked, hostVars
<1>2. ProcInv(p)'
  BY <1>1
     DEF Inv, Compare, Goto, ProcInv, Pulled, Seen, Locked, Resolved, Ahead,
         Behind, Ended, ciVars, hostVars
<1> QED BY <1>1, <1>2

LEMMA PullStep ==
  ASSUME Inv, NEW p \in Procs, Pull(p)
  PROVE  TypeOK' /\ HostInv' /\ ProcInv(p)'
<1> DEFINE b == tag[cmd[p].ref]
<1>1. /\ pc[p] = "pull" /\ cmd[p] \in Command /\ lock = p
      /\ cmd[p].ref \in Channels /\ cmd[p].kind \in {"deploy", "update"}
  BY DEF Inv, Pull, Goto, ProcInv, Locked, Resolved, Ahead, Behind, Ended
<1>2. b \in Build /\ b.channel = cmd[p].ref /\ b # None
  BY <1>1 DEF Inv, Pull, TypeOK, TagInv
<1>3. TypeOK' /\ HostInv' /\ pc'[p] = "compare"
  BY <1>2, GotoStep DEF Inv, Pull, TypeOK, Locked, hostVars
<1>4. src'[p] = b /\ cmd' = cmd /\ UNCHANGED <<lock, ciVars, hostVars>>
  BY DEF Inv, Pull, TypeOK
<1>5. b.n \in Nat
  BY <1>2, ChannelAssumption DEF Build
<1>6. Seen(b)
  BY <1>2, <1>5 DEF Seen
<1>7. Pulled(p)'
  BY <1>2, <1>4, <1>6
     DEF Inv, Pulled, Seen, HostInv, ciVars, hostVars
<1>8. ProcInv(p)'
  BY <1>1, <1>3, <1>4, <1>7
     DEF Inv, ProcInv, Locked, Resolved, Ahead, Behind, Ended, hostVars
<1> QED BY <1>3, <1>8

LEMMA StageStep ==
  ASSUME Inv, NEW p \in Procs, Stage(p)
  PROVE  TypeOK' /\ HostInv' /\ ProcInv(p)'
<1>1. pc[p] = "stage" /\ src[p] \in Build
  BY DEF Inv, Stage, Goto, ProcInv, Ahead, Pulled
<1>2. TypeOK' /\ HostInv' /\ pc'[p] = "mark"
  BY <1>1, GotoStep DEF Inv, Stage, TypeOK, Locked
<1>3. ProcInv(p)'
  BY <1>1, <1>2
     DEF Inv, Stage, ProcInv, Pulled, Seen, Locked, Resolved, Ahead, Behind,
         Ended, ciVars
<1> QED BY <1>2, <1>3

LEMMA MarkStep ==
  ASSUME Inv, NEW p \in Procs, MarkStaging(p)
  PROVE  TypeOK' /\ HostInv' /\ ProcInv(p)'
<1>1. pc[p] = "mark" /\ src[p] \in Build
  BY DEF Inv, MarkStaging, Goto, ProcInv, Ahead, Pulled
<1>2. TypeOK' /\ HostInv' /\ pc'[p] = "promote"
  BY <1>1, GotoStep DEF Inv, MarkStaging, TypeOK, Locked
<1>3. ProcInv(p)'
  BY <1>1, <1>2
     DEF Inv, MarkStaging, ProcInv, Pulled, Seen, Locked, Resolved, Ahead,
         Behind, Ended, ciVars
<1> QED BY <1>2, <1>3

LEMMA RolesGoOn ==
  ASSUME Inv, NEW p \in Procs,
         DemoteRole(p) \/ PromoteRole(p) \/ ClearStaging(p)
  PROVE  TypeOK' /\ HostInv' /\ ProcInv(p)'
<1> USE DEF Inv, RoleStep, Goto, Locked, Resolved, Ahead, Behind
<1>1. /\ cmd[p] \in Command /\ lock = p
      /\ cmd[p].ref \in Channels /\ cmd[p].kind \in {"deploy", "update"}
      /\ UNCHANGED <<ciVars, conf, landed, cmd, src, lock>>
  BY DEF DemoteRole, PromoteRole, ClearStaging, ProcInv, Ended
<1>2. CASE DemoteRole(p)
  <2>1. pc'[p] = "current" /\ TypeOK'
    BY <1>2 DEF DemoteRole, TypeOK, ciVars
  <2>2. HostInv'
    BY <1>2 DEF DemoteRole, HostInv, Seen, ciVars
  <2>3. ProcInv(p)'
    BY <1>1, <1>2, <2>1 DEF DemoteRole, ProcInv, Pulled, Seen, Ended, ciVars
  <2> QED BY <2>1, <2>2, <2>3
<1>3. CASE PromoteRole(p)
  <2>1. Pulled(p)
    BY <1>3 DEF PromoteRole, ProcInv
  <2>2. pc'[p] = "clear" /\ TypeOK'
    BY <1>3, <2>1 DEF PromoteRole, TypeOK, Pulled, ciVars
  <2>3. HostInv'
    BY <1>3, <2>1 DEF PromoteRole, HostInv, Pulled, Seen, ciVars
  <2>4. ProcInv(p)'
    BY <1>1, <1>3, <2>1, <2>2 DEF PromoteRole, ProcInv, Pulled, Ended
  <2> QED BY <2>2, <2>3, <2>4
<1>4. CASE ClearStaging(p)
  <2>1. pc'[p] = "gc" /\ TypeOK'
    BY <1>4 DEF ClearStaging, TypeOK, ciVars
  <2>2. HostInv'
    BY <1>4 DEF ClearStaging, HostInv, Seen, ciVars
  <2>3. ProcInv(p)'
    BY <1>1, <1>4, <2>1 DEF ClearStaging, ProcInv, Ended
  <2> QED BY <2>1, <2>2, <2>3
<1> QED BY <1>2, <1>3, <1>4

\* What comes after a deployment that is current, whether it was all the time
\* or has just been promoted.
LEMMA FinishStep ==
  ASSUME Inv, NEW p \in Procs, pc[p] \in Resolved, FinishDeploying(p),
         current.channel = cmd[p].ref,
         UNCHANGED <<ciVars, conf, current, fallback, staging>>,
         landed' \subseteq Build
  PROVE  TypeOK' /\ HostInv' /\ ProcInv(p)'
<1>1. /\ cmd[p] \in Command /\ lock = p
      /\ cmd[p].ref \in Channels /\ cmd[p].kind \in {"deploy", "update"}
  BY DEF Inv, ProcInv, Locked, Resolved, Ended
<1>2. HostInv'
  BY DEF Inv, HostInv, Seen, ciVars
<1>3. CASE cmd[p].kind = "deploy"
  <2>1. pc' = [pc EXCEPT ![p] = "conf"] /\ UNCHANGED <<cmd, src, lock>>
    BY <1>3 DEF FinishDeploying
  <2>2. TypeOK' /\ pc'[p] = "conf"
    BY <2>1 DEF Inv, TypeOK, ciVars
  <2>3. ProcInv(p)'
    BY <1>1, <1>3, <2>1, <2>2
       DEF ProcInv, Locked, Resolved, Ahead, Behind, Ended
  <2> QED BY <1>2, <2>2, <2>3
<1>4. CASE cmd[p].kind # "deploy"
  <2>1. End(p, "ok")
    BY <1>4 DEF FinishDeploying
  <2>2. TypeOK' /\ ProcInv(p)'
    BY <2>1, EndStep DEF Inv, TypeOK, Ended
  <2> QED BY <1>2, <2>2
<1> QED BY <1>3, <1>4

LEMMA UpToDateStep ==
  ASSUME Inv, NEW p \in Procs, UpToDate(p)
  PROVE  TypeOK' /\ HostInv' /\ ProcInv(p)'
<1>1. pc[p] \in Resolved /\ current.channel = cmd[p].ref
  BY DEF Inv, UpToDate, ProcInv, Pulled, Locked, Resolved, Ahead
<1>2. QED
  BY <1>1, FinishStep DEF Inv, TypeOK, UpToDate, hostVars

LEMMA WriteSourceStep ==
  ASSUME Inv, NEW p \in Procs, WriteSource(p)
  PROVE  TypeOK' /\ HostInv' /\ ProcInv(p)'
<1>1. cmd[p].ref \in Channels
  BY DEF Inv, WriteSource, ProcInv, Locked, Resolved, Ahead, Behind
<1>2. TypeOK' /\ ProcInv(p)'
  BY <1>1, EndStep DEF Inv, WriteSource, TypeOK, Ended
<1>3. HostInv'
  BY DEF Inv, WriteSource, HostInv, Seen, ciVars
<1> QED BY <1>2, <1>3

LEMMA RollbackStep ==
  ASSUME Inv, NEW p \in Procs, Rollback(p)
  PROVE  TypeOK' /\ HostInv' /\ ProcInv(p)'
<1>1. /\ pc[p] = "held" /\ lock = p /\ cmd[p] \in Command
      /\ cmd[p].kind = "rollback" /\ current \in Build
  BY DEF Inv, Rollback, Goto, ProcInv, TypeOK, Locked, Ended
<1>2. pc'[p] = "swap" /\ src'[p] = current /\ TypeOK'
  BY <1>1 DEF Inv, Rollback, Goto, TypeOK, ciVars
<1>3. HostInv'
  BY DEF Inv, Rollback, HostInv, Seen, ciVars
<1>4. Seen(src[p])' /\ src'[p] \in landed'
  BY <1>1, <1>2, ChannelAssumption
     DEF Inv, Rollback, HostInv, RoleInv, Seen, ciVars
<1>5. ProcInv(p)'
  BY <1>1, <1>2, <1>4
     DEF Rollback, ProcInv, Locked, Resolved, Ahead, Behind, Ended
<1> QED BY <1>2, <1>3, <1>5

LEMMA SwapStep ==
  ASSUME Inv, NEW p \in Procs, SwapFallback(p)
  PROVE  TypeOK' /\ HostInv' /\ ProcInv(p)'
<1>1. src[p] \in Build /\ Seen(src[p])
  BY DEF Inv, SwapFallback, ProcInv
<1>2. TypeOK' /\ ProcInv(p)'
  BY <1>1, EndStep DEF Inv, SwapFallback, TypeOK, Ended
<1>3. HostInv'
  BY <1>1 DEF Inv, SwapFallback, HostInv, Seen, ciVars
<1> QED BY <1>2, <1>3

LEMMA GarbageStep ==
  ASSUME Inv, NEW p \in Procs, CollectGarbage(p)
  PROVE  TypeOK' /\ HostInv' /\ ProcInv(p)'
<1>1. /\ UNCHANGED <<ciVars, conf, current, fallback, staging>>
      /\ landed' \subseteq Build
  BY DEF Inv, CollectGarbage, TypeOK
<1>2. CASE pc[p] = "gc" /\ FinishDeploying(p)
  <2>1. pc[p] \in Resolved /\ current.channel = cmd[p].ref
    BY <1>2 DEF Inv, ProcInv, Locked, Resolved, Behind
  <2> QED BY <1>1, <1>2, <2>1, FinishStep
<1>3. CASE End(p, "ok")
  <2>1. TypeOK' /\ ProcInv(p)'
    BY <1>1, <1>3, EndStep DEF Inv, TypeOK, Ended
  <2>2. HostInv'
    BY <1>1 DEF Inv, HostInv, Seen, ciVars
  <2> QED BY <2>1, <2>2
<1> QED BY <1>2, <1>3 DEF CollectGarbage

\* What a step gives a role has landed, and what a step takes away no role
\* names.
LEMMA RolesStep ==
  ASSUME Inv, NEW p \in Procs, Process(p)
  PROVE  RoleInv'
<1>1. CASE Stage(p)
  BY <1>1 DEF Inv, RoleInv, Stage
<1>2. CASE MarkStaging(p)
  <2>1. src[p] \in landed
    BY <1>2 DEF Inv, MarkStaging, Goto, ProcInv
  <2> QED BY <1>2, <2>1 DEF Inv, RoleInv, MarkStaging
<1>3. CASE DemoteRole(p) \/ PromoteRole(p) \/ SwapFallback(p)
  <2>1. src[p] \in landed \/ DemoteRole(p)
    BY <1>3 DEF Inv, PromoteRole, SwapFallback, RoleStep, Goto, ProcInv
  <2>2. current \in landed
    BY ChannelAssumption DEF Inv, RoleInv, TypeOK
  <2> QED BY <1>3, <2>1, <2>2
          DEF Inv, RoleInv, DemoteRole, PromoteRole, SwapFallback, RoleStep
<1>4. CASE Rollback(p) \/ CollectGarbage(p) \/ WriteSource(p)
           \/ ClearStaging(p)
  BY <1>4 DEF Inv, RoleInv, Rollback, CollectGarbage, WriteSource,
              ClearStaging, RoleStep
<1>5. CASE UNCHANGED hostVars
  BY <1>5 DEF Inv, RoleInv, hostVars
<1> QED BY <1>1, <1>2, <1>3, <1>4, <1>5
        DEF Process, Working, Run, Acquire, Resolve, NoChannel, Verify,
            VerifyFails, Pull, PullFails, UpToDate, Compare, StageFails,
            NoFallback, Die

LEMMA ProcessStep ==
  ASSUME Inv, NEW p \in Procs, Process(p)
  PROVE  Inv'
<1>1. TypeOK' /\ HostInv' /\ ProcInv(p)'
  <2>1. ASSUME NEW k \in Kinds, NEW c \in Channels, NEW skip \in Skips,
               Run(p, k, c, skip)
        PROVE  TypeOK' /\ HostInv' /\ ProcInv(p)'
    BY <2>1, RunStep
  <2>2. CASE NoChannel(p) \/ VerifyFails(p) \/ PullFails(p)
             \/ StageFails(p) \/ NoFallback(p) \/ Die(p)
    BY <2>2, QuietEndStep
       DEF NoChannel, VerifyFails, PullFails, StageFails, NoFallback,
           CollectGarbage, Die, Ended
  <2> QED BY <2>1, <2>2, AcquireStep, ResolveStep, VerifyStep, PullStep,
             UpToDateStep, CompareStep, StageStep, MarkStep, RolesGoOn,
             WriteSourceStep, RollbackStep, SwapStep, GarbageStep
          DEF Process, Working
<1>2. UNCHANGED ciVars
  BY DEF Process, Working, Run, Acquire, Resolve, NoChannel, Verify,
         VerifyFails, Pull, PullFails, UpToDate, Compare, Stage, MarkStaging,
         StageFails, DemoteRole, PromoteRole, ClearStaging, RoleStep,
         WriteSource, Rollback, SwapFallback, NoFallback, CollectGarbage, Die
<1>3. CIInv' /\ TagInv'
  BY <1>2 DEF Inv, CIInv, StepInv, SignedComplete, TagInv, Building, ciVars
<1>4. \A q \in Procs : ProcInv(q)'
  BY <1>1, OthersKeep
<1> QED BY <1>1, <1>3, <1>4, RolesStep DEF Inv

----------------------------------------------------------------------------
LEMMA Invariance == Spec => []Inv
<1>1. ASSUME Inv, [Next]_vars PROVE Inv'
  <2>1. CASE UNCHANGED vars
    BY <1>1, <2>1
       DEF Inv, TypeOK, CIInv, StepInv, SignedComplete, TagInv, HostInv, Seen,
           RoleInv, ProcInv, Pulled, Building, vars, ciVars, hostVars,
           procVars
  <2> QED BY <1>1, <2>1, CIStep, ProcessStep DEF Next
<1> QED BY <1>1, InitInv, PTL DEF Spec

\* The state of CI, the registry, the host and every process has its type.
THEOREM ChannelTypes == Spec => []TypeOK
<1>1. Inv => TypeOK
  BY DEF Inv
<1> QED BY <1>1, Invariance, PTL

\* A signed build has all its parts in the registry (push-artifacts.sh runs
\* to its end before cosign-sign.sh starts), however often runs are
\* cancelled.
THEOREM SignedIsComplete == Spec => []SignedComplete
<1>1. Inv => SignedComplete
  BY DEF Inv, CIInv
<1> QED BY <1>1, Invariance, PTL

\* Only its own steps move a process.
LEMMA OwnStep ==
  ASSUME Inv, [Next]_vars, NEW p \in Procs, pc'[p] # pc[p]
  PROVE  Process(p)
<1>1. ~UNCHANGED vars
  BY DEF vars, procVars
<1>2. \A c \in Channels : ~CI(c)
  BY DEF CI, StartBuild, PushDeployment, MoveTag, PushObjects, Sign, Upload,
         procVars
<1> QED BY <1>1, <1>2, OthersUnmoved DEF Next

\* No promotion replaces a build by an older one of the same channel: the
\* command pulls under the lock, and tags only move forwards.
THEOREM PromotesForward == Spec => NeverBackwards
<1>1. ASSUME Inv, [Next]_vars, NEW p \in Procs,
             pc[p] = "current", pc'[p] = "clear",
             current' # current, current'.channel = current.channel
      PROVE  current'.n > current.n
  <2>1. PromoteRole(p)
    <3>1. Process(p)
      BY <1>1, OwnStep
    <3> QED BY <1>1, <3>1
            DEF Inv, TypeOK, Process, Working, Run, Acquire, Resolve,
                NoChannel, Verify, VerifyFails, Pull, PullFails, UpToDate,
                Compare, Stage, MarkStaging, StageFails, DemoteRole,
                ClearStaging, RoleStep, WriteSource, Rollback, SwapFallback,
                NoFallback, CollectGarbage, Die, End, Goto, Ended
  <2>2. /\ current' = src[p] /\ src[p] \in Build /\ current \in Build
        /\ current.channel = cmd[p].ref => current.n <= src[p].n
        /\ src[p].channel = cmd[p].ref
    BY <1>1, <2>1 DEF Inv, TypeOK, ProcInv, Ahead, Pulled, PromoteRole
  <2>3. current.n # src[p].n
    BY <1>1, <2>2 DEF Build
  <2>4. current.n \in Nat /\ src[p].n \in Nat
    BY <2>2, ChannelAssumption DEF Build
  <2> QED BY <1>1, <2>2, <2>3, <2>4
<1>2. ASSUME Inv, [Next]_vars
      PROVE  [\A p \in Procs :
                (/\ pc[p] = "current" /\ pc'[p] = "clear"
                 /\ current' # current
                 /\ current'.channel = current.channel)
                   => current'.n > current.n]_vars
  BY <1>1, <1>2
<1> QED BY <1>2, Invariance, PTL DEF Spec, NeverBackwards

\* The roles of a host always name builds that are on its disk, and what a
\* command is about to promote is there too, whichever commands wait, are cut
\* short or collect garbage meanwhile.
THEOREM RolesStayLanded == Spec => []RolesLanded
<1>1. Inv => RolesLanded
  BY DEF Inv, RoleInv, ProcInv, RolesLanded
<1> QED BY <1>1, Invariance, PTL

\* A successful deploy or update ends with the host on a build of the channel
\* that source.conf names.
THEOREM StaysOnChannel == Spec => OnChannel
<1>1. ASSUME Inv, [Next]_vars, NEW p \in Procs,
             pc[p] \notin Ended, pc'[p] = "ok",
             cmd[p].kind \in {"deploy", "update"}
      PROVE  current'.channel = conf'
  <2>1. Process(p)
    BY <1>1, OwnStep DEF Ended
  <2>2. UpToDate(p) \/ CollectGarbage(p) \/ WriteSource(p)
    BY <1>1, <2>1
       DEF Process, Working, Run, Acquire, Resolve, NoChannel, Verify,
           VerifyFails, Pull, PullFails, Compare, Stage, MarkStaging,
           StageFails, DemoteRole, PromoteRole, ClearStaging, RoleStep,
           Rollback, SwapFallback, NoFallback, Die, End, Goto,
           Inv, TypeOK, ProcInv, Ended
  <2>3. CASE WriteSource(p)
    BY <1>1, <2>3 DEF Inv, ProcInv, WriteSource, Behind
  <2>4. CASE UpToDate(p) \/ CollectGarbage(p)
    <3>1. pc[p] \in Resolved /\ current.channel = cmd[p].ref
      BY <1>1, <2>4 DEF UpToDate, CollectGarbage, Inv, ProcInv, Pulled,
                        Locked, Resolved, Ahead, Behind
    <3>2. current' = current /\ conf' = conf
      BY <2>4 DEF UpToDate, CollectGarbage, hostVars
    <3>3. cmd[p].kind # "deploy"
      BY <1>1, <2>4
         DEF UpToDate, CollectGarbage, FinishDeploying, Inv, TypeOK, Ended
    <3>4. cmd[p].kind = "update"
      BY <1>1, <3>3
    <3> QED BY <1>1, <3>1, <3>2, <3>4 DEF Inv, ProcInv
  <2> QED BY <2>2, <2>3, <2>4
<1>2. ASSUME Inv, [Next]_vars
      PROVE  [\A p \in Procs :
                (/\ pc[p] \notin Ended /\ pc'[p] = "ok"
                 /\ cmd[p].kind \in {"deploy", "update"})
                   => current'.channel = conf']_vars
  BY <1>1, <1>2
<1> QED BY <1>2, Invariance, PTL DEF Spec, OnChannel

----------------------------------------------------------------------------
(* The roles follow HostRoles.  The lock makes one command out of many:    *)
(* while a process holds it, it alone moves the abstract state.            *)

\* Where the roles stand that process p is about to change.
RoleOrder(p) ==
    /\ pc[p] \in {"promote", "current", "clear"} => staging = src[p]
    /\ pc[p] = "current" => fallback = current
    /\ pc[p] = "clear" => current = src[p]

ProtocolInv == \A p \in Procs : RoleOrder(p)

LEMMA OthersInOrder ==
  ASSUME Inv, NEW p \in Procs, Process(p), NEW q \in Procs, q # p,
         RoleOrder(q)
  PROVE  RoleOrder(q)'
<1>1. pc'[q] = pc[q] /\ src'[q] = src[q]
  BY OthersUnmoved
<1>2. CASE pc[q] \in Locked
  BY <1>1, <1>2, OnlyHolderActs DEF RoleOrder, hostVars
<1>3. CASE pc[q] \notin Locked
  BY <1>1, <1>3 DEF RoleOrder, Locked
<1> QED BY <1>2, <1>3

LEMMA InOrder ==
  ASSUME Inv, ProtocolInv, NEW p \in Procs, Process(p)
  PROVE  ProtocolInv'
<1>1. RoleOrder(p)'
  <2> USE DEF Inv, TypeOK, ProtocolInv, RoleOrder, RoleStep, Goto
  <2>1. CASE pc'[p] \notin {"promote", "current", "clear"}
    BY <2>1
  <2>2. CASE MarkStaging(p)
    BY <2>2 DEF MarkStaging
  <2>3. CASE DemoteRole(p)
    BY <2>3 DEF DemoteRole
  <2>4. CASE PromoteRole(p)
    BY <2>4 DEF PromoteRole
  <2>5. \/ pc'[p] \notin {"promote", "current", "clear"}
        \/ MarkStaging(p) \/ DemoteRole(p) \/ PromoteRole(p)
    BY DEF Process, Working, Run, Acquire, Resolve, NoChannel, Verify,
           VerifyFails, Pull, PullFails, UpToDate, Compare, Stage,
           StageFails, ClearStaging, WriteSource, Rollback, SwapFallback,
           NoFallback, CollectGarbage, Die, FinishDeploying, End, Ended
  <2> QED BY <2>1, <2>2, <2>3, <2>4, <2>5
<1> QED BY <1>1, OthersInOrder DEF ProtocolInv

\* With the lock, what a rollback has taken out of current is its own.
LEMMA HolderSwaps ==
  ASSUME Inv, NEW p \in Procs, pc[p] \in Locked
  PROVE  Swapped = IF pc[p] = "swap" THEN src[p] ELSE None
BY ChannelAssumption DEF Inv, ProcInv, Swapped

\* After its step p still has the lock, or nobody has.
LEMMA NoSwapNext ==
  ASSUME NEW p \in Procs, lock' = None \/ (lock' = p /\ pc'[p] # "swap")
  PROVE  Swapped' = None
BY DEF Swapped

LEMMA StageRefines ==
  ASSUME Inv, ProtocolInv, NEW p \in Procs,
         Stage(p) \/ MarkStaging(p) \/ DemoteRole(p) \/ PromoteRole(p)
           \/ ClearStaging(p)
  PROVE  HostProtocol!Next
<1> USE DEF Inv, TypeOK, RoleStep, Goto
<1>1. /\ pc[p] \in {"stage", "mark", "promote", "current", "clear"}
      /\ pc'[p] \in {"mark", "promote", "current", "clear", "gc"}
      /\ UNCHANGED <<src, lock>>
  BY DEF Stage, MarkStaging, DemoteRole, PromoteRole, ClearStaging
<1>2. lock = p
  BY <1>1 DEF ProcInv, Locked
<1>3. Swapped = None /\ Swapped' = None
  BY <1>1, <1>2, HolderSwaps, NoSwapNext DEF Locked
<1>4. pc[p] # "clear" => src[p] \in Build /\ src[p] # current
  BY <1>1 DEF ProcInv, Ahead, Pulled
<1>5. RoleOrder(p) /\ (pc[p] = "mark" => src[p] \in landed)
  BY DEF ProtocolInv, ProcInv
<1>6. None \notin Build
  BY ChannelAssumption
<1>7. CASE Stage(p)
  <2>1. HostProtocol!Land(src[p])
    BY <1>3, <1>7 DEF Stage, HostProtocol!Land, HostProtocol!roles
  <2> QED BY <1>4, <1>7, <2>1 DEF Stage, HostProtocol!Next
<1>8. CASE MarkStaging(p)
  <2>1. HostProtocol!Mark(src[p])
    BY <1>3, <1>4, <1>5, <1>8 DEF MarkStaging, HostProtocol!Mark
  <2> QED BY <1>4, <1>8, <2>1 DEF MarkStaging, HostProtocol!Next
<1>9. CASE DemoteRole(p)
  <2>1. HostProtocol!Demote
    BY <1>3, <1>4, <1>5, <1>6, <1>9
       DEF DemoteRole, RoleOrder, HostProtocol!Demote
  <2> QED BY <2>1 DEF HostProtocol!Next
<1>10. CASE PromoteRole(p)
  <2>1. HostProtocol!Promote
    BY <1>3, <1>4, <1>5, <1>6, <1>10
       DEF PromoteRole, RoleOrder, HostProtocol!Promote
  <2> QED BY <2>1 DEF HostProtocol!Next
<1>11. CASE ClearStaging(p)
  <2>1. HostProtocol!Clear
    BY <1>3, <1>5, <1>11 DEF ClearStaging, RoleOrder, HostProtocol!Clear
  <2> QED BY <2>1 DEF HostProtocol!Next
<1> QED BY <1>7, <1>8, <1>9, <1>10, <1>11

LEMMA RollbackRefines ==
  ASSUME Inv, NEW p \in Procs, Rollback(p) \/ SwapFallback(p)
  PROVE  HostProtocol!Next
<1> USE DEF Inv, TypeOK, Goto
<1>1. CASE Rollback(p)
  <2>1. pc[p] = "held" /\ lock = p /\ pc'[p] = "swap" /\ lock' = p
        /\ src'[p] = current
    BY <1>1 DEF Rollback, ProcInv, Locked
  <2>2. Swapped = None /\ Swapped' = current
    BY <2>1, HolderSwaps, ChannelAssumption DEF Swapped, Locked
  <2>3. HostProtocol!RollBack
    BY <1>1, <2>2 DEF Rollback, HostProtocol!RollBack
  <2> QED BY <2>3 DEF HostProtocol!Next
<1>2. CASE SwapFallback(p)
  <2>1. pc[p] = "swap" /\ lock = p /\ lock' = None /\ src[p] \in Build
    BY <1>2 DEF SwapFallback, End, ProcInv, Locked
  <2>2. Swapped = src[p] /\ src[p] # None /\ Swapped' = None
    <3>1. Swapped = src[p]
      BY <2>1, ChannelAssumption DEF Swapped
    <3>2. src[p] # None
      BY <2>1, ChannelAssumption
    <3>3. Swapped' = None
      BY <2>1 DEF Swapped
    <3> QED BY <3>1, <3>2, <3>3
  <2>3. HostProtocol!SwapBack
    BY <1>2, <2>2 DEF SwapFallback, HostProtocol!SwapBack
  <2> QED BY <2>3 DEF HostProtocol!Next
<1> QED BY <1>1, <1>2

LEMMA GarbageRefines ==
  ASSUME Inv, NEW p \in Procs, CollectGarbage(p)
  PROVE  HostProtocol!Next
<1> DEFINE rest == landed \ {current, fallback, staging}
<1>1. pc[p] \in {"held", "gc"} /\ lock = p
  BY DEF Inv, CollectGarbage, ProcInv, Locked
<1>2. lock' = None \/ (lock' = p /\ pc'[p] # "swap")
  BY <1>1 DEF Inv, TypeOK, CollectGarbage, FinishDeploying, End
<1>3. Swapped = None /\ Swapped' = None
  BY <1>1, <1>2, HolderSwaps, NoSwapNext DEF Locked
<1>4. HostProtocol!Discard(rest)
  BY <1>3 DEF CollectGarbage, HostProtocol!Discard, HostProtocol!roles
<1>5. rest \in SUBSET landed
  OBVIOUS
<1> QED BY <1>4, <1>5 DEF HostProtocol!Next

\* A process that is cut short shows between the two role changes of a
\* rollback and nowhere else.
LEMMA DieRefines ==
  ASSUME Inv, NEW p \in Procs, Die(p)
  PROVE  [HostProtocol!Next]_(HostProtocol!state)
<1>1. lock' = (IF lock = p THEN None ELSE lock)
      /\ \A q \in Procs : q # p => pc'[q] = pc[q] /\ src'[q] = src[q]
  BY DEF Inv, TypeOK, Die, End
<1>2. CASE lock = p /\ pc[p] = "swap"
  <2>1. Swapped = src[p] /\ src[p] # None /\ Swapped' = None
    <3>1. src[p] \in Build
      BY <1>2 DEF Inv, ProcInv
    <3>2. Swapped = src[p] /\ src[p] # None
      BY <1>2, <3>1, ChannelAssumption DEF Swapped
    <3>3. Swapped' = None
      BY <1>1, <1>2 DEF Swapped
    <3> QED BY <3>2, <3>3
  <2>2. HostProtocol!SwapLost
    BY <2>1 DEF Die, hostVars, HostProtocol!SwapLost, HostProtocol!roles
  <2> QED BY <2>2 DEF HostProtocol!Next
<1>3. CASE ~(lock = p /\ pc[p] = "swap")
  <2>1. Swapped' = Swapped
    BY <1>1, <1>3 DEF Inv, TypeOK, Swapped
  <2> QED BY <2>1
          DEF Die, hostVars, HostProtocol!state, HostProtocol!roles
<1> QED BY <1>2, <1>3

LEMMA QuietRefines ==
  ASSUME Inv, NEW p \in Procs,
         \/ \E k \in Kinds, c \in Channels, skip \in Skips :
               Run(p, k, c, skip)
         \/ Acquire(p) \/ Resolve(p) \/ NoChannel(p) \/ Verify(p)
         \/ VerifyFails(p) \/ Pull(p) \/ PullFails(p) \/ UpToDate(p)
         \/ Compare(p) \/ StageFails(p) \/ NoFallback(p) \/ WriteSource(p)
  PROVE  UNCHANGED HostProtocol!state
<1>1. UNCHANGED <<current, fallback, staging, landed>>
  BY DEF Run, Acquire, Resolve, NoChannel, Verify, VerifyFails, Pull,
         PullFails, UpToDate, Compare, StageFails, NoFallback, WriteSource,
         hostVars
<1>2. Swapped' = Swapped
  <2>1. ASSUME NEW k \in Kinds, NEW c \in Channels, NEW skip \in Skips,
               Run(p, k, c, skip)
        PROVE  Swapped' = Swapped
    BY <2>1 DEF Inv, TypeOK, Run, Goto, Swapped
  <2>2. CASE Acquire(p)
    BY <2>2, NoSwapNext DEF Inv, TypeOK, Acquire, Goto, Swapped
  <2>3. CASE ~Acquire(p)
             /\ ~ \E k \in Kinds, c \in Channels, skip \in Skips :
                    Run(p, k, c, skip)
    <3>1. pc[p] \in Locked \ {"swap"}
      BY <2>3
         DEF Resolve, NoChannel, Verify, VerifyFails, Pull, PullFails,
             UpToDate, Compare, StageFails, NoFallback, WriteSource, Goto,
             Locked
    <3>2. lock' = None \/ (lock' = p /\ pc'[p] # "swap")
      BY <2>3, <3>1
         DEF Inv, TypeOK, ProcInv, Resolve, NoChannel, Verify, VerifyFails,
             Pull, PullFails, UpToDate, Compare, StageFails, NoFallback,
             WriteSource, FinishDeploying, Goto, End
    <3> QED BY <3>1, <3>2, HolderSwaps, NoSwapNext
  <2> QED BY <2>1, <2>2, <2>3
<1> QED BY <1>1, <1>2 DEF HostProtocol!state, HostProtocol!roles

\* Seen through its roles a host runs one command at a time, however many
\* processes contend for it and die: every step of any of them is a step of
\* HostRoles or none.
THEOREM RolesRefined == Spec => RolesSpec
<1>1. Init => ProtocolInv /\ HostProtocol!Init
  BY DEF Init, ProtocolInv, RoleOrder, HostProtocol!Init, Swapped, Build
<1>2. ASSUME Inv, ProtocolInv, [Next]_vars
      PROVE  ProtocolInv' /\ [HostProtocol!Next]_(HostProtocol!state)
  <2>1. CASE UNCHANGED <<hostVars, procVars>>
    BY <1>2, <2>1 DEF hostVars, procVars, ProtocolInv, RoleOrder, Swapped,
                      HostProtocol!state, HostProtocol!roles
  <2>2. ASSUME NEW c \in Channels, CI(c)
        PROVE  UNCHANGED <<hostVars, procVars>>
    BY <2>2 DEF CI, StartBuild, PushDeployment, MoveTag, PushObjects, Sign,
                Upload
  <2>3. ASSUME NEW p \in Procs, Process(p)
        PROVE  ProtocolInv' /\ [HostProtocol!Next]_(HostProtocol!state)
    <3>1. ProtocolInv'
      BY <1>2, <2>3, InOrder
    <3> QED BY <1>2, <2>3, <3>1, StageRefines, RollbackRefines,
               GarbageRefines, DieRefines, QuietRefines
            DEF Process, Working
  <2> QED BY <1>2, <2>1, <2>2, <2>3 DEF Next, vars
<1> QED BY <1>1, <1>2, Invariance, PTL
        DEF Spec, RolesSpec, HostProtocol!Spec
=============================================================================
