------------------------- MODULE PackLandingProofs -------------------------
(***************************************************************************)
(* Theorems about landing from the pack, for every index, every set of     *)
(* references, every pool size and any number of faults.  They rest on     *)
(* what CoalesceProofs shows of the ranges.                                *)
(***************************************************************************)
EXTENDS PackLanding, CoalesceProofs, FiniteSetTheorems

Pooled == {"collect", "place"}

\* The main thread and the pool: futures are the ranges of a finished pass
\* until the pool is left, with no one at work once it has been.
PoolInv ==
    /\ pc \in {"idle", "coalesce", "collect", "place", "exit"}
    /\ pc = "idle" => In("queued") \cup In("running") = {}
    /\ pc = "coalesce" => future = <<>>
    /\ pc \in {"collect", "place", "exit"} => staging
    /\ pc \in Pooled => left = {} /\ cur = {} /\ DOMAIN future = ranges
    /\ pc = "place" => \E r \in ranges :
                          /\ buffer = {r} /\ todo \subseteq r.objs
                          /\ future[r] \in {"whole", "other"}
    /\ pc # "place" => buffer = {} /\ todo = {}

\* What is in place: everything that was not wanted when the landing began,
\* and every slice of a buffer that is done with.
PlacedInv ==
    /\ pc \in {"coalesce"} \cup Pooled =>
          \A e \in Index \ want : e.obj \in Refs => store[e.obj] # "absent"
    /\ pc \in Pooled => \A r \in ranges : \A s \in r.objs :
          future[r] = "consumed" \/ (r \in buffer /\ s \notin todo)
              => store[s.obj] # "absent"
    /\ outcome = "done" => \A e \in Index :
          e.obj \in Refs => store[e.obj] # "absent"

DataOK ==
    /\ store \in [Objects -> {"absent", "unsealed", "sealed"}]
    /\ faults \in Nat

LandingInv == PassInv /\ PoolInv /\ PlacedInv /\ DataOK

----------------------------------------------------------------------------
(* The pass runs inside the landing.                                       *)

LEMMA BeginKeeps ==
    ASSUME Begin(MissingEntries)
    PROVE  PassInv'
BY DEF Begin, MissingEntries, PassInv, TypeOK, SlicesExact, AllCovered,
       RangesApart, AllRanges

LEMMA StillPasses ==
    ASSUME PassInv, UNCHANGED coalesceVars
    PROVE  PassInv'
BY DEF coalesceVars, PassInv, TypeOK, SlicesExact, AllCovered, RangesApart,
       AllRanges

LEMMA PassKeeps ==
    ASSUME PassInv, Pass
    PROVE  PassInv'
BY FirstKeeps, MergeKeeps, CutKeeps, FlushKeeps DEF Pass

LEMMA LandingPasses ==
    ASSUME PassInv, LandingNext
    PROVE  PassInv'
<1>1. CASE StartLanding
  BY <1>1, BeginKeeps DEF StartLanding
<1>2. CASE CoalesceStep
  BY <1>2, PassKeeps DEF CoalesceStep
<1>3. CASE UNCHANGED coalesceVars
  BY <1>3, StillPasses
<1>4. QED
  BY <1>1, <1>2, <1>3
     DEF LandingNext, Main, Worker, SubmitAll, StartFetch, FetchRange,
         FetchBadly, WorkerStep, Collect, CollectFailed, Raise, PlaceSlice,
         RefuseSlice, SealFails, FinishBuffer, FinishCollecting, ExitPool,
         Leave, Kill

\* A slice that is to be placed is the entry of a referenced object, so what
\* was fetched as asked measures to it.
LEMMA SliceMeasures ==
    ASSUME LandingInv, pc = "place", NEW r \in buffer, NEW s \in todo
    PROVE  /\ s.obj \in Objects
           /\ future[r] = "whole" => Measures(r, s)
<1>1. r \in AllRanges /\ s \in r.objs
  BY DEF LandingInv, PoolInv, AllRanges
<1>2. PICK e \in want : s = Slice(r.start, e) /\ EndOf(e) <= r.end
  BY <1>1 DEF LandingInv, PassInv, SlicesExact
<1>3. e \in Index /\ s.obj = e.obj
  BY <1>2 DEF LandingInv, PassInv, TypeOK, Slice
<1>4. QED
  BY <1>2, <1>3 DEF Measures, Objects

----------------------------------------------------------------------------
(* The steps.                                                              *)

LEMMA StartKeeps ==
    ASSUME LandingInv, StartLanding \/ CoalesceStep \/ SubmitAll
    PROVE  PoolInv' /\ PlacedInv' /\ DataOK'
<1> USE DEF LandingInv, PoolInv, PlacedInv, DataOK, Pooled, In, poolVars
<1>1. CASE StartLanding
  <2>1. \A e \in Index \ want' : e.obj \in Refs => store[e.obj] # "absent"
    BY <1>1 DEF StartLanding, Begin, MissingEntries
  <2>2. DOMAIN future' = {}
    BY <1>1 DEF StartLanding
  <2>3. QED
    BY <1>1, <2>1, <2>2 DEF StartLanding, Begin
<1>2. CASE CoalesceStep
  BY <1>2 DEF CoalesceStep, Pass, First, Merge, Cut, Flush, Take
<1>3. CASE SubmitAll
  BY <1>3 DEF SubmitAll, coalesceVars
<1>4. QED
  BY <1>1, <1>2, <1>3

LEMMA WorkerKeeps ==
    ASSUME LandingInv, Worker
    PROVE  PoolInv' /\ PlacedInv' /\ DataOK'
<1>1. PICK r \in DOMAIN future : \E from, to \in FutureState :
         /\ WorkerStep(r, from, to)
         /\ from \in {"queued", "running"}
         /\ to \in {"running", "whole", "other", "failed"}
  BY DEF Worker, StartFetch, FetchRange, FetchBadly, FutureState
<1>2. faults' \in Nat
  BY DEF Worker, StartFetch, FetchRange, FetchBadly, Fault, LandingInv, DataOK
<1>3. /\ pc' = pc /\ pc # "idle" /\ pc # "coalesce"
      /\ DOMAIN future' = DOMAIN future
      /\ \A q \in DOMAIN future : q # r => future'[q] = future[q]
      /\ future[r] \in {"queued", "running"} /\ future'[r] # "consumed"
      /\ UNCHANGED <<coalesceVars, buffer, todo, staging, store, outcome>>
  BY <1>1 DEF WorkerStep, In, LandingInv, PoolInv
<1>4. QED
  BY <1>2, <1>3
     DEF LandingInv, PoolInv, PlacedInv, DataOK, Pooled, coalesceVars

LEMMA CollectKeeps ==
    ASSUME LandingInv,
           NEW r \in DOMAIN future,
           Collect(r) \/ CollectFailed(r) \/ FinishBuffer(r)
    PROVE  PoolInv' /\ PlacedInv' /\ DataOK'
<1> USE DEF LandingInv, PoolInv, PlacedInv, DataOK, Pooled, In, coalesceVars
<1>1. CASE Collect(r)
  BY <1>1 DEF Collect
<1>2. CASE CollectFailed(r)
  BY <1>2 DEF CollectFailed, Raise
<1>3. CASE FinishBuffer(r)
  BY <1>3 DEF FinishBuffer
<1>4. QED
  BY <1>1, <1>2, <1>3

LEMMA PlaceKeeps ==
    ASSUME LandingInv, NEW s \in todo, NEW r \in buffer,
           PlaceSlice(s, r) \/ RefuseSlice(s, r) \/ SealFails(s, r)
    PROVE  PoolInv' /\ PlacedInv' /\ DataOK'
<1> USE DEF LandingInv, PoolInv, PlacedInv, DataOK, Pooled, In, coalesceVars
<1>1. pc = "place"
  BY DEF PlaceSlice, RefuseSlice, SealFails, PlaceStep
<1>2. s.obj \in Objects
  BY <1>1, SliceMeasures
<1>3. CASE PlaceSlice(s, r)
  BY <1>1, <1>2, <1>3 DEF PlaceSlice, PlaceStep
<1>4. CASE RefuseSlice(s, r)
  BY <1>1, <1>4 DEF RefuseSlice, Raise
<1>5. CASE SealFails(s, r)
  BY <1>1, <1>2, <1>5 DEF SealFails, Raise, Fault
<1>6. QED
  BY <1>3, <1>4, <1>5

\* Every future consumed means every slice placed, and the slices of all the
\* ranges are all that was wanted.
LEMMA FinishKeeps ==
    ASSUME LandingInv, FinishCollecting
    PROVE  PoolInv' /\ PlacedInv' /\ DataOK'
<1>1. \A e \in want : store[e.obj] # "absent"
  <2> TAKE e \in want
  <2>1. PICK r \in ranges : Slice(r.start, e) \in r.objs
    BY DEF FinishCollecting, LandingInv, PoolInv, PassInv, AllCovered,
           AllRanges, Pooled
  <2>2. future[r] = "consumed"
    BY <2>1 DEF FinishCollecting, LandingInv, PoolInv, Pooled, In
  <2>3. store[Slice(r.start, e).obj] # "absent"
    BY <2>1, <2>2 DEF FinishCollecting, LandingInv, PlacedInv, Pooled
  <2>4. QED
    BY <2>3 DEF Slice
<1>2. QED
  BY <1>1 DEF FinishCollecting, LandingInv, PoolInv, PlacedInv, DataOK,
              Pooled, poolVars, coalesceVars

LEMMA ExitKeeps ==
    ASSUME LandingInv, ExitPool \/ Kill
    PROVE  PoolInv' /\ PlacedInv' /\ DataOK'
<1> USE DEF LandingInv, PoolInv, PlacedInv, DataOK, Pooled, In, coalesceVars
<1>1. CASE ExitPool
  BY <1>1 DEF ExitPool, Leave
<1>2. CASE Kill
  <2>1. DOMAIN future' = {} /\ faults' \in Nat
    BY <1>2 DEF Kill, Fault
  <2>2. DataOK'
    BY <1>2, <2>1 DEF Kill
  <2>3. QED
    BY <1>2, <2>1, <2>2 DEF Kill
<1>3. QED
  BY <1>1, <1>2

LEMMA LandingInvariant == LandingSpec => []LandingInv
<1>1. LandingInit => LandingInv
  <2> SUFFICES ASSUME LandingInit
               PROVE  LandingInv
    OBVIOUS
  <2>1. PassInv
    BY DEF LandingInit, PassInv, TypeOK, SlicesExact, AllCovered,
           RangesApart, AllRanges
  <2>2. DOMAIN future = {}
    BY DEF LandingInit
  <2>3. QED
    BY <2>1, <2>2
       DEF LandingInit, LandingInv, PoolInv, PlacedInv, DataOK, Pooled, In
<1>2. LandingInv /\ [LandingNext]_vars => LandingInv'
  <2> SUFFICES ASSUME LandingInv, [LandingNext]_vars
               PROVE  LandingInv'
    OBVIOUS
  <2>1. CASE UNCHANGED vars
    BY <2>1, StillPasses
       DEF vars, poolVars, coalesceVars, LandingInv, PoolInv, PlacedInv,
           DataOK, Pooled, In
  <2>2. CASE LandingNext
    <3>1. PassInv'
      BY <2>2, LandingPasses DEF LandingInv
    <3>2. PoolInv' /\ PlacedInv' /\ DataOK'
      BY <2>2, StartKeeps, WorkerKeeps, CollectKeeps, PlaceKeeps,
         FinishKeeps, ExitKeeps DEF LandingNext, Main
    <3>3. QED
      BY <3>1, <3>2 DEF LandingInv
  <2>3. QED
    BY <2>1, <2>2
<1>3. QED
  BY <1>1, <1>2, PTL DEF LandingSpec

----------------------------------------------------------------------------
(* The results.                                                            *)

\* A landing that returns has put every referenced object of the index in
\* place, whatever earlier landings failed or were killed.
THEOREM LandingComplete == LandingSpec => []LandedAll
<1>1. LandingInv => LandedAll
  BY DEF LandingInv, PlacedInv, LandedAll
<1>2. QED
  BY <1>1, LandingInvariant, PTL

\* The staging directory outlives the workers, also when the main thread has
\* failed while they run.
THEOREM StagingStays == LandingSpec => []StagingHeld
<1>1. LandingInv => StagingHeld
  BY DEF LandingInv, PoolInv, StagingHeld, Pooled, In
<1>2. QED
  BY <1>1, LandingInvariant, PTL

\* A landing never fails by itself: the slices of a range that was fetched as
\* asked measure to the objects they are placed as.
THEOREM FailuresHaveCause == LandingSpec => FailsForCause
<1>1. LandingInv /\ [LandingNext]_vars
        => [outcome # "failed" /\ outcome' = "failed"
              => In("failed") \cup In("other") # {} \/ faults' > faults]_vars
  <2> SUFFICES ASSUME LandingInv, LandingNext, outcome # "failed",
                      outcome' = "failed"
               PROVE  In("failed") \cup In("other") # {} \/ faults' > faults
    BY DEF vars
  <2>1. faults \in Nat
    BY DEF LandingInv, DataOK
  <2>2. CASE Kill \/ \E s \in todo, r \in buffer : SealFails(s, r)
    BY <2>1, <2>2 DEF Kill, SealFails, Fault
  <2>3. ASSUME NEW r \in DOMAIN future, CollectFailed(r)
        PROVE  In("failed") # {}
    BY <2>3 DEF CollectFailed
  <2>4. ASSUME NEW s \in todo, NEW r \in buffer, RefuseSlice(s, r)
        PROVE  In("other") # {}
    BY <2>4, SliceMeasures
       DEF RefuseSlice, PlaceStep, LandingInv, PoolInv, Pooled, In
  <2>5. QED
    BY <2>2, <2>3, <2>4
       DEF LandingNext, StartLanding, Main, Worker, CoalesceStep, SubmitAll,
           StartFetch, FetchRange, FetchBadly, WorkerStep, Collect,
           PlaceSlice, FinishBuffer, FinishCollecting, ExitPool, Leave
<1>2. QED
  BY <1>1, LandingInvariant, PTL DEF LandingSpec, FailsForCause

\* What LandingInv leaves out of the types: the futures are those of ranges.
FutureInv ==
    /\ DOMAIN future \subseteq ranges
    /\ \A r \in DOMAIN future : future[r] \in FutureState
    /\ outcome \in {"none", "done", "failed"}
    /\ faults \in 0..MaxFaults
    /\ staging \in BOOLEAN

LEMMA FutureKeeps ==
    ASSUME LandingInv, FutureInv, LandingNext
    PROVE  FutureInv'
<1> USE LandingAssumption DEF FutureInv, FutureState, poolVars, coalesceVars
<1>1. CASE StartLanding
  <2>1. DOMAIN future' = {}
    BY <1>1 DEF StartLanding
  <2>2. QED
    BY <1>1, <2>1 DEF StartLanding
<1>2. CASE CoalesceStep
  <2>1. DOMAIN future' = {}
    BY <1>2 DEF CoalesceStep, LandingInv, PoolInv
  <2>2. QED
    BY <1>2, <2>1 DEF CoalesceStep
<1>3. CASE SubmitAll
  BY <1>3 DEF SubmitAll
<1>4. CASE Worker
  BY <1>4 DEF Worker, StartFetch, FetchRange, FetchBadly, WorkerStep, Fault
<1>5. CASE Kill
  <2>1. DOMAIN future' = {}
    BY <1>5 DEF Kill
  <2>2. faults' \in 0..MaxFaults
    BY <1>5 DEF Kill, Fault
  <2>3. outcome' = "failed" /\ staging' \in BOOLEAN
    BY <1>5 DEF Kill
  <2>4. QED
    BY <2>1, <2>2, <2>3
<1>6. ASSUME NEW r \in DOMAIN future,
             Collect(r) \/ CollectFailed(r) \/ FinishBuffer(r)
      PROVE  FutureInv'
  BY <1>6 DEF Collect, CollectFailed, FinishBuffer, Raise
<1>7. ASSUME NEW s \in todo, NEW r \in buffer,
             PlaceSlice(s, r) \/ RefuseSlice(s, r) \/ SealFails(s, r)
      PROVE  FutureInv'
  BY <1>7 DEF PlaceSlice, RefuseSlice, SealFails, Raise, Fault
<1>8. CASE FinishCollecting \/ ExitPool
  BY <1>8 DEF FinishCollecting, ExitPool, Leave
<1>9. QED
  BY <1>1, <1>2, <1>3, <1>4, <1>5, <1>6, <1>7, <1>8 DEF LandingNext, Main

LEMMA FutureInvariant == LandingSpec => []FutureInv
<1>1. LandingInit => FutureInv
  <2> SUFFICES ASSUME LandingInit PROVE FutureInv
    OBVIOUS
  <2>1. DOMAIN future = {}
    BY DEF LandingInit
  <2>2. outcome = "none" /\ faults \in 0..MaxFaults
    BY LandingAssumption DEF LandingInit
  <2>3. staging \in BOOLEAN
    BY Zenon DEF LandingInit
  <2>4. QED
    BY <2>1, <2>2, <2>3 DEF FutureInv
<1>2. LandingInv /\ FutureInv /\ [LandingNext]_vars => FutureInv'
  <2>1. CASE UNCHANGED vars
    BY <2>1 DEF vars, poolVars, coalesceVars, FutureInv
  <2>2. QED
    BY <2>1, FutureKeeps
<1>3. QED
  BY <1>1, <1>2, LandingInvariant, PTL DEF LandingSpec

\* The landing and its pool stay inside their types: futures are of ranges of
\* the finished pass, and the slices to be placed are of the buffer at hand.
THEOREM LandingTypes == LandingSpec => []LandingTypeOK
<1>1. LandingInv /\ FutureInv => LandingTypeOK
  <2> SUFFICES ASSUME LandingInv, FutureInv PROVE LandingTypeOK
    OBVIOUS
  <2>1. /\ buffer \subseteq DOMAIN future
        /\ todo \subseteq UNION {r.objs : r \in buffer}
    BY DEF LandingInv, PoolInv, Pooled
  <2>2. QED
    BY <2>1 DEF LandingInv, PassInv, PoolInv, DataOK, FutureInv, LandingTypeOK
<1>2. QED
  BY <1>1, LandingInvariant, FutureInvariant, PTL

Unsealed == {o \in Objects : store[o] = "unsealed"}

CountInv == IsFiniteSet(Unsealed) /\ Cardinality(Unsealed) <= faults

\* One more object without a seal costs one more fault.
LEMMA CountAdds ==
    ASSUME LandingInv, CountInv, NEW o \in Objects,
           store' = [store EXCEPT ![o] = "unsealed"], faults' = faults + 1
    PROVE  CountInv'
<1>1. Unsealed' = Unsealed \cup {o}
  BY DEF Unsealed, LandingInv, DataOK, Objects
<1>2. /\ IsFiniteSet(Unsealed') /\ Cardinality(Unsealed) \in Nat
      /\ Cardinality(Unsealed') \in {Cardinality(Unsealed),
                                     Cardinality(Unsealed) + 1}
  BY <1>1, FS_AddElement, FS_CardinalityType DEF CountInv
<1>3. QED
  BY <1>2 DEF CountInv, LandingInv, DataOK

LEMMA CountKeeps ==
    ASSUME LandingInv, CountInv, LandingNext
    PROVE  CountInv'
<1>1. Cardinality(Unsealed) \in Nat /\ faults \in Nat
  BY FS_CardinalityType DEF CountInv, LandingInv, DataOK
<1>2. CASE UNCHANGED store /\ faults' \in {faults, faults + 1}
  BY <1>1, <1>2 DEF CountInv, Unsealed, Objects
<1>3. ASSUME NEW s \in todo, NEW r \in buffer, PlaceSlice(s, r)
      PROVE  CountInv'
  <2>1. s.obj \in Objects /\ store[s.obj] = "absent" /\ faults' = faults
        /\ store' = [store EXCEPT ![s.obj] = "sealed"]
    BY <1>3, SliceMeasures DEF PlaceSlice, PlaceStep
  <2>2. Unsealed' = Unsealed
    BY <2>1 DEF Unsealed, LandingInv, DataOK, Objects
  <2>3. QED
    BY <2>1, <2>2 DEF CountInv
<1>4. ASSUME NEW s \in todo, NEW r \in buffer, SealFails(s, r)
      PROVE  CountInv'
  BY <1>4, CountAdds, SliceMeasures DEF SealFails, PlaceStep, Fault
<1>5. CASE Kill
  <2>1. CASE UNCHANGED store
    BY <1>2, <1>5, <2>1 DEF Kill, Fault
  <2>2. ASSUME NEW s \in todo, NEW r \in buffer, PlaceStep(s, r),
               store' = [store EXCEPT ![s.obj] = "unsealed"]
        PROVE  CountInv'
    BY <1>5, <2>2, CountAdds, SliceMeasures DEF PlaceStep, Kill, Fault
  <2>3. QED
    BY <1>5, <2>1, <2>2 DEF Kill
<1>6. QED
  BY <1>2, <1>3, <1>4, <1>5
     DEF LandingNext, Main, Worker, StartLanding, CoalesceStep, SubmitAll,
         StartFetch, FetchRange, FetchBadly, WorkerStep, Fault, Collect,
         CollectFailed, RefuseSlice, Raise, FinishBuffer, FinishCollecting,
         ExitPool, Leave

\* Objects without a seal are never more than the faults met, for any index
\* and any number of landings.
THEOREM UnsealedCounted == LandingSpec => []UnsealedByFault
<1>1. LandingInit => CountInv
  <2> SUFFICES ASSUME LandingInit PROVE CountInv
    OBVIOUS
  <2>1. Unsealed = {}
    BY DEF LandingInit, Unsealed
  <2>2. QED
    BY <2>1, FS_EmptySet DEF CountInv, LandingInit
<1>2. LandingInv /\ CountInv /\ [LandingNext]_vars => CountInv'
  <2>1. CASE UNCHANGED vars
    BY <2>1 DEF vars, CountInv, Unsealed, Objects
  <2>2. QED
    BY <2>1, CountKeeps
<1>3. CountInv => UnsealedByFault
  BY DEF CountInv, UnsealedByFault, Unsealed
<1>4. QED
  BY <1>1, <1>2, <1>3, LandingInvariant, PTL DEF LandingSpec

----------------------------------------------------------------------------
(* Landing from the pack is a Landing.                                     *)

PhaseInv ==
    /\ pc \in {"coalesce"} \cup Pooled => outcome = "none"
    /\ pc = "exit" => outcome \in {"done", "failed"}
    /\ \A e \in want : e.obj \in Refs

LEMMA PhaseKeeps ==
    ASSUME LandingInv, PhaseInv, LandingNext
    PROVE  PhaseInv'
<1> USE DEF PhaseInv, Pooled, LandingInv, PoolInv, coalesceVars, poolVars
<1>1. CASE StartLanding
  BY <1>1 DEF StartLanding, Begin, MissingEntries
<1>2. CASE CoalesceStep
  BY <1>2 DEF CoalesceStep, Pass, First, Merge, Cut, Flush, Take
<1>3. CASE SubmitAll \/ FinishCollecting \/ ExitPool \/ Kill
  BY <1>3 DEF SubmitAll, FinishCollecting, ExitPool, Leave, Kill
<1>4. CASE Worker
  BY <1>4 DEF Worker, StartFetch, FetchRange, FetchBadly, WorkerStep
<1>5. ASSUME NEW r \in DOMAIN future,
             Collect(r) \/ CollectFailed(r) \/ FinishBuffer(r)
      PROVE  PhaseInv'
  BY <1>5 DEF Collect, CollectFailed, FinishBuffer, Raise
<1>6. ASSUME NEW s \in todo, NEW r \in buffer,
             PlaceSlice(s, r) \/ RefuseSlice(s, r) \/ SealFails(s, r)
      PROVE  PhaseInv'
  BY <1>6 DEF PlaceSlice, RefuseSlice, SealFails, PlaceStep, Raise
<1>7. QED
  BY <1>1, <1>2, <1>3, <1>4, <1>5, <1>6 DEF LandingNext, Main

\* What is cut out of a buffer is an object the landing is for.
LEMMA SliceWanted ==
    ASSUME LandingInv, PhaseInv, NEW s \in todo, NEW r \in buffer,
           PlaceStep(s, r)
    PROVE  Phase = "landing" /\ s.obj \in Wanted
<1>1. pc = "place" /\ outcome = "none"
  BY DEF PlaceStep, PhaseInv, Pooled
<1>2. r \in AllRanges /\ s \in r.objs
  BY <1>1 DEF LandingInv, PoolInv, AllRanges
<1>3. PICK e \in want : s = Slice(r.start, e)
  BY <1>2 DEF LandingInv, PassInv, SlicesExact
<1>4. e \in Index /\ e.obj \in Refs /\ s.obj = e.obj
  BY <1>3 DEF LandingInv, PassInv, TypeOK, PhaseInv, Slice
<1>5. QED
  BY <1>1, <1>4 DEF Phase, Wanted

LEMMA StartRefines ==
    ASSUME StartLanding
    PROVE  StoreLanding!Next
<1>1. Wanted \in SUBSET Objects
  BY DEF Wanted, Objects
<1>2. Phase # "landing" /\ Phase' \in {"landing", "done"} /\ UNCHANGED store
  BY DEF StartLanding, Phase
<1>3. Phase' = "done" => StoreLanding!InPlace(Wanted)
  <2> SUFFICES ASSUME Phase' = "done", NEW o \in Wanted
               PROVE  store[o] # "absent"
    BY DEF StoreLanding!InPlace
  <2>1. MissingEntries = {}
    BY DEF StartLanding, Phase
  <2>2. QED
    BY <2>1 DEF MissingEntries, Wanted
<1>4. StoreLanding!Start(Wanted)
  BY <1>2, <1>3 DEF StoreLanding!Start
<1>5. QED
  BY <1>1, <1>4 DEF StoreLanding!Next

\* The pass, the pool and the taking of buffers do not show.
LEMMA PoolRefines ==
    ASSUME LandingInv, PhaseInv,
           \/ CoalesceStep \/ SubmitAll \/ Worker \/ ExitPool
           \/ \E r \in DOMAIN future : Collect(r) \/ FinishBuffer(r)
    PROVE  UNCHANGED StoreLanding!state
<1>1. UNCHANGED <<store, outcome>>
  BY DEF CoalesceStep, SubmitAll, Worker, StartFetch, FetchRange, FetchBadly,
         WorkerStep, ExitPool, Leave, Collect, FinishBuffer
<1>2. \/ pc' = pc
      \/ outcome = "none" /\ pc # "idle" /\ pc' # "idle"
      \/ outcome \in {"done", "failed"}
  BY DEF CoalesceStep, SubmitAll, Worker, StartFetch, FetchRange, FetchBadly,
         WorkerStep, ExitPool, Leave, Collect, FinishBuffer, PhaseInv, Pooled
<1>3. Phase' = Phase
  BY <1>1, <1>2 DEF Phase
<1>4. QED
  BY <1>1, <1>3 DEF StoreLanding!state, Wanted

LEMMA PlaceRefines ==
    ASSUME LandingInv, PhaseInv, NEW s \in todo, NEW r \in buffer,
           PlaceSlice(s, r) \/ SealFails(s, r)
    PROVE  StoreLanding!Next
<1>1. /\ Phase = "landing" /\ s.obj \in Wanted /\ s.obj \in Objects
      /\ store[s.obj] = "absent"
  BY SliceWanted DEF PlaceSlice, SealFails, PlaceStep, Wanted, Objects
<1>2. CASE PlaceSlice(s, r)
  <2>1. Phase' = Phase
    BY <1>2 DEF PlaceSlice, Phase
  <2>2. StoreLanding!Place(s.obj)
    BY <1>1, <1>2, <2>1 DEF PlaceSlice, StoreLanding!Place, Wanted
  <2>3. QED
    BY <1>1, <2>2 DEF StoreLanding!Next
<1>3. CASE SealFails(s, r)
  <2>1. Phase' = "idle"
    BY <1>3 DEF SealFails, Raise, Phase
  <2>2. StoreLanding!LeaveUnsealed(s.obj)
    BY <1>1, <1>3, <2>1
       DEF SealFails, StoreLanding!LeaveUnsealed, StoreLanding!Leave
  <2>3. QED
    BY <1>1, <2>2 DEF StoreLanding!Next
<1>4. QED
  BY <1>2, <1>3

\* A landing that ends: done, or without having changed the store.
LEMMA EndRefines ==
    ASSUME LandingInv, PhaseInv,
           \/ FinishCollecting
           \/ \E r \in DOMAIN future : CollectFailed(r)
           \/ \E s \in todo, r \in buffer : RefuseSlice(s, r)
    PROVE  StoreLanding!Next
<1>1. pc \in Pooled /\ outcome = "none" /\ UNCHANGED store
  BY DEF FinishCollecting, CollectFailed, RefuseSlice, PlaceStep, PhaseInv,
         Pooled
<1>2. Phase = "landing"
  BY <1>1 DEF Phase, Pooled
<1>3. CASE FinishCollecting
  <2>1. Phase' = "done"
    BY <1>3 DEF FinishCollecting, Phase
  <2>2. PlacedInv'
    BY <1>3, FinishKeeps
  <2>3. \A e \in Index : e.obj \in Refs => store[e.obj] # "absent"
    BY <1>1, <1>3, <2>2 DEF PlacedInv, FinishCollecting
  <2>4. StoreLanding!InPlace(Wanted)
    BY <2>3 DEF StoreLanding!InPlace, Wanted
  <2>5. StoreLanding!Finish
    BY <1>1, <1>2, <2>1, <2>4 DEF StoreLanding!Finish, Wanted
  <2>6. QED
    BY <2>5 DEF StoreLanding!Next
<1>4. CASE ~FinishCollecting
  <2>1. Phase' = "idle"
    BY <1>4 DEF CollectFailed, RefuseSlice, Raise, Phase
  <2>2. StoreLanding!Leave
    BY <1>2, <2>1 DEF StoreLanding!Leave
  <2>3. QED
    BY <1>1, <2>2 DEF StoreLanding!Next
<1>5. QED
  BY <1>3, <1>4

LEMMA KillRefines ==
    ASSUME LandingInv, PhaseInv, Kill
    PROVE  [StoreLanding!Next]_(StoreLanding!state)
<1>1. Phase' = "idle"
  BY DEF Kill, Phase
<1>2. ASSUME NEW s \in todo, NEW r \in buffer, PlaceStep(s, r),
             store' = [store EXCEPT ![s.obj] = "unsealed"]
      PROVE  StoreLanding!Next
  <2>1. /\ Phase = "landing" /\ s.obj \in Wanted /\ s.obj \in Objects
        /\ store[s.obj] = "absent"
    BY <1>2, SliceWanted DEF PlaceStep, Wanted, Objects
  <2>2. StoreLanding!LeaveUnsealed(s.obj)
    BY <1>1, <1>2, <2>1 DEF StoreLanding!LeaveUnsealed, StoreLanding!Leave
  <2>3. QED
    BY <2>1, <2>2 DEF StoreLanding!Next
<1>3. CASE UNCHANGED store
  <2>1. CASE Phase = "idle"
    BY <1>1, <1>3, <2>1 DEF StoreLanding!state
  <2>2. CASE Phase # "idle"
    <3>1. StoreLanding!Leave
      BY <1>1, <2>2 DEF StoreLanding!Leave
    <3>2. QED
      BY <1>3, <3>1 DEF StoreLanding!Next
  <2>3. QED
    BY <2>1, <2>2
<1>4. QED
  BY <1>2, <1>3 DEF Kill

\* Landing from the pack is the Landing that materialize relies on: for every
\* index, every coalescing, every order of the fetches and any faults, the
\* store moves by one wanted object at a time and has all of them when
\* land_from_pack returns; a landing that fails leaves at most one unsealed.
THEOREM LandingRefined == LandingSpec => StoreLandingSpec
<1>1. LandingInit => PhaseInv /\ StoreLanding!Init
  BY DEF LandingInit, PhaseInv, Pooled, StoreLanding!Init, Phase
<1>2. LandingInv /\ PhaseInv /\ [LandingNext]_vars
        => PhaseInv' /\ [StoreLanding!Next]_(StoreLanding!state)
  <2> SUFFICES ASSUME LandingInv, PhaseInv, [LandingNext]_vars
               PROVE  PhaseInv' /\ [StoreLanding!Next]_(StoreLanding!state)
    OBVIOUS
  <2>1. CASE UNCHANGED vars
    BY <2>1 DEF vars, coalesceVars, poolVars, PhaseInv, Pooled,
                StoreLanding!state, Phase, Wanted
  <2>2. CASE LandingNext
    <3>1. PhaseInv'
      BY <2>2, PhaseKeeps
    <3>2. [StoreLanding!Next]_(StoreLanding!state)
      BY <2>2, StartRefines, PoolRefines, PlaceRefines, EndRefines,
         KillRefines DEF LandingNext, Main
    <3>3. QED
      BY <3>1, <3>2
  <2>3. QED
    BY <2>1, <2>2
<1>3. QED
  BY <1>1, <1>2, LandingInvariant, PTL
     DEF LandingSpec, StoreLandingSpec, StoreLanding!Spec
=============================================================================
