---------------------------- MODULE PackLanding ----------------------------
(***************************************************************************)
(* Landing the objects of one deployment from the pack blob of a registry  *)
(* (zerith/objects.py, land_from_pack): find what is missing, coalesce it  *)
(* into ranges (Coalesce), fetch the ranges in a thread pool, and cut,     *)
(* verify, place and seal the objects in the main thread as the fetches    *)
(* complete.  A landing that fails is tried again by a later command.      *)
(*                                                                         *)
(* A range is its own name: it stands for its future and for its file in   *)
(* the staging directory.                                                  *)
(***************************************************************************)
EXTENDS Coalesce

CONSTANTS
    Refs,           \* the objects root.cfs references
    Jobs,           \* ZERITH_FETCH_JOBS
    MaxFaults       \* bound: failed fetches, bad bytes, failed seals, kills

ASSUME LandingAssumption ==
    /\ Jobs \in Nat \ {0}
    /\ MaxFaults \in Nat

VARIABLES
    pc,             \* the step of the main thread
    future,         \* future[r] for every range r that was submitted
    buffer,         \* the fetched range the main thread is cutting up
    todo,           \* the slices of it that are still to be placed
    staging,        \* the staging directory of this landing exists
    store,          \* store[o]: the file shared/objects/<o>
    outcome,        \* how the last landing ended
    faults

poolVars == <<future, buffer, todo, staging>>

vars == <<coalesceVars, pc, poolVars, store, outcome, faults>>

\* "whole" and "other" are both of the right length; the bytes of the one are
\* those of the range, of the other they are not.
FutureState == {"queued", "running", "whole", "other", "failed", "consumed"}

Objects == Refs \cup {e.obj : e \in Index}

In(state) == {r \in DOMAIN future : future[r] = state}

LandingTypeOK ==
    /\ TypeOK
    /\ pc \in {"idle", "coalesce", "collect", "place", "exit"}
    /\ DOMAIN future \subseteq ranges
    /\ \A r \in DOMAIN future : future[r] \in FutureState
    /\ buffer \subseteq DOMAIN future
    /\ todo \subseteq UNION {r.objs : r \in buffer}
    /\ staging \in BOOLEAN
    /\ store \in [Objects -> {"absent", "unsealed", "sealed"}]
    /\ outcome \in {"none", "done", "failed"}
    /\ faults \in 0..MaxFaults

\* Some of the objects are there from other deployments.
LandingInit ==
    /\ want = {} /\ left = {} /\ cur = {} /\ ranges = {}
    /\ pc = "idle"
    /\ future = <<>> /\ buffer = {} /\ todo = {} /\ staging = FALSE
    /\ store \in [Objects -> {"absent", "sealed"}]
    /\ outcome = "none"
    /\ faults = 0

Fault ==
    /\ faults < MaxFaults
    /\ faults' = faults + 1

----------------------------------------------------------------------------
(* _missing_objects and _coalesce_ranges.  A reference that the index does *)
(* not list counts as inlined and is passed over.                          *)

MissingEntries == {e \in Index : e.obj \in Refs /\ store[e.obj] = "absent"}

\* Seeded fault: the futures of an earlier landing are still there.
StartLandingStale ==
    /\ pc = "idle"
    /\ Begin(MissingEntries)
    /\ pc' = "coalesce" /\ outcome' = "none"
    /\ UNCHANGED <<poolVars, store, faults>>

StartLanding ==
    /\ pc = "idle"
    /\ Begin(MissingEntries)
    /\ IF MissingEntries = {}
       THEN pc' = "idle" /\ outcome' = "done"
       ELSE pc' = "coalesce" /\ outcome' = "none"
    /\ future' = <<>>
    /\ UNCHANGED <<buffer, todo, staging, store, faults>>

CoalesceStep ==
    /\ pc = "coalesce"
    /\ Pass
    /\ UNCHANGED <<pc, poolVars, store, outcome, faults>>

----------------------------------------------------------------------------
(* _land_pack_by_range.  Every range is submitted before the first result  *)
(* is looked at; the pool runs at most Jobs of them at a time.             *)

SubmitAll ==
    /\ pc = "coalesce"
    /\ left = {} /\ cur = {}
    /\ staging' = TRUE
    /\ future' = [r \in ranges |-> "queued"]
    /\ pc' = "collect"
    /\ UNCHANGED <<coalesceVars, buffer, todo, store, outcome, faults>>

\* A step of a worker: the future of r changes and nothing else.
WorkerStep(r, from, to) ==
    /\ r \in In(from)
    /\ future' = [future EXCEPT ![r] = to]
    /\ UNCHANGED <<coalesceVars, pc, buffer, todo, staging, store, outcome>>

PoolSize == IF Cardinality(ranges) <= Jobs THEN Cardinality(ranges) ELSE Jobs

\* Seeded fault: a worker gets its slot back when its buffer has been placed.
StartFetchThrottled(r) ==
    /\ Cardinality(DOMAIN future \ (In("queued") \cup In("consumed")))
          < PoolSize
    /\ WorkerStep(r, "queued", "running")
    /\ UNCHANGED faults

StartFetch(r) ==
    /\ Cardinality(In("running")) < PoolSize
    /\ WorkerStep(r, "queued", "running")
    /\ UNCHANGED faults

\* curl got what was asked for.
FetchRange(r) ==
    /\ WorkerStep(r, "running", "whole")
    /\ UNCHANGED faults

\* curl gave up or the length is wrong: the exception goes into the future;
\* or the length is right and some of the bytes are not.
FetchBadly(r) ==
    /\ Fault
    /\ WorkerStep(r, "running", "failed") \/ WorkerStep(r, "running", "other")

\* The main thread takes a finished future, in any order.
Collect(r) ==
    /\ pc = "collect"
    /\ r \in In("whole") \cup In("other")
    /\ buffer' = {r}
    /\ todo' = r.objs
    /\ pc' = "place"
    /\ UNCHANGED <<coalesceVars, future, staging, store, outcome, faults>>

\* The landing fails: the exception leaves the with-block of the pool.
Raise ==
    /\ outcome' = "failed"
    /\ pc' = "exit"
    /\ buffer' = {}
    /\ todo' = {}
    /\ UNCHANGED <<coalesceVars, future, staging>>

\* Seeded fault: a fetch that failed is passed over.
CollectSwallowed(r) ==
    /\ pc = "collect"
    /\ r \in In("failed")
    /\ future' = [future EXCEPT ![r] = "consumed"]
    /\ UNCHANGED <<coalesceVars, pc, buffer, todo, staging, store, outcome,
                   faults>>

CollectFailed(r) ==
    /\ pc = "collect"
    /\ r \in In("failed")
    /\ Raise
    /\ UNCHANGED <<store, faults>>

----------------------------------------------------------------------------
(* _place_from_buffer and place_object.                                    *)

\* The slice s of range r is where the object lies that it is placed under.
Measures(r, s) ==
    \E e \in Index : s = Slice(r.start, e) /\ EndOf(e) <= r.end

\* Both functions pass over an object that is there.  Nobody else places
\* while this command holds the deploy lock, so no wanted object is.
PlaceStep(s, r) ==
    /\ pc = "place"
    /\ r \in buffer
    /\ s \in todo /\ store[s.obj] = "absent"

\* What is wrong in a buffer may lie in any of its slices, or in none.
PlaceSlice(s, r) ==
    /\ PlaceStep(s, r)
    /\ Measures(r, s)
    /\ store' = [store EXCEPT ![s.obj] = "sealed"]
    /\ todo' = todo \ {s}
    /\ UNCHANGED <<coalesceVars, pc, future, buffer, staging, outcome, faults>>

RefuseSlice(s, r) ==
    /\ PlaceStep(s, r)
    /\ ~Measures(r, s) \/ future[r] = "other"
    /\ Raise
    /\ UNCHANGED <<store, faults>>

\* fsverity enable fails after the rename.
SealFails(s, r) ==
    /\ PlaceStep(s, r)
    /\ Measures(r, s)
    /\ store' = [store EXCEPT ![s.obj] = "unsealed"]
    /\ Raise
    /\ Fault

FinishBuffer(r) ==
    /\ pc = "place"
    /\ r \in buffer /\ todo = {}
    /\ future' = [future EXCEPT ![r] = "consumed"]
    /\ buffer' = {}
    /\ pc' = "collect"
    /\ UNCHANGED <<coalesceVars, todo, staging, store, outcome, faults>>

FinishCollecting ==
    /\ pc = "collect"
    /\ In("consumed") = DOMAIN future
    /\ outcome' = "done"
    /\ pc' = "exit"
    /\ UNCHANGED <<coalesceVars, poolVars, store, faults>>

----------------------------------------------------------------------------
(* Leaving: the pool's with-block waits for every worker, those still to   *)
(* start included, and only then the staging directory is removed.         *)

Leave ==
    /\ pc' = "idle"
    /\ staging' = FALSE
    /\ UNCHANGED <<coalesceVars, future, buffer, todo, store, outcome, faults>>

\* Seeded fault: the pool is not waited for.
ExitAtOnce ==
    /\ pc = "exit"
    /\ Leave

ExitPool ==
    /\ pc = "exit"
    /\ In("queued") \cup In("running") = {}
    /\ Leave

\* The process is killed, its workers with it, between two objects or between
\* the rename of one and its seal.  Its staging directory is never used again.
Kill ==
    /\ pc # "idle"
    /\ Fault
    /\ \/ UNCHANGED store
       \/ \E s \in todo, r \in buffer :
             /\ PlaceStep(s, r) /\ Measures(r, s)
             /\ store' = [store EXCEPT ![s.obj] = "unsealed"]
    /\ pc' = "idle"
    /\ outcome' = "failed"
    /\ future' = <<>> /\ buffer' = {} /\ todo' = {} /\ staging' = FALSE
    /\ UNCHANGED coalesceVars

Worker ==
    \E r \in DOMAIN future : StartFetch(r) \/ FetchRange(r) \/ FetchBadly(r)

Main ==
    \/ CoalesceStep
    \/ SubmitAll
    \/ \E r \in DOMAIN future :
          Collect(r) \/ CollectFailed(r) \/ FinishBuffer(r)
    \/ \E s \in todo, r \in buffer :
          PlaceSlice(s, r) \/ RefuseSlice(s, r) \/ SealFails(s, r)
    \/ FinishCollecting
    \/ ExitPool

LandingNext == StartLanding \/ Main \/ Worker \/ Kill

LandingSpec == LandingInit /\ [][LandingNext]_vars

\* The threads run.  A curl need not end: its retries are counted, but one
\* attempt has no timeout.
FairLanding ==
    /\ LandingSpec
    /\ WF_vars(Main)
    /\ WF_vars(\E r \in DOMAIN future : StartFetch(r))

----------------------------------------------------------------------------
(* What landing promises materialize.                                      *)

\* When landing returns, every referenced object that the index lists is in
\* place: no slice is lost between the coalescing, the pool and the placing.
LandedAll ==
    outcome = "done" =>
        \A e \in Index : e.obj \in Refs => store[e.obj] # "absent"

\* The staging directory is there for as long as a worker may write to it or
\* the main thread read from it, however the landing ends.
StagingHeld ==
    In("running") \cup In("queued") \cup buffer # {} => staging

\* An object without a seal is the trace of a fault of its own: as the main
\* thread alone places, a landing leaves at most one.
UnsealedByFault ==
    Cardinality({o \in Objects : store[o] = "unsealed"}) <= faults

\* A landing fails because a fetch did, because of the bytes it brought, or
\* because it is cut short there and then, never because of what it computed
\* or what an earlier one left behind.
FailsForCause ==
    [][outcome # "failed" /\ outcome' = "failed"
         => In("failed") \cup In("other") # {} \/ faults' > faults]_vars

\* All this is the Landing that materialize counts on: whatever the ranges,
\* the order of the fetches and the faults, the store changes by one wanted
\* object at a time, and is complete when land_from_pack returns.
Wanted == Refs \cap {e.obj : e \in Index}

Phase ==
    CASE outcome = "done" -> "done"
      [] outcome = "none" /\ pc # "idle" -> "landing"
      [] OTHER -> "idle"

StoreLanding == INSTANCE Landing
    WITH phase <- Phase,
         wanted <- IF Phase = "idle" THEN {} ELSE Wanted

StoreLandingSpec == StoreLanding!Spec

\* The main thread and the pool never wait for each other for ever: a landing
\* ends, also when it fails with fetches still queued, or a curl of it stalls.
LandingReturns ==
    \/ pc # "idle" ~> pc = "idle"
    \/ <>[](pc # "idle" /\ In("running") # {})
=============================================================================
