----------------------------- MODULE Coalesce -----------------------------
(***************************************************************************)
(* How the missing objects of a deployment become HTTP Range requests on   *)
(* the pack blob (zerith/objects.py, _coalesce_ranges): one pass over the  *)
(* index entries of the missing objects in offset order, merging an entry  *)
(* into the running range when at most Gap bytes lie between them.         *)
(*                                                                         *)
(* An index entry is a record [off, len, obj]; a range is a record         *)
(* [start, end, objs] whose objs are the slices [rel, len, obj] to cut out *)
(* of the fetched bytes.  The code's lists are sets here: nothing depends  *)
(* on their order but the pass itself, which takes the least offset first. *)
(***************************************************************************)
EXTENDS Integers, FiniteSets

CONSTANTS
    Index,          \* the entries of the pack index
    Gap             \* ZERITH_COALESCE_GAP

ASSUME CoalesceAssumption ==
    /\ Gap \in Nat
    /\ \A e \in Index :
          /\ e = [off |-> e.off, len |-> e.len, obj |-> e.obj]
          /\ e.off \in Nat /\ e.len \in Nat \ {0}

VARIABLES
    want,           \* the entries of the missing objects
    left,           \* those the pass has not reached
    cur,            \* the running range: a set of at most one
    ranges          \* the finished ranges

coalesceVars == <<want, left, cur, ranges>>

----------------------------------------------------------------------------
EndOf(e) == e.off + e.len - 1

Slice(start, e) == [rel |-> e.off - start, len |-> e.len, obj |-> e.obj]

Open(e) == [start |-> e.off, end |-> EndOf(e), objs |-> {Slice(e.off, e)}]

\* Seeded faults: the last byte of the range is counted into the gap, or out of
\* it twice; the slice is counted from the first byte of the pack.
NearShort(r, e) == e.off - r.end <= Gap

NearLong(r, e) == e.off - (r.end + 2) <= Gap

JoinAbsolute(r, e) ==
    [start |-> r.start, end |-> EndOf(e), objs |-> r.objs \cup {Slice(0, e)}]

Near(r, e) == e.off - (r.end + 1) <= Gap

Join(r, e) ==
    [start |-> r.start,
     end   |-> IF EndOf(e) > r.end THEN EndOf(e) ELSE r.end,
     objs  |-> r.objs \cup {Slice(r.start, e)}]

----------------------------------------------------------------------------
\* The pass begins with the entries that _missing_objects returned.
Begin(entries) ==
    /\ want' = entries
    /\ left' = entries
    /\ cur' = {}
    /\ ranges' = {}

Take(e) ==
    /\ e \in left
    /\ \A f \in left : e.off <= f.off
    /\ left' = left \ {e}
    /\ UNCHANGED want

First(e) ==
    /\ Take(e)
    /\ cur = {}
    /\ cur' = {Open(e)}
    /\ UNCHANGED ranges

Merge(e) ==
    /\ Take(e)
    /\ \E r \in cur : Near(r, e) /\ cur' = {Join(r, e)}
    /\ UNCHANGED ranges

Cut(e) ==
    /\ Take(e)
    /\ \E r \in cur : ~Near(r, e)
    /\ ranges' = ranges \cup cur
    /\ cur' = {Open(e)}

\* Seeded fault: the running range is dropped at the end.
FlushDropped ==
    /\ left = {} /\ cur # {}
    /\ cur' = {}
    /\ UNCHANGED <<want, left, ranges>>

Flush ==
    /\ left = {} /\ cur # {}
    /\ ranges' = ranges \cup cur
    /\ cur' = {}
    /\ UNCHANGED <<want, left>>

Init ==
    /\ want \in SUBSET Index
    /\ left = want
    /\ cur = {}
    /\ ranges = {}

Pass ==
    \/ \E e \in left : First(e) \/ Merge(e) \/ Cut(e)
    \/ Flush

Spec == Init /\ [][Pass]_coalesceVars

----------------------------------------------------------------------------
(* What the requests promise the code that cuts the objects out of them.   *)

AllRanges == ranges \cup cur

IsRange(r) ==
    /\ r = [start |-> r.start, end |-> r.end, objs |-> r.objs]
    /\ r.start \in Nat /\ r.end \in Nat

TypeOK ==
    /\ want \subseteq Index
    /\ left \subseteq want
    /\ \A r \in AllRanges : IsRange(r)
    /\ \A r, q \in cur : r = q

\* Every slice is an entry that is wanted, at its place in the pack, and lies
\* inside the bytes its range asks for.
SlicesExact ==
    \A r \in AllRanges : \A s \in r.objs :
        \E e \in want : s = Slice(r.start, e)
                        /\ r.start <= e.off /\ EndOf(e) <= r.end

\* Nothing wanted is forgotten: every entry the pass has taken is a slice of
\* some range, the one the pass ends with included.
AllCovered ==
    \A e \in want \ left : \E r \in AllRanges : Slice(r.start, e) \in r.objs

\* Two requests are more than Gap bytes apart: no byte is asked for twice and
\* no two requests could have been one.
RangesApart ==
    \A r, q \in AllRanges :
        r # q => r.end + 1 + Gap < q.start \/ q.end + 1 + Gap < r.start

\* A request asks for no run of more than Gap bytes that no missing object
\* needs.
GapsShort ==
    \A r \in AllRanges : \A b \in r.start..(r.end - Gap) :
        \E e \in want : e.off <= b + Gap /\ b <= EndOf(e)
=============================================================================
