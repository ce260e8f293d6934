--------------------------- MODULE CoalesceProofs ---------------------------
(***************************************************************************)
(* Theorems about the range requests, for every pack index, every set of   *)
(* missing objects and every gap; entries may even overlap.                *)
(***************************************************************************)
EXTENDS Coalesce, TLAPS

\* Where the pass is: there is at most one running range, it began with an
\* entry no later than any that is left, and each finished range ends more
\* than Gap bytes before it.
PassInv ==
    /\ TypeOK
    /\ cur = {} => ranges = {} \/ left = {}
    /\ \A r \in AllRanges : r.start <= r.end
    /\ \A r \in cur : \A e \in left : r.start <= e.off
    /\ \A r \in ranges : \A q \in cur : r.end + 1 + Gap < q.start
    /\ SlicesExact
    /\ AllCovered
    /\ RangesApart

LEMMA EntryOK ==
    ASSUME NEW e \in Index
    PROVE  /\ e = [off |-> e.off, len |-> e.len, obj |-> e.obj]
           /\ e.off \in Nat /\ e.len \in Nat /\ e.len > 0
           /\ EndOf(e) \in Nat /\ e.off <= EndOf(e)
BY CoalesceAssumption DEF EndOf

LEMMA OpenOK ==
    ASSUME NEW e \in Index
    PROVE  /\ IsRange(Open(e)) /\ Open(e).start = e.off
           /\ Open(e).end = EndOf(e) /\ Open(e).objs = {Slice(e.off, e)}
BY EntryOK DEF Open, IsRange

LEMMA JoinOK ==
    ASSUME NEW e \in Index, NEW r, IsRange(r)
    PROVE  /\ IsRange(Join(r, e)) /\ Join(r, e).start = r.start
           /\ Join(r, e).end \in {r.end, EndOf(e)}
           /\ r.end <= Join(r, e).end /\ EndOf(e) <= Join(r, e).end
           /\ Join(r, e).objs = r.objs \cup {Slice(r.start, e)}
BY EntryOK DEF Join, IsRange

LEMMA FirstKeeps ==
    ASSUME PassInv, NEW e \in left, First(e)
    PROVE  PassInv'
<1> e \in Index /\ e \in want
  BY DEF PassInv, TypeOK
<1>1. /\ AllRanges' = {Open(e)} /\ ranges' = {} /\ cur' = {Open(e)}
      /\ left' = left \ {e} /\ want' = want /\ AllRanges = {}
  BY DEF First, Take, PassInv, AllRanges
<1>2. TypeOK'
  BY <1>1, OpenOK DEF PassInv, TypeOK
<1>3. /\ \A f \in left' : e.off <= f.off
      /\ \A f \in want' \ left' : f = e
  BY <1>1 DEF First, Take, PassInv, AllCovered
<1>4. SlicesExact'
  BY <1>1, OpenOK, EntryOK DEF SlicesExact, Slice
<1>5. AllCovered'
  BY <1>1, <1>3, OpenOK DEF AllCovered, Slice
<1>6. QED
  BY <1>1, <1>2, <1>3, <1>4, <1>5, OpenOK, EntryOK DEF PassInv, RangesApart

LEMMA MergeKeeps ==
    ASSUME PassInv, NEW e \in left, Merge(e)
    PROVE  PassInv'
<1> e \in Index /\ e \in want
  BY DEF PassInv, TypeOK
<1>1. PICK r \in cur : Near(r, e) /\ cur' = {Join(r, e)}
  BY DEF Merge
<1>2. /\ cur = {r} /\ IsRange(r) /\ r.start <= r.end /\ r.start <= e.off
      /\ ranges' = ranges /\ left' = left \ {e} /\ want' = want
      /\ AllRanges' = ranges \cup {Join(r, e)} /\ AllRanges = ranges \cup {r}
  BY <1>1 DEF Merge, Take, PassInv, TypeOK, AllRanges
<1>3. TypeOK'
  BY <1>1, <1>2, JoinOK DEF PassInv, TypeOK
<1>4. SlicesExact'
  <2> SUFFICES ASSUME NEW q \in AllRanges', NEW s \in q.objs
               PROVE  \E f \in want : /\ s = Slice(q.start, f)
                                      /\ q.start <= f.off /\ EndOf(f) <= q.end
    BY <1>2 DEF SlicesExact
  <2>1. CASE q \in ranges
    BY <2>1, <1>2 DEF PassInv, SlicesExact
  <2>2. CASE q = Join(r, e) /\ s \in r.objs
    <3>1. PICK f \in want : /\ s = Slice(r.start, f)
                            /\ r.start <= f.off /\ EndOf(f) <= r.end
      BY <2>2, <1>2 DEF PassInv, SlicesExact
    <3>2. f \in Index
      BY DEF PassInv, TypeOK
    <3>3. EndOf(f) <= q.end
      BY <3>1, <3>2, <2>2, <1>2, JoinOK, EntryOK DEF IsRange
    <3>4. QED
      BY <3>1, <3>3, <2>2, <1>2, JoinOK
  <2>3. CASE q = Join(r, e) /\ s = Slice(r.start, e)
    BY <2>3, <1>2, JoinOK
  <2>4. QED
    BY <2>1, <2>2, <2>3, <1>2, JoinOK
<1>5. AllCovered'
  <2> SUFFICES ASSUME NEW f \in want \ left'
               PROVE  \E q \in AllRanges' : Slice(q.start, f) \in q.objs
    BY <1>2 DEF AllCovered
  <2>1. CASE f = e
    BY <2>1, <1>2, JoinOK
  <2>2. CASE f # e
    <3>1. PICK q \in AllRanges : Slice(q.start, f) \in q.objs
      BY <2>2, <1>2 DEF PassInv, AllCovered
    <3>2. QED
      BY <3>1, <1>2, JoinOK
  <2>3. QED
    BY <2>1, <2>2
<1>6. RangesApart'
  <2>1. \A q \in ranges : IsRange(q) /\ q.end + 1 + Gap < r.start
    BY <1>2 DEF PassInv, TypeOK
  <2>2. QED
    BY <1>2, <2>1, JoinOK DEF PassInv, RangesApart
<1>7. \A q \in ranges' : q.end + 1 + Gap < Join(r, e).start
  BY <1>2, JoinOK DEF PassInv
<1>8. \A q \in AllRanges' : q.start <= q.end
  <2>1. Join(r, e).start <= Join(r, e).end
    BY <1>2, JoinOK, EntryOK DEF IsRange
  <2>2. QED
    BY <1>2, <2>1 DEF PassInv
<1>9. \A f \in left' : Join(r, e).start <= f.off
  BY <1>2, JoinOK DEF PassInv
<1>10. QED
  BY <1>1, <1>2, <1>3, <1>4, <1>5, <1>6, <1>7, <1>8, <1>9 DEF PassInv

LEMMA CutKeeps ==
    ASSUME PassInv, NEW e \in left, Cut(e)
    PROVE  PassInv'
<1> e \in Index /\ e \in want
  BY DEF PassInv, TypeOK
<1>1. PICK r \in cur : ~Near(r, e)
  BY DEF Cut
<1>2. /\ cur = {r} /\ IsRange(r) /\ r.start <= r.end
      /\ ranges' = ranges \cup {r} /\ cur' = {Open(e)}
      /\ left' = left \ {e} /\ want' = want
      /\ AllRanges' = AllRanges \cup {Open(e)} /\ AllRanges = ranges \cup {r}
  BY <1>1 DEF Cut, Take, PassInv, TypeOK, AllRanges
<1>3. TypeOK'
  BY <1>2, OpenOK DEF PassInv, TypeOK
<1>4. \A f \in left' : e.off <= f.off
  BY <1>2 DEF Cut, Take
<1>5. \A q \in ranges' : IsRange(q) /\ q.end + 1 + Gap < e.off
  <2>1. r.end + 1 + Gap < e.off
    BY <1>1, <1>2, EntryOK, CoalesceAssumption DEF Near, IsRange
  <2>2. ASSUME NEW q \in ranges
        PROVE  IsRange(q) /\ q.end + 1 + Gap < e.off
    <3>1. IsRange(q) /\ q.end + 1 + Gap < r.start
      BY <1>2 DEF PassInv, TypeOK
    <3>2. QED
      BY <2>1, <3>1, <1>2, EntryOK, CoalesceAssumption DEF IsRange
  <2>3. QED
    BY <2>1, <2>2, <1>2
<1>6. SlicesExact'
  BY <1>2, OpenOK, EntryOK DEF PassInv, SlicesExact
<1>7. AllCovered'
  BY <1>2, OpenOK DEF PassInv, AllCovered
<1>8. RangesApart'
  BY <1>2, <1>5, OpenOK DEF PassInv, RangesApart
<1>9. QED
  BY <1>2, <1>3, <1>4, <1>5, <1>6, <1>7, <1>8, OpenOK, EntryOK DEF PassInv

LEMMA FlushKeeps ==
    ASSUME PassInv, Flush
    PROVE  PassInv'
<1>1. /\ AllRanges' = AllRanges /\ cur' = {} /\ left' = {} /\ left = {}
      /\ want' = want
  BY DEF Flush, AllRanges
<1>2. QED
  BY <1>1 DEF PassInv, TypeOK, SlicesExact, AllCovered, RangesApart

\* A range ends where a wanted entry does.
EndsInv == \A r \in AllRanges : \E e \in want : r.end = EndOf(e)

LEMMA EndsKeep ==
    ASSUME PassInv, EndsInv, Pass
    PROVE  EndsInv'
<1>1. ASSUME NEW e \in left, First(e) \/ Merge(e) \/ Cut(e)
      PROVE  EndsInv'
  <2>1. e \in want /\ e \in Index /\ want' = want
    BY <1>1 DEF PassInv, TypeOK, First, Merge, Cut, Take
  <2>2. ASSUME NEW r \in AllRanges'
        PROVE  \E f \in want' : r.end = EndOf(f)
    <3>1. \/ r \in AllRanges
          \/ r = Open(e)
          \/ \E q \in cur : r = Join(q, e)
      BY <1>1 DEF First, Merge, Cut, AllRanges
    <3>2. CASE \E q \in cur : r = Join(q, e)
      BY <2>1, <3>2, JoinOK DEF PassInv, TypeOK, AllRanges, EndsInv
    <3>3. QED
      BY <2>1, <3>1, <3>2, OpenOK DEF EndsInv
  <2>3. QED
    BY <2>2 DEF EndsInv
<1>2. CASE Flush
  <2>1. AllRanges' = AllRanges /\ want' = want
    BY <1>2 DEF Flush, AllRanges
  <2>2. QED
    BY <2>1 DEF EndsInv
<1>3. QED
  BY <1>1, <1>2 DEF Pass

\* Some wanted entry reaches to within Gap bytes of byte b, from before or from
\* beyond it.
Needed(b) == \E e \in want : e.off <= b + Gap /\ b <= EndOf(e)

\* An entry that joins a range leaves no long gap behind: the range ended with
\* an entry, and this one begins at most Gap bytes after it.
LEMMA JoinShort ==
    ASSUME PassInv, EndsInv, GapsShort, NEW e \in left, NEW r \in cur,
           Near(r, e), NEW b \in r.start..(Join(r, e).end - Gap)
    PROVE  Needed(b)
<1>1. e \in want /\ e \in Index /\ r \in AllRanges /\ IsRange(r)
  BY DEF PassInv, TypeOK, AllRanges
<1>2. /\ e.off \in Nat /\ EndOf(e) \in Nat /\ e.off <= EndOf(e)
      /\ r.start \in Nat /\ r.end \in Nat /\ Gap \in Nat
      /\ Join(r, e).end \in {r.end, EndOf(e)}
  BY <1>1, EntryOK, JoinOK, CoalesceAssumption DEF IsRange
<1>3. b \in Int /\ r.start <= b /\ b <= Join(r, e).end - Gap
  BY <1>2
<1>4. CASE b <= r.end - Gap
  <2>1. b \in r.start..(r.end - Gap)
    BY <1>2, <1>3, <1>4
  <2>2. QED
    BY <1>1, <2>1 DEF GapsShort, Needed
<1>5. CASE ~(b <= r.end - Gap) /\ e.off <= b + Gap
  <2>1. b <= EndOf(e)
    BY <1>2, <1>3, <1>5
  <2>2. QED
    BY <1>1, <1>5, <2>1 DEF Needed
<1>6. CASE ~(b <= r.end - Gap) /\ ~(e.off <= b + Gap)
  <2>1. PICK f \in want : r.end = EndOf(f)
    BY <1>1 DEF EndsInv
  <2>2. f \in Index /\ f.off \in Nat /\ f.off <= EndOf(f)
    BY <2>1, EntryOK DEF PassInv, TypeOK
  <2>3. e.off - (r.end + 1) <= Gap
    BY DEF Near
  <2>4. b <= EndOf(f) /\ f.off <= b + Gap
    BY <1>2, <1>3, <1>6, <2>1, <2>2, <2>3
  <2>5. QED
    BY <2>1, <2>4 DEF Needed
<1>7. QED
  BY <1>4, <1>5, <1>6

LEMMA GapsKeep ==
    ASSUME PassInv, EndsInv, GapsShort, Pass
    PROVE  GapsShort'
<1>1. ASSUME NEW e \in left, First(e) \/ Merge(e) \/ Cut(e)
      PROVE  GapsShort'
  <2>1. e \in want /\ e \in Index /\ want' = want
    BY <1>1 DEF PassInv, TypeOK, First, Merge, Cut, Take
  <2>2. ASSUME NEW r \in AllRanges', NEW b \in r.start..(r.end - Gap)
        PROVE  Needed(b)
    <3>1. \/ r \in AllRanges
          \/ r = Open(e)
          \/ \E q \in cur : Near(q, e) /\ r = Join(q, e)
      BY <1>1 DEF First, Merge, Cut, AllRanges
    <3>2. CASE r \in AllRanges
      BY <3>2 DEF GapsShort, Needed
    <3>3. CASE r = Open(e)
      <4>1. /\ e.off \in Nat /\ EndOf(e) \in Nat /\ Gap \in Nat
            /\ r.start = e.off /\ r.end = EndOf(e)
        BY <2>1, <3>3, OpenOK, EntryOK, CoalesceAssumption
      <4>2. e.off <= b + Gap /\ b <= EndOf(e)
        BY <4>1
      <4>3. QED
        BY <2>1, <4>2 DEF Needed
    <3>4. ASSUME NEW q \in cur, Near(q, e), r = Join(q, e)
          PROVE  Needed(b)
      <4>1. r.start = q.start
        BY <2>1, <3>4, JoinOK DEF PassInv, TypeOK, AllRanges
      <4>2. QED
        BY <3>4, <4>1, JoinShort
    <3>5. QED
      BY <3>1, <3>2, <3>3, <3>4
  <2>3. QED
    BY <2>1, <2>2 DEF GapsShort, Needed
<1>2. CASE Flush
  <2>1. AllRanges' = AllRanges /\ want' = want
    BY <1>2 DEF Flush, AllRanges
  <2>2. QED
    BY <2>1 DEF GapsShort
<1>3. QED
  BY <1>1, <1>2 DEF Pass

ShortInv == EndsInv /\ GapsShort

LEMMA PassAndShortKeep ==
    ASSUME PassInv, ShortInv, [Pass]_coalesceVars
    PROVE  PassInv' /\ ShortInv'
<1>1. CASE UNCHANGED coalesceVars
  BY <1>1 DEF coalesceVars, PassInv, TypeOK, SlicesExact, AllCovered,
              RangesApart, AllRanges, ShortInv, EndsInv, GapsShort
<1>2. CASE Pass
  <2>1. PassInv'
    BY <1>2, FirstKeeps, MergeKeeps, CutKeeps, FlushKeeps DEF Pass
  <2>2. QED
    BY <1>2, <2>1, EndsKeep, GapsKeep DEF ShortInv
<1>3. QED
  BY <1>1, <1>2

\* Before the pass there is nothing to be wrong about.
LEMMA NoRanges ==
    ASSUME want \subseteq Index, left = want, cur = {}, ranges = {}
    PROVE  PassInv /\ ShortInv
BY DEF PassInv, TypeOK, SlicesExact, AllCovered, RangesApart, AllRanges,
       ShortInv, EndsInv, GapsShort

\* The pass keeps its invariant: the requests are exact, complete and apart,
\* and ask for little that nobody needs.
LEMMA PassInvariant == Spec => [](PassInv /\ ShortInv)
<1>1. Init => PassInv /\ ShortInv
  BY NoRanges DEF Init
<1>2. PassInv /\ ShortInv /\ [Pass]_coalesceVars => PassInv' /\ ShortInv'
  BY PassAndShortKeep
<1>3. QED
  BY <1>1, <1>2, PTL DEF Spec

\* The pass stays inside its types; in particular there is never more than one
\* running range.
THEOREM PassTypes == Spec => []TypeOK
BY PassInvariant, PTL DEF PassInv

\* What is cut out of the bytes of a request is an index entry that is wanted,
\* whole and at the right place: place_object never refuses a slice because of
\* the arithmetic.
THEOREM SlicesAreEntries == Spec => []SlicesExact
BY PassInvariant, PTL DEF PassInv

\* Every missing object is in some request.
THEOREM NothingForgotten == Spec => []AllCovered
BY PassInvariant, PTL DEF PassInv

\* Requests are disjoint, and no two of them could have been merged.
THEOREM RequestsApart == Spec => []RangesApart
BY PassInvariant, PTL DEF PassInv

\* No request spans a run of more than Gap bytes that no missing object needs.
THEOREM NothingIdle == Spec => []GapsShort
BY PassInvariant, PTL DEF ShortInv
=============================================================================
