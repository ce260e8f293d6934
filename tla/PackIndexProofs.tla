-------------------------- MODULE PackIndexProofs --------------------------
(***************************************************************************)
(* Theorems about the pack from the packer to the host, for every set of   *)
(* objects, every size of theirs, every index line a fault may leave and   *)
(* any number of faults.  They rest on what CoalesceProofs shows of the    *)
(* ranges.                                                                 *)
(***************************************************************************)
EXTENDS PackIndex, CoalesceProofs, SequenceTheorems, FiniteSetTheorems

LEMMA BytesOK ==
    ASSUME NEW o \in Objects
    PROVE  /\ Bytes(o) \in Seq(PackBytes)
           /\ Len(Bytes(o)) = SizeOf[o]
           /\ SizeOf[o] \in Nat \ {0}
<1>1. SizeOf[o] \in Nat \ {0}
  BY PackAssumption
<1>2. \A i \in 1..SizeOf[o] : <<o, i>> \in PackBytes
  BY DEF PackBytes
<1>3. Bytes(o) \in [1..SizeOf[o] -> PackBytes]
  BY <1>2 DEF Bytes
<1>4. Bytes(o) \in Seq(PackBytes)
  BY <1>1, <1>3, SeqDef
<1>5. 1..Len(Bytes(o)) = 1..SizeOf[o] /\ Len(Bytes(o)) \in Nat
  BY <1>3, <1>4, LenProperties
<1>6. QED
  BY <1>1, <1>4, <1>5

LEMMA WriteTypes ==
    ASSUME PackTypeOK, NEW o \in Objects, Write(o)
    PROVE  /\ Line(o) \in Index
           /\ lines' \in Seq(Index)
           /\ Len(lines') = Len(lines) + 1
           /\ \A i \in 1..Len(lines) : lines'[i] = lines[i]
           /\ lines'[Len(lines) + 1] = Line(o)
           /\ pack' \in Seq(PackBytes)
           /\ Len(pack') = Len(pack) + SizeOf[o]
<1>1. Line(o) \in Index /\ lines' = Append(lines, Line(o))
  BY DEF Write
<1>2. lines \in Seq(Index) /\ pack \in Seq(PackBytes)
  BY DEF PackTypeOK
<1>3. Bytes(o) \in Seq(PackBytes) /\ Len(Bytes(o)) = SizeOf[o]
  BY BytesOK
<1>4. pack' = pack \o Bytes(o)
  BY DEF Write
<1>5. pack' \in Seq(PackBytes) /\ Len(pack') = Len(pack) + SizeOf[o]
  BY <1>2, <1>3, <1>4, ConcatProperties
<1>6. QED
  BY <1>1, <1>2, <1>5, AppendProperties

LEMMA TypesUnmoved ==
    ASSUME PackTypeOK, UNCHANGED <<todo, lines, pack, step, next, expected>>,
           UNCHANGED <<errors, present, damage>>
    PROVE  PackTypeOK'
BY DEF PackTypeOK

LEMMA PackingTypes ==
    ASSUME PackTypeOK, NEW o \in Objects,
           PackObject(o) \/ ListTwice(o) \/ ListNot(o)
    PROVE  PackTypeOK'
<1>1. /\ step = "pack" /\ step' = step
      /\ UNCHANGED <<next, expected, errors, present>>
      /\ todo' \subseteq todo
  BY DEF PackObject, ListTwice, ListNot, IsNext, Damage, gateVars
<1>2. damage' \in 0..MaxDamage
  BY PackAssumption DEF PackTypeOK, PackObject, ListTwice, ListNot, Damage
<1>3. lines' \in Seq(Index) /\ Len(lines') >= Len(lines)
  <2>1. CASE Write(o)
    BY <2>1, WriteTypes DEF PackTypeOK
  <2>2. CASE ListNot(o)
    BY <2>2 DEF ListNot, PackTypeOK
  <2>3. QED
    BY <2>1, <2>2 DEF PackObject, ListTwice
<1>4. pack' \in Seq(PackBytes)
  <2>1. CASE Write(o)
    BY <2>1, WriteTypes
  <2>2. CASE ListNot(o)
    BY <2>2 DEF ListNot, PackTypeOK
  <2>3. QED
    BY <2>1, <2>2 DEF PackObject, ListTwice
<1>5. Len(lines) \in Nat /\ Len(lines') \in Nat
  BY <1>3, LenProperties DEF PackTypeOK
<1>6. next' \in 1..(Len(lines') + 1)
  BY <1>1, <1>3, <1>5 DEF PackTypeOK
<1>7. QED
  BY <1>1, <1>2, <1>3, <1>4, <1>6 DEF PackTypeOK

LEMMA FaultTypes ==
    ASSUME PackTypeOK,
           Truncate \/ \E i \in 1..Len(lines), e \in Index : WrongLine(i, e)
    PROVE  PackTypeOK'
<1>1. /\ UNCHANGED <<todo, step, next, expected, errors, present>>
      /\ damage' \in 0..MaxDamage
  BY PackAssumption DEF PackTypeOK, Truncate, WrongLine, Damage, gateVars
<1>2. CASE Truncate
  <2>1. /\ pack \in Seq(PackBytes)
        /\ pack' = SubSeq(pack, 1, Len(pack) - 1) /\ UNCHANGED lines
    BY <1>2 DEF Truncate, PackTypeOK
  <2>2. Len(pack) \in Nat /\ \A i \in 1..(Len(pack) - 1) : pack[i] \in PackBytes
    BY <2>1, LenProperties
  <2>3. pack' \in Seq(PackBytes)
    BY <2>1, <2>2, SubSeqProperties
  <2>4. QED
    BY <1>1, <2>1, <2>3 DEF PackTypeOK
<1>3. ASSUME NEW i \in 1..Len(lines), NEW e \in Index, WrongLine(i, e)
      PROVE  PackTypeOK'
  <2>1. lines' = [lines EXCEPT ![i] = e] /\ UNCHANGED pack
    BY <1>3 DEF WrongLine
  <2>2. lines' \in Seq(Index) /\ Len(lines') = Len(lines)
    BY <2>1, ExceptSeq DEF PackTypeOK
  <2>3. QED
    BY <1>1, <2>1, <2>2 DEF PackTypeOK
<1>4. QED
  BY <1>2, <1>3

LEMMA LineTypes ==
    ASSUME PackTypeOK, NEW i \in 1..Len(lines)
    PROVE  /\ lines[i] \in Index
           /\ lines[i].off \in Nat /\ lines[i].len \in Nat \ {0}
<1>1. lines[i] \in Index
  BY ElementOfSeq DEF PackTypeOK
<1>2. QED
  BY <1>1, CoalesceAssumption

LEMMA GateTypes ==
    ASSUME PackTypeOK, CheckLine \/ Verdict
    PROVE  PackTypeOK'
<1>1. UNCHANGED <<todo, lines, pack, present, damage>>
  BY DEF CheckLine, Verdict, packVars
<1>2. Len(lines) \in Nat
  BY LenProperties DEF PackTypeOK
<1>3. errors' \in BOOLEAN
  BY Zenon DEF CheckLine, Verdict
<1>4. /\ step' \in {"gate", "refused", "published"}
      /\ step = "gate"
  BY DEF CheckLine, Verdict
<1>5. next' \in 1..(Len(lines) + 1) /\ expected' \in Nat
  <2>1. CASE CheckLine
    <3>1. next \in 1..Len(lines)
      BY <1>2, <2>1 DEF CheckLine, PackTypeOK
    <3>2. QED
      BY <1>2, <2>1, <3>1, LineTypes DEF CheckLine
  <2>2. CASE Verdict
    BY <2>2 DEF Verdict, PackTypeOK
  <2>3. QED
    BY <2>1, <2>2
<1>6. QED
  BY <1>1, <1>3, <1>4, <1>5 DEF PackTypeOK

\* The pack, its index and the gate stay inside their types: every line the
\* packer writes is a line of an index, and the gate stays inside the file.
THEOREM PackTypes == PackSpec => []PackTypeOK
<1>1. PackInit => PackTypeOK
  <2> SUFFICES ASSUME PackInit PROVE PackTypeOK
    OBVIOUS
  <2>1. errors \in BOOLEAN
    BY Zenon DEF PackInit
  <2>2. QED
    BY <2>1, PackAssumption DEF PackInit, PackTypeOK
<1>2. PackTypeOK /\ [PackNext]_indexVars => PackTypeOK'
  <2> SUFFICES ASSUME PackTypeOK, [PackNext]_indexVars PROVE PackTypeOK'
    OBVIOUS
  <2>1. CASE UNCHANGED indexVars
    BY <2>1, TypesUnmoved DEF indexVars, packVars, gateVars
  <2>2. CASE FinishPack
    BY <2>2 DEF FinishPack, packVars, PackTypeOK
  <2>3. ASSUME NEW have \in SUBSET Objects, MissingObjects(have)
        PROVE  PackTypeOK'
    BY <2>3 DEF MissingObjects, packVars, PackTypeOK
  <2>4. CASE Pass /\ UNCHANGED <<packVars, gateVars, present>>
    BY <2>4, TypesUnmoved DEF packVars, gateVars
  <2>5. QED
    BY <2>1, <2>2, <2>3, <2>4, PackingTypes, FaultTypes, GateTypes DEF PackNext
<1>3. QED
  BY <1>1, <1>2, PTL DEF PackSpec

----------------------------------------------------------------------------
(* What the gate has read is right, and what a host reads is what it read. *)

\* Line e is right, and ends no later than the gate expects the next to begin.
Read(e) ==
    /\ e.obj \in Objects
    /\ e.off + e.len <= expected
    /\ ReadAt(e.off, e.len) = Bytes(e.obj)

GateInv ==
    /\ step = "pack" => next = 1
    /\ ~errors => \A i \in 1..(next - 1) : Read(lines[i])
    /\ step \in {"published", "landing"} =>
          ~errors /\ next = Len(lines) + 1 /\ expected = Len(pack)
    /\ step # "landing" => want = {} /\ cur = {} /\ ranges = {}
    /\ step = "landing" =>
          want = UNION {Entry(o) : o \in Objects \ present}

LEMMA GateUnread ==
    ASSUME GateInv, PackTypeOK, step' \in {"pack", "gate"}, next = 1,
           step \in {"pack", "gate"},
           UNCHANGED <<coalesceVars, next, expected, errors>>
    PROVE  GateInv'
BY DEF GateInv, coalesceVars

LEMMA CheckLineKeeps ==
    ASSUME GateInv, PackTypeOK, CheckLine
    PROVE  GateInv'
<1>1. /\ step = "gate" /\ step' = "gate"
      /\ UNCHANGED <<coalesceVars, lines, pack>>
      /\ next' = next + 1 /\ next \in 1..Len(lines)
      /\ expected' = lines[next].off + lines[next].len
      /\ expected \in Nat /\ Len(lines) \in Nat
  BY LenProperties DEF CheckLine, packVars, PackTypeOK
<1>2. /\ lines[next].off \in Nat /\ lines[next].len \in Nat
      /\ \A i \in 1..Len(lines) : lines[i].off \in Nat /\ lines[i].len \in Nat
  BY <1>1, LineTypes
<1>3. ASSUME ~errors', NEW i \in 1..(next' - 1)
      PROVE  Read(lines[i])'
  <2>1. ~errors /\ LineGood(lines[next])
    BY <1>3 DEF CheckLine
  <2>2. expected <= expected'
    BY <1>1, <1>2, <2>1 DEF LineGood
  <2>3. CASE i = next
    <3>1. lines' = lines /\ pack' = pack
      BY <1>1
    <3>2. /\ lines[i].obj \in Objects
          /\ ReadAt(lines[i].off, lines[i].len) = Bytes(lines[i].obj)
      BY <2>1, <2>3 DEF LineGood
    <3>3. ReadAt(lines[i].off, lines[i].len)' = Bytes(lines[i].obj)'
      BY <3>1, <3>2 DEF ReadAt
    <3>4. lines[i].off + lines[i].len <= expected'
      BY <1>1, <1>2, <2>3
    <3>5. QED
      BY <3>1, <3>2, <3>3, <3>4 DEF Read
  <2>4. CASE i # next
    <3>1. i \in 1..(next - 1) /\ i \in 1..Len(lines)
      BY <1>1, <2>4
    <3>2. Read(lines[i])
      BY <2>1, <3>1 DEF GateInv
    <3>3. QED
      BY <1>1, <1>2, <2>2, <3>1, <3>2 DEF Read, ReadAt
  <2>5. QED
    BY <2>3, <2>4
<1>4. QED
  BY <1>1, <1>3 DEF GateInv, coalesceVars

LEMMA VerdictKeeps ==
    ASSUME GateInv, PackTypeOK, Verdict
    PROVE  GateInv'
<1>1. /\ UNCHANGED <<coalesceVars, lines, pack, next, expected>>
      /\ step = "gate" /\ step' \in {"refused", "published"}
      /\ ~errors' => ~errors
  BY DEF Verdict, packVars
<1>2. step' = "published" =>
         ~errors' /\ next = Len(lines) + 1 /\ expected = Len(pack)
  <2> SUFFICES ASSUME step' = "published"
               PROVE  ~errors' /\ next = Len(lines) + 1 /\ expected = Len(pack)
    OBVIOUS
  <2>1. ~errors' /\ TotalsGood
    BY DEF Verdict
  <2>2. next \in 1..(Len(lines) + 1) /\ next > Len(lines) /\ Len(lines) \in Nat
    BY LenProperties DEF Verdict, PackTypeOK
  <2>3. QED
    BY <2>1, <2>2 DEF TotalsGood
<1>3. QED
  BY <1>1, <1>2 DEF GateInv, coalesceVars, Read, ReadAt

LEMMA GateKeeps ==
    ASSUME GateInv, PackTypeOK, [PackNext]_indexVars
    PROVE  GateInv'
<1>1. CASE UNCHANGED indexVars
  BY <1>1 DEF indexVars, coalesceVars, packVars, gateVars, GateInv, Read,
              ReadAt, Entry
<1>2. ASSUME NEW o \in Objects, PackObject(o) \/ ListTwice(o) \/ ListNot(o)
      PROVE  GateInv'
  BY <1>2, GateUnread DEF PackObject, ListTwice, ListNot, IsNext, Damage,
                          gateVars, GateInv
<1>3. ASSUME NEW i \in 1..Len(lines), NEW e \in Index, WrongLine(i, e)
      PROVE  GateInv'
  BY <1>3, GateUnread DEF WrongLine, Damage, gateVars
<1>4. CASE Truncate
  BY <1>4, GateUnread DEF Truncate, Damage, gateVars
<1>5. CASE FinishPack
  BY <1>5, GateUnread DEF FinishPack, GateInv
<1>6. ASSUME NEW have \in SUBSET Objects, MissingObjects(have)
      PROVE  GateInv'
  BY <1>6 DEF MissingObjects, Begin, packVars, GateInv, Read, ReadAt, Entry
<1>7. CASE step = "landing" /\ Pass /\ UNCHANGED <<packVars, gateVars, present>>
  <2>1. UNCHANGED want
    BY <1>7 DEF Pass, First, Merge, Cut, Flush, Take
  <2>2. QED
    BY <1>7, <2>1 DEF packVars, gateVars, GateInv, Read, ReadAt, Entry
<1>8. QED
  BY <1>1, <1>2, <1>3, <1>4, <1>5, <1>6, <1>7, CheckLineKeeps, VerdictKeeps
     DEF PackNext

LEMMA GateInvariant == PackSpec => [](PackTypeOK /\ GateInv)
<1>1. PackInit => GateInv
  BY DEF PackInit, GateInv
<1>2. PackTypeOK /\ GateInv /\ [PackNext]_indexVars => GateInv'
  BY GateKeeps
<1>3. QED
  BY <1>1, <1>2, PackTypes, PTL DEF PackSpec

----------------------------------------------------------------------------
(* The pass, begun with entries of the published index.                    *)

LEMMA EntryOfLine ==
    ASSUME PackTypeOK, NEW o \in Objects, NEW e \in Entry(o)
    PROVE  \E i \in 1..Len(lines) : e = lines[i] /\ e \in Index
BY LineTypes DEF Entry

LEMMA PassOfPack ==
    ASSUME PassInv, ShortInv, PackTypeOK, [PackNext]_indexVars
    PROVE  PassInv' /\ ShortInv'
<1>1. CASE [Pass]_coalesceVars
  BY <1>1, PassAndShortKeep
<1>2. ASSUME NEW have \in SUBSET Objects, MissingObjects(have)
      PROVE  PassInv' /\ ShortInv'
  <2>1. UNION {Entry(o) : o \in Objects \ have} \subseteq Index
    BY EntryOfLine
  <2>2. /\ want' \subseteq Index /\ left' = want' /\ cur' = {} /\ ranges' = {}
    BY <1>2, <2>1 DEF MissingObjects, Begin
  <2>3. QED
    BY <2>2 DEF PassInv, TypeOK, SlicesExact, AllCovered, RangesApart,
                AllRanges, ShortInv, EndsInv, GapsShort
<1>3. ASSUME NEW o \in Objects, PackObject(o) \/ ListTwice(o) \/ ListNot(o)
      PROVE  UNCHANGED coalesceVars
  BY <1>3 DEF PackObject, ListTwice, ListNot, Damage
<1>4. ASSUME Truncate \/ \E i \in 1..Len(lines), e \in Index : WrongLine(i, e)
      PROVE  UNCHANGED coalesceVars
  BY <1>4 DEF Truncate, WrongLine, Damage
<1>5. ASSUME FinishPack \/ CheckLine \/ Verdict
      PROVE  UNCHANGED coalesceVars
  BY <1>5 DEF FinishPack, CheckLine, Verdict
<1>6. QED
  BY <1>1, <1>2, <1>3, <1>4, <1>5 DEF PackNext, indexVars

LEMMA PackInvariant ==
    PackSpec => [](PackTypeOK /\ GateInv /\ PassInv /\ ShortInv)
<1>1. PackInit => PassInv /\ ShortInv
  BY NoRanges DEF PackInit
<1>2. PackTypeOK /\ PassInv /\ ShortInv /\ [PackNext]_indexVars
         => PassInv' /\ ShortInv'
  BY PassOfPack
<1>3. QED
  BY <1>1, <1>2, GateInvariant, PTL DEF PackSpec

\* The pass, too, stays inside its types on whatever index the gate lets
\* through: at most one range is running, and every range asks for something.
THEOREM IndexTypes == PackSpec => []IndexTypeOK
<1>1. PackTypeOK /\ PassInv => IndexTypeOK
  BY DEF PassInv, IndexTypeOK
<1>2. QED
  BY <1>1, PackInvariant, PTL

\* Whoever wants an entry has read a line that the gate found right, at a time
\* when it had measured the whole pack.
LEMMA WantedRead ==
    ASSUME PackTypeOK, GateInv, NEW e \in want
    PROVE  /\ e.off \in Nat /\ e.len \in Nat \ {0}
           /\ e.off + e.len <= Len(pack)
           /\ SubSeq(pack, e.off + 1, e.off + e.len) = Bytes(e.obj)
<1>1. step = "landing" /\ ~errors /\ next = Len(lines) + 1
      /\ expected = Len(pack)
  BY DEF GateInv
<1>2. PICK i \in 1..Len(lines) : e = lines[i]
  BY <1>1, EntryOfLine DEF GateInv
<1>3. Read(e)
  BY <1>1, <1>2 DEF GateInv
<1>4. /\ e.off \in Nat /\ e.len \in Nat \ {0} /\ Len(pack) \in Nat
  BY <1>2, LineTypes, LenProperties DEF PackTypeOK
<1>5. e.off + e.len <= Len(pack)
  BY <1>1, <1>3 DEF Read
<1>6. e.off + e.len < Len(pack) \/ e.off + e.len = Len(pack)
  BY <1>4, <1>5
<1>7. ReadAt(e.off, e.len) = SubSeq(pack, e.off + 1, e.off + e.len)
  BY <1>6, <1>4 DEF ReadAt
<1>8. QED
  BY <1>3, <1>4, <1>5, <1>7 DEF Read

\* What a host cuts out of what it asked for is the object it places, and it
\* asks for nothing beyond the pack, whatever the packer did wrong.
THEOREM CutsAreObjects == PackSpec => []CutsExact
<1>1. PackTypeOK /\ GateInv /\ PassInv /\ ShortInv => CutsExact
  <2> SUFFICES ASSUME PackTypeOK, GateInv, PassInv, ShortInv,
                      NEW r \in AllRanges
               PROVE  /\ r.end < Len(pack)
                      /\ \A s \in r.objs :
                            /\ 0 <= s.rel
                            /\ s.rel + s.len <= r.end - r.start + 1
                            /\ SubSeq(pack, r.start + s.rel + 1,
                                      r.start + s.rel + s.len) = Bytes(s.obj)
    BY DEF CutsExact
  <2>1. r.start \in Nat /\ r.end \in Nat
    BY DEF PassInv, TypeOK, IsRange
  <2>2. r.end < Len(pack)
    <3>1. PICK e \in want : r.end = EndOf(e)
      BY DEF ShortInv, EndsInv
    <3>2. QED
      BY <3>1, WantedRead, LenProperties DEF EndOf, PackTypeOK
  <2>3. ASSUME NEW s \in r.objs
        PROVE  /\ 0 <= s.rel /\ s.rel + s.len <= r.end - r.start + 1
               /\ SubSeq(pack, r.start + s.rel + 1, r.start + s.rel + s.len)
                     = Bytes(s.obj)
    <3>1. PICK e \in want : /\ s = Slice(r.start, e)
                            /\ r.start <= e.off /\ EndOf(e) <= r.end
      BY DEF PassInv, SlicesExact
    <3>2. s.rel = e.off - r.start /\ s.len = e.len /\ s.obj = e.obj
      BY <3>1 DEF Slice
    <3>3. e.off \in Nat /\ e.len \in Nat
      BY WantedRead
    <3>4. /\ r.start + s.rel + 1 = e.off + 1
          /\ r.start + s.rel + s.len = e.off + e.len
      BY <2>1, <3>2, <3>3
    <3>5. 0 <= s.rel /\ s.rel + s.len <= r.end - r.start + 1
      BY <2>1, <3>1, <3>2, <3>3 DEF EndOf
    <3>6. QED
      BY <3>2, <3>4, <3>5, WantedRead
  <2>4. QED
    BY <2>2, <2>3
<1>2. QED
  BY <1>1, PackInvariant, PTL
\* The requests made of the published index are what CoalesceProofs shows of
\* those made of any: exact, complete, apart and
\* short.
THEOREM RequestsOfIndex ==
    PackSpec => [](TypeOK /\ SlicesExact /\ AllCovered /\ RangesApart
                   /\ GapsShort)
BY PackInvariant, PTL DEF PassInv, ShortInv

----------------------------------------------------------------------------
(* As long as nothing goes wrong the lines follow one another.             *)

\* Where the first n objects of an index end.
End(index, n) == IF n = 0 THEN 0 ELSE index[n].off + index[n].len

\* Line e lies in the blob and its bytes are those of its object.
Placed(blob, e) ==
    /\ e.obj \in Objects
    /\ e.off + e.len <= Len(blob)
    /\ SubSeq(blob, e.off + 1, e.off + e.len) = Bytes(e.obj)

Counted ==
    /\ IsFiniteSet(Objects \ todo)
    /\ Len(lines) = Cardinality(Objects \ todo)

CleanInv ==
    damage = 0 =>
       /\ ~errors /\ step # "refused"
       /\ \A i \in 1..Len(lines) :
             lines[i].off = End(lines, i - 1) /\ Placed(pack, lines[i])
       /\ Len(pack) = End(lines, Len(lines))
       /\ expected = End(lines, next - 1)
       /\ step = "pack" => next = 1
       /\ Counted

LEMMA PackObjectClean ==
    ASSUME PackTypeOK, CleanInv, damage = 0, NEW o \in Objects, PackObject(o)
    PROVE  CleanInv'
<1> DEFINE n == Len(lines)
<1>1. /\ UNCHANGED <<step, next, expected, errors, damage>>
      /\ step = "pack" /\ next = 1 /\ o \in todo /\ todo' = todo \ {o}
      /\ pack' = pack \o Bytes(o) /\ Write(o)
  BY DEF PackObject, IsNext, gateVars, CleanInv, Write
<1>2. /\ Bytes(o) \in Seq(PackBytes) /\ Len(Bytes(o)) = SizeOf[o]
      /\ SizeOf[o] \in Nat \ {0}
      /\ pack \in Seq(PackBytes) /\ Len(pack) \in Nat /\ n \in Nat
  BY BytesOK, LenProperties DEF PackTypeOK
<1>3. /\ Len(lines') = n + 1
      /\ \A i \in 1..n : lines'[i] = lines[i]
      /\ lines'[n + 1] = Line(o)
      /\ Len(pack') = Len(pack) + SizeOf[o]
  BY <1>1, WriteTypes
<1>4. /\ Line(o).off = Len(pack) /\ Line(o).len = SizeOf[o]
      /\ Line(o).obj = o
  BY DEF Line
<1>5. /\ \A i \in 0..n : End(lines', i) = End(lines, i)
      /\ End(lines', n + 1) = Len(pack')
  BY <1>2, <1>3, <1>4 DEF End
<1>6. SubSeq(pack', Len(pack) + 1, Len(pack) + SizeOf[o]) = Bytes(o)
  <2>1. SubSeq(pack \o Bytes(o), Len(pack) + 1, Len(pack) + SizeOf[o])
           = SubSeq(Bytes(o), (Len(pack) + 1) - Len(pack),
                              (Len(pack) + SizeOf[o]) - Len(pack))
    <3>1. /\ Len(pack) + 1 \in Len(pack)+1 .. Len(pack)+Len(Bytes(o))
          /\ Len(pack) + SizeOf[o] \in Len(pack)+1 .. Len(pack)+Len(Bytes(o))
      BY <1>2
    <3>2. QED
      BY <1>2, <3>1, SubSeqOfConcat2
  <2>2. /\ (Len(pack) + 1) - Len(pack) = 1
        /\ (Len(pack) + SizeOf[o]) - Len(pack) = Len(Bytes(o))
    BY <1>2
  <2>3. QED
    BY <1>1, <1>2, <2>1, <2>2, SubSeqFull
<1>7. ASSUME NEW i \in 1..(n + 1)
      PROVE  /\ lines'[i].off = End(lines', i - 1)
             /\ Placed(pack', lines'[i])
  <2>1. CASE i = n + 1
    <3>1. lines'[i] = Line(o) /\ i - 1 = n /\ n \in 0..n
      BY <1>2, <1>3, <2>1
    <3>2. lines'[i].off = End(lines', i - 1)
      BY <1>4, <1>5, <3>1 DEF CleanInv
    <3>3. Placed(pack', Line(o))
      BY <1>2, <1>3, <1>4, <1>6 DEF Placed
    <3>4. QED
      BY <3>1, <3>2, <3>3
  <2>2. CASE i # n + 1
    <3>1. i \in 1..n /\ lines'[i] = lines[i] /\ i - 1 \in 0..n
      BY <1>2, <1>3, <2>2
    <3>2. /\ lines[i].off = End(lines, i - 1) /\ Placed(pack, lines[i])
          /\ lines[i].off \in Nat /\ lines[i].len \in Nat \ {0}
      BY <3>1, LineTypes DEF CleanInv
    <3>3. /\ lines[i].off + 1 \in 1..Len(pack)
          /\ lines[i].off + lines[i].len \in 1..Len(pack)
      <4>1. lines[i].off + lines[i].len <= Len(pack)
        BY <3>2 DEF Placed
      <4>2. QED
        BY <1>2, <3>2, <4>1
    <3>4. SubSeq(pack \o Bytes(o), lines[i].off + 1,
                                     lines[i].off + lines[i].len)
             = SubSeq(pack, lines[i].off + 1, lines[i].off + lines[i].len)
      BY <1>2, <3>3, SubSeqOfConcat1
    <3>5. lines[i].off + lines[i].len <= Len(pack')
      BY <1>2, <1>3, <3>2 DEF Placed
    <3>6. Placed(pack', lines'[i])
      BY <1>1, <3>1, <3>2, <3>4, <3>5 DEF Placed
    <3>7. QED
      BY <1>5, <3>1, <3>2, <3>6
  <2>3. QED
    BY <2>1, <2>2
<1>8. Counted'
  <2>1. Objects \ todo' = (Objects \ todo) \cup {o} /\ o \notin Objects \ todo
    BY <1>1
  <2>2. IsFiniteSet(Objects \ todo) /\ n = Cardinality(Objects \ todo)
    BY DEF CleanInv, Counted
  <2>3. /\ IsFiniteSet(Objects \ todo')
        /\ Cardinality(Objects \ todo') = Cardinality(Objects \ todo) + 1
    BY <2>1, <2>2, FS_AddElement
  <2>4. QED
    BY <1>3, <2>2, <2>3 DEF Counted
<1>9. expected' = End(lines', next' - 1)
  <2>1. expected = End(lines, 0) /\ 0 \in 0..n
    BY <1>1, <1>2 DEF CleanInv
  <2>2. QED
    BY <1>1, <1>5, <2>1
<1>10. QED
  BY <1>1, <1>3, <1>5, <1>7, <1>8, <1>9 DEF CleanInv

LEMMA CheckLineClean ==
    ASSUME PackTypeOK, CleanInv, damage = 0, CheckLine
    PROVE  CleanInv'
<1>1. /\ UNCHANGED <<lines, pack, todo, damage>>
      /\ step = "gate" /\ step' = "gate" /\ next' = next + 1
      /\ next \in 1..Len(lines) /\ Len(lines) \in Nat /\ Len(pack) \in Nat
      /\ expected' = lines[next].off + lines[next].len
      /\ errors' = (errors \/ ~LineGood(lines[next]))
  BY LenProperties DEF CheckLine, packVars, PackTypeOK
<1>2. /\ lines[next].off = expected
      /\ lines[next].obj \in Objects
      /\ lines[next].off + lines[next].len <= Len(pack)
      /\ SubSeq(pack, lines[next].off + 1, lines[next].off + lines[next].len)
            = Bytes(lines[next].obj)
      /\ lines[next].off \in Nat /\ lines[next].len \in Nat \ {0}
  BY <1>1, LineTypes DEF CleanInv, Placed
<1>3. \/ lines[next].off + lines[next].len < Len(pack)
      \/ lines[next].off + lines[next].len = Len(pack)
  BY <1>1, <1>2
<1>4. LineGood(lines[next])
  BY <1>2, <1>3 DEF LineGood, ReadAt
<1>5. ~errors'
  BY <1>1, <1>4 DEF CleanInv
<1>6. expected' = End(lines', next' - 1)
  <2>1. next' - 1 = next /\ next # 0
    BY <1>1
  <2>2. QED
    BY <1>1, <2>1 DEF End
<1>7. QED
  BY <1>1, <1>5, <1>6 DEF CleanInv, Counted

LEMMA VerdictClean ==
    ASSUME PackTypeOK, CleanInv, damage = 0, Verdict
    PROVE  CleanInv'
<1>1. /\ UNCHANGED <<lines, pack, todo, damage, next, expected>>
      /\ step = "gate" /\ next > Len(lines)
      /\ next \in 1..(Len(lines) + 1) /\ Len(lines) \in Nat
  BY LenProperties DEF Verdict, packVars, PackTypeOK
<1>2. TotalsGood
  <2>1. next - 1 = Len(lines)
    BY <1>1
  <2>2. expected = Len(pack)
    BY <2>1 DEF CleanInv
  <2>3. Objects \ todo = Objects
    BY <1>1 DEF PackTypeOK
  <2>4. Len(lines) = Cardinality(Objects)
    BY <2>3 DEF CleanInv, Counted
  <2>5. QED
    BY <2>2, <2>4 DEF TotalsGood
<1>3. ~errors' /\ step' = "published"
  BY <1>2 DEF Verdict, CleanInv
<1>4. QED
  BY <1>1, <1>3 DEF CleanInv, Counted

LEMMA CleanKeeps ==
    ASSUME PackTypeOK, CleanInv, [PackNext]_indexVars
    PROVE  CleanInv'
<1> SUFFICES ASSUME damage' = 0 PROVE CleanInv'
  BY DEF CleanInv
<1>1. CASE UNCHANGED <<lines, pack, todo, damage, next, expected, errors, step>>
  BY <1>1 DEF CleanInv, Counted
<1>2. CASE Damage
  BY <1>2 DEF Damage, PackTypeOK
<1>3. ASSUME NEW o \in Objects, PackObject(o)
      PROVE  CleanInv'
  BY <1>3, PackObjectClean DEF PackObject
<1>4. CASE FinishPack
  BY <1>4 DEF FinishPack, packVars, CleanInv, Counted
<1>5. CASE CheckLine
  BY <1>5, CheckLineClean DEF CheckLine, packVars
<1>6. CASE Verdict
  BY <1>6, VerdictClean DEF Verdict, packVars
<1>7. ASSUME NEW have \in SUBSET Objects, MissingObjects(have)
      PROVE  CleanInv'
  BY <1>7 DEF MissingObjects, packVars, CleanInv, Counted
<1>8. CASE Pass /\ UNCHANGED <<packVars, gateVars, present>>
  BY <1>1, <1>8 DEF packVars, gateVars
<1>9. CASE UNCHANGED indexVars
  BY <1>1, <1>9 DEF indexVars, packVars, gateVars
<1>10. QED
  BY <1>2, <1>3, <1>4, <1>5, <1>6, <1>7, <1>8, <1>9
     DEF PackNext, ListTwice, ListNot, WrongLine, Truncate

\* The gate lets every pack through that the packer wrote without a fault: a
\* refusal is never a false alarm.
THEOREM GateNeverErrs == PackSpec => []GateAccepts
<1>1. PackInit => CleanInv
  <2> SUFFICES ASSUME PackInit PROVE CleanInv
    OBVIOUS
  <2>1. Objects \ todo = {} /\ Len(lines) = 0
    BY DEF PackInit
  <2>2. Counted
    BY <2>1, FS_EmptySet DEF Counted
  <2>3. QED
    BY <2>1, <2>2 DEF PackInit, CleanInv, End
<1>2. PackTypeOK /\ CleanInv /\ [PackNext]_indexVars => CleanInv'
  BY CleanKeeps
<1>3. PackTypeOK /\ CleanInv => GateAccepts
  BY DEF PackTypeOK, CleanInv, GateAccepts
<1>4. QED
  BY <1>1, <1>2, <1>3, PackTypes, PTL DEF PackSpec

----------------------------------------------------------------------------
(* Nothing is missing from an index that lists no object twice.            *)

CountedInv ==
    /\ IsFiniteSet(Objects \ todo)
    /\ step \in {"published", "landing"} => Len(lines) = Cardinality(Objects)

LEMMA CountedKeeps ==
    ASSUME PackTypeOK, CountedInv, [PackNext]_indexVars
    PROVE  CountedInv'
<1>1. CASE UNCHANGED <<lines, todo, step>>
  BY <1>1 DEF CountedInv
<1>2. ASSUME NEW o \in Objects, PackObject(o) \/ ListTwice(o) \/ ListNot(o)
      PROVE  CountedInv'
  <2>1. step' = "pack" /\ todo' \in {todo, todo \ {o}}
    BY <1>2 DEF PackObject, ListTwice, ListNot, IsNext, Damage, gateVars
  <2>2. (Objects \ todo') \subseteq ((Objects \ todo) \cup {o})
    BY <2>1
  <2>3. IsFiniteSet((Objects \ todo) \cup {o})
    BY FS_AddElement DEF CountedInv
  <2>4. IsFiniteSet(Objects \ todo')
    BY <2>2, <2>3, FS_Subset
  <2>5. QED
    BY <2>1, <2>4 DEF CountedInv
<1>3. ASSUME Truncate \/ \E i \in 1..Len(lines), e \in Index : WrongLine(i, e)
      PROVE  CountedInv'
  BY <1>3 DEF Truncate, WrongLine, Damage, gateVars, CountedInv
<1>4. CASE FinishPack \/ CheckLine
  BY <1>4 DEF FinishPack, CheckLine, packVars, CountedInv
<1>5. CASE Verdict
  <2>1. UNCHANGED <<lines, todo>> /\ (step' = "published" => TotalsGood)
    BY <1>5 DEF Verdict, packVars
  <2>2. step' \in {"refused", "published"}
    BY <1>5 DEF Verdict
  <2>3. QED
    BY <2>1, <2>2 DEF CountedInv, TotalsGood
<1>6. ASSUME NEW have \in SUBSET Objects, MissingObjects(have)
      PROVE  CountedInv'
  BY <1>6 DEF MissingObjects, packVars, CountedInv
<1>7. CASE Pass /\ UNCHANGED <<packVars, gateVars, present>>
  BY <1>1, <1>7 DEF packVars, gateVars
<1>8. CASE UNCHANGED indexVars
  BY <1>1, <1>8 DEF indexVars, packVars, gateVars
<1>9. QED
  BY <1>2, <1>3, <1>4, <1>5, <1>6, <1>7, <1>8 DEF PackNext

LEMMA CountedInvariant == PackSpec => []CountedInv
<1>1. PackInit => CountedInv
  <2> SUFFICES ASSUME PackInit PROVE CountedInv
    OBVIOUS
  <2>1. Objects \ todo = {}
    BY DEF PackInit
  <2>2. QED
    BY <2>1, FS_EmptySet DEF PackInit, CountedInv
<1>2. PackTypeOK /\ CountedInv /\ [PackNext]_indexVars => CountedInv'
  BY CountedKeeps
<1>3. QED
  BY <1>1, <1>2, PackTypes, PTL DEF PackSpec

Distinct == \A i, j \in 1..Len(lines) : lines[i].obj = lines[j].obj => i = j

\* As many lines as objects, of different objects: every object has its line.
LEMMA EveryObjectListed ==
    ASSUME PackTypeOK, GateInv, CountedInv, step = "landing", Distinct,
           NEW o \in Objects
    PROVE  \E i \in 1..Len(lines) : lines[i].obj = o
<1> DEFINE f == [i \in 1..Len(lines) |-> lines[i].obj]
<1>1. Len(lines) \in Nat
  BY LenProperties DEF PackTypeOK
<1>2. \A i \in 1..Len(lines) : lines[i].obj \in Objects
  BY <1>1 DEF GateInv, Read
<1>3. f \in Injection(1..Len(lines), Objects)
  BY <1>2 DEF Injection, IsInjective, Distinct
<1>4. /\ IsFiniteSet(Objects)
      /\ Cardinality(1..Len(lines)) = Cardinality(Objects)
  <2>1. Objects \ todo = Objects
    BY DEF PackTypeOK
  <2>2. Cardinality(1..Len(lines)) = Len(lines)
    BY <1>1, FS_Interval
  <2>3. QED
    BY <2>1, <2>2 DEF CountedInv
<1>5. f \in Surjection(1..Len(lines), Objects)
  BY <1>3, <1>4, FS_Injection
<1>6. QED
  BY <1>5 DEF Surjection

\* A host asks for all that it lacks: what the gate lets through leaves no
\* object out unless it lists another twice.
THEOREM NothingTakenForInlined == PackSpec => []ClientComplete
<1>1. PackTypeOK /\ GateInv /\ CountedInv => ClientComplete
  <2> SUFFICES ASSUME PackTypeOK, GateInv, CountedInv, step = "landing",
                      Distinct
               PROVE  {e.obj : e \in want} = Objects \ present
    BY DEF ClientComplete, Distinct
  <2>1. want = UNION {Entry(o) : o \in Objects \ present}
    BY DEF GateInv
  <2>2. \A o \in Objects : \A e \in Entry(o) : e.obj = o
    BY DEF Entry
  <2>3. ASSUME NEW o \in Objects
        PROVE  \E e \in Entry(o) : TRUE
    <3>1. PICK i \in 1..Len(lines) : lines[i].obj = o
      BY <2>3, EveryObjectListed
    <3>2. Len(lines) \in Nat
      BY LenProperties DEF PackTypeOK
    <3>3. \A j \in (i + 1)..Len(lines) : lines[j].obj # o
      BY <3>1, <3>2 DEF Distinct
    <3>4. lines[i] \in Entry(o)
      BY <3>1, <3>3 DEF Entry
    <3>5. QED
      BY <3>4
  <2>4. QED
    BY <2>1, <2>2, <2>3
<1>2. QED
  BY <1>1, GateInvariant, CountedInvariant, PTL
=============================================================================
