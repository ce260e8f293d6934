----------------------------- MODULE PackIndex -----------------------------
(***************************************************************************)
(* The object pack from end to end: pack-objects.sh writes it with its     *)
(* index, verify-pack.py lets the two through or not, and a host looks its *)
(* missing objects up in the index (zerith/objects.py, _fetch_index,       *)
(* _missing_objects) and hands them to Coalesce.                           *)
(*                                                                         *)
(* A digest is a number, so that sorting is that of numbers; a byte of the *)
(* pack is the pair of its object and its place in it.  What the gate is   *)
(* there to catch, a fault of the packer, is damage: an object listed      *)
(* twice or not at all, a wrong line of the index, a truncated pack.       *)
(***************************************************************************)
EXTENDS Coalesce, Sequences

CONSTANTS
    SizeOf,         \* the objects in out/objects with their sizes
    MaxDamage       \* bound: faults of the packer

VARIABLES
    todo,           \* the files the packer has still to write
    lines,          \* the index, in the order of its lines
    pack,           \* the bytes of the pack
    step,           \* who is at work on it
    next,           \* the line the gate is at
    expected,       \* where that line's object should begin
    errors,         \* the gate has found an error
    present,        \* the objects the host has
    damage          \* faults of the packer so far

packVars == <<todo, lines, pack, damage>>

gateVars == <<step, next, expected, errors>>

indexVars == <<coalesceVars, packVars, gateVars, present>>

Objects == DOMAIN SizeOf

ASSUME PackAssumption ==
    /\ MaxDamage \in Nat
    /\ Objects \subseteq Nat
    /\ SizeOf \in [Objects -> Nat \ {0}]

Bytes(o) == [i \in 1..SizeOf[o] |-> <<o, i>>]

PackBytes == UNION {{<<o, i>> : i \in 1..SizeOf[o]} : o \in Objects}

PackTypeOK ==
    /\ todo \subseteq Objects
    /\ lines \in Seq(Index)
    /\ pack \in Seq(PackBytes)
    /\ step \in {"pack", "gate", "refused", "published", "landing"}
    /\ step # "pack" => todo = {}
    /\ next \in 1..(Len(lines) + 1)
    /\ expected \in Nat
    /\ errors \in BOOLEAN
    /\ present \subseteq Objects
    /\ damage \in 0..MaxDamage

IndexTypeOK == PackTypeOK /\ TypeOK

PackInit ==
    /\ todo = Objects /\ lines = <<>> /\ pack = <<>>
    /\ step = "pack" /\ next = 1 /\ expected = 0 /\ errors = FALSE
    /\ present = {} /\ damage = 0
    /\ want = {} /\ left = {} /\ cur = {} /\ ranges = {}

----------------------------------------------------------------------------
(* pack-objects.sh.                                                        *)

\* Seeded fault: the offset is taken after the object is added.
LineAfter(o) ==
    [off |-> Len(pack) + SizeOf[o], len |-> SizeOf[o], obj |-> o]

Line(o) == [off |-> Len(pack), len |-> SizeOf[o], obj |-> o]

\* Bound: Index has the line.
Write(o) ==
    /\ Line(o) \in Index
    /\ pack' = pack \o Bytes(o)
    /\ lines' = Append(lines, Line(o))

IsNext(o) == step = "pack" /\ o \in todo /\ \A p \in todo : o <= p

PackObject(o) ==
    /\ IsNext(o)
    /\ Write(o)
    /\ todo' = todo \ {o}
    /\ UNCHANGED <<coalesceVars, gateVars, present, damage>>

\* Seeded fault: the pack is closed while files are left.
FinishPackEarly ==
    /\ step = "pack"
    /\ step' = "gate"
    /\ UNCHANGED <<coalesceVars, packVars, next, expected, errors, present>>

FinishPack ==
    /\ step = "pack"
    /\ todo = {}
    /\ step' = "gate"
    /\ UNCHANGED <<coalesceVars, packVars, next, expected, errors, present>>

Damage ==
    /\ damage < MaxDamage
    /\ damage' = damage + 1
    /\ UNCHANGED <<coalesceVars, gateVars, present>>

ListTwice(o) == IsNext(o) /\ Damage /\ Write(o) /\ UNCHANGED todo

ListNot(o) ==
    IsNext(o) /\ Damage /\ todo' = todo \ {o} /\ UNCHANGED <<lines, pack>>

WrongLine(i, e) ==
    /\ step = "gate" /\ next = 1 /\ Damage
    /\ i \in 1..Len(lines) /\ e # lines[i]
    /\ lines' = [lines EXCEPT ![i] = e]
    /\ UNCHANGED <<todo, pack>>

Truncate ==
    /\ step = "gate" /\ next = 1 /\ Damage
    /\ pack # <<>>
    /\ pack' = SubSeq(pack, 1, Len(pack) - 1)
    /\ UNCHANGED <<todo, lines>>

----------------------------------------------------------------------------
(* verify-pack.py.                                                         *)

\* What read returns after a seek: less where the pack ends.
ReadAt(off, len) ==
    SubSeq(pack, off + 1, IF off + len < Len(pack) THEN off + len
                          ELSE Len(pack))

\* Seeded fault: only the place is looked at.
LineGoodByPlace(e) == e.off = expected

LineGood(e) ==
    /\ e.off = expected
    /\ e.obj \in Objects
    /\ ReadAt(e.off, e.len) = Bytes(e.obj)

CheckLine ==
    /\ step = "gate"
    /\ next <= Len(lines)
    /\ errors' = (errors \/ ~LineGood(lines[next]))
    /\ expected' = lines[next].off + lines[next].len
    /\ next' = next + 1
    /\ UNCHANGED <<coalesceVars, packVars, step, present>>

\* Seeded fault: the lines are not counted.
TotalsGoodUncounted == expected = Len(pack)

TotalsGood ==
    /\ expected = Len(pack)
    /\ Len(lines) = Cardinality(Objects)

Verdict ==
    /\ step = "gate"
    /\ next > Len(lines)
    /\ errors' = (errors \/ ~TotalsGood)
    /\ step' = IF errors' THEN "refused" ELSE "published"
    /\ UNCHANGED <<coalesceVars, packVars, next, expected, present>>

----------------------------------------------------------------------------
(* The host: the last line of a digest counts, and an object the index     *)
(* does not know is taken for one the image holds itself.                  *)

Entry(o) ==
    {lines[i] : i \in {i \in 1..Len(lines) :
        lines[i].obj = o /\ \A j \in (i + 1)..Len(lines) : lines[j].obj # o}}

MissingObjects(have) ==
    /\ step = "published"
    /\ step' = "landing"
    /\ present' = have
    /\ Begin(UNION {Entry(o) : o \in Objects \ have})
    /\ UNCHANGED <<packVars, next, expected, errors>>

PackNext ==
    \/ \E o \in Objects : PackObject(o) \/ ListTwice(o) \/ ListNot(o)
    \/ \E i \in 1..Len(lines), e \in Index : WrongLine(i, e)
    \/ Truncate
    \/ FinishPack \/ CheckLine \/ Verdict
    \/ \E have \in SUBSET Objects : MissingObjects(have)
    \/ step = "landing" /\ Pass /\ UNCHANGED <<packVars, gateVars, present>>

PackSpec == PackInit /\ [][PackNext]_indexVars

----------------------------------------------------------------------------
(* What the pack promises the hosts.                                       *)

\* What a host cuts out of a range is, byte for byte, the object it places
\* under that digest, and lies inside what it has fetched, and no range asks
\* for more than the pack has, whatever the packer did wrong: the gate lets no
\* such pack through.
CutsExact ==
    \A r \in AllRanges :
        /\ r.end < Len(pack)
        /\ \A s \in r.objs :
              /\ 0 <= s.rel /\ s.rel + s.len <= r.end - r.start + 1
              /\ SubSeq(pack, r.start + s.rel + 1, r.start + s.rel + s.len)
                    = Bytes(s.obj)

\* A host asks for every object it lacks and takes none for inlined, unless
\* the packer listed some object twice: the gate counts lines, not objects.
ClientComplete ==
    /\ step = "landing"
    /\ \A i, j \in 1..Len(lines) : lines[i].obj = lines[j].obj => i = j
    => {e.obj : e \in want} = Objects \ present

\* The packer and the gate agree: a pack that nothing went wrong with is never
\* refused.
GateAccepts == step = "refused" => damage > 0
=============================================================================
