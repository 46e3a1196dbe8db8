---------------------------- MODULE PlePagerProofs ----------------------------
(* Proofs about PlePager for every geometry, any number of calls and any list
   of rows.  The argument: the planner puts the sectors of a wave next to each
   other in the arena; the reads in flight belong to the wave of the call that
   holds read_mutex, one lane each; so a sector that was issued is either on a
   lane or in its place, and the rows gathered so far are right wherever their
   sector is no longer to be read.                                             *)
EXTENDS PlePager, FiniteSetTheorems, WellFoundedInduction, TLAPS

-----------------------------------------------------------------------------
(* Arithmetic of sectors *)

LEMMA Multiples ==
  ASSUME NEW a \in Nat, NEW m \in Nat, NEW n \in Nat, m <= n
  PROVE  a * m <= a * n
  OBVIOUS

LEMMA OneMore ==
  ASSUME NEW a \in Nat, NEW n \in Nat
  PROVE  a * (n + 1) = a * n + a
  OBVIOUS

LEMMA Division ==
  ASSUME NEW v \in Nat, NEW a \in Nat \ {0}
  PROVE  /\ v % a \in 0 .. a - 1
         /\ v \div a \in Nat
         /\ v = a * (v \div a) + (v % a)
  OBVIOUS

LEMMA NoRemainder ==
  ASSUME NEW q \in Nat, NEW a \in Nat \ {0}
  PROVE  (a * q) % a = 0
  OBVIOUS

\* rounding down gives the largest multiple that is not above
LEMMA RoundDown ==
  ASSUME NEW v \in Nat, NEW a \in Nat \ {0}
  PROVE  /\ v - (v % a) \in Nat
         /\ v - (v % a) <= v
         /\ v < v - (v % a) + a
         /\ (v - (v % a)) % a = 0
<1>1. v - (v % a) = a * (v \div a) BY Division
<1>2. (a * (v \div a)) % a = 0 BY Division, NoRemainder
<1>3. (v - (v % a)) % a = 0 BY <1>1, <1>2
<1> QED BY <1>3, Division

LEMMA RoundDownMonotone ==
  ASSUME NEW v \in Nat, NEW w \in Nat, NEW a \in Nat \ {0}, v <= w
  PROVE  v - (v % a) <= w - (w % a)
<1>1. /\ v = a * (v \div a) + (v % a) /\ v % a \in 0 .. a - 1 /\ v \div a \in Nat
      /\ w = a * (w \div a) + (w % a) /\ w % a \in 0 .. a - 1 /\ w \div a \in Nat
  BY Division
<1>2. v \div a <= w \div a
  <2>1. SUFFICES ASSUME (w \div a) + 1 <= v \div a PROVE FALSE BY <1>1
  <2>2. a * ((w \div a) + 1) <= a * (v \div a) BY <1>1, <2>1, Multiples
  <2>3. a * ((w \div a) + 1) = a * (w \div a) + a BY <1>1
  <2> QED BY <1>1, <2>2, <2>3
<1>3. a * (v \div a) <= a * (w \div a) BY <1>1, <1>2, Multiples
<1> QED BY <1>1, <1>3

\* two multiples differ by a sector
LEMMA NextMultiple ==
  ASSUME NEW v \in Nat, NEW w \in Nat, NEW a \in Nat \ {0},
         v % a = 0, w % a = 0, v < w
  PROVE  v + a <= w
<1>1. /\ v = a * (v \div a) /\ v \div a \in Nat
      /\ w = a * (w \div a) /\ w \div a \in Nat
  BY Division
<1>2. v \div a < w \div a
  <2>1. SUFFICES ASSUME w \div a <= v \div a PROVE FALSE BY <1>1
  <2>2. a * (w \div a) <= a * (v \div a) BY <1>1, <2>1, Multiples
  <2> QED BY <1>1, <2>2
<1>3. a * ((v \div a) + 1) <= a * (w \div a) BY <1>1, <1>2, Multiples
<1>4. a * ((v \div a) + 1) = a * (v \div a) + a BY <1>1
<1> QED BY <1>1, <1>3, <1>4
-----------------------------------------------------------------------------
(* The planner *)

LEMMA SourceType ==
  ASSUME source \in Sources
  PROVE  /\ source.tensor_offset \in Nat /\ source.tensor_bytes \in Nat
         /\ source.row_count \in Nat /\ source.row_bytes \in Nat \ {0}
         /\ source.alignment \in Nat \ {0} /\ source.file_bytes \in Nat
         /\ source.buffer_bytes \in Nat \ {0} /\ source.io_depth \in Nat \ {0}
         /\ source.tensor_offset + source.tensor_bytes <= source.file_bytes
  BY SourcesAssumption DEF Source

LEMMA AlignDown ==
  ASSUME source \in Sources, NEW v \in Nat
  PROVE  /\ align_down(v) \in Nat
         /\ align_down(v) <= v
         /\ v < align_down(v) + source.alignment
         /\ align_down(v) % source.alignment = 0
  BY SourceType, RoundDown DEF align_down

LEMMA AlignUp ==
  ASSUME source \in Sources, NEW v \in Nat
  PROVE  align_up(v) \in Nat /\ v <= align_up(v)
<1>1. v % source.alignment \in 0 .. source.alignment - 1 BY SourceType, Division
<1> QED BY <1>1, SourceType DEF align_up

\* a sector that starts below a rounded-up end starts below the end
LEMMA AlignUpLast ==
  ASSUME source \in Sources, NEW v \in Nat, NEW s \in Nat,
         s % source.alignment = 0, s < align_up(v)
  PROVE  s < v
<1>1. SUFFICES ASSUME v <= s PROVE FALSE BY SourceType
<1>2. CASE v % source.alignment = 0 BY <1>1, <1>2 DEF align_up
<1>3. CASE v % source.alignment # 0
  <2>0. v % source.alignment \in Nat \ {0}
    <3>1. v % source.alignment \in 0 .. source.alignment - 1 BY SourceType, Division
    <3> QED BY <1>3, <3>1, SourceType
  <2>1. /\ align_down(v) \in Nat /\ align_down(v) % source.alignment = 0
        /\ align_down(v) < v
    <3>1. align_down(v) < v BY <2>0 DEF align_down
    <3> QED BY <3>1, AlignDown
  <2>2. align_down(v) + source.alignment <= s
    BY <1>1, <2>1, SourceType, NextMultiple
  <2>3. align_up(v) = align_down(v) + source.alignment
    BY <1>3, <2>0, SourceType DEF align_up, align_down
  <2> QED BY <2>1, <2>2, <2>3, SourceType
<1> QED BY <1>2, <1>3

LEMMA RowPlace ==
  ASSUME source \in Sources, NEW list \in Requests, Plannable(list),
         NEW i \in DOMAIN list
  PROVE  /\ list[i] \in Nat
         /\ RowOffset(list[i]) \in Nat
         /\ RowEnd(list[i]) = RowOffset(list[i]) + source.row_bytes
         /\ RowEnd(list[i]) <= source.file_bytes
<1>1. list[i] \in Nat BY SourceType DEF Plannable
<1>2. list[i] * source.row_bytes \in Nat BY <1>1, SourceType
<1>3. RowEnd(list[i]) <= source.tensor_offset + source.tensor_bytes BY DEF Plannable
<1> QED BY <1>1, <1>2, <1>3, SourceType DEF RowOffset, RowEnd

\* the sectors of a plan are in the file
LEMMA PlanInFile ==
  ASSUME source \in Sources, NEW list \in Requests, Plannable(list)
  PROVE  \A s \in PlanSectors(list) : s \in Nat /\ s < source.file_bytes
<1> SUFFICES ASSUME NEW s \in PlanSectors(list)
             PROVE  s \in Nat /\ s < source.file_bytes
  OBVIOUS
<1>1. PICK i \in DOMAIN list : s \in RowSectors(list[i]) BY DEF PlanSectors
<1>2. /\ RowOffset(list[i]) \in Nat /\ RowEnd(list[i]) \in Nat
      /\ RowEnd(list[i]) <= source.file_bytes
  BY RowPlace, SourceType
<1>3. /\ align_down(RowOffset(list[i])) \in Nat /\ align_up(RowEnd(list[i])) \in Nat
  BY <1>2, AlignDown, AlignUp
<1>4. /\ s \in align_down(RowOffset(list[i])) .. align_up(RowEnd(list[i])) - 1
      /\ s % source.alignment = 0
  BY <1>1 DEF RowSectors
<1>5. s \in Nat /\ s < align_up(RowEnd(list[i])) BY <1>3, <1>4
<1>6. s < RowEnd(list[i]) BY <1>2, <1>4, <1>5, AlignUpLast
<1> QED BY <1>2, <1>5, <1>6, SourceType

\* every byte of a row is in a sector of the plan
LEMMA PlanCovers ==
  ASSUME source \in Sources, NEW list \in Requests, Plannable(list),
         NEW i \in DOMAIN list, NEW b \in 0 .. source.row_bytes - 1
  PROVE  /\ RowOffset(list[i]) + b \in Nat
         /\ RowOffset(list[i]) + b < source.file_bytes
         /\ align_down(RowOffset(list[i]) + b) \in PlanSectors(list)
<1> DEFINE at == RowOffset(list[i])
<1>1. /\ at \in Nat /\ RowEnd(list[i]) = at + source.row_bytes
      /\ RowEnd(list[i]) <= source.file_bytes
  BY RowPlace
<1>2. /\ b \in Nat /\ at + b \in Nat /\ at <= at + b /\ at + b < RowEnd(list[i])
      /\ RowEnd(list[i]) \in Nat
  BY <1>1, SourceType
<1>3. at + b < source.file_bytes BY <1>1, <1>2, SourceType
<1>4. align_down(at) <= align_down(at + b)
  BY <1>1, <1>2, SourceType, RoundDownMonotone DEF align_down
<1>5. /\ align_down(at) \in Nat
      /\ align_down(at + b) \in Nat /\ align_down(at + b) <= at + b
      /\ align_down(at + b) % source.alignment = 0
  BY <1>1, <1>2, AlignDown
<1>6. RowEnd(list[i]) <= align_up(RowEnd(list[i])) /\ align_up(RowEnd(list[i])) \in Nat
  BY <1>2, AlignUp
<1> HIDE DEF at
<1>7. align_down(at + b) \in align_down(at) .. align_up(RowEnd(list[i])) - 1
  BY <1>1, <1>2, <1>4, <1>5, <1>6
<1>8. align_down(at + b) \in RowSectors(list[i]) BY <1>5, <1>7 DEF RowSectors, at
<1> QED BY <1>2, <1>3, <1>8 DEF at, PlanSectors

\* the sectors of a plan lie one after the other in the arena
LEMMA ArenaOrder ==
  ASSUME source \in Sources, NEW left \in SUBSET Nat, NEW s \in left, NEW t \in left
  PROVE  /\ ArenaOffset(left, s) \in Nat
         /\ t < s => ArenaOffset(left, t) + source.alignment <= ArenaOffset(left, s)
<1> DEFINE Below(x) == {y \in left : y < x}
           n(x) == Cardinality(Below(x))
<1>0. s \in Nat /\ t \in Nat /\ \A x \in left : x \in Nat OBVIOUS
<1>1. ASSUME NEW x \in left
      PROVE  IsFiniteSet(Below(x)) /\ n(x) \in Nat
  <2>1. x \in Nat OBVIOUS
  <2>2. Below(x) \in SUBSET Nat OBVIOUS
  <2>3. \A y \in Below(x) : y <= x BY <2>1
  <2>4. IsFiniteSet(Below(x)) BY <2>1, <2>2, <2>3, FS_BoundedSetOfNaturals
  <2> QED BY <2>4, FS_CardinalityType
<1>2. \A x \in left : ArenaOffset(left, x) = source.alignment * n(x) BY DEF ArenaOffset
<1>3. ASSUME t < s
      PROVE  n(t) + 1 <= n(s)
  <2>1. n(t) + 1 = Cardinality(Below(t) \cup {t})
    <3>1. t \notin Below(t) BY <1>0
    <3> QED BY <1>1, <3>1, FS_AddElement
  <2>2. Below(t) \cup {t} \subseteq Below(s)
    <3>1. \A x \in left : x < t => x < s BY <1>0, <1>3
    <3> QED BY <1>3, <3>1
  <2> QED BY <1>1, <2>1, <2>2, FS_Subset
<1>4. n(s) \in Nat /\ n(t) \in Nat BY <1>1
<1> HIDE DEF n
<1>5. ASSUME t < s
      PROVE  source.alignment * n(t) + source.alignment <= source.alignment * n(s)
  <2>1. source.alignment * (n(t) + 1) <= source.alignment * n(s)
    BY <1>3, <1>4, <1>5, SourceType, Multiples
  <2>2. source.alignment * (n(t) + 1) = source.alignment * n(t) + source.alignment
    BY <1>4, SourceType, OneMore
  <2> QED BY <2>1, <2>2
<1>6. source.alignment * n(s) \in Nat BY <1>4, SourceType
<1> QED BY <1>2, <1>5, <1>6

\* two sectors of a plan do not overlap in the arena
LEMMA ArenaApart ==
  ASSUME source \in Sources, NEW left \in SUBSET Nat, NEW s \in left, NEW t \in left,
         s # t
  PROVE  \/ ArenaOffset(left, s) + source.alignment <= ArenaOffset(left, t)
         \/ ArenaOffset(left, t) + source.alignment <= ArenaOffset(left, s)
<1>1. s < t \/ t < s OBVIOUS
<1> QED BY <1>1, ArenaOrder

LEMMA InFileBounds ==
  ASSUME source \in Sources, NEW s \in Nat, s < source.file_bytes
  PROVE  /\ InFile(s) \in Nat \ {0} /\ InFile(s) <= source.alignment
         /\ expected_read_bytes(s) = InFile(s)
         /\ \A v \in Nat : s <= v /\ v < s + source.alignment /\ v < source.file_bytes
                             => v - s \in 0 .. InFile(s) - 1
  BY SourceType DEF InFile, expected_read_bytes

LEMMA SmallestOf ==
  ASSUME NEW T \in SUBSET Nat, T # {}
  PROVE  Min(T) \in T
<1> DEFINE R == OpToRel(<, Nat)
<1>0. T \subseteq Nat OBVIOUS
<1>1. IsWellFoundedOn(R, Nat) BY NatLessThanWellFounded
<1> HIDE DEF R
<1>2. PICK x \in T : \A y \in T : <<y, x>> \notin R BY <1>0, <1>1, WFMin
<1>4. \A y \in T : ~(y < x) BY <1>0, <1>2 DEF R, OpToRel
<1>3. \A y \in T : x =< y BY <1>0, <1>4
<1> QED BY <1>3 DEF Min
-----------------------------------------------------------------------------
(* The inductive invariant *)

\* the calls inside read_plan
Inside == {"issue", "collect", "drain"}

\* a call is inside exactly when it holds the mutex
Held == \A c \in Caller : pc[c] \in Inside <=> read_mutex = c

\* what is left to read was planned
Planned ==
  \A c \in Caller :
    pc[c] \in {"map", "lock"} \cup Inside =>
      Plannable(rows[c]) /\ sectors[c] \subseteq PlanSectors(rows[c])

Queued == \A c \in Caller : pc[c] \in {"issue", "collect"} => queued[c] \subseteq Wave(sectors[c])

\* an active lane reads a sector of the holder's wave into its place, and no
\* other lane reads that sector; a read in flight is on an active lane
Owned ==
  \A n \in Lane :
    /\ lanes[n].io = "pending" => lanes[n].active /\ lanes[n].bytes = 0
    /\ lanes[n].active =>
         /\ read_mutex \in Caller /\ lanes[n].io # "none"
         /\ lanes[n].sector \in Wave(sectors[read_mutex]) \ queued[read_mutex]
         /\ lanes[n].buffer_offset = ArenaOffset(sectors[read_mutex], lanes[n].sector)
         /\ \A m \in Lane : lanes[m].active /\ lanes[m].sector = lanes[n].sector => m = n

\* while a group is issued the lanes are taken in order
InOrder == \A c \in Caller : pc[c] = "issue" => \E k \in 0 .. LaneCount : Active = 1 .. k

\* the bytes of sector s of a wave are in their place
Loaded(left, s) == \A k \in 0 .. InFile(s) - 1 : arena[ArenaOffset(left, s) + k] = s + k

\* a sector that was issued is on a lane or in its place
Fetched ==
  \A c \in Caller : pc[c] \in {"issue", "collect"} =>
    \A s \in Wave(sectors[c]) \ queued[c] :
      Loaded(sectors[c], s) \/ \E n \in Lane : lanes[n].active /\ lanes[n].sector = s

\* a lane that reports the expected bytes has loaded its sector, and one that
\* does not met a failure
Finished ==
  \A n \in Lane : lanes[n].active =>
    /\ lanes[n].io = "done" =>
         \/ lanes[n].bytes = InFile(lanes[n].sector)
            /\ Loaded(sectors[read_mutex], lanes[n].sector)
         \/ lanes[n].bytes = 0 /\ read_mutex \in faulted
    /\ lanes[n].io = "bad" => read_mutex \in faulted

\* the rows of c with the bytes of the sectors in left still missing
Partial(c, left) ==
  [i \in DOMAIN rows[c] |->
     [b \in 0 .. source.row_bytes - 1 |->
        IF align_down(RowOffset(rows[c][i]) + b) \in left THEN NoByte
        ELSE RowOffset(rows[c][i]) + b]]
Gathered ==
  \A c \in Caller :
    /\ pc[c] \in {"lock", "issue", "collect"} => compact[c] = Partial(c, sectors[c])
    /\ pc[c] = "returned" => compact[c] = Partial(c, {})

Excused ==
  \A c \in Caller :
    /\ pc[c] = "drain" => c \in faulted
    /\ pc[c] = "failed" => c \in faulted \/ ~Plannable(rows[c])

IInv ==
  /\ TypeOK /\ Held /\ Planned /\ Queued /\ Owned /\ InOrder
  /\ Fetched /\ Finished /\ Gathered /\ Excused
-----------------------------------------------------------------------------
(* Steps *)

\* the geometry never changes, and what is reckoned from it does not either
LEMMA Same ==
  ASSUME source' = source
  PROVE  /\ Lane' = Lane /\ LaneCount' = LaneCount
         /\ \A L : Wave(L)' = Wave(L)
         /\ \A L, s : ArenaOffset(L, s)' = ArenaOffset(L, s)
         /\ \A s : InFile(s)' = InFile(s)
         /\ \A v : align_down(v)' = align_down(v)
         /\ \A r : RowOffset(r)' = RowOffset(r)
         /\ \A list : PlanSectors(list)' = PlanSectors(list)
         /\ \A list : Plannable(list)' = Plannable(list)
<1>1. Lane' = Lane /\ LaneCount' = LaneCount BY DEF Lane, LaneCount
<1>2. \A L, s : ArenaOffset(L, s)' = ArenaOffset(L, s) BY DEF ArenaOffset
<1>3. \A L : Wave(L)' = Wave(L) BY <1>2 DEF Wave
<1>4. \A s : InFile(s)' = InFile(s) BY DEF InFile
<1>5. \A v : align_down(v)' = align_down(v) BY DEF align_down
<1>6. \A r : RowOffset(r)' = RowOffset(r) BY DEF RowOffset
<1>7. \A list : PlanSectors(list)' = PlanSectors(list)
  BY DEF PlanSectors, RowSectors, align_down, align_up, RowEnd, RowOffset
<1>8. \A list : Plannable(list)' = Plannable(list) BY DEF Plannable, RowEnd, RowOffset
<1> QED BY <1>1, <1>2, <1>3, <1>4, <1>5, <1>6, <1>7, <1>8

LEMMA WaveFits ==
  ASSUME NEW left
  PROVE  /\ Wave(left) \subseteq left
         /\ \A s \in Wave(left) :
              ArenaOffset(left, s) + source.alignment <= source.buffer_bytes
  BY DEF Wave

\* a step that leaves the lanes, the arena, the wave of the holder and the
\* failures alone
LEMMA Quiet ==
  ASSUME IInv, UNCHANGED <<request, read_mutex, queued, lanes, arena>>,
         faulted \subseteq faulted',
         \A c \in Caller : pc[c] \in Inside <=> pc'[c] \in Inside,
         \A c \in Caller : pc[c] \in Inside => sectors'[c] = sectors[c]
  PROVE  Held' /\ Owned' /\ Finished'
<1>1. Held' BY DEF Held, IInv
<1>2. read_mutex \in Caller => sectors'[read_mutex] = sectors[read_mutex]
  BY DEF IInv, Held
<1>3. Owned' BY <1>2, Same DEF Owned, IInv, request
<1>4. Finished' BY <1>2, Same DEF Owned, Finished, Loaded, IInv, request
<1> QED BY <1>1, <1>3, <1>4

LEMMA FetchedStays ==
  ASSUME Fetched, UNCHANGED <<source, queued, lanes, arena>>,
         \A c \in Caller : pc'[c] \in {"issue", "collect"} =>
           pc[c] \in {"issue", "collect"} /\ sectors'[c] = sectors[c]
  PROVE  Fetched'
<1> SUFFICES ASSUME NEW c \in Caller, pc'[c] \in {"issue", "collect"},
                    NEW s \in Wave(sectors[c]) \ queued[c]
             PROVE  Loaded(sectors[c], s)' \/ \E n \in Lane : lanes[n].active /\ lanes[n].sector = s
  BY Same DEF Fetched, Loaded
<1>1. Loaded(sectors[c], s) \/ \E n \in Lane : lanes[n].active /\ lanes[n].sector = s
  BY DEF Fetched
<1>2. Loaded(sectors[c], s) => Loaded(sectors[c], s)' BY Same DEF Loaded
<1> QED BY <1>1, <1>2

LEMMA Lanes ==
  ASSUME source \in Sources
  PROVE  LaneCount \in Nat \ {0} /\ Lane = 1 .. LaneCount
<1>1. source.buffer_bytes \div source.alignment \in Nat BY SourceType, Division
<1> QED BY <1>1, SourceType DEF LaneCount, Lane

\* with no lane active a group may begin
LEMMA NoLane ==
  ASSUME source \in Sources, Active = {}
  PROVE  \E k \in 0 .. LaneCount : Active = 1 .. k
<1>1. 0 \in 0 .. LaneCount /\ 1 .. 0 = {} BY Lanes
<1> QED BY <1>1

LEMMA PlanKeeps ==
  ASSUME IInv, NEW c \in Caller, Plan(c)
  PROVE  IInv'
<1> USE DEF IInv
<1>1. /\ pc[c] = "start" /\ pc' = [pc EXCEPT ![c] = IF source.mapped THEN "map" ELSE "lock"]
      /\ sectors' = [sectors EXCEPT ![c] = PlanSectors(rows[c])]
      /\ compact' = [compact EXCEPT ![c] = Blank(c)]
      /\ UNCHANGED <<source, rows, read_mutex, queued, lanes, arena, faulted>>
      /\ Plannable(rows[c])
  BY DEF Plan, Goto, request
<1>2. PlanSectors(rows[c]) \in SUBSET Nat BY <1>1, PlanInFile DEF TypeOK
<1>3. TypeOK' BY <1>1, <1>2, Same DEF TypeOK
<1>4. Held' /\ Owned' /\ Finished'
  <2>1. \A d \in Caller : pc[d] \in Inside <=> pc'[d] \in Inside
    BY <1>1 DEF TypeOK, Inside
  <2>2. \A d \in Caller : pc[d] \in Inside => sectors'[d] = sectors[d]
    BY <1>1 DEF TypeOK, Inside
  <2> QED BY <1>1, <2>1, <2>2, Quiet DEF request
<1>5. Planned' BY <1>1, Same DEF Planned, TypeOK, Inside
<1>6. Queued' BY <1>1, Same DEF Queued, TypeOK
<1>7. InOrder' BY <1>1, Same DEF InOrder, TypeOK, Active
<1>8. Fetched'
  <2>1. \A d \in Caller : pc'[d] \in {"issue", "collect"} =>
          pc[d] \in {"issue", "collect"} /\ sectors'[d] = sectors[d]
    BY <1>1 DEF TypeOK
  <2> QED BY <1>1, <2>1, FetchedStays
<1>9. Gathered'
  <2>1. Blank(c) = Partial(c, PlanSectors(rows[c]))
    BY <1>1, PlanCovers DEF Blank, Partial, TypeOK
  <2>2. \A L : \A d \in Caller : Partial(d, L)' = Partial(d, L)
    BY <1>1, Same DEF Partial
  <2> QED BY <1>1, <2>1, <2>2 DEF Gathered, TypeOK
<1>10. Excused' BY <1>1, Same DEF Excused, TypeOK
<1> QED BY <1>3, <1>4, <1>5, <1>6, <1>7, <1>8, <1>9, <1>10

LEMMA RefuseKeeps ==
  ASSUME IInv, NEW c \in Caller, Refuse(c)
  PROVE  IInv'
<1> USE DEF IInv
<1>1. /\ pc[c] = "start" /\ pc' = [pc EXCEPT ![c] = "failed"]
      /\ UNCHANGED <<source, rows, read_mutex, sectors, queued, lanes, arena, compact, faulted>>
      /\ ~Plannable(rows[c])
  BY DEF Refuse, Goto, request
<1>3. TypeOK' BY <1>1, Same DEF TypeOK
<1>4. Held' /\ Owned' /\ Finished'
  <2>1. \A d \in Caller : pc[d] \in Inside <=> pc'[d] \in Inside
    BY <1>1 DEF TypeOK, Inside
  <2>2. \A d \in Caller : pc[d] \in Inside => sectors'[d] = sectors[d]
    BY <1>1 DEF TypeOK, Inside
  <2> QED BY <1>1, <2>1, <2>2, Quiet DEF request
<1>5. Planned' BY <1>1, Same DEF Planned, TypeOK, Inside
<1>6. Queued' BY <1>1, Same DEF Queued, TypeOK
<1>7. InOrder' BY <1>1, Same DEF InOrder, TypeOK, Active
<1>8. Fetched'
  <2>1. \A d \in Caller : pc'[d] \in {"issue", "collect"} =>
          pc[d] \in {"issue", "collect"} /\ sectors'[d] = sectors[d]
    BY <1>1 DEF TypeOK
  <2> QED BY <1>1, <2>1, FetchedStays
<1>9. Gathered'
  <2>2. \A L : \A d \in Caller : Partial(d, L)' = Partial(d, L)
    BY <1>1, Same DEF Partial
  <2> QED BY <1>1, <2>2 DEF Gathered, TypeOK
<1>10. Excused' BY <1>1, Same DEF Excused, TypeOK
<1> QED BY <1>3, <1>4, <1>5, <1>6, <1>7, <1>8, <1>9, <1>10

LEMMA ReadMappedKeeps ==
  ASSUME IInv, NEW c \in Caller, ReadMapped(c)
  PROVE  IInv'
<1> USE DEF IInv
<1>1. /\ pc[c] = "map" /\ pc' = [pc EXCEPT ![c] = "returned"]
      /\ compact' = [compact EXCEPT ![c] =
           [i \in DOMAIN rows[c] |->
              [b \in 0 .. source.row_bytes - 1 |-> RowOffset(rows[c][i]) + b]]]
      /\ UNCHANGED <<source, rows, read_mutex, sectors, queued, lanes, arena, faulted>>
  BY DEF ReadMapped, Goto, request
<1>3. TypeOK' BY <1>1, Same DEF TypeOK
<1>4. Held' /\ Owned' /\ Finished'
  <2>1. \A d \in Caller : pc[d] \in Inside <=> pc'[d] \in Inside
    BY <1>1 DEF TypeOK, Inside
  <2>2. \A d \in Caller : pc[d] \in Inside => sectors'[d] = sectors[d]
    BY <1>1 DEF TypeOK, Inside
  <2> QED BY <1>1, <2>1, <2>2, Quiet DEF request
<1>5. Planned' BY <1>1, Same DEF Planned, TypeOK, Inside
<1>6. Queued' BY <1>1, Same DEF Queued, TypeOK
<1>7. InOrder' BY <1>1, Same DEF InOrder, TypeOK, Active
<1>8. Fetched'
  <2>1. \A d \in Caller : pc'[d] \in {"issue", "collect"} =>
          pc[d] \in {"issue", "collect"} /\ sectors'[d] = sectors[d]
    BY <1>1 DEF TypeOK
  <2> QED BY <1>1, <2>1, FetchedStays
<1>9. Gathered'
  <2>2. \A L : \A d \in Caller : Partial(d, L)' = Partial(d, L)
    BY <1>1, Same DEF Partial
  <2>1. compact' = [compact EXCEPT ![c] = Partial(c, {})] BY <1>1 DEF Partial
  <2> QED BY <1>1, <2>2, <2>1 DEF Gathered, TypeOK
<1>10. Excused' BY <1>1, Same DEF Excused, TypeOK
<1> QED BY <1>3, <1>4, <1>5, <1>6, <1>7, <1>8, <1>9, <1>10

LEMMA MapFaultKeeps ==
  ASSUME IInv, NEW c \in Caller, MapFault(c)
  PROVE  IInv'
<1> USE DEF IInv
<1>1. /\ pc[c] = "map" /\ pc' = [pc EXCEPT ![c] = "failed"]
      /\ faulted' = faulted \cup {c}
      /\ UNCHANGED <<source, rows, read_mutex, sectors, queued, lanes, arena, compact>>
  BY DEF MapFault, Goto, request
<1>3. TypeOK' BY <1>1, Same DEF TypeOK
<1>4. Held' /\ Owned' /\ Finished'
  <2>1. \A d \in Caller : pc[d] \in Inside <=> pc'[d] \in Inside
    BY <1>1 DEF TypeOK, Inside
  <2>2. \A d \in Caller : pc[d] \in Inside => sectors'[d] = sectors[d]
    BY <1>1 DEF TypeOK, Inside
  <2> QED BY <1>1, <2>1, <2>2, Quiet DEF request
<1>5. Planned' BY <1>1, Same DEF Planned, TypeOK, Inside
<1>6. Queued' BY <1>1, Same DEF Queued, TypeOK
<1>7. InOrder' BY <1>1, Same DEF InOrder, TypeOK, Active
<1>8. Fetched'
  <2>1. \A d \in Caller : pc'[d] \in {"issue", "collect"} =>
          pc[d] \in {"issue", "collect"} /\ sectors'[d] = sectors[d]
    BY <1>1 DEF TypeOK
  <2> QED BY <1>1, <2>1, FetchedStays
<1>9. Gathered'
  <2>2. \A L : \A d \in Caller : Partial(d, L)' = Partial(d, L)
    BY <1>1, Same DEF Partial
  <2> QED BY <1>1, <2>2 DEF Gathered, TypeOK
<1>10. Excused' BY <1>1, Same DEF Excused, TypeOK
<1> QED BY <1>3, <1>4, <1>5, <1>6, <1>7, <1>8, <1>9, <1>10

LEMMA LockKeeps ==
  ASSUME IInv, NEW c \in Caller, Lock(c)
  PROVE  IInv'
<1> USE DEF IInv
<1>1. /\ pc[c] = "lock" /\ pc' = [pc EXCEPT ![c] = "issue"]
      /\ read_mutex = NoCaller /\ read_mutex' = c
      /\ queued' = [queued EXCEPT ![c] = Wave(sectors[c])]
      /\ UNCHANGED <<source, rows, sectors, lanes, arena, compact, faulted>>
  BY DEF Lock, Goto, request
<1>2. \A n \in Lane : ~lanes[n].active BY <1>1, CallerAssumption DEF Owned
<1>11. Wave(sectors[c]) \in SUBSET Nat BY WaveFits DEF TypeOK
<1>3. TypeOK' BY <1>1, <1>11, Same DEF TypeOK
<1>4. Held' /\ Owned' /\ Finished'
  <2>1. Held' BY <1>1, CallerAssumption DEF Held, TypeOK, Inside
  <2> QED BY <1>1, <1>2, <2>1, Same DEF Owned, Finished
<1>5. Planned' BY <1>1, Same DEF Planned, TypeOK, Inside
<1>6. Queued' BY <1>1, Same DEF Queued, TypeOK
<1>7. InOrder'
  <2>1. Active = {} BY <1>2 DEF Active
  <2>2. Active' = Active BY <1>1, Same DEF Active
  <2> QED BY <1>1, <2>1, <2>2, NoLane, Same DEF InOrder, TypeOK
<1>8. Fetched'
  <2>1. Wave(sectors[c])' \ queued'[c] = {} BY <1>1, Same DEF TypeOK
  <2>2. \A d \in Caller \ {c} : pc'[d] \notin {"issue", "collect"}
    BY <1>1, CallerAssumption DEF TypeOK, Held, Inside
  <2>3. SUFFICES ASSUME NEW d \in Caller, pc'[d] \in {"issue", "collect"},
                        NEW s \in (Wave(sectors[d]) \ queued[d])'
                 PROVE  FALSE
    BY DEF Fetched
  <2>4. d = c BY <2>2, <2>3
  <2> QED BY <2>1, <2>3, <2>4
<1>9. Gathered'
  <2>2. \A L : \A d \in Caller : Partial(d, L)' = Partial(d, L)
    BY <1>1, Same DEF Partial
  <2> QED BY <1>1, <2>2 DEF Gathered, TypeOK
<1>10. Excused' BY <1>1, Same DEF Excused, TypeOK
<1> QED BY <1>3, <1>4, <1>5, <1>6, <1>7, <1>8, <1>9, <1>10

LEMMA IssueFailsKeeps ==
  ASSUME IInv, NEW c \in Caller, IssueFails(c)
  PROVE  IInv'
<1> USE DEF IInv
<1>1. /\ pc[c] = "issue" /\ pc' = [pc EXCEPT ![c] = "drain"]
      /\ faulted' = faulted \cup {c}
      /\ UNCHANGED <<source, rows, read_mutex, sectors, queued, lanes, arena, compact>>
  BY DEF IssueFails, Goto, request
<1>3. TypeOK' BY <1>1, Same DEF TypeOK
<1>4. Held' /\ Owned' /\ Finished'
  <2>1. \A d \in Caller : pc[d] \in Inside <=> pc'[d] \in Inside
    BY <1>1 DEF TypeOK, Inside
  <2>2. \A d \in Caller : pc[d] \in Inside => sectors'[d] = sectors[d]
    BY <1>1 DEF TypeOK, Inside
  <2> QED BY <1>1, <2>1, <2>2, Quiet DEF request
<1>5. Planned' BY <1>1, Same DEF Planned, TypeOK, Inside
<1>6. Queued' BY <1>1, Same DEF Queued, TypeOK
<1>7. InOrder' BY <1>1, Same DEF InOrder, TypeOK, Active
<1>8. Fetched'
  <2>1. \A d \in Caller : pc'[d] \in {"issue", "collect"} =>
          pc[d] \in {"issue", "collect"} /\ sectors'[d] = sectors[d]
    BY <1>1 DEF TypeOK
  <2> QED BY <1>1, <2>1, FetchedStays
<1>9. Gathered'
  <2>2. \A L : \A d \in Caller : Partial(d, L)' = Partial(d, L)
    BY <1>1, Same DEF Partial
  <2> QED BY <1>1, <2>2 DEF Gathered, TypeOK
<1>10. Excused' BY <1>1, Same DEF Excused, TypeOK
<1> QED BY <1>3, <1>4, <1>5, <1>6, <1>7, <1>8, <1>9, <1>10

LEMMA GroupIssuedKeeps ==
  ASSUME IInv, NEW c \in Caller, GroupIssued(c)
  PROVE  IInv'
<1> USE DEF IInv
<1>1. /\ pc[c] = "issue" /\ pc' = [pc EXCEPT ![c] = "collect"]
      /\ UNCHANGED <<source, rows, read_mutex, sectors, queued, lanes, arena, compact, faulted>>
  BY DEF GroupIssued, Goto, request
<1>3. TypeOK' BY <1>1, Same DEF TypeOK
<1>4. Held' /\ Owned' /\ Finished'
  <2>1. \A d \in Caller : pc[d] \in Inside <=> pc'[d] \in Inside
    BY <1>1 DEF TypeOK, Inside
  <2>2. \A d \in Caller : pc[d] \in Inside => sectors'[d] = sectors[d]
    BY <1>1 DEF TypeOK, Inside
  <2> QED BY <1>1, <2>1, <2>2, Quiet DEF request
<1>5. Planned' BY <1>1, Same DEF Planned, TypeOK, Inside
<1>6. Queued' BY <1>1, Same DEF Queued, TypeOK
<1>7. InOrder' BY <1>1, Same DEF InOrder, TypeOK, Active
<1>8. Fetched'
  <2>1. \A d \in Caller : pc'[d] \in {"issue", "collect"} =>
          pc[d] \in {"issue", "collect"} /\ sectors'[d] = sectors[d]
    BY <1>1 DEF TypeOK
  <2> QED BY <1>1, <2>1, FetchedStays
<1>9. Gathered'
  <2>2. \A L : \A d \in Caller : Partial(d, L)' = Partial(d, L)
    BY <1>1, Same DEF Partial
  <2> QED BY <1>1, <2>2 DEF Gathered, TypeOK
<1>10. Excused' BY <1>1, Same DEF Excused, TypeOK
<1> QED BY <1>3, <1>4, <1>5, <1>6, <1>7, <1>8, <1>9, <1>10

LEMMA NextGroupKeeps ==
  ASSUME IInv, NEW c \in Caller, NextGroup(c)
  PROVE  IInv'
<1> USE DEF IInv
<1>1. /\ pc[c] = "collect" /\ pc' = [pc EXCEPT ![c] = "issue"]
      /\ Active = {}
      /\ UNCHANGED <<source, rows, read_mutex, sectors, queued, lanes, arena, compact, faulted>>
  BY DEF NextGroup, Goto, request
<1>3. TypeOK' BY <1>1, Same DEF TypeOK
<1>4. Held' /\ Owned' /\ Finished'
  <2>1. \A d \in Caller : pc[d] \in Inside <=> pc'[d] \in Inside
    BY <1>1 DEF TypeOK, Inside
  <2>2. \A d \in Caller : pc[d] \in Inside => sectors'[d] = sectors[d]
    BY <1>1 DEF TypeOK, Inside
  <2> QED BY <1>1, <2>1, <2>2, Quiet DEF request
<1>5. Planned' BY <1>1, Same DEF Planned, TypeOK, Inside
<1>6. Queued' BY <1>1, Same DEF Queued, TypeOK
<1>7. InOrder'
  <2>1. Active' = Active BY <1>1, Same DEF Active
  <2> QED BY <1>1, <2>1, NoLane, Same DEF InOrder, TypeOK
<1>8. Fetched'
  <2>1. \A d \in Caller : pc'[d] \in {"issue", "collect"} =>
          pc[d] \in {"issue", "collect"} /\ sectors'[d] = sectors[d]
    BY <1>1 DEF TypeOK
  <2> QED BY <1>1, <2>1, FetchedStays
<1>9. Gathered'
  <2>2. \A L : \A d \in Caller : Partial(d, L)' = Partial(d, L)
    BY <1>1, Same DEF Partial
  <2> QED BY <1>1, <2>2 DEF Gathered, TypeOK
<1>10. Excused' BY <1>1, Same DEF Excused, TypeOK
<1> QED BY <1>3, <1>4, <1>5, <1>6, <1>7, <1>8, <1>9, <1>10

LEMMA RethrowKeeps ==
  ASSUME IInv, NEW c \in Caller, Rethrow(c)
  PROVE  IInv'
<1> USE DEF IInv
<1>1. /\ pc[c] = "drain" /\ pc' = [pc EXCEPT ![c] = "failed"]
      /\ Active = {}
      /\ read_mutex' = NoCaller
      /\ UNCHANGED <<source, rows, sectors, queued, lanes, arena, compact, faulted>>
  BY DEF Rethrow, Goto, request
<1>2. \A n \in Lane : ~lanes[n].active BY <1>1 DEF Active
<1>3. TypeOK' BY <1>1, Same DEF TypeOK
<1>4. Held' /\ Owned' /\ Finished'
  <2>1. Held' BY <1>1, CallerAssumption DEF Held, TypeOK, Inside
  <2> QED BY <1>1, <1>2, <2>1, Same DEF Owned, Finished
<1>5. Planned' BY <1>1, Same DEF Planned, TypeOK, Inside
<1>6. Queued' BY <1>1, Same DEF Queued, TypeOK
<1>7. InOrder' BY <1>1, Same DEF InOrder, TypeOK, Active
<1>8. Fetched'
  <2>1. \A d \in Caller : pc'[d] \in {"issue", "collect"} =>
          pc[d] \in {"issue", "collect"} /\ sectors'[d] = sectors[d]
    BY <1>1 DEF TypeOK
  <2> QED BY <1>1, <2>1, FetchedStays
<1>9. Gathered'
  <2>2. \A L : \A d \in Caller : Partial(d, L)' = Partial(d, L)
    BY <1>1, Same DEF Partial
  <2> QED BY <1>1, <2>2 DEF Gathered, TypeOK
<1>10. Excused' BY <1>1, Same DEF Excused, TypeOK
<1> QED BY <1>3, <1>4, <1>5, <1>6, <1>7, <1>8, <1>9, <1>10

\* the sector of an active lane
LEMMA LaneSector ==
  ASSUME IInv, NEW n \in Lane, lanes[n].active
  PROVE  /\ read_mutex \in Caller /\ pc[read_mutex] \in Inside
         /\ sectors[read_mutex] \in SUBSET Nat
         /\ lanes[n].sector \in Wave(sectors[read_mutex])
         /\ lanes[n].sector \in sectors[read_mutex]
         /\ \A s \in sectors[read_mutex] : s \in Nat /\ s < source.file_bytes
<1>1. /\ read_mutex \in Caller
      /\ lanes[n].sector \in Wave(sectors[read_mutex])
  BY DEF IInv, Owned
<1>2. pc[read_mutex] \in Inside BY <1>1 DEF IInv, Held
<1>3. /\ Plannable(rows[read_mutex]) /\ sectors[read_mutex] \subseteq PlanSectors(rows[read_mutex])
      /\ rows[read_mutex] \in Requests /\ source \in Sources
      /\ sectors[read_mutex] \in SUBSET Nat
  BY <1>1, <1>2 DEF IInv, Planned, TypeOK
<1>4. \A s \in sectors[read_mutex] : s \in Nat /\ s < source.file_bytes
  BY <1>3, PlanInFile
<1> QED BY <1>1, <1>2, <1>3, <1>4, WaveFits

LEMMA IssueKeeps ==
  ASSUME IInv, NEW c \in Caller, Issue(c)
  PROVE  IInv'
<1> USE DEF IInv
<1> DEFINE n == Cardinality(Active) + 1
           s == Min(queued[c])
           new == [active |-> TRUE, sector |-> s, io |-> "pending", bytes |-> 0,
                   buffer_offset |-> ArenaOffset(sectors[c], s)]
<1>1. /\ pc[c] = "issue" /\ pc' = [pc EXCEPT ![c] = "issue"]
      /\ queued[c] # {} /\ Active # Lane
      /\ lanes' = [lanes EXCEPT ![n] = new]
      /\ queued' = [queued EXCEPT ![c] = @ \ {s}]
      /\ UNCHANGED <<source, rows, read_mutex, sectors, arena, compact, faulted>>
  BY DEF Issue, Goto, request
<1>2. /\ s \in queued[c] /\ s \in Wave(sectors[c]) /\ s \in sectors[c] /\ s \in Nat
      /\ queued[c] \subseteq Wave(sectors[c])
  <2>1. s \in queued[c] BY <1>1, SmallestOf DEF TypeOK
  <2>2. queued[c] \subseteq Wave(sectors[c]) BY <1>1 DEF Queued
  <2> QED BY <2>1, <2>2, WaveFits DEF TypeOK
<1>3. PICK k \in 0 .. LaneCount : Active = 1 .. k BY <1>1 DEF InOrder
<1>4. n = k + 1 /\ n \in Lane /\ n \notin Active /\ k \in Nat
  <2>1. LaneCount \in Nat /\ Lane = 1 .. LaneCount BY Lanes DEF TypeOK
  <2>2. k \in Nat /\ k # LaneCount BY <1>1, <1>3, <2>1
  <2>3. Cardinality(1 .. k) = k BY <2>2, FS_Interval
  <2> QED BY <1>3, <2>1, <2>2, <2>3
<1>5. ArenaOffset(sectors[c], s) \in Nat BY <1>2, ArenaOrder DEF TypeOK
<1>6. /\ lanes'[n] = new
      /\ \A m \in Lane \ {n} : lanes'[m] = lanes[m]
      /\ ~lanes[n].active
  BY <1>1, <1>4 DEF TypeOK, Active
<1> HIDE DEF n, s
<1>7. TypeOK'
  <2>1. new \in [active : BOOLEAN, sector : Nat, buffer_offset : Nat,
                 io : {"none", "pending", "done", "bad"}, bytes : Nat]
    BY <1>2, <1>5
  <2> HIDE DEF new
  <2>2. lanes' \in [Lane -> [active : BOOLEAN, sector : Nat, buffer_offset : Nat,
                             io : {"none", "pending", "done", "bad"}, bytes : Nat]]
    BY <1>1, <1>4, <2>1 DEF TypeOK
  <2> QED BY <1>1, <2>2, Same DEF TypeOK
<1>8. Held' BY <1>1 DEF Held, TypeOK, Inside
<1>9. Planned' BY <1>1, Same DEF Planned, TypeOK, Inside
<1>10. Queued' BY <1>1, Same DEF Queued, TypeOK
<1>11. read_mutex = c BY <1>1 DEF Held, Inside
<1>12. queued'[c] = queued[c] \ {s} BY <1>1 DEF TypeOK
<1>13. Owned'
  <2> SUFFICES ASSUME NEW m \in Lane
      PROVE  /\ lanes'[m].io = "pending" => lanes'[m].active /\ lanes'[m].bytes = 0
             /\ lanes'[m].active =>
                  /\ read_mutex \in Caller /\ lanes'[m].io # "none"
                  /\ lanes'[m].sector \in Wave(sectors[c]) \ queued'[c]
                  /\ lanes'[m].buffer_offset = ArenaOffset(sectors[c], lanes'[m].sector)
                  /\ \A l \in Lane : lanes'[l].active /\ lanes'[l].sector = lanes'[m].sector => l = m
    BY <1>1, <1>11, Same DEF Owned
  <2>1. \A l \in Lane : lanes[l].active =>
          /\ lanes[l].sector \in Wave(sectors[c]) \ queued[c] /\ lanes[l].sector # s
    BY <1>2, <1>11 DEF Owned
  <2>2. CASE m = n BY <1>2, <1>6, <1>11, <1>12, <2>1, <2>2
  <2>3. CASE m # n BY <1>2, <1>6, <1>11, <1>12, <2>1, <2>3 DEF Owned
  <2> QED BY <2>2, <2>3
<1>14. InOrder'
  <2>1. Active' = 1 .. n
    <3>1. Active' = Active \cup {n} BY <1>1, <1>4, <1>6, Same DEF Active
    <3> QED BY <1>3, <1>4, <3>1
  <2>2. n \in 0 .. LaneCount BY <1>4, Lanes DEF TypeOK
  <2>3. \A d \in Caller : pc'[d] = "issue" => d = c
    BY <1>1, <1>11 DEF TypeOK, Held, Inside
  <2> QED BY <1>1, <2>1, <2>2, Same DEF InOrder
<1>15. Fetched'
  <2> SUFFICES ASSUME NEW d \in Caller, pc'[d] \in {"issue", "collect"},
                      NEW x \in Wave(sectors[d]) \ queued'[d]
               PROVE  Loaded(sectors[d], x)' \/ \E m \in Lane : lanes'[m].active /\ lanes'[m].sector = x
    BY <1>1, Same DEF Fetched
  <2>1. d = c /\ pc[c] = "issue" BY <1>1, <1>11 DEF TypeOK, Held, Inside
  <2>2. CASE x = s BY <1>4, <1>6, <2>2
  <2>3. CASE x # s
    <3>1. x \in Wave(sectors[c]) \ queued[c] BY <1>12, <2>1, <2>3
    <3>2. Loaded(sectors[c], x) \/ \E m \in Lane : lanes[m].active /\ lanes[m].sector = x
      BY <2>1, <3>1 DEF Fetched
    <3>3. Loaded(sectors[c], x) => Loaded(sectors[d], x)' BY <1>1, <2>1, Same DEF Loaded
    <3> QED BY <1>6, <3>2, <3>3
  <2> QED BY <2>2, <2>3
<1>16. Finished'
  <2>1. \A x : Loaded(sectors[c], x)' = Loaded(sectors[c], x) BY <1>1, Same DEF Loaded
  <2> SUFFICES ASSUME NEW m \in Lane, lanes'[m].active
      PROVE  /\ lanes'[m].io = "done" =>
                  \/ lanes'[m].bytes = InFile(lanes'[m].sector)
                     /\ Loaded(sectors[c], lanes[m].sector)'
                  \/ lanes'[m].bytes = 0 /\ c \in faulted
             /\ lanes'[m].io = "bad" => c \in faulted
    BY <1>1, <1>11, Same DEF Finished, Loaded
  <2>2. CASE m = n BY <1>6, <2>2
  <2>3. CASE m # n
    <3>1. lanes'[m] = lanes[m] BY <1>6, <2>3
    <3>2. Loaded(sectors[c], lanes[m].sector)' = Loaded(sectors[c], lanes[m].sector)
      BY <1>1, <3>1, Same DEF Loaded
    <3> QED BY <1>11, <3>1, <3>2 DEF Finished
  <2> QED BY <2>2, <2>3
<1>17. Gathered'
  <2>2. \A L : \A d \in Caller : Partial(d, L)' = Partial(d, L) BY <1>1, Same DEF Partial
  <2> QED BY <1>1, <2>2 DEF Gathered, TypeOK
<1>18. Excused' BY <1>1, Same DEF Excused, TypeOK
<1> QED BY <1>7, <1>8, <1>9, <1>10, <1>13, <1>14, <1>15, <1>16, <1>17, <1>18

\* when a lane is given up: collected with the expected bytes, or because the
\* call fails
LEMMA LaneDone ==
  ASSUME IInv, NEW c \in Caller, read_mutex = c, NEW n \in Lane, lanes[n].active,
         UNCHANGED <<source, rows, read_mutex, sectors, queued, arena, compact, faulted>>,
         lanes' = [lanes EXCEPT ![n].active = FALSE], lanes[n].io # "pending",
         NEW to \in {"collect", "drain"},
         pc[c] \in {"collect", "drain"}, pc' = [pc EXCEPT ![c] = to],
         to = "collect" => pc[c] = "collect" /\ Loaded(sectors[c], lanes[n].sector),
         to = "drain" => c \in faulted
  PROVE  IInv'
<1> USE DEF IInv
<1>1. /\ lanes'[n] = [lanes[n] EXCEPT !.active = FALSE]
      /\ \A m \in Lane \ {n} : lanes'[m] = lanes[m]
  BY DEF TypeOK
<1>2. TypeOK'
  <2>1. lanes' \in [Lane -> [active : BOOLEAN, sector : Nat, buffer_offset : Nat,
                             io : {"none", "pending", "done", "bad"}, bytes : Nat]]
    BY DEF TypeOK
  <2> QED BY <2>1, Same DEF TypeOK
<1>3. Held' BY DEF Held, TypeOK, Inside
<1>4. Planned' BY Same DEF Planned, TypeOK, Inside
<1>5. Queued' BY Same DEF Queued, TypeOK
<1>6. /\ ~lanes'[n].active /\ lanes'[n].io = lanes[n].io /\ lanes'[n].io # "pending"
      /\ \A m \in Lane : lanes'[m].active => m # n /\ lanes'[m] = lanes[m]
  BY <1>1 DEF TypeOK
<1>7. Owned'
  <2> SUFFICES ASSUME NEW m \in Lane
      PROVE  /\ lanes'[m].io = "pending" => lanes'[m].active /\ lanes'[m].bytes = 0
             /\ lanes'[m].active =>
                  /\ read_mutex \in Caller /\ lanes'[m].io # "none"
                  /\ lanes'[m].sector \in Wave(sectors[c]) \ queued[c]
                  /\ lanes'[m].buffer_offset = ArenaOffset(sectors[c], lanes'[m].sector)
                  /\ \A l \in Lane : lanes'[l].active /\ lanes'[l].sector = lanes'[m].sector => l = m
    BY Same DEF Owned
  <2>1. CASE m = n BY <1>6, <2>1
  <2>2. CASE m # n BY <1>1, <1>6, <2>2 DEF Owned
  <2> QED BY <2>1, <2>2
<1>8. InOrder'
  <2>1. \A d \in Caller : pc'[d] # "issue" BY DEF TypeOK, Held, Inside
  <2> QED BY <2>1 DEF InOrder
<1>9. \A x : Loaded(sectors[c], x)' = Loaded(sectors[c], x) BY Same DEF Loaded
<1>10. Fetched'
  <2> SUFFICES ASSUME NEW d \in Caller, pc'[d] \in {"issue", "collect"},
                      NEW x \in Wave(sectors[d]) \ queued[d]
               PROVE  Loaded(sectors[d], x)' \/ \E m \in Lane : lanes'[m].active /\ lanes'[m].sector = x
    BY Same DEF Fetched
  <2>1. d = c /\ pc[c] = "collect" /\ Loaded(sectors[c], lanes[n].sector)
    BY DEF TypeOK, Held, Inside
  <2>2. Loaded(sectors[c], x) \/ \E m \in Lane : lanes[m].active /\ lanes[m].sector = x
    BY <2>1 DEF Fetched
  <2> QED BY <1>1, <1>9, <2>1, <2>2
<1>11. Finished'
  <2> SUFFICES ASSUME NEW m \in Lane, lanes'[m].active
      PROVE  /\ lanes'[m].io = "done" =>
                  \/ lanes'[m].bytes = InFile(lanes'[m].sector)
                     /\ Loaded(sectors[c], lanes[m].sector)'
                  \/ lanes'[m].bytes = 0 /\ c \in faulted
             /\ lanes'[m].io = "bad" => c \in faulted
    BY Same DEF Finished, Loaded
  <2>1. m # n /\ lanes'[m] = lanes[m] BY <1>6
  <2>2. Loaded(sectors[c], lanes[m].sector)' = Loaded(sectors[c], lanes[m].sector)
    BY <2>1, Same DEF Loaded
  <2> QED BY <2>1, <2>2 DEF Finished
<1>12. Gathered'
  <2>2. \A L : \A d \in Caller : Partial(d, L)' = Partial(d, L) BY Same DEF Partial
  <2> QED BY <2>2 DEF Gathered, TypeOK
<1>13. Excused' BY Same DEF Excused, TypeOK
<1> QED BY <1>2, <1>3, <1>4, <1>5, <1>7, <1>8, <1>10, <1>11, <1>12, <1>13

LEMMA CollectKeeps ==
  ASSUME IInv, NEW c \in Caller, Collect(c)
  PROVE  IInv'
<1> DEFINE n == Min(Active)
           whole == lanes[n].io = "done" /\ lanes[n].bytes = expected_read_bytes(lanes[n].sector)
<1>1. /\ pc[c] = "collect" /\ pc' = [pc EXCEPT ![c] = IF whole THEN "collect" ELSE "drain"]
      /\ Active # {} /\ lanes[n].io # "pending"
      /\ lanes' = [lanes EXCEPT ![n].active = FALSE]
      /\ UNCHANGED <<source, rows, read_mutex, sectors, queued, arena, compact, faulted>>
  BY DEF Collect, Goto, request
<1>2. n \in Lane /\ lanes[n].active
  <2>1. Active \in SUBSET Nat BY Lanes DEF Active, IInv, TypeOK
  <2> QED BY <1>1, <2>1, SmallestOf DEF Active
<1> HIDE DEF n
<1>3. read_mutex = c BY <1>1 DEF IInv, Held, Inside
<1>4. /\ expected_read_bytes(lanes[n].sector) = InFile(lanes[n].sector)
      /\ InFile(lanes[n].sector) # 0
  <2>1. lanes[n].sector \in Nat /\ lanes[n].sector < source.file_bytes
    BY <1>2, LaneSector
  <2> QED BY <2>1, InFileBounds DEF IInv, TypeOK
<1>5. lanes[n].io \in {"done", "bad"} BY <1>1, <1>2 DEF IInv, Owned, TypeOK
<1>6. whole => Loaded(sectors[c], lanes[n].sector)
  BY <1>2, <1>3, <1>4 DEF IInv, Finished
<1>7. ~whole => c \in faulted BY <1>2, <1>3, <1>4, <1>5 DEF IInv, Finished
<1>8. CASE whole BY <1>1, <1>2, <1>3, <1>6, <1>8, LaneDone
<1>9. CASE ~whole BY <1>1, <1>2, <1>3, <1>7, <1>9, LaneDone
<1> QED BY <1>8, <1>9

LEMMA DrainKeeps ==
  ASSUME IInv, NEW c \in Caller, Drain(c)
  PROVE  IInv'
<1> DEFINE n == Min(Active)
<1>1. /\ pc[c] = "drain" /\ pc' = [pc EXCEPT ![c] = "drain"]
      /\ Active # {} /\ lanes[n].io # "pending"
      /\ lanes' = [lanes EXCEPT ![n].active = FALSE]
      /\ UNCHANGED <<source, rows, read_mutex, sectors, queued, arena, compact, faulted>>
  BY DEF Drain, Goto, request
<1>2. n \in Lane /\ lanes[n].active
  <2>1. Active \in SUBSET Nat BY Lanes DEF Active, IInv, TypeOK
  <2> QED BY <1>1, <2>1, SmallestOf DEF Active
<1> HIDE DEF n
<1>3. read_mutex = c /\ c \in faulted BY <1>1 DEF IInv, Held, Inside, Excused
<1> QED BY <1>1, <1>2, <1>3, LaneDone

\* the rows of the wave leave the arena for their places in the answer
LEMMA Scattering ==
  ASSUME IInv, NEW c \in Caller, pc[c] = "collect", Active = {}, queued[c] = {}
  PROVE  Scattered(c) = Partial(c, sectors[c] \ Wave(sectors[c]))
<1>1. /\ Plannable(rows[c]) /\ sectors[c] \subseteq PlanSectors(rows[c])
      /\ rows[c] \in Requests /\ source \in Sources /\ sectors[c] \in SUBSET Nat
      /\ compact[c] = Partial(c, sectors[c])
  BY DEF IInv, Planned, Gathered, TypeOK, Inside
<1>2. \A s \in Wave(sectors[c]) : Loaded(sectors[c], s)
  BY DEF IInv, Fetched, Active
<1> SUFFICES ASSUME NEW i \in DOMAIN rows[c], NEW b \in 0 .. source.row_bytes - 1
             PROVE  Scattered(c)[i][b]
                      = Partial(c, sectors[c] \ Wave(sectors[c]))[i][b]
  BY ZenonT(60) DEF Scattered, Partial
<1> DEFINE byte == RowOffset(rows[c][i]) + b
           sector == align_down(byte)
<1>3. byte \in Nat /\ byte < source.file_bytes BY <1>1, PlanCovers
<1>4. sector \in Nat /\ sector <= byte /\ byte < sector + source.alignment
  BY <1>1, <1>3, AlignDown
<1>5. Scattered(c)[i][b] = IF sector \in Wave(sectors[c])
                           THEN arena[ArenaOffset(sectors[c], sector) + (byte - sector)]
                           ELSE compact[c][i][b]
  BY DEF Scattered
<1>6. \A L : Partial(c, L)[i][b] = IF sector \in L THEN NoByte ELSE byte
  BY DEF Partial
<1>7. Wave(sectors[c]) \subseteq sectors[c] BY WaveFits
<1> HIDE DEF byte, sector
<1>8. CASE sector \in Wave(sectors[c])
  <2>1. sector < source.file_bytes BY <1>3, <1>4, <1>1, SourceType
  <2>2. byte - sector \in 0 .. InFile(sector) - 1
    BY <1>1, <1>3, <1>4, <2>1, InFileBounds
  <2>3. arena[ArenaOffset(sectors[c], sector) + (byte - sector)] = sector + (byte - sector)
    BY <1>2, <1>8, <2>2 DEF Loaded
  <2>4. sector + (byte - sector) = byte BY <1>3, <1>4
  <2> QED BY <1>5, <1>6, <1>8, <2>3, <2>4
<1>9. CASE sector \notin Wave(sectors[c])
  <2>1. Scattered(c)[i][b] = Partial(c, sectors[c])[i][b] BY <1>1, <1>5, <1>9
  <2> QED BY <1>6, <1>7, <1>9, <2>1
<1> QED BY <1>8, <1>9

LEMMA ScatterKeeps ==
  ASSUME IInv, NEW c \in Caller, Scatter(c)
  PROVE  IInv'
<1> USE DEF IInv
<1> DEFINE left == sectors[c] \ Wave(sectors[c])
<1>1. /\ pc[c] = "collect" /\ pc' = [pc EXCEPT ![c] = IF left = {} THEN "returned" ELSE "issue"]
      /\ Active = {} /\ queued[c] = {}
      /\ read_mutex' = IF left = {} THEN NoCaller ELSE read_mutex
      /\ sectors' = [sectors EXCEPT ![c] = left]
      /\ queued' = [queued EXCEPT ![c] = Wave(left)]
      /\ compact' = [compact EXCEPT ![c] = Scattered(c)]
      /\ UNCHANGED <<source, rows, lanes, arena, faulted>>
  BY DEF Scatter, Goto, request
<1>2. \A n \in Lane : ~lanes[n].active BY <1>1 DEF Active
<1>3. read_mutex = c BY <1>1 DEF Held, Inside
<1>4. /\ Plannable(rows[c]) /\ sectors[c] \subseteq PlanSectors(rows[c])
      /\ sectors[c] \in SUBSET Nat
  BY <1>1 DEF Planned, TypeOK, Inside
<1>5. left \in SUBSET Nat /\ Wave(left) \in SUBSET Nat /\ left \subseteq PlanSectors(rows[c])
  BY <1>4, WaveFits
<1>6. compact' = [compact EXCEPT ![c] = Partial(c, left)] BY <1>1, Scattering
<1> HIDE DEF left
<1>7. TypeOK' BY <1>1, <1>5, Same DEF TypeOK
<1>8. \A d \in Caller \ {c} : pc[d] \notin Inside /\ pc'[d] = pc[d]
  BY <1>1, <1>3 DEF Held, TypeOK
<1>9. pc'[c] = (IF left = {} THEN "returned" ELSE "issue") BY <1>1 DEF TypeOK
<1>10. Held'
  <2>1. CASE left = {} BY <1>1, <1>8, <1>9, <2>1, CallerAssumption DEF Held, Inside
  <2>2. CASE left # {} BY <1>1, <1>3, <1>8, <1>9, <2>2 DEF Held, Inside
  <2> QED BY <2>1, <2>2
<1>11. Planned'
  <2>1. \A d \in Caller : Plannable(rows[d])' = Plannable(rows[d]) BY <1>1, Same
  <2>2. \A d \in Caller : PlanSectors(rows[d])' = PlanSectors(rows[d]) BY <1>1, Same
  <2>3. \A d \in Caller \ {c} : sectors'[d] = sectors[d] BY <1>1 DEF TypeOK
  <2>4. sectors'[c] = left BY <1>1 DEF TypeOK
  <2> SUFFICES ASSUME NEW d \in Caller, pc'[d] \in {"map", "lock"} \cup Inside
               PROVE  Plannable(rows[d])' /\ sectors'[d] \subseteq PlanSectors(rows[d])'
    BY DEF Planned, Inside
  <2>5. CASE d = c BY <1>4, <1>5, <2>1, <2>2, <2>4, <2>5
  <2>6. CASE d # c BY <1>8, <2>1, <2>2, <2>3, <2>6 DEF Planned
  <2> QED BY <2>5, <2>6
<1>12. Queued' BY <1>1, <1>8, Same DEF Queued, TypeOK, Inside
<1>13. Owned' BY <1>1, <1>2, Same DEF Owned
<1>14. InOrder'
  <2>1. Active' = Active BY <1>1, Same DEF Active
  <2> QED BY <1>1, <2>1, NoLane, Same DEF InOrder, TypeOK
<1>15. Fetched'
  <2>1. Wave(sectors[c])' \ queued'[c] = {} BY <1>1, Same DEF TypeOK
  <2>2. SUFFICES ASSUME NEW d \in Caller, pc'[d] \in {"issue", "collect"},
                        NEW s \in (Wave(sectors[d]) \ queued[d])'
                 PROVE  FALSE
    BY DEF Fetched
  <2>3. d = c BY <1>8, <2>2 DEF Inside
  <2> QED BY <2>1, <2>2, <2>3
<1>16. Finished' BY <1>1, <1>2, Same DEF Finished
<1>17. Gathered'
  <2>1. \A L : \A d \in Caller : Partial(d, L)' = Partial(d, L)
    BY <1>1, Same DEF Partial
  <2>2. compact'[c] = Partial(c, left) /\ sectors'[c] = left BY <1>6, <1>1 DEF TypeOK
  <2>3. \A d \in Caller \ {c} : compact'[d] = compact[d] /\ sectors'[d] = sectors[d]
    BY <1>6, <1>1 DEF TypeOK
  <2> SUFFICES ASSUME NEW d \in Caller
               PROVE  /\ pc'[d] \in {"lock", "issue", "collect"} =>
                           compact'[d] = Partial(d, sectors'[d])
                      /\ pc'[d] = "returned" => compact'[d] = Partial(d, {})
    BY <1>1, Same DEF Gathered, Partial
  <2>4. CASE d = c BY <1>9, <2>2, <2>4
  <2>5. CASE d # c BY <1>8, <2>3, <2>5 DEF Gathered
  <2> QED BY <2>4, <2>5
<1>18. Excused' BY <1>1, Same DEF Excused, TypeOK
<1> QED BY <1>7, <1>10, <1>11, <1>12, <1>13, <1>14, <1>15, <1>16, <1>17, <1>18

\* a read that writes to its own place leaves the other sectors of the wave
LEMMA StoreKeeps ==
  ASSUME IInv, NEW n \in Lane, lanes[n].active,
         NEW s \in Wave(sectors[read_mutex]), s # lanes[n].sector,
         Loaded(sectors[read_mutex], s),
         \A a \in 0 .. source.buffer_bytes - 1 :
           a \notin lanes[n].buffer_offset .. lanes[n].buffer_offset
                                              + InFile(lanes[n].sector) - 1
             => arena'[a] = arena[a],
         source' = source, UNCHANGED <<read_mutex, sectors>>
  PROVE  Loaded(sectors[read_mutex], s)'
<1> DEFINE left == sectors[read_mutex]
           at == ArenaOffset(left, s)
           to == ArenaOffset(left, lanes[n].sector)
<1>1. /\ read_mutex \in Caller /\ left \in SUBSET Nat /\ s \in left
      /\ lanes[n].sector \in left /\ lanes[n].buffer_offset = to
      /\ \A t \in left : t \in Nat /\ t < source.file_bytes
      /\ source \in Sources
  BY LaneSector, WaveFits DEF IInv, TypeOK, Owned
<1>2. at \in Nat /\ to \in Nat BY <1>1, ArenaOrder
<1>3. at + source.alignment <= source.buffer_bytes BY <1>1, WaveFits
<1>4. at + source.alignment <= to \/ to + source.alignment <= at BY <1>1, ArenaApart
<1>5. /\ InFile(s) \in Nat /\ InFile(s) <= source.alignment
      /\ InFile(lanes[n].sector) \in Nat /\ InFile(lanes[n].sector) <= source.alignment
  BY <1>1, InFileBounds
<1>6. left' = left /\ at' = at /\ InFile(s)' = InFile(s) BY Same
<1> SUFFICES ASSUME NEW k \in 0 .. InFile(s) - 1
             PROVE  arena'[at + k] = s + k
  BY <1>6, Same DEF Loaded
<1>7. arena[at + k] = s + k BY DEF Loaded
<1> HIDE DEF at, to, left
<1>8. k \in Nat /\ k < InFile(s) BY <1>5
<1>9. /\ at + k \in 0 .. source.buffer_bytes - 1
      /\ at + k \notin to .. to + InFile(lanes[n].sector) - 1
  BY <1>1, <1>2, <1>3, <1>4, <1>5, <1>8, SourceType
<1> QED BY <1>1, <1>7, <1>9

\* the device answers a request, with the bytes of the sector or with a failure
LEMMA AnswerKeeps ==
  ASSUME IInv, NEW n \in Lane, lanes[n].io = "pending",
         UNCHANGED <<source, rows, pc, read_mutex, sectors, queued, compact>>,
         NEW io \in {"done", "bad"}, NEW bytes \in Nat,
         lanes' = [lanes EXCEPT ![n] = [lanes[n] EXCEPT !.io = io, !.bytes = bytes]],
         arena' \in [0 .. source.buffer_bytes - 1 -> Nat \cup {NoByte}],
         \A a \in 0 .. source.buffer_bytes - 1 :
           a \notin lanes[n].buffer_offset .. lanes[n].buffer_offset
                                              + InFile(lanes[n].sector) - 1
             => arena'[a] = arena[a],
         faulted \subseteq faulted', faulted' \subseteq Caller,
         \/ /\ io = "done" /\ bytes = InFile(lanes[n].sector)
            /\ \A k \in 0 .. InFile(lanes[n].sector) - 1 :
                 arena'[ArenaOffset(sectors[read_mutex], lanes[n].sector) + k]
                   = lanes[n].sector + k
         \/ bytes = 0 /\ read_mutex \in faulted'
  PROVE  IInv'
<1> USE DEF IInv
<1>1. lanes[n].active BY DEF Owned
<1>2. /\ lanes'[n] = [lanes[n] EXCEPT !.io = io, !.bytes = bytes]
      /\ \A m \in Lane \ {n} : lanes'[m] = lanes[m]
  BY DEF TypeOK
<1>3. \A m \in Lane : /\ lanes'[m].active = lanes[m].active
                      /\ lanes'[m].sector = lanes[m].sector
                      /\ lanes'[m].buffer_offset = lanes[m].buffer_offset
  BY <1>2 DEF TypeOK
<1>4. lanes'[n].io = io /\ lanes'[n].bytes = bytes BY <1>2 DEF TypeOK
<1>5. TypeOK'
  <2>1. [lanes[n] EXCEPT !.io = io, !.bytes = bytes]
          \in [active : BOOLEAN, sector : Nat, buffer_offset : Nat,
               io : {"none", "pending", "done", "bad"}, bytes : Nat]
    BY DEF TypeOK
  <2>2. lanes' \in [Lane -> [active : BOOLEAN, sector : Nat, buffer_offset : Nat,
                             io : {"none", "pending", "done", "bad"}, bytes : Nat]]
    BY <2>1 DEF TypeOK
  <2> QED BY <2>2, Same DEF TypeOK
<1>6. Held' BY DEF Held
<1>7. Planned' BY Same DEF Planned
<1>8. Queued' BY Same DEF Queued
<1>9. Owned'
  <2> SUFFICES ASSUME NEW m \in Lane
      PROVE  /\ lanes'[m].io = "pending" => lanes'[m].active /\ lanes'[m].bytes = 0
             /\ lanes'[m].active =>
                  /\ read_mutex \in Caller /\ lanes'[m].io # "none"
                  /\ lanes'[m].sector \in Wave(sectors[read_mutex]) \ queued[read_mutex]
                  /\ lanes'[m].buffer_offset = ArenaOffset(sectors[read_mutex], lanes'[m].sector)
                  /\ \A l \in Lane : lanes'[l].active /\ lanes'[l].sector = lanes'[m].sector => l = m
    BY Same DEF Owned
  <2>1. lanes'[m].active => lanes'[m].io # "none" BY <1>2, <1>4 DEF Owned
  <2>2. lanes'[m].io = "pending" => lanes'[m].active /\ lanes'[m].bytes = 0
    BY <1>2, <1>4 DEF Owned
  <2> QED BY <1>3, <2>1, <2>2 DEF Owned
<1>10. InOrder'
  <2>1. Active' = Active BY <1>3, Same DEF Active
  <2> QED BY <2>1, Same DEF InOrder
<1>11. \A s \in Wave(sectors[read_mutex]) :
         s # lanes[n].sector /\ Loaded(sectors[read_mutex], s)
           => Loaded(sectors[read_mutex], s)'
  BY <1>1, StoreKeeps
<1>12. Fetched'
  <2> SUFFICES ASSUME NEW d \in Caller, pc[d] \in {"issue", "collect"},
                      NEW s \in Wave(sectors[d]) \ queued[d]
               PROVE  Loaded(sectors[d], s)' \/ \E m \in Lane : lanes'[m].active /\ lanes'[m].sector = s
    BY Same DEF Fetched
  <2>1. read_mutex = d BY DEF Held, Inside
  <2>2. CASE s = lanes[n].sector BY <1>1, <1>3, <2>2
  <2>3. CASE s # lanes[n].sector
    <3>1. Loaded(sectors[d], s) \/ \E m \in Lane : lanes[m].active /\ lanes[m].sector = s
      BY DEF Fetched
    <3> QED BY <1>3, <1>11, <2>1, <2>3, <3>1
  <2> QED BY <2>2, <2>3
<1>13. Finished'
  <2> SUFFICES ASSUME NEW m \in Lane, lanes'[m].active
      PROVE  /\ lanes'[m].io = "done" =>
                  \/ lanes'[m].bytes = InFile(lanes'[m].sector)
                     /\ Loaded(sectors[read_mutex], lanes[m].sector)'
                  \/ lanes'[m].bytes = 0 /\ read_mutex \in faulted'
             /\ lanes'[m].io = "bad" => read_mutex \in faulted'
    BY <1>3, Same DEF Finished, Loaded
  <2>1. CASE m = n
    <3>1. CASE /\ io = "done" /\ bytes = InFile(lanes[n].sector)
               /\ \A k \in 0 .. InFile(lanes[n].sector) - 1 :
                    arena'[ArenaOffset(sectors[read_mutex], lanes[n].sector) + k]
                      = lanes[n].sector + k
      BY <1>3, <1>4, <2>1, <3>1, Same DEF Loaded
    <3>2. CASE bytes = 0 /\ read_mutex \in faulted' BY <1>4, <2>1, <3>2
    <3> QED BY <3>1, <3>2
  <2>2. CASE m # n
    <3>1. lanes'[m] = lanes[m] /\ lanes[m].active BY <1>2, <2>2
    <3>2. /\ lanes[m].sector \in Wave(sectors[read_mutex])
          /\ lanes[m].sector # lanes[n].sector
      BY <1>1, <2>2, <3>1 DEF Owned
    <3> QED BY <1>11, <3>1, <3>2 DEF Finished
  <2> QED BY <2>1, <2>2
<1>14. Gathered'
  <2>2. \A L : \A d \in Caller : Partial(d, L)' = Partial(d, L) BY Same DEF Partial
  <2> QED BY <2>2 DEF Gathered
<1>15. Excused' BY Same DEF Excused
<1> QED BY <1>5, <1>6, <1>7, <1>8, <1>9, <1>10, <1>12, <1>13, <1>14, <1>15

\* where a lane reads: inside the arena, at the place of its sector
LEMMA LanePlace ==
  ASSUME IInv, NEW n \in Lane, lanes[n].active
  PROVE  /\ InFile(lanes[n].sector) \in Nat \ {0}
         /\ InFile(lanes[n].sector) <= source.alignment
         /\ lanes[n].sector \in Nat /\ lanes[n].buffer_offset \in Nat
         /\ lanes[n].buffer_offset = ArenaOffset(sectors[read_mutex], lanes[n].sector)
         /\ lanes[n].buffer_offset + source.alignment <= source.buffer_bytes
         /\ DOMAIN arena = 0 .. source.buffer_bytes - 1
         /\ source \in Sources
<1>1. /\ lanes[n].sector \in Wave(sectors[read_mutex])
      /\ lanes[n].sector \in Nat /\ lanes[n].sector < source.file_bytes
      /\ source \in Sources
  BY LaneSector DEF IInv, TypeOK
<1>2. lanes[n].buffer_offset = ArenaOffset(sectors[read_mutex], lanes[n].sector)
  BY DEF IInv, Owned
<1>3. lanes[n].buffer_offset \in Nat /\ DOMAIN arena = 0 .. source.buffer_bytes - 1
  BY DEF IInv, TypeOK
<1> QED BY <1>1, <1>2, <1>3, InFileBounds, WaveFits

LEMMA DeviceReadsKeeps ==
  ASSUME IInv, NEW n \in Lane, DeviceReads(n)
  PROVE  IInv'
<1> DEFINE s == lanes[n].sector
           at == lanes[n].buffer_offset
<1>1. /\ lanes[n].io = "pending"
      /\ arena' = [a \in DOMAIN arena |->
                     IF a \in at .. at + InFile(s) - 1 THEN s + (a - at) ELSE arena[a]]
      /\ lanes' = [lanes EXCEPT ![n].io = "done", ![n].bytes = InFile(s)]
      /\ UNCHANGED <<source, rows, pc, read_mutex, sectors, queued, compact, faulted>>
  BY DEF DeviceReads, Stored, request
<1>2. lanes[n].active BY <1>1 DEF IInv, Owned
<1>3. /\ InFile(s) \in Nat \ {0} /\ InFile(s) <= source.alignment
      /\ s \in Nat /\ at \in Nat /\ at = ArenaOffset(sectors[read_mutex], s)
      /\ at + source.alignment <= source.buffer_bytes
      /\ DOMAIN arena = 0 .. source.buffer_bytes - 1
      /\ source.alignment \in Nat /\ source.buffer_bytes \in Nat
  BY <1>2, LanePlace, SourceType
<1>4. lanes' = [lanes EXCEPT ![n] = [lanes[n] EXCEPT !.io = "done", !.bytes = InFile(s)]]
  BY <1>1 DEF IInv, TypeOK
<1>5. arena' \in [0 .. source.buffer_bytes - 1 -> Nat \cup {NoByte}]
  <2> SUFFICES ASSUME NEW a \in 0 .. source.buffer_bytes - 1
               PROVE  (IF a \in at .. at + InFile(s) - 1 THEN s + (a - at) ELSE arena[a])
                        \in Nat \cup {NoByte}
    BY <1>1, <1>3
  <2>1. a \in at .. at + InFile(s) - 1 => s + (a - at) \in Nat BY <1>3
  <2> QED BY <2>1 DEF IInv, TypeOK
<1>6. \A a \in 0 .. source.buffer_bytes - 1 :
        a \notin at .. at + InFile(s) - 1 => arena'[a] = arena[a]
  BY <1>1, <1>3
<1>7. \A k \in 0 .. InFile(s) - 1 : arena'[at + k] = s + k
  <2> SUFFICES ASSUME NEW k \in 0 .. InFile(s) - 1 PROVE arena'[at + k] = s + k
    OBVIOUS
  <2> HIDE DEF s, at
  <2>1. /\ at + k \in at .. at + InFile(s) - 1 /\ at + k \in 0 .. source.buffer_bytes - 1
        /\ s + ((at + k) - at) = s + k
    BY <1>3, SMTT(30)
  <2> QED BY <1>1, <1>3, <2>1
<1>8. faulted \subseteq faulted' /\ faulted' \subseteq Caller
  BY <1>1 DEF IInv, TypeOK
<1>9. \A k \in 0 .. InFile(s) - 1 : arena'[ArenaOffset(sectors[read_mutex], s) + k] = s + k
  BY <1>3, <1>7
<1>10. InFile(s) \in Nat BY <1>3
<1> QED BY <1>1, <1>4, <1>5, <1>6, <1>8, <1>9, <1>10, AnswerKeeps

LEMMA DeviceFailsKeeps ==
  ASSUME IInv, NEW n \in Lane, DeviceFails(n)
  PROVE  IInv'
<1> DEFINE s == lanes[n].sector
           at == lanes[n].buffer_offset
<1>1. /\ lanes[n].io = "pending"
      /\ arena' = [a \in DOMAIN arena |->
                     IF a \in at .. at + InFile(s) - 1 THEN NoByte ELSE arena[a]]
      /\ faulted' = faulted \cup {read_mutex}
      /\ UNCHANGED <<source, rows, pc, read_mutex, sectors, queued, compact>>
  BY DEF DeviceFails, Stored, request
<1>2. PICK io \in {"done", "bad"} : lanes' = [lanes EXCEPT ![n].io = io]
  BY DEF DeviceFails
<1>3. lanes[n].active /\ lanes[n].bytes = 0 BY <1>1 DEF IInv, Owned
<1>4. /\ read_mutex \in Caller /\ DOMAIN arena = 0 .. source.buffer_bytes - 1
  BY <1>3, LanePlace, LaneSector
<1>5. lanes' = [lanes EXCEPT ![n] = [lanes[n] EXCEPT !.io = io, !.bytes = 0]]
  <2>1. lanes[n] \in [active : BOOLEAN, sector : Nat, buffer_offset : Nat,
                      io : {"none", "pending", "done", "bad"}, bytes : Nat]
    BY DEF IInv, TypeOK
  <2>2. [lanes[n] EXCEPT !.io = io] = [lanes[n] EXCEPT !.io = io, !.bytes = 0]
    BY <1>3, <2>1
  <2> QED BY <1>2, <2>2
<1>6. arena' \in [0 .. source.buffer_bytes - 1 -> Nat \cup {NoByte}]
  BY <1>1, <1>4 DEF IInv, TypeOK
<1>7. \A a \in 0 .. source.buffer_bytes - 1 :
        a \notin at .. at + InFile(s) - 1 => arena'[a] = arena[a]
  BY <1>1, <1>4
<1>8. /\ faulted \subseteq faulted' /\ faulted' \subseteq Caller
      /\ read_mutex \in faulted'
  BY <1>1, <1>4 DEF IInv, TypeOK
<1> QED BY <1>1, <1>5, <1>6, <1>7, <1>8, AnswerKeeps

LEMMA InitHolds ==
  ASSUME Init
  PROVE  IInv
<1> USE DEF Init
<1>1. TypeOK
  <2>1. align_down(source.tensor_offset) \in Nat BY SourceType, AlignDown
  <2>2. arena \in [0 .. source.buffer_bytes - 1 -> Nat \cup {NoByte}] BY <2>1, SourceType
  <2> QED BY <2>2 DEF TypeOK, IdleLane
<1>2. Held BY CallerAssumption DEF Held, Inside
<1>3. Owned /\ Finished BY DEF Owned, Finished, IdleLane
<1>4. Planned /\ Queued /\ InOrder /\ Fetched BY DEF Planned, Queued, InOrder, Fetched, Inside
<1>5. Gathered /\ Excused BY DEF Gathered, Excused
<1> QED BY <1>1, <1>2, <1>3, <1>4, <1>5 DEF IInv

LEMMA StutterKeeps ==
  ASSUME IInv, UNCHANGED vars
  PROVE  IInv'
<1> USE DEF IInv
<1>1. UNCHANGED <<source, rows, pc, read_mutex, sectors, queued, lanes, arena, compact, faulted>>
  BY DEF vars
<1>2. TypeOK' BY <1>1, Same DEF TypeOK
<1>3. Held' BY <1>1 DEF Held
<1>4. Planned' /\ Queued' BY <1>1, Same DEF Planned, Queued
<1>5. Owned' BY <1>1, Same DEF Owned
<1>6. InOrder'
  <2>1. Active' = Active BY <1>1, Same DEF Active
  <2> QED BY <1>1, <2>1, Same DEF InOrder
<1>7. Fetched' BY <1>1, Same DEF Fetched, Loaded
<1>8. Finished' BY <1>1, Same DEF Finished, Loaded
<1>9. Gathered'
  <2>1. \A L : \A d \in Caller : Partial(d, L)' = Partial(d, L) BY <1>1, Same DEF Partial
  <2> QED BY <1>1, <2>1 DEF Gathered
<1>10. Excused' BY <1>1, Same DEF Excused
<1> QED BY <1>2, <1>3, <1>4, <1>5, <1>6, <1>7, <1>8, <1>9, <1>10

LEMMA StepKeeps ==
  ASSUME IInv, [Next]_vars
  PROVE  IInv'
<1>1. CASE UNCHANGED vars BY <1>1, StutterKeeps
<1>2. ASSUME NEW n \in Lane, Device(n) PROVE IInv'
  BY <1>2, DeviceReadsKeeps, DeviceFailsKeeps DEF Device
<1>3. ASSUME NEW c \in Caller, Call(c) PROVE IInv'
  BY <1>3, PlanKeeps, RefuseKeeps, ReadMappedKeeps, MapFaultKeeps, LockKeeps, IssueKeeps,
     IssueFailsKeeps, GroupIssuedKeeps, CollectKeeps, NextGroupKeeps, ScatterKeeps,
     DrainKeeps, RethrowKeeps DEF Call
<1> QED BY <1>1, <1>2, <1>3 DEF Next, Done
-----------------------------------------------------------------------------
(* Theorems *)

\* The invariant of the argument holds in every state of the pager.
THEOREM Invariance == Spec => []IInv
<1>1. Init => IInv BY InitHolds
<1>2. IInv /\ [Next]_vars => IInv' BY StepKeeps
<1> QED BY <1>1, <1>2, PTL DEF Spec

\* Every variable keeps its type, the lanes within the number read_plan opens
\* and every arena offset within the arena (llama-ple-pager.cpp, read_plan).
THEOREM TypeCorrect == Spec => []TypeOK
<1>1. IInv => TypeOK BY DEF IInv
<1> QED BY <1>1, Invariance, PTL

\* Once read_mutex is free no read is in flight, also after a call that failed
\* half-way: cancel_and_drain gives up the arena only when every lane is idle.
THEOREM ReadsDrained == Spec => []Drained
<1>1. IInv => Drained
  BY CallerAssumption DEF IInv, Owned, Drained
<1> QED BY <1>1, Invariance, PTL

\* Reads in flight write to places of the arena that do not overlap and do not
\* run past its end: the planner's packing and the lanes agree.
THEOREM InFlightApart == Spec => []ReadsApart
<1>1. ASSUME IInv PROVE ReadsApart
  <2> SUFFICES ASSUME NEW n \in InFlight
      PROVE  /\ lanes[n].buffer_offset + source.alignment <= source.buffer_bytes
             /\ \A m \in InFlight \ {n} :
                  \/ lanes[n].buffer_offset + source.alignment <= lanes[m].buffer_offset
                  \/ lanes[m].buffer_offset + source.alignment <= lanes[n].buffer_offset
    BY DEF ReadsApart
  <2>1. \A m \in InFlight : m \in Lane /\ lanes[m].active
    BY <1>1 DEF InFlight, IInv, Owned
  <2>2. lanes[n].buffer_offset + source.alignment <= source.buffer_bytes
    BY <1>1, <2>1, LanePlace
  <2>3. ASSUME NEW m \in InFlight \ {n}
        PROVE  \/ lanes[n].buffer_offset + source.alignment <= lanes[m].buffer_offset
               \/ lanes[m].buffer_offset + source.alignment <= lanes[n].buffer_offset
    <3>1. /\ lanes[n].sector \in sectors[read_mutex] /\ lanes[m].sector \in sectors[read_mutex]
          /\ sectors[read_mutex] \in SUBSET Nat
      BY <1>1, <2>1, <2>3, LaneSector
    <3>2. /\ lanes[n].buffer_offset = ArenaOffset(sectors[read_mutex], lanes[n].sector)
          /\ lanes[m].buffer_offset = ArenaOffset(sectors[read_mutex], lanes[m].sector)
          /\ source \in Sources
      BY <1>1, <2>1, <2>3, LanePlace
    <3>3. lanes[n].sector # lanes[m].sector BY <1>1, <2>1, <2>3 DEF IInv, Owned
    <3> QED BY <3>1, <3>2, <3>3, ArenaApart
  <2> QED BY <2>2, <2>3
<1> QED BY <1>1, Invariance, PTL

\* A call throws only for a failure of the device it met itself, or because its
\* own request cannot be planned.
THEOREM OnlyFaults == Spec => []OnlyFaultsThrow
<1>1. IInv => OnlyFaultsThrow BY DEF IInv, Excused, OnlyFaultsThrow
<1> QED BY <1>1, Invariance, PTL
-----------------------------------------------------------------------------
(* The pager keeps the promise of PleRows *)

\* steps that answer nobody
LEMMA NoAnswer ==
  ASSUME TypeOK, UNCHANGED <<source, rows>>,
         \A c \in Caller :
           \/ UNCHANGED <<pc[c], compact[c]>>
           \/ /\ pc[c] \notin {"returned", "failed"}
              /\ pc'[c] \notin {"returned", "failed"}
  PROVE  UNCHANGED Promise!vars
<1>1. \A c \in Caller : Outcome(c)' = Outcome(c) /\ Output(c)' = Output(c)
  BY DEF Outcome, Output
<1>2. [c \in Caller |-> Outcome(c)]' = [c \in Caller |-> Outcome(c)] BY <1>1
<1>3. [c \in Caller |-> Output(c)]' = [c \in Caller |-> Output(c)] BY <1>1
<1> QED BY <1>2, <1>3 DEF Promise!vars

\* a call that returns with all its bytes gives the rows of the tensor
LEMMA Returns ==
  ASSUME TypeOK, UNCHANGED <<source, rows>>, NEW c \in Caller,
         pc[c] \notin {"returned", "failed"},
         pc' = [pc EXCEPT ![c] = "returned"],
         compact' = [compact EXCEPT ![c] = Partial(c, {})]
  PROVE  Promise!Next
<1>1. /\ pc'[c] = "returned" /\ compact'[c] = Partial(c, {})
      /\ \A d \in Caller \ {c} : pc'[d] = pc[d] /\ compact'[d] = compact[d]
  BY DEF TypeOK
<1>2. Partial(c, {}) = Promise!TensorRows(c)
  BY DEF Partial, Promise!TensorRows, RowOffset
<1>3. Outcome(c) = "none" BY DEF Outcome
<1>4. Outcome(c)' = "returned" /\ Output(c)' = Promise!TensorRows(c)
  BY <1>1, <1>2 DEF Outcome, Output
<1>5. \A d \in Caller \ {c} : Outcome(d)' = Outcome(d) /\ Output(d)' = Output(d)
  BY <1>1 DEF Outcome, Output
<1>6. [d \in Caller |-> Outcome(d)]'
        = [[d \in Caller |-> Outcome(d)] EXCEPT ![c] = "returned"]
  BY <1>4, <1>5
<1>7. [d \in Caller |-> Output(d)]'
        = [[d \in Caller |-> Output(d)] EXCEPT ![c] = Promise!TensorRows(c)]
  BY <1>4, <1>5
<1>8. Promise!Return(c) BY <1>3, <1>6, <1>7 DEF Promise!Return
<1> QED BY <1>8 DEF Promise!Next, Promise!Answer

LEMMA Throws ==
  ASSUME TypeOK, UNCHANGED <<source, rows, compact>>, NEW c \in Caller,
         pc[c] \notin {"returned", "failed"},
         pc' = [pc EXCEPT ![c] = "failed"]
  PROVE  Promise!Next
<1>1. /\ pc'[c] = "failed"
      /\ \A d \in Caller \ {c} : pc'[d] = pc[d]
  BY DEF TypeOK
<1>3. Outcome(c) = "none" /\ Output(c) = <<>> BY DEF Outcome, Output
<1>4. Outcome(c)' = "failed" /\ Output(c)' = <<>> BY <1>1 DEF Outcome, Output
<1>5. \A d \in Caller \ {c} : Outcome(d)' = Outcome(d) /\ Output(d)' = Output(d)
  BY <1>1 DEF Outcome, Output
<1>6. [d \in Caller |-> Outcome(d)]'
        = [[d \in Caller |-> Outcome(d)] EXCEPT ![c] = "failed"]
  BY <1>4, <1>5
<1>7. [d \in Caller |-> Output(d)]' = [d \in Caller |-> Output(d)]
  BY <1>3, <1>4, <1>5
<1>8. Promise!Throw(c) BY <1>3, <1>6, <1>7 DEF Promise!Throw
<1> QED BY <1>8 DEF Promise!Next, Promise!Answer

LEMMA CallAnswers ==
  ASSUME IInv, NEW c \in Caller, Call(c)
  PROVE  [Promise!Next]_(Promise!vars)
<1> USE DEF IInv
<1>1. CASE Plan(c)
  <2>1. /\ pc[c] = "start" /\ pc' = [pc EXCEPT ![c] = IF source.mapped THEN "map" ELSE "lock"]
        /\ compact' = [compact EXCEPT ![c] = Blank(c)] /\ UNCHANGED <<source, rows>>
    BY <1>1 DEF Plan, Goto, request
  <2> QED BY <2>1, NoAnswer DEF TypeOK
<1>2. CASE Refuse(c)
  <2>1. /\ pc[c] = "start" /\ pc' = [pc EXCEPT ![c] = "failed"]
        /\ UNCHANGED <<source, rows, compact>>
    BY <1>2 DEF Refuse, Goto, request
  <2> QED BY <2>1, Throws
<1>3. CASE ReadMapped(c)
  <2>1. /\ pc[c] = "map" /\ pc' = [pc EXCEPT ![c] = "returned"]
        /\ compact' = [compact EXCEPT ![c] = Partial(c, {})] /\ UNCHANGED <<source, rows>>
    BY <1>3 DEF ReadMapped, Goto, request, Partial
  <2> QED BY <2>1, Returns
<1>4. CASE MapFault(c)
  <2>1. /\ pc[c] = "map" /\ pc' = [pc EXCEPT ![c] = "failed"]
        /\ UNCHANGED <<source, rows, compact>>
    BY <1>4 DEF MapFault, Goto, request
  <2> QED BY <2>1, Throws
<1>5. CASE Rethrow(c)
  <2>1. /\ pc[c] = "drain" /\ pc' = [pc EXCEPT ![c] = "failed"]
        /\ UNCHANGED <<source, rows, compact>>
    BY <1>5 DEF Rethrow, Goto, request
  <2> QED BY <2>1, Throws
<1>6. CASE Lock(c) \/ Issue(c) \/ IssueFails(c) \/ GroupIssued(c) \/ Collect(c)
           \/ NextGroup(c) \/ Drain(c)
  <2>1. PICK from \in {"lock", "issue", "collect", "drain"},
             to \in {"issue", "collect", "drain"} :
          pc[c] = from /\ pc' = [pc EXCEPT ![c] = to]
    BY <1>6 DEF Lock, Issue, IssueFails, GroupIssued, Collect, NextGroup, Drain, Goto
  <2>2. UNCHANGED <<source, rows, compact>>
    BY <1>6 DEF Lock, Issue, IssueFails, GroupIssued, Collect, NextGroup, Drain, request
  <2> QED BY <2>1, <2>2, NoAnswer DEF TypeOK
<1>7. CASE Scatter(c)
  <2> DEFINE left == sectors[c] \ Wave(sectors[c])
  <2>1. /\ pc[c] = "collect" /\ Active = {} /\ queued[c] = {}
        /\ pc' = [pc EXCEPT ![c] = IF left = {} THEN "returned" ELSE "issue"]
        /\ compact' = [compact EXCEPT ![c] = Scattered(c)] /\ UNCHANGED <<source, rows>>
    BY <1>7 DEF Scatter, Goto, request
  <2>2. Scattered(c) = Partial(c, left) BY <2>1, Scattering
  <2> HIDE DEF left
  <2>3. CASE left = {} BY <2>1, <2>2, <2>3, Returns
  <2>4. CASE left # {} BY <2>1, <2>4, NoAnswer DEF TypeOK
  <2> QED BY <2>3, <2>4
<1> QED BY <1>1, <1>2, <1>3, <1>4, <1>5, <1>6, <1>7 DEF Call

LEMMA StepAnswers ==
  ASSUME IInv, [Next]_vars
  PROVE  [Promise!Next]_(Promise!vars)
<1>1. ASSUME UNCHANGED vars PROVE UNCHANGED Promise!vars
  <2>1. UNCHANGED <<source, rows, pc, compact>> BY <1>1 DEF vars
  <2> QED BY <2>1, NoAnswer DEF IInv
<1>2. ASSUME NEW n \in Lane, Device(n) PROVE UNCHANGED Promise!vars
  <2>1. UNCHANGED <<source, rows, pc, compact>>
    BY <1>2 DEF Device, DeviceReads, DeviceFails, request
  <2> QED BY <2>1, NoAnswer DEF IInv
<1> QED BY <1>1, <1>2, CallAnswers DEF Next, Done

LEMMA InitPromised ==
  ASSUME Init
  PROVE  Promise!Init
<1>1. \A c \in Caller : Outcome(c) = "none" /\ Output(c) = <<>>
  BY DEF Init, Outcome, Output
<1> QED BY <1>1 DEF Promise!Init, Promise!Nothing

\* The pager implements PleRows, as far as safety goes: a call of read_rows
\* gives every requested row byte for byte, in the order of the request, or
\* fails as a whole, whatever the waves, the other calls and the device do.
THEOREM Implements == Spec => Promise!Init /\ [][Promise!Next]_(Promise!vars)
<1>1. Init => Promise!Init BY InitPromised
<1>2. IInv /\ [Next]_vars => [Promise!Next]_(Promise!vars) BY StepAnswers
<1> QED BY <1>1, <1>2, Invariance, PTL DEF Spec
=============================================================================
