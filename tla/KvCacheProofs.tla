---------------------------- MODULE KvCacheProofs ----------------------------
(***************************************************************************)
(* The metadata of the KV cache stays sound through every operation and    *)
(* every phase of a decode, for every number of cells, sequences and       *)
(* streams, every window and every batch, provided the caller empties the  *)
(* target of a seq_cp.                                                     *)
(*                                                                         *)
(* The three properties of the runs (TypeOK, IndexExact, ShiftAnnounced)   *)
(* are not inductive: restoring a rehearsed micro-batch puts back what     *)
(* prepare() remembered, so IInv also says what a remembered cell is, that *)
(* it belongs to the micro-batch being restored, and that the cells of the *)
(* slot have no pending shift, which set() would leave on an empty cell.   *)
(* RInv adds what the rows say, and UInv, without a window, that prepare() *)
(* changes nothing and a decode evicts nothing.                            *)
(***************************************************************************)
EXTENDS KvCache, SubsequencesProofs, FiniteSetTheorems, TLAPS, WellFoundedInduction

-----------------------------------------------------------------------------
(***************************************************************************)
(* Every operation of llama_kv_cells, called within its preconditions,     *)
(* keeps the metadata of a stream sound: well typed, exactly indexed and   *)
(* shaped.  The counting argument is Recount: taking the sequences D[i]    *)
(* out of the cells and putting A[i] in changes each counter of seq_pos by *)
(* what seq_pos_dec and seq_pos_inc change it.  Each operation is then     *)
(* shown to be such a move (Moved).                                        *)
(***************************************************************************)

Sound(c) == c \in CellsType /\ Indexed(c) /\ Shaped(c)

\* The cells of a stream are finitely many.
LEMMA CellFinite == IsFiniteSet(Cell)
  BY SizesAssumption, FS_Interval DEF Cell

\* So are the members of any set of cells.
LEMMA SubsetFinite ==
  ASSUME NEW S \in SUBSET Cell
  PROVE  IsFiniteSet(S) /\ Cardinality(S) \in Nat
  BY CellFinite, FS_Subset, FS_CardinalityType

\* Cells counted in two disjoint sets are counted once each.
LEMMA DisjointUnion ==
  ASSUME NEW S, NEW T, IsFiniteSet(S), IsFiniteSet(T), S \cap T = {}
  PROVE  Cardinality(S \cup T) = Cardinality(S) + Cardinality(T)
<1>1. Cardinality(S \cup T) = Cardinality(S) + Cardinality(T) - Cardinality(S \cap T)
  BY FS_Union
<1>2. Cardinality(S \cap T) = 0
  BY FS_EmptySet
<1>3. Cardinality(S) \in Nat /\ Cardinality(T) \in Nat
  BY FS_CardinalityType
<1> QED BY <1>1, <1>2, <1>3

\* A counter of seq_pos is a number of cells.
LEMMA OccursNat ==
  ASSUME NEW pos, NEW S, NEW s, NEW p
  PROVE  Occurs(pos, S, s, p) \in Nat
  BY SubsetFinite, {i \in Cell : s \in S[i] /\ pos[i] = p} \in SUBSET Cell DEF Occurs

\* Nothing is counted when no cell carries a sequence.
LEMMA OccursNone ==
  ASSUME NEW pos, NEW s, NEW p
  PROVE  Occurs(pos, NoSeqs, s, p) = 0
<1>1. {i \in Cell : s \in NoSeqs[i] /\ pos[i] = p} = {}
  BY DEF NoSeqs
<1> QED BY <1>1, FS_EmptySet DEF Occurs

\* The cells counted after a change are those counted before, without the ones
\* taken out, with the ones put in.
LEMMA Recount ==
  ASSUME NEW pos, NEW seq, NEW D, NEW pos2, NEW seq2, NEW A, NEW s, NEW p,
         \A i \in Cell : s \in D[i] => s \in seq[i],
         \A i \in Cell :
            \/ /\ pos2[i] = pos[i]
               /\ s \in seq2[i] <=> (s \in seq[i] /\ s \notin D[i]) \/ s \in A[i]
               /\ s \in A[i] => s \notin seq[i] \/ s \in D[i]
            \/ /\ s \in D[i] <=> s \in seq[i]
               /\ s \in A[i] <=> s \in seq2[i]
  PROVE  Occurs(pos2, seq2, s, p) =
            (Occurs(pos, seq, s, p) - Occurs(pos, D, s, p)) + Occurs(pos2, A, s, p)
<1> DEFINE Old  == {i \in Cell : s \in seq[i] /\ pos[i] = p}
           Out  == {i \in Cell : s \in D[i] /\ pos[i] = p}
           In   == {i \in Cell : s \in A[i] /\ pos2[i] = p}
           New  == {i \in Cell : s \in seq2[i] /\ pos2[i] = p}
           Kept == Old \ Out
<1>1. /\ Old = Kept \cup Out /\ Kept \cap Out = {}
      /\ New = Kept \cup In  /\ Kept \cap In = {}
  OBVIOUS
<1>2. /\ IsFiniteSet(Kept) /\ IsFiniteSet(Out) /\ IsFiniteSet(In)
      /\ Cardinality(Kept) \in Nat /\ Cardinality(Out) \in Nat /\ Cardinality(In) \in Nat
  BY SubsetFinite, Kept \in SUBSET Cell, Out \in SUBSET Cell, In \in SUBSET Cell
<1> HIDE DEF Old, Out, In, New, Kept
<1>3. Cardinality(Old) = Cardinality(Kept) + Cardinality(Out)
  BY <1>1, <1>2, DisjointUnion
<1>4. Cardinality(New) = Cardinality(Kept) + Cardinality(In)
  BY <1>1, <1>2, DisjointUnion
<1>5. Cardinality(New) = (Cardinality(Old) - Cardinality(Out)) + Cardinality(In)
  BY <1>2, <1>3, <1>4
<1> QED BY <1>5 DEF Occurs, Old, Out, In, New

\* d is c with the sequences D[i] taken out of each cell and A[i] put in, and
\* the indexes updated by seq_pos_dec, seq_pos_inc, insert and erase.
Moved(c, d, D, A) ==
    /\ d \in CellsType
    /\ \A s \in SeqId, p \in Pos :
          d.seqPos[s][p] = (c.seqPos[s][p] - Occurs(c.pos, D, s, p)) + Occurs(d.pos, A, s, p)
    /\ \A i \in Cell :
          /\ D[i] \subseteq c.seq[i]
          /\ \/ /\ d.pos[i] = c.pos[i]
                /\ d.seq[i] = (c.seq[i] \ D[i]) \cup A[i]
                /\ A[i] \cap (c.seq[i] \ D[i]) = {}
             \/ D[i] = c.seq[i] /\ A[i] = d.seq[i]
    /\ d.used = {i \in Cell : ~IsEmpty(d, i)}

\* Such a move leaves the indexes exact.
LEMMA Reindexed ==
  ASSUME NEW c, Sound(c), NEW d, NEW D, NEW A, Moved(c, d, D, A)
  PROVE  Indexed(d)
<1>1. ASSUME NEW s \in SeqId, NEW p \in Pos
      PROVE  d.seqPos[s][p] = Occurs(d.pos, d.seq, s, p)
  <2>1. \A i \in Cell : s \in D[i] => s \in c.seq[i]
    BY DEF Moved
  <2>2. \A i \in Cell :
          \/ /\ d.pos[i] = c.pos[i]
             /\ s \in d.seq[i] <=> (s \in c.seq[i] /\ s \notin D[i]) \/ s \in A[i]
             /\ s \in A[i] => s \notin c.seq[i] \/ s \in D[i]
          \/ /\ s \in D[i] <=> s \in c.seq[i]
             /\ s \in A[i] <=> s \in d.seq[i]
    BY DEF Moved
  <2>3. Occurs(d.pos, d.seq, s, p)
          = (Occurs(c.pos, c.seq, s, p) - Occurs(c.pos, D, s, p)) + Occurs(d.pos, A, s, p)
    BY <2>1, <2>2, Recount
  <2> QED BY <2>3 DEF Sound, Indexed, Moved
<1> QED BY <1>1 DEF Indexed, Moved

-----------------------------------------------------------------------------
(* The fields after the index updates and after cells become empty *)

\* d has the fields of c but for the counters, which are n
Recounted(c, d, n) ==
    /\ d \in CellsType
    /\ d.pos = c.pos /\ d.shift = c.shift /\ d.seq = c.seq
    /\ d.used = c.used /\ d.hasShift = c.hasShift
    /\ d.seqPos = n

DecCount(c, D) ==
    [s \in SeqId |-> [p \in Pos |-> c.seqPos[s][p] - Occurs(c.pos, D, s, p)]]
IncCount(c, A) ==
    [s \in SeqId |-> [p \in Pos |-> c.seqPos[s][p] + Occurs(c.pos, A, s, p)]]

\* seq_pos_dec changes the counters only.
LEMMA DecFields ==
  ASSUME NEW c \in CellsType, NEW D
  PROVE  Recounted(c, SeqPosDec(c, D), DecCount(c, D))
<1>1. c.seqPos \in [SeqId -> [Pos -> Int]]
  BY DEF CellsType
<1>2. DecCount(c, D) \in [SeqId -> [Pos -> Int]]
  BY <1>1, OccursNat DEF DecCount
<1>3. SeqPosDec(c, D) = [c EXCEPT !.seqPos = DecCount(c, D)]
  BY DEF SeqPosDec, DecCount
<1> QED BY <1>2, <1>3 DEF CellsType, Recounted

\* seq_pos_inc changes the counters only.
LEMMA IncFields ==
  ASSUME NEW c \in CellsType, NEW A
  PROVE  Recounted(c, SeqPosInc(c, A), IncCount(c, A))
<1>1. c.seqPos \in [SeqId -> [Pos -> Int]]
  BY DEF CellsType
<1>2. IncCount(c, A) \in [SeqId -> [Pos -> Int]]
  BY <1>1, OccursNat DEF IncCount
<1>3. SeqPosInc(c, A) = [c EXCEPT !.seqPos = IncCount(c, A)]
  BY DEF SeqPosInc, IncCount
<1> QED BY <1>2, <1>3 DEF CellsType, Recounted

\* d is c with the cells I emptied
Vacated(c, d, I) ==
    /\ d \in CellsType
    /\ \A i \in Cell : /\ d.pos[i]   = IF i \in I THEN -1 ELSE c.pos[i]
                       /\ d.shift[i] = IF i \in I THEN 0 ELSE c.shift[i]
                       /\ d.seq[i]   = IF i \in I THEN {} ELSE c.seq[i]
    /\ d.used = c.used \ I
    /\ d.hasShift = c.hasShift
    /\ d.seqPos = c.seqPos

\* between the steps of pos_add a position may be negative
LooseType ==
    [pos : [Cell -> Int], shift : [Cell -> Int], seq : [Cell -> SUBSET SeqId],
     used : SUBSET Cell, seqPos : [SeqId -> [Pos -> Int]], hasShift : BOOLEAN]

\* Emptying cells leaves the other fields alone, whatever their type.
LEMMA VacateLoose ==
  ASSUME NEW c \in LooseType, NEW I,
         \A i \in Cell : i \in I \/ c.pos[i] \in Pos \cup {-1}
  PROVE  Vacated(c, Vacate(c, I), I)
<1> DEFINE pos2   == [i \in Cell |-> IF i \in I THEN -1 ELSE c.pos[i]]
           shift2 == [i \in Cell |-> IF i \in I THEN 0 ELSE c.shift[i]]
           seq2   == [i \in Cell |-> IF i \in I THEN {} ELSE c.seq[i]]
<1>1. pos2 \in [Cell -> Pos \cup {-1}] /\ shift2 \in [Cell -> Int]
      /\ seq2 \in [Cell -> SUBSET SeqId]
  BY DEF LooseType
<1>2. Vacate(c, I) = [c EXCEPT !.pos = pos2, !.shift = shift2, !.seq = seq2,
                               !.used = c.used \ I]
  BY DEF Vacate
<1> HIDE DEF pos2, shift2, seq2
<1>3. /\ Vacate(c, I) \in CellsType
      /\ Vacate(c, I).pos = pos2 /\ Vacate(c, I).shift = shift2 /\ Vacate(c, I).seq = seq2
      /\ Vacate(c, I).used = c.used \ I
      /\ Vacate(c, I).hasShift = c.hasShift
      /\ Vacate(c, I).seqPos = c.seqPos
  BY <1>1, <1>2 DEF CellsType, LooseType
<1> QED BY <1>3 DEF pos2, shift2, seq2, Vacated

\* The fields after some cells became empty.
LEMMA VacateFields ==
  ASSUME NEW c \in CellsType, NEW I
  PROVE  Vacated(c, Vacate(c, I), I)
<1>1. c.pos \in [Cell -> Pos \cup {-1}]
  BY DEF CellsType
<1>2. c.pos \in [Cell -> Int]
  BY <1>1 DEF Pos
<1>3. c \in LooseType
  BY <1>2 DEF CellsType, LooseType
<1> QED BY <1>1, <1>3, VacateLoose

\* c with other seq, used, pos and shift fields
Edited(c, e, pos, shift, seq, used, flag) ==
    /\ e \in CellsType
    /\ e.pos = pos /\ e.shift = shift /\ e.seq = seq
    /\ e.used = used /\ e.hasShift = flag
    /\ e.seqPos = c.seqPos

\* The fields of a well-typed record of cells.
LEMMA CellsFields ==
  ASSUME NEW c \in CellsType
  PROVE  /\ c.pos \in [Cell -> Pos \cup {-1}] /\ c.shift \in [Cell -> Int]
         /\ c.seq \in [Cell -> SUBSET SeqId] /\ c.used \in SUBSET Cell
         /\ c.hasShift \in BOOLEAN /\ c.seqPos \in [SeqId -> [Pos -> Int]]
  BY DEF CellsType

-----------------------------------------------------------------------------
(* The operations *)

\* A stream just reset is sound.
LEMMA EmptySound == Sound(EmptyCells)
<1>1. EmptyCells \in CellsType
  BY DEF EmptyCells, NoSeqs, CellsType
<1>2. Indexed(EmptyCells)
  <2>1. \A s \in SeqId, p \in Pos : Occurs(EmptyCells.pos, NoSeqs, s, p) = 0
    BY OccursNone
  <2> QED BY <2>1 DEF Indexed, EmptyCells, IsEmpty
<1>3. Shaped(EmptyCells)
  BY DEF Shaped, EmptyCells, NoSeqs, IsEmpty
<1> QED BY <1>1, <1>2, <1>3 DEF Sound

\* What the operations leave of the pending shifts: they only forget them.
ShiftsKept(c, d) == \A i \in Cell : d.shift[i] = 0 \/ d.shift[i] = c.shift[i]

\* Non-empty cells emptied whatever their sequences (rm).
LEMMA RmSound ==
  ASSUME NEW c, Sound(c), NEW I \in SUBSET Cell
  PROVE  /\ Sound(Rm(c, I)) /\ ShiftsKept(c, Rm(c, I))
         /\ \A i \in Cell : IsEmpty(Rm(c, I), i) <=> i \in I \/ IsEmpty(c, i)
<1>0. PICK D : D = SeqsOf(c, I)                OBVIOUS
<1>1. PICK m : m = SeqPosDec(c, D)             OBVIOUS
<1>2. PICK d : d = Rm(c, I)                    OBVIOUS
<1>3. d = Vacate(m, I)
  BY <1>0, <1>1, <1>2 DEF Rm
<1>4. c \in CellsType /\ Recounted(c, m, DecCount(c, D))
  BY <1>1, DecFields DEF Sound
<1>5. Vacated(m, d, I)
  BY <1>3, <1>4, VacateFields DEF Recounted
<1>6. \A i \in Cell : D[i] = IF i \in I THEN c.seq[i] ELSE {}
  BY <1>0 DEF SeqsOf
<1>7. Moved(c, d, D, NoSeqs)
  <2>1. \A s \in SeqId, p \in Pos :
           d.seqPos[s][p] = (c.seqPos[s][p] - Occurs(c.pos, D, s, p)) + Occurs(d.pos, NoSeqs, s, p)
    BY <1>4, <1>5, CellsFields, OccursNone, OccursNat DEF Recounted, Vacated, DecCount
  <2>2. d.used = {i \in Cell : ~IsEmpty(d, i)}
    BY <1>4, <1>5 DEF Recounted, Vacated, Sound, Indexed, IsEmpty
  <2> QED BY <1>4, <1>5, <1>6, <2>1, <2>2 DEF Recounted, Vacated, Moved, NoSeqs
<1>8. Indexed(d)
  BY <1>7, Reindexed
<1>9. Shaped(d)
  BY <1>4, <1>5 DEF Recounted, Vacated, Sound, Shaped, IsEmpty
<1> QED BY <1>2, <1>4, <1>5, <1>8, <1>9 DEF Recounted, Vacated, Sound, ShiftsKept, IsEmpty

\* Sequences taken out of cells that carry them (seq_rm).
LEMMA SeqRmSound ==
  ASSUME NEW c, Sound(c), NEW D, \A i \in Cell : D[i] \subseteq c.seq[i]
  PROVE  Sound(SeqRm(c, D)) /\ ShiftsKept(c, SeqRm(c, D))
<1>0. PICK seq2 : seq2 = [i \in Cell |-> c.seq[i] \ D[i]]       OBVIOUS
<1>1. PICK m : m = SeqPosDec(c, D)                              OBVIOUS
<1>2. PICK e : e = [m EXCEPT !.seq = seq2]                      OBVIOUS
<1>3. PICK gone : gone = {i \in Cell : D[i] # {} /\ e.seq[i] = {}} OBVIOUS
<1>4. PICK d : d = SeqRm(c, D)                                  OBVIOUS
<1>5. d = Vacate(e, gone)
  BY <1>0, <1>1, <1>2, <1>3, <1>4 DEF SeqRm
<1>6. c \in CellsType /\ Recounted(c, m, DecCount(c, D))
  BY <1>1, DecFields DEF Sound
<1>7. seq2 \in [Cell -> SUBSET SeqId]
  BY <1>0, <1>6, CellsFields
<1>8. Edited(m, e, m.pos, m.shift, seq2, m.used, m.hasShift)
  BY <1>2, <1>6, <1>7 DEF Recounted, Edited, CellsType
<1>9. Vacated(e, d, gone)
  BY <1>5, <1>8, VacateFields DEF Edited
<1>10. \A i \in Cell : i \in gone <=> D[i] # {} /\ c.seq[i] \ D[i] = {}
  BY <1>0, <1>3, <1>8 DEF Edited
<1>11. \A i \in Cell : /\ d.seq[i]   = c.seq[i] \ D[i]
                       /\ d.pos[i]   = IF i \in gone THEN -1 ELSE c.pos[i]
                       /\ d.shift[i] = IF i \in gone THEN 0 ELSE c.shift[i]
  BY <1>0, <1>6, <1>8, <1>9, <1>10, SMTT(30) DEF Recounted, Edited, Vacated
<1>12. Moved(c, d, D, NoSeqs)
  <2>1. \A s \in SeqId, p \in Pos :
           d.seqPos[s][p] = (c.seqPos[s][p] - Occurs(c.pos, D, s, p)) + Occurs(d.pos, NoSeqs, s, p)
    BY <1>6, <1>8, <1>9, CellsFields, OccursNone, OccursNat
       DEF Recounted, Edited, Vacated, DecCount
  <2>2. d.used = {i \in Cell : ~IsEmpty(d, i)}
    BY <1>6, <1>8, <1>9, <1>11 DEF Recounted, Edited, Vacated, Sound, Indexed, IsEmpty
  <2>3. \A i \in Cell : \/ /\ d.pos[i] = c.pos[i]
                           /\ d.seq[i] = (c.seq[i] \ D[i]) \cup NoSeqs[i]
                           /\ NoSeqs[i] \cap (c.seq[i] \ D[i]) = {}
                        \/ D[i] = c.seq[i] /\ NoSeqs[i] = d.seq[i]
    BY <1>10, <1>11 DEF NoSeqs
  <2> QED BY <1>9, <2>1, <2>2, <2>3 DEF Vacated, Moved
<1>13. Indexed(d)
  BY <1>12, Reindexed
<1>14. Shaped(d)
  BY <1>6, <1>8, <1>9, <1>10, <1>11 DEF Recounted, Edited, Vacated, Sound, Shaped, IsEmpty
<1> QED BY <1>4, <1>9, <1>11, <1>13, <1>14 DEF Vacated, Sound, ShiftsKept

\* A sequence added to non-empty cells that do not carry it (seq_add).
LEMMA SeqAddSound ==
  ASSUME NEW c, Sound(c), NEW I \in SUBSET Cell, NEW s \in SeqId,
         \A i \in I : ~IsEmpty(c, i) /\ s \notin c.seq[i]
  PROVE  Sound(SeqAdd(c, I, s))
<1>0. PICK seq2 : seq2 = [i \in Cell |-> IF i \in I THEN c.seq[i] \cup {s} ELSE c.seq[i]] OBVIOUS
<1>1. PICK e : e = [c EXCEPT !.seq = seq2]     OBVIOUS
<1>2. PICK A : A = Only(I, s)                  OBVIOUS
<1>3. PICK d : d = SeqAdd(c, I, s)             OBVIOUS
<1>4. d = SeqPosInc(e, A)
  BY <1>0, <1>1, <1>2, <1>3 DEF SeqAdd
<1>5. c \in CellsType /\ seq2 \in [Cell -> SUBSET SeqId]
  BY <1>0, CellsFields DEF Sound
<1>6. Edited(c, e, c.pos, c.shift, seq2, c.used, c.hasShift)
  BY <1>1, <1>5 DEF Edited, CellsType
<1>7. Recounted(e, d, IncCount(e, A))
  BY <1>4, <1>6, IncFields DEF Edited
<1>8. Moved(c, d, NoSeqs, A)
  <2>1. \A t \in SeqId, p \in Pos :
           d.seqPos[t][p] = (c.seqPos[t][p] - Occurs(c.pos, NoSeqs, t, p)) + Occurs(d.pos, A, t, p)
    BY <1>5, <1>6, <1>7, CellsFields, OccursNone, OccursNat DEF Edited, Recounted, IncCount
  <2>2. d.used = {i \in Cell : ~IsEmpty(d, i)}
    BY <1>6, <1>7 DEF Edited, Recounted, Sound, Indexed, IsEmpty
  <2>3. \A i \in Cell : /\ NoSeqs[i] \subseteq c.seq[i]
                        /\ d.pos[i] = c.pos[i]
                        /\ d.seq[i] = (c.seq[i] \ NoSeqs[i]) \cup A[i]
                        /\ A[i] \cap (c.seq[i] \ NoSeqs[i]) = {}
    BY <1>0, <1>2, <1>6, <1>7 DEF Edited, Recounted, NoSeqs, Only
  <2> QED BY <1>7, <2>1, <2>2, <2>3 DEF Recounted, Moved
<1>9. Indexed(d)
  BY <1>8, Reindexed
<1>10. Shaped(d)
  BY <1>0, <1>6, <1>7 DEF Edited, Recounted, Sound, Shaped, IsEmpty
<1> QED BY <1>3, <1>7, <1>9, <1>10 DEF Recounted, Sound

\* Every cell keeps at most the sequence s (seq_keep).
LEMMA SeqKeepSound ==
  ASSUME NEW c, Sound(c), NEW s \in SeqId
  PROVE  Sound(SeqKeep(c, s))
<1>0. PICK kept : kept = SeqHas(c, s)                           OBVIOUS
<1>1. PICK gone : gone = {i \in Cell : c.seq[i] # {}} \ kept    OBVIOUS
<1>2. PICK m : m = SeqPosDec(c, c.seq)                          OBVIOUS
<1>3. PICK seq2 : seq2 = [i \in Cell |-> IF i \in kept THEN {s} ELSE m.seq[i]] OBVIOUS
<1>4. PICK e : e = [m EXCEPT !.seq = seq2]                      OBVIOUS
<1>5. PICK v : v = Vacate(e, gone)                              OBVIOUS
<1>6. PICK A : A = Only(kept, s)                                OBVIOUS
<1>7. PICK d : d = SeqKeep(c, s)                                OBVIOUS
<1>8. d = SeqPosInc(v, A)
  BY <1>0, <1>1, <1>2, <1>3, <1>4, <1>5, <1>6, <1>7 DEF SeqKeep
<1>9. c \in CellsType /\ Recounted(c, m, DecCount(c, c.seq))
  BY <1>2, DecFields DEF Sound
<1>10. seq2 \in [Cell -> SUBSET SeqId]
  BY <1>3, <1>9, CellsFields DEF Recounted
<1>11. Edited(m, e, m.pos, m.shift, seq2, m.used, m.hasShift)
  BY <1>4, <1>9, <1>10 DEF Recounted, Edited, CellsType
<1>12. Vacated(e, v, gone)
  BY <1>5, <1>11, VacateFields DEF Edited
<1>13. Recounted(v, d, IncCount(v, A))
  BY <1>8, <1>12, IncFields DEF Vacated
<1>14. \A i \in Cell : /\ i \in kept <=> s \in c.seq[i]
                       /\ i \in gone <=> c.seq[i] # {} /\ s \notin c.seq[i]
                       /\ A[i] = IF i \in kept THEN {s} ELSE {}
  BY <1>0, <1>1, <1>6 DEF SeqHas, Only
<1>15. \A i \in Cell : /\ d.seq[i]   = A[i]
                       /\ d.pos[i]   = IF i \in gone THEN -1 ELSE c.pos[i]
                       /\ d.shift[i] = IF i \in gone THEN 0 ELSE c.shift[i]
  <2>1. \A i \in Cell : /\ e.seq[i] = IF i \in kept THEN {s} ELSE c.seq[i]
                        /\ e.pos[i] = c.pos[i] /\ e.shift[i] = c.shift[i]
    BY <1>3, <1>9, <1>11 DEF Recounted, Edited
  <2>2. \A i \in Cell : /\ d.seq[i] = v.seq[i] /\ d.pos[i] = v.pos[i]
                        /\ d.shift[i] = v.shift[i]
    BY <1>13 DEF Recounted
  <2>3. \A i \in Cell : i \notin gone => e.seq[i] = A[i]
    BY <1>14, <2>1
  <2>4. \A i \in Cell : i \in gone => A[i] = {}
    BY <1>14
  <2> QED BY <1>12, <2>1, <2>2, <2>3, <2>4, ZenonT(60) DEF Vacated
<1>16. Moved(c, d, c.seq, A)
  <2>1. \A t \in SeqId, p \in Pos :
           d.seqPos[t][p] = (c.seqPos[t][p] - Occurs(c.pos, c.seq, t, p)) + Occurs(d.pos, A, t, p)
    BY <1>9, <1>11, <1>12, <1>13 DEF Recounted, Edited, Vacated, DecCount, IncCount
  <2>2. d.used = {i \in Cell : ~IsEmpty(d, i)}
    BY <1>9, <1>11, <1>12, <1>13, <1>14, <1>15
       DEF Recounted, Edited, Vacated, Sound, Indexed, Shaped, IsEmpty
  <2> QED BY <1>13, <1>15, <2>1, <2>2 DEF Recounted, Moved
<1>17. Indexed(d)
  BY <1>16, Reindexed
<1>18. Shaped(d)
  BY <1>9, <1>11, <1>12, <1>13, <1>14, <1>15
     DEF Recounted, Edited, Vacated, Sound, Shaped, IsEmpty
<1> QED BY <1>7, <1>13, <1>17, <1>18 DEF Recounted, Sound

\* Non-empty cells moved to other positions, possibly off the low end (pos_add).
LEMMA PosAddSound ==
  ASSUME NEW c, Sound(c), NEW I \in SUBSET Cell, NEW delta \in [Cell -> Int],
         \A i \in I : ~IsEmpty(c, i) /\ c.pos[i] + delta[i] <= MaxPos
  PROVE  Sound(PosAdd(c, I, delta))
<1>0. PICK D : D = SeqsOf(c, I)                                 OBVIOUS
<1>1. PICK m : m = SeqPosDec(c, D)                              OBVIOUS
<1>2. PICK pos2 : pos2 = [i \in Cell |-> IF i \in I THEN c.pos[i] + delta[i] ELSE c.pos[i]]
  OBVIOUS
<1>3. PICK shift2 : shift2 = [i \in Cell |-> IF i \in I THEN c.shift[i] + delta[i] ELSE c.shift[i]]
  OBVIOUS
<1>4. PICK flag : flag = (c.hasShift \/ I # {})                 OBVIOUS
<1>5. PICK e : e = [m EXCEPT !.pos = pos2, !.shift = shift2, !.hasShift = flag] OBVIOUS
<1>6. PICK gone : gone = {i \in I : e.pos[i] < 0}               OBVIOUS
<1>7. PICK v : v = Vacate(e, gone)                              OBVIOUS
<1>8. PICK A : A = SeqsOf(c, I \ gone)                          OBVIOUS
<1>9. PICK d : d = PosAdd(c, I, delta)                          OBVIOUS
<1>10. d = SeqPosInc(v, A)
  BY <1>0, <1>1, <1>2, <1>3, <1>4, <1>5, <1>6, <1>7, <1>8, <1>9 DEF PosAdd
<1>11. c \in CellsType /\ Recounted(c, m, DecCount(c, D))
  BY <1>1, DecFields DEF Sound
<1>12. /\ pos2 \in [Cell -> Int] /\ shift2 \in [Cell -> Int] /\ flag \in BOOLEAN
       /\ \A i \in Cell : i \notin I => pos2[i] \in Pos \cup {-1}
  <2>1. /\ c.pos \in [Cell -> Pos \cup {-1}] /\ c.shift \in [Cell -> Int]
        /\ c.hasShift \in BOOLEAN
    BY <1>11, CellsFields
  <2>2. \A i \in Cell : /\ c.pos[i] \in Int /\ c.shift[i] \in Int /\ delta[i] \in Int
                        /\ c.pos[i] \in Pos \cup {-1}
    BY <2>1 DEF Pos
  <2>3. \A i \in Cell : c.pos[i] + delta[i] \in Int /\ c.shift[i] + delta[i] \in Int
    BY <2>2
  <2> QED BY <1>2, <1>3, <1>4, <2>1, <2>2, <2>3
<1>13. /\ e \in LooseType
       /\ e.pos = pos2 /\ e.shift = shift2 /\ e.seq = c.seq
       /\ e.used = c.used /\ e.hasShift = flag /\ e.seqPos = m.seqPos
  BY <1>5, <1>11, <1>12 DEF Recounted, CellsType, LooseType
<1>14. \A i \in Cell : /\ i \in gone <=> i \in I /\ pos2[i] < 0
                       /\ i \in gone \/ pos2[i] \in Pos \cup {-1}
  BY <1>2, <1>6, <1>12, <1>13, SizesAssumption DEF Pos
<1>15. Vacated(e, v, gone)
  BY <1>7, <1>13, <1>14, VacateLoose
<1>16. Recounted(v, d, IncCount(v, A))
  BY <1>10, <1>15, IncFields DEF Vacated
<1>17. \A i \in Cell : /\ D[i] = IF i \in I THEN c.seq[i] ELSE {}
                       /\ A[i] = IF i \in I /\ i \notin gone THEN c.seq[i] ELSE {}
  BY <1>0, <1>8 DEF SeqsOf
<1>18. \A i \in Cell : /\ d.seq[i]   = IF i \in gone THEN {} ELSE c.seq[i]
                       /\ d.pos[i]   = IF i \in gone THEN -1 ELSE pos2[i]
                       /\ d.shift[i] = IF i \in gone THEN 0 ELSE shift2[i]
  BY <1>13, <1>15, <1>16 DEF Recounted, Vacated
<1>19. \A i \in Cell : IsEmpty(d, i) <=> i \in gone \/ IsEmpty(c, i)
  BY <1>2, <1>14, <1>18, SizesAssumption DEF IsEmpty, Pos
<1>20. Moved(c, d, D, A)
  <2>1. \A t \in SeqId, p \in Pos :
           d.seqPos[t][p] = (c.seqPos[t][p] - Occurs(c.pos, D, t, p)) + Occurs(d.pos, A, t, p)
    BY <1>11, <1>13, <1>15, <1>16 DEF Recounted, Vacated, DecCount, IncCount
  <2>2. d.used = {i \in Cell : ~IsEmpty(d, i)}
    BY <1>13, <1>15, <1>16, <1>19 DEF Recounted, Vacated, Sound, Indexed
  <2>3. \A i \in Cell : /\ D[i] \subseteq c.seq[i]
                        /\ \/ /\ d.pos[i] = c.pos[i]
                              /\ d.seq[i] = (c.seq[i] \ D[i]) \cup A[i]
                              /\ A[i] \cap (c.seq[i] \ D[i]) = {}
                           \/ D[i] = c.seq[i] /\ A[i] = d.seq[i]
    BY <1>2, <1>14, <1>17, <1>18
  <2> QED BY <1>16, <2>1, <2>2, <2>3 DEF Recounted, Moved
<1>21. Indexed(d)
  BY <1>20, Reindexed
<1>22. Shaped(d)
  <2>1. \A i \in Cell : IsEmpty(d, i) <=> d.seq[i] = {}
    BY <1>18, <1>19 DEF Sound, Shaped
  <2>2. \A i \in Cell : IsEmpty(d, i) => d.shift[i] = 0
    BY <1>3, <1>18, <1>19 DEF Sound, Shaped
  <2>3. d.hasShift = (c.hasShift \/ I # {})
    BY <1>4, <1>13, <1>15, <1>16 DEF Recounted, Vacated
  <2>4. \A i \in Cell : d.shift[i] # 0 => d.hasShift
    BY <1>3, <1>18, <2>3 DEF Sound, Shaped
  <2> QED BY <2>1, <2>2, <2>4 DEF Shaped
<1> QED BY <1>9, <1>16, <1>21, <1>22 DEF Recounted, Sound

\* A position divided is a position.
LEMMA Quotient ==
  ASSUME NEW p \in Nat, NEW d \in Nat, d > 1
  PROVE  p \div d \in Nat /\ p \div d <= p
<1>1. p \div d \in Int  OBVIOUS
<1>2. p \div d >= 0     OBVIOUS
<1>3. p \div d <= p     OBVIOUS
<1> QED BY <1>1, <1>2, <1>3

\* Non-empty cells moved to the quotient of their position (pos_div).
LEMMA PosDivSound ==
  ASSUME NEW c, Sound(c), NEW I \in SUBSET Cell, NEW div \in Nat, div > 1,
         \A i \in I : ~IsEmpty(c, i)
  PROVE  Sound(PosDiv(c, I, div))
<1>0. PICK D : D = SeqsOf(c, I)                                 OBVIOUS
<1>1. PICK m : m = SeqPosDec(c, D)                              OBVIOUS
<1>2. PICK pos2 : pos2 = [i \in Cell |-> IF i \in I THEN c.pos[i] \div div ELSE c.pos[i]]
  OBVIOUS
<1>3. PICK shift2 : shift2 = [i \in Cell |-> IF i \in I
                        THEN c.shift[i] + c.pos[i] - (c.pos[i] \div div) ELSE c.shift[i]]
  OBVIOUS
<1>4. PICK flag : flag = (c.hasShift \/ I # {})                 OBVIOUS
<1>5. PICK e : e = [m EXCEPT !.pos = pos2, !.shift = shift2, !.hasShift = flag] OBVIOUS
<1>6. PICK d : d = PosDiv(c, I, div)                            OBVIOUS
<1>7. d = SeqPosInc(e, D)
  BY <1>0, <1>1, <1>2, <1>3, <1>4, <1>5, <1>6 DEF PosDiv
<1>8. c \in CellsType /\ Recounted(c, m, DecCount(c, D))
  BY <1>1, DecFields DEF Sound
<1>9. \A i \in I : /\ c.pos[i] \in Pos /\ c.shift[i] \in Int
                   /\ c.pos[i] \div div \in Pos
  <2>1. \A i \in I : c.pos[i] \in Pos /\ c.shift[i] \in Int
    BY <1>8, CellsFields DEF IsEmpty
  <2>2. \A p \in Pos : p \div div \in Pos
    BY Quotient, SizesAssumption DEF Pos
  <2> QED BY <2>1, <2>2
<1>10. pos2 \in [Cell -> Pos \cup {-1}] /\ shift2 \in [Cell -> Int] /\ flag \in BOOLEAN
  <2>1. \A i \in I : c.shift[i] + c.pos[i] - (c.pos[i] \div div) \in Int
    BY <1>9 DEF Pos
  <2> QED BY <1>2, <1>3, <1>4, <1>8, <1>9, <2>1, CellsFields
<1>11. Edited(m, e, pos2, shift2, m.seq, m.used, flag)
  BY <1>5, <1>8, <1>10 DEF Recounted, Edited, CellsType
<1>12. Recounted(e, d, IncCount(e, D))
  BY <1>7, <1>11, IncFields DEF Edited
<1>13. \A i \in Cell : D[i] = IF i \in I THEN c.seq[i] ELSE {}
  BY <1>0 DEF SeqsOf
<1>14. \A i \in Cell : /\ d.seq[i]   = c.seq[i]
                       /\ d.pos[i]   = pos2[i]
                       /\ d.shift[i] = shift2[i]
  BY <1>8, <1>11, <1>12 DEF Recounted, Edited
<1>15. \A i \in Cell : IsEmpty(d, i) <=> IsEmpty(c, i)
  BY <1>2, <1>9, <1>14, SizesAssumption DEF IsEmpty, Pos
<1>16. Moved(c, d, D, D)
  <2>1. \A t \in SeqId, p \in Pos :
           d.seqPos[t][p] = (c.seqPos[t][p] - Occurs(c.pos, D, t, p)) + Occurs(d.pos, D, t, p)
    BY <1>8, <1>11, <1>12 DEF Recounted, Edited, DecCount, IncCount
  <2>2. d.used = {i \in Cell : ~IsEmpty(d, i)}
    BY <1>8, <1>11, <1>12, <1>15 DEF Recounted, Edited, Sound, Indexed
  <2>3. \A i \in Cell : /\ D[i] \subseteq c.seq[i]
                        /\ \/ /\ d.pos[i] = c.pos[i]
                              /\ d.seq[i] = (c.seq[i] \ D[i]) \cup D[i]
                              /\ D[i] \cap (c.seq[i] \ D[i]) = {}
                           \/ D[i] = c.seq[i] /\ D[i] = d.seq[i]
    BY <1>2, <1>13, <1>14
  <2> QED BY <1>12, <2>1, <2>2, <2>3 DEF Recounted, Moved
<1>17. Indexed(d)
  BY <1>16, Reindexed
<1>18. Shaped(d)
  <2>1. \A i \in Cell : IsEmpty(d, i) <=> d.seq[i] = {}
    BY <1>14, <1>15 DEF Sound, Shaped
  <2>2. \A i \in Cell : IsEmpty(d, i) => d.shift[i] = 0
    BY <1>3, <1>14, <1>15 DEF Sound, Shaped
  <2>3. d.hasShift = (c.hasShift \/ I # {})
    BY <1>4, <1>11, <1>12 DEF Recounted, Edited
  <2>4. \A i \in Cell : d.shift[i] # 0 => d.hasShift
    BY <1>3, <1>14, <2>3 DEF Sound, Shaped
  <2> QED BY <2>1, <2>2, <2>4 DEF Shaped
<1> QED BY <1>6, <1>12, <1>17, <1>18 DEF Recounted, Sound

\* Empty cells filled (pos_set, seq_add).
LEMMA EmplaceSound ==
  ASSUME NEW c, Sound(c), NEW at, DOMAIN at \subseteq Cell,
         \A i \in DOMAIN at : /\ IsEmpty(c, i) /\ at[i].pos \in Pos
                              /\ at[i].seq \in SUBSET SeqId /\ at[i].seq # {}
  PROVE  /\ Sound(Emplace(c, at)) /\ Emplace(c, at).shift = c.shift
         /\ \A i \in Cell : Emplace(c, at).pos[i]
                              = IF i \in DOMAIN at THEN at[i].pos ELSE c.pos[i]
<1>0. PICK I : I = DOMAIN at                                    OBVIOUS
<1>1. PICK A : A = [i \in Cell |-> IF i \in I THEN at[i].seq ELSE {}] OBVIOUS
<1>2. PICK pos2 : pos2 = [i \in Cell |-> IF i \in I THEN at[i].pos ELSE c.pos[i]]
  OBVIOUS
<1>3. PICK seq2 : seq2 = [i \in Cell |-> c.seq[i] \cup A[i]]    OBVIOUS
<1>4. PICK used2 : used2 = c.used \cup I                        OBVIOUS
<1>5. PICK e : e = [c EXCEPT !.pos = pos2, !.seq = seq2, !.used = used2] OBVIOUS
<1>6. PICK d : d = Emplace(c, at)                               OBVIOUS
<1>7. d = SeqPosInc(e, A)
  BY <1>0, <1>1, <1>2, <1>3, <1>4, <1>5, <1>6 DEF Emplace
<1>8. /\ c \in CellsType
      /\ pos2 \in [Cell -> Pos \cup {-1}] /\ seq2 \in [Cell -> SUBSET SeqId]
      /\ used2 \in SUBSET Cell
  BY <1>0, <1>1, <1>2, <1>3, <1>4, CellsFields DEF Sound
<1>9. Edited(c, e, pos2, c.shift, seq2, used2, c.hasShift)
  BY <1>5, <1>8 DEF Edited, CellsType
<1>10. Recounted(e, d, IncCount(e, A))
  BY <1>7, <1>9, IncFields DEF Edited
<1>11. \A i \in Cell : /\ d.seq[i] = c.seq[i] \cup A[i] /\ d.pos[i] = pos2[i]
                       /\ d.shift[i] = c.shift[i]
  BY <1>3, <1>9, <1>10 DEF Recounted, Edited
<1>12. \A i \in I : /\ c.seq[i] = {} /\ c.shift[i] = 0 /\ pos2[i] # -1
                    /\ A[i] = at[i].seq /\ A[i] # {}
  BY <1>0, <1>1, <1>2, SizesAssumption DEF Sound, Shaped, Pos
<1>13. \A i \in Cell : i \notin I => A[i] = {} /\ pos2[i] = c.pos[i]
  BY <1>1, <1>2
<1>14. \A i \in Cell : IsEmpty(d, i) <=> IsEmpty(c, i) /\ i \notin I
  BY <1>11, <1>12, <1>13 DEF IsEmpty
<1>15. Moved(c, d, NoSeqs, A)
  <2>1. \A t \in SeqId, p \in Pos :
           d.seqPos[t][p] = (c.seqPos[t][p] - Occurs(c.pos, NoSeqs, t, p)) + Occurs(d.pos, A, t, p)
    BY <1>8, <1>9, <1>10, CellsFields, OccursNone, OccursNat DEF Edited, Recounted, IncCount
  <2>2. d.used = {i \in Cell : ~IsEmpty(d, i)}
    BY <1>0, <1>4, <1>9, <1>10, <1>14 DEF Edited, Recounted, Sound, Indexed
  <2>3. \A i \in Cell : /\ NoSeqs[i] \subseteq c.seq[i]
                        /\ \/ /\ d.pos[i] = c.pos[i]
                              /\ d.seq[i] = (c.seq[i] \ NoSeqs[i]) \cup A[i]
                              /\ A[i] \cap (c.seq[i] \ NoSeqs[i]) = {}
                           \/ NoSeqs[i] = c.seq[i] /\ A[i] = d.seq[i]
    BY <1>11, <1>12, <1>13 DEF NoSeqs
  <2> QED BY <1>10, <2>1, <2>2, <2>3 DEF Recounted, Moved
<1>16. Indexed(d)
  BY <1>15, Reindexed
<1>17. Shaped(d)
  <2>1. \A i \in Cell : IsEmpty(d, i) <=> d.seq[i] = {}
    BY <1>11, <1>12, <1>13, <1>14 DEF Sound, Shaped
  <2>2. d.hasShift = c.hasShift
    BY <1>9, <1>10 DEF Recounted, Edited
  <2> QED BY <1>11, <1>14, <2>1, <2>2 DEF Sound, Shaped
<1> QED BY <1>0, <1>2, <1>6, <1>9, <1>10, <1>11, <1>16, <1>17 DEF Edited, Recounted, Sound

\* Remembered cells put back over cells with no pending shift (set).
LEMMA SetSound ==
  ASSUME NEW c, Sound(c), NEW old, DOMAIN old \subseteq Cell,
         \A i \in DOMAIN old : /\ old[i].pos \in Pos \cup {-1}
                               /\ old[i].seq \in SUBSET SeqId
                               /\ old[i].pos = -1 <=> old[i].seq = {}
                               /\ c.shift[i] = 0
  PROVE  Sound(Set(c, old)) /\ Set(c, old).shift = c.shift
<1>0. PICK I : I = DOMAIN old                                   OBVIOUS
<1>1. PICK D : D = SeqsOf(c, {i \in I : c.pos[i] # -1})         OBVIOUS
<1>2. PICK m : m = SeqPosDec(c, D)                              OBVIOUS
<1>3. PICK pos2 : pos2 = [i \in Cell |-> IF i \in I THEN old[i].pos ELSE c.pos[i]]
  OBVIOUS
<1>4. PICK seq2 : seq2 = [i \in Cell |-> IF i \in I THEN old[i].seq ELSE c.seq[i]]
  OBVIOUS
<1>5. PICK used2 : used2 = (c.used \ {i \in I : c.pos[i] # -1 /\ old[i].pos = -1})
                              \cup {i \in I : c.pos[i] = -1 /\ old[i].pos # -1}
  OBVIOUS
<1>6. PICK e : e = [m EXCEPT !.pos = pos2, !.seq = seq2, !.used = used2] OBVIOUS
<1>7. PICK A : A = SeqsOf(e, {i \in I : old[i].pos # -1})       OBVIOUS
<1>8. PICK d : d = Set(c, old)                                  OBVIOUS
<1>9. d = SeqPosInc(e, A)
  BY <1>0, <1>1, <1>2, <1>3, <1>4, <1>5, <1>6, <1>7, <1>8 DEF Set
<1>10. /\ c \in CellsType /\ Recounted(c, m, DecCount(c, D))
       /\ pos2 \in [Cell -> Pos \cup {-1}] /\ seq2 \in [Cell -> SUBSET SeqId]
       /\ used2 \in SUBSET Cell
  BY <1>0, <1>2, <1>3, <1>4, <1>5, DecFields, CellsFields DEF Sound
<1>11. Edited(m, e, pos2, m.shift, seq2, used2, m.hasShift)
  BY <1>6, <1>10 DEF Recounted, Edited, CellsType
<1>12. Recounted(e, d, IncCount(e, A))
  BY <1>9, <1>11, IncFields DEF Edited
<1>13. \A i \in Cell : /\ d.seq[i] = seq2[i] /\ d.pos[i] = pos2[i]
                       /\ d.shift[i] = c.shift[i]
  BY <1>10, <1>11, <1>12 DEF Recounted, Edited
<1>14. \A i \in Cell : /\ D[i] = IF i \in I THEN c.seq[i] ELSE {}
                       /\ A[i] = IF i \in I THEN seq2[i] ELSE {}
  <2>1. \A i \in I : c.pos[i] = -1 => c.seq[i] = {}
    BY <1>0 DEF Sound, Shaped, IsEmpty
  <2>2. \A i \in I : old[i].pos = -1 => seq2[i] = {}
    BY <1>0, <1>4
  <2>3. e.seq = seq2
    BY <1>11 DEF Edited
  <2> QED BY <1>1, <1>7, <2>1, <2>2, <2>3 DEF SeqsOf
<1>15. Moved(c, d, D, A)
  <2>1. \A t \in SeqId, p \in Pos :
           d.seqPos[t][p] = (c.seqPos[t][p] - Occurs(c.pos, D, t, p)) + Occurs(d.pos, A, t, p)
    BY <1>10, <1>11, <1>12 DEF Recounted, Edited, DecCount, IncCount
  <2>2. used2 = {i \in Cell : pos2[i] # -1}
    BY <1>0, <1>3, <1>5 DEF Sound, Indexed, IsEmpty
  <2>3. d.used = {i \in Cell : ~IsEmpty(d, i)}
    BY <1>11, <1>12, <1>13, <2>2 DEF Recounted, Edited, IsEmpty
  <2>4. \A i \in Cell : /\ D[i] \subseteq c.seq[i]
                        /\ \/ /\ d.pos[i] = c.pos[i]
                              /\ d.seq[i] = (c.seq[i] \ D[i]) \cup A[i]
                              /\ A[i] \cap (c.seq[i] \ D[i]) = {}
                           \/ D[i] = c.seq[i] /\ A[i] = d.seq[i]
    BY <1>3, <1>4, <1>13, <1>14
  <2> QED BY <1>12, <2>1, <2>3, <2>4 DEF Recounted, Moved
<1>16. Indexed(d)
  BY <1>15, Reindexed
<1>17. Shaped(d)
  <2>1. \A i \in Cell : IsEmpty(d, i) <=> d.seq[i] = {}
    BY <1>0, <1>3, <1>4, <1>13 DEF Sound, Shaped, IsEmpty
  <2>2. \A i \in Cell : IsEmpty(d, i) => d.shift[i] = 0
    BY <1>0, <1>3, <1>13 DEF Sound, Shaped, IsEmpty
  <2>3. d.hasShift = c.hasShift
    BY <1>10, <1>11, <1>12 DEF Recounted, Edited
  <2> QED BY <1>13, <2>1, <2>2, <2>3 DEF Sound, Shaped
<1> QED BY <1>8, <1>10, <1>11, <1>12, <1>16, <1>17 DEF Recounted, Edited, Sound

\* The pending shifts forgotten once the rows are rotated (reset_shift).
LEMMA ResetShiftSound ==
  ASSUME NEW c, Sound(c)
  PROVE  Sound(ResetShift(c))
<1>1. PICK shift2 : shift2 = [i \in Cell |-> 0]                 OBVIOUS
<1>2. PICK d : d = ResetShift(c)                                OBVIOUS
<1>3. Edited(c, d, c.pos, shift2, c.seq, c.used, FALSE)
  <2>1. d = [c EXCEPT !.shift = shift2, !.hasShift = FALSE]
    BY <1>1, <1>2 DEF ResetShift
  <2>2. c \in CellsType /\ shift2 \in [Cell -> Int]
    BY <1>1 DEF Sound
  <2> QED BY <2>1, <2>2 DEF Edited, CellsType
<1>4. Indexed(d)
  BY <1>3 DEF Edited, Sound, Indexed, IsEmpty
<1>5. \A i \in Cell : d.shift[i] = 0 /\ (IsEmpty(d, i) <=> IsEmpty(c, i)) /\ d.seq[i] = c.seq[i]
  BY <1>1, <1>3 DEF Edited, IsEmpty
<1>6. Shaped(d)
  BY <1>5 DEF Sound, Shaped
<1> QED BY <1>2, <1>3, <1>4, <1>6 DEF Edited, Sound

-----------------------------------------------------------------------------

Heads == [Stream -> 0..NCells]

\* the cells of every stream are sound
StreamsSound(cs) ==
    cs \in [Stream -> CellsType] /\ \A st \in Stream : Sound(cs[st])

\* what prepare() remembers of a cell and of a placed micro-batch
OldCell   == {o \in [pos : Pos \cup {-1}, seq : SUBSET SeqId] : o.pos = -1 <=> o.seq = {}}
Placement == [idxs  : Seq(Seq(Cell)),
              old   : Seq(UNION {[D -> OldCell] : D \in SUBSET Cell}),
              heads : Heads]

PlacedFor(p, ub) ==
    /\ Len(p.idxs) = Len(ub.strm) /\ Len(p.old) = Len(ub.strm)
    /\ \A g \in DOMAIN ub.strm : /\ Len(p.idxs[g]) = Len(ub.toks[g])
                                 /\ DOMAIN p.old[g] = Range(p.idxs[g])

\* no shift is pending on the cells of the slot
Settled(p, ub, cs) ==
    \A g \in DOMAIN ub.strm : \A i \in Range(p.idxs[g]) : cs[ub.strm[g]].shift[i] = 0

Before == {<<>>} \cup ([Stream -> CellsType] \X Heads)

Job == [ubs : Seq(Ubatch), k : Nat, placed : Seq(Placement), ok : BOOLEAN, retried : BOOLEAN,
        before : Before]

JobOK ==
    /\ job \in Job
    /\ pc # "idle" => Admitted(job.ubs)
    /\ pc = "prepare" => job.k = Len(job.placed) + 1
    /\ pc = "restore" => /\ job.k <= Len(job.placed)
                         /\ job.ok => Len(job.placed) = Len(job.ubs)
    /\ pc = "compute" => job.k \in 1..Len(job.ubs) /\ Len(job.placed) = Len(job.ubs)
    /\ pc \in {"prepare", "restore", "compute"} =>
          /\ Len(job.placed) <= Len(job.ubs)
          /\ \A j \in DOMAIN job.placed : PlacedFor(job.placed[j], job.ubs[j])
    /\ pc \in {"prepare", "restore"} =>
          \A j \in DOMAIN job.placed : Settled(job.placed[j], job.ubs[j], cells)

SavedOK == DOMAIN saved \subseteq Cell /\ \A i \in DOMAIN saved : saved[i].pos \in Pos

IInv == /\ StreamsSound(cells)
        /\ heads \in Heads
        /\ sc \in Seq({q \in Stream \X Stream : q[1] # q[2]})
        /\ pc \in {"idle", "update", "prepare", "restore", "compute"}
        /\ JobOK
        /\ SavedOK

-----------------------------------------------------------------------------
(* Lemmas about the helpers of the model *)

\* The smallest of some cells is one of them.
LEMMA MinCell ==
  ASSUME NEW T \in SUBSET Cell, T # {}
  PROVE  Min(T) \in T
<1> DEFINE R == OpToRel(<, Nat)
<1>1. T \subseteq Nat
  BY SizesAssumption DEF Cell
<1>2. IsWellFoundedOn(R, Nat)
  BY NatLessThanWellFounded
<1> HIDE DEF R
<1>3. PICK x \in T : \A y \in T : <<y, x>> \notin R
  BY <1>1, <1>2, WFMin
<1>4. \A y \in T : ~(y < x)
  BY <1>1, <1>3 DEF R, OpToRel
<1>5. \A y \in T : x =< y
  BY <1>1, <1>4
<1> QED BY <1>5 DEF Min

\* The search restarts at a cell, wherever the freed cells are.
LEMMA FreedHeadType ==
  ASSUME NEW c, NEW d, NEW h \in 0..NCells
  PROVE  FreedHead(c, d, h) \in 0..NCells
<1> DEFINE freed == {i \in Cell : ~IsEmpty(c, i) /\ IsEmpty(d, i)}
<1>1. freed # {} => Min(freed) \in Cell
  BY MinCell
<1>2. Cell \subseteq 0..NCells
  BY SizesAssumption DEF Cell
<1> QED BY <1>1, <1>2 DEF FreedHead

\* Every sequence has a stream.
LEMMA StreamOf ==
  ASSUME NEW s \in SeqId
  PROVE  seq_to_stream(s) \in Stream
  BY SizesAssumption, ConfigAssumption DEF SeqId, Stream, seq_to_stream

\* What soundness of the streams says of one of them.
LEMMA SoundOf ==
  ASSUME NEW cs, StreamsSound(cs), NEW st \in Stream
  PROVE  /\ Sound(cs[st]) /\ cs[st] \in CellsType
         /\ cs[st].pos \in [Cell -> Pos \cup {-1}] /\ cs[st].shift \in [Cell -> Int]
         /\ cs[st].seq \in [Cell -> SUBSET SeqId]
  BY CellsFields DEF StreamsSound, Sound

\* One stream replaced, or all of them.
LEMMA SoundExcept ==
  ASSUME NEW cs, StreamsSound(cs), NEW st \in Stream, NEW d, Sound(d)
  PROVE  StreamsSound([cs EXCEPT ![st] = d])
  BY DEF StreamsSound, Sound

\* The cells an operation on a range works on are not empty.
LEMMA RangeNotEmpty ==
  ASSUME NEW c, Sound(c), NEW p0 \in Int, NEW p1 \in Int
  PROVE  /\ InRange(c, p0, p1) \in SUBSET Cell
         /\ \A i \in InRange(c, p0, p1) : ~IsEmpty(c, i)
<1>1. c.pos \in [Cell -> Pos \cup {-1}]
  BY CellsFields DEF Sound
<1>2. InRange(c, p0, p1) \in SUBSET Cell
  BY DEF InRange
<1>3. \A i \in Cell : c.pos[i] \in Int
  BY <1>1 DEF Pos
<1>4. PICK q \in Int : q >= 0 /\ q = IF p0 < 0 THEN 0 ELSE p0
  OBVIOUS
<1>5. \A i \in InRange(c, p0, p1) : c.pos[i] >= q
  <2>1. CASE p0 < 0
    BY <1>3, <1>4, <2>1 DEF InRange, PosIn
  <2>2. CASE ~(p0 < 0)
    BY <1>3, <1>4, <2>2 DEF InRange, PosIn
  <2> QED BY <2>1, <2>2
<1>6. \A i \in InRange(c, p0, p1) : c.pos[i] # -1
  BY <1>2, <1>3, <1>4, <1>5
<1> QED BY <1>2, <1>6 DEF IsEmpty

\* A cell of a sequence is not empty.
LEMMA OwnedNotEmpty ==
  ASSUME NEW c, Sound(c), NEW s \in SeqId
  PROVE  /\ SeqHas(c, s) \in SUBSET Cell
         /\ \A i \in SeqHas(c, s) : ~IsEmpty(c, i) /\ c.pos[i] \in Pos
<1>1. c.pos \in [Cell -> Pos \cup {-1}]
  BY CellsFields DEF Sound
<1> QED BY <1>1 DEF SeqHas, Sound, Shaped, IsEmpty

\* A micro-batch applied to the cells of its slot (one group of apply_ubatch).
LEMMA ApplyGroupSound ==
  ASSUME NEW c, Sound(c), NEW f \in Seq(Cell), NEW toks \in Seq(Token), Len(toks) = Len(f)
  PROVE  /\ Sound(ApplyGroup(c, f, toks))
         /\ ShiftsKept(c, ApplyGroup(c, f, toks))
         /\ \A i \in Range(f) : ApplyGroup(c, f, toks).shift[i] = 0
<1>0. PICK over : over = {i \in Range(f) : ~IsEmpty(c, i)}               OBVIOUS
<1>1. PICK at : at = [i \in Range(f) |-> toks[CHOOSE a \in DOMAIN f : f[a] = i]] OBVIOUS
<1>2. PICK r : r = Rm(c, over)                                           OBVIOUS
<1>3. PICK d : d = Emplace(r, at)                                        OBVIOUS
<1>4. PICK purge : purge = [i \in Cell |-> {s \in d.seq[i] :
                      \E j \in {k \in over : s \in c.seq[k]} : d.pos[i] <= c.pos[j]}]
  OBVIOUS
<1>5. ApplyGroup(c, f, toks) = SeqRm(d, purge)
  BY <1>0, <1>1, <1>2, <1>3, <1>4 DEF ApplyGroup
<1>6. Range(f) \subseteq Cell /\ over \in SUBSET Cell
  BY <1>0 DEF Range
<1>7. /\ Sound(r) /\ ShiftsKept(c, r)
      /\ \A i \in Range(f) : IsEmpty(r, i)
  BY <1>0, <1>2, <1>6, RmSound
<1>8. \A i \in Range(f) : at[i] \in Token
  <2> SUFFICES ASSUME NEW i \in Range(f) PROVE at[i] \in Token
    OBVIOUS
  <2> DEFINE b == CHOOSE a \in DOMAIN f : f[a] = i
  <2>1. b \in DOMAIN f
    BY DEF Range
  <2>2. b \in DOMAIN toks
    BY <2>1
  <2>3. at[i] = toks[b]
    BY <1>1
  <2> QED BY <2>2, <2>3
<1>9. Sound(d) /\ d.shift = r.shift
  <2>1. DOMAIN at \subseteq Cell
    BY <1>1, <1>6
  <2>2. \A i \in DOMAIN at : /\ IsEmpty(r, i) /\ at[i].pos \in Pos
                             /\ at[i].seq \in SUBSET SeqId /\ at[i].seq # {}
    BY <1>1, <1>7, <1>8 DEF Token
  <2> QED BY <1>3, <1>7, <2>1, <2>2, EmplaceSound
<1>10. /\ Sound(SeqRm(d, purge)) /\ ShiftsKept(d, SeqRm(d, purge))
  BY <1>4, <1>9, SeqRmSound
<1>11. \A i \in Range(f) : r.shift[i] = 0
  BY <1>6, <1>7 DEF Sound, Shaped
<1> QED BY <1>5, <1>6, <1>7, <1>9, <1>10, <1>11 DEF ShiftsKept

\* one micro-batch of an admitted batch
UbatchOK(ub) ==
    /\ ub \in Ubatch
    /\ Len(ub.strm) \in 1..NStream /\ IsInjective(ub.strm)
    /\ Len(ub.toks) = Len(ub.strm)
    /\ \A g \in DOMAIN ub.toks : Len(ub.toks[g]) > 0

\* What is known of each micro-batch of a decode.
LEMMA AdmittedEach ==
  ASSUME NEW ubs, Admitted(ubs), NEW j \in 1..Len(ubs)
  PROVE  UbatchOK(ubs[j]) /\ DOMAIN ubs = 1..Len(ubs)
  BY DEF Admitted, UbatchOK

\* A group of a micro-batch has a stream and at least one token.
LEMMA GroupFields ==
  ASSUME NEW ub, UbatchOK(ub), NEW g \in DOMAIN ub.strm
  PROVE  /\ g \in 1..Len(ub.strm) /\ g \in DOMAIN ub.toks
         /\ ub.strm[g] \in Stream /\ ub.toks[g] \in Seq(Token) /\ Len(ub.toks[g]) \in Nat \ {0}
         /\ GroupOf(ub, ub.strm[g]) = g
<1>1. /\ ub.strm \in Seq(Stream) /\ ub.toks \in Seq(Seq(Token))
      /\ DOMAIN ub.strm = 1..Len(ub.strm) /\ DOMAIN ub.toks = 1..Len(ub.strm)
  BY DEF UbatchOK, Ubatch
<1>2. \A h \in DOMAIN ub.strm : ub.strm[h] = ub.strm[g] => h = g
  BY DEF UbatchOK, IsInjective
<1>3. GroupOf(ub, ub.strm[g]) = g
  BY <1>2 DEF GroupOf
<1> QED BY <1>1, <1>3 DEF UbatchOK

\* Each stream of a micro-batch is that of one group only.
LEMMA GroupOfStream ==
  ASSUME NEW ub, UbatchOK(ub), NEW st \in Range(ub.strm)
  PROVE  GroupOf(ub, st) \in DOMAIN ub.strm /\ ub.strm[GroupOf(ub, st)] = st
  BY DEF GroupOf, Range

\* a placement of the micro-batch: the cells of each group
SlotsFor(ub, sinfo) ==
    /\ sinfo \in Seq(Seq(Cell)) /\ Len(sinfo) = Len(ub.strm)
    /\ \A g \in DOMAIN ub.strm : Len(sinfo[g]) = Len(ub.toks[g])

\* When every group fits, find_slot gives each of its tokens a cell.
LEMMA FindSlot ==
  ASSUME NEW ub, UbatchOK(ub), Fits(ub)
  PROVE  SlotsFor(ub, find_slot(ub))
<1>1. ASSUME NEW g \in DOMAIN ub.strm
      PROVE  /\ find_slot(ub)[g] \in Seq(Cell)
             /\ Len(find_slot(ub)[g]) = Len(ub.toks[g])
  <2> DEFINE n == Len(ub.toks[g])
             S == Slots(cells[ub.strm[g]], heads[ub.strm[g]], n)
  <2>1. S # {} /\ find_slot(ub)[g] = CHOOSE f \in S : TRUE
    BY DEF Fits, find_slot
  <2> HIDE DEF S
  <2>2. find_slot(ub)[g] \in S
    BY <2>1
  <2>3. find_slot(ub)[g] \in [1..n -> Cell]
    BY <2>2 DEF S, Slots
  <2>4. n \in Nat
    BY GroupFields
  <2> QED BY <2>3, <2>4
<1>2. PICK n \in Nat : n = Len(ub.strm) /\ DOMAIN ub.strm = 1..n
  BY DEF UbatchOK, Ubatch
<1>3. find_slot(ub) = [g \in DOMAIN ub.strm |-> find_slot(ub)[g]]
  BY DEF find_slot
<1>4. PICK F : F = find_slot(ub)
  OBVIOUS
<1>5. F \in [1..n -> Seq(Cell)]
  BY <1>1, <1>2, <1>3, <1>4
<1>6. F \in Seq(Seq(Cell)) /\ Len(F) = n
  BY <1>5
<1> QED BY <1>1, <1>2, <1>4, <1>6 DEF SlotsFor

\* What apply_ubatch makes of the cells and of the heads.
LEMMA ApplySound ==
  ASSUME StreamsSound(cells), heads \in Heads,
         NEW ub, UbatchOK(ub), NEW sinfo, SlotsFor(ub, sinfo)
  PROVE  /\ StreamsSound(ApplyCells(ub, sinfo))
         /\ ApplyHeads(ub, sinfo) \in Heads
         /\ \A st \in Stream : ShiftsKept(cells[st], ApplyCells(ub, sinfo)[st])
         /\ \A g \in DOMAIN ub.strm : \A i \in Range(sinfo[g]) :
               ApplyCells(ub, sinfo)[ub.strm[g]].shift[i] = 0
<1> DEFINE A == ApplyCells(ub, sinfo)
           H == ApplyHeads(ub, sinfo)
<1>1. ASSUME NEW g \in DOMAIN ub.strm
      PROVE  /\ sinfo[g] \in Seq(Cell) /\ Len(sinfo[g]) = Len(ub.toks[g])
             /\ ub.toks[g] \in Seq(Token) /\ ub.strm[g] \in Stream
             /\ sinfo[g][Len(sinfo[g])] \in Cell
  BY GroupFields DEF SlotsFor
<1>2. ASSUME NEW st \in Range(ub.strm)
      PROVE  LET g == GroupOf(ub, st) IN
             /\ A[st] = ApplyGroup(cells[st], sinfo[g], ub.toks[g])
             /\ H[st] = sinfo[g][Len(sinfo[g])] + 1
             /\ g \in DOMAIN ub.strm /\ ub.strm[g] = st
  <2>1. GroupOf(ub, st) \in DOMAIN ub.strm /\ ub.strm[GroupOf(ub, st)] = st
    BY GroupOfStream
  <2>2. st \in Stream
    BY <1>1, <2>1
  <2> QED BY <2>1, <2>2 DEF ApplyCells, ApplyHeads
<1>3. ASSUME NEW st \in Stream, st \notin Range(ub.strm)
      PROVE  A[st] = cells[st] /\ H[st] = heads[st]
  BY <1>3 DEF ApplyCells, ApplyHeads
<1>4. ASSUME NEW st \in Stream
      PROVE  /\ Sound(A[st]) /\ H[st] \in 0..NCells
             /\ ShiftsKept(cells[st], A[st])
  <2>1. Sound(cells[st]) /\ heads[st] \in 0..NCells
    BY SoundOf DEF Heads
  <2>2. CASE st \in Range(ub.strm)
    <3>1. PICK g \in DOMAIN ub.strm : /\ A[st] = ApplyGroup(cells[st], sinfo[g], ub.toks[g])
                                      /\ H[st] = sinfo[g][Len(sinfo[g])] + 1
      BY <1>2, <2>2
    <3>2. H[st] \in 0..NCells
      BY <1>1, <3>1, SizesAssumption DEF Cell
    <3> QED BY <1>1, <2>1, <3>1, <3>2, ApplyGroupSound
  <2>3. CASE st \notin Range(ub.strm)
    BY <1>3, <2>1, <2>3 DEF ShiftsKept
  <2> QED BY <2>2, <2>3
<1>5. ASSUME NEW g \in DOMAIN ub.strm, NEW i \in Range(sinfo[g])
      PROVE  A[ub.strm[g]].shift[i] = 0
  <2>1. ub.strm[g] \in Range(ub.strm) /\ GroupOf(ub, ub.strm[g]) = g
    BY GroupFields DEF Range
  <2>2. A[ub.strm[g]] = ApplyGroup(cells[ub.strm[g]], sinfo[g], ub.toks[g])
    BY <1>2, <2>1
  <2>3. Sound(cells[ub.strm[g]])
    BY <1>1, SoundOf
  <2> QED BY <1>1, <2>2, <2>3, ApplyGroupSound
<1>6. A = [st \in Stream |-> A[st]] /\ H = [st \in Stream |-> H[st]]
  BY DEF ApplyCells, ApplyHeads
<1> HIDE DEF A, H
<1>7. StreamsSound(A)
  BY <1>4, <1>6 DEF StreamsSound, Sound
<1>8. H \in Heads
  BY <1>4, <1>6 DEF Heads
<1> QED BY <1>4, <1>5, <1>7, <1>8 DEF A, H

-----------------------------------------------------------------------------
(* Initial states *)

\* Initially everything is empty and the context idle.
LEMMA InitInv == Init => IInv
<1> SUFFICES ASSUME Init PROVE IInv
  OBVIOUS
<1>1. StreamsSound(cells)
  BY EmptySound DEF Init, StreamsSound, Sound
<1>2. heads \in Heads
  BY SizesAssumption DEF Init, Heads
<1>3. JobOK
  <2>1. <<>> \in Before
    BY DEF Before
  <2> QED BY <2>1 DEF Init, JobOK, Job, NoJob
<1>4. SavedOK
  BY DEF Init, SavedOK
<1> QED BY <1>1, <1>2, <1>3, <1>4 DEF Init, IInv

-----------------------------------------------------------------------------
(* Memory operations *)

\* Between two decodes the job is not looked at.
LEMMA IdleStep ==
  ASSUME IInv, pc = "idle", pc' = pc, job' = job, saved' = saved,
         StreamsSound(cells'), heads' \in Heads,
         sc' \in Seq({q \in Stream \X Stream : q[1] # q[2]})
  PROVE  IInv'
<1>1. JobOK'
  BY DEF IInv, JobOK
<1>2. SavedOK'
  BY DEF IInv, SavedOK
<1> QED BY <1>1, <1>2 DEF IInv

\* An operation that edits one stream.
LEMMA EditStep ==
  ASSUME IInv, pc = "idle", NEW st \in Stream, NEW d, Sound(d), NEW h \in 0..NCells,
         Edit(st, d, h)
  PROVE  IInv'
<1>1. StreamsSound(cells')
  BY SoundExcept DEF Edit, IInv
<1>2. heads' \in Heads
  BY DEF Edit, IInv, Heads
<1> QED BY <1>1, <1>2, IdleStep DEF Edit, IInv

\* A set of cells with one sequence each.
LEMMA OnlyFields ==
  ASSUME NEW I, NEW s
  PROVE  \A i \in Cell : Only(I, s)[i] = IF i \in I THEN {s} ELSE {}
  BY DEF Only

\* The cells after seq_rm.
LEMMA SeqRmCellsSound ==
  ASSUME StreamsSound(cells), NEW s \in SeqId, NEW p0, NEW p1
  PROVE  Sound(SeqRmCells(s, p0, p1))
<1> DEFINE c == cells[seq_to_stream(s)]
           D == Only(SeqInRange(c, s, p0, p1), s)
<1>1. Sound(c)
  BY StreamOf, SoundOf
<1>2. \A i \in Cell : D[i] \subseteq c.seq[i]
  <2>1. \A i \in SeqInRange(c, s, p0, p1) : s \in c.seq[i]
    BY DEF SeqInRange, SeqHas
  <2>2. \A i \in Cell : D[i] = IF i \in SeqInRange(c, s, p0, p1) THEN {s} ELSE {}
    BY OnlyFields
  <2> HIDE DEF c, D
  <2> QED BY <2>1, <2>2
<1>3. SeqRmCells(s, p0, p1) = SeqRm(c, D)
  BY DEF SeqRmCells
<1> HIDE DEF c, D
<1> QED BY <1>1, <1>2, <1>3, SeqRmSound

\* The bounds a caller passes are integers.
LEMMA RangeType ==
  ASSUME NEW r \in Ranges
  PROVE  r[1] \in Int /\ r[2] \in Int
  BY ConfigAssumption

\* clear() keeps the invariant.
LEMMA ClearStep ==
  ASSUME IInv, NEW data \in BOOLEAN, Clear(data)
  PROVE  IInv'
<1>1. StreamsSound(cells')
  BY EmptySound DEF Clear, StreamsSound, Sound
<1>2. heads' \in Heads
  BY SizesAssumption DEF Clear, Heads
<1> QED BY <1>1, <1>2, IdleStep DEF Clear, Idle, IInv

\* seq_rm() of one sequence keeps the invariant.
LEMMA SeqRmStep ==
  ASSUME IInv, NEW s \in SeqId, NEW p0, NEW p1, seq_rm(s, p0, p1)
  PROVE  IInv'
<1> DEFINE st == seq_to_stream(s)
           d == SeqRmCells(s, p0, p1)
           h == FreedHead(cells[st], d, heads[st])
<1>1. st \in Stream /\ Sound(d)
  BY StreamOf, SeqRmCellsSound DEF IInv
<1>2. h \in 0..NCells
  BY <1>1, FreedHeadType DEF IInv, Heads
<1>3. pc = "idle" /\ Edit(st, d, h)
  BY DEF seq_rm, Idle
<1> HIDE DEF st, d, h
<1> QED BY <1>1, <1>2, <1>3, EditStep

\* seq_rm() of every sequence keeps it.
LEMMA SeqRmAnyStep ==
  ASSUME IInv, NEW r \in Ranges, seq_rm_any(r[1], r[2])
  PROVE  IInv'
<1> DEFINE F(st) == Rm(cells[st], InRange(cells[st], r[1], r[2]))
           G(st) == FreedHead(cells[st], cells'[st], heads[st])
<1>1. ASSUME NEW st \in Stream
      PROVE  Sound(F(st)) /\ G(st) \in 0..NCells
  <2>1. Sound(cells[st]) /\ heads[st] \in 0..NCells
    BY SoundOf DEF IInv, Heads
  <2>2. InRange(cells[st], r[1], r[2]) \in SUBSET Cell
    BY DEF InRange
  <2> QED BY <2>1, <2>2, RmSound, FreedHeadType
<1>2. cells' = [st \in Stream |-> F(st)] /\ heads' = [st \in Stream |-> G(st)]
  BY DEF seq_rm_any
<1> HIDE DEF F, G
<1>3. StreamsSound(cells')
  BY <1>1, <1>2 DEF StreamsSound, Sound
<1>4. heads' \in Heads
  BY <1>1, <1>2 DEF Heads
<1> QED BY <1>3, <1>4, IdleStep DEF seq_rm_any, Idle, IInv

\* seq_cp() within a stream keeps it if the target has none of the cells.
LEMMA SeqCpStep ==
  ASSUME CallerCleans, IInv, NEW src \in SeqId, NEW dst \in SeqId, NEW r \in Ranges,
         seq_cp(src, dst, r[1], r[2])
  PROVE  IInv'
<1> DEFINE st == seq_to_stream(src)
           c == cells[st]
           I == SeqInRange(c, src, r[1], r[2])
<1>1. st \in Stream /\ Sound(c) /\ heads[st] \in 0..NCells
  BY StreamOf, SoundOf DEF IInv, Heads
<1>2. I \cap SeqHas(c, dst) = {} /\ pc = "idle" /\ Edit(st, SeqAdd(c, I, dst), heads[st])
  BY DEF seq_cp, Idle
<1>3. I \in SUBSET Cell /\ \A i \in I : ~IsEmpty(c, i)
  BY <1>1, OwnedNotEmpty DEF SeqInRange
<1> HIDE DEF st, c, I
<1>4. \A i \in I : ~IsEmpty(c, i) /\ dst \notin c.seq[i]
  BY <1>2, <1>3 DEF SeqHas
<1>5. Sound(SeqAdd(c, I, dst))
  BY <1>1, <1>3, <1>4, SeqAddSound
<1> QED BY <1>1, <1>2, <1>5, EditStep

\* seq_keep() keeps it.
LEMMA SeqKeepStep ==
  ASSUME IInv, NEW s \in SeqId, seq_keep(s)
  PROVE  IInv'
<1> DEFINE st == seq_to_stream(s)
           d == SeqKeep(cells[st], s)
           h == FreedHead(cells[st], d, heads[st])
<1>1. st \in Stream /\ Sound(cells[st]) /\ heads[st] \in 0..NCells
  BY StreamOf, SoundOf DEF IInv, Heads
<1>2. Sound(d) /\ h \in 0..NCells
  BY <1>1, SeqKeepSound, FreedHeadType
<1>3. pc = "idle" /\ Edit(st, d, h)
  BY DEF seq_keep, Idle
<1> HIDE DEF st, d, h
<1> QED BY <1>1, <1>2, <1>3, EditStep

\* seq_add() keeps it.
LEMMA SeqAddStep ==
  ASSUME IInv, NEW s \in SeqId, NEW r \in Ranges, NEW delta \in Deltas,
         seq_add(s, r[1], r[2], delta)
  PROVE  IInv'
<1> DEFINE st == seq_to_stream(s)
           c  == cells[st]
           I  == SeqInRange(c, s, r[1], r[2])
           D  == [i \in Cell |-> delta]
           d  == PosAdd(c, I, D)
           freed == {i \in I : IsEmpty(d, i)}
           h  == IF freed = {} THEN 0 ELSE Min(freed)
<1>1. st \in Stream /\ Sound(c)
  BY StreamOf, SoundOf DEF IInv
<1>2. I \in SUBSET Cell /\ \A i \in I : ~IsEmpty(c, i)
  BY <1>1, OwnedNotEmpty DEF SeqInRange
<1>3. /\ pc = "idle" /\ Edit(st, d, h)
      /\ \A i \in I : c.pos[i] + delta <= MaxPos
  BY DEF seq_add, Idle
<1>4. D \in [Cell -> Int]
  BY ConfigAssumption
<1>5. \A i \in I : ~IsEmpty(c, i) /\ c.pos[i] + D[i] <= MaxPos
  BY <1>2, <1>3
<1>6. freed \in SUBSET Cell
  BY <1>2
<1>7. freed # {} => Min(freed) \in Cell
  BY <1>6, MinCell
<1>8. h \in 0..NCells
  BY <1>7, SizesAssumption DEF Cell
<1> HIDE DEF st, c, I, D, freed, h
<1>9. Sound(d)
  BY <1>1, <1>2, <1>4, <1>5, PosAddSound
<1> HIDE DEF d
<1> QED BY <1>1, <1>3, <1>8, <1>9, EditStep

\* seq_div() keeps it.
LEMMA SeqDivStep ==
  ASSUME IInv, NEW s \in SeqId, NEW r \in Ranges, NEW div \in Divs,
         seq_div(s, r[1], r[2], div)
  PROVE  IInv'
<1> DEFINE st == seq_to_stream(s)
           c  == cells[st]
           I  == SeqInRange(c, s, r[1], r[2])
           d  == PosDiv(c, I, div)
<1>1. st \in Stream /\ Sound(c) /\ heads[st] \in 0..NCells
  BY StreamOf, SoundOf DEF IInv, Heads
<1>2. I \in SUBSET Cell /\ \A i \in I : ~IsEmpty(c, i)
  BY <1>1, OwnedNotEmpty DEF SeqInRange
<1>3. pc = "idle" /\ Edit(st, d, heads[st])
  BY DEF seq_div, Idle
<1>4. div \in Nat /\ div > 1
  BY ConfigAssumption
<1> HIDE DEF st, c, I
<1>5. Sound(d)
  BY <1>1, <1>2, <1>4, PosDivSound
<1> HIDE DEF d
<1> QED BY <1>1, <1>3, <1>5, EditStep

\* The copy of a stream, whose positions are those of the source.
LEMMA CopiedSound ==
  ASSUME NEW c, Sound(c), NEW src \in SeqId, NEW dst \in SeqId,
         \A i \in SeqHas(c, src) : c.pos[i] - c.shift[i] \in Pos
  PROVE  Sound(CopiedCells(c, src, dst))
<1> DEFINE I  == SeqHas(c, src)
           at == [i \in I |-> [pos |-> c.pos[i] - c.shift[i], seq |-> {dst}]]
           e  == Emplace(EmptyCells, at)
           J  == {i \in I : c.shift[i] # 0}
<1>1. I \in SUBSET Cell /\ c.shift \in [Cell -> Int] /\ \A i \in I : c.pos[i] \in Pos
  BY OwnedNotEmpty, CellsFields DEF Sound
<1>2. /\ DOMAIN at \subseteq Cell
      /\ \A i \in DOMAIN at : /\ IsEmpty(EmptyCells, i) /\ at[i].pos \in Pos
                              /\ at[i].seq \in SUBSET SeqId /\ at[i].seq # {}
  BY <1>1 DEF EmptyCells, IsEmpty
<1>3. \A i \in I : at[i].pos = c.pos[i] - c.shift[i] /\ i \in DOMAIN at
  OBVIOUS
<1>4. CopiedCells(c, src, dst) = PosAdd(e, J, c.shift)
  BY DEF CopiedCells
<1> HIDE DEF at
<1>5. Sound(e) /\ \A i \in Cell : e.pos[i] = IF i \in DOMAIN at THEN at[i].pos ELSE EmptyCells.pos[i]
  BY <1>2, EmptySound, EmplaceSound
<1> HIDE DEF e, I
<1>6. J \in SUBSET Cell
  BY <1>1
<1>7. \A i \in J : ~IsEmpty(e, i) /\ e.pos[i] + c.shift[i] <= MaxPos
  <2> SUFFICES ASSUME NEW i \in J PROVE ~IsEmpty(e, i) /\ e.pos[i] + c.shift[i] <= MaxPos
    OBVIOUS
  <2>1. e.pos[i] = c.pos[i] - c.shift[i] /\ e.pos[i] \in Pos
    BY <1>1, <1>2, <1>3, <1>5
  <2>2. c.pos[i] \in Int /\ c.shift[i] \in Int /\ c.pos[i] <= MaxPos
    BY <1>1, SizesAssumption DEF Pos
  <2> QED BY <2>1, <2>2, SizesAssumption DEF IsEmpty, Pos
<1> HIDE DEF J
<1> QED BY <1>1, <1>4, <1>5, <1>6, <1>7, PosAddSound

\* seq_cp() between streams keeps it, the queued copy included.
LEMMA SeqCpStreamStep ==
  ASSUME IInv, NEW src \in SeqId, NEW dst \in SeqId, seq_cp_stream(src, dst)
  PROVE  IInv'
<1> DEFINE s0 == seq_to_stream(src)
           s1 == seq_to_stream(dst)
           d  == CopiedCells(cells[s0], src, dst)
<1>1. s0 \in Stream /\ s1 \in Stream /\ Sound(cells[s0])
  BY StreamOf, SoundOf DEF IInv
<1>2. /\ pc = "idle" /\ s0 # s1
      /\ \A i \in SeqHas(cells[s0], src) : cells[s0].pos[i] - cells[s0].shift[i] \in Pos
      /\ sc' = Append(sc, <<s0, s1>>)
      /\ cells' = [cells EXCEPT ![s1] = d]
      /\ heads' = [heads EXCEPT ![s1] = heads[s0]]
      /\ pc' = pc /\ job' = job /\ saved' = saved
  BY DEF seq_cp_stream, Idle
<1>3. Sound(d)
  BY <1>1, <1>2, CopiedSound
<1> HIDE DEF s0, s1, d
<1>4. StreamsSound(cells')
  BY <1>1, <1>2, <1>3, SoundExcept DEF IInv
<1>5. heads' \in Heads
  BY <1>1, <1>2 DEF IInv, Heads
<1>6. sc' \in Seq({q \in Stream \X Stream : q[1] # q[2]})
  BY <1>1, <1>2 DEF IInv
<1> QED BY <1>2, <1>4, <1>5, <1>6, IdleStep

-----------------------------------------------------------------------------
(* Saving and restoring a sequence *)

\* state_write() keeps it: what is saved has valid positions.
LEMMA StateWriteStep ==
  ASSUME IInv, NEW s \in SeqId, state_write(s)
  PROVE  IInv'
<1> DEFINE st == seq_to_stream(s)
<1>1. Sound(cells[st])
  BY StreamOf, SoundOf DEF IInv
<1>2. SeqHas(cells[st], s) \in SUBSET Cell /\ \A i \in SeqHas(cells[st], s) : cells[st].pos[i] \in Pos
  BY <1>1, OwnedNotEmpty
<1>3. SavedOK'
  BY <1>2 DEF state_write, SavedOK
<1>4. JobOK'
  BY DEF state_write, Idle, IInv, JobOK
<1> QED BY <1>3, <1>4 DEF state_write, IInv

\* state_read() keeps it, with a slot and without one.
LEMMA StateReadStep ==
  ASSUME IInv, NEW s \in SeqId, state_read(s)
  PROVE  IInv'
<1> DEFINE st == seq_to_stream(s)
           d == SeqRmCells(s, -1, -1)
           h == FreedHead(cells[st], d, heads[st])
           n == Cardinality(DOMAIN saved)
           F == Slots(d, h, n)
           toks(e) == SavedToks(s, e)
<1>1. st \in Stream /\ Sound(d) /\ heads[st] \in 0..NCells
  BY StreamOf, SeqRmCellsSound DEF IInv, Heads
<1>2. h \in 0..NCells
  BY <1>1, FreedHeadType
<1>3. n \in Nat
  BY SubsetFinite DEF IInv, SavedOK
<1>4. CASE Edit(st, d, h)
  BY <1>1, <1>2, <1>4, EditStep DEF state_read, Idle
<1>5. ASSUME NEW f \in F, NEW e \in Increasing(DOMAIN saved),
             cells' = [cells EXCEPT ![st] = ApplyGroup(d, f, toks(e))],
             heads' = [heads EXCEPT ![st] = f[n] + 1]
      PROVE  IInv'
  <2>1. n > 0 /\ pc = "idle" /\ pc' = pc /\ job' = job /\ saved' = saved /\ sc' = sc
    BY DEF state_read, Idle, Edit
  <2>2. f \in [1..n -> Cell]
    BY DEF Slots
  <2>3. e \in [1..n -> DOMAIN saved]
    BY DEF Increasing
  <2>4. \A a \in 1..n : [pos |-> saved[e[a]].pos, seq |-> {s}] \in Token
    BY <2>3 DEF IInv, SavedOK, Token
  <2>5. toks(e) \in Seq(Token) /\ Len(toks(e)) = n
    BY <1>3, <2>3, <2>4 DEF SavedToks
  <2>6. f \in Seq(Cell) /\ Len(f) = n
    BY <1>3, <2>2
  <2> HIDE DEF st, d, h, n, F, toks
  <2>7. Sound(ApplyGroup(d, f, toks(e)))
    BY <1>1, <2>5, <2>6, ApplyGroupSound
  <2>8. f[n] + 1 \in 0..NCells
    BY <1>3, <2>1, <2>2, SizesAssumption DEF Cell
  <2>9. StreamsSound(cells')
    BY <1>1, <1>5, <2>7, SoundExcept DEF IInv
  <2>10. heads' \in Heads
    BY <1>1, <1>5, <2>8 DEF IInv, Heads
  <2> QED BY <2>1, <2>9, <2>10, IdleStep DEF IInv
<1> QED BY <1>4, <1>5 DEF state_read

-----------------------------------------------------------------------------
(* A decode *)

\* A decode starts with an admitted batch.
LEMMA DecodeStep ==
  ASSUME IInv, Decode
  PROVE  IInv'
<1>1. PICK ubs : Admitted(ubs) /\ job' = [NoJob EXCEPT !.ubs = ubs]
  BY DEF Decode
<1>2. job' = [ubs |-> ubs, k |-> 0, placed |-> <<>>, ok |-> TRUE, retried |-> FALSE,
              before |-> <<>>]
  BY <1>1 DEF NoJob
<1>3. job' \in Job
  <2>1. ubs \in Seq(Ubatch) /\ <<>> \in Seq(Placement) /\ <<>> \in Before
    BY <1>1 DEF Admitted, Before
  <2> QED BY <1>2, <2>1 DEF Job
<1>4. JobOK'
  BY <1>1, <1>2, <1>3 DEF Decode, JobOK
<1>5. SavedOK'
  BY DEF IInv, SavedOK, Decode
<1> QED BY <1>4, <1>5 DEF Decode, IInv

\* A queued stream copy moves rows only.
LEMMA CopyStreamStep ==
  ASSUME IInv, CopyStream
  PROVE  IInv'
<1>1. sc' \in Seq({q \in Stream \X Stream : q[1] # q[2]})
  BY DEF IInv, CopyStream
<1>2. JobOK' /\ SavedOK'
  BY DEF IInv, CopyStream, JobOK, SavedOK
<1> QED BY <1>1, <1>2 DEF IInv, CopyStream

\* prepare() starts with no micro-batch placed.
LEMMA StartPrepareStep ==
  ASSUME IInv, pc = "update", NEW cs, StreamsSound(cs), StartPrepare(cs),
         cells' = cs, heads' = heads, sc' = sc, saved' = saved
  PROVE  IInv'
<1>1. /\ pc' = "prepare"
      /\ job' = [job EXCEPT !.k = 1, !.placed = <<>>, !.before = <<cs, heads>>]
  BY DEF StartPrepare
<1>2. job \in Job /\ Admitted(job.ubs) /\ heads \in Heads
  BY DEF IInv, JobOK
<1>3. <<cs, heads>> \in Before /\ <<>> \in Seq(Placement)
  BY <1>2 DEF StreamsSound, Before
<1>4. /\ job' \in Job
      /\ job'.ubs = job.ubs /\ job'.k = 1 /\ job'.placed = <<>>
  BY <1>1, <1>2, <1>3 DEF Job
<1>5. Len(job.ubs) \in Nat
  BY <1>2 DEF Admitted
<1>6. JobOK'
  BY <1>1, <1>2, <1>4, <1>5 DEF JobOK
<1>7. SavedOK'
  BY DEF IInv, SavedOK
<1> QED BY <1>1, <1>6, <1>7 DEF IInv

\* update() keeps the invariant, the failing K-shift included.
LEMMA UpdateStep ==
  ASSUME IInv, KShift \/ KShiftFails \/ NoUpdate
  PROVE  IInv'
<1>1. CASE KShift
  <2>1. cells' = [st \in Stream |-> ResetShift(cells[st])]
    BY <1>1 DEF KShift
  <2>2. \A st \in Stream : Sound(ResetShift(cells[st]))
    BY SoundOf, ResetShiftSound DEF IInv
  <2>3. StreamsSound(cells')
    BY <2>1, <2>2 DEF StreamsSound, Sound
  <2> QED BY <1>1, <2>3, StartPrepareStep DEF KShift
<1>2. CASE KShiftFails \/ NoUpdate
  BY <1>2, StartPrepareStep DEF KShiftFails, NoUpdate, IInv
<1> QED BY <1>1, <1>2

\* What prepare() remembers of a slot.
LEMMA Remembered ==
  ASSUME NEW c, Sound(c), NEW f \in Seq(Cell)
  PROVE  /\ Copy(c, Range(f)) \in UNION {[D -> OldCell] : D \in SUBSET Cell}
         /\ DOMAIN Copy(c, Range(f)) = Range(f)
<1>1. Range(f) \in SUBSET Cell
  BY DEF Range
<1>2. c.pos \in [Cell -> Pos \cup {-1}] /\ c.seq \in [Cell -> SUBSET SeqId]
  BY CellsFields DEF Sound
<1>3. \A i \in Range(f) : [pos |-> c.pos[i], seq |-> c.seq[i]] \in OldCell
  BY <1>1, <1>2 DEF Sound, Shaped, IsEmpty, OldCell
<1>4. Copy(c, Range(f)) \in [Range(f) -> OldCell]
  BY <1>3 DEF Copy
<1> QED BY <1>1, <1>4

\* prepare() places a micro-batch and remembers what it overwrites.
LEMMA PlaceUbatchStep ==
  ASSUME IInv, PlaceUbatch
  PROVE  IInv'
<1> DEFINE ub == job.ubs[job.k]
           old == [g \in DOMAIN find_slot(ub) |->
                     Copy(cells[ub.strm[g]], Range(find_slot(ub)[g]))]
           p == [idxs |-> find_slot(ub), old |-> old, heads |-> heads]
<1>1. /\ pc = "prepare" /\ pc' = pc /\ Fits(ub)
      /\ job' = [job EXCEPT !.k = job.k + 1, !.placed = Append(job.placed, p)]
      /\ cells' = ApplyCells(ub, find_slot(ub)) /\ heads' = ApplyHeads(ub, find_slot(ub))
      /\ job.k <= Len(job.ubs)
  BY DEF PlaceUbatch
<1>2. /\ job \in Job /\ Admitted(job.ubs) /\ StreamsSound(cells) /\ heads \in Heads
      /\ job.placed \in Seq(Placement) /\ job.k = Len(job.placed) + 1
      /\ job.ubs \in Seq(Ubatch)
  BY <1>1 DEF IInv, JobOK, Job
<1>3. UbatchOK(ub) /\ job.k \in 1..Len(job.ubs)
  BY <1>1, <1>2, AdmittedEach
<1>4. SlotsFor(ub, find_slot(ub))
  BY <1>1, <1>3, FindSlot
<1>5. /\ StreamsSound(cells') /\ heads' \in Heads
      /\ \A st \in Stream : ShiftsKept(cells[st], cells'[st])
      /\ \A g \in DOMAIN ub.strm : \A i \in Range(find_slot(ub)[g]) :
            cells'[ub.strm[g]].shift[i] = 0
  <2>1. PICK b, f : b = ub /\ f = find_slot(ub)
    OBVIOUS
  <2>2. UbatchOK(b) /\ SlotsFor(b, f)
    BY <1>3, <1>4, <2>1
  <2>3. /\ StreamsSound(ApplyCells(b, f)) /\ ApplyHeads(b, f) \in Heads
        /\ \A st \in Stream : ShiftsKept(cells[st], ApplyCells(b, f)[st])
        /\ \A g \in DOMAIN b.strm : \A i \in Range(f[g]) :
              ApplyCells(b, f)[b.strm[g]].shift[i] = 0
    BY <1>2, <2>2, ApplySound, ZenonT(60)
  <2>4. cells' = ApplyCells(b, f) /\ heads' = ApplyHeads(b, f)
    BY <1>1, <2>1
  <2> HIDE DEF ub, p
  <2> QED BY <2>1, <2>3, <2>4
<1>6. PICK sinfo : sinfo = find_slot(ub)
  OBVIOUS
<1>7. PICK n \in Nat : n = Len(ub.strm) /\ DOMAIN ub.strm = 1..n
  BY <1>3 DEF UbatchOK, Ubatch
<1>8. sinfo \in Seq(Seq(Cell)) /\ Len(sinfo) = n
  BY <1>4, <1>6, <1>7 DEF SlotsFor
<1>9. ASSUME NEW g \in 1..n
      PROVE  /\ old[g] \in UNION {[D -> OldCell] : D \in SUBSET Cell}
             /\ DOMAIN old[g] = Range(sinfo[g])
  <2>1. ub.strm[g] \in Stream /\ sinfo[g] \in Seq(Cell)
    BY <1>3, <1>7, <1>8, GroupFields
  <2>2. Sound(cells[ub.strm[g]])
    BY <1>2, <2>1, SoundOf
  <2>3. old[g] = Copy(cells[ub.strm[g]], Range(sinfo[g]))
    BY <1>6, <1>8
  <2> QED BY <2>1, <2>2, <2>3, Remembered
<1>10. DOMAIN old = 1..n /\ old = [g \in 1..n |-> old[g]]
  BY <1>6, <1>8
<1>11. PICK o : o = old
  OBVIOUS
<1>12. /\ o \in Seq(UNION {[D -> OldCell] : D \in SUBSET Cell}) /\ Len(o) = n
       /\ \A g \in 1..n : DOMAIN o[g] = Range(sinfo[g])
  <2> HIDE DEF old
  <2>1. o \in [1..n -> UNION {[D -> OldCell] : D \in SUBSET Cell}]
    BY <1>9, <1>10, <1>11
  <2> QED BY <1>9, <1>11, <2>1
<1>13. p = [idxs |-> sinfo, old |-> o, heads |-> heads]
  BY <1>6, <1>11
<1> HIDE DEF old, p
<1>14. p \in Placement
  BY <1>2, <1>8, <1>12, <1>13 DEF Placement
<1>15. PlacedFor(p, ub)
  BY <1>4, <1>6, <1>7, <1>8, <1>12, <1>13 DEF PlacedFor, SlotsFor
<1>16. Settled(p, ub, cells')
  BY <1>5, <1>6, <1>13 DEF Settled
<1>17. /\ job' \in Job /\ job'.ubs = job.ubs /\ job'.ok = job.ok
       /\ job'.k = job.k + 1 /\ job'.placed = Append(job.placed, p)
  <2>1. PICK pl : pl = Append(job.placed, p)
    OBVIOUS
  <2>2. pl \in Seq(Placement) /\ job.k + 1 \in Nat
    BY <1>2, <1>14, <2>1 DEF Job
  <2> QED BY <1>1, <1>2, <2>1, <2>2 DEF Job
<1>18. /\ Len(job'.placed) = Len(job.placed) + 1
       /\ \A j \in DOMAIN job'.placed :
             \/ j \in DOMAIN job.placed /\ job'.placed[j] = job.placed[j]
             \/ j = job.k /\ job'.placed[j] = p
  BY <1>2, <1>17
<1>19. ASSUME NEW j \in DOMAIN job'.placed
       PROVE  /\ PlacedFor(job'.placed[j], job.ubs[j])
              /\ Settled(job'.placed[j], job.ubs[j], cells')
  <2>1. CASE j = job.k /\ job'.placed[j] = p
    BY <1>15, <1>16, <2>1
  <2>2. CASE j \in DOMAIN job.placed /\ job'.placed[j] = job.placed[j]
    <3>1. PICK q, b : q = job.placed[j] /\ b = job.ubs[j]
      OBVIOUS
    <3>2. PlacedFor(q, b) /\ Settled(q, b, cells)
      BY <1>1, <2>2, <3>1 DEF IInv, JobOK
    <3>3. UbatchOK(b) /\ q.idxs \in Seq(Seq(Cell))
      <4>1. q \in Placement
        BY <1>2, <2>2, <3>1
      <4>2. j \in 1..Len(job.ubs)
        BY <1>1, <1>2, <2>2
      <4> QED BY <1>2, <3>1, <4>1, <4>2, AdmittedEach DEF Placement
    <3>4. ASSUME NEW g \in DOMAIN b.strm, NEW i \in Range(q.idxs[g])
          PROVE  cells'[b.strm[g]].shift[i] = 0
      <4>1. b.strm[g] \in Stream /\ g \in 1..Len(b.strm)
        BY <3>3, GroupFields
      <4>2. q.idxs[g] \in Seq(Cell)
        BY <3>2, <3>3, <4>1 DEF PlacedFor
      <4>3. i \in Cell
        BY <4>2 DEF Range
      <4>4. cells[b.strm[g]].shift[i] = 0
        BY <3>2 DEF Settled
      <4> QED BY <1>5, <4>1, <4>3, <4>4 DEF ShiftsKept
    <3>5. Settled(q, b, cells')
      BY <3>4 DEF Settled
    <3> QED BY <2>2, <3>1, <3>2, <3>5
  <2> QED BY <1>18, <2>1, <2>2
<1>20. JobOK'
  BY <1>1, <1>2, <1>17, <1>18, <1>19 DEF JobOK
<1>21. SavedOK'
  BY DEF PlaceUbatch, IInv, SavedOK
<1> QED BY <1>1, <1>5, <1>20, <1>21 DEF PlaceUbatch, IInv

\* prepare() turns round: all it placed is remembered.
LEMMA StartRestoreStep ==
  ASSUME IInv, pc = "prepare", NEW ok \in BOOLEAN, StartRestore(ok),
         ok => job.k > Len(job.ubs)
  PROVE  IInv'
<1>1. /\ pc' = "restore" /\ cells' = cells
      /\ job' = [job EXCEPT !.ok = ok, !.k = Len(job.placed)]
  BY DEF StartRestore
<1>2. /\ job \in Job /\ Admitted(job.ubs) /\ job.k = Len(job.placed) + 1
      /\ Len(job.placed) \in Nat /\ Len(job.ubs) \in Nat
      /\ Len(job.placed) <= Len(job.ubs)
  BY DEF IInv, JobOK, Job
<1>3. /\ job' \in Job /\ job'.ubs = job.ubs /\ job'.placed = job.placed
      /\ job'.k = Len(job.placed) /\ job'.ok = ok
  BY <1>1, <1>2 DEF Job
<1>4. ok => Len(job.placed) = Len(job.ubs)
  BY <1>2
<1>5. JobOK'
  BY <1>1, <1>2, <1>3, <1>4 DEF IInv, JobOK
<1>6. SavedOK'
  BY DEF StartRestore, IInv, SavedOK
<1> QED BY <1>1, <1>5, <1>6 DEF StartRestore, IInv

\* Undoing one micro-batch: set() over cells with no pending shift.
LEMMA RestoreSound ==
  ASSUME IInv, pc = "restore", job.k > 0
  PROVE  /\ StreamsSound(RestoredCells) /\ RestoredHeads \in Heads
         /\ \A st \in Stream : RestoredCells[st].shift = cells[st].shift
<1>1. PICK ub, p, k : k = job.k /\ ub = job.ubs[k] /\ p = job.placed[k]
  OBVIOUS
<1>2. /\ Admitted(job.ubs) /\ StreamsSound(cells) /\ heads \in Heads
      /\ job.placed \in Seq(Placement) /\ k \in Nat /\ k > 0
      /\ k <= Len(job.placed) /\ Len(job.placed) <= Len(job.ubs)
      /\ job.ubs \in Seq(Ubatch)
  BY <1>1 DEF IInv, JobOK, Job
<1>3. k \in DOMAIN job.placed /\ k \in 1..Len(job.ubs)
  BY <1>2
<1>4. UbatchOK(ub) /\ p \in Placement
  BY <1>1, <1>2, <1>3, AdmittedEach
<1>5. PlacedFor(p, ub) /\ Settled(p, ub, cells)
  BY <1>1, <1>3 DEF IInv, JobOK
<1>6. ASSUME NEW g \in DOMAIN ub.strm
      PROVE  /\ Sound(Set(cells[ub.strm[g]], p.old[g]))
             /\ Set(cells[ub.strm[g]], p.old[g]).shift = cells[ub.strm[g]].shift
             /\ p.heads[g - 1] \in 0..NCells
  <2>1. g \in 1..Len(ub.strm) /\ ub.strm[g] \in Stream /\ Len(ub.strm) \in 1..NStream
    BY <1>4, GroupFields DEF UbatchOK
  <2>2. PICK D \in SUBSET Cell : p.old[g] \in [D -> OldCell]
    <3>1. PICK U : U = UNION {[D -> OldCell] : D \in SUBSET Cell}
      OBVIOUS
    <3>2. p.old \in Seq(U) /\ g \in 1..Len(p.old)
      BY <1>4, <1>5, <2>1, <3>1 DEF Placement, PlacedFor
    <3>3. p.old[g] \in U
      BY <3>2
    <3> QED BY <3>1, <3>3
  <2>3. /\ DOMAIN p.old[g] \subseteq Cell
        /\ \A i \in DOMAIN p.old[g] : /\ p.old[g][i].pos \in Pos \cup {-1}
                                      /\ p.old[g][i].seq \in SUBSET SeqId
                                      /\ p.old[g][i].pos = -1 <=> p.old[g][i].seq = {}
                                      /\ cells[ub.strm[g]].shift[i] = 0
    BY <1>5, <2>2 DEF OldCell, PlacedFor, Settled
  <2>4. Sound(cells[ub.strm[g]])
    BY <1>2, <2>1, SoundOf
  <2>5. p.heads \in [Stream -> 0..NCells] /\ g - 1 \in Stream
    BY <1>4, <2>1, SizesAssumption, ConfigAssumption DEF Placement, Heads, Stream
  <2> QED BY <2>3, <2>4, <2>5, SetSound
<1>7. ASSUME NEW st \in Stream
      PROVE  /\ Sound(RestoredCells[st]) /\ RestoredHeads[st] \in 0..NCells
             /\ RestoredCells[st].shift = cells[st].shift
  <2>1. CASE st \in Range(ub.strm)
    <3>1. PICK g \in DOMAIN ub.strm : g = GroupOf(ub, st) /\ ub.strm[g] = st
      BY <1>4, <2>1, GroupOfStream
    <3>2. /\ RestoredCells[st] = Set(cells[st], p.old[g])
          /\ RestoredHeads[st] = p.heads[g - 1]
      BY <1>1, <2>1, <3>1 DEF RestoredCells, RestoredHeads
    <3> QED BY <1>6, <3>1, <3>2
  <2>2. CASE st \notin Range(ub.strm)
    <3>1. RestoredCells[st] = cells[st] /\ RestoredHeads[st] = heads[st]
      BY <1>1, <2>2 DEF RestoredCells, RestoredHeads
    <3> QED BY <1>2, <3>1, SoundOf DEF Heads
  <2> QED BY <2>1, <2>2
<1>8. PICK C, H : C = RestoredCells /\ H = RestoredHeads
  OBVIOUS
<1>9. C = [st \in Stream |-> C[st]] /\ H = [st \in Stream |-> H[st]]
  BY <1>8 DEF RestoredCells, RestoredHeads
<1>10. StreamsSound(C) /\ H \in Heads
  BY <1>7, <1>8, <1>9 DEF StreamsSound, Sound, Heads
<1> QED BY <1>7, <1>8, <1>10

\* Undoing a micro-batch keeps the invariant.
LEMMA RestoreUbatchStep ==
  ASSUME IInv, RestoreUbatch
  PROVE  IInv'
<1>1. /\ pc = "restore" /\ pc' = pc /\ job.k > 0
      /\ job' = [job EXCEPT !.k = job.k - 1]
      /\ cells' = RestoredCells /\ heads' = RestoredHeads
  BY DEF RestoreUbatch
<1>2. /\ job \in Job /\ Admitted(job.ubs) /\ job.k \in Nat /\ job.k <= Len(job.placed)
      /\ job.placed \in Seq(Placement) /\ job.ubs \in Seq(Ubatch)
      /\ Len(job.placed) <= Len(job.ubs)
  BY <1>1 DEF IInv, JobOK, Job
<1>3. /\ StreamsSound(cells') /\ heads' \in Heads
      /\ \A st \in Stream : cells'[st].shift = cells[st].shift
  BY <1>1, RestoreSound
<1>4. /\ job' \in Job /\ job'.ubs = job.ubs /\ job'.placed = job.placed
      /\ job'.ok = job.ok /\ job'.k = job.k - 1 /\ job.k - 1 <= Len(job.placed)
  BY <1>1, <1>2 DEF Job
<1>5. ASSUME NEW j \in DOMAIN job.placed
      PROVE  /\ PlacedFor(job.placed[j], job.ubs[j])
             /\ Settled(job.placed[j], job.ubs[j], cells')
  <2>1. PICK q, b : q = job.placed[j] /\ b = job.ubs[j]
    OBVIOUS
  <2>2. PlacedFor(q, b) /\ Settled(q, b, cells)
    BY <1>1, <2>1 DEF IInv, JobOK
  <2>3. UbatchOK(b)
    BY <1>2, <2>1, AdmittedEach
  <2>4. \A g \in DOMAIN b.strm : b.strm[g] \in Stream
    BY <2>3, GroupFields
  <2>5. Settled(q, b, cells')
    BY <1>3, <2>2, <2>4 DEF Settled
  <2> QED BY <2>1, <2>2, <2>5
<1>6. JobOK'
  <2>1. job.ok => Len(job.placed) = Len(job.ubs)
    BY <1>1 DEF IInv, JobOK
  <2> QED BY <1>1, <1>2, <1>4, <1>5, <2>1 DEF JobOK
<1>7. SavedOK'
  BY DEF RestoreUbatch, IInv, SavedOK
<1> QED BY <1>1, <1>3, <1>6, <1>7 DEF RestoreUbatch, IInv

\* The job between two decodes is well formed.
LEMMA NoJobOK ==
  ASSUME pc' = "idle", job' = NoJob
  PROVE  JobOK'
<1>1. <<>> \in Before
  BY DEF Before
<1> QED BY <1>1 DEF JobOK, Job, NoJob

\* prepare() returns with a slot for each micro-batch, or gives up.
LEMMA EndPrepareStep ==
  ASSUME IInv, EndPrepare
  PROVE  IInv'
<1>1. /\ pc = "restore" /\ cells' = cells
      /\ job \in Job /\ Admitted(job.ubs)
      /\ \A j \in DOMAIN job.placed : PlacedFor(job.placed[j], job.ubs[j])
      /\ job.ok => Len(job.placed) = Len(job.ubs)
  BY DEF EndPrepare, IInv, JobOK
<1>2. CASE job.ok /\ pc' = "compute" /\ job' = [job EXCEPT !.k = 1]
  <2>2. job' \in Job /\ job'.ubs = job.ubs /\ job'.placed = job.placed /\ job'.k = 1
    BY <1>1, <1>2 DEF Job
  <2>3. 1 \in 1..Len(job.ubs) /\ Len(job.ubs) \in Nat
    BY <1>1 DEF Admitted
  <2> QED BY <1>1, <1>2, <2>2, <2>3 DEF JobOK, EndPrepare, IInv, SavedOK
<1>3. CASE pc' = "update" /\ job' = [job EXCEPT !.retried = TRUE]
  <2>1. job' \in Job /\ job'.ubs = job.ubs
    BY <1>1, <1>3 DEF Job
  <2> QED BY <1>1, <1>3, <2>1 DEF JobOK, EndPrepare, IInv, SavedOK
<1>4. CASE pc' = "idle" /\ job' = NoJob
  BY <1>4, NoJobOK DEF EndPrepare, IInv, SavedOK
<1> QED BY <1>2, <1>3, <1>4 DEF EndPrepare

\* The micro-batch about to be computed, and the slot prepare() found for it.
LEMMA ComputeSound ==
  ASSUME IInv, pc = "compute"
  PROVE  LET ub == job.ubs[job.k]
             sinfo == job.placed[job.k].idxs
         IN  /\ StreamsSound(ApplyCells(ub, sinfo))
             /\ ApplyHeads(ub, sinfo) \in Heads
<1>1. PICK ub, p : ub = job.ubs[job.k] /\ p = job.placed[job.k]
  OBVIOUS
<1>2. /\ Admitted(job.ubs) /\ StreamsSound(cells) /\ heads \in Heads
      /\ job.placed \in Seq(Placement) /\ job.k \in 1..Len(job.ubs)
      /\ Len(job.placed) = Len(job.ubs)
  BY DEF IInv, JobOK, Job
<1>3. UbatchOK(ub)
  BY <1>1, <1>2, AdmittedEach
<1>4. p \in Placement /\ PlacedFor(p, ub)
  BY <1>1, <1>2 DEF IInv, JobOK
<1>5. SlotsFor(ub, p.idxs)
  BY <1>4 DEF SlotsFor, PlacedFor, Placement
<1> QED BY <1>1, <1>2, <1>3, <1>5, ApplySound

\* A computed micro-batch keeps the invariant.
LEMMA ComputeUbatchStep ==
  ASSUME IInv, ComputeUbatch
  PROVE  IInv'
<1>1. pc = "compute" /\ StreamsSound(cells') /\ heads' \in Heads
  BY ComputeSound DEF ComputeUbatch
<1>2. SavedOK'
  BY DEF ComputeUbatch, IInv, SavedOK
<1>3. CASE job.k < Len(job.ubs) /\ pc' = pc /\ job' = [job EXCEPT !.k = job.k + 1]
  <2>1. job \in Job /\ job.k \in 1..Len(job.ubs) /\ job.ubs \in Seq(Ubatch)
    BY <1>1 DEF IInv, JobOK, Job
  <2>2. /\ job' \in Job /\ job'.ubs = job.ubs /\ job'.placed = job.placed
        /\ job'.k \in 1..Len(job.ubs)
    BY <1>3, <2>1 DEF Job
  <2>3. JobOK'
    BY <1>1, <1>3, <2>2 DEF IInv, JobOK
  <2> QED BY <1>1, <1>2, <1>3, <2>3 DEF ComputeUbatch, IInv
<1>4. CASE pc' = "idle" /\ job' = NoJob
  BY <1>1, <1>2, <1>4, NoJobOK DEF ComputeUbatch, IInv
<1> QED BY <1>3, <1>4 DEF ComputeUbatch

\* A failed graph: the positions of the micro-batch are taken out again.
LEMMA ComputeFailsStep ==
  ASSUME IInv, ComputeFails
  PROVE  IInv'
<1>1. PICK ub, sinfo : ub = job.ubs[job.k] /\ sinfo = job.placed[job.k].idxs
  OBVIOUS
<1>2. PICK A, H : A = ApplyCells(ub, sinfo) /\ H = ApplyHeads(ub, sinfo)
  OBVIOUS
<1> DEFINE D(st) == [i \in Cell |-> {s \in A[st].seq[i] :
                        /\ seq_to_stream(s) = st
                        /\ FirstPos(ub, s) # {}
                        /\ A[st].pos[i] >= Min(FirstPos(ub, s))}]
           F(st) == SeqRm(A[st], D(st))
           G(st) == FreedHead(A[st], cells'[st], H[st])
<1>3. StreamsSound(A) /\ H \in Heads
  BY <1>1, <1>2, ComputeSound DEF ComputeFails
<1>4. /\ cells' = [st \in Stream |-> F(st)] /\ heads' = [st \in Stream |-> G(st)]
      /\ pc' = "idle" /\ job' = NoJob /\ sc' = sc /\ saved' = saved
  BY <1>1, <1>2 DEF ComputeFails
<1>5. \A st \in Stream : \A i \in Cell : D(st)[i] \subseteq A[st].seq[i]
  OBVIOUS
<1> HIDE DEF D
<1>6. ASSUME NEW st \in Stream
      PROVE  Sound(F(st)) /\ G(st) \in 0..NCells
  <2>1. Sound(A[st]) /\ H[st] \in 0..NCells
    BY <1>3, SoundOf DEF Heads
  <2> QED BY <1>5, <2>1, SeqRmSound, FreedHeadType
<1> HIDE DEF F, G
<1>7. StreamsSound(cells')
  BY <1>4, <1>6 DEF StreamsSound, Sound
<1>8. heads' \in Heads
  BY <1>4, <1>6 DEF Heads
<1>9. JobOK' /\ SavedOK'
  BY <1>4, NoJobOK DEF IInv, SavedOK
<1> QED BY <1>4, <1>7, <1>8, <1>9 DEF IInv

-----------------------------------------------------------------------------
(* The theorems *)

\* No step of the cache or of a decode leaves the inductive invariant.
LEMMA StepInv ==
  ASSUME CallerCleans, IInv, [Next]_vars
  PROVE  IInv'
<1>1. CASE \E data \in BOOLEAN : Clear(data)
  BY <1>1, ClearStep
<1>2. CASE \E s \in SeqId, r \in Ranges : seq_rm(s, r[1], r[2])
  BY <1>2, SeqRmStep
<1>3. CASE \E r \in Ranges : seq_rm_any(r[1], r[2])
  BY <1>3, SeqRmAnyStep
<1>4. CASE \E s, t \in SeqId, r \in Ranges : seq_cp(s, t, r[1], r[2])
  BY <1>4, SeqCpStep
<1>5. CASE \E s, t \in SeqId : seq_cp_stream(s, t)
  BY <1>5, SeqCpStreamStep
<1>6. CASE \E s \in SeqId : seq_keep(s)
  BY <1>6, SeqKeepStep
<1>7. CASE \E s \in SeqId, r \in Ranges, d \in Deltas : seq_add(s, r[1], r[2], d)
  BY <1>7, SeqAddStep
<1>8. CASE \E s \in SeqId, r \in Ranges, d \in Divs : seq_div(s, r[1], r[2], d)
  BY <1>8, SeqDivStep
<1>9. CASE \E s \in SeqId : state_write(s)
  BY <1>9, StateWriteStep
<1>10. CASE \E s \in SeqId : state_read(s)
  BY <1>10, StateReadStep
<1>11. CASE Decode
  BY <1>11, DecodeStep
<1>12. CASE CopyStream
  BY <1>12, CopyStreamStep
<1>13. CASE KShift \/ KShiftFails \/ NoUpdate
  BY <1>13, UpdateStep
<1>14. CASE PlaceUbatch
  BY <1>14, PlaceUbatchStep
<1>15. CASE AllPlaced \/ NoSlot
  BY <1>15, StartRestoreStep DEF AllPlaced, NoSlot
<1>16. CASE RestoreUbatch
  BY <1>16, RestoreUbatchStep
<1>17. CASE EndPrepare
  BY <1>17, EndPrepareStep
<1>18. CASE ComputeUbatch
  BY <1>18, ComputeUbatchStep
<1>19. CASE ComputeFails
  BY <1>19, ComputeFailsStep
<1>20. CASE UNCHANGED vars
  BY <1>20 DEF vars, IInv, JobOK, SavedOK
<1> QED
  BY <1>1, <1>2, <1>3, <1>4, <1>5, <1>6, <1>7, <1>8, <1>9, <1>10, <1>11, <1>12, <1>13,
     <1>14, <1>15, <1>16, <1>17, <1>18, <1>19, <1>20 DEF Next

\* The inductive invariant contains the three properties.
LEMMA InvProperties == IInv => TypeOK /\ IndexExact /\ ShiftAnnounced
  BY DEF IInv, Heads, StreamsSound, Sound, TypeOK, IndexExact, ShiftAnnounced

\* Whatever order the caller, the K-shift, the rehearsal and failing graphs
\* come in, the metadata stays well typed: no head beyond the last cell.
THEOREM TypeCorrect ==
  ASSUME CallerCleans
  PROVE  Spec => []TypeOK
<1>1. IInv /\ [Next]_vars => IInv'
  BY StepInv
<1>2. IInv => TypeOK
  BY InvProperties
<1> QED BY <1>1, <1>2, InitInv, PTL DEF Spec

\* The indexes used and seq_pos mirror the cells in every reachable state, if
\* the caller of seq_cp empties the target first.
THEOREM IndexesExact ==
  ASSUME CallerCleans
  PROVE  Spec => []IndexExact
<1>1. IInv /\ [Next]_vars => IInv'
  BY StepInv
<1>2. IInv => IndexExact
  BY InvProperties
<1> QED BY <1>1, <1>2, InitInv, PTL DEF Spec

\* No pending shift is ever hidden from update(), and no empty cell has one.
THEOREM ShiftsAnnounced ==
  ASSUME CallerCleans
  PROVE  Spec => []ShiftAnnounced
<1>1. IInv /\ [Next]_vars => IInv'
  BY StepInv
<1>2. IInv => ShiftAnnounced
  BY InvProperties
<1> QED BY <1>1, <1>2, InitInv, PTL DEF Spec

-----------------------------------------------------------------------------
(***************************************************************************)
(* Every non-empty cell holds the row of its own token, roped at its       *)
(* position up to the pending shift, for every number of cells, sequences  *)
(* and streams, every window and every batch.                              *)
(*                                                                         *)
(* The argument follows a row through the phases of a decode.  Before it,  *)
(* queued stream copies still have to bring rows to their streams: Routes  *)
(* says where the row of a stream is now.  In prepare() the cells of the   *)
(* slots are overwritten while their rows stay, so the invariant is about  *)
(* what the first placement on a cell remembers of it (Rehearsed).         *)
(* RowsSafe names the uses of the cache under which this holds.            *)
(***************************************************************************)


\* seq_cp gets an empty target; positions are not divided; a graph does not fail
\* on coupled sequences; the K-shift does not fail where cells with a position
\* are reused; sequences are restored only where no shift and no stream copy can
\* be pending.
RowsSafe ==
    /\ CallerCleans
    /\ Divs = {}
    /\ "compute" \in Faults => ~SharedBatch
    /\ "shift" \in Faults => SwaType = "none"
    /\ "read" \in Ops => Deltas = {} /\ NStream = 1

RowType == [tok : Int, rot : Int]
RowsOf  == [Stream -> [Cell -> RowType]]
WantOf  == [Stream -> [Cell -> Int]]

\* the row r of a cell is that of its token w, at its position less its shift
Holds(c, r, w, i) ==
    ~IsEmpty(c, i) => r[i].tok = w[i] /\ r[i].rot + c.shift[i] = c.pos[i]

AllHold(cs, r, w) == \A st \in Stream : \A i \in Cell : Holds(cs[st], r[st], w[st], i)

\* d has some of the cells of c, each with its position and its shift
Within(c, d) ==
    \A i \in Cell : ~IsEmpty(d, i) =>
        /\ ~IsEmpty(c, i)
        /\ d.pos[i] = c.pos[i] /\ d.shift[i] = c.shift[i]

-----------------------------------------------------------------------------
(* What the operations on cells leave of positions and shifts *)

\* Emptied cells are gone, the others are as they were.
LEMMA RmWithin ==
  ASSUME NEW c, Sound(c), NEW I
  PROVE  /\ Within(c, Rm(c, I))
         /\ \A i \in Cell : /\ IsEmpty(Rm(c, I), i) <=> i \in I \/ IsEmpty(c, i)
                            /\ i \notin I => Rm(c, I).pos[i] = c.pos[i]
<1>1. PICK m : m = SeqPosDec(c, SeqsOf(c, I))
  OBVIOUS
<1>2. Recounted(c, m, DecCount(c, SeqsOf(c, I)))
  BY <1>1, DecFields DEF Sound
<1>3. Vacated(m, Rm(c, I), I)
  BY <1>1, <1>2, VacateFields DEF Recounted, Rm
<1> QED BY <1>2, <1>3 DEF Recounted, Vacated, Within, IsEmpty

\* A cell that loses sequences keeps its position, or becomes empty when it
\* loses the last one.
LEMMA SeqRmWithin ==
  ASSUME NEW c, Sound(c), NEW D
  PROVE  /\ Within(c, SeqRm(c, D))
         /\ \A i \in Cell : c.seq[i] \subseteq D[i] => IsEmpty(SeqRm(c, D), i)
<1>1. PICK seq2 : seq2 = [i \in Cell |-> c.seq[i] \ D[i]]
  OBVIOUS
<1>2. PICK m : m = SeqPosDec(c, D)
  OBVIOUS
<1>3. PICK e : e = [m EXCEPT !.seq = seq2]
  OBVIOUS
<1>4. PICK gone : gone = {i \in Cell : D[i] # {} /\ e.seq[i] = {}}
  OBVIOUS
<1>5. Recounted(c, m, DecCount(c, D))
  BY <1>2, DecFields DEF Sound
<1>6. seq2 \in [Cell -> SUBSET SeqId]
  BY <1>1, CellsFields DEF Sound
<1>7. Edited(m, e, m.pos, m.shift, seq2, m.used, m.hasShift)
  BY <1>3, <1>5, <1>6 DEF Recounted, Edited, CellsType
<1>8. SeqRm(c, D) = Vacate(e, gone)
  BY <1>1, <1>2, <1>3, <1>4 DEF SeqRm
<1>9. Vacated(e, SeqRm(c, D), gone)
  BY <1>7, <1>8, VacateFields DEF Edited
<1>10. \A i \in Cell : c.seq[i] \subseteq D[i] => i \in gone \/ c.seq[i] = {}
  BY <1>1, <1>4, <1>7 DEF Edited
<1>11. \A i \in Cell : c.seq[i] = {} => c.pos[i] = -1
  BY DEF Sound, Shaped, IsEmpty
<1> QED BY <1>5, <1>7, <1>9, <1>10, <1>11 DEF Recounted, Edited, Vacated, Within, IsEmpty

\* So with the cells of one sequence kept.
LEMMA SeqKeepWithin ==
  ASSUME NEW c, Sound(c), NEW s \in SeqId
  PROVE  Within(c, SeqKeep(c, s))
<1>1. PICK kept : kept = SeqHas(c, s)
  OBVIOUS
<1>2. PICK gone : gone = {i \in Cell : c.seq[i] # {}} \ kept
  OBVIOUS
<1>3. PICK m : m = SeqPosDec(c, c.seq)
  OBVIOUS
<1>4. PICK seq2 : seq2 = [i \in Cell |-> IF i \in kept THEN {s} ELSE m.seq[i]]
  OBVIOUS
<1>5. PICK e : e = [m EXCEPT !.seq = seq2]
  OBVIOUS
<1>6. PICK v : v = Vacate(e, gone)
  OBVIOUS
<1>7. Recounted(c, m, DecCount(c, c.seq))
  BY <1>3, DecFields DEF Sound
<1>8. seq2 \in [Cell -> SUBSET SeqId]
  BY <1>4, <1>7, CellsFields DEF Recounted
<1>9. Edited(m, e, m.pos, m.shift, seq2, m.used, m.hasShift)
  BY <1>5, <1>7, <1>8 DEF Recounted, Edited, CellsType
<1>10. Vacated(e, v, gone)
  BY <1>6, <1>9, VacateFields DEF Edited
<1>11. SeqKeep(c, s) = SeqPosInc(v, Only(kept, s))
  BY <1>1, <1>2, <1>3, <1>4, <1>5, <1>6 DEF SeqKeep
<1>12. Recounted(v, SeqKeep(c, s), IncCount(v, Only(kept, s)))
  BY <1>10, <1>11, IncFields DEF Vacated
<1> QED BY <1>7, <1>9, <1>10, <1>12 DEF Recounted, Edited, Vacated, Within, IsEmpty

\* So with a sequence added to cells.
LEMMA SeqAddWithin ==
  ASSUME NEW c, Sound(c), NEW I, NEW s \in SeqId
  PROVE  Within(c, SeqAdd(c, I, s))
<1>1. PICK seq2 : seq2 = [i \in Cell |-> IF i \in I THEN c.seq[i] \cup {s} ELSE c.seq[i]]
  OBVIOUS
<1>2. PICK e : e = [c EXCEPT !.seq = seq2]
  OBVIOUS
<1>3. seq2 \in [Cell -> SUBSET SeqId]
  BY <1>1, CellsFields DEF Sound
<1>4. Edited(c, e, c.pos, c.shift, seq2, c.used, c.hasShift)
  BY <1>2, <1>3 DEF Edited, Sound, CellsType
<1>5. SeqAdd(c, I, s) = SeqPosInc(e, Only(I, s))
  BY <1>1, <1>2 DEF SeqAdd
<1>6. Recounted(e, SeqAdd(c, I, s), IncCount(e, Only(I, s)))
  BY <1>4, <1>5, IncFields DEF Edited
<1> QED BY <1>4, <1>6 DEF Edited, Recounted, Within, IsEmpty

\* pos_add moves the position and the pending shift of a cell by the same
\* amount, unless the position becomes negative.
LEMMA PosAddMoves ==
  ASSUME NEW c, Sound(c), NEW I \in SUBSET Cell, NEW delta \in [Cell -> Int],
         \A i \in I : ~IsEmpty(c, i) /\ c.pos[i] + delta[i] <= MaxPos
  PROVE  \A i \in Cell : ~IsEmpty(PosAdd(c, I, delta), i) =>
            /\ ~IsEmpty(c, i)
            /\ PosAdd(c, I, delta).pos[i]   = c.pos[i]   + (IF i \in I THEN delta[i] ELSE 0)
            /\ PosAdd(c, I, delta).shift[i] = c.shift[i] + (IF i \in I THEN delta[i] ELSE 0)
<1>1. PICK m : m = SeqPosDec(c, SeqsOf(c, I))
  OBVIOUS
<1>2. PICK pos2 : pos2 = [i \in Cell |-> IF i \in I THEN c.pos[i] + delta[i] ELSE c.pos[i]]
  OBVIOUS
<1>3. PICK shift2 : shift2 = [i \in Cell |-> IF i \in I THEN c.shift[i] + delta[i] ELSE c.shift[i]]
  OBVIOUS
<1>4. PICK flag : flag = (c.hasShift \/ I # {})
  OBVIOUS
<1>5. PICK e : e = [m EXCEPT !.pos = pos2, !.shift = shift2, !.hasShift = flag]
  OBVIOUS
<1>6. PICK gone : gone = {i \in I : e.pos[i] < 0}
  OBVIOUS
<1>7. PICK v : v = Vacate(e, gone)
  OBVIOUS
<1>8. PICK d : d = PosAdd(c, I, delta)
  OBVIOUS
<1>9. d = SeqPosInc(v, SeqsOf(c, I \ gone))
  BY <1>1, <1>2, <1>3, <1>4, <1>5, <1>6, <1>7, <1>8 DEF PosAdd
<1>10. Recounted(c, m, DecCount(c, SeqsOf(c, I)))
  BY <1>1, DecFields DEF Sound
<1>11. \A i \in Cell : /\ c.pos[i] \in Int /\ c.shift[i] \in Int /\ delta[i] \in Int
                       /\ c.pos[i] \in Pos \cup {-1}
  <2>1. c.pos \in [Cell -> Pos \cup {-1}] /\ c.shift \in [Cell -> Int]
    BY CellsFields DEF Sound
  <2> QED BY <2>1 DEF Pos
<1>12. pos2 \in [Cell -> Int] /\ shift2 \in [Cell -> Int] /\ flag \in BOOLEAN
  <2>1. \A i \in Cell : c.pos[i] + delta[i] \in Int /\ c.shift[i] + delta[i] \in Int
    BY <1>11
  <2>2. c.hasShift \in BOOLEAN
    BY CellsFields DEF Sound
  <2> QED BY <1>2, <1>3, <1>4, <1>11, <2>1, <2>2
<1>13. /\ e \in LooseType
       /\ e.pos = pos2 /\ e.shift = shift2
  BY <1>5, <1>10, <1>12 DEF Recounted, CellsType, LooseType
<1>14. \A i \in Cell : i \in gone \/ pos2[i] \in Pos \cup {-1}
  BY <1>2, <1>6, <1>11, <1>12, <1>13, SizesAssumption DEF Pos
<1>15. Vacated(e, v, gone)
  BY <1>7, <1>13, <1>14, VacateLoose
<1>16. Recounted(v, d, IncCount(v, SeqsOf(c, I \ gone)))
  BY <1>9, <1>15, IncFields DEF Vacated
<1>17. \A i \in Cell : /\ d.pos[i]   = IF i \in gone THEN -1 ELSE pos2[i]
                       /\ d.shift[i] = IF i \in gone THEN 0 ELSE shift2[i]
  BY <1>13, <1>15, <1>16 DEF Recounted, Vacated
<1>18. \A i \in Cell : /\ pos2[i]   = c.pos[i]   + (IF i \in I THEN delta[i] ELSE 0)
                       /\ shift2[i] = c.shift[i] + (IF i \in I THEN delta[i] ELSE 0)
  BY <1>2, <1>3, <1>11
<1> QED BY <1>2, <1>8, <1>17, <1>18 DEF IsEmpty

\* What set() makes of the cells: the remembered ones on its slot.
LEMMA SetFields ==
  ASSUME NEW c, Sound(c), NEW old, DOMAIN old \subseteq Cell,
         \A i \in DOMAIN old : old[i].pos \in Pos \cup {-1} /\ old[i].seq \in SUBSET SeqId
  PROVE  /\ Set(c, old).hasShift = c.hasShift
         /\ \A i \in Cell :
               /\ Set(c, old).shift[i] = c.shift[i]
               /\ Set(c, old).pos[i] = IF i \in DOMAIN old THEN old[i].pos ELSE c.pos[i]
               /\ Set(c, old).seq[i] = IF i \in DOMAIN old THEN old[i].seq ELSE c.seq[i]
<1>1. PICK I : I = DOMAIN old
  OBVIOUS
<1>2. PICK D : D = SeqsOf(c, {i \in I : c.pos[i] # -1})
  OBVIOUS
<1>3. PICK m : m = SeqPosDec(c, D)
  OBVIOUS
<1>4. PICK pos2 : pos2 = [i \in Cell |-> IF i \in I THEN old[i].pos ELSE c.pos[i]]
  OBVIOUS
<1>5. PICK seq2 : seq2 = [i \in Cell |-> IF i \in I THEN old[i].seq ELSE c.seq[i]]
  OBVIOUS
<1>6. PICK used2 : used2 = (c.used \ {i \in I : c.pos[i] # -1 /\ old[i].pos = -1})
                              \cup {i \in I : c.pos[i] = -1 /\ old[i].pos # -1}
  OBVIOUS
<1>7. PICK e : e = [m EXCEPT !.pos = pos2, !.seq = seq2, !.used = used2]
  OBVIOUS
<1>8. PICK A : A = SeqsOf(e, {i \in I : old[i].pos # -1})
  OBVIOUS
<1>9. Set(c, old) = SeqPosInc(e, A)
  BY <1>1, <1>2, <1>3, <1>4, <1>5, <1>6, <1>7, <1>8 DEF Set
<1>10. /\ Recounted(c, m, DecCount(c, D))
       /\ pos2 \in [Cell -> Pos \cup {-1}] /\ seq2 \in [Cell -> SUBSET SeqId]
       /\ used2 \in SUBSET Cell
  BY <1>1, <1>3, <1>4, <1>5, <1>6, DecFields, CellsFields DEF Sound
<1>11. Edited(m, e, pos2, m.shift, seq2, used2, m.hasShift)
  BY <1>7, <1>10 DEF Recounted, Edited, CellsType
<1>12. Recounted(e, Set(c, old), IncCount(e, A))
  BY <1>9, <1>11, IncFields DEF Edited
<1> QED BY <1>1, <1>4, <1>5, <1>10, <1>11, <1>12 DEF Recounted, Edited

\* the token apply_ubatch puts into cell i of the slot f
TokAt(f, toks, i) == toks[CHOOSE a \in DOMAIN f : f[a] = i]

\* Each cell of a slot gets a token of the micro-batch.
LEMMA TokAtType ==
  ASSUME NEW f \in Seq(Cell), NEW toks \in Seq(Token), Len(toks) = Len(f), NEW i \in Range(f)
  PROVE  /\ i \in Cell /\ TokAt(f, toks, i) \in Token
         /\ TokAt(f, toks, i) \in Range(toks)
<1> DEFINE b == CHOOSE a \in DOMAIN f : f[a] = i
<1>1. b \in DOMAIN f /\ f[b] = i
  BY DEF Range
<1>2. b \in DOMAIN toks
  BY <1>1
<1>3. TokAt(f, toks, i) = toks[b]
  BY DEF TokAt
<1>4. f[b] \in Cell /\ toks[b] \in Token
  BY <1>1, <1>2
<1> HIDE DEF b
<1>5. toks[b] \in Range(toks)
  BY <1>2 DEF Range
<1> QED BY <1>1, <1>3, <1>4, <1>5

\* A micro-batch applied to its slot: the cells of the slot get the positions
\* of its tokens and no shift, of the others some become empty.
LEMMA ApplyGroupMoves ==
  ASSUME NEW c, Sound(c), NEW f \in Seq(Cell), NEW toks \in Seq(Token), Len(toks) = Len(f)
  PROVE  \A i \in Cell : ~IsEmpty(ApplyGroup(c, f, toks), i) =>
            IF i \in Range(f)
            THEN /\ ApplyGroup(c, f, toks).pos[i] = TokAt(f, toks, i).pos
                 /\ ApplyGroup(c, f, toks).shift[i] = 0
            ELSE /\ ~IsEmpty(c, i)
                 /\ ApplyGroup(c, f, toks).pos[i] = c.pos[i]
                 /\ ApplyGroup(c, f, toks).shift[i] = c.shift[i]
<1>0. PICK over : over = {i \in Range(f) : ~IsEmpty(c, i)}
  OBVIOUS
<1>1. PICK at : at = [i \in Range(f) |-> TokAt(f, toks, i)]
  OBVIOUS
<1>2. PICK r : r = Rm(c, over)
  OBVIOUS
<1>3. PICK d : d = Emplace(r, at)
  OBVIOUS
<1>4. PICK purge : purge = [i \in Cell |-> {s \in d.seq[i] :
                      \E j \in {k \in over : s \in c.seq[k]} : d.pos[i] <= c.pos[j]}]
  OBVIOUS
<1>5. PICK A : A = ApplyGroup(c, f, toks)
  OBVIOUS
<1>6. A = SeqRm(d, purge)
  BY <1>0, <1>1, <1>2, <1>3, <1>4, <1>5 DEF ApplyGroup, TokAt
<1>7. Range(f) \subseteq Cell /\ over \in SUBSET Cell
  BY <1>0 DEF Range
<1>8. Sound(r) /\ Within(c, r) /\ \A i \in Range(f) : IsEmpty(r, i)
  BY <1>0, <1>2, <1>7, RmSound, RmWithin
<1>9. \A i \in Range(f) : at[i] \in Token
  BY <1>1, TokAtType
<1>10. /\ Sound(d) /\ d.shift = r.shift
       /\ \A i \in Cell : d.pos[i] = IF i \in Range(f) THEN at[i].pos ELSE r.pos[i]
  <2>1. DOMAIN at \subseteq Cell /\ DOMAIN at = Range(f)
    BY <1>1, <1>7
  <2>2. \A i \in DOMAIN at : /\ IsEmpty(r, i) /\ at[i].pos \in Pos
                             /\ at[i].seq \in SUBSET SeqId /\ at[i].seq # {}
    BY <1>8, <1>9, <2>1 DEF Token
  <2> QED BY <1>3, <1>8, <2>1, <2>2, EmplaceSound
<1>11. Within(d, A)
  BY <1>6, <1>10, SeqRmWithin
<1>12. \A i \in Range(f) : r.shift[i] = 0
  BY <1>7, <1>8 DEF Sound, Shaped
<1>13. \A i \in Cell : ~IsEmpty(A, i) =>
         /\ A.pos[i] = IF i \in Range(f) THEN TokAt(f, toks, i).pos ELSE r.pos[i]
         /\ A.shift[i] = r.shift[i]
         /\ i \notin Range(f) => ~IsEmpty(r, i)
  BY <1>1, <1>10, <1>11 DEF Within, IsEmpty
<1> QED BY <1>5, <1>8, <1>12, <1>13 DEF Within

-----------------------------------------------------------------------------
(* Tokens and their rows *)

\* A nonempty set of natural numbers has a smallest member.
LEMMA MinNat ==
  ASSUME NEW T \in SUBSET Nat, T # {}
  PROVE  Min(T) \in T /\ \A y \in T : Min(T) <= y
<1> DEFINE R == OpToRel(<, Nat)
<1>1. IsWellFoundedOn(R, Nat)
  BY NatLessThanWellFounded
<1> HIDE DEF R
<1>2. PICK x \in T : \A y \in T : <<y, x>> \notin R
  BY <1>1, WFMin
<1>3. \A y \in T : ~(y < x)
  BY <1>2 DEF R, OpToRel
<1>4. \A y \in T : x =< y
  BY <1>3
<1> QED BY <1>4 DEF Min

\* A token is named by one of its sequences, and its row is roped at its position.
LEMMA TokenRow ==
  ASSUME NEW t \in Token
  PROVE  /\ TokOf(t) \in t.seq /\ TokOf(t) \in Int /\ RowOf(t) \in RowType
         /\ RowOf(t).tok = TokOf(t) /\ RowOf(t).rot = t.pos
<1>0. SeqId \subseteq Nat /\ Pos \subseteq Int
  BY SizesAssumption DEF SeqId, Pos
<1>1. t.seq \in SUBSET Nat /\ t.seq # {} /\ t.pos \in Int
  BY <1>0 DEF Token
<1>2. TokOf(t) \in t.seq /\ TokOf(t) \in Int
  BY <1>1, MinNat DEF TokOf
<1> QED BY <1>1, <1>2 DEF RowOf, RowType

-----------------------------------------------------------------------------
(* A micro-batch on all streams *)

\* cell i of stream st is in the slot of the micro-batch, and the token it gets
InSlot(ub, sinfo, st, i) ==
    \E g \in DOMAIN ub.strm : ub.strm[g] = st /\ i \in Range(sinfo[g])

PutAt(ub, sinfo, st, i) == TokAt(sinfo[GroupOf(ub, st)], ub.toks[GroupOf(ub, st)], i)

\* A cell is in the slot if it is among the cells of the group of its stream.
LEMMA SlotGroup ==
  ASSUME NEW ub, UbatchOK(ub), NEW sinfo, SlotsFor(ub, sinfo), NEW st \in Stream, NEW i
  PROVE  /\ InSlot(ub, sinfo, st, i)
               <=> st \in Range(ub.strm) /\ i \in Range(sinfo[GroupOf(ub, st)])
         /\ st \in Range(ub.strm) => /\ GroupOf(ub, st) \in DOMAIN ub.strm
                                     /\ ub.strm[GroupOf(ub, st)] = st
                                     /\ sinfo[GroupOf(ub, st)] \in Seq(Cell)
                                     /\ ub.toks[GroupOf(ub, st)] \in Seq(Token)
                                     /\ Len(ub.toks[GroupOf(ub, st)])
                                          = Len(sinfo[GroupOf(ub, st)])
<1>1. ASSUME NEW g \in DOMAIN ub.strm, ub.strm[g] = st
      PROVE  st \in Range(ub.strm) /\ GroupOf(ub, st) = g
  BY <1>1, GroupFields DEF Range
<1>2. ASSUME NEW g \in DOMAIN ub.strm
      PROVE  /\ sinfo[g] \in Seq(Cell) /\ ub.toks[g] \in Seq(Token)
             /\ Len(ub.toks[g]) = Len(sinfo[g])
  BY GroupFields DEF SlotsFor
<1>3. st \in Range(ub.strm) => /\ GroupOf(ub, st) \in DOMAIN ub.strm
                               /\ ub.strm[GroupOf(ub, st)] = st
  BY GroupOfStream
<1> QED BY <1>1, <1>2, <1>3 DEF InSlot

\* The cells of a slot get the tokens of the micro-batch.
LEMMA PutAtType ==
  ASSUME NEW ub, UbatchOK(ub), NEW sinfo, SlotsFor(ub, sinfo), NEW st \in Stream, NEW i,
         InSlot(ub, sinfo, st, i)
  PROVE  /\ PutAt(ub, sinfo, st, i) \in Token
         /\ \E g \in DOMAIN ub.toks : /\ ub.strm[g] = st /\ g \in DOMAIN ub.strm
                                      /\ PutAt(ub, sinfo, st, i) \in Range(ub.toks[g])
<1>1. PICK g : g = GroupOf(ub, st)
  OBVIOUS
<1>2. /\ g \in DOMAIN ub.strm /\ ub.strm[g] = st /\ i \in Range(sinfo[g])
      /\ sinfo[g] \in Seq(Cell) /\ ub.toks[g] \in Seq(Token)
      /\ Len(ub.toks[g]) = Len(sinfo[g])
  BY <1>1, SlotGroup
<1>3. g \in DOMAIN ub.toks
  BY <1>2, GroupFields
<1>4. PutAt(ub, sinfo, st, i) = TokAt(sinfo[g], ub.toks[g], i)
  BY <1>1 DEF PutAt
<1> QED BY <1>2, <1>3, <1>4, TokAtType

\* What apply_ubatch leaves in a cell that is not empty.
LEMMA ApplyMoves ==
  ASSUME StreamsSound(cells), NEW ub, UbatchOK(ub), NEW sinfo, SlotsFor(ub, sinfo),
         NEW st \in Stream, NEW i \in Cell, ~IsEmpty(ApplyCells(ub, sinfo)[st], i)
  PROVE  IF InSlot(ub, sinfo, st, i)
         THEN /\ ApplyCells(ub, sinfo)[st].pos[i] = PutAt(ub, sinfo, st, i).pos
              /\ ApplyCells(ub, sinfo)[st].shift[i] = 0
         ELSE /\ ~IsEmpty(cells[st], i)
              /\ ApplyCells(ub, sinfo)[st].pos[i] = cells[st].pos[i]
              /\ ApplyCells(ub, sinfo)[st].shift[i] = cells[st].shift[i]
<1>1. CASE st \in Range(ub.strm)
  <2>1. PICK g : g = GroupOf(ub, st)
    OBVIOUS
  <2>2. /\ sinfo[g] \in Seq(Cell) /\ ub.toks[g] \in Seq(Token)
        /\ Len(ub.toks[g]) = Len(sinfo[g])
        /\ InSlot(ub, sinfo, st, i) <=> i \in Range(sinfo[g])
    BY <1>1, <2>1, SlotGroup
  <2>3. ApplyCells(ub, sinfo)[st] = ApplyGroup(cells[st], sinfo[g], ub.toks[g])
    BY <1>1, <2>1 DEF ApplyCells
  <2>4. Sound(cells[st])
    BY SoundOf
  <2>5. PutAt(ub, sinfo, st, i) = TokAt(sinfo[g], ub.toks[g], i)
    BY <2>1 DEF PutAt
  <2> QED BY <2>2, <2>3, <2>4, <2>5, ApplyGroupMoves
<1>2. CASE st \notin Range(ub.strm)
  <2>1. ApplyCells(ub, sinfo)[st] = cells[st] /\ ~InSlot(ub, sinfo, st, i)
    BY <1>2, SlotGroup DEF ApplyCells
  <2> QED BY <2>1
<1> QED BY <1>1, <1>2

\* The rows written by the graph of a micro-batch.
LEMMA WrittenRows ==
  ASSUME NEW r \in RowsOf, NEW ub, UbatchOK(ub), NEW sinfo, SlotsFor(ub, sinfo)
  PROVE  /\ Written(r, ub, sinfo, RowOf) \in RowsOf
         /\ \A st \in Stream : \A i \in Cell :
               Written(r, ub, sinfo, RowOf)[st][i]
                 = IF InSlot(ub, sinfo, st, i) THEN RowOf(PutAt(ub, sinfo, st, i)) ELSE r[st][i]
<1>1. PICK W : W = Written(r, ub, sinfo, RowOf)
  OBVIOUS
<1>2. W = [st \in Stream |->
             IF st \in Range(ub.strm)
             THEN [i \in Cell |-> IF i \in Range(sinfo[GroupOf(ub, st)])
                                  THEN RowOf(PutAt(ub, sinfo, st, i)) ELSE r[st][i]]
             ELSE r[st]]
  BY <1>1 DEF Written, PutAt, TokAt
<1>3. ASSUME NEW st \in Stream
      PROVE  /\ W[st] \in [Cell -> RowType]
             /\ \A i \in Cell : W[st][i] = IF InSlot(ub, sinfo, st, i)
                                           THEN RowOf(PutAt(ub, sinfo, st, i)) ELSE r[st][i]
  <2>1. CASE st \in Range(ub.strm)
    <3>1. \A i \in Cell : InSlot(ub, sinfo, st, i) <=> i \in Range(sinfo[GroupOf(ub, st)])
      BY <2>1, SlotGroup
    <3>2. \A i \in Cell : InSlot(ub, sinfo, st, i) => RowOf(PutAt(ub, sinfo, st, i)) \in RowType
      BY PutAtType, TokenRow
    <3>3. W[st] = [i \in Cell |-> IF InSlot(ub, sinfo, st, i)
                                  THEN RowOf(PutAt(ub, sinfo, st, i)) ELSE r[st][i]]
      BY <1>2, <2>1, <3>1
    <3>4. \A i \in Cell : r[st][i] \in RowType
      BY DEF RowsOf
    <3> QED BY <3>2, <3>3, <3>4
  <2>2. CASE st \notin Range(ub.strm)
    <3>1. W[st] = r[st] /\ r[st] \in [Cell -> RowType]
      BY <1>2, <2>2 DEF RowsOf
    <3>2. \A i \in Cell : ~InSlot(ub, sinfo, st, i)
      BY <2>2, SlotGroup
    <3> QED BY <3>1, <3>2
  <2> QED BY <2>1, <2>2
<1>4. W = [st \in Stream |-> W[st]]
  BY <1>2
<1>5. W \in RowsOf
  BY <1>3, <1>4 DEF RowsOf
<1> QED BY <1>1, <1>3, <1>5

\* The tokens that then stand in the cells.
LEMMA WrittenWant ==
  ASSUME NEW w \in WantOf, NEW ub, UbatchOK(ub), NEW sinfo, SlotsFor(ub, sinfo)
  PROVE  /\ Written(w, ub, sinfo, TokOf) \in WantOf
         /\ \A st \in Stream : \A i \in Cell :
               Written(w, ub, sinfo, TokOf)[st][i]
                 = IF InSlot(ub, sinfo, st, i) THEN TokOf(PutAt(ub, sinfo, st, i)) ELSE w[st][i]
<1>1. PICK W : W = Written(w, ub, sinfo, TokOf)
  OBVIOUS
<1>2. W = [st \in Stream |->
             IF st \in Range(ub.strm)
             THEN [i \in Cell |-> IF i \in Range(sinfo[GroupOf(ub, st)])
                                  THEN TokOf(PutAt(ub, sinfo, st, i)) ELSE w[st][i]]
             ELSE w[st]]
  BY <1>1 DEF Written, PutAt, TokAt
<1>3. ASSUME NEW st \in Stream
      PROVE  /\ W[st] \in [Cell -> Int]
             /\ \A i \in Cell : W[st][i] = IF InSlot(ub, sinfo, st, i)
                                           THEN TokOf(PutAt(ub, sinfo, st, i)) ELSE w[st][i]
  <2>1. CASE st \in Range(ub.strm)
    <3>1. \A i \in Cell : InSlot(ub, sinfo, st, i) <=> i \in Range(sinfo[GroupOf(ub, st)])
      BY <2>1, SlotGroup
    <3>2. \A i \in Cell : InSlot(ub, sinfo, st, i) => TokOf(PutAt(ub, sinfo, st, i)) \in Int
      BY PutAtType, TokenRow
    <3>3. W[st] = [i \in Cell |-> IF InSlot(ub, sinfo, st, i)
                                  THEN TokOf(PutAt(ub, sinfo, st, i)) ELSE w[st][i]]
      BY <1>2, <2>1, <3>1
    <3>4. \A i \in Cell : w[st][i] \in Int
      BY DEF WantOf
    <3> QED BY <3>2, <3>3, <3>4
  <2>2. CASE st \notin Range(ub.strm)
    <3>1. W[st] = w[st] /\ w[st] \in [Cell -> Int]
      BY <1>2, <2>2 DEF WantOf
    <3>2. \A i \in Cell : ~InSlot(ub, sinfo, st, i)
      BY <2>2, SlotGroup
    <3> QED BY <3>1, <3>2
  <2> QED BY <2>1, <2>2
<1>4. W = [st \in Stream |-> W[st]]
  BY <1>2
<1>5. W \in WantOf
  BY <1>3, <1>4 DEF WantOf
<1> QED BY <1>1, <1>3, <1>5

\* Forgetting what empty cells stood for.
LEMMA KnownHolds ==
  ASSUME NEW cs, NEW r, NEW w \in WantOf
  PROVE  /\ Known(w, cs) \in WantOf
         /\ \A st \in Stream : \A i \in Cell :
               ~IsEmpty(cs[st], i) => Known(w, cs)[st][i] = w[st][i]
<1>1. \A st \in Stream : \A i \in Cell : w[st][i] \in Int
  BY DEF WantOf
<1>2. NoTok \in Int
  BY DEF NoTok
<1>3. \A st \in Stream : \A i \in Cell : (IF IsEmpty(cs[st], i) THEN NoTok ELSE w[st][i]) \in Int
  BY <1>1, <1>2
<1> QED BY <1>3 DEF Known, WantOf

\* Applied and computed, a micro-batch leaves every row with its cell.
LEMMA ApplyHolds ==
  ASSUME StreamsSound(cells), rows \in RowsOf, want \in WantOf, AllHold(cells, rows, want),
         NEW ub, UbatchOK(ub), NEW sinfo, SlotsFor(ub, sinfo)
  PROVE  AllHold(ApplyCells(ub, sinfo), Written(rows, ub, sinfo, RowOf),
                 Written(want, ub, sinfo, TokOf))
<1>1. PICK A, R, W : /\ A = ApplyCells(ub, sinfo) /\ R = Written(rows, ub, sinfo, RowOf)
                     /\ W = Written(want, ub, sinfo, TokOf)
  OBVIOUS
<1>2. ASSUME NEW st \in Stream, NEW i \in Cell, ~IsEmpty(A[st], i)
      PROVE  R[st][i].tok = W[st][i] /\ R[st][i].rot + A[st].shift[i] = A[st].pos[i]
  <2>1. PICK t : t = PutAt(ub, sinfo, st, i)
    OBVIOUS
  <2>2. CASE InSlot(ub, sinfo, st, i)
    <3>1. R[st][i] = RowOf(t) /\ W[st][i] = TokOf(t)
      BY <1>1, <2>1, <2>2, WrittenRows, WrittenWant
    <3>2. A[st].pos[i] = t.pos /\ A[st].shift[i] = 0
      BY <1>1, <1>2, <2>1, <2>2, ApplyMoves
    <3>3. t \in Token
      BY <2>1, <2>2, PutAtType
    <3>4. RowOf(t).tok = TokOf(t) /\ RowOf(t).rot = t.pos /\ RowOf(t).rot \in Int
      BY <3>3, TokenRow DEF RowType
    <3> QED BY <3>1, <3>2, <3>4
  <2>3. CASE ~InSlot(ub, sinfo, st, i)
    <3>1. R[st][i] = rows[st][i] /\ W[st][i] = want[st][i]
      <4>1. R[st][i] = rows[st][i]
        BY <1>1, <2>3, WrittenRows, ZenonT(60)
      <4>2. W[st][i] = want[st][i]
        BY <1>1, <2>3, WrittenWant, ZenonT(60)
      <4> QED BY <4>1, <4>2
    <3>2. /\ ~IsEmpty(cells[st], i) /\ A[st].pos[i] = cells[st].pos[i]
          /\ A[st].shift[i] = cells[st].shift[i]
      BY <1>1, <1>2, <2>3, ApplyMoves
    <3> QED BY <3>1, <3>2 DEF AllHold, Holds
  <2> QED BY <2>2, <2>3
<1> QED BY <1>1, <1>2 DEF AllHold, Holds

-----------------------------------------------------------------------------
(* The queued stream copies *)

\* h[k][st] is the stream whose row, after the first k copies of q, is the one
\* that stream st has after all of them
Routes(q, h) ==
    /\ h \in [0..Len(q) -> [Stream -> Stream]]
    /\ \A st \in Stream : h[Len(q)][st] = st
    /\ \A k \in 1..Len(q) : \A st \in Stream :
          h[k - 1][st] = IF h[k][st] = q[k][2] THEN q[k][1] ELSE h[k][st]

\* once the copies of q are done, each cell has its row
Arrives(cs, r, w, q) ==
    \E h : Routes(q, h) /\ \A st \in Stream : \A i \in Cell :
                              Holds(cs[st], r[h[0][st]], w[st], i)

Copies == Seq({q \in Stream \X Stream : q[1] # q[2]})

\* Without copies each row is where it belongs.
LEMMA ArrivesNone ==
  ASSUME NEW cs, NEW r, NEW w
  PROVE  Arrives(cs, r, w, <<>>) <=> AllHold(cs, r, w)
<1>1. ASSUME NEW h, Routes(<<>>, h)
      PROVE  \A st \in Stream : h[0][st] = st
  BY <1>1 DEF Routes
<1>2. Arrives(cs, r, w, <<>>) => AllHold(cs, r, w)
  BY <1>1 DEF Arrives, AllHold
<1>3. ASSUME AllHold(cs, r, w) PROVE Arrives(cs, r, w, <<>>)
  <2>1. PICK h : h = [k \in 0..0 |-> [st \in Stream |-> st]]
    OBVIOUS
  <2>2. h[0] = [st \in Stream |-> st] /\ h \in [0..0 -> [Stream -> Stream]]
    BY <2>1
  <2>3. Routes(<<>>, h)
    BY <2>2 DEF Routes
  <2>4. \A st \in Stream : h[0][st] = st
    BY <2>2
  <2> QED BY <1>3, <2>3, <2>4 DEF Arrives, AllHold
<1> QED BY <1>2, <1>3

\* Rows that satisfy a cell may be of other states of the same streams.
LEMMA ArrivesWithin ==
  ASSUME NEW cs, NEW ds, NEW r, NEW w, NEW v, NEW q, Arrives(cs, r, w, q),
         \A st \in Stream : Within(cs[st], ds[st]),
         \A st \in Stream : \A i \in Cell : ~IsEmpty(ds[st], i) => v[st][i] = w[st][i]
  PROVE  Arrives(ds, r, v, q)
<1>1. PICK h : Routes(q, h) /\ \A st \in Stream : \A i \in Cell :
                                  Holds(cs[st], r[h[0][st]], w[st], i)
  BY DEF Arrives
<1>2. \A st \in Stream : \A i \in Cell : Holds(ds[st], r[h[0][st]], v[st], i)
  BY <1>1 DEF Within, Holds
<1> QED BY <1>1, <1>2 DEF Arrives

\* The first copy brings a row one stream further.
LEMMA ArrivesCopy ==
  ASSUME NEW cs, NEW r \in RowsOf, NEW w, NEW q \in Copies, q # <<>>, Arrives(cs, r, w, q)
  PROVE  Arrives(cs, [r EXCEPT ![Head(q)[2]] = r[Head(q)[1]]], w, Tail(q))
<1>1. PICK h : Routes(q, h) /\ \A st \in Stream : \A i \in Cell :
                                  Holds(cs[st], r[h[0][st]], w[st], i)
  BY DEF Arrives
<1>2. PICK n \in Nat : n = Len(q) /\ n > 0
  BY DEF Copies
<1>3. /\ Len(Tail(q)) = n - 1 /\ Head(q) = q[1]
      /\ \A k \in 1..(n - 1) : Tail(q)[k] = q[k + 1]
  BY <1>2 DEF Copies
<1>4. PICK R : R = [r EXCEPT ![Head(q)[2]] = r[Head(q)[1]]]
  OBVIOUS
<1>5. q[1][1] \in Stream /\ q[1][2] \in Stream
  <2>1. q[1] \in {p \in Stream \X Stream : p[1] # p[2]}
    BY <1>2 DEF Copies
  <2> QED BY <2>1
<1>6. \A st \in Stream : R[st] = IF st = q[1][2] THEN r[q[1][1]] ELSE r[st]
  BY <1>3, <1>4, <1>5 DEF RowsOf
<1>7. PICK g : g = [k \in 0..(n - 1) |-> h[k + 1]]
  OBVIOUS
<1>8. h \in [0..n -> [Stream -> Stream]]
  BY <1>1, <1>2 DEF Routes
<1>9. g \in [0..(n - 1) -> [Stream -> Stream]]
  BY <1>2, <1>7, <1>8
<1>10. \A st \in Stream : g[n - 1][st] = st
  BY <1>1, <1>2, <1>7 DEF Routes
<1>11. ASSUME NEW k \in 1..(n - 1), NEW st \in Stream
       PROVE  g[k - 1][st] = IF g[k][st] = Tail(q)[k][2] THEN Tail(q)[k][1] ELSE g[k][st]
  <2>1. k + 1 \in 1..n /\ (k + 1) - 1 = k /\ (k - 1) + 1 = k
    BY <1>2
  <2>2. g[k - 1] = h[k] /\ g[k] = h[k + 1]
    BY <1>2, <1>7
  <2>3. h[k][st] = IF h[k + 1][st] = q[k + 1][2] THEN q[k + 1][1] ELSE h[k + 1][st]
    BY <1>1, <1>2, <2>1 DEF Routes
  <2> QED BY <1>3, <2>2, <2>3
<1>12. Routes(Tail(q), g)
  BY <1>3, <1>9, <1>10, <1>11 DEF Routes
<1>13. \A st \in Stream : R[g[0][st]] = r[h[0][st]]
  <2> SUFFICES ASSUME NEW st \in Stream PROVE R[g[0][st]] = r[h[0][st]]
    OBVIOUS
  <2>1. 1 \in 1..n /\ 1 \in 0..n /\ 1 - 1 = 0
    BY <1>2
  <2>2. h[0][st] = IF h[1][st] = q[1][2] THEN q[1][1] ELSE h[1][st]
    BY <1>1, <1>2, <2>1 DEF Routes
  <2>3. g[0] = h[1] /\ h[1][st] \in Stream
    BY <1>2, <1>7, <1>8, <2>1
  <2> QED BY <1>6, <2>2, <2>3
<1>14. \A st \in Stream : \A i \in Cell : Holds(cs[st], R[g[0][st]], w[st], i)
  BY <1>1, <1>13
<1> QED BY <1>4, <1>12, <1>14 DEF Arrives

\* the stream whose rows st has once s0 is copied to s1
Via(s0, s1, st) == IF st = s1 THEN s0 ELSE st

\* A copy is queued: the cells of its target are satisfied by the rows of its source.
LEMMA ArrivesAppend ==
  ASSUME NEW cs, NEW ds, NEW r, NEW w, NEW v, NEW q \in Copies, Arrives(cs, r, w, q),
         NEW s0 \in Stream, NEW s1 \in Stream,
         \A st \in Stream : \A i \in Cell : \A x :
            Holds(cs[Via(s0, s1, st)], x, w[Via(s0, s1, st)], i)
               => Holds(ds[st], x, v[st], i)
  PROVE  Arrives(ds, r, v, Append(q, <<s0, s1>>))
<1>1. PICK h : Routes(q, h) /\ \A st \in Stream : \A i \in Cell :
                                  Holds(cs[st], r[h[0][st]], w[st], i)
  BY DEF Arrives
<1>2. PICK n \in Nat : n = Len(q)
  BY DEF Copies
<1>3. PICK p : p = Append(q, <<s0, s1>>)
  OBVIOUS
<1>4. /\ Len(p) = n + 1 /\ p[n + 1] = <<s0, s1>>
      /\ \A k \in 1..n : p[k] = q[k]
  BY <1>2, <1>3 DEF Copies
<1>5. PICK g : g = [k \in 0..(n + 1) |->
                   [st \in Stream |-> IF k = n + 1 THEN st ELSE h[k][Via(s0, s1, st)]]]
  OBVIOUS
<1>6. \A st \in Stream : Via(s0, s1, st) \in Stream
  BY DEF Via
<1>7. /\ h \in [0..n -> [Stream -> Stream]]
      /\ \A st \in Stream : h[n][st] = st
  BY <1>1, <1>2 DEF Routes
<1>8. \A k \in 0..n : \A st \in Stream : h[k][Via(s0, s1, st)] \in Stream
  BY <1>6, <1>7
<1>9. /\ \A k \in 0..n : \A st \in Stream : g[k][st] = h[k][Via(s0, s1, st)]
      /\ \A st \in Stream : g[n + 1][st] = st
  BY <1>2, <1>5
<1>10. g \in [0..(n + 1) -> [Stream -> Stream]]
  BY <1>2, <1>5, <1>8
<1>11. ASSUME NEW k \in 1..(n + 1), NEW st \in Stream
       PROVE  g[k - 1][st] = IF g[k][st] = p[k][2] THEN p[k][1] ELSE g[k][st]
  <2>1. CASE k = n + 1
    <3>1. g[n][st] = Via(s0, s1, st)
      BY <1>2, <1>6, <1>7, <1>9
    <3>2. k - 1 = n /\ g[k][st] = st /\ p[k] = <<s0, s1>>
      BY <1>2, <1>4, <1>9, <2>1
    <3> QED BY <3>1, <3>2 DEF Via
  <2>2. CASE k # n + 1
    <3>1. k \in 1..n /\ k - 1 \in 0..n /\ k \in 0..n
      BY <1>2, <2>2
    <3>2. g[k - 1][st] = h[k - 1][Via(s0, s1, st)] /\ g[k][st] = h[k][Via(s0, s1, st)] /\ p[k] = q[k]
      BY <1>4, <1>9, <3>1
    <3> QED BY <1>1, <1>2, <1>6, <3>1, <3>2 DEF Routes
  <2> QED BY <2>1, <2>2
<1>12. Routes(p, g)
  BY <1>4, <1>9, <1>10, <1>11 DEF Routes
<1>13. ASSUME NEW st \in Stream, NEW i \in Cell
       PROVE  Holds(ds[st], r[g[0][st]], v[st], i)
  <2>1. g[0][st] = h[0][Via(s0, s1, st)]
    BY <1>2, <1>9
  <2>2. Holds(cs[Via(s0, s1, st)], r[g[0][st]], w[Via(s0, s1, st)], i)
    BY <1>1, <1>6, <2>1
  <2> QED BY <2>2
<1> QED BY <1>3, <1>12, <1>13 DEF Arrives

-----------------------------------------------------------------------------
(* The invariant *)

Unshifted(cs) == \A st \in Stream : \A i \in Cell : cs[st].shift[i] = 0

\* what prepare() remembers of a cell tracks the row that is still there
Was(o, r, w) == o.pos # -1 => r.tok = w /\ r.rot = o.pos

\* With the first n micro-batches placed: a cell in no slot has its row, and the
\* first placement on a cell remembers one that had.
Rehearsed(cs, r, w, ubs, placed, n) ==
    \A st \in Stream : \A i \in Cell :
        /\ (\A j \in 1..n : ~InSlot(ubs[j], placed[j].idxs, st, i))
              => Holds(cs[st], r[st], w[st], i)
        /\ \A j \in 1..n :
              (\A l \in 1..(j - 1) : ~InSlot(ubs[l], placed[l].idxs, st, i)) =>
                  \A g \in DOMAIN ubs[j].strm :
                      ubs[j].strm[g] = st /\ i \in Range(placed[j].idxs[g])
                          => Was(placed[j].old[g][i], r[st][i], w[st][i])

\* each token belongs to one sequence, of the stream it goes to
Single(ubs) ==
    \A j \in DOMAIN ubs : \A g \in DOMAIN ubs[j].strm : \A t \in Range(ubs[j].toks[g]) :
        \E s \in SeqId : t.seq = {s} /\ seq_to_stream(s) = ubs[j].strm[g]

\* what was saved tracks its rows
SavedRowsOK ==
    \A i \in DOMAIN saved : /\ saved[i].row \in RowType /\ saved[i].want \in Int
                            /\ saved[i].row.tok = saved[i].want
                            /\ saved[i].row.rot = saved[i].pos

RInv ==
    /\ rows \in RowsOf /\ want \in WantOf
    /\ pc \in {"idle", "update"} => Arrives(cells, rows, want, sc)
    /\ pc \in {"prepare", "restore", "compute"} => sc = <<>>
    /\ pc = "prepare" => Rehearsed(cells, rows, want, job.ubs, job.placed, Len(job.placed))
    /\ pc = "restore" => Rehearsed(cells, rows, want, job.ubs, job.placed, job.k)
    /\ pc = "compute" => AllHold(cells, rows, want)
    /\ pc # "idle" /\ "compute" \in Faults => Single(job.ubs)
    /\ pc = "prepare" /\ "shift" \notin Faults => Unshifted(cells)
    /\ "read" \in Ops => Unshifted(cells) /\ SavedRowsOK

\* Initially there are no cells to have rows.
LEMMA RowsInit == Init => RInv
<1> SUFFICES ASSUME Init PROVE RInv
  OBVIOUS
<1>1. rows \in RowsOf
  <2>1. NoRow \in RowType
    BY DEF NoRow, NoTok, RowType
  <2> QED BY <2>1 DEF Init, RowsOf
<1>2. want \in WantOf
  BY DEF Init, WantOf, NoTok
<1>3. AllHold(cells, rows, want) /\ Unshifted(cells)
  BY DEF Init, AllHold, Holds, Unshifted, EmptyCells, IsEmpty
<1>4. Arrives(cells, rows, want, sc)
  BY <1>3, ArrivesNone DEF Init
<1>5. SavedRowsOK
  BY DEF Init, SavedRowsOK
<1> QED BY <1>1, <1>2, <1>3, <1>4, <1>5 DEF Init, RInv

-----------------------------------------------------------------------------
(* Memory operations *)

\* Empty cells have no shift, the others keep theirs.
LEMMA StaysUnshifted ==
  ASSUME NEW cs, StreamsSound(cs), Unshifted(cs), NEW ds, StreamsSound(ds),
         \A st \in Stream : Within(cs[st], ds[st])
  PROVE  Unshifted(ds)
<1> SUFFICES ASSUME NEW st \in Stream, NEW i \in Cell
             PROVE  ds[st].shift[i] = 0
  BY DEF Unshifted
<1>1. IsEmpty(ds[st], i) => ds[st].shift[i] = 0
  BY SoundOf DEF Sound, Shaped
<1> QED BY <1>1 DEF Within, Unshifted

\* An operation that only takes cells away.
LEMMA WithinStep ==
  ASSUME IInv, IInv', RInv, pc = "idle", pc' = pc, sc' = sc, rows' = rows, saved' = saved,
         want' = Known(want, cells'), \A st \in Stream : Within(cells[st], cells'[st])
  PROVE  RInv'
<1>1. want' \in WantOf /\ \A st \in Stream : \A i \in Cell :
                             ~IsEmpty(cells'[st], i) => want'[st][i] = want[st][i]
  BY KnownHolds DEF RInv
<1>2. Arrives(cells', rows', want', sc')
  BY <1>1, ArrivesWithin DEF RInv
<1>3. "read" \in Ops => Unshifted(cells') /\ SavedRowsOK'
  <2>1. "read" \in Ops => Unshifted(cells')
    BY StaysUnshifted DEF IInv, RInv
  <2> QED BY <2>1 DEF RInv, SavedRowsOK
<1> QED BY <1>1, <1>2, <1>3 DEF RInv

\* So with one stream edited.
LEMMA EditWithin ==
  ASSUME IInv, IInv', RInv, pc = "idle", NEW st \in Stream, NEW d, NEW h, Edit(st, d, h),
         Within(cells[st], d)
  PROVE  RInv'
<1>1. \A t \in Stream : cells'[t] = IF t = st THEN d ELSE cells[t]
  BY DEF Edit, IInv, StreamsSound
<1>2. \A t \in Stream : Within(cells[t], cells'[t])
  BY <1>1 DEF Within
<1> QED BY <1>2, WithinStep DEF Edit

\* clear() leaves no cell.
LEMMA ClearRows ==
  ASSUME IInv, IInv', RInv, NEW data \in BOOLEAN, Clear(data)
  PROVE  RInv'
<1>1. /\ pc = "idle" /\ pc' = pc /\ sc' = sc /\ saved' = saved
      /\ cells' = [st \in Stream |-> EmptyCells] /\ want' = Known(want, cells')
      /\ rows' = rows \/ rows' = [st \in Stream |-> [i \in Cell |-> NoRow]]
  BY DEF Clear, Idle
<1>2. \A st \in Stream : \A i \in Cell : IsEmpty(cells'[st], i) /\ cells'[st].shift[i] = 0
  BY <1>1 DEF EmptyCells, IsEmpty
<1>3. rows' \in RowsOf
  <2>1. NoRow \in RowType
    BY DEF NoRow, NoTok, RowType
  <2> QED BY <1>1, <2>1 DEF RInv, RowsOf
<1>4. want' \in WantOf
  BY <1>1, KnownHolds DEF RInv
<1>5. Arrives(cells', rows', want', sc')
  <2>1. PICK h : Routes(sc, h)
    BY <1>1 DEF RInv, Arrives
  <2> QED BY <1>1, <1>2, <2>1 DEF Arrives, Holds
<1>6. Unshifted(cells')
  BY <1>2 DEF Unshifted
<1> QED BY <1>1, <1>3, <1>4, <1>5, <1>6 DEF RInv, SavedRowsOK

\* seq_rm() of one sequence takes cells away.
LEMMA SeqRmRows ==
  ASSUME IInv, IInv', RInv, NEW s \in SeqId, NEW p0, NEW p1, seq_rm(s, p0, p1)
  PROVE  RInv'
<1> DEFINE st == seq_to_stream(s)
           d == SeqRmCells(s, p0, p1)
<1>1. st \in Stream /\ Sound(cells[st])
  BY StreamOf, SoundOf DEF IInv
<1>2. Within(cells[st], d)
  BY <1>1, SeqRmWithin DEF SeqRmCells
<1>3. pc = "idle" /\ Edit(st, d, FreedHead(cells[st], d, heads[st]))
  BY DEF seq_rm, Idle
<1> HIDE DEF st, d
<1> QED BY <1>1, <1>2, <1>3, EditWithin

\* So does that of every sequence.
LEMMA SeqRmAnyRows ==
  ASSUME IInv, IInv', RInv, NEW p0, NEW p1, seq_rm_any(p0, p1)
  PROVE  RInv'
<1>1. \A st \in Stream : cells'[st] = Rm(cells[st], InRange(cells[st], p0, p1))
  BY DEF seq_rm_any
<1>2. \A st \in Stream : Within(cells[st], cells'[st])
  BY <1>1, SoundOf, RmWithin DEF IInv
<1> QED BY <1>2, WithinStep DEF seq_rm_any, Idle

\* seq_cp() within a stream shares cells.
LEMMA SeqCpRows ==
  ASSUME IInv, IInv', RInv, NEW src \in SeqId, NEW dst \in SeqId, NEW p0, NEW p1,
         seq_cp(src, dst, p0, p1)
  PROVE  RInv'
<1> DEFINE st == seq_to_stream(src)
           I == SeqInRange(cells[st], src, p0, p1)
<1>1. st \in Stream /\ Sound(cells[st])
  BY StreamOf, SoundOf DEF IInv
<1>2. pc = "idle" /\ Edit(st, SeqAdd(cells[st], I, dst), heads[st])
  BY DEF seq_cp, Idle
<1> HIDE DEF st, I
<1> QED BY <1>1, <1>2, SeqAddWithin, EditWithin

\* seq_keep() takes cells away.
LEMMA SeqKeepRows ==
  ASSUME IInv, IInv', RInv, NEW s \in SeqId, seq_keep(s)
  PROVE  RInv'
<1> DEFINE st == seq_to_stream(s)
           d == SeqKeep(cells[st], s)
<1>1. st \in Stream /\ Sound(cells[st])
  BY StreamOf, SoundOf DEF IInv
<1>2. Within(cells[st], d)
  BY <1>1, SeqKeepWithin
<1>3. pc = "idle" /\ Edit(st, d, FreedHead(cells[st], d, heads[st]))
  BY DEF seq_keep, Idle
<1> HIDE DEF st, d
<1> QED BY <1>1, <1>2, <1>3, EditWithin

\* A cell and the row it needs: both types of a state of the streams.
LEMMA ArrivesMoved ==
  ASSUME NEW cs, NEW ds, NEW r \in RowsOf, NEW w, NEW v, NEW q, Arrives(cs, r, w, q),
         \A st \in Stream : \A i \in Cell : \A x \in [Cell -> RowType] :
            Holds(cs[st], x, w[st], i) => Holds(ds[st], x, v[st], i)
  PROVE  Arrives(ds, r, v, q)
<1>1. PICK h : Routes(q, h) /\ \A st \in Stream : \A i \in Cell :
                                  Holds(cs[st], r[h[0][st]], w[st], i)
  BY DEF Arrives
<1>2. ASSUME NEW st \in Stream, NEW i \in Cell
      PROVE  Holds(ds[st], r[h[0][st]], v[st], i)
  <2>1. PICK y : y = h[0][st]
    OBVIOUS
  <2>2. \/ r[y] \in [Cell -> RowType]
        \/ y \notin Stream
    BY DEF RowsOf
  <2>3. h \in [0..Len(q) -> [Stream -> Stream]]
    BY <1>1 DEF Routes
  <2> QED BY <1>1, <2>1, <2>2, <2>3
<1> QED BY <1>1, <1>2 DEF Arrives

\* seq_add() moves positions and pending shifts together.
LEMMA SeqAddRows ==
  ASSUME RowsSafe, IInv, IInv', RInv, NEW s \in SeqId, NEW p0, NEW p1, NEW delta \in Deltas,
         seq_add(s, p0, p1, delta)
  PROVE  RInv'
<1> DEFINE st == seq_to_stream(s)
           c  == cells[st]
           I  == SeqInRange(c, s, p0, p1)
           D  == [i \in Cell |-> delta]
           d  == PosAdd(c, I, D)
           freed == {i \in I : IsEmpty(d, i)}
           h  == IF freed = {} THEN 0 ELSE Min(freed)
<1>1. st \in Stream /\ Sound(c)
  BY StreamOf, SoundOf DEF IInv
<1>2. I \in SUBSET Cell /\ \A i \in I : ~IsEmpty(c, i)
  BY <1>1, OwnedNotEmpty DEF SeqInRange
<1>3. /\ pc = "idle" /\ Edit(st, d, h)
      /\ \A i \in I : c.pos[i] + delta <= MaxPos
  BY DEF seq_add, Idle
<1>4. D \in [Cell -> Int] /\ delta \in Int
  BY ConfigAssumption
<1>5. \A i \in I : ~IsEmpty(c, i) /\ c.pos[i] + D[i] <= MaxPos
  BY <1>2, <1>3
<1>6. \A i \in Cell : D[i] = delta
  OBVIOUS
<1> HIDE DEF st, c, I, D, freed, h
<1>7. \A i \in Cell : ~IsEmpty(d, i) =>
         /\ ~IsEmpty(c, i)
         /\ d.pos[i]   = c.pos[i]   + (IF i \in I THEN delta ELSE 0)
         /\ d.shift[i] = c.shift[i] + (IF i \in I THEN delta ELSE 0)
  BY <1>1, <1>2, <1>4, <1>5, <1>6, PosAddMoves
<1> HIDE DEF d
<1>8. /\ \A t \in Stream : cells'[t] = IF t = st THEN d ELSE cells[t]
      /\ want' = Known(want, cells') /\ rows' = rows /\ sc' = sc /\ pc' = pc
  BY <1>3 DEF Edit, IInv, StreamsSound
<1>9. want' \in WantOf /\ \A t \in Stream : \A i \in Cell :
                             ~IsEmpty(cells'[t], i) => want'[t][i] = want[t][i]
  BY <1>8, KnownHolds DEF RInv
<1>10. ASSUME NEW t \in Stream, NEW i \in Cell, NEW x \in [Cell -> RowType],
              Holds(cells[t], x, want[t], i), ~IsEmpty(cells'[t], i)
       PROVE  x[i].tok = want'[t][i] /\ x[i].rot + cells'[t].shift[i] = cells'[t].pos[i]
  <2>1. CASE t # st
    BY <1>8, <1>9, <1>10, <2>1 DEF Holds
  <2>2. CASE t = st
    <3>1. c.pos[i] \in Int /\ c.shift[i] \in Int
      <4>1. c.pos \in [Cell -> Pos \cup {-1}] /\ c.shift \in [Cell -> Int]
        BY <1>1, CellsFields DEF Sound
      <4> QED BY <4>1 DEF Pos
    <3>2. x[i].rot \in Int
      BY DEF RowType
    <3>3. PICK e \in Int : /\ d.pos[i] = c.pos[i] + e /\ d.shift[i] = c.shift[i] + e
                           /\ ~IsEmpty(c, i)
      BY <1>4, <1>7, <1>8, <1>10, <2>2
    <3>4. x[i].tok = want[t][i] /\ x[i].rot + c.shift[i] = c.pos[i]
      BY <1>10, <2>2, <3>3 DEF Holds, c
    <3>5. x[i].rot + (c.shift[i] + e) = c.pos[i] + e
      BY <3>1, <3>2, <3>4
    <3> QED BY <1>8, <1>9, <1>10, <2>2, <3>3, <3>4, <3>5
  <2> QED BY <2>1, <2>2
<1>11. Arrives(cells', rows', want', sc')
  BY <1>3, <1>8, <1>10, ArrivesMoved DEF RInv, Holds
<1>12. "read" \notin Ops
  BY DEF RowsSafe
<1> QED BY <1>3, <1>8, <1>9, <1>11, <1>12 DEF RInv

\* The copy of the cells of another stream needs the rows these need.
LEMMA CopiedHolds ==
  ASSUME NEW c, Sound(c), NEW src \in SeqId, NEW dst \in SeqId,
         \A i \in SeqHas(c, src) : c.pos[i] - c.shift[i] \in Pos
  PROVE  Within(c, CopiedCells(c, src, dst))
<1> DEFINE I  == SeqHas(c, src)
           at == [i \in I |-> [pos |-> c.pos[i] - c.shift[i], seq |-> {dst}]]
           e  == Emplace(EmptyCells, at)
           J  == {i \in I : c.shift[i] # 0}
<1>1. I \in SUBSET Cell /\ c.shift \in [Cell -> Int] /\ \A i \in I : c.pos[i] \in Pos
  BY OwnedNotEmpty, CellsFields DEF Sound
<1>2. /\ DOMAIN at \subseteq Cell
      /\ \A i \in DOMAIN at : /\ IsEmpty(EmptyCells, i) /\ at[i].pos \in Pos
                              /\ at[i].seq \in SUBSET SeqId /\ at[i].seq # {}
  BY <1>1 DEF EmptyCells, IsEmpty
<1>3. DOMAIN at = I /\ \A i \in I : at[i].pos = c.pos[i] - c.shift[i]
  OBVIOUS
<1>4. CopiedCells(c, src, dst) = PosAdd(e, J, c.shift)
  BY DEF CopiedCells
<1> HIDE DEF at
<1>5. /\ Sound(e) /\ e.shift = EmptyCells.shift
      /\ \A i \in Cell : e.pos[i] = IF i \in DOMAIN at THEN at[i].pos ELSE EmptyCells.pos[i]
  BY <1>2, EmptySound, EmplaceSound
<1>6. \A i \in Cell : EmptyCells.shift[i] = 0 /\ EmptyCells.pos[i] = -1
  BY DEF EmptyCells
<1> HIDE DEF e, I
<1>7. J \in SUBSET Cell
  BY <1>1
<1>8. \A i \in Cell : c.shift[i] \in Int
  BY <1>1
<1>9. \A i \in J : ~IsEmpty(e, i) /\ e.pos[i] + c.shift[i] <= MaxPos
  <2> SUFFICES ASSUME NEW i \in J PROVE ~IsEmpty(e, i) /\ e.pos[i] + c.shift[i] <= MaxPos
    OBVIOUS
  <2>1. e.pos[i] = c.pos[i] - c.shift[i] /\ e.pos[i] \in Pos
    BY <1>1, <1>2, <1>3, <1>5
  <2>2. c.pos[i] \in Int /\ c.shift[i] \in Int /\ c.pos[i] <= MaxPos
    BY <1>1, SizesAssumption DEF Pos
  <2> QED BY <2>1, <2>2, SizesAssumption DEF IsEmpty, Pos
<1>10. \A i \in Cell : i \in J <=> i \in I /\ c.shift[i] # 0
  BY <1>1
<1> HIDE DEF J
<1>11. PICK d : d = PosAdd(e, J, c.shift)
  OBVIOUS
<1>12. \A i \in Cell : ~IsEmpty(d, i) =>
         /\ ~IsEmpty(e, i)
         /\ d.pos[i]   = e.pos[i]   + (IF i \in J THEN c.shift[i] ELSE 0)
         /\ d.shift[i] = e.shift[i] + (IF i \in J THEN c.shift[i] ELSE 0)
  BY <1>1, <1>5, <1>7, <1>9, <1>11, PosAddMoves
<1>13. ASSUME NEW i \in Cell, ~IsEmpty(d, i)
       PROVE  ~IsEmpty(c, i) /\ d.pos[i] = c.pos[i] /\ d.shift[i] = c.shift[i]
  <2>1. i \in I /\ e.pos[i] = c.pos[i] - c.shift[i] /\ e.shift[i] = 0
    BY <1>3, <1>5, <1>6, <1>12, <1>13 DEF IsEmpty
  <2>2. c.pos[i] \in Int /\ c.shift[i] \in Int /\ c.pos[i] # -1
    BY <1>1, <1>8, <2>1, SizesAssumption DEF Pos
  <2>3. d.pos[i] = e.pos[i] + c.shift[i] /\ d.shift[i] = 0 + c.shift[i]
    <3>1. CASE i \in J
      BY <1>12, <1>13, <2>1, <3>1
    <3>2. CASE i \notin J
      BY <1>10, <1>12, <1>13, <2>1, <2>2, <3>2
    <3> QED BY <3>1, <3>2
  <2> QED BY <2>1, <2>2, <2>3 DEF IsEmpty
<1> QED BY <1>4, <1>11, <1>13 DEF Within

\* With one stream nothing is ever copied.
LEMMA OneStream ==
  ASSUME NStream = 1, sc \in Copies
  PROVE  sc = <<>>
<1>1. ASSUME NEW q \in Stream \X Stream PROVE q[1] = q[2]
  BY DEF Stream
<1>2. {q \in Stream \X Stream : q[1] # q[2]} = {}
  BY <1>1
<1>3. sc \in Seq({})
  BY <1>2 DEF Copies
<1>4. Len(sc) \in Nat /\ \A k \in 1..Len(sc) : sc[k] \in {}
  BY <1>3
<1>5. Len(sc) = 0
  BY <1>4
<1> QED BY <1>3, <1>5

\* seq_cp() between streams queues a copy of the rows.
LEMMA SeqCpStreamRows ==
  ASSUME RowsSafe, IInv, IInv', RInv, NEW src \in SeqId, NEW dst \in SeqId,
         seq_cp_stream(src, dst)
  PROVE  RInv'
<1> DEFINE s0 == seq_to_stream(src)
           s1 == seq_to_stream(dst)
           d  == CopiedCells(cells[s0], src, dst)
           w1 == [want EXCEPT ![s1] = want[s0]]
<1>1. s0 \in Stream /\ s1 \in Stream /\ Sound(cells[s0])
  BY StreamOf, SoundOf DEF IInv
<1>2. /\ pc = "idle" /\ s0 # s1
      /\ \A i \in SeqHas(cells[s0], src) : cells[s0].pos[i] - cells[s0].shift[i] \in Pos
      /\ sc' = Append(sc, <<s0, s1>>)
      /\ cells' = [cells EXCEPT ![s1] = d]
      /\ want' = Known(w1, cells')
      /\ pc' = pc /\ rows' = rows /\ saved' = saved
  BY DEF seq_cp_stream, Idle
<1>3. Within(cells[s0], d)
  BY <1>1, <1>2, CopiedHolds
<1>4. /\ w1 \in WantOf
      /\ \A t \in Stream : w1[t] = IF t = s1 THEN want[s0] ELSE want[t]
  BY <1>1 DEF RInv, WantOf
<1> HIDE DEF s0, s1, d, w1
<1>5. \A t \in Stream : cells'[t] = IF t = s1 THEN d ELSE cells[t]
  BY <1>2 DEF IInv, StreamsSound
<1>6. want' \in WantOf /\ \A t \in Stream : \A i \in Cell :
                             ~IsEmpty(cells'[t], i) => want'[t][i] = w1[t][i]
  <2>1. PICK u, ds : u = w1 /\ ds = cells'
    OBVIOUS
  <2>2. u \in WantOf
    BY <1>4, <2>1
  <2>3. Known(u, ds) \in WantOf /\ \A t \in Stream : \A i \in Cell :
                                      ~IsEmpty(ds[t], i) => Known(u, ds)[t][i] = u[t][i]
    BY <2>2, KnownHolds
  <2> QED BY <1>2, <2>1, <2>3
<1>7. ASSUME NEW t \in Stream, NEW i \in Cell, NEW x,
             Holds(cells[Via(s0, s1, t)], x, want[Via(s0, s1, t)], i),
             ~IsEmpty(cells'[t], i)
      PROVE  x[i].tok = want'[t][i] /\ x[i].rot + cells'[t].shift[i] = cells'[t].pos[i]
  <2>1. CASE t # s1
    BY <1>4, <1>5, <1>6, <1>7, <2>1 DEF Holds, Via
  <2>2. CASE t = s1
    <3>1. /\ ~IsEmpty(cells[s0], i)
          /\ d.pos[i] = cells[s0].pos[i] /\ d.shift[i] = cells[s0].shift[i]
      BY <1>3, <1>5, <1>7, <2>2 DEF Within
    <3> QED BY <1>4, <1>5, <1>6, <1>7, <2>2, <3>1 DEF Holds, Via
  <2> QED BY <2>1, <2>2
<1>8. sc \in Copies
  BY DEF IInv, Copies
<1>9. \A t \in Stream : \A i \in Cell : \A x :
         Holds(cells[Via(s0, s1, t)], x, want[Via(s0, s1, t)], i)
            => Holds(cells'[t], x, want'[t], i)
  BY <1>7 DEF Holds
<1>10. Arrives(cells', rows', want', sc')
  <2>1. PICK cs, ds, w, v : cs = cells /\ ds = cells' /\ w = want /\ v = want'
    OBVIOUS
  <2>2. Arrives(cs, rows, w, sc)
    BY <1>2, <2>1 DEF RInv
  <2>3. \A t \in Stream : \A i \in Cell : \A x :
           Holds(cs[Via(s0, s1, t)], x, w[Via(s0, s1, t)], i)
              => Holds(ds[t], x, v[t], i)
    BY <1>9, <2>1
  <2>4. Arrives(ds, rows, v, Append(sc, <<s0, s1>>))
    BY <1>1, <1>8, <2>2, <2>3, ArrivesAppend
  <2> QED BY <1>2, <2>1, <2>4
<1>11. "read" \notin Ops
  <2>1. NStream # 1
    BY <1>1, <1>2 DEF Stream
  <2> QED BY <2>1 DEF RowsSafe
<1> QED BY <1>2, <1>6, <1>10, <1>11 DEF RInv

-----------------------------------------------------------------------------
(* Saving and restoring a sequence *)

\* Where sequences are restored, no copy is pending and every row is in place.
LEMMA SavedInPlace ==
  ASSUME RowsSafe, IInv, RInv, pc = "idle", "read" \in Ops
  PROVE  sc = <<>> /\ AllHold(cells, rows, want) /\ Unshifted(cells) /\ SavedRowsOK
<1>1. sc = <<>>
  BY OneStream DEF RowsSafe, IInv, Copies
<1> QED BY <1>1, ArrivesNone DEF RInv

\* What state_write() saves tracks its rows.
LEMMA StateWriteRows ==
  ASSUME RowsSafe, IInv, RInv, NEW s \in SeqId, state_write(s)
  PROVE  RInv'
<1> DEFINE st == seq_to_stream(s)
<1>1. st \in Stream /\ Sound(cells[st])
  BY StreamOf, SoundOf DEF IInv
<1>2. /\ pc = "idle" /\ pc' = pc /\ cells' = cells /\ sc' = sc /\ rows' = rows /\ want' = want
      /\ saved' = [i \in SeqHas(cells[st], s) |->
                      [pos |-> cells[st].pos[i], row |-> rows[st][i], want |-> want[st][i]]]
  BY DEF state_write, Idle
<1>3. \A i \in SeqHas(cells[st], s) : i \in Cell /\ ~IsEmpty(cells[st], i)
  BY <1>1, OwnedNotEmpty
<1>4. ASSUME "read" \in Ops PROVE SavedRowsOK'
  <2>1. AllHold(cells, rows, want) /\ Unshifted(cells)
    BY <1>2, <1>4, SavedInPlace
  <2>2. ASSUME NEW i \in SeqHas(cells[st], s)
        PROVE  /\ rows[st][i] \in RowType /\ want[st][i] \in Int
               /\ rows[st][i].tok = want[st][i] /\ rows[st][i].rot = cells[st].pos[i]
    <3>1. i \in Cell /\ ~IsEmpty(cells[st], i)
      BY <1>3
    <3>2. rows[st][i] \in RowType /\ want[st][i] \in Int
      BY <1>1, <3>1 DEF RInv, RowsOf, WantOf
    <3>3. /\ rows[st][i].tok = want[st][i]
          /\ rows[st][i].rot + 0 = cells[st].pos[i]
      BY <1>1, <2>1, <3>1 DEF AllHold, Holds, Unshifted
    <3> QED BY <3>2, <3>3 DEF RowType
  <2> HIDE DEF st
  <2> QED BY <1>2, <2>2 DEF SavedRowsOK
<1> HIDE DEF st
<1>5. "read" \in Ops => Unshifted(cells')
  BY <1>2 DEF RInv
<1> QED BY <1>2, <1>4, <1>5 DEF RInv

\* The restored cells get the rows that were saved with them.
LEMMA RestoredHolds ==
  ASSUME RowsSafe, IInv, RInv, pc = "idle", "read" \in Ops, NEW s \in SeqId,
         NEW c, Sound(c), NEW r \in [Cell -> RowType], NEW w \in [Cell -> Int],
         \A i \in Cell : Holds(c, r, w, i), Unshifted(cells),
         NEW n \in Nat, NEW f \in [1..n -> Cell], NEW e \in [1..n -> DOMAIN saved]
  PROVE  /\ SavedRows(r, f, e) \in [Cell -> RowType] /\ SavedWant(w, f, e) \in [Cell -> Int]
         /\ \A i \in Cell : Holds(ApplyGroup(c, f, SavedToks(s, e)), SavedRows(r, f, e),
                                  SavedWant(w, f, e), i)
<1>1. SavedRowsOK
  BY SavedInPlace
<1>2. ASSUME NEW i \in Range(f)
      PROVE  /\ i \in Cell
             /\ SavedAt(f, e, i).row \in RowType /\ SavedAt(f, e, i).want \in Int
             /\ SavedAt(f, e, i).row.tok = SavedAt(f, e, i).want
             /\ SavedAt(f, e, i).row.rot = SavedAt(f, e, i).pos
             /\ TokAt(f, SavedToks(s, e), i).pos = SavedAt(f, e, i).pos
  <2> DEFINE b == CHOOSE a \in DOMAIN f : f[a] = i
  <2>1. b \in DOMAIN f /\ f[b] = i
    BY DEF Range
  <2>2. b \in 1..n /\ e[b] \in DOMAIN saved /\ f[b] \in Cell
    BY <2>1
  <2>3. SavedAt(f, e, i) = saved[e[b]] /\ TokAt(f, SavedToks(s, e), i) = SavedToks(s, e)[b]
    BY DEF SavedAt, TokAt
  <2> HIDE DEF b
  <2>4. SavedToks(s, e)[b].pos = saved[e[b]].pos
    BY <2>2 DEF SavedToks
  <2> QED BY <1>1, <2>1, <2>2, <2>3, <2>4 DEF SavedRowsOK
<1>3. PICK t : t = SavedToks(s, e)
  OBVIOUS
<1>4. t \in Seq(Token) /\ Len(t) = n /\ f \in Seq(Cell) /\ Len(f) = n
  <2>1. \A a \in 1..n : [pos |-> saved[e[a]].pos, seq |-> {s}] \in Token
    BY DEF IInv, SavedOK, Token
  <2> QED BY <1>3, <2>1 DEF SavedToks
<1>5. PICK R, W : R = SavedRows(r, f, e) /\ W = SavedWant(w, f, e)
  OBVIOUS
<1>6. \A i \in Cell : /\ R[i] = IF i \in Range(f) THEN SavedAt(f, e, i).row ELSE r[i]
                      /\ W[i] = IF i \in Range(f) THEN SavedAt(f, e, i).want ELSE w[i]
  BY <1>5 DEF SavedRows, SavedWant
<1>7. R \in [Cell -> RowType] /\ W \in [Cell -> Int]
  <2>1. \A i \in Cell : R[i] \in RowType /\ W[i] \in Int
    BY <1>2, <1>6
  <2>2. R = [i \in Cell |-> R[i]] /\ W = [i \in Cell |-> W[i]]
    BY <1>5 DEF SavedRows, SavedWant
  <2> QED BY <2>1, <2>2
<1>8. PICK A : A = ApplyGroup(c, f, t)
  OBVIOUS
<1>9. \A i \in Cell : ~IsEmpty(A, i) =>
         IF i \in Range(f)
         THEN A.pos[i] = TokAt(f, t, i).pos /\ A.shift[i] = 0
         ELSE ~IsEmpty(c, i) /\ A.pos[i] = c.pos[i] /\ A.shift[i] = c.shift[i]
  BY <1>4, <1>8, ApplyGroupMoves
<1>10. ASSUME NEW i \in Cell, ~IsEmpty(A, i)
       PROVE  R[i].tok = W[i] /\ R[i].rot + A.shift[i] = A.pos[i]
  <2>1. CASE i \in Range(f)
    <3>1. R[i].rot \in Int
      BY <1>7 DEF RowType
    <3> QED BY <1>2, <1>3, <1>6, <1>9, <1>10, <2>1, <3>1
  <2>2. CASE i \notin Range(f)
    BY <1>6, <1>9, <1>10, <2>2 DEF Holds
  <2> QED BY <2>1, <2>2
<1> QED BY <1>3, <1>5, <1>7, <1>8, <1>10 DEF Holds

\* state_read() keeps the rows with their cells.
LEMMA StateReadRows ==
  ASSUME RowsSafe, IInv, IInv', RInv, NEW s \in SeqId, state_read(s)
  PROVE  RInv'
<1> DEFINE st == seq_to_stream(s)
           d == SeqRmCells(s, -1, -1)
           h == FreedHead(cells[st], d, heads[st])
           n == Cardinality(DOMAIN saved)
           F == Slots(d, h, n)
<1>1. st \in Stream /\ Sound(cells[st]) /\ Sound(d)
  BY StreamOf, SoundOf, SeqRmCellsSound DEF IInv
<1>2. Within(cells[st], d)
  BY <1>1, SeqRmWithin DEF SeqRmCells
<1>3. pc = "idle" /\ "read" \in Ops
  BY DEF state_read, Idle
<1>4. sc = <<>> /\ AllHold(cells, rows, want) /\ Unshifted(cells) /\ SavedRowsOK
  BY <1>3, SavedInPlace
<1>5. CASE Edit(st, d, h)
  <2> HIDE DEF st, d, h
  <2> QED BY <1>1, <1>2, <1>3, <1>5, EditWithin
<1>6. ASSUME NEW f \in F, NEW e \in Increasing(DOMAIN saved),
             cells' = [cells EXCEPT ![st] = ApplyGroup(d, f, SavedToks(s, e))],
             rows' = [rows EXCEPT ![st] = SavedRows(rows[st], f, e)],
             want' = Known([want EXCEPT ![st] = SavedWant(want[st], f, e)], cells'),
             sc' = sc, pc' = pc, saved' = saved
      PROVE  RInv'
  <2>1. n \in Nat
    BY SubsetFinite DEF IInv, SavedOK
  <2>2. f \in [1..n -> Cell] /\ e \in [1..n -> DOMAIN saved]
    BY DEF Slots, Increasing
  <2>3. PICK A, R, W : /\ A = ApplyGroup(d, f, SavedToks(s, e))
                       /\ R = SavedRows(rows[st], f, e) /\ W = SavedWant(want[st], f, e)
    OBVIOUS
  <2>4. rows[st] \in [Cell -> RowType] /\ want[st] \in [Cell -> Int]
    BY <1>1 DEF RInv, RowsOf, WantOf
  <2>5. \A i \in Cell : Holds(d, rows[st], want[st], i)
    BY <1>1, <1>2, <1>4 DEF AllHold, Holds, Within
  <2> HIDE DEF st, d, h, n, F
  <2>6. R \in [Cell -> RowType] /\ W \in [Cell -> Int] /\ \A i \in Cell : Holds(A, R, W, i)
    BY <1>1, <1>3, <1>4, <2>1, <2>2, <2>3, <2>4, <2>5, RestoredHolds
  <2>7. PICK w1 : w1 = [want EXCEPT ![st] = W]
    OBVIOUS
  <2>8. w1 \in WantOf /\ \A t \in Stream : w1[t] = IF t = st THEN W ELSE want[t]
    BY <1>1, <2>6, <2>7 DEF RInv, WantOf
  <2>9. rows' \in RowsOf /\ \A t \in Stream : rows'[t] = IF t = st THEN R ELSE rows[t]
    BY <1>1, <1>6, <2>3, <2>6 DEF RInv, RowsOf
  <2>10. \A t \in Stream : cells'[t] = IF t = st THEN A ELSE cells[t]
    BY <1>6, <2>3 DEF IInv, StreamsSound
  <2>11. want' = Known(w1, cells')
    BY <1>6, <2>3, <2>7
  <2>12. want' \in WantOf /\ \A t \in Stream : \A i \in Cell :
                                ~IsEmpty(cells'[t], i) => want'[t][i] = w1[t][i]
    BY <2>8, <2>11, KnownHolds
  <2>13. \A t \in Stream : \A i \in Cell : Holds(cells'[t], rows'[t], want'[t], i)
    <3> SUFFICES ASSUME NEW t \in Stream, NEW i \in Cell
                 PROVE  Holds(cells'[t], rows'[t], want'[t], i)
      OBVIOUS
    <3>1. CASE t = st
      BY <2>6, <2>8, <2>9, <2>10, <2>12, <3>1 DEF Holds
    <3>2. CASE t # st
      BY <1>4, <2>8, <2>9, <2>10, <2>12, <3>2 DEF AllHold, Holds
    <3> QED BY <3>1, <3>2
  <2>14. AllHold(cells', rows', want')
    BY <2>13 DEF AllHold
  <2>15. sc' = <<>>
    BY <1>4, <1>6
  <2>16. Arrives(cells', rows', want', sc')
    BY <2>14, <2>15, ArrivesNone
  <2>17. \A t \in Stream : \A i \in Cell : cells'[t].shift[i] = 0
    <3>1. Sound(d) /\ \A i \in Cell : d.shift[i] = 0
      <4>1. \A i \in Cell : IsEmpty(d, i) => d.shift[i] = 0
        BY <1>1 DEF Sound, Shaped
      <4> QED BY <1>1, <1>2, <1>4, <4>1 DEF Within, Unshifted
    <3>2. PICK tk : tk = SavedToks(s, e)
      OBVIOUS
    <3>3. tk \in Seq(Token) /\ Len(tk) = n /\ f \in Seq(Cell) /\ Len(f) = n
      <4>1. \A a \in 1..n : [pos |-> saved[e[a]].pos, seq |-> {s}] \in Token
        BY <2>2 DEF IInv, SavedOK, Token
      <4> QED BY <2>1, <2>2, <3>2, <4>1 DEF SavedToks
    <3>4. ShiftsKept(d, A)
      BY <2>3, <3>1, <3>2, <3>3, ApplyGroupSound
    <3>5. \A i \in Cell : A.shift[i] = 0
      BY <3>1, <3>4 DEF ShiftsKept
    <3> QED BY <1>4, <2>10, <3>5 DEF Unshifted
  <2>18. Unshifted(cells') /\ SavedRowsOK'
    BY <1>4, <1>6, <2>17 DEF Unshifted, SavedRowsOK
  <2> QED BY <1>3, <1>6, <2>9, <2>12, <2>16, <2>18 DEF RInv
<1> QED BY <1>5, <1>6 DEF state_read

-----------------------------------------------------------------------------
(* A decode *)

\* In a batch without coupled sequences each token belongs to one.
LEMMA BatchSingle ==
  ASSUME ~SharedBatch, NEW ubs \in Batches, Admitted(ubs)
  PROVE  Single(ubs)
<1>1. ASSUME NEW j \in DOMAIN ubs, NEW g \in DOMAIN ubs[j].strm, NEW t \in Range(ubs[j].toks[g])
      PROVE  t.seq \subseteq SeqId
  <2>1. UbatchOK(ubs[j])
    BY AdmittedEach, SMTT(30) DEF Admitted
  <2>2. ubs[j].toks[g] \in Seq(Token)
    BY <2>1, GroupFields
  <2>3. t \in Token
    BY <2>2 DEF Range
  <2> QED BY <2>3 DEF Token
<1>2. PICK b \in Lists : ubs = IF NStream = 1 THEN split_simple(b) ELSE split_equal(b)
  BY DEF Batches
<1>3. PICK n \in 1..MaxBatch :
         b \in [1..n -> {t \in Token : \E s \in SeqId : t.seq = {s}}]
  BY DEF Lists
<1>4. ASSUME NEW i \in DOMAIN b
      PROVE  \E x \in SeqId : b[i].seq = {x} /\ TokOf(b[i]) = x
  <2>1. PICK x \in SeqId : b[i].seq = {x}
    BY <1>3
  <2>2. x \in Int
    BY DEF SeqId
  <2>3. Min({x}) = x
    BY <2>2 DEF Min
  <2> QED BY <2>1, <2>2, <2>3 DEF TokOf
<1>5. ASSUME NEW I \in SUBSET DOMAIN b, NEW t \in Range(Picked(b, I))
      PROVE  \E i \in I : t = b[i]
  <2>1. PICK k \in DOMAIN Picked(b, I) : t = Picked(b, I)[k]
    BY <1>5 DEF Range
  <2>2. k \in 1..Cardinality(I) /\ t = b[Nth(I, k)]
    BY <2>1 DEF Picked
  <2>3. Nth(I, k) \in I
    <3>1. (\A x \in I : x \in Int) /\ IsFiniteSet(I)
      <4>1. n \in Nat /\ I \in SUBSET (1..n)
        BY <1>3, ConfigAssumption
      <4> QED BY <4>1, PlacesFinite
    <3> QED BY <2>2, <3>1, NthPlace
  <2> QED BY <2>2, <2>3
<1>6. CASE NStream = 1
  <2>1. ASSUME NEW j \in DOMAIN ubs, NEW g \in DOMAIN ubs[j].strm,
               NEW t \in Range(ubs[j].toks[g])
        PROVE  ubs[j].strm[g] = 0 /\ \E i \in DOMAIN b : t = b[i]
    <3>1. PICK I \in SUBSET DOMAIN b :
             ubs[j] = [strm |-> <<0>>, toks |-> <<Picked(b, I)>>]
      BY <1>2, <1>6, <2>1 DEF split_simple
    <3>2. ubs[j].strm = <<0>> /\ DOMAIN <<0>> = 1..1 /\ <<0>>[1] = 0
      BY <3>1
    <3>3. g = 1 /\ ubs[j].strm[g] = 0
      BY <2>1, <3>2
    <3>4. ubs[j].toks[g] = Picked(b, I)
      BY <3>1, <3>3
    <3> QED BY <1>5, <2>1, <3>3, <3>4
  <2>2. \A x : seq_to_stream(x) = 0
    BY <1>6 DEF seq_to_stream
  <2> QED BY <1>4, <2>1, <2>2 DEF Single
<1>7. CASE NStream # 1
  <2>1. ASSUME NEW j \in DOMAIN ubs, NEW g \in DOMAIN ubs[j].strm,
               NEW t \in Range(ubs[j].toks[g])
        PROVE  \E i \in DOMAIN b : t = b[i] /\ TokOf(b[i]) = ubs[j].strm[g]
    <3> DEFINE left    == Left(b)
               seqs(x) == {TokOf(b[i]) : i \in left[x - 1] \ left[x]}
    <3>1. ubs = split_equal(b)
      BY <1>2, <1>7
    <3>2. ubs[j] =
             [strm |-> [h \in 1..Cardinality(seqs(j)) |-> Min(seqs(j)) + h - 1],
              toks |-> [h \in 1..Cardinality(seqs(j)) |->
                 Picked(b, {i \in DOMAIN b : i \in left[j - 1] \ left[j]
                                             /\ TokOf(b[i]) = Min(seqs(j)) + h - 1})]]
      BY <2>1, <3>1 DEF split_equal
    <3> HIDE DEF left, seqs
    <3>3. PICK m, D, T :
             m = Min(seqs(j)) /\ D = 1..Cardinality(seqs(j)) /\ T = left[j - 1] \ left[j]
      OBVIOUS
    <3>4. ubs[j] =
             [strm |-> [h \in D |-> m + h - 1],
              toks |-> [h \in D |->
                 Picked(b, {i \in DOMAIN b : i \in T /\ TokOf(b[i]) = m + h - 1})]]
      BY <3>2, <3>3
    <3>5. PICK I \in SUBSET DOMAIN b :
             /\ I = {i \in DOMAIN b : i \in T /\ TokOf(b[i]) = m + g - 1}
             /\ ubs[j].strm[g] = m + g - 1 /\ ubs[j].toks[g] = Picked(b, I)
      BY <2>1, <3>4
    <3> QED BY <1>5, <2>1, <3>5
  <2>2. \A x : seq_to_stream(x) = x
    BY <1>7 DEF seq_to_stream
  <2> QED BY <1>4, <2>1, <2>2 DEF Single
<1> QED BY <1>6, <1>7

\* A decode starts with such a batch.
LEMMA DecodeRows ==
  ASSUME RowsSafe, IInv, RInv, Decode
  PROVE  RInv'
<1>1. PICK ubs \in Batches : Admitted(ubs) /\ job' = [NoJob EXCEPT !.ubs = ubs]
  BY DEF Decode
<1>2. job'.ubs = ubs
  BY <1>1 DEF NoJob
<1>3. "compute" \in Faults => Single(job'.ubs)
  BY <1>1, <1>2, BatchSingle DEF RowsSafe
<1>4. /\ pc = "idle" /\ pc' = "update" /\ cells' = cells /\ rows' = rows /\ want' = want
      /\ sc' = sc /\ saved' = saved
  BY DEF Decode, Idle
<1> QED BY <1>3, <1>4 DEF RInv, Unshifted, SavedRowsOK

\* A queued stream copy is carried out.
LEMMA CopyStreamRows ==
  ASSUME IInv, RInv, CopyStream
  PROVE  RInv'
<1>1. /\ pc = "update" /\ sc # <<>> /\ sc' = Tail(sc)
      /\ rows' = [rows EXCEPT ![Head(sc)[2]] = rows[Head(sc)[1]]]
      /\ cells' = cells /\ want' = want /\ pc' = pc /\ job' = job /\ saved' = saved
  BY DEF CopyStream
<1>2. sc \in Copies /\ rows \in RowsOf
  BY DEF IInv, Copies, RInv
<1>3. Arrives(cells, rows', want, sc')
  BY <1>1, <1>2, ArrivesCopy DEF RInv
<1>4. rows' \in RowsOf
  <2>1. Head(sc) \in {q \in Stream \X Stream : q[1] # q[2]}
    BY <1>1, <1>2 DEF Copies
  <2>2. Head(sc)[1] \in Stream
    BY <2>1
  <2> QED BY <1>1, <1>2, <2>2 DEF RowsOf
<1> QED BY <1>1, <1>3, <1>4 DEF RInv, Unshifted, SavedRowsOK

\* prepare() starts with every row in place.
LEMMA StartPrepareRows ==
  ASSUME RInv, pc = "update", sc = <<>>, sc' = sc, NEW cs, StartPrepare(cs), want' = want,
         saved' = saved, job \in Job, rows' \in RowsOf, AllHold(cells', rows', want'),
         "shift" \notin Faults => Unshifted(cells'),
         "read" \in Ops => Unshifted(cells')
  PROVE  RInv'
<1>1. /\ pc' = "prepare" /\ job'.placed = <<>> /\ job'.ubs = job.ubs
  BY DEF StartPrepare, Job
<1>2. Rehearsed(cells', rows', want', job'.ubs, job'.placed, Len(job'.placed))
  <2>1. Len(job'.placed) = 0 /\ 1..0 = {}
    BY <1>1
  <2> QED BY <2>1 DEF Rehearsed, AllHold
<1> QED BY <1>1, <1>2 DEF RInv, SavedRowsOK

\* The K-shift rotates each row by the shift of its cell; or there is none
\* pending; or it fails, and the shifts stay pending.
LEMMA UpdateRows ==
  ASSUME RowsSafe, IInv, RInv, KShift \/ KShiftFails \/ NoUpdate
  PROVE  RInv'
<1>1. /\ pc = "update" /\ sc = <<>> /\ sc' = sc /\ want' = want /\ saved' = saved
      /\ job \in Job
  BY DEF KShift, KShiftFails, NoUpdate, IInv, JobOK
<1>2. AllHold(cells, rows, want) /\ rows \in RowsOf
  BY <1>1, ArrivesNone DEF RInv
<1>3. CASE KShift
  <2>1. /\ cells' = [st \in Stream |-> ResetShift(cells[st])] /\ StartPrepare(cells')
        /\ rows' = [st \in Stream |-> [i \in Cell |->
                      IF IsEmpty(cells[st], i) THEN rows[st][i]
                      ELSE [rows[st][i] EXCEPT !.rot = @ + cells[st].shift[i]]]]
    BY <1>3 DEF KShift
  <2>2. ASSUME NEW st \in Stream, NEW i \in Cell
        PROVE  /\ cells'[st].pos[i] = cells[st].pos[i] /\ cells'[st].shift[i] = 0
               /\ cells[st].shift[i] \in Int /\ cells[st].pos[i] \in Int
    <3>1. cells[st] \in CellsType
      BY DEF IInv, StreamsSound
    <3>2. cells'[st] = [cells[st] EXCEPT !.shift = [k \in Cell |-> 0], !.hasShift = FALSE]
      BY <2>1 DEF ResetShift
    <3>3. cells'[st].pos = cells[st].pos /\ cells'[st].shift = [k \in Cell |-> 0]
      BY <3>1, <3>2 DEF CellsType
    <3>4. cells[st].shift \in [Cell -> Int] /\ cells[st].pos \in [Cell -> Pos \cup {-1}]
      BY <3>1, CellsFields
    <3> QED BY <3>3, <3>4 DEF Pos
  <2>3. ASSUME NEW st \in Stream, NEW i \in Cell
        PROVE  /\ rows'[st][i] \in RowType
               /\ rows'[st][i].tok = rows[st][i].tok
               /\ ~IsEmpty(cells[st], i) =>
                     rows'[st][i].rot = rows[st][i].rot + cells[st].shift[i]
    <3>1. PICK r, x : r = rows[st][i] /\ x = cells[st].shift[i]
      OBVIOUS
    <3>2. r \in RowType /\ x \in Int
      BY <1>2, <2>2, <3>1 DEF RowsOf
    <3>3. [r EXCEPT !.rot = r.rot + x] = [tok |-> r.tok, rot |-> r.rot + x]
      BY <3>2 DEF RowType
    <3>4. rows'[st][i] = IF IsEmpty(cells[st], i) THEN r ELSE [r EXCEPT !.rot = r.rot + x]
      BY <2>1, <3>1
    <3>5. r.tok \in Int /\ r.rot + x \in Int
      BY <3>2 DEF RowType
    <3> QED BY <3>1, <3>2, <3>3, <3>4, <3>5 DEF RowType
  <2>4. rows' \in RowsOf
    BY <2>1, <2>3 DEF RowsOf
  <2>5. ASSUME NEW st \in Stream, NEW i \in Cell, ~IsEmpty(cells'[st], i)
        PROVE  rows'[st][i].tok = want'[st][i] /\ rows'[st][i].rot + cells'[st].shift[i] = cells'[st].pos[i]
    <3>1. ~IsEmpty(cells[st], i)
      BY <2>2, <2>5 DEF IsEmpty
    <3>2. rows[st][i].tok = want[st][i] /\ rows[st][i].rot + cells[st].shift[i] = cells[st].pos[i]
      BY <1>2, <3>1 DEF AllHold, Holds
    <3>3. rows'[st][i].rot + 0 = rows'[st][i].rot
      BY <2>3 DEF RowType
    <3> QED BY <1>1, <2>2, <2>3, <3>1, <3>2, <3>3
  <2>6. AllHold(cells', rows', want') /\ Unshifted(cells')
    BY <2>2, <2>5 DEF AllHold, Holds, Unshifted
  <2> QED BY <1>1, <2>1, <2>4, <2>6, StartPrepareRows
<1>4. CASE KShiftFails
  <2>1. "shift" \in Faults /\ cells' = cells /\ rows' = rows /\ StartPrepare(cells)
    BY <1>4 DEF KShiftFails
  <2>2. "read" \in Ops => Unshifted(cells')
    BY <2>1 DEF RInv
  <2>3. AllHold(cells', rows', want')
    BY <1>1, <1>2, <2>1
  <2> QED BY <1>1, <1>2, <2>1, <2>2, <2>3, StartPrepareRows
<1>5. CASE NoUpdate
  <2>1. ~HasShift /\ cells' = cells /\ rows' = rows /\ StartPrepare(cells)
    BY <1>5 DEF NoUpdate
  <2>2. Unshifted(cells)
    BY <2>1, SoundOf DEF IInv, HasShift, Sound, Shaped, Unshifted
  <2>3. AllHold(cells', rows', want') /\ Unshifted(cells')
    BY <1>1, <1>2, <2>1, <2>2
  <2> QED BY <1>1, <1>2, <2>1, <2>3, StartPrepareRows
<1> QED BY <1>3, <1>4, <1>5

\* find_slot takes only cells it may take.
LEMMA FindSlotUses ==
  ASSUME NEW ub, UbatchOK(ub), Fits(ub), NEW g \in DOMAIN ub.strm,
         NEW i \in Range(find_slot(ub)[g])
  PROVE  CanUse(cells[ub.strm[g]], i)
<1>1. PICK n : n = Len(ub.toks[g])
  OBVIOUS
<1>2. PICK c, h, f : c = cells[ub.strm[g]] /\ h = heads[ub.strm[g]] /\ f = find_slot(ub)[g]
  OBVIOUS
<1>3. PICK S : S = Slots(c, h, n)
  OBVIOUS
<1>4. S # {} /\ f = CHOOSE x \in S : TRUE
  BY <1>1, <1>2, <1>3 DEF Fits, find_slot
<1>5. f \in S
  BY <1>4
<1>6. f \in [1..n -> Cell] /\ FirstFit(c, h, n, f)
  BY <1>3, <1>5 DEF Slots
<1>7. PICK a \in 1..n : i = f[a]
  BY <1>2, <1>6 DEF Range
<1>8. CanUse(c, f[a])
  BY <1>6 DEF FirstFit
<1> QED BY <1>2, <1>7, <1>8

\* Without a window only empty cells are taken.
LEMMA NoWindowEmpty ==
  ASSUME SwaType = "none", NEW c, NEW i, CanUse(c, i)
  PROVE  IsEmpty(c, i)
<1>1. \A x, y : ~is_masked_swa(x, y)
  BY DEF is_masked_swa
<1> QED BY <1>1 DEF CanUse

\* One more micro-batch is placed, on cells without a pending shift.
LEMMA RehearsedPlace ==
  ASSUME StreamsSound(cells), rows \in RowsOf, NEW ub, UbatchOK(ub),
         NEW sinfo, SlotsFor(ub, sinfo), NEW n \in Nat, NEW ubs, NEW placed, NEW longer,
         Rehearsed(cells, rows, want, ubs, placed, n), ubs[n + 1] = ub,
         \A j \in 1..n : longer[j] = placed[j], longer[n + 1].idxs = sinfo,
         \A g \in DOMAIN ub.strm :
            longer[n + 1].old[g] = Copy(cells[ub.strm[g]], Range(sinfo[g])),
         \A g \in DOMAIN ub.strm : \A i \in Range(sinfo[g]) :
            ~IsEmpty(cells[ub.strm[g]], i) => cells[ub.strm[g]].shift[i] = 0
  PROVE  Rehearsed(ApplyCells(ub, sinfo), rows, want, ubs, longer, n + 1)
<1>1. PICK A : A = ApplyCells(ub, sinfo)
  OBVIOUS
<1>2. ASSUME NEW st \in Stream, NEW i \in Cell,
             \A j \in 1..n : ~InSlot(ubs[j], longer[j].idxs, st, i)
      PROVE  Holds(cells[st], rows[st], want[st], i)
  <2>1. \A j \in 1..n : ~InSlot(ubs[j], placed[j].idxs, st, i)
    BY <1>2
  <2> QED BY <2>1 DEF Rehearsed
<1>3. ASSUME NEW st \in Stream, NEW i \in Cell,
             \A j \in 1..(n + 1) : ~InSlot(ubs[j], longer[j].idxs, st, i)
      PROVE  Holds(A[st], rows[st], want[st], i)
  <2>1. \A j \in 1..n : j \in 1..(n + 1)
    OBVIOUS
  <2>2. Holds(cells[st], rows[st], want[st], i)
    BY <1>2, <1>3, <2>1
  <2>3. n + 1 \in 1..(n + 1)
    OBVIOUS
  <2>4. ~InSlot(ub, sinfo, st, i)
    BY <1>3, <2>3
  <2>5. ~IsEmpty(A[st], i) => /\ ~IsEmpty(cells[st], i)
                              /\ A[st].pos[i] = cells[st].pos[i]
                              /\ A[st].shift[i] = cells[st].shift[i]
    BY <1>1, <2>4, ApplyMoves
  <2> QED BY <2>2, <2>5 DEF Holds
<1>4. ASSUME NEW st \in Stream, NEW i \in Cell, NEW j \in 1..(n + 1),
             \A l \in 1..(j - 1) : ~InSlot(ubs[l], longer[l].idxs, st, i),
             NEW g \in DOMAIN ubs[j].strm, ubs[j].strm[g] = st, i \in Range(longer[j].idxs[g])
      PROVE  Was(longer[j].old[g][i], rows[st][i], want[st][i])
  <2>1. CASE j \in 1..n
    <3>1. \A l \in 1..(j - 1) : l \in 1..n /\ longer[l] = placed[l]
      BY <2>1
    <3>2. longer[j] = placed[j]
      BY <2>1
    <3>3. \A l \in 1..(j - 1) : ~InSlot(ubs[l], placed[l].idxs, st, i)
      BY <1>4, <3>1
    <3> QED BY <1>4, <2>1, <3>2, <3>3 DEF Rehearsed
  <2>2. CASE j \notin 1..n
    <3>1. j = n + 1 /\ j - 1 = n
      BY <2>2
    <3>2. Holds(cells[st], rows[st], want[st], i)
      BY <1>2, <1>4, <3>1
    <3>3. /\ g \in DOMAIN ub.strm /\ ub.strm[g] = st /\ i \in Range(sinfo[g])
          /\ longer[j].old[g] = Copy(cells[st], Range(sinfo[g]))
      BY <1>4, <3>1
    <3>4. longer[j].old[g][i].pos = cells[st].pos[i]
      BY <3>3 DEF Copy
    <3>5. rows[st][i].rot \in Int
      BY DEF RowsOf, RowType
    <3>6. ~IsEmpty(cells[st], i) => cells[st].shift[i] = 0
      BY <3>3
    <3> QED BY <3>2, <3>4, <3>5, <3>6 DEF Holds, Was, IsEmpty
  <2> QED BY <2>1, <2>2
<1> QED BY <1>1, <1>3, <1>4 DEF Rehearsed

\* prepare() places a micro-batch.
LEMMA PlaceUbatchRows ==
  ASSUME RowsSafe, IInv, RInv, PlaceUbatch
  PROVE  RInv'
<1>1. PICK ub, sinfo, n : /\ ub = job.ubs[job.k] /\ sinfo = find_slot(ub)
                          /\ n = Len(job.placed)
  OBVIOUS
<1>2. PICK p : p = [idxs |-> sinfo,
                    old |-> [g \in DOMAIN sinfo |-> Copy(cells[ub.strm[g]], Range(sinfo[g]))],
                    heads |-> heads]
  OBVIOUS
<1>3. /\ pc = "prepare" /\ pc' = pc /\ Fits(ub)
      /\ job' = [job EXCEPT !.k = job.k + 1, !.placed = Append(job.placed, p)]
      /\ cells' = ApplyCells(ub, sinfo)
      /\ job.k <= Len(job.ubs)
      /\ rows' = rows /\ want' = want /\ sc' = sc /\ saved' = saved
  BY <1>1, <1>2 DEF PlaceUbatch
<1>4. /\ job \in Job /\ Admitted(job.ubs) /\ StreamsSound(cells) /\ heads \in Heads
      /\ job.placed \in Seq(Placement) /\ job.k = n + 1 /\ n \in Nat
  BY <1>1, <1>3 DEF IInv, JobOK, Job
<1>5. UbatchOK(ub)
  <2>1. job.k \in 1..Len(job.ubs)
    BY <1>3, <1>4 DEF Admitted
  <2> QED BY <1>1, <1>4, <2>1, AdmittedEach
<1>6. SlotsFor(ub, sinfo)
  BY <1>1, <1>3, <1>5, FindSlot
<1>7. job'.ubs = job.ubs /\ job'.placed = Append(job.placed, p)
  BY <1>3, <1>4 DEF Job
<1>8. /\ Len(job'.placed) = n + 1
      /\ \A j \in 1..n : job'.placed[j] = job.placed[j]
      /\ job'.placed[n + 1] = p
  BY <1>1, <1>4, <1>7
<1>9. p.idxs = sinfo /\ \A g \in DOMAIN ub.strm :
                           p.old[g] = Copy(cells[ub.strm[g]], Range(sinfo[g]))
  <2>1. DOMAIN sinfo = DOMAIN ub.strm
    BY <1>5, <1>6 DEF SlotsFor, UbatchOK, Ubatch
  <2> QED BY <1>2, <2>1
<1>10. ASSUME NEW g \in DOMAIN ub.strm, NEW i \in Range(sinfo[g]),
              ~IsEmpty(cells[ub.strm[g]], i)
       PROVE  cells[ub.strm[g]].shift[i] = 0
  <2>1. CASE "shift" \in Faults
    <3>1. CanUse(cells[ub.strm[g]], i)
      BY <1>1, <1>3, <1>5, FindSlotUses
    <3> QED BY <1>10, <2>1, <3>1, NoWindowEmpty DEF RowsSafe
  <2>2. CASE "shift" \notin Faults
    <3>1. ub.strm[g] \in Stream /\ sinfo[g] \in Seq(Cell)
      BY <1>5, <1>6, GroupFields DEF SlotsFor
    <3>2. i \in Cell
      BY <3>1 DEF Range
    <3> QED BY <1>3, <2>2, <3>1, <3>2 DEF RInv, Unshifted
  <2> QED BY <2>1, <2>2
<1>11. Rehearsed(cells', rows, want, job.ubs, job'.placed, n + 1)
  <2>1. PICK ubs, placed, longer : ubs = job.ubs /\ placed = job.placed /\ longer = job'.placed
    OBVIOUS
  <2>2. Rehearsed(cells, rows, want, ubs, placed, n)
    BY <1>1, <1>3, <2>1 DEF RInv
  <2>3. /\ ubs[n + 1] = ub /\ longer[n + 1].idxs = sinfo
        /\ \A j \in 1..n : longer[j] = placed[j]
        /\ \A g \in DOMAIN ub.strm :
              longer[n + 1].old[g] = Copy(cells[ub.strm[g]], Range(sinfo[g]))
    BY <1>1, <1>4, <1>8, <1>9, <2>1
  <2>4. rows \in RowsOf
    BY DEF RInv
  <2>5. Rehearsed(ApplyCells(ub, sinfo), rows, want, ubs, longer, n + 1)
    <3>1. \A g \in DOMAIN ub.strm : \A i \in Range(sinfo[g]) :
             ~IsEmpty(cells[ub.strm[g]], i) => cells[ub.strm[g]].shift[i] = 0
      BY <1>10
    <3>2. StreamsSound(cells) /\ n \in Nat
      BY <1>4 DEF IInv
    <3> QED BY <1>5, <1>6, <2>2, <2>3, <2>4, <3>1, <3>2, RehearsedPlace, ZenonT(60)
  <2> QED BY <1>3, <2>1, <2>5
<1>12. Unshifted(cells) => Unshifted(cells')
  BY <1>3, <1>4, <1>5, <1>6, ApplySound DEF Unshifted, ShiftsKept
<1> QED BY <1>3, <1>7, <1>8, <1>11, <1>12 DEF RInv, SavedRowsOK

\* prepare() turns round.
LEMMA StartRestoreRows ==
  ASSUME IInv, RInv, pc = "prepare", NEW ok, StartRestore(ok)
  PROVE  RInv'
<1>1. /\ pc' = "restore" /\ cells' = cells /\ rows' = rows /\ want' = want
      /\ sc' = sc /\ saved' = saved
      /\ job' = [job EXCEPT !.ok = ok, !.k = Len(job.placed)]
  BY DEF StartRestore
<1>2. job'.ubs = job.ubs /\ job'.placed = job.placed /\ job'.k = Len(job.placed)
  BY <1>1 DEF IInv, JobOK, Job
<1> QED BY <1>1, <1>2 DEF RInv, Unshifted, SavedRowsOK

\* What set() puts back on the cells of the slot has its rows.
LEMMA RestoredRows ==
  ASSUME IInv, RInv, pc = "restore", job.k > 0, NEW st \in Stream, NEW i \in Cell,
         \A j \in 1..(job.k - 1) : ~InSlot(job.ubs[j], job.placed[j].idxs, st, i)
  PROVE  Holds(RestoredCells[st], rows[st], want[st], i)
<1>1. PICK ub, p, k : k = job.k /\ ub = job.ubs[k] /\ p = job.placed[k]
  OBVIOUS
<1>2. /\ Admitted(job.ubs) /\ StreamsSound(cells)
      /\ job.placed \in Seq(Placement) /\ k \in Nat /\ k > 0
      /\ k <= Len(job.placed) /\ Len(job.placed) <= Len(job.ubs)
      /\ job.ubs \in Seq(Ubatch)
  BY <1>1 DEF IInv, JobOK, Job
<1>3. k \in DOMAIN job.placed /\ k \in 1..Len(job.ubs)
  BY <1>2
<1>4. UbatchOK(ub) /\ p \in Placement
  BY <1>1, <1>2, <1>3, AdmittedEach
<1>5. PlacedFor(p, ub) /\ Settled(p, ub, cells)
  BY <1>1, <1>3 DEF IInv, JobOK
<1>6. Rehearsed(cells, rows, want, job.ubs, job.placed, k)
  BY <1>1 DEF RInv
<1>7. RestoredCells[st].shift = cells[st].shift
  BY RestoreSound
<1>8. CASE st \in Range(ub.strm)
  <2>1. PICK g \in DOMAIN ub.strm : g = GroupOf(ub, st) /\ ub.strm[g] = st
    BY <1>4, <1>8, GroupOfStream
  <2>2. RestoredCells[st] = Set(cells[st], p.old[g])
    BY <1>1, <1>8, <2>1 DEF RestoredCells
  <2>3. g \in 1..Len(ub.strm) /\ g \in 1..Len(p.old)
    BY <1>4, <1>5, GroupFields DEF PlacedFor
  <2>4. PICK D \in SUBSET Cell : p.old[g] \in [D -> OldCell]
    <3>1. PICK U : U = UNION {[D -> OldCell] : D \in SUBSET Cell}
      OBVIOUS
    <3>2. p.old \in Seq(U)
      BY <1>4, <3>1 DEF Placement
    <3>3. p.old[g] \in U
      BY <2>3, <3>2
    <3> QED BY <3>1, <3>3
  <2>5. DOMAIN p.old[g] = Range(p.idxs[g]) /\ DOMAIN p.old[g] \subseteq Cell
    BY <1>5, <2>4 DEF PlacedFor
  <2>6. \A x \in DOMAIN p.old[g] : /\ p.old[g][x].pos \in Pos \cup {-1}
                                   /\ p.old[g][x].seq \in SUBSET SeqId
    BY <2>4 DEF OldCell
  <2>7. Sound(cells[st])
    BY <1>2, SoundOf
  <2>8. RestoredCells[st].pos[i] = IF i \in Range(p.idxs[g]) THEN p.old[g][i].pos
                                                            ELSE cells[st].pos[i]
    BY <2>2, <2>5, <2>6, <2>7, SetFields
  <2>9. CASE i \in Range(p.idxs[g])
    <3>1. k \in 1..k
      BY <1>2
    <3>2. Was(p.old[g][i], rows[st][i], want[st][i])
      BY <1>1, <1>6, <2>1, <2>9, <3>1 DEF Rehearsed
    <3>3. RestoredCells[st].shift[i] = 0
      BY <1>5, <1>7, <2>1, <2>9 DEF Settled
    <3>4. rows[st][i].rot \in Int
      BY DEF RInv, RowsOf, RowType
    <3> QED BY <2>8, <2>9, <3>2, <3>3, <3>4 DEF Holds, Was, IsEmpty
  <2>10. CASE i \notin Range(p.idxs[g])
    <3>1. ~InSlot(ub, p.idxs, st, i)
      <4>1. \A h \in DOMAIN ub.strm : ub.strm[h] = st => h = g
        BY <1>4, <2>1, GroupFields
      <4> QED BY <2>10, <4>1 DEF InSlot
    <3>2. \A j \in 1..k : ~InSlot(job.ubs[j], job.placed[j].idxs, st, i)
      <4>1. \A j \in 1..k : j = k \/ j \in 1..(k - 1)
        BY <1>2
      <4> QED BY <1>1, <3>1, <4>1
    <3>3. Holds(cells[st], rows[st], want[st], i)
      BY <1>6, <3>2 DEF Rehearsed
    <3> QED BY <1>7, <2>8, <2>10, <3>3 DEF Holds, IsEmpty
  <2> QED BY <2>9, <2>10
<1>9. CASE st \notin Range(ub.strm)
  <2>1. RestoredCells[st] = cells[st]
    BY <1>1, <1>9 DEF RestoredCells
  <2>2. ~InSlot(ub, p.idxs, st, i)
    BY <1>9 DEF InSlot, Range
  <2>3. \A j \in 1..k : ~InSlot(job.ubs[j], job.placed[j].idxs, st, i)
    <3>1. \A j \in 1..k : j = k \/ j \in 1..(k - 1)
      BY <1>2
    <3> QED BY <1>1, <2>2, <3>1
  <2> QED BY <1>6, <2>1, <2>3 DEF Rehearsed
<1> QED BY <1>8, <1>9

\* One placement is undone.
LEMMA RestoreUbatchRows ==
  ASSUME IInv, RInv, RestoreUbatch
  PROVE  RInv'
<1>1. /\ pc = "restore" /\ pc' = pc /\ job.k > 0 /\ cells' = RestoredCells
      /\ job' = [job EXCEPT !.k = job.k - 1]
      /\ rows' = rows /\ want' = want /\ sc' = sc /\ saved' = saved
  BY DEF RestoreUbatch
<1>2. job'.ubs = job.ubs /\ job'.placed = job.placed /\ job'.k = job.k - 1 /\ job.k \in Nat
  BY <1>1 DEF IInv, JobOK, Job
<1>3. \A st \in Stream : cells'[st].shift = cells[st].shift
  BY <1>1, RestoreSound
<1>4. ASSUME NEW st \in Stream, NEW i \in Cell,
             \A j \in 1..(job.k - 1) : ~InSlot(job.ubs[j], job.placed[j].idxs, st, i)
      PROVE  Holds(cells'[st], rows[st], want[st], i)
  BY <1>1, <1>4, RestoredRows
<1>5. Rehearsed(cells, rows, want, job.ubs, job.placed, job.k)
  BY <1>1 DEF RInv
<1>6. \A j \in 1..(job.k - 1) : j \in 1..job.k
  BY <1>2
<1>7. Rehearsed(cells', rows, want, job.ubs, job.placed, job.k - 1)
  BY <1>4, <1>5, <1>6 DEF Rehearsed
<1>8. Unshifted(cells) => Unshifted(cells')
  BY <1>3 DEF Unshifted
<1> QED BY <1>1, <1>2, <1>7, <1>8 DEF RInv, SavedRowsOK

\* The rehearsal is over: every row is with its cell again.
LEMMA EndPrepareRows ==
  ASSUME IInv, RInv, EndPrepare
  PROVE  RInv'
<1>1. /\ pc = "restore" /\ job.k = 0 /\ cells' = cells /\ rows' = rows /\ want' = want
      /\ sc' = sc /\ saved' = saved
  BY DEF EndPrepare
<1>2. AllHold(cells, rows, want)
  <2>1. Rehearsed(cells, rows, want, job.ubs, job.placed, 0) /\ 1..0 = {}
    BY <1>1 DEF RInv
  <2> QED BY <2>1 DEF Rehearsed, AllHold
<1>3. sc = <<>> /\ Arrives(cells, rows, want, sc)
  <2>1. sc = <<>>
    BY <1>1 DEF RInv
  <2> QED BY <1>2, <2>1, ArrivesNone
<1>4. \/ pc' = "compute" /\ job'.ubs = job.ubs
      \/ pc' = "update" /\ job'.ubs = job.ubs
      \/ pc' = "idle"
  BY DEF EndPrepare, IInv, JobOK, Job
<1> QED BY <1>1, <1>2, <1>3, <1>4 DEF RInv, Unshifted, SavedRowsOK

\* The micro-batch about to be computed and the slot prepare() found for it.
LEMMA ComputedSlot ==
  ASSUME IInv, pc = "compute", NEW ub, NEW sinfo,
         ub = job.ubs[job.k], sinfo = job.placed[job.k].idxs
  PROVE  UbatchOK(ub) /\ SlotsFor(ub, sinfo)
<1>1. PICK p : p = job.placed[job.k]
  OBVIOUS
<1>2. /\ Admitted(job.ubs) /\ job.placed \in Seq(Placement) /\ job.k \in 1..Len(job.ubs)
      /\ Len(job.placed) = Len(job.ubs)
  BY DEF IInv, JobOK, Job
<1>3. UbatchOK(ub)
  BY <1>2, AdmittedEach
<1>4. p \in Placement /\ PlacedFor(p, ub)
  BY <1>1, <1>2 DEF IInv, JobOK
<1> QED BY <1>1, <1>3, <1>4 DEF SlotsFor, PlacedFor, Placement

\* The graph of a micro-batch has written its rows.
LEMMA ComputeUbatchRows ==
  ASSUME IInv, RInv, ComputeUbatch
  PROVE  RInv'
<1>1. PICK ub, sinfo : ub = job.ubs[job.k] /\ sinfo = job.placed[job.k].idxs
  OBVIOUS
<1>2. PICK R, W : R = Written(rows, ub, sinfo, RowOf) /\ W = Written(want, ub, sinfo, TokOf)
  OBVIOUS
<1>3. /\ pc = "compute" /\ cells' = ApplyCells(ub, sinfo) /\ rows' = R
      /\ want' = Known(W, cells') /\ sc' = sc /\ saved' = saved
  BY <1>1, <1>2 DEF ComputeUbatch
<1>4. UbatchOK(ub) /\ SlotsFor(ub, sinfo)
  BY <1>1, <1>3, ComputedSlot
<1>5. StreamsSound(cells) /\ heads \in Heads /\ rows \in RowsOf /\ want \in WantOf
  BY DEF IInv, RInv
<1>6. R \in RowsOf /\ W \in WantOf
  BY <1>2, <1>4, <1>5, WrittenRows, WrittenWant
<1>7. AllHold(cells', R, W)
  BY <1>2, <1>3, <1>4, <1>5, ApplyHolds DEF RInv
<1>8. want' \in WantOf /\ \A st \in Stream : \A i \in Cell :
                             ~IsEmpty(cells'[st], i) => want'[st][i] = W[st][i]
  BY <1>3, <1>6, KnownHolds
<1>9. AllHold(cells', rows', want')
  BY <1>3, <1>7, <1>8 DEF AllHold, Holds
<1>10. sc' = <<>> /\ Arrives(cells', rows', want', sc')
  <2>1. sc' = <<>>
    BY <1>3 DEF RInv
  <2> QED BY <1>9, <2>1, ArrivesNone
<1>11. Unshifted(cells) => Unshifted(cells')
  BY <1>3, <1>4, <1>5, ApplySound DEF Unshifted, ShiftsKept
<1>12. (pc' = "compute" /\ job'.ubs = job.ubs) \/ pc' = "idle"
  BY <1>3 DEF ComputeUbatch, IInv, JobOK, Job
<1> QED BY <1>3, <1>6, <1>8, <1>9, <1>10, <1>11, <1>12 DEF RInv, SavedRowsOK

\* A cell that is filled gets the sequences of its token besides its own.
LEMMA EmplaceSeq ==
  ASSUME NEW c, Sound(c), NEW at, DOMAIN at \subseteq Cell,
         \A i \in DOMAIN at : at[i].pos \in Pos /\ at[i].seq \in SUBSET SeqId
  PROVE  \A i \in Cell : Emplace(c, at).seq[i]
                           = c.seq[i] \cup (IF i \in DOMAIN at THEN at[i].seq ELSE {})
<1>1. PICK I : I = DOMAIN at
  OBVIOUS
<1>2. PICK A : A = [i \in Cell |-> IF i \in I THEN at[i].seq ELSE {}]
  OBVIOUS
<1>3. PICK pos2 : pos2 = [i \in Cell |-> IF i \in I THEN at[i].pos ELSE c.pos[i]]
  OBVIOUS
<1>4. PICK seq2 : seq2 = [i \in Cell |-> c.seq[i] \cup A[i]]
  OBVIOUS
<1>5. PICK used2 : used2 = c.used \cup I
  OBVIOUS
<1>6. PICK e : e = [c EXCEPT !.pos = pos2, !.seq = seq2, !.used = used2]
  OBVIOUS
<1>7. Emplace(c, at) = SeqPosInc(e, A)
  BY <1>1, <1>2, <1>3, <1>4, <1>5, <1>6 DEF Emplace
<1>8. /\ c \in CellsType
      /\ pos2 \in [Cell -> Pos \cup {-1}] /\ seq2 \in [Cell -> SUBSET SeqId]
      /\ used2 \in SUBSET Cell
  BY <1>1, <1>2, <1>3, <1>4, <1>5, CellsFields DEF Sound
<1>9. Edited(c, e, pos2, c.shift, seq2, used2, c.hasShift)
  BY <1>6, <1>8 DEF Edited, CellsType
<1>10. Recounted(e, Emplace(c, at), IncCount(e, A))
  BY <1>7, <1>9, IncFields DEF Edited
<1> QED BY <1>1, <1>2, <1>4, <1>9, <1>10 DEF Edited, Recounted

\* seq_rm() adds no sequence to a cell.
LEMMA SeqRmSeq ==
  ASSUME NEW c, Sound(c), NEW D
  PROVE  \A i \in Cell : SeqRm(c, D).seq[i] \subseteq c.seq[i]
<1>1. PICK seq2 : seq2 = [i \in Cell |-> c.seq[i] \ D[i]]
  OBVIOUS
<1>2. PICK m : m = SeqPosDec(c, D)
  OBVIOUS
<1>3. PICK e : e = [m EXCEPT !.seq = seq2]
  OBVIOUS
<1>4. PICK gone : gone = {i \in Cell : D[i] # {} /\ e.seq[i] = {}}
  OBVIOUS
<1>5. Recounted(c, m, DecCount(c, D))
  BY <1>2, DecFields DEF Sound
<1>6. seq2 \in [Cell -> SUBSET SeqId]
  BY <1>1, CellsFields DEF Sound
<1>7. Edited(m, e, m.pos, m.shift, seq2, m.used, m.hasShift)
  BY <1>3, <1>5, <1>6 DEF Recounted, Edited, CellsType
<1>8. SeqRm(c, D) = Vacate(e, gone)
  BY <1>1, <1>2, <1>3, <1>4 DEF SeqRm
<1>9. Vacated(e, SeqRm(c, D), gone)
  BY <1>7, <1>8, VacateFields DEF Edited
<1> QED BY <1>1, <1>7, <1>9 DEF Edited, Vacated

\* A cell of the slot belongs to the sequences of its token, at most.
LEMMA ApplyGroupSeq ==
  ASSUME NEW c, Sound(c), NEW f \in Seq(Cell), NEW toks \in Seq(Token), Len(toks) = Len(f),
         NEW i \in Range(f)
  PROVE  ApplyGroup(c, f, toks).seq[i] \subseteq TokAt(f, toks, i).seq
<1>0. PICK over : over = {j \in Range(f) : ~IsEmpty(c, j)}
  OBVIOUS
<1>1. PICK at : at = [j \in Range(f) |-> TokAt(f, toks, j)]
  OBVIOUS
<1>2. PICK r : r = Rm(c, over)
  OBVIOUS
<1>3. PICK d : d = Emplace(r, at)
  OBVIOUS
<1>4. PICK purge : purge = [k \in Cell |-> {s \in d.seq[k] :
                      \E j \in {k2 \in over : s \in c.seq[k2]} : d.pos[k] <= c.pos[j]}]
  OBVIOUS
<1>5. ApplyGroup(c, f, toks) = SeqRm(d, purge)
  BY <1>0, <1>1, <1>2, <1>3, <1>4 DEF ApplyGroup, TokAt
<1>6. Range(f) \subseteq Cell /\ over \in SUBSET Cell
  BY <1>0 DEF Range
<1>7. Sound(r) /\ \A j \in Range(f) : IsEmpty(r, j)
  BY <1>0, <1>2, <1>6, RmSound
<1>8. \A j \in Range(f) : at[j] \in Token
  BY <1>1, TokAtType
<1>9. DOMAIN at = Range(f) /\ DOMAIN at \subseteq Cell
  BY <1>1, <1>6
<1>10. \A j \in DOMAIN at : /\ IsEmpty(r, j) /\ at[j].pos \in Pos
                            /\ at[j].seq \in SUBSET SeqId /\ at[j].seq # {}
  BY <1>7, <1>8, <1>9 DEF Token
<1>11. Sound(d)
  BY <1>3, <1>7, <1>9, <1>10, EmplaceSound
<1>12. d.seq[i] = r.seq[i] \cup at[i].seq
  BY <1>3, <1>6, <1>7, <1>9, <1>10, EmplaceSeq
<1>13. r.seq[i] = {}
  BY <1>6, <1>7 DEF Sound, Shaped
<1>14. SeqRm(d, purge).seq[i] \subseteq d.seq[i]
  BY <1>6, <1>11, SeqRmSeq
<1> QED BY <1>1, <1>5, <1>12, <1>13, <1>14

\* So on all streams.
LEMMA ApplySeq ==
  ASSUME StreamsSound(cells), NEW ub, UbatchOK(ub), NEW sinfo, SlotsFor(ub, sinfo),
         NEW st \in Stream, NEW i \in Cell, InSlot(ub, sinfo, st, i)
  PROVE  ApplyCells(ub, sinfo)[st].seq[i] \subseteq PutAt(ub, sinfo, st, i).seq
<1>1. PICK g : g = GroupOf(ub, st)
  OBVIOUS
<1>2. /\ sinfo[g] \in Seq(Cell) /\ ub.toks[g] \in Seq(Token)
      /\ Len(ub.toks[g]) = Len(sinfo[g])
      /\ st \in Range(ub.strm) /\ i \in Range(sinfo[g])
  BY <1>1, SlotGroup
<1>3. ApplyCells(ub, sinfo)[st] = ApplyGroup(cells[st], sinfo[g], ub.toks[g])
  BY <1>1, <1>2 DEF ApplyCells
<1>4. Sound(cells[st])
  BY SoundOf
<1>5. PutAt(ub, sinfo, st, i) = TokAt(sinfo[g], ub.toks[g], i)
  BY <1>1 DEF PutAt
<1> QED BY <1>2, <1>3, <1>4, <1>5, ApplyGroupSeq

\* The clean-up after a failed graph removes the sequence of a token from its
\* cell: from its position on, and it is one of the micro-batch.
LEMMA SlotCleaned ==
  ASSUME IInv, pc = "compute", Single(job.ubs), NEW ub, NEW sinfo,
         ub = job.ubs[job.k], sinfo = job.placed[job.k].idxs,
         NEW st \in Stream, NEW i \in Cell, InSlot(ub, sinfo, st, i),
         NEW A, A = ApplyCells(ub, sinfo), ~IsEmpty(A[st], i), NEW s \in A[st].seq[i]
  PROVE  /\ seq_to_stream(s) = st /\ FirstPos(ub, s) # {}
         /\ A[st].pos[i] >= Min(FirstPos(ub, s))
<1>1. UbatchOK(ub) /\ SlotsFor(ub, sinfo) /\ StreamsSound(cells)
  BY ComputedSlot DEF IInv
<1>2. PICK t : t = PutAt(ub, sinfo, st, i)
  OBVIOUS
<1>3. PICK g \in DOMAIN ub.toks : ub.strm[g] = st /\ g \in DOMAIN ub.strm /\ t \in Range(ub.toks[g])
  BY <1>1, <1>2, PutAtType
<1>4. t \in Token
  BY <1>1, <1>2, PutAtType
<1>5. PICK q \in SeqId : t.seq = {q} /\ seq_to_stream(q) = st
  <2>1. job.k \in DOMAIN job.ubs
    BY DEF IInv, JobOK, Admitted
  <2> QED BY <1>3, <2>1 DEF Single
<1>6. s = q
  BY <1>1, <1>2, <1>5, ApplySeq
<1>7. TokOf(t) = s
  BY <1>4, <1>5, <1>6, TokenRow
<1>8. t.pos \in FirstPos(ub, s)
  <2>1. t \in UNION {Range(ub.toks[h]) : h \in DOMAIN ub.toks}
    BY <1>3
  <2> QED BY <1>7, <2>1 DEF FirstPos
<1>9. FirstPos(ub, s) \in SUBSET Nat
  <2>0. ub.toks \in Seq(Seq(Token))
    BY <1>1 DEF UbatchOK, Ubatch
  <2>1. \A h \in DOMAIN ub.toks : \A x \in Range(ub.toks[h]) : x \in Token
    <3> TAKE h \in DOMAIN ub.toks
    <3>1. ub.toks[h] \in Seq(Token)
      BY <2>0
    <3> QED BY <3>1 DEF Range
  <2>2. \A x \in Token : x.pos \in Nat
    BY SizesAssumption DEF Token, Pos
  <2> QED BY <2>1, <2>2 DEF FirstPos
<1>10. PICK m : m = Min(FirstPos(ub, s))
  OBVIOUS
<1>11. m \in Nat /\ m <= t.pos
  BY <1>8, <1>9, <1>10, MinNat
<1>12. A[st].pos[i] = t.pos
  BY <1>1, <1>2, ApplyMoves
<1>13. t.pos \in Nat
  BY <1>8, <1>9
<1> QED BY <1>5, <1>6, <1>8, <1>10, <1>11, <1>12, <1>13

\* A failed graph may not have written its rows; the cells it should have
\* written them for are taken out again.
LEMMA ComputeFailsRows ==
  ASSUME IInv, IInv', RInv, ComputeFails
  PROVE  RInv'
<1>1. PICK ub, sinfo : ub = job.ubs[job.k] /\ sinfo = job.placed[job.k].idxs
  OBVIOUS
<1>2. PICK A, R, W : /\ A = ApplyCells(ub, sinfo) /\ R = Written(rows, ub, sinfo, RowOf)
                     /\ W = Written(want, ub, sinfo, TokOf)
  OBVIOUS
<1> DEFINE D(st) == [i \in Cell |-> {s \in A[st].seq[i] :
                        /\ seq_to_stream(s) = st
                        /\ FirstPos(ub, s) # {}
                        /\ A[st].pos[i] >= Min(FirstPos(ub, s))}]
<1>3. /\ "compute" \in Faults /\ pc = "compute" /\ pc' = "idle" /\ sc' = sc /\ saved' = saved
      /\ cells' = [st \in Stream |-> SeqRm(A[st], D(st))]
      /\ rows' = rows \/ rows' = R
      /\ want' = Known(W, cells')
  BY <1>1, <1>2 DEF ComputeFails
<1>4. UbatchOK(ub) /\ SlotsFor(ub, sinfo)
  BY <1>1, <1>3, ComputedSlot
<1>5. StreamsSound(cells) /\ heads \in Heads /\ rows \in RowsOf /\ want \in WantOf
  BY DEF IInv, RInv
<1>6. R \in RowsOf /\ W \in WantOf
  BY <1>2, <1>4, <1>5, WrittenRows, WrittenWant
<1>7. StreamsSound(A) /\ \A st \in Stream : ShiftsKept(cells[st], A[st])
  BY <1>2, <1>4, <1>5, ApplySound
<1>8. AllHold(A, R, W)
  BY <1>2, <1>3, <1>4, <1>5, ApplyHolds DEF RInv
<1>9. want' \in WantOf /\ \A st \in Stream : \A i \in Cell :
                             ~IsEmpty(cells'[st], i) => want'[st][i] = W[st][i]
  BY <1>3, <1>6, KnownHolds, ZenonT(60)
<1>10. ASSUME NEW st \in Stream
       PROVE  /\ Within(A[st], cells'[st])
              /\ \A i \in Cell : A[st].seq[i] \subseteq D(st)[i] => IsEmpty(cells'[st], i)
  <2>1. Sound(A[st])
    BY <1>7, SoundOf
  <2>2. cells'[st] = SeqRm(A[st], D(st))
    BY <1>3
  <2> HIDE DEF D
  <2> QED BY <2>1, <2>2, SeqRmWithin
<1>11. ASSUME NEW st \in Stream, NEW i \in Cell, InSlot(ub, sinfo, st, i)
       PROVE  IsEmpty(cells'[st], i)
  <2>1. SUFFICES ASSUME ~IsEmpty(cells'[st], i) PROVE FALSE
    OBVIOUS
  <2>2. ~IsEmpty(A[st], i)
    BY <1>10, <2>1 DEF Within
  <2>3. Single(job.ubs)
    BY <1>3 DEF RInv
  <2>4. \A s \in A[st].seq[i] : /\ seq_to_stream(s) = st /\ FirstPos(ub, s) # {}
                                /\ A[st].pos[i] >= Min(FirstPos(ub, s))
    <3> HIDE DEF D
    <3>1. /\ pc = "compute" /\ ub = job.ubs[job.k] /\ sinfo = job.placed[job.k].idxs
          /\ A = ApplyCells(ub, sinfo)
      BY <1>1, <1>2, <1>3
    <3> QED BY <1>11, <2>2, <2>3, <3>1, SlotCleaned
  <2>5. A[st].seq[i] \subseteq D(st)[i]
    BY <2>4
  <2> QED BY <1>10, <2>1, <2>5
<1> HIDE DEF D
<1>12. ASSUME NEW st \in Stream, NEW i \in Cell, ~IsEmpty(cells'[st], i)
       PROVE  /\ rows'[st][i].tok = want'[st][i]
              /\ rows'[st][i].rot + cells'[st].shift[i] = cells'[st].pos[i]
  <2>1. ~InSlot(ub, sinfo, st, i)
    BY <1>11, <1>12
  <2>2. R[st][i] = rows[st][i]
    BY <1>2, <1>4, <1>5, <2>1, WrittenRows, ZenonT(60)
  <2>3. rows'[st][i] = R[st][i]
    BY <1>3, <2>2
  <2>4. /\ ~IsEmpty(A[st], i) /\ cells'[st].pos[i] = A[st].pos[i]
        /\ cells'[st].shift[i] = A[st].shift[i]
    BY <1>10, <1>12 DEF Within
  <2> QED BY <1>8, <1>9, <1>12, <2>3, <2>4 DEF AllHold, Holds
<1>13. AllHold(cells', rows', want')
  BY <1>12 DEF AllHold, Holds
<1>14. Arrives(cells', rows', want', sc')
  <2>1. sc' = <<>>
    BY <1>3 DEF RInv
  <2> QED BY <1>13, <2>1, ArrivesNone
<1>15. Unshifted(cells) => Unshifted(cells')
  <2>1. Unshifted(cells) => Unshifted(A)
    BY <1>7 DEF Unshifted, ShiftsKept
  <2> QED BY <1>7, <1>10, <2>1, StaysUnshifted DEF IInv
<1> QED BY <1>3, <1>5, <1>6, <1>9, <1>14, <1>15 DEF RInv, SavedRowsOK

-----------------------------------------------------------------------------
(* The theorem *)

\* No step of the cache or of a decode parts a cell from its row.
LEMMA RowsStep ==
  ASSUME RowsSafe, IInv, RInv, [Next]_vars
  PROVE  RInv'
<1>0. IInv'
  BY StepInv DEF RowsSafe
<1>1. CASE \E data \in BOOLEAN : Clear(data)
  BY <1>0, <1>1, ClearRows
<1>2. CASE \E s \in SeqId, r \in Ranges : seq_rm(s, r[1], r[2])
  BY <1>0, <1>2, SeqRmRows
<1>3. CASE \E r \in Ranges : seq_rm_any(r[1], r[2])
  BY <1>0, <1>3, SeqRmAnyRows
<1>4. CASE \E s, t \in SeqId, r \in Ranges : seq_cp(s, t, r[1], r[2])
  BY <1>0, <1>4, SeqCpRows
<1>5. CASE \E s, t \in SeqId : seq_cp_stream(s, t)
  BY <1>0, <1>5, SeqCpStreamRows
<1>6. CASE \E s \in SeqId : seq_keep(s)
  BY <1>0, <1>6, SeqKeepRows
<1>7. CASE \E s \in SeqId, r \in Ranges, d \in Deltas : seq_add(s, r[1], r[2], d)
  BY <1>0, <1>7, SeqAddRows
<1>8. CASE \E s \in SeqId, r \in Ranges, d \in Divs : seq_div(s, r[1], r[2], d)
  BY <1>8 DEF RowsSafe
<1>9. CASE \E s \in SeqId : state_write(s)
  BY <1>0, <1>9, StateWriteRows
<1>10. CASE \E s \in SeqId : state_read(s)
  BY <1>0, <1>10, StateReadRows
<1>11. CASE Decode
  BY <1>11, DecodeRows
<1>12. CASE CopyStream
  BY <1>12, CopyStreamRows
<1>13. CASE KShift \/ KShiftFails \/ NoUpdate
  BY <1>13, UpdateRows
<1>14. CASE PlaceUbatch
  BY <1>14, PlaceUbatchRows
<1>15. CASE AllPlaced \/ NoSlot
  BY <1>15, StartRestoreRows DEF AllPlaced, NoSlot
<1>16. CASE RestoreUbatch
  BY <1>16, RestoreUbatchRows
<1>17. CASE EndPrepare
  BY <1>17, EndPrepareRows
<1>18. CASE ComputeUbatch
  BY <1>18, ComputeUbatchRows
<1>19. CASE ComputeFails
  BY <1>0, <1>19, ComputeFailsRows
<1>20. CASE UNCHANGED vars
  BY <1>20 DEF vars, RInv, Unshifted, SavedRowsOK
<1> QED
  BY <1>1, <1>2, <1>3, <1>4, <1>5, <1>6, <1>7, <1>8, <1>9, <1>10, <1>11, <1>12, <1>13,
     <1>14, <1>15, <1>16, <1>17, <1>18, <1>19, <1>20 DEF Next

\* The invariant contains the property of the runs.
LEMMA RowsProperty == RInv => RowsTrackCells
<1> SUFFICES ASSUME RInv, pc = "compute" \/ (pc = "idle" /\ sc = <<>>)
             PROVE  AllHold(cells, rows, want)
  BY DEF RowsTrackCells, AllHold, Holds
<1> QED BY ArrivesNone DEF RInv

\* Whenever the queued copies are done, each cell holds the row of its own token
\* at its position up to the pending shift: through every order of seq_rm,
\* seq_cp, seq_keep, seq_add, saved and restored sequences, rehearsals, retries,
\* K-shifts and failing graphs that RowsSafe allows.
THEOREM RowsTracked ==
  ASSUME RowsSafe
  PROVE  Spec => []RowsTrackCells
<1>1. CallerCleans
  BY DEF RowsSafe
<1>2. IInv /\ [Next]_vars => IInv'
  BY <1>1, StepInv
<1>3. IInv /\ RInv /\ [Next]_vars => RInv'
  BY RowsStep
<1>4. RInv => RowsTrackCells
  BY RowsProperty
<1> QED BY <1>2, <1>3, <1>4, InitInv, RowsInit, PTL DEF Spec

-----------------------------------------------------------------------------
(***************************************************************************)
(* Without a window a slot is made of empty cells only.  Then prepare()    *)
(* is a rehearsal that leaves no trace, and a decode takes nothing from a  *)
(* sequence.  UInv says why: the cells of the slots were empty before the  *)
(* first placement, the placements of a batch share no cell, and a cell in *)
(* no slot that is still to be restored is as it was before prepare().     *)
(***************************************************************************)

SameCell(c, d, i) ==
    c.pos[i] = d.pos[i] /\ c.shift[i] = d.shift[i] /\ c.seq[i] = d.seq[i]

\* the cells of c and of d are the same, their indexes aside
SameCells(c, d) == c.hasShift = d.hasShift /\ \A i \in Cell : SameCell(c, d, i)

\* Removing no cell changes none.
LEMMA RmNothing ==
  ASSUME NEW c, Sound(c)
  PROVE  SameCells(Rm(c, {}), c)
<1>1. PICK m : m = SeqPosDec(c, SeqsOf(c, {}))
  OBVIOUS
<1>2. Recounted(c, m, DecCount(c, SeqsOf(c, {})))
  BY <1>1, DecFields DEF Sound
<1>3. Rm(c, {}) = Vacate(m, {})
  BY <1>1 DEF Rm
<1>4. Vacated(m, Rm(c, {}), {})
  BY <1>2, <1>3, VacateFields DEF Recounted
<1> QED BY <1>2, <1>4 DEF Recounted, Vacated, SameCells, SameCell

\* Nor does removing no sequence from any.
LEMMA SeqRmNothing ==
  ASSUME NEW c, Sound(c), NEW D, \A i \in Cell : D[i] = {}
  PROVE  SameCells(SeqRm(c, D), c)
<1>1. PICK seq2 : seq2 = [i \in Cell |-> c.seq[i] \ D[i]]
  OBVIOUS
<1>2. PICK m : m = SeqPosDec(c, D)
  OBVIOUS
<1>3. PICK e : e = [m EXCEPT !.seq = seq2]
  OBVIOUS
<1>4. PICK gone : gone = {i \in Cell : D[i] # {} /\ e.seq[i] = {}}
  OBVIOUS
<1>5. Recounted(c, m, DecCount(c, D))
  BY <1>2, DecFields DEF Sound
<1>6. seq2 \in [Cell -> SUBSET SeqId]
  BY <1>1, CellsFields DEF Sound
<1>7. Edited(m, e, m.pos, m.shift, seq2, m.used, m.hasShift)
  BY <1>3, <1>5, <1>6 DEF Recounted, Edited, CellsType
<1>8. SeqRm(c, D) = Vacate(e, gone)
  BY <1>1, <1>2, <1>3, <1>4 DEF SeqRm
<1>9. Vacated(e, SeqRm(c, D), gone)
  BY <1>7, <1>8, VacateFields DEF Edited
<1>10. gone = {}
  BY <1>4
<1>11. \A i \in Cell : seq2[i] = c.seq[i]
  BY <1>1
<1> QED BY <1>5, <1>7, <1>9, <1>10, <1>11 DEF Recounted, Edited, Vacated, SameCells, SameCell

\* Filling cells announces no shift.
LEMMA EmplaceFlag ==
  ASSUME NEW c, Sound(c), NEW at, DOMAIN at \subseteq Cell,
         \A i \in DOMAIN at : at[i].pos \in Pos /\ at[i].seq \in SUBSET SeqId
  PROVE  Emplace(c, at).hasShift = c.hasShift
<1>1. PICK I : I = DOMAIN at
  OBVIOUS
<1>2. PICK A : A = [i \in Cell |-> IF i \in I THEN at[i].seq ELSE {}]
  OBVIOUS
<1>3. PICK pos2 : pos2 = [i \in Cell |-> IF i \in I THEN at[i].pos ELSE c.pos[i]]
  OBVIOUS
<1>4. PICK seq2 : seq2 = [i \in Cell |-> c.seq[i] \cup A[i]]
  OBVIOUS
<1>5. PICK used2 : used2 = c.used \cup I
  OBVIOUS
<1>6. PICK e : e = [c EXCEPT !.pos = pos2, !.seq = seq2, !.used = used2]
  OBVIOUS
<1>7. Emplace(c, at) = SeqPosInc(e, A)
  BY <1>1, <1>2, <1>3, <1>4, <1>5, <1>6 DEF Emplace
<1>8. /\ c \in CellsType
      /\ pos2 \in [Cell -> Pos \cup {-1}] /\ seq2 \in [Cell -> SUBSET SeqId]
      /\ used2 \in SUBSET Cell
  BY <1>1, <1>2, <1>3, <1>4, <1>5, CellsFields DEF Sound
<1>9. Edited(c, e, pos2, c.shift, seq2, used2, c.hasShift)
  BY <1>6, <1>8 DEF Edited, CellsType
<1>10. Recounted(e, Emplace(c, at), IncCount(e, A))
  BY <1>7, <1>9, IncFields DEF Edited
<1> QED BY <1>9, <1>10 DEF Edited, Recounted

\* A micro-batch applied to empty cells fills them and leaves the others alone:
\* there is nothing to purge.
LEMMA ApplyGroupFresh ==
  ASSUME NEW c, Sound(c), NEW f \in Seq(Cell), NEW toks \in Seq(Token), Len(toks) = Len(f),
         \A i \in Range(f) : IsEmpty(c, i)
  PROVE  /\ ApplyGroup(c, f, toks).hasShift = c.hasShift
         /\ \A i \in Cell : IF i \in Range(f) THEN ~IsEmpty(ApplyGroup(c, f, toks), i)
                                              ELSE SameCell(ApplyGroup(c, f, toks), c, i)
<1>0. PICK over : over = {j \in Range(f) : ~IsEmpty(c, j)}
  OBVIOUS
<1>1. PICK at : at = [j \in Range(f) |-> TokAt(f, toks, j)]
  OBVIOUS
<1>2. PICK r : r = Rm(c, over)
  OBVIOUS
<1>3. PICK d : d = Emplace(r, at)
  OBVIOUS
<1>4. PICK purge : purge = [k \in Cell |-> {s \in d.seq[k] :
                      \E j \in {k2 \in over : s \in c.seq[k2]} : d.pos[k] <= c.pos[j]}]
  OBVIOUS
<1>5. PICK A : A = ApplyGroup(c, f, toks)
  OBVIOUS
<1>6. A = SeqRm(d, purge)
  BY <1>0, <1>1, <1>2, <1>3, <1>4, <1>5 DEF ApplyGroup, TokAt
<1>7. over = {} /\ Range(f) \subseteq Cell
  BY <1>0 DEF Range
<1>8. \A k \in Cell : purge[k] = {}
  BY <1>4, <1>7
<1>9. Sound(r) /\ SameCells(r, c)
  <2>1. Sound(r)
    BY <1>2, <1>7, RmSound
  <2>2. r = Rm(c, {})
    BY <1>2, <1>7
  <2> QED BY <2>1, <2>2, RmNothing
<1>10. \A j \in Range(f) : IsEmpty(r, j)
  BY <1>7, <1>9 DEF SameCells, SameCell, IsEmpty
<1>11. \A j \in Range(f) : at[j] \in Token
  BY <1>1, TokAtType
<1>12. DOMAIN at = Range(f) /\ DOMAIN at \subseteq Cell
  BY <1>1, <1>7
<1>13. \A i \in DOMAIN at : /\ IsEmpty(r, i) /\ at[i].pos \in Pos
                            /\ at[i].seq \in SUBSET SeqId /\ at[i].seq # {}
  BY <1>10, <1>11, <1>12 DEF Token
<1>14. /\ Sound(d) /\ d.shift = r.shift
       /\ \A i \in Cell : d.pos[i] = IF i \in DOMAIN at THEN at[i].pos ELSE r.pos[i]
  BY <1>3, <1>9, <1>12, <1>13, EmplaceSound
<1>15. d.hasShift = r.hasShift
  BY <1>3, <1>9, <1>12, <1>13, EmplaceFlag
<1>16. \A i \in Cell : d.seq[i] = r.seq[i] \cup (IF i \in DOMAIN at THEN at[i].seq ELSE {})
  BY <1>3, <1>9, <1>12, <1>13, EmplaceSeq
<1>17. SameCells(A, d)
  BY <1>6, <1>8, <1>14, SeqRmNothing
<1>18. A.hasShift = c.hasShift
  BY <1>9, <1>15, <1>17 DEF SameCells
<1>19. ASSUME NEW i \in Cell, i \in Range(f)
       PROVE  ~IsEmpty(A, i)
  <2>1. A.pos[i] = at[i].pos /\ at[i].pos \in Pos
    BY <1>12, <1>13, <1>14, <1>17, <1>19 DEF SameCells, SameCell
  <2> QED BY <2>1, SizesAssumption DEF IsEmpty, Pos
<1>20. ASSUME NEW i \in Cell, i \notin Range(f)
       PROVE  SameCell(A, c, i)
  <2>1. SameCell(A, d, i) /\ SameCell(r, c, i)
    BY <1>9, <1>17 DEF SameCells
  <2>2. d.pos[i] = r.pos[i] /\ d.shift[i] = r.shift[i] /\ d.seq[i] = r.seq[i]
    BY <1>12, <1>14, <1>16, <1>20
  <2> QED BY <2>1, <2>2 DEF SameCell
<1> QED BY <1>5, <1>18, <1>19, <1>20

\* the cells cs are left alone but for the empty ones of the slot, filled in ds
SlotFilled(cs, ds, ub, sinfo) ==
    \A st \in Stream :
        /\ ds[st].hasShift = cs[st].hasShift
        /\ \A i \in Cell : IF InSlot(ub, sinfo, st, i)
                           THEN IsEmpty(cs[st], i) /\ ~IsEmpty(ds[st], i)
                           ELSE SameCell(ds[st], cs[st], i)

\* So on all streams.
LEMMA ApplyFresh ==
  ASSUME StreamsSound(cells), NEW ub, UbatchOK(ub), NEW sinfo, SlotsFor(ub, sinfo),
         \A st \in Stream : \A i \in Cell : InSlot(ub, sinfo, st, i) => IsEmpty(cells[st], i)
  PROVE  SlotFilled(cells, ApplyCells(ub, sinfo), ub, sinfo)
<1> SUFFICES ASSUME NEW st \in Stream
             PROVE  /\ ApplyCells(ub, sinfo)[st].hasShift = cells[st].hasShift
                    /\ \A i \in Cell : IF InSlot(ub, sinfo, st, i)
                                       THEN ~IsEmpty(ApplyCells(ub, sinfo)[st], i)
                                       ELSE SameCell(ApplyCells(ub, sinfo)[st], cells[st], i)
  BY DEF SlotFilled
<1>1. CASE st \in Range(ub.strm)
  <2>1. PICK g : g = GroupOf(ub, st)
    OBVIOUS
  <2>2. /\ sinfo[g] \in Seq(Cell) /\ ub.toks[g] \in Seq(Token)
        /\ Len(ub.toks[g]) = Len(sinfo[g])
        /\ \A i : InSlot(ub, sinfo, st, i) <=> i \in Range(sinfo[g])
    BY <1>1, <2>1, SlotGroup
  <2>3. ApplyCells(ub, sinfo)[st] = ApplyGroup(cells[st], sinfo[g], ub.toks[g])
    BY <1>1, <2>1 DEF ApplyCells
  <2>4. Sound(cells[st])
    BY SoundOf
  <2>5. \A i \in Range(sinfo[g]) : IsEmpty(cells[st], i)
    BY <2>2 DEF Range
  <2>6. PICK A : A = ApplyGroup(cells[st], sinfo[g], ub.toks[g])
    OBVIOUS
  <2>7. /\ A.hasShift = cells[st].hasShift
        /\ \A i \in Cell : IF i \in Range(sinfo[g]) THEN ~IsEmpty(A, i)
                                                    ELSE SameCell(A, cells[st], i)
    BY <2>2, <2>4, <2>5, <2>6, ApplyGroupFresh, ZenonT(60)
  <2> QED BY <2>2, <2>3, <2>6, <2>7
<1>2. CASE st \notin Range(ub.strm)
  <2>1. ApplyCells(ub, sinfo)[st] = cells[st] /\ \A i : ~InSlot(ub, sinfo, st, i)
    BY <1>2, SlotGroup DEF ApplyCells
  <2> QED BY <2>1 DEF SameCell
<1> QED BY <1>1, <1>2

\* the cells of the slots were empty in b
Fresh(b, ubs, placed) ==
    \A j \in 1..Len(placed) : \A st \in Stream : \A i \in Cell :
        InSlot(ubs[j], placed[j].idxs, st, i) => IsEmpty(b[st], i)

\* and so they were remembered
Blank(ubs, placed) ==
    \A j \in 1..Len(placed) : \A g \in DOMAIN ubs[j].strm :
        \A i \in Range(placed[j].idxs[g]) :
            placed[j].old[g][i].pos = -1 /\ placed[j].old[g][i].seq = {}

\* a cell in none of the first n slots is as it was in b
Agree(cs, b, ubs, placed, n) ==
    \A st \in Stream :
        /\ cs[st].hasShift = b[st].hasShift
        /\ \A i \in Cell : (\A j \in 1..n : ~InSlot(ubs[j], placed[j].idxs, st, i))
                               => SameCell(cs[st], b[st], i)

\* the placements of a batch share no cell
Apart(ubs, placed) ==
    \A j \in 1..Len(placed) : \A l \in 1..(j - 1) : \A st \in Stream : \A i \in Cell :
        ~(InSlot(ubs[j], placed[j].idxs, st, i) /\ InSlot(ubs[l], placed[l].idxs, st, i))

\* the cells of the slots are taken
Filled(cs, ubs, placed) ==
    \A j \in 1..Len(placed) : \A st \in Stream : \A i \in Cell :
        InSlot(ubs[j], placed[j].idxs, st, i) => ~IsEmpty(cs[st], i)

\* the cells of the slots from the k-th on are empty
Waiting(cs, ubs, placed, k) ==
    \A j \in k..Len(placed) : \A st \in Stream : \A i \in Cell :
        InSlot(ubs[j], placed[j].idxs, st, i) => IsEmpty(cs[st], i)

\* with n placements to undo, the heads are h or will be
HeadsBack(hs, h, placed, n) == IF n = 0 THEN hs = h ELSE placed[1].heads = h

\* what b has is there
Stayed(cs, b) ==
    \A st \in Stream : \A i \in Cell : ~IsEmpty(b[st], i) => SameCell(cs[st], b[st], i)

UInv ==
    /\ pc \in {"prepare", "restore", "compute"} =>
          job.before # <<>> /\ StreamsSound(job.before[1])
    /\ pc \in {"prepare", "restore"} =>
          /\ Fresh(job.before[1], job.ubs, job.placed)
          /\ Blank(job.ubs, job.placed)
    /\ pc = "prepare" =>
          /\ Agree(cells, job.before[1], job.ubs, job.placed, Len(job.placed))
          /\ Filled(cells, job.ubs, job.placed)
          /\ NStream = 1 => HeadsBack(heads, job.before[2], job.placed, Len(job.placed))
    /\ pc = "restore" =>
          /\ Agree(cells, job.before[1], job.ubs, job.placed, job.k)
          /\ NStream = 1 => HeadsBack(heads, job.before[2], job.placed, job.k)
    /\ pc = "compute" => /\ Waiting(cells, job.ubs, job.placed, job.k)
                         /\ Stayed(cells, job.before[1])
    /\ pc \in {"prepare", "restore", "compute"} => Apart(job.ubs, job.placed)

\* prepare() starts with nothing to undo.
LEMMA StartPrepareUndo ==
  ASSUME IInv, pc = "update", NEW cs, StreamsSound(cs), StartPrepare(cs),
         cells' = cs, heads' = heads
  PROVE  UInv'
<1>1. /\ pc' = "prepare" /\ job'.placed = <<>> /\ job'.before = <<cs, heads>>
  BY DEF StartPrepare, IInv, JobOK, Job
<1>2. Len(job'.placed) = 0 /\ 1..0 = {}
  BY <1>1
<1>3. Agree(cells', job'.before[1], job'.ubs, job'.placed, Len(job'.placed))
  BY <1>1 DEF Agree, SameCell
<1>4. Fresh(job'.before[1], job'.ubs, job'.placed) /\ Filled(cells', job'.ubs, job'.placed)
  BY <1>2 DEF Fresh, Filled
<1>5. Blank(job'.ubs, job'.placed) /\ Apart(job'.ubs, job'.placed)
  BY <1>2 DEF Blank, Apart
<1>6. HeadsBack(heads', job'.before[2], job'.placed, Len(job'.placed))
  BY <1>1, <1>2 DEF HeadsBack
<1>7. job'.before # <<>> /\ StreamsSound(job'.before[1])
  BY <1>1
<1> QED BY <1>1, <1>3, <1>4, <1>5, <1>6, <1>7 DEF UInv

\* longer is placed and the placement of ub = ubs[n + 1] on empty cells
OneMore(ubs, placed, longer, n, ub, sinfo) ==
    /\ Len(placed) = n /\ Len(longer) = n + 1 /\ ubs[n + 1] = ub
    /\ \A j \in 1..n : longer[j] = placed[j]
    /\ longer[n + 1].idxs = sinfo
    /\ \A g \in DOMAIN ub.strm : \A i \in Range(sinfo[g]) :
          longer[n + 1].old[g][i].pos = -1 /\ longer[n + 1].old[g][i].seq = {}

\* One more micro-batch is placed on empty cells.
LEMMA PlaceUndo ==
  ASSUME NEW ub, NEW sinfo, NEW cs, NEW A, SlotFilled(cs, A, ub, sinfo),
         NEW n \in Nat, NEW b, NEW ubs, NEW placed, NEW longer,
         OneMore(ubs, placed, longer, n, ub, sinfo),
         Fresh(b, ubs, placed), Blank(ubs, placed), Agree(cs, b, ubs, placed, n),
         Filled(cs, ubs, placed), Apart(ubs, placed)
  PROVE  /\ Fresh(b, ubs, longer) /\ Blank(ubs, longer)
         /\ Agree(A, b, ubs, longer, n + 1)
         /\ Filled(A, ubs, longer) /\ Apart(ubs, longer)
<1>1. /\ Len(placed) = n /\ Len(longer) = n + 1 /\ ubs[n + 1] = ub
      /\ \A j \in 1..n : longer[j] = placed[j]
      /\ longer[n + 1].idxs = sinfo
      /\ \A g \in DOMAIN ub.strm : \A i \in Range(sinfo[g]) :
            longer[n + 1].old[g][i].pos = -1 /\ longer[n + 1].old[g][i].seq = {}
  BY DEF OneMore
<1>2. \A j \in 1..(n + 1) : j \in 1..n \/ j = n + 1
  OBVIOUS
<1>3. ASSUME NEW st \in Stream
      PROVE  /\ A[st].hasShift = cs[st].hasShift
             /\ \A i \in Cell : IF InSlot(ub, sinfo, st, i)
                                THEN IsEmpty(cs[st], i) /\ ~IsEmpty(A[st], i)
                                ELSE SameCell(A[st], cs[st], i)
  BY DEF SlotFilled
<1>4. ASSUME NEW st \in Stream, NEW i \in Cell, InSlot(ub, sinfo, st, i)
      PROVE  \A j \in 1..n : ~InSlot(ubs[j], placed[j].idxs, st, i)
  BY <1>1, <1>3, <1>4 DEF Filled
<1>5. Fresh(b, ubs, longer)
  <2>1. ASSUME NEW st \in Stream, NEW i \in Cell, InSlot(ub, sinfo, st, i)
        PROVE  IsEmpty(b[st], i)
    BY <1>3, <1>4, <2>1 DEF Agree, SameCell, IsEmpty
  <2>2. ASSUME NEW j \in 1..n, NEW st \in Stream, NEW i \in Cell,
               InSlot(ubs[j], longer[j].idxs, st, i)
        PROVE  IsEmpty(b[st], i)
    BY <1>1, <2>2 DEF Fresh
  <2> QED BY <1>1, <1>2, <2>1, <2>2 DEF Fresh
<1>6. Blank(ubs, longer)
  <2>1. ASSUME NEW j \in 1..n, NEW g \in DOMAIN ubs[j].strm, NEW i \in Range(longer[j].idxs[g])
        PROVE  longer[j].old[g][i].pos = -1 /\ longer[j].old[g][i].seq = {}
    BY <1>1, <2>1 DEF Blank
  <2> QED BY <1>1, <1>2, <2>1 DEF Blank
<1>7. Agree(A, b, ubs, longer, n + 1)
  <2>1. ASSUME NEW st \in Stream, NEW i \in Cell,
               \A j \in 1..(n + 1) : ~InSlot(ubs[j], longer[j].idxs, st, i)
        PROVE  SameCell(A[st], b[st], i)
    <3>1. \A j \in 1..n : j \in 1..(n + 1) /\ n + 1 \in 1..(n + 1)
      OBVIOUS
    <3>2. \A j \in 1..n : ~InSlot(ubs[j], placed[j].idxs, st, i)
      BY <1>1, <2>1, <3>1
    <3>3. n + 1 \in 1..(n + 1)
      OBVIOUS
    <3>4. ~InSlot(ub, sinfo, st, i)
      BY <1>1, <2>1, <3>3
    <3>5. SameCell(cs[st], b[st], i) /\ SameCell(A[st], cs[st], i)
      BY <1>3, <3>2, <3>4 DEF Agree
    <3> QED BY <3>5 DEF SameCell
  <2>2. \A st \in Stream : A[st].hasShift = b[st].hasShift
    BY <1>3 DEF Agree
  <2> QED BY <2>1, <2>2 DEF Agree
<1>8. Filled(A, ubs, longer)
  <2>1. ASSUME NEW j \in 1..n, NEW st \in Stream, NEW i \in Cell,
               InSlot(ubs[j], placed[j].idxs, st, i)
        PROVE  ~IsEmpty(A[st], i)
    <3>1. ~IsEmpty(cs[st], i)
      BY <1>1, <2>1 DEF Filled
    <3> QED BY <1>3, <3>1 DEF SameCell, IsEmpty
  <2> QED BY <1>1, <1>2, <1>3, <2>1 DEF Filled
<1>9. Apart(ubs, longer)
  <2>1. ASSUME NEW j \in 1..(n + 1), NEW l \in 1..(j - 1), NEW st \in Stream, NEW i \in Cell
        PROVE  ~(InSlot(ubs[j], longer[j].idxs, st, i) /\ InSlot(ubs[l], longer[l].idxs, st, i))
    <3>1. l \in 1..n /\ longer[l] = placed[l]
      <4>1. l \in 1..n
        OBVIOUS
      <4> QED BY <1>1, <4>1
    <3>2. CASE j = n + 1
      BY <1>1, <1>4, <3>1, <3>2
    <3>3. CASE j \in 1..n
      <4>1. longer[j] = placed[j]
        BY <1>1, <3>3
      <4> QED BY <1>1, <3>1, <3>3, <4>1 DEF Apart
    <3> QED BY <1>2, <3>2, <3>3
  <2> QED BY <1>1, <2>1 DEF Apart
<1> QED BY <1>5, <1>6, <1>7, <1>8, <1>9

\* Without a window, prepare() places on empty cells.
LEMMA PlaceUbatchUndo ==
  ASSUME SwaType = "none", IInv, UInv, PlaceUbatch
  PROVE  UInv'
<1>1. PICK ub, sinfo, n : /\ ub = job.ubs[job.k] /\ sinfo = find_slot(ub)
                          /\ n = Len(job.placed)
  OBVIOUS
<1>2. PICK p : p = [idxs |-> sinfo,
                    old |-> [g \in DOMAIN sinfo |-> Copy(cells[ub.strm[g]], Range(sinfo[g]))],
                    heads |-> heads]
  OBVIOUS
<1>3. /\ pc = "prepare" /\ pc' = pc /\ Fits(ub)
      /\ job' = [job EXCEPT !.k = job.k + 1, !.placed = Append(job.placed, p)]
      /\ cells' = ApplyCells(ub, sinfo)
      /\ job.k <= Len(job.ubs)
  BY <1>1, <1>2 DEF PlaceUbatch
<1>4. /\ job \in Job /\ Admitted(job.ubs) /\ StreamsSound(cells)
      /\ job.placed \in Seq(Placement) /\ job.k = n + 1 /\ n \in Nat
  BY <1>1, <1>3 DEF IInv, JobOK, Job
<1>5. UbatchOK(ub)
  <2>1. job.k \in 1..Len(job.ubs)
    BY <1>3, <1>4 DEF Admitted
  <2> QED BY <1>1, <1>4, <2>1, AdmittedEach
<1>6. SlotsFor(ub, sinfo)
  BY <1>1, <1>3, <1>5, FindSlot
<1>7. job'.ubs = job.ubs /\ job'.placed = Append(job.placed, p) /\ job'.before = job.before
  BY <1>3, <1>4 DEF Job
<1>8. /\ Len(job'.placed) = n + 1
      /\ \A j \in 1..n : job'.placed[j] = job.placed[j]
      /\ job'.placed[n + 1] = p
  BY <1>1, <1>4, <1>7
<1>9. ASSUME NEW g \in DOMAIN ub.strm, NEW i \in Range(sinfo[g])
      PROVE  /\ i \in Cell /\ IsEmpty(cells[ub.strm[g]], i)
             /\ p.old[g][i].pos = -1 /\ p.old[g][i].seq = {}
  <2>1. ub.strm[g] \in Stream /\ sinfo[g] \in Seq(Cell)
    BY <1>5, <1>6, GroupFields DEF SlotsFor
  <2>2. i \in Cell
    BY <2>1 DEF Range
  <2>3. CanUse(cells[ub.strm[g]], i)
    BY <1>1, <1>3, <1>5, FindSlotUses
  <2>4. IsEmpty(cells[ub.strm[g]], i)
    BY <2>3, NoWindowEmpty
  <2>5. cells[ub.strm[g]].pos[i] = -1 /\ cells[ub.strm[g]].seq[i] = {}
    BY <1>4, <2>1, <2>2, <2>4, SoundOf DEF Sound, Shaped, IsEmpty
  <2>6. DOMAIN sinfo = DOMAIN ub.strm
    BY <1>5, <1>6 DEF SlotsFor, UbatchOK, Ubatch
  <2>7. p.old[g][i] = [pos |-> cells[ub.strm[g]].pos[i], seq |-> cells[ub.strm[g]].seq[i]]
    BY <1>2, <2>6 DEF Copy
  <2> QED BY <2>2, <2>4, <2>5, <2>7
<1>10. SlotFilled(cells, cells', ub, sinfo)
  <2>1. \A st \in Stream : \A i \in Cell : InSlot(ub, sinfo, st, i) => IsEmpty(cells[st], i)
    BY <1>9 DEF InSlot
  <2> QED BY <1>3, <1>4, <1>5, <1>6, <2>1, ApplyFresh
<1>11. PICK b, ubs, placed, longer, A :
          /\ b = job.before[1] /\ ubs = job.ubs /\ placed = job.placed
          /\ longer = job'.placed /\ A = cells'
  OBVIOUS
<1>12. /\ Fresh(b, ubs, placed) /\ Blank(ubs, placed) /\ Agree(cells, b, ubs, placed, n)
       /\ Filled(cells, ubs, placed) /\ Apart(ubs, placed)
       /\ job.before # <<>> /\ StreamsSound(b)
       /\ NStream = 1 => HeadsBack(heads, job.before[2], placed, n)
  BY <1>1, <1>3, <1>11 DEF UInv
<1>13. /\ Fresh(b, ubs, longer) /\ Blank(ubs, longer) /\ Agree(A, b, ubs, longer, n + 1)
       /\ Filled(A, ubs, longer) /\ Apart(ubs, longer)
  <2>1. SlotFilled(cells, A, ub, sinfo)
    BY <1>10, <1>11
  <2>2. /\ Len(placed) = n /\ Len(longer) = n + 1 /\ ubs[n + 1] = ub
        /\ \A j \in 1..n : longer[j] = placed[j]
    BY <1>1, <1>4, <1>8, <1>11
  <2>3. longer[n + 1] = p /\ p.idxs = sinfo /\ n \in Nat
    BY <1>2, <1>4, <1>8, <1>11
  <2>4. OneMore(ubs, placed, longer, n, ub, sinfo)
    BY <1>9, <2>2, <2>3 DEF OneMore
  <2> QED BY <1>12, <2>1, <2>3, <2>4, PlaceUndo, ZenonT(60)
<1>14. NStream = 1 => HeadsBack(heads', job.before[2], longer, n + 1)
  <2>1. CASE n = 0
    <3>1. longer[1].heads = heads
      BY <1>2, <1>8, <1>11, <2>1
    <3> QED BY <1>12, <2>1, <3>1 DEF HeadsBack
  <2>2. CASE n # 0
    <3>1. longer[1] = placed[1] /\ n + 1 # 0
      BY <1>4, <1>8, <1>11, <2>2
    <3> QED BY <1>12, <2>2, <3>1 DEF HeadsBack
  <2> QED BY <2>1, <2>2
<1>15. /\ pc' = "prepare" /\ job'.before = job.before /\ job'.ubs = ubs /\ job'.placed = longer
       /\ cells' = A /\ Len(longer) = n + 1
  BY <1>3, <1>7, <1>8, <1>11
<1> QED BY <1>11, <1>12, <1>13, <1>14, <1>15 DEF UInv

\* prepare() turns round.
LEMMA StartRestoreUndo ==
  ASSUME IInv, UInv, pc = "prepare", NEW ok, StartRestore(ok)
  PROVE  UInv'
<1>1. /\ pc' = "restore" /\ cells' = cells /\ heads' = heads
      /\ job' = [job EXCEPT !.ok = ok, !.k = Len(job.placed)]
  BY DEF StartRestore
<1>2. /\ job'.ubs = job.ubs /\ job'.placed = job.placed /\ job'.k = Len(job.placed)
      /\ job'.before = job.before
  BY <1>1 DEF IInv, JobOK, Job
<1> QED BY <1>1, <1>2 DEF UInv

\* Undoing a placement empties its cells again.
LEMMA RestoredBlank ==
  ASSUME IInv, pc = "restore", job.k > 0, Blank(job.ubs, job.placed),
         NEW ub, NEW p, ub = job.ubs[job.k], p = job.placed[job.k], NEW st \in Stream
  PROVE  /\ RestoredCells[st].hasShift = cells[st].hasShift
         /\ \A i \in Cell : IF InSlot(ub, p.idxs, st, i)
                            THEN /\ RestoredCells[st].pos[i] = -1
                                 /\ RestoredCells[st].seq[i] = {}
                                 /\ RestoredCells[st].shift[i] = 0
                            ELSE SameCell(RestoredCells[st], cells[st], i)
<1>1. PICK k : k = job.k
  OBVIOUS
<1>2. /\ Admitted(job.ubs) /\ StreamsSound(cells)
      /\ job.placed \in Seq(Placement) /\ k \in Nat /\ k > 0
      /\ k <= Len(job.placed) /\ Len(job.placed) <= Len(job.ubs)
      /\ job.ubs \in Seq(Ubatch)
  BY <1>1 DEF IInv, JobOK, Job
<1>3. k \in DOMAIN job.placed /\ k \in 1..Len(job.ubs) /\ k \in 1..Len(job.placed)
  BY <1>2
<1>4. UbatchOK(ub) /\ p \in Placement
  BY <1>1, <1>2, <1>3, AdmittedEach
<1>5. PlacedFor(p, ub) /\ Settled(p, ub, cells)
  BY <1>1, <1>3 DEF IInv, JobOK
<1>6. SlotsFor(ub, p.idxs)
  BY <1>4, <1>5 DEF SlotsFor, PlacedFor, Placement
<1>7. CASE st \in Range(ub.strm)
  <2>1. PICK g \in DOMAIN ub.strm : g = GroupOf(ub, st) /\ ub.strm[g] = st
    BY <1>4, <1>7, GroupOfStream
  <2>2. RestoredCells[st] = Set(cells[st], p.old[g])
    BY <1>7, <2>1 DEF RestoredCells
  <2>3. g \in 1..Len(ub.strm) /\ g \in 1..Len(p.old)
    BY <1>4, <1>5, GroupFields DEF PlacedFor
  <2>4. PICK D \in SUBSET Cell : p.old[g] \in [D -> OldCell]
    <3>1. PICK U : U = UNION {[E -> OldCell] : E \in SUBSET Cell}
      OBVIOUS
    <3>2. p.old \in Seq(U)
      BY <1>4, <3>1 DEF Placement
    <3>3. p.old[g] \in U
      BY <2>3, <3>2
    <3> QED BY <3>1, <3>3
  <2>5. DOMAIN p.old[g] = Range(p.idxs[g]) /\ DOMAIN p.old[g] \subseteq Cell
    BY <1>5, <2>4 DEF PlacedFor
  <2>6. \A x \in DOMAIN p.old[g] : /\ p.old[g][x].pos \in Pos \cup {-1}
                                   /\ p.old[g][x].seq \in SUBSET SeqId
    BY <2>4 DEF OldCell
  <2>7. Sound(cells[st])
    BY <1>2, SoundOf
  <2>8. PICK R, c, o : R = RestoredCells[st] /\ c = cells[st] /\ o = p.old[g]
    OBVIOUS
  <2>9. /\ R.hasShift = cells[st].hasShift
        /\ \A i \in Cell :
              /\ R.shift[i] = cells[st].shift[i]
              /\ R.pos[i] = IF i \in DOMAIN p.old[g] THEN p.old[g][i].pos ELSE cells[st].pos[i]
              /\ R.seq[i] = IF i \in DOMAIN p.old[g] THEN p.old[g][i].seq ELSE cells[st].seq[i]
    <3>1. /\ Sound(c) /\ DOMAIN o \subseteq Cell /\ R = Set(c, o)
          /\ \A i \in DOMAIN o : o[i].pos \in Pos \cup {-1} /\ o[i].seq \in SUBSET SeqId
      BY <2>2, <2>5, <2>6, <2>7, <2>8
    <3>2. /\ Set(c, o).hasShift = c.hasShift
          /\ \A i \in Cell :
                /\ Set(c, o).shift[i] = c.shift[i]
                /\ Set(c, o).pos[i] = IF i \in DOMAIN o THEN o[i].pos ELSE c.pos[i]
                /\ Set(c, o).seq[i] = IF i \in DOMAIN o THEN o[i].seq ELSE c.seq[i]
      BY <3>1, SetFields
    <3> QED BY <2>8, <3>1, <3>2
  <2>10. \A i : InSlot(ub, p.idxs, st, i) <=> i \in Range(p.idxs[g])
    BY <1>4, <1>6, <1>7, <2>1, SlotGroup
  <2>11. \A i \in Range(p.idxs[g]) : p.old[g][i].pos = -1 /\ p.old[g][i].seq = {}
    BY <1>1, <1>3 DEF Blank
  <2>12. \A i \in Range(p.idxs[g]) : cells[st].shift[i] = 0
    BY <1>5, <2>1 DEF Settled
  <2>13. R.hasShift = cells[st].hasShift
    BY <2>9
  <2>14. ASSUME NEW i \in Cell, i \in Range(p.idxs[g])
         PROVE  R.pos[i] = -1 /\ R.seq[i] = {} /\ R.shift[i] = 0
    BY <2>5, <2>9, <2>11, <2>12, <2>14
  <2>15. ASSUME NEW i \in Cell, i \notin Range(p.idxs[g])
         PROVE  SameCell(R, cells[st], i)
    BY <2>5, <2>9, <2>15 DEF SameCell
  <2> QED BY <2>8, <2>10, <2>13, <2>14, <2>15
<1>8. CASE st \notin Range(ub.strm)
  <2>1. RestoredCells[st] = cells[st]
    BY <1>8 DEF RestoredCells
  <2>2. \A i : ~InSlot(ub, p.idxs, st, i)
    BY <1>8 DEF InSlot, Range
  <2> QED BY <2>1, <2>2 DEF SameCell
<1> QED BY <1>7, <1>8

\* One placement is undone.
LEMMA RestoreUbatchUndo ==
  ASSUME IInv, UInv, RestoreUbatch
  PROVE  UInv'
<1>1. /\ pc = "restore" /\ pc' = pc /\ job.k > 0
      /\ cells' = RestoredCells /\ heads' = RestoredHeads
      /\ job' = [job EXCEPT !.k = job.k - 1]
  BY DEF RestoreUbatch
<1>2. PICK ub, p, k : k = job.k /\ ub = job.ubs[k] /\ p = job.placed[k]
  OBVIOUS
<1>3. /\ job'.ubs = job.ubs /\ job'.placed = job.placed /\ job'.k = k - 1
      /\ job'.before = job.before /\ k \in Nat /\ k > 0
      /\ Admitted(job.ubs) /\ job.ubs \in Seq(Ubatch)
      /\ job.placed \in Seq(Placement) /\ k <= Len(job.placed)
      /\ Len(job.placed) <= Len(job.ubs)
  BY <1>1, <1>2 DEF IInv, JobOK, Job
<1>4. k \in 1..Len(job.placed) /\ k \in DOMAIN job.placed /\ k \in 1..Len(job.ubs)
  BY <1>3
<1>5. PICK b : b = job.before[1]
  OBVIOUS
<1>6. /\ Fresh(b, job.ubs, job.placed) /\ Blank(job.ubs, job.placed) /\ StreamsSound(b)
      /\ Agree(cells, b, job.ubs, job.placed, k) /\ job.before # <<>>
      /\ Apart(job.ubs, job.placed)
      /\ NStream = 1 => HeadsBack(heads, job.before[2], job.placed, k)
  BY <1>1, <1>2, <1>5 DEF UInv
<1>7. ASSUME NEW st \in Stream
      PROVE  /\ cells'[st].hasShift = cells[st].hasShift
             /\ \A i \in Cell : IF InSlot(ub, p.idxs, st, i)
                                THEN /\ cells'[st].pos[i] = -1 /\ cells'[st].seq[i] = {}
                                     /\ cells'[st].shift[i] = 0
                                ELSE SameCell(cells'[st], cells[st], i)
  BY <1>1, <1>2, <1>6, RestoredBlank
<1>8. ASSUME NEW st \in Stream, NEW i \in Cell,
             \A j \in 1..(k - 1) : ~InSlot(job.ubs[j], job.placed[j].idxs, st, i)
      PROVE  SameCell(cells'[st], b[st], i)
  <2>1. CASE InSlot(ub, p.idxs, st, i)
    <3>1. IsEmpty(b[st], i)
      BY <1>2, <1>4, <1>6, <2>1 DEF Fresh
    <3>2. b[st].pos[i] = -1 /\ b[st].seq[i] = {} /\ b[st].shift[i] = 0
      BY <1>6, <3>1, SoundOf DEF Sound, Shaped, IsEmpty
    <3> QED BY <1>7, <2>1, <3>2 DEF SameCell
  <2>2. CASE ~InSlot(ub, p.idxs, st, i)
    <3>1. \A j \in 1..k : j = k \/ j \in 1..(k - 1)
      BY <1>3
    <3>2. \A j \in 1..k : ~InSlot(job.ubs[j], job.placed[j].idxs, st, i)
      BY <1>2, <1>8, <2>2, <3>1
    <3>3. SameCell(cells[st], b[st], i) /\ SameCell(cells'[st], cells[st], i)
      BY <1>6, <1>7, <2>2, <3>2 DEF Agree
    <3> QED BY <3>3 DEF SameCell
  <2> QED BY <2>1, <2>2
<1>9. Agree(cells', b, job.ubs, job.placed, k - 1)
  BY <1>6, <1>7, <1>8 DEF Agree
<1>10. NStream = 1 => HeadsBack(heads', job.before[2], job.placed, k - 1)
  <2> SUFFICES ASSUME NStream = 1
               PROVE  HeadsBack(heads', job.before[2], job.placed, k - 1)
    OBVIOUS
  <2>1. job.placed[1].heads = job.before[2]
    BY <1>3, <1>6 DEF HeadsBack
  <2>2. CASE k = 1
    <3>1. UbatchOK(ub) /\ p \in Placement
      BY <1>2, <1>3, <1>4, AdmittedEach
    <3>2. Stream = {0} /\ ub.strm \in Seq(Stream) /\ Len(ub.strm) = 1
      BY <3>1 DEF Stream, UbatchOK, Ubatch
    <3>3. 1 \in DOMAIN ub.strm /\ DOMAIN ub.strm = {1} /\ ub.strm[1] = 0
      BY <3>2
    <3>4. 0 \in Range(ub.strm) /\ GroupOf(ub, 0) = 1
      BY <3>3 DEF Range, GroupOf
    <3>5. heads' = [st \in Stream |-> p.heads[0]]
      <4>1. \A st \in Stream : st \in Range(ub.strm) /\ GroupOf(ub, st) - 1 = 0
        BY <3>2, <3>4
      <4> QED BY <1>1, <1>2, <4>1 DEF RestoredHeads
    <3>6. p.heads \in [Stream -> 0..NCells]
      BY <3>1 DEF Placement, Heads
    <3>7. heads' = p.heads
      BY <3>2, <3>5, <3>6
    <3> QED BY <1>2, <2>1, <2>2, <3>7 DEF HeadsBack
  <2>3. CASE k # 1
    BY <1>3, <2>1, <2>3 DEF HeadsBack
  <2> QED BY <2>2, <2>3
<1> QED BY <1>1, <1>3, <1>5, <1>6, <1>9, <1>10 DEF UInv

\* prepare() returns: the cells of every slot are empty.
LEMMA EndPrepareUndo ==
  ASSUME IInv, UInv, EndPrepare
  PROVE  UInv'
<1>1. /\ pc = "restore" /\ job.k = 0 /\ cells' = cells /\ job \in Job
  BY DEF EndPrepare, IInv, JobOK
<1>2. CASE pc' = "compute" /\ job' = [job EXCEPT !.k = 1]
  <2>1. /\ job'.ubs = job.ubs /\ job'.placed = job.placed /\ job'.k = 1
        /\ job'.before = job.before
    BY <1>1, <1>2 DEF Job
  <2>2. /\ Fresh(job.before[1], job.ubs, job.placed)
        /\ Agree(cells, job.before[1], job.ubs, job.placed, 0) /\ Apart(job.ubs, job.placed)
    BY <1>1 DEF UInv
  <2>3. \A st \in Stream : \A i \in Cell : SameCell(cells[st], job.before[1][st], i)
    BY <2>2 DEF Agree
  <2>4. Waiting(cells, job.ubs, job.placed, 1)
    BY <2>2, <2>3 DEF Waiting, Fresh, SameCell, IsEmpty
  <2>5. Stayed(cells, job.before[1])
    BY <2>3 DEF Stayed
  <2>6. job.before # <<>> /\ StreamsSound(job.before[1])
    BY <1>1 DEF UInv
  <2> QED BY <1>1, <1>2, <2>1, <2>2, <2>4, <2>5, <2>6 DEF UInv
<1>3. CASE pc' \in {"update", "idle"}
  BY <1>3 DEF UInv
<1> QED BY <1>1, <1>2, <1>3 DEF EndPrepare

\* The micro-batch about to be computed goes to empty cells, without a window.
LEMMA ComputeFills ==
  ASSUME IInv, UInv, pc = "compute", NEW ub, NEW sinfo,
         ub = job.ubs[job.k], sinfo = job.placed[job.k].idxs
  PROVE  SlotFilled(cells, ApplyCells(ub, sinfo), ub, sinfo)
<1>1. UbatchOK(ub) /\ SlotsFor(ub, sinfo) /\ StreamsSound(cells)
  BY ComputedSlot DEF IInv
<1>2. job.k \in job.k..Len(job.placed)
  BY DEF IInv, JobOK, Job
<1>3. \A st \in Stream : \A i \in Cell : InSlot(ub, sinfo, st, i) => IsEmpty(cells[st], i)
  BY <1>2 DEF UInv, Waiting
<1> QED BY <1>1, <1>3, ApplyFresh

\* A micro-batch computed leaves the slots of the next ones empty.
LEMMA ComputeUbatchUndo ==
  ASSUME IInv, UInv, ComputeUbatch
  PROVE  UInv'
<1>1. PICK ub, sinfo, k : /\ k = job.k /\ ub = job.ubs[k] /\ sinfo = job.placed[k].idxs
  OBVIOUS
<1>2. pc = "compute" /\ cells' = ApplyCells(ub, sinfo)
  BY <1>1 DEF ComputeUbatch
<1>3. SlotFilled(cells, cells', ub, sinfo)
  BY <1>1, <1>2, ComputeFills
<1>4. /\ Waiting(cells, job.ubs, job.placed, k) /\ Apart(job.ubs, job.placed)
      /\ k \in Nat /\ k >= 1 /\ Len(job.placed) \in Nat
  BY <1>1, <1>2 DEF UInv, IInv, JobOK, Job
<1>5. Waiting(cells', job.ubs, job.placed, k + 1)
  <2> SUFFICES ASSUME NEW j \in (k + 1)..Len(job.placed), NEW st \in Stream, NEW i \in Cell,
                      InSlot(job.ubs[j], job.placed[j].idxs, st, i)
               PROVE  IsEmpty(cells'[st], i)
    BY DEF Waiting
  <2>1. j \in 1..Len(job.placed) /\ k \in 1..(j - 1) /\ j \in k..Len(job.placed)
    BY <1>4
  <2>2. ~InSlot(ub, sinfo, st, i)
    BY <1>1, <1>4, <2>1 DEF Apart
  <2>3. IsEmpty(cells[st], i) /\ SameCell(cells'[st], cells[st], i)
    BY <1>3, <1>4, <2>1, <2>2 DEF Waiting, SlotFilled
  <2> QED BY <2>3 DEF SameCell, IsEmpty
<1>6. CASE pc' = pc /\ job' = [job EXCEPT !.k = job.k + 1]
  <2>1. /\ job'.ubs = job.ubs /\ job'.placed = job.placed /\ job'.k = k + 1
        /\ job'.before = job.before
    BY <1>1, <1>2, <1>6 DEF IInv, JobOK, Job
  <2>2. job.before # <<>> /\ StreamsSound(job.before[1]) /\ Stayed(cells, job.before[1])
    BY <1>2 DEF UInv
  <2>3. Stayed(cells', job.before[1])
    <3> SUFFICES ASSUME NEW st \in Stream, NEW i \in Cell, ~IsEmpty(job.before[1][st], i)
                 PROVE  SameCell(cells'[st], job.before[1][st], i)
      BY DEF Stayed
    <3>1. SameCell(cells[st], job.before[1][st], i)
      BY <2>2 DEF Stayed
    <3>2. ~IsEmpty(cells[st], i)
      BY <3>1 DEF SameCell, IsEmpty
    <3>3. SameCell(cells'[st], cells[st], i)
      BY <1>3, <3>2 DEF SlotFilled
    <3> QED BY <3>1, <3>3 DEF SameCell
  <2> QED BY <1>2, <1>4, <1>5, <1>6, <2>1, <2>2, <2>3 DEF UInv
<1>7. CASE pc' = "idle"
  BY <1>7 DEF UInv
<1> QED BY <1>6, <1>7 DEF ComputeUbatch

\* Without a window, no step of the cache or of a decode leaves the invariant.
LEMMA UndoStep ==
  ASSUME SwaType = "none", IInv, UInv, [Next]_vars
  PROVE  UInv'
<1>1. CASE \/ \E data \in BOOLEAN : Clear(data)
           \/ \E s \in SeqId, r \in Ranges : seq_rm(s, r[1], r[2])
           \/ \E r \in Ranges : seq_rm_any(r[1], r[2])
           \/ \E s, t \in SeqId, r \in Ranges : seq_cp(s, t, r[1], r[2])
           \/ \E s, t \in SeqId : seq_cp_stream(s, t)
           \/ \E s \in SeqId : seq_keep(s)
           \/ \E s \in SeqId, r \in Ranges, d \in Deltas : seq_add(s, r[1], r[2], d)
           \/ \E s \in SeqId, r \in Ranges, d \in Divs : seq_div(s, r[1], r[2], d)
           \/ \E s \in SeqId : state_write(s)
           \/ \E s \in SeqId : state_read(s)
  <2>1. pc' = "idle"
    BY <1>1 DEF Clear, seq_rm, seq_rm_any, seq_cp, seq_cp_stream, seq_keep, seq_add, seq_div,
                state_write, state_read, Edit, Idle
  <2> QED BY <2>1 DEF UInv
<1>2. CASE Decode \/ CopyStream \/ ComputeFails
  <2>1. pc' \in {"idle", "update"}
    BY <1>2 DEF Decode, CopyStream, ComputeFails
  <2> QED BY <2>1 DEF UInv
<1>3. CASE KShift \/ KShiftFails \/ NoUpdate
  <2>1. StartPrepare(cells') /\ pc = "update" /\ heads' = heads
    BY <1>3 DEF KShift, KShiftFails, NoUpdate
  <2>2. StreamsSound(cells')
    BY <1>3, UpdateStep DEF IInv
  <2> QED BY <2>1, <2>2, StartPrepareUndo
<1>4. CASE PlaceUbatch
  BY <1>4, PlaceUbatchUndo
<1>5. CASE AllPlaced \/ NoSlot
  BY <1>5, StartRestoreUndo DEF AllPlaced, NoSlot
<1>6. CASE RestoreUbatch
  BY <1>6, RestoreUbatchUndo
<1>7. CASE EndPrepare
  BY <1>7, EndPrepareUndo
<1>8. CASE ComputeUbatch
  BY <1>8, ComputeUbatchUndo
<1>9. CASE UNCHANGED vars
  BY <1>9 DEF vars, UInv
<1> QED BY <1>1, <1>2, <1>3, <1>4, <1>5, <1>6, <1>7, <1>8, <1>9 DEF Next

\* Sound streams with the same cells have the same indexes.
LEMMA SameIndexes ==
  ASSUME NEW c, Sound(c), NEW d, Sound(d), SameCells(c, d)
  PROVE  c = d
<1>1. /\ c.pos \in [Cell -> Pos \cup {-1}] /\ c.shift \in [Cell -> Int]
      /\ c.seq \in [Cell -> SUBSET SeqId] /\ c.seqPos \in [SeqId -> [Pos -> Int]]
  BY CellsFields DEF Sound
<1>2. /\ d.pos \in [Cell -> Pos \cup {-1}] /\ d.shift \in [Cell -> Int]
      /\ d.seq \in [Cell -> SUBSET SeqId] /\ d.seqPos \in [SeqId -> [Pos -> Int]]
  BY CellsFields DEF Sound
<1>3. c.pos = d.pos /\ c.shift = d.shift /\ c.seq = d.seq /\ c.hasShift = d.hasShift
  BY <1>1, <1>2 DEF SameCells, SameCell
<1>4. c.used = d.used
  BY <1>3 DEF Sound, Indexed, IsEmpty
<1>5. \A s \in SeqId : \A p \in Pos : c.seqPos[s][p] = d.seqPos[s][p]
  BY <1>3 DEF Sound, Indexed
<1>6. \A s \in SeqId : c.seqPos[s] = d.seqPos[s]
  BY <1>1, <1>2, <1>5
<1>7. c.seqPos = d.seqPos
  BY <1>1, <1>2, <1>6
<1> QED BY <1>3, <1>4, <1>7 DEF Sound, CellsType

\* The cells prepare() hands on are those it was given, on every stream.
CellsUndone == (pc = "restore" /\ job.k = 0) => job.before[1] = cells

\* The invariant contains the properties.
LEMMA UndoProperties ==
  ASSUME IInv, UInv
  PROVE  CellsUndone /\ (NStream = 1 => RehearsalUndone)
<1> SUFFICES ASSUME pc = "restore", job.k = 0
             PROVE  /\ job.before[1] = cells
                    /\ NStream = 1 => job.before = <<cells, heads>>
  BY DEF CellsUndone, RehearsalUndone
<1>1. PICK b : b = job.before[1]
  OBVIOUS
<1>2. /\ job.before # <<>> /\ StreamsSound(b) /\ StreamsSound(cells)
      /\ Agree(cells, b, job.ubs, job.placed, 0)
      /\ NStream = 1 => HeadsBack(heads, job.before[2], job.placed, 0)
      /\ job.before \in Before
  BY <1>1 DEF UInv, IInv, JobOK, Job
<1>3. \A st \in Stream : SameCells(cells[st], b[st])
  BY <1>2 DEF Agree, SameCells
<1>4. \A st \in Stream : cells[st] = b[st]
  BY <1>2, <1>3, SoundOf, SameIndexes
<1>5. cells = b
  BY <1>2, <1>4 DEF StreamsSound
<1>6. job.before = <<job.before[1], job.before[2]>>
  BY <1>2 DEF Before
<1>7. NStream = 1 => heads = job.before[2]
  BY <1>2 DEF HeadsBack
<1> QED BY <1>1, <1>5, <1>6, <1>7

\* Initially there is no decode.
LEMMA UndoInit == Init => UInv
  BY DEF Init, UInv

\* Without a window, a computed micro-batch touches no cell of any sequence.
LEMMA ComputeKeeps ==
  ASSUME IInv, UInv, ComputeUbatch, NEW s \in SeqId, NEW st, st = seq_to_stream(s),
         NEW i \in SeqHas(cells[st], s)
  PROVE  s \in cells'[st].seq[i] /\ cells'[st].pos[i] = cells[st].pos[i] /\ rows'[st][i] = rows[st][i]
<1>1. PICK ub, sinfo : ub = job.ubs[job.k] /\ sinfo = job.placed[job.k].idxs
  OBVIOUS
<1>2. /\ pc = "compute" /\ cells' = ApplyCells(ub, sinfo)
      /\ rows' = Written(rows, ub, sinfo, RowOf)
  BY <1>1 DEF ComputeUbatch
<1>3. UbatchOK(ub) /\ SlotsFor(ub, sinfo) /\ StreamsSound(cells)
  BY <1>1, <1>2, ComputedSlot DEF IInv
<1>4. SlotFilled(cells, cells', ub, sinfo)
  BY <1>1, <1>2, ComputeFills
<1>5. st \in Stream
  BY StreamOf
<1>6. i \in Cell /\ s \in cells[st].seq[i] /\ ~IsEmpty(cells[st], i)
  BY <1>3, <1>5, SoundOf, OwnedNotEmpty DEF SeqHas
<1>7. ~InSlot(ub, sinfo, st, i)
  BY <1>4, <1>5, <1>6 DEF SlotFilled
<1>8. SameCell(cells'[st], cells[st], i)
  BY <1>4, <1>5, <1>6, <1>7 DEF SlotFilled
<1>9. rows'[st][i] = rows[st][i]
  <2>1. st \in Range(ub.strm) => i \notin Range(sinfo[GroupOf(ub, st)])
    BY <1>3, <1>5, <1>7, SlotGroup
  <2> QED BY <1>2, <1>5, <1>6, <2>1 DEF Written
<1> QED BY <1>6, <1>8, <1>9 DEF SameCell

\* What a sequence had when prepare() began is still there when a micro-batch is
\* about to be computed.
LEMMA BeforeStays ==
  ASSUME IInv, UInv, pc = "compute", NEW s \in SeqId, NEW st, st = seq_to_stream(s),
         NEW i \in SeqHas(job.before[1][st], s)
  PROVE  i \in SeqHas(cells[st], s) /\ cells[st].pos[i] = job.before[1][st].pos[i]
<1>1. PICK b : b = job.before[1]
  OBVIOUS
<1>2. st \in Stream /\ StreamsSound(b) /\ Stayed(cells, b)
  BY <1>1, StreamOf DEF UInv
<1>3. i \in Cell /\ s \in b[st].seq[i] /\ ~IsEmpty(b[st], i)
  BY <1>1, <1>2, SoundOf, OwnedNotEmpty DEF SeqHas
<1>4. SameCell(cells[st], b[st], i)
  BY <1>2, <1>3 DEF Stayed
<1> QED BY <1>1, <1>3, <1>4 DEF SameCell, SeqHas

\* No decode, rehearsal included, loses what a sequence had.
LEMMA DecodeKeeps ==
  ASSUME IInv, UInv, ComputeUbatch \/ EndPrepare, NEW s \in SeqId
  PROVE  AttendedStay(job.before[1], s)
<1> SUFFICES ASSUME NEW st, st = seq_to_stream(s), NEW i \in SeqHas(job.before[1][st], s)
             PROVE  /\ s \in cells'[st].seq[i] /\ cells'[st].pos[i] = job.before[1][st].pos[i]
                    /\ rows'[st][i] = rows[st][i]
  BY DEF AttendedStay
<1>1. CASE ComputeUbatch
  <2>1. i \in SeqHas(cells[st], s) /\ cells[st].pos[i] = job.before[1][st].pos[i]
    BY <1>1, BeforeStays DEF ComputeUbatch
  <2>2. s \in cells'[st].seq[i] /\ cells'[st].pos[i] = cells[st].pos[i] /\ rows'[st][i] = rows[st][i]
    BY <1>1, <2>1, ComputeKeeps
  <2> QED BY <2>1, <2>2
<1>2. CASE EndPrepare
  <2>1. pc = "restore" /\ job.k = 0 /\ cells' = cells /\ rows' = rows
    BY <1>2 DEF EndPrepare
  <2>2. job.before[1] = cells
    BY <2>1, UndoProperties DEF CellsUndone
  <2> QED BY <2>1, <2>2 DEF SeqHas
<1> QED BY <1>1, <1>2

\* Without a window a decode, its rehearsal included, evicts nothing, for every
\* number of cells, sequences and streams and every batch: what a sequence had
\* when prepare() began is there when prepare() returns and after each
\* micro-batch, where it was and with its row.
THEOREM AttendedKept ==
  ASSUME CallerCleans, SwaType = "none"
  PROVE  Spec => AttendedSurvive
<1>1. IInv /\ [Next]_vars => IInv'
  BY StepInv
<1>2. IInv /\ UInv /\ [Next]_vars => UInv'
  BY UndoStep
<1>3. IInv /\ UInv /\ [Next]_vars =>
        [ComputeUbatch \/ EndPrepare => \A s \in SeqId : AttendedStay(job.before[1], s)]_vars
  BY DecodeKeeps
<1> QED BY <1>1, <1>2, <1>3, InitInv, UndoInit, PTL DEF Spec, AttendedSurvive

\* Without a window prepare() hands on the very cells it was given, indexes
\* included, on every stream: nothing of the rehearsal is left in them.
THEOREM CellsRestored ==
  ASSUME CallerCleans, SwaType = "none"
  PROVE  Spec => []CellsUndone
<1>1. IInv /\ [Next]_vars => IInv'
  BY StepInv
<1>2. IInv /\ UInv /\ [Next]_vars => UInv'
  BY UndoStep
<1>3. IInv /\ UInv => CellsUndone
  BY UndoProperties
<1> QED BY <1>1, <1>2, <1>3, InitInv, UndoInit, PTL DEF Spec

\* With one stream the heads are back too: the rehearsal is undone.
THEOREM RehearsalLeavesNoTrace ==
  ASSUME CallerCleans, SwaType = "none", NStream = 1
  PROVE  Spec => []RehearsalUndone
<1>1. IInv /\ [Next]_vars => IInv'
  BY StepInv
<1>2. IInv /\ UInv /\ [Next]_vars => UInv'
  BY UndoStep
<1>3. IInv /\ UInv => RehearsalUndone
  BY UndoProperties
<1> QED BY <1>1, <1>2, <1>3, InitInv, UndoInit, PTL DEF Spec

=============================================================================
