------------------------------- MODULE KvCells -------------------------------
(***************************************************************************)
(* The metadata of one stream of KV cells: class llama_kv_cells of         *)
(* src/src/llama-kv-cells.h.  A value of the class is a record             *)
(*                                                                         *)
(*   pos       position stored in each cell, -1 when the cell is empty     *)
(*   shift     position change not yet applied to the K row of the cell    *)
(*   seq       the sequences the cell belongs to                           *)
(*   used      index of the non-empty cells                                *)
(*   seqPos    how often each position occurs in each sequence             *)
(*   hasShift  some shift is pending                                       *)
(*                                                                         *)
(* used and seqPos are caches the class maintains by hand.  A loop of the  *)
(* caller over the cells is one application of an operator to a set of     *)
(* cells: the iterations touch different cells and commute.                *)
(***************************************************************************)
EXTENDS Integers, FiniteSets

CONSTANTS NCells,   \* cells of a stream (kv_size)
          NSeq,     \* sequence ids in use (n_seq_max)
          MaxPos    \* bound on positions

ASSUME SizesAssumption ==
    /\ NCells \in Nat \ {0}
    /\ NSeq \in Nat \ {0}
    /\ MaxPos \in Nat

Cell  == 0..(NCells - 1)
SeqId == 0..(NSeq - 1)
Pos   == 0..MaxPos

NoSeqs == [i \in Cell |-> {}]

CellsType ==
    [pos : [Cell -> Pos \cup {-1}], shift : [Cell -> Int], seq : [Cell -> SUBSET SeqId],
     used : SUBSET Cell, seqPos : [SeqId -> [Pos -> Int]], hasShift : BOOLEAN]

EmptyCells ==
    [pos      |-> [i \in Cell |-> -1],
     shift    |-> [i \in Cell |-> 0],
     seq      |-> NoSeqs,
     used     |-> {},
     seqPos   |-> [s \in SeqId |-> [p \in Pos |-> 0]],
     hasShift |-> FALSE]

\* how many cells i carry position p and have s among the sequences S[i]
Occurs(pos, S, s, p) == Cardinality({i \in Cell : s \in S[i] /\ pos[i] = p})

\* seq_pos_dec for every sequence in D[i], seq_pos_inc for every one in A[i]
SeqPosDec(c, D) ==
    [c EXCEPT !.seqPos = [s \in SeqId |-> [p \in Pos |->
        c.seqPos[s][p] - Occurs(c.pos, D, s, p)]]]

SeqPosInc(c, A) ==
    [c EXCEPT !.seqPos = [s \in SeqId |-> [p \in Pos |->
        c.seqPos[s][p] + Occurs(c.pos, A, s, p)]]]

SeqsOf(c, I) == [i \in Cell |-> IF i \in I THEN c.seq[i] ELSE {}]
Only(I, s)   == [i \in Cell |-> IF i \in I THEN {s} ELSE {}]

\* the fields of a cell that becomes empty
Vacate(c, I) ==
    [c EXCEPT !.pos   = [i \in Cell |-> IF i \in I THEN -1 ELSE c.pos[i]],
              !.shift = [i \in Cell |-> IF i \in I THEN 0 ELSE c.shift[i]],
              !.seq   = [i \in Cell |-> IF i \in I THEN {} ELSE c.seq[i]],
              !.used  = c.used \ I]

IsEmpty(c, i) == c.pos[i] = -1

\* the index used mirrors pos, the index seqPos mirrors pos and seq
Indexed(c) ==
    /\ c.used = {i \in Cell : ~IsEmpty(c, i)}
    /\ \A s \in SeqId, p \in Pos : c.seqPos[s][p] = Occurs(c.pos, c.seq, s, p)

\* the fields of one cell agree with each other and with has_shift
Shaped(c) ==
    \A i \in Cell : /\ IsEmpty(c, i) <=> c.seq[i] = {}
                    /\ IsEmpty(c, i) => c.shift[i] = 0
                    /\ c.shift[i] # 0 => c.hasShift

PosIn(c, i, p0, p1) == c.pos[i] >= p0 /\ c.pos[i] < p1

SeqHas(c, s) == {i \in Cell : s \in c.seq[i]}

\* smallest and largest key of the map seq_pos[s], -1 when it has none
SeqPosMin(c, s) ==
    IF \A p \in Pos : c.seqPos[s][p] = 0 THEN -1
    ELSE CHOOSE p \in Pos : c.seqPos[s][p] # 0
                            /\ \A q \in Pos : c.seqPos[s][q] # 0 => p <= q
SeqPosMax(c, s) ==
    IF \A p \in Pos : c.seqPos[s][p] = 0 THEN -1
    ELSE CHOOSE p \in Pos : c.seqPos[s][p] # 0
                            /\ \A q \in Pos : c.seqPos[s][q] # 0 => q <= p

-----------------------------------------------------------------------------
\* variant for the runs: the counters of the removed cells are kept
RmKeepsCounts(c, I) == Vacate(c, I)

\* rm(i) for every i in I
Rm(c, I) == Vacate(SeqPosDec(c, SeqsOf(c, I)), I)

\* variant for the runs: the cell that loses its last sequence stays in used
SeqRmKeepsUsed(c, D) ==
    LET d == [SeqPosDec(c, D) EXCEPT !.seq = [i \in Cell |-> c.seq[i] \ D[i]]]
    IN  [Vacate(d, {i \in Cell : D[i] # {} /\ d.seq[i] = {}}) EXCEPT !.used = c.used]

\* seq_rm(i, s) for every cell i and every s in D[i]; a cell that loses its
\* last sequence becomes empty
SeqRm(c, D) ==
    LET d == [SeqPosDec(c, D) EXCEPT !.seq = [i \in Cell |-> c.seq[i] \ D[i]]]
    IN  Vacate(d, {i \in Cell : D[i] # {} /\ d.seq[i] = {}})

\* seq_keep(i, s) for every cell i
SeqKeep(c, s) ==
    LET kept    == SeqHas(c, s)
        dropped == {i \in Cell : c.seq[i] # {}} \ kept
        d       == SeqPosDec(c, c.seq)
        e       == [d EXCEPT !.seq = [i \in Cell |->
                        IF i \in kept THEN {s} ELSE d.seq[i]]]
    IN  SeqPosInc(Vacate(e, dropped), Only(kept, s))

\* seq_add(i, s) for every i in I
SeqAdd(c, I, s) ==
    SeqPosInc([c EXCEPT !.seq = [i \in Cell |->
                   IF i \in I THEN c.seq[i] \cup {s} ELSE c.seq[i]]],
              Only(I, s))

\* variant for the runs: has_shift is left alone
PosAddSilent(c, I, d) ==
    LET moved == [SeqPosDec(c, SeqsOf(c, I)) EXCEPT
                    !.pos   = [i \in Cell |-> IF i \in I THEN c.pos[i] + d[i] ELSE c.pos[i]],
                    !.shift = [i \in Cell |-> IF i \in I THEN c.shift[i] + d[i] ELSE c.shift[i]]]
        gone  == {i \in I : moved.pos[i] < 0}
    IN  SeqPosInc(Vacate(moved, gone), SeqsOf(c, I \ gone))

\* pos_add(i, d[i]) for every i in I
PosAdd(c, I, d) ==
    LET moved == [SeqPosDec(c, SeqsOf(c, I)) EXCEPT
                    !.pos      = [i \in Cell |-> IF i \in I THEN c.pos[i] + d[i] ELSE c.pos[i]],
                    !.shift    = [i \in Cell |-> IF i \in I THEN c.shift[i] + d[i] ELSE c.shift[i]],
                    !.hasShift = c.hasShift \/ I # {}]
        gone  == {i \in I : moved.pos[i] < 0}
    IN  SeqPosInc(Vacate(moved, gone), SeqsOf(c, I \ gone))

\* pos_div(i, d) for every i in I
PosDiv(c, I, d) ==
    SeqPosInc([SeqPosDec(c, SeqsOf(c, I)) EXCEPT
                 !.pos      = [i \in Cell |-> IF i \in I THEN c.pos[i] \div d ELSE c.pos[i]],
                 !.shift    = [i \in Cell |-> IF i \in I
                                  THEN c.shift[i] + c.pos[i] - (c.pos[i] \div d)
                                  ELSE c.shift[i]],
                 !.hasShift = c.hasShift \/ I # {}],
              SeqsOf(c, I))

\* pos_set(i, at[i].pos), then seq_add(i, s) for every s in at[i].seq, for the
\* empty cells i in DOMAIN at
Emplace(c, at) ==
    LET I == DOMAIN at
        S == [i \in Cell |-> IF i \in I THEN at[i].seq ELSE {}]
    IN  SeqPosInc([c EXCEPT
                     !.pos  = [i \in Cell |-> IF i \in I THEN at[i].pos ELSE c.pos[i]],
                     !.seq  = [i \in Cell |-> c.seq[i] \cup S[i]],
                     !.used = c.used \cup I],
                  S)

\* cp(idxs): what prepare() remembers of the cells I.  The shift is not copied.
Copy(c, I) == [i \in I |-> [pos |-> c.pos[i], seq |-> c.seq[i]]]

\* set(idxs, old)
Set(c, old) ==
    LET I     == DOMAIN old
        taken == {i \in I : c.pos[i] = -1 /\ old[i].pos # -1}
        freed == {i \in I : c.pos[i] # -1 /\ old[i].pos = -1}
        back  == {i \in I : old[i].pos # -1}
        d     == [SeqPosDec(c, SeqsOf(c, {i \in I : c.pos[i] # -1})) EXCEPT
                    !.pos  = [i \in Cell |-> IF i \in I THEN old[i].pos ELSE c.pos[i]],
                    !.seq  = [i \in Cell |-> IF i \in I THEN old[i].seq ELSE c.seq[i]],
                    !.used = (c.used \ freed) \cup taken]
    IN  SeqPosInc(d, SeqsOf(d, back))

\* variant for the runs: nothing is reset
ResetNothing(c) == c

\* reset_shift()
ResetShift(c) == [c EXCEPT !.shift = [i \in Cell |-> 0], !.hasShift = FALSE]
=============================================================================
