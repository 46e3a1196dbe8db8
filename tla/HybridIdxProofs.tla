--------------------------- MODULE HybridIdxProofs ---------------------------
(***************************************************************************)
(* The four stores of HybridIdx stay in step, and the predecessors that    *)
(* set_input finds are those of the sequence, for every number of cells,   *)
(* sequences and tokens and every order of operations, decodes and         *)
(* failures.                                                               *)
(*                                                                         *)
(* What a sequence has seen (Seen) is the set of its positions and tokens. *)
(* A history is judged against what was seen before the micro-batch in     *)
(* progress (Before): what it tells is true, and for a sequence that was   *)
(* only appended to it tells all there is.                                 *)
(***************************************************************************)
EXTENDS HybridIdx, SubsequencesProofs

CellType  == [pos : Int, seq : SUBSET SeqId, tok : AnyToken \cup {NoToken}]
StateType == [pos : 0 .. MaxPos, seq : SUBSET SeqId]
HistType  == [next_pos : -1 .. MaxPos + 1, toks : Seq(AnyToken)]
RunType   == [seqs : SUBSET SeqId, toks : Seq([tok : AnyToken, pos : 0 .. MaxPos])]
UbType    == [seqs : SUBSET SeqId, seq : SeqId, pos : 0 .. MaxPos, tok : AnyToken]

\* a cell without a sequence is empty, one with a sequence has a token
CellsOK(c) ==
  /\ c \in [Cell -> CellType]
  /\ \A i \in Cell :
       IF c[i].seq = {} THEN c[i] = Free ELSE c[i].pos \in 0 .. MaxPos /\ c[i].tok \in AnyToken

\* the positions and tokens of s
Seen(c, s) == {<<c[i].pos, c[i].tok>> : i \in {j \in Cell : s \in c[j].seq}}
OfTokens(W) == \A x \in W : x = <<x[1], x[2]>> /\ x[1] \in 0 .. MaxPos /\ x[2] \in AnyToken
OneToken(W) == \A x, y \in W : x[1] = y[1] => x = y

\* what was seen ends at p, -1 when it is nothing, and so do the states of s
EndOf(W, p) == (\A x \in W : x[1] <= p) /\ (p >= 0 => \E x \in W : x[1] = p)
TailAt(R, s, p) ==
  /\ \A r \in R : s \in r.seq => r.pos = p
  /\ p >= 0 => \E r \in R : s \in r.seq
EndsMatch(c, R) ==
  \A s \in SeqId : \E p \in -1 .. MaxPos : EndOf(Seen(c, s), p) /\ TailAt(R, s, p)

Stores ==
  /\ idx = attn /\ CellsOK(attn) /\ recr \in SUBSET StateType
  /\ \A s \in SeqId : OneToken(Seen(attn, s))
  /\ EndsMatch(attn, recr)

\* a run goes on after everything its sequences have
Follows(W, toks) == \A x \in W, k \in 1 .. Len(toks) : x[1] < toks[k].pos
RunOK(run) ==
  /\ run \in RunType /\ run.seqs # {} /\ run.seqs \in SeqSets /\ run.toks # <<>>
  /\ \A k, l \in 1 .. Len(run.toks) :
       /\ k < l => run.toks[k].pos < run.toks[l].pos
       /\ ~JumpInside => run.toks[l].pos - run.toks[k].pos = l - k

LeftOK(b, c) ==
  /\ b \in Seq(RunType) /\ Len(b) <= 2
  /\ \A r \in 1 .. Len(b) : RunOK(b[r]) /\ \A s \in b[r].seqs : Follows(Seen(c, s), b[r].toks)
  /\ \A r, q \in 1 .. Len(b) : r # q => b[r].seqs \cap b[q].seqs = {}
  /\ b # <<>> => Total(b) <= Cardinality({i \in Cell : c[i] = Free})

\* the tokens of a sequence are next to each other
Grouped(ub) ==
  /\ ub \in Seq(UbType) /\ ub # <<>>
  /\ \A k, l \in 1 .. Len(ub) :
       /\ ub[k].seq \in ub[k].seqs
       /\ ub[k].seq # ub[l].seq => ub[k].seqs \cap ub[l].seqs = {}
       /\ ub[k].seq = ub[l].seq =>
            /\ ub[k].seqs = ub[l].seqs
            /\ k < l => ub[k].pos < ub[l].pos
            /\ ~JumpInside => ub[l].pos - ub[k].pos = l - k
            /\ \A m \in k .. l : ub[m].seq = ub[k].seq

\* the micro-batch is in the cells, and nothing comes between its tokens
Stored(ub, c) ==
  \A k \in 1 .. Len(ub) : \A s \in ub[k].seqs :
    /\ <<ub[k].pos, ub[k].tok>> \in Seen(c, s)
    /\ \A x \in Seen(c, s) :
         x[1] < ub[k].pos \/ \E l \in 1 .. Len(ub) :
                               ub[l].seq = ub[k].seq /\ x = <<ub[l].pos, ub[l].tok>>

\* sequences that share their tokens are not among the appended ones
Alone(ub, A) == \A k \in 1 .. Len(ub), s \in A : s \in ub[k].seqs => s = ub[k].seq

Steps ==
  /\ pc \in {"idle", "ubatch", "inputs", "compute"}
  /\ pc = "ubatch" => left # <<>>
  /\ pc # "idle" => LeftOK(left, attn)
  /\ pc \in {"inputs", "compute"} =>
       Grouped(ubatch) /\ Stored(ubatch, attn) /\ Alone(ubatch, appended)

\* what s has seen before the micro-batch that set_input will read
Firsts(ub, s) == {k \in 1 .. Len(ub) : ub[k].seq = s}
Below(W, p) == {x \in W : x[1] < p}
Before(s) ==
  IF pc = "inputs" /\ Firsts(ubatch, s) # {}
  THEN Below(Seen(attn, s), ubatch[Min(Firsts(ubatch, s))].pos) ELSE Seen(attn, s)

\* what h tells of a sequence that has seen W is true; a history that was cut
\* short is one that no batch can follow
Reaches(W, p) == \E x \in W : x[1] >= p
Told(W, h) ==
  \A k \in 1 .. Len(h.toks) :
    h.toks[k] # Eos => <<h.next_pos - Len(h.toks) + k - 1, h.toks[k]>> \in W
HistTrue(W, h) ==
  /\ h \in HistType
  /\ Len(h.toks) <= NGram - 1 /\ (h.toks = <<>> => h.next_pos = -1)
  /\ Told(W, h)
  /\ h.next_pos <= 0 \/ Reaches(W, h.next_pos - 1)
  /\ \/ Len(h.toks) = NGram - 1
     \/ \A k \in 1 .. Len(h.toks) : h.toks[k] = Eos
     \/ Reaches(W, h.next_pos)

\* h tells all that matters of a sequence that has seen W
Known(W, p) == \E x \in W : x[1] = p
HistFull(W, h) ==
  /\ \A x \in W : x[1] < h.next_pos
  /\ \A d \in 1 .. NGram - 1 :
       (\A e \in 1 .. d : Known(W, h.next_pos - e)) =>
         /\ Len(h.toks) = NGram - 1
         /\ \A x \in W : x[1] = h.next_pos - d => x[2] = h.toks[NGram - d]

Histories ==
  /\ appended \in SUBSET SeqId
  /\ ~JumpInside =>
       /\ hist = [s \in SeqId |-> hist[s]]
       /\ \A s \in SeqId : HistTrue(Before(s), hist[s])
       /\ \A s \in appended : HistFull(Before(s), hist[s])

IInv == Stores /\ Steps /\ Histories /\ (~JumpInside => NoFalseContext /\ ContextKept)

-----------------------------------------------------------------------------
(* Numbers *)

\* The greatest and the smallest number of a set, when there is one.
LEMMA MaxIs ==
  ASSUME NEW S, NEW m \in S, \A x \in S : x \in Int /\ x <= m
  PROVE  Max(S) = m
  BY DEF Max

LEMMA MinIs ==
  ASSUME NEW S, NEW m \in S, \A x \in S : x \in Int /\ m <= x
  PROVE  Min(S) = m
  BY DEF Min

\* A set of natural numbers that is not empty has a smallest one.
LEMMA MinOfNat ==
  ASSUME NEW S, \A x \in S : x \in Nat, S # {}
  PROVE  Min(S) \in S /\ \A x \in S : Min(S) <= x
<1> DEFINE R == OpToRel(<, Nat)
<1>1. IsWellFoundedOn(R, Nat)
  BY NatLessThanWellFounded
<1> HIDE DEF R
<1>2. S \subseteq Nat
  OBVIOUS
<1>3. PICK x \in S : \A y \in S : <<y, x>> \notin R
  BY <1>1, <1>2, WFMin
<1>4. \A y \in S : ~(y < x)
  BY <1>2, <1>3 DEF R, OpToRel
<1>5. \A y \in S : x <= y
  BY <1>2, <1>4
<1> QED BY <1>5 DEF Min

\* So has a set of numbers up to n a greatest one.
LEMMA MaxUpTo ==
  ASSUME NEW n \in Int, NEW S, \A x \in S : x \in Int /\ x <= n, S # {}
  PROVE  Max(S) \in S /\ \A x \in S : x <= Max(S)
<1> DEFINE T == {n - x : x \in S}
<1>1. T # {} /\ \A y \in T : y \in Nat
  OBVIOUS
<1>2. Min(T) \in T /\ \A y \in T : Min(T) <= y
  BY <1>1, MinOfNat
<1>3. PICK m \in S : Min(T) = n - m
  BY <1>2
<1>4. \A x \in S : x <= m
  <2> TAKE x \in S
  <2>1. n - m <= n - x
    BY <1>2, <1>3
  <2> QED BY <2>1
<1> QED BY <1>4 DEF Max

\* The greatest and the smallest of two numbers.
LEMMA OfTwo ==
  ASSUME NEW a \in Int, NEW b \in Int
  PROVE  /\ Max({a, b}) = IF a < b THEN b ELSE a
         /\ Min({a, b}) = IF a < b THEN a ELSE b
<1>1. Max({a, b}) = IF a < b THEN b ELSE a
  <2> DEFINE m == IF a < b THEN b ELSE a
  <2>1. m \in {a, b} /\ \A x \in {a, b} : x \in Int /\ x <= m
    OBVIOUS
  <2> QED BY <2>1, MaxIs
<1>2. Min({a, b}) = IF a < b THEN a ELSE b
  <2> DEFINE m == IF a < b THEN a ELSE b
  <2>1. m \in {a, b} /\ \A x \in {a, b} : x \in Int /\ m <= x
    OBVIOUS
  <2> QED BY <2>1, MinIs
<1> QED BY <1>1, <1>2

-----------------------------------------------------------------------------
(* Cells and states *)

\* What is seen has a position and a token, and a cell shows it.
LEMMA SeenIs ==
  ASSUME NEW c, CellsOK(c), NEW s
  PROVE  /\ OfTokens(Seen(c, s))
         /\ \A x \in Seen(c, s) : x = <<x[1], x[2]>> /\ x[1] \in 0 .. MaxPos /\ x[2] \in AnyToken
         /\ \A p, t : <<p, t>> \in Seen(c, s)
                        <=> \E i \in Cell : s \in c[i].seq /\ c[i].pos = p /\ c[i].tok = t
         /\ \A x \in Seen(c, s) : \E i \in Cell : s \in c[i].seq /\ x = <<c[i].pos, c[i].tok>>
         /\ \A i \in Cell : s \in c[i].seq => <<c[i].pos, c[i].tok>> \in Seen(c, s)
         /\ Positions(c, s) = {x[1] : x \in Seen(c, s)}
         /\ Seen(c, s) = {} <=> Positions(c, s) = {}
<1>1. \A i \in Cell : s \in c[i].seq => c[i].pos \in 0 .. MaxPos /\ c[i].tok \in AnyToken
  BY DEF CellsOK
<1>2. \A x \in Seen(c, s) : \E i \in Cell : s \in c[i].seq /\ x = <<c[i].pos, c[i].tok>>
  BY DEF Seen
<1>3. \A i \in Cell : s \in c[i].seq => <<c[i].pos, c[i].tok>> \in Seen(c, s)
  BY DEF Seen
<1>4. \A x \in Seen(c, s) : x = <<x[1], x[2]>> /\ x[1] \in 0 .. MaxPos /\ x[2] \in AnyToken
  BY <1>1, <1>2
<1>5. \A p, t : <<p, t>> \in Seen(c, s)
                  <=> \E i \in Cell : s \in c[i].seq /\ c[i].pos = p /\ c[i].tok = t
  BY <1>2, <1>3
<1>6. Positions(c, s) = {x[1] : x \in Seen(c, s)}
  <2>1. \A p \in Positions(c, s) : \E x \in Seen(c, s) : p = x[1]
    <3> TAKE p \in Positions(c, s)
    <3>1. PICK i \in Cell : s \in c[i].seq /\ p = c[i].pos
      BY DEF Positions
    <3> QED BY <3>1, <1>3
  <2>2. \A x \in Seen(c, s) : x[1] \in Positions(c, s)
    <3> TAKE x \in Seen(c, s)
    <3>1. PICK i \in Cell : s \in c[i].seq /\ x = <<c[i].pos, c[i].tok>>
      BY <1>2
    <3>2. x[1] = c[i].pos
      BY <3>1
    <3> QED BY <3>1, <3>2 DEF Positions
  <2> QED BY <2>1, <2>2
<1>7. Seen(c, s) = {} <=> Positions(c, s) = {}
  BY <1>6
<1> QED BY <1>2, <1>3, <1>4, <1>5, <1>6, <1>7 DEF OfTokens

\* The last position of what was seen is the one it ends at.
LEMMA CacheMaxIs ==
  ASSUME NEW c, CellsOK(c), NEW s, NEW p \in -1 .. MaxPos, EndOf(Seen(c, s), p)
  PROVE  /\ CacheMax(c, s) = p
         /\ Seen(c, s) = {} <=> p = -1
         /\ \A q \in -1 .. MaxPos : EndOf(Seen(c, s), q) => q = p
<1>1. \A x \in Seen(c, s) : x[1] \in 0 .. MaxPos /\ x[1] <= p
  BY SeenIs DEF EndOf
<1>2. Positions(c, s) = {x[1] : x \in Seen(c, s)}
  BY SeenIs
<1>3. MaxPos \in Nat
  BY ConfigAssumption
<1>4. CASE p = -1
  <2>1. Seen(c, s) = {}
    BY <1>1, <1>4
  <2> QED BY <2>1, <1>2, <1>4 DEF CacheMax, EndOf
<1>5. CASE p # -1
  <2>1. PICK y \in Seen(c, s) : y[1] = p
    BY <1>5 DEF EndOf
  <2>2. p \in Positions(c, s) /\ \A q \in Positions(c, s) : q \in Int /\ q <= p
    BY <1>1, <1>2, <2>1
  <2>3. CacheMax(c, s) = p
    BY <2>2, MaxIs DEF CacheMax
  <2>4. \A q \in -1 .. MaxPos : EndOf(Seen(c, s), q) => q = p
    BY <1>1, <1>5, <2>1 DEF EndOf
  <2> QED BY <2>1, <2>3, <2>4, <1>5
<1> QED BY <1>4, <1>5

LEMMA TailPosIs ==
  ASSUME NEW s, NEW p \in -1 .. MaxPos, recr \in SUBSET StateType, TailAt(recr, s, p)
  PROVE  TailPos(s) = p
<1> DEFINE T == {r.pos : r \in {q \in recr : s \in q.seq}}
<1>0. MaxPos \in Nat
  BY ConfigAssumption
<1>1. \A x \in T : x = p /\ x \in 0 .. MaxPos
  BY DEF TailAt, StateType
<1>2. p >= 0 => p \in T
  BY DEF TailAt
<1>3. p \in {-1} \cup T /\ \A x \in {-1} \cup T : x \in Int /\ x <= p
  BY <1>0, <1>1, <1>2
<1>4. Max({-1} \cup T) = p
  BY <1>3, MaxIs
<1> QED BY <1>4 DEF TailPos

\* The cells and the state of a sequence end at the same position.
LEMMA StoresEnd ==
  ASSUME Stores, NEW s \in SeqId
  PROVE  /\ CacheMax(attn, s) = TailPos(s) /\ PosMax(s) = TailPos(s)
         /\ TailPos(s) \in -1 .. MaxPos
         /\ EndOf(Seen(attn, s), TailPos(s)) /\ TailAt(recr, s, TailPos(s))
<1>1. PICK p \in -1 .. MaxPos : EndOf(Seen(attn, s), p) /\ TailAt(recr, s, p)
  BY DEF Stores, EndsMatch
<1>2. CacheMax(attn, s) = p /\ TailPos(s) = p
  BY <1>1, CacheMaxIs, TailPosIs DEF Stores
<1> QED BY <1>1, <1>2 DEF PosMax

\* A cell that is emptied, or whose set of sequences is changed, is a cell.
LEMMA CellsKept ==
  ASSUME NEW c, CellsOK(c), NEW d, d = [i \in Cell |-> d[i]],
         \A i \in Cell : \/ d[i] = Free \/ d[i] = c[i]
                         \/ \E X \in SUBSET SeqId :
                              X # {} /\ c[i].seq # {} /\ d[i] = [c[i] EXCEPT !.seq = X]
  PROVE  CellsOK(d)
<1>1. Free \in CellType /\ Free.seq = {}
  BY DEF Free, CellType
<1>2. ASSUME NEW i \in Cell
      PROVE  /\ d[i] \in CellType
             /\ IF d[i].seq = {} THEN d[i] = Free
                ELSE d[i].pos \in 0 .. MaxPos /\ d[i].tok \in AnyToken
  <2>0. c[i] \in CellType /\ (c[i].seq # {} => c[i].pos \in 0 .. MaxPos /\ c[i].tok \in AnyToken)
    BY DEF CellsOK
  <2>1. CASE d[i] = Free
    BY <1>1, <2>1
  <2>2. CASE d[i] = c[i]
    BY <2>0, <2>2 DEF CellsOK
  <2>3. ASSUME NEW X \in SUBSET SeqId, X # {}, c[i].seq # {}, d[i] = [c[i] EXCEPT !.seq = X]
        PROVE  /\ d[i] \in CellType
               /\ d[i].seq # {} /\ d[i].pos \in 0 .. MaxPos /\ d[i].tok \in AnyToken
    <3>1. d[i].seq = X /\ d[i].pos = c[i].pos /\ d[i].tok = c[i].tok
      BY <2>0, <2>3 DEF CellType
    <3> QED BY <2>0, <2>3, <3>1 DEF CellType
  <2> QED BY <2>1, <2>2, <2>3
<1> QED BY <1>2 DEF CellsOK

\* What is seen when some cells have left s and the others are as they were.
LEMMA SeenLeft ==
  ASSUME NEW c, CellsOK(c), NEW d, CellsOK(d), NEW s, NEW W, \A x \in W : x \in Seen(c, s),
         \A i \in Cell : s \in d[i].seq <=> s \in c[i].seq /\ <<c[i].pos, c[i].tok>> \in W,
         \A i \in Cell : s \in d[i].seq => d[i].pos = c[i].pos /\ d[i].tok = c[i].tok
  PROVE  Seen(d, s) = W
<1>1. ASSUME NEW x \in Seen(d, s) PROVE x \in W
  <2>1. PICK i \in Cell : s \in d[i].seq /\ x = <<d[i].pos, d[i].tok>>
    BY SeenIs
  <2> QED BY <2>1
<1>2. ASSUME NEW x \in W PROVE x \in Seen(d, s)
  <2>1. PICK i \in Cell : s \in c[i].seq /\ x = <<c[i].pos, c[i].tok>>
    BY SeenIs
  <2>2. s \in d[i].seq /\ x = <<d[i].pos, d[i].tok>>
    BY <2>1
  <2> QED BY <2>2, SeenIs
<1> QED BY <1>1, <1>2

LEMMA SeenSame ==
  ASSUME NEW c, CellsOK(c), NEW d, CellsOK(d), NEW s,
         \A i \in Cell : s \in d[i].seq <=> s \in c[i].seq,
         \A i \in Cell : s \in d[i].seq => d[i].pos = c[i].pos /\ d[i].tok = c[i].tok
  PROVE  Seen(d, s) = Seen(c, s)
<1>1. \A x \in Seen(d, s) : x \in Seen(c, s)
  <2> TAKE x \in Seen(d, s)
  <2>1. PICK i \in Cell : s \in d[i].seq /\ x = <<d[i].pos, d[i].tok>>
    BY SeenIs
  <2>2. s \in c[i].seq /\ x = <<c[i].pos, c[i].tok>>
    BY <2>1
  <2> QED BY <2>2, SeenIs
<1>2. \A x \in Seen(c, s) : x \in Seen(d, s)
  <2> TAKE x \in Seen(c, s)
  <2>1. PICK i \in Cell : s \in c[i].seq /\ x = <<c[i].pos, c[i].tok>>
    BY SeenIs
  <2>2. s \in d[i].seq /\ x = <<d[i].pos, d[i].tok>>
    BY <2>1
  <2> QED BY <2>2, SeenIs
<1> QED BY <1>1, <1>2

\* What s sees after seq_rm, seq_cp and seq_keep of a cache.
LEMMA SeenRm ==
  ASSUME NEW c, CellsOK(c), NEW s \in SeqId, NEW p0 \in Int, NEW p1 \in Int
  PROVE  /\ CellsOK(CacheRm(c, s, p0, p1))
         /\ Seen(CacheRm(c, s, p0, p1), s) = {x \in Seen(c, s) : ~InRange(x[1], p0, p1)}
         /\ \A t \in SeqId : t # s => Seen(CacheRm(c, s, p0, p1), t) = Seen(c, t)
<1> DEFINE d == CacheRm(c, s, p0, p1)
           W == {x \in Seen(c, s) : ~InRange(x[1], p0, p1)}
<1>1. ASSUME NEW i \in Cell
      PROVE  /\ \/ d[i] = Free \/ d[i] = c[i]
                \/ \E X \in SUBSET SeqId : X # {} /\ c[i].seq # {} /\ d[i] = [c[i] EXCEPT !.seq = X]
             /\ s \in d[i].seq <=> s \in c[i].seq /\ ~InRange(c[i].pos, p0, p1)
             /\ \A t \in SeqId : t # s => (t \in d[i].seq <=> t \in c[i].seq)
             /\ d[i].seq # {} => d[i].pos = c[i].pos /\ d[i].tok = c[i].tok
  <2>0. c[i] \in CellType
    BY DEF CellsOK
  <2>1. CASE s \notin c[i].seq \/ ~InRange(c[i].pos, p0, p1)
    <3>1. d[i] = c[i]
      BY <2>1 DEF CacheRm
    <3> QED BY <2>1, <3>1
  <2>2. CASE s \in c[i].seq /\ InRange(c[i].pos, p0, p1) /\ c[i].seq = {s}
    <3>1. d[i] = Free
      BY <2>2 DEF CacheRm
    <3> QED BY <2>2, <3>1 DEF Free
  <2>3. CASE s \in c[i].seq /\ InRange(c[i].pos, p0, p1) /\ c[i].seq # {s}
    <3>1. d[i] = [c[i] EXCEPT !.seq = c[i].seq \ {s}]
      BY <2>3 DEF CacheRm
    <3>2. d[i].seq = c[i].seq \ {s} /\ d[i].pos = c[i].pos /\ d[i].tok = c[i].tok
      BY <2>0, <3>1 DEF CellType
    <3>3. c[i].seq \ {s} \in SUBSET SeqId /\ c[i].seq \ {s} # {}
      BY <2>0, <2>3 DEF CellType
    <3> QED BY <2>3, <3>1, <3>2, <3>3
  <2> QED BY <2>1, <2>2, <2>3
<1>2. d = [i \in Cell |-> d[i]]
  BY DEF CacheRm
<1> HIDE DEF d
<1>3. CellsOK(d)
  <2>1. \A i \in Cell : \/ d[i] = Free \/ d[i] = c[i]
                         \/ \E X \in SUBSET SeqId :
                              X # {} /\ c[i].seq # {} /\ d[i] = [c[i] EXCEPT !.seq = X]
    BY <1>1
  <2> HIDE DEF d
  <2> QED BY <1>2, <2>1, CellsKept
<1>6. \A t, i : i \in Cell /\ t \in d[i].seq => d[i].pos = c[i].pos /\ d[i].tok = c[i].tok
  BY <1>1
<1>4. Seen(d, s) = W
  <2>3. \A x \in W : x \in Seen(c, s)
    OBVIOUS
  <2>1. \A i \in Cell : s \in c[i].seq => <<c[i].pos, c[i].tok>> \in Seen(c, s)
    BY SeenIs
  <2>2. \A i \in Cell : s \in d[i].seq <=> s \in c[i].seq /\ <<c[i].pos, c[i].tok>> \in W
    BY <1>1, <2>1
  <2> HIDE DEF W
  <2> QED BY <1>6, <1>3, <2>2, <2>3, SeenLeft
<1>5. ASSUME NEW t \in SeqId, t # s PROVE Seen(d, t) = Seen(c, t)
  <2>1. \A i \in Cell : t \in d[i].seq <=> t \in c[i].seq
    BY <1>1, <1>5
  <2> QED BY <1>6, <1>3, <2>1, SeenSame
<1> QED BY <1>3, <1>4, <1>5 DEF d

LEMMA SeenCp ==
  ASSUME NEW c, CellsOK(c), NEW src \in SeqId, NEW dst \in SeqId, Seen(c, dst) = {}
  PROVE  /\ CellsOK(CacheCp(c, src, dst))
         /\ Seen(CacheCp(c, src, dst), dst) = Seen(c, src)
         /\ \A t \in SeqId : t # dst => Seen(CacheCp(c, src, dst), t) = Seen(c, t)
<1> DEFINE d == CacheCp(c, src, dst)
           W == Seen(c, src)
<1>1. ASSUME NEW i \in Cell
      PROVE  /\ \/ d[i] = Free \/ d[i] = c[i]
                \/ \E X \in SUBSET SeqId : X # {} /\ c[i].seq # {} /\ d[i] = [c[i] EXCEPT !.seq = X]
             /\ dst \in d[i].seq <=> src \in c[i].seq
             /\ \A t \in SeqId : t # dst => (t \in d[i].seq <=> t \in c[i].seq)
             /\ d[i].pos = c[i].pos /\ d[i].tok = c[i].tok
  <2>0. c[i] \in CellType
    BY DEF CellsOK
  <2>1. dst \notin c[i].seq
    BY SeenIs
  <2>2. CASE src \notin c[i].seq
    <3>1. d[i] = c[i]
      BY <2>2 DEF CacheCp
    <3> QED BY <2>1, <2>2, <3>1
  <2>3. CASE src \in c[i].seq
    <3>1. d[i] = [c[i] EXCEPT !.seq = c[i].seq \cup {dst}]
      BY <2>3 DEF CacheCp
    <3>2. d[i].seq = c[i].seq \cup {dst} /\ d[i].pos = c[i].pos /\ d[i].tok = c[i].tok
      BY <2>0, <3>1 DEF CellType
    <3>3. c[i].seq \cup {dst} \in SUBSET SeqId /\ c[i].seq \cup {dst} # {}
      BY <2>0 DEF CellType
    <3> QED BY <2>3, <3>1, <3>2, <3>3
  <2> QED BY <2>2, <2>3
<1>2. d = [i \in Cell |-> d[i]]
  BY DEF CacheCp
<1> HIDE DEF d
<1>3. CellsOK(d)
  <2>1. \A i \in Cell : \/ d[i] = Free \/ d[i] = c[i]
                         \/ \E X \in SUBSET SeqId :
                              X # {} /\ c[i].seq # {} /\ d[i] = [c[i] EXCEPT !.seq = X]
    BY <1>1
  <2> QED BY <1>2, <2>1, CellsKept
<1>4. \A x \in Seen(d, dst) : x \in W
  <2> TAKE x \in Seen(d, dst)
  <2>1. PICK i \in Cell : dst \in d[i].seq /\ x = <<d[i].pos, d[i].tok>>
    BY <1>3, SeenIs
  <2>2. src \in c[i].seq /\ x = <<c[i].pos, c[i].tok>>
    BY <1>1, <2>1
  <2> QED BY <2>2, SeenIs
<1>5. \A x \in W : x \in Seen(d, dst)
  <2> TAKE x \in W
  <2>1. PICK i \in Cell : src \in c[i].seq /\ x = <<c[i].pos, c[i].tok>>
    BY SeenIs
  <2>2. dst \in d[i].seq /\ x = <<d[i].pos, d[i].tok>>
    BY <1>1, <2>1
  <2> QED BY <1>3, <2>2, SeenIs
<1>6. ASSUME NEW t \in SeqId, t # dst PROVE Seen(d, t) = Seen(c, t)
  <2>1. \A i \in Cell : t \in d[i].seq <=> t \in c[i].seq
    BY <1>1, <1>6
  <2>2. \A i \in Cell : t \in d[i].seq => d[i].pos = c[i].pos /\ d[i].tok = c[i].tok
    BY <1>1
  <2> QED BY <1>3, <2>1, <2>2, SeenSame
<1>7. Seen(d, dst) = W
  BY <1>4, <1>5
<1> QED BY <1>3, <1>6, <1>7 DEF d

LEMMA SeenKeep ==
  ASSUME NEW c, CellsOK(c), NEW s \in SeqId
  PROVE  /\ CellsOK(CacheKeep(c, s))
         /\ Seen(CacheKeep(c, s), s) = Seen(c, s)
         /\ \A t \in SeqId : t # s => Seen(CacheKeep(c, s), t) = {}
<1> DEFINE d == CacheKeep(c, s)
<1>1. ASSUME NEW i \in Cell
      PROVE  /\ \/ d[i] = Free \/ d[i] = c[i]
                \/ \E X \in SUBSET SeqId : X # {} /\ c[i].seq # {} /\ d[i] = [c[i] EXCEPT !.seq = X]
             /\ s \in d[i].seq <=> s \in c[i].seq
             /\ \A t \in SeqId : t # s => t \notin d[i].seq
             /\ d[i].seq # {} => d[i].pos = c[i].pos /\ d[i].tok = c[i].tok
  <2>0. c[i] \in CellType
    BY DEF CellsOK
  <2>2. CASE s \notin c[i].seq
    <3>1. d[i] = Free
      BY <2>2 DEF CacheKeep
    <3> QED BY <2>2, <3>1 DEF Free
  <2>3. CASE s \in c[i].seq
    <3>1. d[i] = [c[i] EXCEPT !.seq = {s}]
      BY <2>3 DEF CacheKeep
    <3>2. d[i].seq = {s} /\ d[i].pos = c[i].pos /\ d[i].tok = c[i].tok
      BY <2>0, <3>1 DEF CellType
    <3>3. {s} \in SUBSET SeqId /\ {s} # {}
      OBVIOUS
    <3> QED BY <2>3, <3>1, <3>2, <3>3
  <2> QED BY <2>2, <2>3
<1>2. d = [i \in Cell |-> d[i]]
  BY DEF CacheKeep
<1> HIDE DEF d
<1>3. CellsOK(d)
  <2>1. \A i \in Cell : \/ d[i] = Free \/ d[i] = c[i]
                         \/ \E X \in SUBSET SeqId :
                              X # {} /\ c[i].seq # {} /\ d[i] = [c[i] EXCEPT !.seq = X]
    BY <1>1
  <2> QED BY <1>2, <2>1, CellsKept
<1>4. Seen(d, s) = Seen(c, s)
  <2>1. \A i \in Cell : s \in d[i].seq <=> s \in c[i].seq
    BY <1>1
  <2>2. \A i \in Cell : s \in d[i].seq => d[i].pos = c[i].pos /\ d[i].tok = c[i].tok
    BY <1>1
  <2> QED BY <1>3, <2>1, <2>2, SeenSame
<1>5. ASSUME NEW t \in SeqId, t # s PROVE Seen(d, t) = {}
  BY <1>1, <1>3, <1>5, SeenIs
<1> QED BY <1>3, <1>4, <1>5 DEF d

\* A cache without cells in use.
LEMMA SeenNone ==
  ASSUME NEW c, c = [i \in Cell |-> Free]
  PROVE  CellsOK(c) /\ \A s : Seen(c, s) = {}
<1>1. \A i \in Cell : c[i] = Free
  OBVIOUS
<1>2. Free \in CellType /\ Free.seq = {}
  BY DEF Free, CellType
<1>3. CellsOK(c)
  BY <1>1, <1>2 DEF CellsOK
<1> QED BY <1>1, <1>2, <1>3, SeenIs

\* The states of the sequences that are not taken out stay.
LEMMA TailWithout ==
  ASSUME NEW R \in SUBSET StateType, NEW S \in SUBSET SeqId
  PROVE  /\ Without(R, S) \in SUBSET StateType
         /\ \A s \in SeqId, p \in -1 .. MaxPos :
              IF s \in S THEN TailAt(Without(R, S), s, -1)
              ELSE TailAt(R, s, p) => TailAt(Without(R, S), s, p)
<1>0. MaxPos \in Nat
  BY ConfigAssumption
<1>1. \A q \in Without(R, S) : \E r \in R : q.pos = r.pos /\ q.seq = r.seq \ S /\ q \in StateType
  <2> TAKE q \in Without(R, S)
  <2>1. PICK r \in R : q = [r EXCEPT !.seq = @ \ S]
    BY DEF Without
  <2>2. q.pos = r.pos /\ q.seq = r.seq \ S /\ q \in StateType
    BY <2>1 DEF StateType
  <2> QED BY <2>2
<1>2. \A r \in R : \A s \in r.seq \ S : \E q \in Without(R, S) : q.pos = r.pos /\ s \in q.seq
  <2> TAKE r \in R
  <2> TAKE s \in r.seq \ S
  <2> DEFINE q == [r EXCEPT !.seq = @ \ S]
  <2>1. q \in Without(R, S)
    BY DEF Without
  <2>2. q.pos = r.pos /\ q.seq = r.seq \ S
    BY DEF StateType
  <2> QED BY <2>1, <2>2
<1>3. Without(R, S) \in SUBSET StateType
  BY <1>1
<1>4. ASSUME NEW s \in S PROVE TailAt(Without(R, S), s, -1)
  BY <1>1 DEF TailAt
<1>5. ASSUME NEW s \in SeqId, s \notin S, NEW p \in -1 .. MaxPos, TailAt(R, s, p)
      PROVE  TailAt(Without(R, S), s, p)
  BY <1>1, <1>2, <1>5 DEF TailAt
<1> QED BY <1>3, <1>4, <1>5

-----------------------------------------------------------------------------
(* Histories *)

LEMMA HistGrows ==
  ASSUME NEW W, NEW V, \A x \in W : x \in V, NEW h, HistTrue(W, h)
  PROVE  HistTrue(V, h)
BY DEF HistTrue, Told, Reaches

LEMMA HistNone ==
  /\ \A W : HistTrue(W, NoHistory)
  /\ \A h : HistFull({}, h)
<1>0. NGram \in Nat /\ NGram > 1 /\ MaxPos \in Nat
  BY ConfigAssumption
<1>1. /\ NoHistory \in HistType /\ NoHistory.toks = <<>> /\ NoHistory.next_pos = -1
      /\ Len(NoHistory.toks) = 0
  BY <1>0 DEF NoHistory, HistType
<1>2. \A W : HistTrue(W, NoHistory)
  BY <1>0, <1>1 DEF HistTrue, Told
<1>3. ASSUME NEW h PROVE HistFull({}, h)
  <2>1. \A d \in 1 .. NGram - 1 : ~ \A e \in 1 .. d : Known({}, h.next_pos - e)
    <3> TAKE d \in 1 .. NGram - 1
    <3>1. 1 \in 1 .. d /\ ~Known({}, h.next_pos - 1)
      BY <1>0 DEF Known
    <3> QED BY <3>1
  <2> QED BY <2>1 DEF HistFull
<1> QED BY <1>2, <1>3

\* A history that is trimmed together with the memory stays true, when the
\* recurrent memory lets the range go.
LEMMA TrimTrue ==
  ASSUME NEW W, \A x \in W : x = <<x[1], x[2]>> /\ x[1] \in 0 .. MaxPos,
         NEW h, HistTrue(W, h),
         NEW e \in -1 .. MaxPos, EndOf(W, e),
         NEW p0 \in Int, NEW p1 \in Int,
         ~(p0 > 0 /\ p0 <= e /\ (p1 < 0 \/ e < p1))
  PROVE  HistTrue({x \in W : ~InRange(x[1], p0, p1)}, Trimmed(h, p0, p1))
<1> DEFINE V      == {x \in W : ~InRange(x[1], p0, p1)}
           first  == IF p0 < 0 THEN 0 ELSE p0
           last   == IF p1 < 0 THEN MaxPos + 2 ELSE p1
           n      == Len(h.toks)
           oldest == h.next_pos - n
<1>0. NGram \in Nat /\ NGram > 1 /\ MaxPos \in Nat
  BY ConfigAssumption
<1>1. h \in HistType /\ h.toks \in Seq(AnyToken) /\ h.next_pos \in -1 .. MaxPos + 1 /\ n \in Nat
  BY DEF HistTrue, HistType
<1>2. first \in Nat /\ last \in Nat /\ oldest \in Int
  BY <1>0, <1>1
<1>3. \A x \in W : x \in V <=> x[1] < first \/ last <= x[1]
  BY <1>0 DEF InRange
<1>4. \A x \in W : x[1] <= e
  BY DEF EndOf
<1>5. CASE e >= 0 /\ first <= e /\ e < last
  \* the whole sequence goes
  <2>1. first = 0
    BY <1>0, <1>5
  <2>2. V = {}
    BY <2>1, <1>3, <1>4, <1>5, <1>2
  <2>3. h.next_pos <= e + 1
    BY <1>1, <1>4, <1>5 DEF HistTrue, Reaches
  <2>4. CASE h.toks = <<>> \/ first >= h.next_pos \/ last <= oldest
    <3>1. Trimmed(h, p0, p1) = h
      BY <1>1, <2>4 DEF Trimmed
    <3>2. h.next_pos <= 0 /\ \A k \in 1 .. n : h.next_pos - n + k - 1 < 0
      <4>1. h.next_pos <= 0
        <5>1. CASE h.toks = <<>>
          BY <5>1 DEF HistTrue
        <5>2. CASE first >= h.next_pos
          BY <5>2, <2>1
        <5>3. CASE last <= oldest /\ h.toks # <<>>
          <6>1. n > 0
            BY <5>3, <1>1
          <6> QED BY <6>1, <5>3, <2>3, <1>5, <1>1, <1>2
        <5> QED BY <2>4, <5>1, <5>2, <5>3
      <4> QED BY <4>1, <1>1
    <3>3. \A k \in 1 .. n : h.toks[k] = Eos
      <4> TAKE k \in 1 .. n
      <4>1. h.toks[k] # Eos => <<h.next_pos - n + k - 1, h.toks[k]>> \in W
        BY DEF HistTrue, Told
      <4>2. \A q \in Int : \A t : <<q, t>> \in W => q >= 0
        OBVIOUS
      <4> QED BY <4>1, <4>2, <3>2, <1>1
    <3> QED BY <3>1, <3>2, <3>3 DEF HistTrue, Told
  <2>5. CASE ~(h.toks = <<>> \/ first >= h.next_pos \/ last <= oldest) /\ last >= h.next_pos /\ first > oldest
    <3> DEFINE g == Trimmed(h, p0, p1)
    <3>1. g = [next_pos |-> first, toks |-> SubSeq(h.toks, 1, first - oldest)]
      BY <1>1, <1>2, <2>5, <1>5 DEF Trimmed
    <3>2. first - oldest \in 1 .. n
      BY <1>1, <1>2, <2>5, SMTT(30)
    <3>3. /\ g.toks \in Seq(AnyToken) /\ Len(g.toks) = first - oldest /\ g.next_pos = 0
          /\ \A k \in 1 .. Len(g.toks) : g.toks[k] = h.toks[k]
      BY <3>1, <3>2, <1>1, <2>1, SMTT(30)
    <3>4. \A k \in 1 .. Len(g.toks) : h.next_pos - n + k - 1 < 0 /\ k \in 1 .. n
      BY <3>2, <3>3, <1>1, <2>1, SMTT(30)
    <3>5. \A k \in 1 .. Len(g.toks) : g.toks[k] = Eos
      <4> TAKE k \in 1 .. Len(g.toks)
      <4>1. h.toks[k] # Eos => <<h.next_pos - n + k - 1, h.toks[k]>> \in W
        BY <3>4 DEF HistTrue, Told
      <4> QED BY <4>1, <3>3, <3>4
    <3>6. g \in HistType
      BY <3>1, <3>3, <1>0 DEF HistType
    <3>7. Len(g.toks) <= NGram - 1 /\ g.toks # <<>>
      BY <3>2, <3>3, <1>0, <1>1 DEF HistTrue
    <3> HIDE DEF g, V
    <3>8. HistTrue(V, g)
      BY <3>3, <3>5, <3>6, <3>7 DEF HistTrue, Told
    <3> QED BY <3>8 DEF g, V
  <2>6. CASE ~(h.toks = <<>> \/ first >= h.next_pos \/ last <= oldest) /\ ~(last >= h.next_pos /\ first > oldest)
    <3>1. Trimmed(h, p0, p1) = NoHistory
      BY <1>1, <1>2, <2>6, <1>5 DEF Trimmed
    <3> QED BY <3>1, HistNone
  <2> QED BY <2>4, <2>5, <2>6
<1>6. CASE ~(e >= 0 /\ first <= e /\ e < last)
  \* the last token stays
  <2>1. \A p \in Int : Reaches(W, p) => Reaches(V, p)
    <3> TAKE p \in Int
    <3> HAVE Reaches(W, p)
    <3>1. e >= 0 /\ p <= e
      BY <1>4 DEF Reaches
    <3>2. PICK x \in W : x[1] = e
      BY <3>1 DEF EndOf
    <3>3. x \in V
      BY <1>2, <1>3, <1>6, <3>1, <3>2
    <3> QED BY <3>1, <3>2, <3>3 DEF Reaches
  <2>2. CASE first >= last \/ h.toks = <<>> \/ first >= h.next_pos \/ last <= oldest
    <3>1. Trimmed(h, p0, p1) = h
      BY <1>1, <2>2 DEF Trimmed
    <3>2. Told(V, h)
      <4> SUFFICES ASSUME NEW k \in 1 .. n, h.toks[k] # Eos
                   PROVE  <<h.next_pos - n + k - 1, h.toks[k]>> \in V
        BY DEF Told
      <4>1. <<h.next_pos - n + k - 1, h.toks[k]>> \in W
        BY DEF HistTrue, Told
      <4>2. h.next_pos - n + k - 1 < h.next_pos /\ oldest <= h.next_pos - n + k - 1
        BY <1>1
      <4>3. h.next_pos - n + k - 1 < first \/ last <= h.next_pos - n + k - 1
        BY <2>2, <4>2, <1>1, <1>2, SMTT(30)
      <4> QED BY <4>1, <4>3, <1>3
    <3> HIDE DEF V
    <3>3. HistTrue(V, h)
      BY <3>2, <2>1, <1>1 DEF HistTrue
    <3> QED BY <3>1, <3>3 DEF V
  <2>3. CASE ~(first >= last \/ h.toks = <<>> \/ first >= h.next_pos \/ last <= oldest)
             /\ last >= h.next_pos /\ first > oldest
    <3> DEFINE g == Trimmed(h, p0, p1)
    <3>1. g = [next_pos |-> first, toks |-> SubSeq(h.toks, 1, first - oldest)]
      BY <1>1, <1>2, <2>3 DEF Trimmed
    <3>2. first - oldest \in 1 .. n
      BY <1>1, <1>2, <2>3
    <3>3. /\ g.toks \in Seq(AnyToken) /\ Len(g.toks) = first - oldest /\ g.next_pos = first
          /\ \A k \in 1 .. Len(g.toks) : g.toks[k] = h.toks[k]
      BY <3>1, <3>2, <1>1, SMTT(30)
    <3>4. h.next_pos - 1 <= e /\ first <= e
      <4>1. Reaches(W, h.next_pos - 1)
        BY <2>3, <1>1, <1>2 DEF HistTrue
      <4> QED BY <4>1, <1>1, <1>2, <1>4, <2>3 DEF Reaches
    <3>5. Reaches(V, first)
      <4>1. Reaches(W, first)
        BY <3>4, <1>2 DEF Reaches, EndOf
      <4> QED BY <4>1, <2>1, <1>2
    <3>6. Reaches(V, first - 1)
      BY <3>5, <1>2 DEF Reaches
    <3>7. Told(V, g)
      <4> SUFFICES ASSUME NEW k \in 1 .. Len(g.toks), g.toks[k] # Eos
                   PROVE  <<g.next_pos - Len(g.toks) + k - 1, g.toks[k]>> \in V
        BY DEF Told
      <4>1. k \in 1 .. n /\ h.next_pos - n + k - 1 < first
            /\ g.next_pos - Len(g.toks) + k - 1 = h.next_pos - n + k - 1
        BY <3>2, <3>3, <1>1, SMTT(30)
      <4>2. <<h.next_pos - n + k - 1, h.toks[k]>> \in W
        BY <4>1, <3>3 DEF HistTrue, Told
      <4> QED BY <4>1, <4>2, <3>3, <1>3
    <3>8. g \in HistType
      BY <3>1, <3>3, <3>4, <1>0, <1>2, SMTT(30) DEF HistType
    <3>9. Len(g.toks) <= NGram - 1 /\ g.toks # <<>>
      BY <3>2, <3>3, <1>0, <1>1 DEF HistTrue
    <3> HIDE DEF g, V
    <3>10. HistTrue(V, g)
      BY <3>3, <3>5, <3>6, <3>7, <3>8, <3>9 DEF HistTrue
    <3> QED BY <3>10 DEF g, V
  <2>4. CASE ~(first >= last \/ h.toks = <<>> \/ first >= h.next_pos \/ last <= oldest)
             /\ ~(last >= h.next_pos /\ first > oldest)
    <3>1. Trimmed(h, p0, p1) = NoHistory
      BY <1>1, <1>2, <2>4 DEF Trimmed
    <3> QED BY <3>1, HistNone
  <2> QED BY <2>2, <2>3, <2>4
<1> QED BY <1>5, <1>6

\* A range behind the end of the sequence, and one without positions, leave its
\* history alone.
LEMMA TrimNothing ==
  ASSUME NEW W, NEW h, HistTrue(W, h), \A x \in W : x[1] \in 0 .. MaxPos,
         NEW e \in -1 .. MaxPos, EndOf(W, e),
         NEW p0 \in Int, NEW p1 \in Int, p0 > e \/ (p0 = p1 /\ p0 >= 0)
  PROVE  /\ Trimmed(h, p0, p1) = h
         /\ {x \in W : ~InRange(x[1], p0, p1)} = W
<1>0. MaxPos \in Nat
  BY ConfigAssumption
<1>1. h.next_pos \in -1 .. MaxPos + 1 /\ h.next_pos <= e + 1
  BY <1>0 DEF HistTrue, HistType, Reaches, EndOf
<1>2. Trimmed(h, p0, p1) = h
  BY <1>0, <1>1 DEF Trimmed
<1>3. \A x \in W : x[1] <= e
  BY DEF EndOf
<1>4. \A x \in W : ~InRange(x[1], p0, p1)
  BY <1>3 DEF InRange
<1> QED BY <1>2, <1>4

\* The history as a micro-batch finds it that goes on at p.
Snap(h, p) == IF h.next_pos = p THEN Resized(h.toks) ELSE Padding

LEMMA ResizedIs ==
  ASSUME NEW t \in Seq(AnyToken), Len(t) <= NGram - 1
  PROVE  /\ Resized(t) \in Seq(AnyToken) /\ Len(Resized(t)) = NGram - 1
         /\ \A k \in 1 .. NGram - 1 : Resized(t)[k] = IF k <= Len(t) THEN t[k] ELSE Eos
<1> DEFINE u == t \o Padding
<1>0. NGram \in Nat /\ NGram > 1 /\ Eos \in AnyToken
  BY ConfigAssumption DEF AnyToken
<1>1. Padding \in Seq(AnyToken) /\ Len(Padding) = NGram - 1 /\ \A k \in 1 .. NGram - 1 : Padding[k] = Eos
  BY <1>0 DEF Padding
<1>2. u \in Seq(AnyToken) /\ Len(u) = Len(t) + NGram - 1
  BY <1>0, <1>1
<1>3. \A k \in 1 .. NGram - 1 : u[k] = IF k <= Len(t) THEN t[k] ELSE Eos
  BY <1>0, <1>1, <1>2
<1>4. Resized(t) = SubSeq(u, 1, NGram - 1)
  BY DEF Resized
<1> HIDE DEF u
<1>5. /\ SubSeq(u, 1, NGram - 1) \in Seq(AnyToken) /\ Len(SubSeq(u, 1, NGram - 1)) = NGram - 1
      /\ \A k \in 1 .. NGram - 1 : SubSeq(u, 1, NGram - 1)[k] = u[k]
  BY <1>0, <1>2
<1> QED BY <1>3, <1>4, <1>5

\* It has the tokens right before p, or ends of a segment in their place; when it
\* tells all, it has them as far back as they are known.
LEMMA SnapIs ==
  ASSUME NEW B, NEW p \in 0 .. MaxPos,
         OfTokens(B), \A x \in B : x[1] < p,
         NEW h, HistTrue(B, h)
  PROVE  /\ Snap(h, p) \in Seq(AnyToken) /\ Len(Snap(h, p)) = NGram - 1
         /\ \A k \in 1 .. NGram - 1 :
              Snap(h, p)[k] # Eos => <<p - NGram + k, Snap(h, p)[k]>> \in B
         /\ HistFull(B, h) =>
              \A d \in 1 .. NGram - 1 :
                (\A e \in 1 .. d : Known(B, p - e)) =>
                  \A x \in B : x[1] = p - d => x[2] = Snap(h, p)[NGram - d]
<1> DEFINE n == Len(h.toks)
<1>0. NGram \in Nat /\ NGram > 1 /\ MaxPos \in Nat /\ Eos \in AnyToken
  BY ConfigAssumption DEF AnyToken
<1>1. /\ h.toks \in Seq(AnyToken) /\ h.next_pos \in -1 .. MaxPos + 1
      /\ n \in Nat /\ n <= NGram - 1
  BY DEF HistTrue, HistType
<1>8. \A x \in B : x[1] \in 0 .. MaxPos
  BY DEF OfTokens
<1>2. Padding \in Seq(AnyToken) /\ Len(Padding) = NGram - 1 /\ \A k \in 1 .. NGram - 1 : Padding[k] = Eos
  BY <1>0 DEF Padding
<1>3. /\ Resized(h.toks) \in Seq(AnyToken) /\ Len(Resized(h.toks)) = NGram - 1
      /\ \A k \in 1 .. NGram - 1 : Resized(h.toks)[k] = IF k <= n THEN h.toks[k] ELSE Eos
  BY <1>1, ResizedIs
<1>4. Snap(h, p) \in Seq(AnyToken) /\ Len(Snap(h, p)) = NGram - 1
  BY <1>2, <1>3 DEF Snap
<1>5. ~Reaches(B, p)
  BY <1>8 DEF Reaches
<1>6. ASSUME NEW k \in 1 .. NGram - 1, Snap(h, p)[k] # Eos
      PROVE  <<p - NGram + k, Snap(h, p)[k]>> \in B
  <2>1. h.next_pos = p /\ k <= n /\ Snap(h, p)[k] = h.toks[k]
    BY <1>2, <1>3, <1>6 DEF Snap
  <2>2. n = NGram - 1
    BY <1>5, <1>6, <2>1 DEF HistTrue
  <2>5. Told(B, h) /\ k \in 1 .. Len(h.toks) /\ h.toks[k] # Eos
    BY <1>1, <1>6, <2>1 DEF HistTrue
  <2>3. <<h.next_pos - n + k - 1, h.toks[k]>> \in B
    BY <2>5 DEF Told
  <2>4. h.next_pos - n + k - 1 = p - NGram + k
    BY <1>0, <2>1, <2>2
  <2> QED BY <2>1, <2>3, <2>4
<1>7. ASSUME HistFull(B, h), NEW d \in 1 .. NGram - 1, \A e \in 1 .. d : Known(B, p - e),
             NEW x \in B, x[1] = p - d
      PROVE  x[2] = Snap(h, p)[NGram - d]
  <2>1. Known(B, p - 1)
    BY <1>0, <1>7
  <2>2. p <= h.next_pos /\ p > 0
    BY <1>1, <1>7, <1>8, <2>1 DEF HistFull, Known
  <2>3. Reaches(B, h.next_pos - 1)
    BY <1>1, <2>2 DEF HistTrue
  <2>4. h.next_pos = p
    BY <1>1, <1>8, <2>2, <2>3 DEF Reaches
  <2>5. n = NGram - 1 /\ x[2] = h.toks[NGram - d]
    BY <1>7, <2>4 DEF HistFull
  <2>6. NGram - d \in 1 .. NGram - 1
    BY <1>0
  <2> QED BY <1>3, <2>4, <2>5, <2>6 DEF Snap
<1> HIDE DEF n
<1> QED BY <1>4, <1>6, <1>7

\* The history after a micro-batch that has the tokens own from p on.
Commit(h, p, own) ==
  LET toks == Snap(h, p) \o own
  IN  [next_pos |-> p + Len(own), toks |-> SubSeq(toks, Len(toks) - NGram + 2, Len(toks))]

LEMMA CommitIs ==
  ASSUME NEW h, NEW p \in Int, Snap(h, p) \in Seq(AnyToken), Len(Snap(h, p)) = NGram - 1,
         NEW own \in Seq(AnyToken), NEW m \in Nat \ {0}, Len(own) = m
  PROVE  /\ Commit(h, p, own).next_pos = p + m
         /\ Commit(h, p, own).toks \in Seq(AnyToken)
         /\ Len(Commit(h, p, own).toks) = NGram - 1
         /\ \A k \in 1 .. NGram - 1 :
              Commit(h, p, own).toks[k] =
                IF m + k < NGram THEN Snap(h, p)[m + k] ELSE own[m + k - NGram + 1]
<1> DEFINE snp  == Snap(h, p)
           toks == snp \o own
           b    == NGram - 1 + m
<1>0. NGram \in Nat /\ NGram > 1
  BY ConfigAssumption
<1>1. Len(own) = m /\ snp \in Seq(AnyToken) /\ Len(snp) = NGram - 1
  OBVIOUS
<1>2. Commit(h, p, own) =
        [next_pos |-> p + m, toks |-> SubSeq(toks, Len(toks) - NGram + 2, Len(toks))]
  BY DEF Commit
<1> HIDE DEF snp
<1>3. /\ toks \in Seq(AnyToken) /\ Len(toks) = b
      /\ \A j \in 1 .. b : toks[j] = IF j <= NGram - 1 THEN snp[j] ELSE own[j - (NGram - 1)]
  <2>1. /\ snp \o own \in Seq(AnyToken) /\ Len(snp \o own) = Len(snp) + Len(own)
        /\ \A j \in 1 .. Len(snp) + Len(own) :
             (snp \o own)[j] = IF j <= Len(snp) THEN snp[j] ELSE own[j - Len(snp)]
    BY <1>1, Concat
  <2> QED BY <1>1, <2>1
<1> HIDE DEF toks
<1>4. /\ m + 1 \in 1 .. Len(toks) + 1 /\ b \in (m + 1) - 1 .. Len(toks)
      /\ b - (m + 1) + 1 = NGram - 1 /\ b - NGram + 2 = m + 1
  BY <1>0, <1>3
<1> HIDE DEF b
<1>5. /\ SubSeq(toks, m + 1, b) \in Seq(AnyToken) /\ Len(SubSeq(toks, m + 1, b)) = NGram - 1
      /\ \A k \in 1 .. NGram - 1 : SubSeq(toks, m + 1, b)[k] = toks[(m + 1) + k - 1]
  BY <1>3, <1>4, Cut
<1>6. Commit(h, p, own) = [next_pos |-> p + m, toks |-> SubSeq(toks, m + 1, b)]
  BY <1>2, <1>3, <1>4
<1>7. ASSUME NEW k \in 1 .. NGram - 1
      PROVE  toks[(m + 1) + k - 1] = IF m + k < NGram THEN snp[m + k] ELSE own[m + k - NGram + 1]
  <2>1. /\ (m + 1) + k - 1 = m + k /\ m + k \in 1 .. b
        /\ m + k <= NGram - 1 <=> m + k < NGram
        /\ m + k - (NGram - 1) = m + k - NGram + 1
    BY <1>0 DEF b
  <2> QED BY <1>3, <2>1
<1>8. Commit(h, p, own).next_pos = p + m /\ Commit(h, p, own).toks = SubSeq(toks, m + 1, b)
  <2>1. \A c, x, y : c = [next_pos |-> x, toks |-> y] => c.next_pos = x /\ c.toks = y
    OBVIOUS
  <2> QED BY <1>6, <2>1, Zenon
<1> QED BY <1>5, <1>7, <1>8 DEF snp

\* own are the last tokens of W, from p on.
Ends(W, p, own) ==
  /\ own \in Seq(AnyToken) /\ own # <<>> /\ p + Len(own) - 1 <= MaxPos
  /\ \A j \in 1 .. Len(own) : <<p + j - 1, own[j]>> \in W
  /\ \A x \in W : x[1] < p + Len(own)

LEMMA CommitTrue ==
  ASSUME NEW W, OneToken(W), OfTokens(W), NEW p \in 0 .. MaxPos,
         NEW h, HistTrue(Below(W, p), h), NEW own, Ends(W, p, own)
  PROVE  /\ HistTrue(W, Commit(h, p, own))
         /\ HistFull(Below(W, p), h) => HistFull(W, Commit(h, p, own))
<1> DEFINE B    == Below(W, p)
           snp  == Snap(h, p)
           g    == Commit(h, p, own)
<1>0. NGram \in Nat /\ NGram > 1 /\ MaxPos \in Nat /\ p \in Int
  BY ConfigAssumption
<1>1. PICK m \in Nat \ {0} : m = Len(own) /\ own \in Seq(AnyToken)
  BY DEF Ends
<1>a. /\ p + m - 1 <= MaxPos
      /\ \A j \in 1 .. m : <<p + j - 1, own[j]>> \in W
      /\ \A x \in W : x[1] < p + m
  BY <1>1 DEF Ends
<1>2. /\ snp \in Seq(AnyToken) /\ Len(snp) = NGram - 1
      /\ \A k \in 1 .. NGram - 1 : snp[k] # Eos => <<p - NGram + k, snp[k]>> \in B
      /\ HistFull(B, h) => \A d \in 1 .. NGram - 1 :
                (\A e \in 1 .. d : Known(B, p - e)) =>
                  \A x \in B : x[1] = p - d => x[2] = snp[NGram - d]
  <2>1. OfTokens(B) /\ \A x \in B : x[1] < p
    BY DEF Below, OfTokens
  <2>2. HistTrue(B, h)
    OBVIOUS
  <2> HIDE DEF B
  <2> QED BY <2>1, <2>2, SnapIs
<1> HIDE DEF snp
<1>6. /\ g.next_pos = p + m /\ g.toks \in Seq(AnyToken) /\ Len(g.toks) = NGram - 1
      /\ \A k \in 1 .. NGram - 1 :
           g.toks[k] = IF m + k < NGram THEN snp[m + k] ELSE own[m + k - NGram + 1]
  <2>1. Snap(h, p) \in Seq(AnyToken) /\ Len(Snap(h, p)) = NGram - 1 /\ Len(own) = m
    BY <1>1, <1>2 DEF snp
  <2>2. own \in Seq(AnyToken) /\ p \in Int
    BY <1>0, <1>1
  <2> QED BY <2>1, <2>2, CommitIs DEF snp
<1>5. g = [next_pos |-> g.next_pos, toks |-> g.toks]
  BY DEF Commit
<1> HIDE DEF g
<1>7. g \in HistType
  BY <1>0, <1>a, <1>5, <1>6 DEF HistType
<1>8. Told(W, g)
  <2> SUFFICES ASSUME NEW k \in 1 .. NGram - 1, g.toks[k] # Eos
               PROVE  <<g.next_pos - Len(g.toks) + k - 1, g.toks[k]>> \in W
    BY <1>6 DEF Told
  <2>1. g.next_pos - Len(g.toks) + k - 1 = p + m - NGram + k
    BY <1>0, <1>6
  <2>2. CASE m + k < NGram
    <3>1. g.toks[k] = snp[m + k] /\ m + k \in 1 .. NGram - 1
      BY <1>0, <1>6, <2>2
    <3>2. <<p - NGram + (m + k), snp[m + k]>> \in B
      BY <1>2, <3>1
    <3>3. p - NGram + (m + k) = p + m - NGram + k
      BY <1>0
    <3> QED BY <2>1, <3>1, <3>2, <3>3 DEF Below
  <2>3. CASE ~(m + k < NGram)
    <3>1. g.toks[k] = own[m + k - NGram + 1] /\ m + k - NGram + 1 \in 1 .. m
      BY <1>0, <1>6, <2>3
    <3>2. <<p + (m + k - NGram + 1) - 1, own[m + k - NGram + 1]>> \in W
      BY <1>a, <3>1
    <3>3. p + (m + k - NGram + 1) - 1 = p + m - NGram + k
      BY <1>0
    <3> QED BY <2>1, <3>1, <3>2, <3>3
  <2> QED BY <2>2, <2>3
<1>9. Reaches(W, g.next_pos - 1)
  <2>1. <<p + m - 1, own[m]>> \in W
    BY <1>a
  <2>2. <<p + m - 1, own[m]>>[1] >= g.next_pos - 1
    BY <1>0, <1>6
  <2> QED BY <2>1, <2>2 DEF Reaches
<1>10. HistTrue(W, g)
  <2>1. g.toks # <<>>
    BY <1>0, <1>6
  <2> QED BY <1>0, <1>6, <1>7, <1>8, <1>9, <2>1 DEF HistTrue
<1>11. ASSUME HistFull(B, h) PROVE HistFull(W, g)
  <2>1. \A x \in W : x[1] < g.next_pos
    BY <1>6, <1>a
  <2>2. ASSUME NEW d \in 1 .. NGram - 1, \A e \in 1 .. d : Known(W, g.next_pos - e),
               NEW x \in W, x[1] = g.next_pos - d
        PROVE  x[2] = g.toks[NGram - d]
    <3>1. NGram - d \in 1 .. NGram - 1
      BY <1>0
    <3>2. CASE d <= m
      <4>1. g.toks[NGram - d] = own[m - d + 1] /\ m - d + 1 \in 1 .. m
        <5>1. ~(m + (NGram - d) < NGram) /\ m + (NGram - d) - NGram + 1 = m - d + 1
          BY <1>0, <3>2
        <5>2. m - d + 1 \in 1 .. m
          BY <1>0, <3>2
        <5> QED BY <1>6, <3>1, <5>1, <5>2
      <4>2. <<p + (m - d + 1) - 1, own[m - d + 1]>> \in W
        BY <1>a, <4>1
      <4>3. <<p + (m - d + 1) - 1, own[m - d + 1]>>[1] = x[1]
        BY <1>0, <1>6, <2>2
      <4>4. x = <<p + (m - d + 1) - 1, own[m - d + 1]>>
        BY <2>2, <4>2, <4>3 DEF OneToken
      <4> QED BY <4>1, <4>4
    <3>3. CASE ~(d <= m)
      <4>1. g.toks[NGram - d] = snp[NGram - (d - m)] /\ d - m \in 1 .. NGram - 1
        <5>1. m + (NGram - d) < NGram /\ m + (NGram - d) = NGram - (d - m)
          BY <1>0, <3>3
        <5>2. d - m \in 1 .. NGram - 1
          BY <1>0, <3>3
        <5> QED BY <1>6, <3>1, <5>1, <5>2
      <4>2. \A e \in 1 .. d - m : Known(B, p - e)
        <5> TAKE e \in 1 .. d - m
        <5>1. e + m \in 1 .. d /\ g.next_pos - (e + m) = p - e /\ p - e < p
          BY <1>0, <1>6, <4>1
        <5>2. Known(W, p - e)
          BY <2>2, <5>1
        <5> QED BY <5>1, <5>2 DEF Known, Below
      <4>3. x \in B /\ x[1] = p - (d - m)
        <5>1. x[1] = p - (d - m) /\ x[1] < p
          BY <1>0, <1>6, <2>2, <4>1, SMTT(30)
        <5> QED BY <2>2, <5>1 DEF Below
      <4> HIDE DEF B
      <4>4. x[2] = snp[NGram - (d - m)]
        BY <1>2, <1>11, <4>1, <4>2, <4>3
      <4> QED BY <4>1, <4>4
    <3> QED BY <3>2, <3>3
  <2> QED BY <1>6, <2>1, <2>2 DEF HistFull
<1> QED BY <1>10, <1>11 DEF g

-----------------------------------------------------------------------------
(* The tokens of a sequence in a micro-batch *)

LEMMA GroupIs ==
  ASSUME NEW ub, Grouped(ub), NEW s, Firsts(ub, s) # {}
  PROVE  /\ Min(Firsts(ub, s)) \in 1 .. Len(ub)
         /\ Max(Firsts(ub, s)) \in Min(Firsts(ub, s)) .. Len(ub)
         /\ \A k \in 1 .. Len(ub) :
              ub[k].seq = s <=> Min(Firsts(ub, s)) <= k /\ k <= Max(Firsts(ub, s))
<1> DEFINE F == Firsts(ub, s)
           f == Min(F)
           l == Max(F)
           n == Len(ub)
<1>1. n \in Nat /\ \A k : k \in F <=> k \in 1 .. n /\ ub[k].seq = s
  BY DEF Grouped, Firsts
<1>2. \A k \in F : k \in Nat
  BY <1>1
<1>3. f \in F /\ \A k \in F : f <= k
  BY <1>2, MinOfNat
<1>4. \A k \in F : k \in Int /\ k <= n
  BY <1>1
<1>5. l \in F /\ \A k \in F : k <= l
  BY <1>1, <1>4, MaxUpTo
<1>6. ASSUME NEW k \in 1 .. n, f <= k, k <= l PROVE ub[k].seq = s
  <2>1. ub[f].seq = ub[l].seq /\ f \in 1 .. n /\ l \in 1 .. n /\ ub[f].seq = s
    BY <1>1, <1>3, <1>5
  <2>2. \A m \in f .. l : ub[m].seq = ub[f].seq
    BY <2>1 DEF Grouped
  <2>3. k \in f .. l
    BY <1>6, <2>1
  <2> QED BY <2>1, <2>2, <2>3
<1>7. f \in 1 .. n /\ l \in f .. n
  BY <1>1, <1>3, <1>5
<1> HIDE DEF f, l, F
<1>8. \A k \in 1 .. n : ub[k].seq = s => f <= k /\ k <= l
  BY <1>1, <1>3, <1>5
<1> QED BY <1>6, <1>7, <1>8 DEF f, l, F

LEMMA GroupPos ==
  ASSUME NEW ub, Grouped(ub), NEW k \in 1 .. Len(ub), NEW l \in 1 .. Len(ub),
         ub[k].seq = ub[l].seq
  PROVE  /\ ub[k].pos \in 0 .. MaxPos /\ ub[k].tok \in AnyToken
         /\ ub[k].seq \in SeqId /\ ub[k].seq \in ub[k].seqs /\ ub[k].seqs \in SUBSET SeqId
         /\ k <= l => ub[k].pos <= ub[l].pos
         /\ ~JumpInside => ub[l].pos = ub[k].pos + (l - k)
<1>0. MaxPos \in Nat
  BY ConfigAssumption
<1>1. ub[k] \in UbType /\ ub[l] \in UbType
  BY DEF Grouped
<1>2. ub[k].pos \in 0 .. MaxPos /\ ub[l].pos \in 0 .. MaxPos
  BY <1>1 DEF UbType
<1>3. k < l => ub[k].pos < ub[l].pos
  BY DEF Grouped
<1>4. ~JumpInside => ub[l].pos - ub[k].pos = l - k
  BY DEF Grouped
<1>5. ub[k].seq \in ub[k].seqs
  BY DEF Grouped
<1> QED BY <1>0, <1>1, <1>2, <1>3, <1>4, <1>5 DEF UbType

\* FirstOf, LastOf, InUbatch and Mine are about these.
LEMMA MineIs ==
  ASSUME Grouped(ubatch), NEW s
  PROVE  /\ DOMAIN ubatch = 1 .. Len(ubatch)
         /\ s \in InUbatch <=> Firsts(ubatch, s) # {}
         /\ FirstOf(s) = Min(Firsts(ubatch, s)) /\ LastOf(s) = Max(Firsts(ubatch, s))
<1>1. DOMAIN ubatch = 1 .. Len(ubatch)
  BY DEF Grouped
<1> QED BY <1>1 DEF InUbatch, Firsts, FirstOf, LastOf

Own(s) == [k \in DOMAIN Mine(s) |-> Mine(s)[k].tok]

LEMMA OwnIs ==
  ASSUME CellsOK(attn), Grouped(ubatch), Stored(ubatch, attn), ~JumpInside,
         NEW s \in SeqId, s \in InUbatch
  PROVE  /\ Ends(Seen(attn, s), ubatch[FirstOf(s)].pos, Own(s))
         /\ ubatch[FirstOf(s)].pos \in 0 .. MaxPos
         /\ Committed[s] = Commit(hist[s], ubatch[FirstOf(s)].pos, Own(s))
<1> DEFINE f == FirstOf(s)
           l == LastOf(s)
           n == Len(ubatch)
           m == l - f + 1
<1>0. MaxPos \in Nat
  BY ConfigAssumption
<1>1. /\ f \in 1 .. n /\ l \in f .. n /\ n \in Nat /\ l \in 1 .. n
      /\ \A k \in 1 .. n : ubatch[k].seq = s <=> f <= k /\ k <= l
  <2>1. Firsts(ubatch, s) # {} /\ f = Min(Firsts(ubatch, s)) /\ l = Max(Firsts(ubatch, s))
    BY MineIs
  <2>2. n \in Nat
    BY DEF Grouped
  <2> QED BY <2>1, <2>2, GroupIs
<1> HIDE DEF f, l, n
<1>2. \A k \in 1 .. n : f <= k /\ k <= l =>
        /\ ubatch[k].pos = ubatch[f].pos + (k - f) /\ ubatch[k].pos \in 0 .. MaxPos
        /\ ubatch[k].tok \in AnyToken /\ s \in ubatch[k].seqs
  <2> TAKE k \in 1 .. n
  <2> HAVE f <= k /\ k <= l
  <2>1. ubatch[f].seq = s /\ ubatch[k].seq = s
    BY <1>1
  <2> QED BY <1>1, <2>1, GroupPos DEF n
<1>3. /\ Mine(s) \in Seq(UbType) /\ Len(Mine(s)) = m
      /\ \A j \in 1 .. m : Mine(s)[j] = ubatch[f + j - 1]
  <2>1. ubatch \in Seq(UbType) /\ f \in 1 .. Len(ubatch) + 1 /\ l \in f - 1 .. Len(ubatch)
    BY <1>1 DEF Grouped, n
  <2>2. Mine(s) = SubSeq(ubatch, f, l)
    BY DEF Mine, f, l
  <2> QED BY <2>1, <2>2, Cut
<1>4. m \in Nat \ {0} /\ \A j \in 1 .. m : f + j - 1 \in 1 .. n /\ f <= f + j - 1 /\ f + j - 1 <= l
  BY <1>1
<1>5. DOMAIN Mine(s) = 1 .. m
  BY <1>3
<1>6. Own(s) = [j \in 1 .. m |-> ubatch[f + j - 1].tok]
  BY <1>3, <1>5 DEF Own
<1>7. /\ Own(s) \in Seq(AnyToken) /\ Len(Own(s)) = m
      /\ \A j \in 1 .. m : Own(s)[j] = ubatch[f + j - 1].tok
  <2>1. \A j \in 1 .. m : ubatch[f + j - 1].tok \in AnyToken
    BY <1>2, <1>4
  <2> HIDE DEF m
  <2> QED BY <1>4, <1>6, <2>1
<1>8. ubatch[f].pos \in 0 .. MaxPos /\ ubatch[l].pos = ubatch[f].pos + m - 1 /\ ubatch[l].pos <= MaxPos
  BY <1>0, <1>1, <1>2
<1>9. \A j \in 1 .. m : <<ubatch[f].pos + j - 1, Own(s)[j]>> \in Seen(attn, s)
  <2> TAKE j \in 1 .. m
  <2>1. /\ f + j - 1 \in 1 .. n /\ s \in ubatch[f + j - 1].seqs
        /\ ubatch[f + j - 1].pos = ubatch[f].pos + ((f + j - 1) - f)
    BY <1>2, <1>4
  <2>2. <<ubatch[f + j - 1].pos, ubatch[f + j - 1].tok>> \in Seen(attn, s)
    BY <2>1 DEF Stored, n
  <2>3. ubatch[f].pos + ((f + j - 1) - f) = ubatch[f].pos + j - 1
    BY <1>1, <1>8
  <2> QED BY <1>7, <2>1, <2>2, <2>3
<1>10. \A x \in Seen(attn, s) : x[1] < ubatch[f].pos + m
  <2> TAKE x \in Seen(attn, s)
  <2>1. s \in ubatch[f].seqs /\ f \in 1 .. n /\ ubatch[f].seq = s
    BY <1>1, <1>2
  <2>2. \/ x[1] < ubatch[f].pos
        \/ \E k \in 1 .. n : ubatch[k].seq = s /\ x = <<ubatch[k].pos, ubatch[k].tok>>
    BY <2>1 DEF Stored, n
  <2>3. CASE x[1] < ubatch[f].pos
    <3>1. x[1] \in 0 .. MaxPos
      BY SeenIs
    <3> QED BY <1>0, <1>4, <1>8, <2>3, <3>1
  <2>4. ASSUME NEW k \in 1 .. n, ubatch[k].seq = s, x = <<ubatch[k].pos, ubatch[k].tok>>
        PROVE  x[1] < ubatch[f].pos + m
    <3>1. ubatch[k].pos = ubatch[f].pos + (k - f) /\ k <= l
      BY <1>1, <1>2, <2>4
    <3> QED BY <1>1, <1>8, <2>4, <3>1
  <2> QED BY <2>2, <2>3, <2>4
<1>11. Ends(Seen(attn, s), ubatch[f].pos, Own(s))
  <2>1. Own(s) # <<>> /\ ubatch[f].pos + m - 1 <= MaxPos
    BY <1>4, <1>7, <1>8
  <2> HIDE DEF m
  <2> QED BY <1>7, <1>9, <1>10, <2>1 DEF Ends
<1>12. Committed[s] = Commit(hist[s], ubatch[f].pos, Own(s))
  <2>1. Snapshot(s) = Snap(hist[s], ubatch[f].pos)
    BY DEF Snapshot, Snap, f
  <2>2. ubatch[l].pos + 1 = ubatch[f].pos + Len(Own(s))
    BY <1>0, <1>7, <1>8, <1>4
  <2> QED BY <2>1, <2>2 DEF Committed, Commit, Own, l
<1> QED BY <1>8, <1>11, <1>12 DEF f

-----------------------------------------------------------------------------
(* The predecessors that set_input finds *)

\* The token of a sequence at a position is the one it has seen there.
LEMMA TokenAtIs ==
  ASSUME CellsOK(attn), NEW s, OneToken(Seen(attn, s)), NEW q
  PROVE  /\ TokenAt(s, q) = {} <=> ~Known(Seen(attn, s), q)
         /\ \A x \in Seen(attn, s) : x[1] = q => TokenAt(s, q) = {x[2]}
<1>1. ASSUME NEW t \in TokenAt(s, q) PROVE \E x \in Seen(attn, s) : x[1] = q /\ x[2] = t
  <2>1. PICK i \in Cell : s \in attn[i].seq /\ attn[i].pos = q /\ attn[i].tok = t
    BY DEF TokenAt
  <2>2. <<q, t>> \in Seen(attn, s)
    BY <2>1, SeenIs
  <2> QED BY <2>2
<1>2. ASSUME NEW x \in Seen(attn, s), x[1] = q PROVE x[2] \in TokenAt(s, q)
  <2>1. PICK i \in Cell : s \in attn[i].seq /\ x = <<attn[i].pos, attn[i].tok>>
    BY SeenIs
  <2>2. attn[i].pos = q /\ attn[i].tok = x[2]
    BY <1>2, <2>1
  <2> QED BY <2>1, <2>2 DEF TokenAt
<1>3. TokenAt(s, q) = {} <=> ~Known(Seen(attn, s), q)
  BY <1>1, <1>2 DEF Known
<1>4. ASSUME NEW x \in Seen(attn, s), x[1] = q PROVE TokenAt(s, q) = {x[2]}
  <2>1. \A t \in TokenAt(s, q) : t = x[2]
    <3> TAKE t \in TokenAt(s, q)
    <3>1. PICK y \in Seen(attn, s) : y[1] = q /\ y[2] = t
      BY <1>1
    <3>2. y = x
      BY <1>4, <3>1 DEF OneToken
    <3> QED BY <3>1, <3>2
  <2> QED BY <1>2, <1>4, <2>1
<1> QED BY <1>3, <1>4

\* What the token d places before the i-th can be: one of the micro-batch, one of
\* the history when the sequence comes first in it, or unknown; it is never false
\* as far as nothing nearer reads as the end of a segment.
LEMMA PrevIs ==
  ASSUME CellsOK(attn), Grouped(ubatch), Stored(ubatch, attn), ~JumpInside,
         NEW i \in 1 .. Len(ubatch), NEW d \in 1 .. NGram - 1,
         NEW s, s = ubatch[i].seq, NEW f, f = FirstOf(s),
         HistTrue(Below(Seen(attn, s), ubatch[f].pos), hist[s])
  PROVE  /\ s \in SeqId /\ f \in 1 .. i
         /\ Prev(i, d) \in AnyToken
         /\ d <= i - f => <<ubatch[i].pos - d, Prev(i, d)>> \in Seen(attn, s)
         /\ d > i - f /\ f = 1 /\ Prev(i, d) # Eos =>
              <<ubatch[i].pos - d, Prev(i, d)>> \in Seen(attn, s)
         /\ d = i - f + 1 /\ f # 1 => Prev(i, d) = Eos
         /\ f = 1 /\ HistFull(Below(Seen(attn, s), ubatch[f].pos), hist[s])
              /\ (\A e \in 1 .. d : Known(Seen(attn, s), ubatch[i].pos - e)) =>
              \A x \in Seen(attn, s) : x[1] = ubatch[i].pos - d /\ d > i - f => x[2] = Prev(i, d)
<1> DEFINE n  == Len(ubatch)
           W  == Seen(attn, s)
           p  == ubatch[f].pos
           B  == Below(W, p)
           me == ubatch[i]
           j  == i - d
           back == d - (i - 1)
           k  == NGram - 1 - back + 1
           snp == Snap(hist[s], p)
<1>0. MaxPos \in Nat /\ NGram \in Nat /\ NGram > 1 /\ Eos \in AnyToken
  BY ConfigAssumption DEF AnyToken
<1>1. n \in Nat /\ i \in 1 .. n /\ s \in SeqId
  <2>1. ubatch[i].seq \in SeqId
    BY GroupPos
  <2> QED BY <2>1 DEF Grouped
<1>2. /\ f \in 1 .. n /\ f <= i
      /\ \A l \in 1 .. n : f <= l /\ l <= i => ubatch[l].seq = s
      /\ \A l \in 1 .. n : l < f => ubatch[l].seq # s
  <2>1. Firsts(ubatch, s) # {} /\ f = Min(Firsts(ubatch, s))
    BY MineIs DEF Firsts
  <2>2. /\ f \in 1 .. n /\ Max(Firsts(ubatch, s)) \in f .. n
        /\ \A l \in 1 .. n : ubatch[l].seq = s <=> f <= l /\ l <= Max(Firsts(ubatch, s))
    BY <2>1, GroupIs
  <2>3. f <= i /\ i <= Max(Firsts(ubatch, s))
    BY <2>2
  <2> QED BY <1>1, <2>2, <2>3
<1>3. \A l \in 1 .. n : f <= l /\ l <= i =>
        /\ ubatch[l].pos = p + (l - f) /\ ubatch[l].pos \in 0 .. MaxPos
        /\ ubatch[l].tok \in AnyToken /\ s \in ubatch[l].seqs
  <2> TAKE l \in 1 .. n
  <2> HAVE f <= l /\ l <= i
  <2>1. ubatch[f].seq = s /\ ubatch[l].seq = s
    BY <1>1, <1>2
  <2> QED BY <1>2, <2>1, GroupPos
<1>4. p \in 0 .. MaxPos /\ me.pos = p + (i - f)
  BY <1>1, <1>2, <1>3
<1>5. /\ snp \in Seq(AnyToken) /\ Len(snp) = NGram - 1
      /\ \A l \in 1 .. NGram - 1 : snp[l] # Eos => <<p - NGram + l, snp[l]>> \in B
      /\ HistFull(B, hist[s]) =>
           \A g \in 1 .. NGram - 1 :
             (\A e \in 1 .. g : Known(B, p - e)) =>
               \A x \in B : x[1] = p - g => x[2] = snp[NGram - g]
  <2>1. OfTokens(W)
    BY SeenIs
  <2>2. OfTokens(B) /\ \A x \in B : x[1] < p
    BY <2>1 DEF OfTokens, Below
  <2>3. HistTrue(B, hist[s])
    OBVIOUS
  <2>4. p \in 0 .. MaxPos
    BY <1>4
  <2> HIDE DEF B, p, W, me, j, back, k, n
  <2>5. /\ Snap(hist[s], p) \in Seq(AnyToken) /\ Len(Snap(hist[s], p)) = NGram - 1
        /\ \A l \in 1 .. NGram - 1 :
             Snap(hist[s], p)[l] # Eos => <<p - NGram + l, Snap(hist[s], p)[l]>> \in B
        /\ HistFull(B, hist[s]) =>
             \A g \in 1 .. NGram - 1 :
               (\A e \in 1 .. g : Known(B, p - e)) =>
                 \A x \in B : x[1] = p - g => x[2] = Snap(hist[s], p)[NGram - g]
    <3>1. \A x \in B : x[1] < p
      BY <2>2
    <3> QED BY <2>2, <2>3, <2>4, <3>1, SnapIs
  <2> QED BY <2>5, Zenon
<1>6. Snapshot(s) = snp
  BY DEF Snapshot, Snap
<1>7. Prev(i, d) = IF j >= 1 /\ ubatch[j].seq = s /\ ubatch[j].pos = me.pos - d THEN ubatch[j].tok
                   ELSE IF back > 0 /\ k >= 1 /\ me.pos - d >= 0 THEN snp[k] ELSE Eos
  BY <1>5, <1>6 DEF Prev
<1> HIDE DEF snp
<1>8. CASE d <= i - f
  <2>1. j \in 1 .. n /\ f <= j /\ j <= i
    BY <1>1, <1>2, <1>8
  <2>2. ubatch[j].seq = s /\ ubatch[j].pos = p + (j - f)
    BY <1>2, <1>3, <2>1
  <2>3. p + (j - f) = me.pos - d
    BY <1>1, <1>2, <1>4
  <2>4. Prev(i, d) = ubatch[j].tok
    BY <1>7, <2>1, <2>2, <2>3
  <2>5. s \in ubatch[j].seqs /\ ubatch[j].tok \in AnyToken
    BY <1>3, <2>1
  <2>6. <<ubatch[j].pos, ubatch[j].tok>> \in W
    BY <2>1, <2>5 DEF Stored
  <2>7. ~(d > i - f) /\ d # i - f + 1
    BY <1>1, <1>2, <1>8
  <2>8. \A x \in W : x[1] = me.pos - d /\ d > i - f => x[2] = Prev(i, d)
    BY <2>7
  <2>9. <<me.pos - d, Prev(i, d)>> \in W /\ Prev(i, d) \in AnyToken
    BY <2>2, <2>3, <2>4, <2>5, <2>6
  <2> QED BY <1>1, <1>2, <2>7, <2>8, <2>9
<1>9. CASE d > i - f /\ f = 1
  <2>1. j < 1 /\ back > 0 /\ back \in 1 .. NGram - 1 /\ k \in 1 .. NGram - 1
    BY <1>0, <1>1, <1>2, <1>9
  <2>2. Prev(i, d) = IF me.pos - d >= 0 THEN snp[k] ELSE Eos
    <3>1. ~(j >= 1) /\ k >= 1
      BY <2>1, <1>1
    <3> QED BY <1>7, <2>1, <3>1
  <2>3. Prev(i, d) \in AnyToken
    BY <1>0, <1>5, <2>1, <2>2
  <2>4. me.pos - d = p - NGram + k /\ me.pos - d = p - back /\ k = NGram - back
    BY <1>0, <1>1, <1>4, <1>9, SMTT(30)
  <2>5. Prev(i, d) # Eos => <<me.pos - d, Prev(i, d)>> \in W
    <3> HAVE Prev(i, d) # Eos
    <3>1. Prev(i, d) = snp[k]
      BY <2>2
    <3>2. <<p - NGram + k, snp[k]>> \in B
      BY <1>5, <2>1, <3>1
    <3> QED BY <2>4, <3>1, <3>2 DEF Below
  <2>6. ASSUME HistFull(B, hist[s]), \A e \in 1 .. d : Known(W, me.pos - e),
               NEW x \in W, x[1] = me.pos - d
        PROVE  x[2] = Prev(i, d)
    <3>1. \A e \in 1 .. back : Known(B, p - e)
      <4> TAKE e \in 1 .. back
      <4>1. e + (i - 1) \in 1 .. d /\ me.pos - (e + (i - 1)) = p - e /\ p - e < p
        BY <1>0, <1>1, <1>4, <1>9, <2>1
      <4>2. Known(W, p - e)
        BY <2>6, <4>1
      <4> QED BY <4>1, <4>2 DEF Known, Below
    <3>2. p - back < p /\ x[1] = p - back
      BY <1>0, <1>4, <2>1, <2>4, <2>6
    <3>3. x \in B
      BY <3>2 DEF Below
    <3>4. x[2] = snp[NGram - back]
      BY <1>5, <2>1, <2>6, <3>1, <3>2, <3>3
    <3>5. me.pos - d >= 0
      <4>1. x[1] \in 0 .. MaxPos
        BY SeenIs
      <4> QED BY <4>1, <2>6, <1>0
    <3> QED BY <2>2, <2>4, <3>4, <3>5
  <2>7. ~(d <= i - f)
    BY <1>1, <1>2, <1>9
  <2> QED BY <1>1, <1>2, <1>9, <2>3, <2>5, <2>6, <2>7
<1>10. CASE d > i - f /\ f # 1
  <2>1. Prev(i, d) \in AnyToken
    <3>1. CASE j >= 1 /\ ubatch[j].seq = s /\ ubatch[j].pos = me.pos - d
      <4>1. j \in 1 .. n /\ j < f
        BY <1>1, <1>2, <1>10, <3>1
      <4> QED BY <1>2, <3>1, <4>1
    <3>2. CASE back > 0 /\ k >= 1
      <4>1. k \in 1 .. NGram - 1
        BY <1>0, <1>1, <3>2
      <4>2. snp[k] \in AnyToken
        BY <1>5, <4>1
      <4> QED BY <1>0, <1>7, <3>1, <4>2
    <3> QED BY <1>0, <1>7, <3>1, <3>2
  <2>2. d = i - f + 1 => Prev(i, d) = Eos
    <3> HAVE d = i - f + 1
    <3>1. j < f /\ j \in 1 .. n /\ ~(back > 0)
      BY <1>1, <1>2, <1>10
    <3>2. ubatch[j].seq # s
      <4> HIDE DEF j, n
      <4> QED BY <1>2, <3>1
    <3> QED BY <1>7, <3>1, <3>2
  <2>3. ~(d <= i - f)
    BY <1>1, <1>2, <1>10
  <2> QED BY <1>1, <1>2, <1>10, <2>1, <2>2, <2>3
<1>11. d <= i - f \/ d > i - f
  BY <1>1, <1>2
<1> QED BY <1>8, <1>9, <1>10, <1>11

\* No false predecessor, and none is missing for the sequence that comes first.
LEMMA ContextTrue ==
  ASSUME CellsOK(attn), Grouped(ubatch), Stored(ubatch, attn), ~JumpInside,
         NEW i \in 1 .. Len(ubatch), NEW s, s = ubatch[i].seq, OneToken(Seen(attn, s)),
         HistTrue(Below(Seen(attn, s), ubatch[FirstOf(s)].pos), hist[s])
  PROVE  /\ \A d \in 1 .. NGram - 1 :
              Context(i)[d] # Eos => TokenAt(s, ubatch[i].pos - d) = {Context(i)[d]}
         /\ FirstOf(s) = 1 /\ HistFull(Below(Seen(attn, s), ubatch[FirstOf(s)].pos), hist[s]) =>
              Context(i) = TrueContext(s, ubatch[i].pos)
<1> DEFINE W == Seen(attn, s)
           f == FirstOf(s)
           B == Below(W, ubatch[f].pos)
           q == ubatch[i].pos
<1>0. NGram \in Nat /\ NGram > 1
  BY ConfigAssumption
<1>1. \A d \in 1 .. NGram - 1 :
        /\ s \in SeqId /\ f \in 1 .. i
        /\ d <= i - f => <<q - d, Prev(i, d)>> \in W
        /\ d > i - f /\ f = 1 /\ Prev(i, d) # Eos => <<q - d, Prev(i, d)>> \in W
        /\ d = i - f + 1 /\ f # 1 => Prev(i, d) = Eos
        /\ f = 1 /\ HistFull(B, hist[s]) /\ (\A e \in 1 .. d : Known(W, q - e)) =>
              \A x \in W : x[1] = q - d /\ d > i - f => x[2] = Prev(i, d)
  BY PrevIs
<1>2. i \in Nat /\ f \in Nat /\ 1 <= f /\ f <= i
  <2>1. 1 \in 1 .. NGram - 1 /\ i \in Nat
    BY <1>0 DEF Grouped
  <2>2. \A d \in 1 .. NGram - 1 : f \in 1 .. i
    BY <1>1
  <2> HIDE DEF f
  <2> QED BY <2>1, <2>2
<1>3. \A d \in 1 .. NGram - 1 :
        Context(i)[d] = IF \E e \in 1 .. d - 1 : Prev(i, e) = Eos THEN Eos ELSE Prev(i, d)
  BY DEF Context
<1> HIDE DEF f, B, W, q
<1>4. ASSUME NEW d \in 1 .. NGram - 1, <<q - d, Prev(i, d)>> \in W
      PROVE  TokenAt(s, q - d) = {Prev(i, d)}
  <2>1. <<q - d, Prev(i, d)>>[1] = q - d /\ <<q - d, Prev(i, d)>>[2] = Prev(i, d)
    OBVIOUS
  <2> QED BY <1>4, <2>1, TokenAtIs DEF W
<1>5. ASSUME NEW d \in 1 .. NGram - 1, Context(i)[d] # Eos
      PROVE  TokenAt(s, q - d) = {Context(i)[d]}
  <2>1. Context(i)[d] = Prev(i, d) /\ Prev(i, d) # Eos /\ \A e \in 1 .. d - 1 : Prev(i, e) # Eos
    BY <1>3, <1>5
  <2>2. <<q - d, Prev(i, d)>> \in W
    <3>1. CASE d <= i - f
      BY <1>1, <3>1
    <3>2. CASE d > i - f /\ f = 1
      BY <1>1, <2>1, <3>2
    <3>3. CASE d > i - f /\ f # 1
      <4> DEFINE e == i - f + 1
      <4>1. e \in 1 .. NGram - 1 /\ e \in 1 .. d
        BY <1>0, <1>2, <3>3
      <4>2. Prev(i, e) = Eos
        BY <1>1, <3>3, <4>1
      <4>3. e \in 1 .. d - 1 \/ e = d
        BY <4>1
      <4> HIDE DEF e
      <4> QED BY <2>1, <4>2, <4>3
    <3>4. d <= i - f \/ d > i - f
      BY <1>2
    <3> QED BY <3>1, <3>2, <3>3, <3>4
  <2> QED BY <1>4, <2>1, <2>2
<1>6. ASSUME f = 1, HistFull(B, hist[s]) PROVE Context(i) = TrueContext(s, q)
  <2>1. ASSUME NEW d \in 1 .. NGram - 1, \A e \in 1 .. d : Known(W, q - e)
        PROVE  TokenAt(s, q - d) = {Prev(i, d)}
    <3>1. CASE d <= i - f
      BY <1>1, <1>4, <3>1
    <3>2. CASE d > i - f
      <4>1. PICK x \in W : x[1] = q - d
        BY <2>1 DEF Known
      <4>2. x[2] = Prev(i, d)
        BY <1>1, <1>6, <2>1, <3>2, <4>1
      <4>3. TokenAt(s, q - d) = {x[2]}
        BY <4>1, TokenAtIs DEF W
      <4> QED BY <4>2, <4>3
    <3>3. d <= i - f \/ d > i - f
      BY <1>2
    <3> QED BY <3>1, <3>2, <3>3
  <2>2. ASSUME NEW d \in 1 .. NGram - 1, Prev(i, d) # Eos PROVE TokenAt(s, q - d) = {Prev(i, d)}
    <3>1. d <= i - f \/ d > i - f
      BY <1>2
    <3> QED BY <1>1, <1>4, <1>6, <2>2, <3>1
  <2>3. \A d \in 1 .. NGram - 1 : TokenAt(s, q - d) # {} <=> Known(W, q - d)
    BY TokenAtIs DEF W
  <2> DEFINE Good(d) == \A e \in 1 .. d : /\ TokenAt(s, q - e) # {}
                                          /\ e < d => TokenAt(s, q - e) # {Eos}
  <2>4. ASSUME NEW d \in 1 .. NGram - 1, Good(d)
        PROVE  Context(i)[d] = CHOOSE t \in TokenAt(s, q - d) : TRUE
    <3>1. \A e \in 1 .. d : e \in 1 .. NGram - 1 /\ TokenAt(s, q - e) = {Prev(i, e)}
      <4> TAKE e \in 1 .. d
      <4>1. e \in 1 .. NGram - 1 /\ \A g \in 1 .. e : g \in 1 .. d /\ g \in 1 .. NGram - 1
        BY <1>0
      <4>2. \A g \in 1 .. e : Known(W, q - g)
        BY <2>3, <2>4, <4>1
      <4> QED BY <2>1, <4>1, <4>2
    <3>2. \A e \in 1 .. d - 1 : Prev(i, e) # Eos
      <4> TAKE e \in 1 .. d - 1
      <4>1. e \in 1 .. d /\ e < d
        BY <1>0
      <4> QED BY <2>4, <3>1, <4>1
    <3>3. Context(i)[d] = Prev(i, d)
      BY <1>3, <3>2
    <3>4. d \in 1 .. d
      BY <1>0
    <3>5. TokenAt(s, q - d) = {Prev(i, d)}
      BY <3>1, <3>4
    <3> QED BY <3>3, <3>5
  <2>5. ASSUME NEW d \in 1 .. NGram - 1, ~Good(d) PROVE Context(i)[d] = Eos
    <3>1. PICK e \in 1 .. d : TokenAt(s, q - e) = {} \/ (e < d /\ TokenAt(s, q - e) = {Eos})
      BY <2>5
    <3>2. e \in 1 .. NGram - 1 /\ (e \in 1 .. d - 1 \/ e = d)
      BY <1>0
    <3>3. Prev(i, e) = Eos
      BY <2>2, <3>1, <3>2
    <3> QED BY <1>3, <3>2, <3>3
  <2>6. TrueContext(s, q) = [d \in 1 .. NGram - 1 |->
                               IF Good(d) THEN CHOOSE t \in TokenAt(s, q - d) : TRUE ELSE Eos]
    BY DEF TrueContext
  <2>7. Context(i) = [d \in 1 .. NGram - 1 |-> Context(i)[d]]
    BY DEF Context
  <2> HIDE DEF Good
  <2>8. \A d \in 1 .. NGram - 1 :
          Context(i)[d] = IF Good(d) THEN CHOOSE t \in TokenAt(s, q - d) : TRUE ELSE Eos
    BY <2>4, <2>5
  <2> QED BY <2>6, <2>7, <2>8
<1> QED BY <1>5, <1>6 DEF f, B, W, q

-----------------------------------------------------------------------------
(* The invariant is inductive: one lemma for each action *)

ContextsOK == ~JumpInside => NoFalseContext /\ ContextKept

LEMMA BeforeIs ==
  ASSUME Grouped(ubatch), NEW s
  PROVE  Before(s) = IF pc = "inputs" /\ s \in InUbatch
                     THEN Below(Seen(attn, s), ubatch[FirstOf(s)].pos) ELSE Seen(attn, s)
BY MineIs DEF Before

LEMMA SetInputKeeps == IInv /\ SetInput => IInv'
<1> SUFFICES ASSUME IInv, SetInput PROVE IInv'
  OBVIOUS
<1>0. /\ pc = "inputs" /\ pc' = "compute" /\ hist' = Committed
      /\ contexts' = [i \in DOMAIN ubatch |-> Context(i)]
      /\ attn' = attn /\ idx' = idx /\ recr' = recr /\ left' = left /\ ubatch' = ubatch
      /\ appended' = appended
  BY DEF SetInput, caches
<1>1. Stores' /\ CellsOK(attn)
  BY <1>0 DEF IInv, Stores
<1>2. Grouped(ubatch) /\ Stored(ubatch, attn) /\ Alone(ubatch, appended) /\ LeftOK(left, attn)
  BY <1>0 DEF IInv, Steps
<1>3. Steps'
  BY <1>0, <1>2 DEF Steps
<1>4. \A s \in SeqId : Before(s)' = Seen(attn, s)
  BY <1>0 DEF Before
<1>5. \A s \in SeqId : Before(s) = IF s \in InUbatch
                                   THEN Below(Seen(attn, s), ubatch[FirstOf(s)].pos) ELSE Seen(attn, s)
  BY <1>0, <1>2, BeforeIs
<1>6. \A s \in SeqId : OneToken(Seen(attn, s)) /\ OfTokens(Seen(attn, s))
  BY <1>1, SeenIs DEF IInv, Stores
<1>7. Histories'
  <2>1. appended' \in SUBSET SeqId
    BY <1>0 DEF IInv, Histories
  <2>2. ASSUME ~JumpInside, NEW s \in SeqId
        PROVE  /\ HistTrue(Seen(attn, s), Committed[s])
               /\ s \in appended => HistFull(Seen(attn, s), Committed[s])
    <3>1. HistTrue(Before(s), hist[s]) /\ (s \in appended => HistFull(Before(s), hist[s]))
      BY <2>2 DEF IInv, Histories
    <3>2. CASE s \notin InUbatch
      <4>1. Committed[s] = hist[s]
        BY <3>2 DEF Committed
      <4> QED BY <1>5, <3>1, <3>2, <4>1
    <3>3. CASE s \in InUbatch
      <4> DEFINE p == ubatch[FirstOf(s)].pos
      <4>1. /\ Ends(Seen(attn, s), p, Own(s)) /\ p \in 0 .. MaxPos
            /\ Committed[s] = Commit(hist[s], p, Own(s))
        BY <1>1, <1>2, <2>2, <3>3, OwnIs
      <4>2. Before(s) = Below(Seen(attn, s), p)
        BY <1>5, <3>3
      <4> HIDE DEF p
      <4>3. /\ HistTrue(Seen(attn, s), Commit(hist[s], p, Own(s)))
            /\ HistFull(Below(Seen(attn, s), p), hist[s]) =>
                 HistFull(Seen(attn, s), Commit(hist[s], p, Own(s)))
        BY <1>6, <3>1, <4>1, <4>2, CommitTrue
      <4> QED BY <3>1, <4>1, <4>2, <4>3
    <3> QED BY <3>2, <3>3
  <2>3. Committed = [s \in SeqId |-> Committed[s]]
    BY DEF Committed
  <2> QED BY <1>0, <1>4, <2>1, <2>2, <2>3 DEF Histories
<1>8. ContextsOK'
  <2> SUFFICES ASSUME ~JumpInside PROVE NoFalseContext' /\ ContextKept'
    BY DEF ContextsOK
  <2>0. DOMAIN ubatch = 1 .. Len(ubatch) /\ \A i \in 1 .. Len(ubatch) : contexts'[i] = Context(i)
    BY <1>0, <1>2, MineIs
  <2>1. ASSUME NEW i \in 1 .. Len(ubatch)
        PROVE  /\ \A d \in 1 .. NGram - 1 :
                    Context(i)[d] # Eos =>
                      TokenAt(ubatch[i].seq, ubatch[i].pos - d) = {Context(i)[d]}
               /\ ubatch[i].seq = ubatch[1].seq /\ ubatch[i].seq \in appended =>
                    Context(i) = TrueContext(ubatch[i].seq, ubatch[i].pos)
    <3> DEFINE s == ubatch[i].seq
    <3>1. s \in SeqId
      BY <1>2, GroupPos
    <3>2. s \in InUbatch
      BY <2>0 DEF InUbatch
    <3>3. /\ HistTrue(Below(Seen(attn, s), ubatch[FirstOf(s)].pos), hist[s])
          /\ s \in appended => HistFull(Below(Seen(attn, s), ubatch[FirstOf(s)].pos), hist[s])
      BY <1>5, <3>1, <3>2 DEF IInv, Histories
    <3>4. s = ubatch[1].seq => FirstOf(s) = 1
      <4> HAVE s = ubatch[1].seq
      <4>1. Firsts(ubatch, s) # {} /\ FirstOf(s) = Min(Firsts(ubatch, s))
        BY <1>2, <3>2, MineIs
      <4>2. 1 \in 1 .. Len(ubatch)
        BY <1>2 DEF Grouped
      <4> HIDE DEF s
      <4>3. FirstOf(s) \in 1 .. Len(ubatch) /\ FirstOf(s) <= 1
        BY <1>2, <4>1, <4>2, GroupIs
      <4> QED BY <4>3
    <3>5. OneToken(Seen(attn, s))
      BY <1>6, <3>1
    <3> QED BY <1>1, <1>2, <3>3, <3>4, <3>5, ContextTrue
  <2>2. \A s, q : TokenAt(s, q)' = TokenAt(s, q) /\ TrueContext(s, q)' = TrueContext(s, q)
    BY <1>0 DEF TokenAt, TrueContext
  <2>3. NoFalseContext'
    BY <1>0, <2>0, <2>1, <2>2 DEF NoFalseContext
  <2>4. ContextKept'
    BY <1>0, <2>0, <2>1, <2>2 DEF ContextKept
  <2> QED BY <2>3, <2>4
<1> QED BY <1>1, <1>3, <1>7, <1>8 DEF IInv, ContextsOK

LEMMA InitInv == Init => IInv
<1> SUFFICES ASSUME Init PROVE IInv
  OBVIOUS
<1>0. /\ attn = [i \in Cell |-> Free] /\ idx = attn /\ recr = {} /\ pc = "idle"
      /\ hist = [s \in SeqId |-> NoHistory] /\ appended = SeqId
  BY DEF Init
<1>1. CellsOK(attn) /\ \A s : Seen(attn, s) = {}
  BY <1>0, SeenNone
<1>2. MaxPos \in Nat
  BY ConfigAssumption
<1>3. EndsMatch(attn, recr)
  BY <1>0, <1>1, <1>2 DEF EndsMatch, EndOf, TailAt
<1>4. Stores
  BY <1>0, <1>1, <1>3 DEF Stores, OneToken
<1>5. \A s \in SeqId : hist[s] = NoHistory /\ Before(s) = {}
  BY <1>0, <1>1 DEF Before
<1>6. Histories
  BY <1>0, <1>5, HistNone DEF Histories
<1> QED BY <1>0, <1>4, <1>6 DEF IInv, Steps, NoFalseContext, ContextKept

LEMMA ClearKeeps == IInv /\ Clear => IInv'
<1> SUFFICES ASSUME IInv, Clear PROVE IInv'
  OBVIOUS
<1>0. /\ attn' = [i \in Cell |-> Free] /\ idx' = attn' /\ recr' = {} /\ pc' = "idle"
      /\ hist' = [s \in SeqId |-> NoHistory] /\ appended' = SeqId
  BY DEF Clear, decode
<1>1. CellsOK(attn') /\ \A s : Seen(attn', s) = {}
  BY <1>0, SeenNone
<1>2. MaxPos \in Nat
  BY ConfigAssumption
<1>3. EndsMatch(attn', recr')
  BY <1>0, <1>1, <1>2 DEF EndsMatch, EndOf, TailAt
<1>4. Stores'
  BY <1>0, <1>1, <1>3 DEF Stores, OneToken
<1>5. \A s \in SeqId : hist'[s] = NoHistory /\ Before(s)' = {}
  BY <1>0, <1>1 DEF Before
<1>6. Histories'
  BY <1>0, <1>5, HistNone DEF Histories
<1> QED BY <1>0, <1>4, <1>6 DEF IInv, Steps, NoFalseContext, ContextKept

\* Sequences that are only appended to again have seen nothing.
LEMMA BegunIs ==
  ASSUME CellsOK(attn'), NEW A \in SUBSET SeqId
  PROVE  Begun(A) \in SUBSET SeqId /\ \A s \in Begun(A) : s \in A \/ Seen(attn', s) = {}
BY SeenIs DEF Begun

LEMMA RmKeeps == ASSUME NEW s \in SeqId, NEW r \in Ranges
                 PROVE  IInv /\ seq_rm(s, r[1], r[2]) => IInv'
<1> SUFFICES ASSUME IInv, seq_rm(s, r[1], r[2]) PROVE IInv'
  OBVIOUS
<1> DEFINE p0 == r[1]
           p1 == r[2]
           e  == TailPos(s)
           Out(x) == InRange(x[1], p0, p1)
<1>0. p0 \in Int /\ p1 \in Int /\ MaxPos \in Nat
  BY ConfigAssumption
<1>1. /\ pc = "idle" /\ pc' = "idle" /\ idx = attn /\ CellsOK(attn) /\ recr \in SUBSET StateType
      /\ attn' = CacheRm(attn, s, p0, p1) /\ idx' = CacheRm(idx, s, p0, p1)
      /\ RecrAccepts(s, p0, p1) /\ recr' = RecrRm(s, p0, p1)
      /\ hist' = [hist EXCEPT ![s] = Trimmed(@, p0, p1)]
      /\ appended' = Begun(IF p0 = p1 \/ p0 > PosMax(s) THEN appended ELSE appended \ {s})
  BY DEF seq_rm, decode, IInv, Stores
<1> HIDE DEF p0, p1
<1>2. /\ CellsOK(attn') /\ Seen(attn', s) = {x \in Seen(attn, s) : ~Out(x)}
      /\ \A t \in SeqId : t # s => Seen(attn', t) = Seen(attn, t)
  BY <1>0, <1>1, SeenRm
<1>3. /\ e \in -1 .. MaxPos /\ PosMax(s) = e
      /\ EndOf(Seen(attn, s), e) /\ TailAt(recr, s, e)
  BY StoresEnd DEF IInv
<1>4. ~(p0 > 0 /\ p0 <= e /\ (p1 < 0 \/ e < p1))
  BY <1>1 DEF RecrAccepts
<1> HIDE DEF e
<1>5. \A x \in Seen(attn, s) : x[1] \in 0 .. MaxPos /\ x[1] <= e
  BY <1>1, <1>3, SeenIs DEF EndOf
<1>6. EndsMatch(attn', recr') /\ recr' \in SUBSET StateType
  <2>1. CASE ~InRange(e, p0, p1)
    <3>1. recr' = recr
      BY <1>1, <2>1 DEF RecrRm, e
    <3>2. EndOf(Seen(attn', s), e)
      BY <1>2, <1>3, <2>1 DEF EndOf
    <3>3. \A t \in SeqId : \E p \in -1 .. MaxPos : EndOf(Seen(attn, t), p) /\ TailAt(recr, t, p)
      BY DEF IInv, Stores, EndsMatch
    <3>4. ASSUME NEW t \in SeqId
          PROVE  \E p \in -1 .. MaxPos : EndOf(Seen(attn', t), p) /\ TailAt(recr', t, p)
      <4>1. CASE t = s
        BY <1>3, <3>1, <3>2, <4>1
      <4>2. CASE t # s
        BY <1>2, <3>1, <3>3, <4>2
      <4> QED BY <4>1, <4>2
    <3> QED BY <1>1, <3>1, <3>4 DEF EndsMatch
  <2>2. CASE InRange(e, p0, p1)
    <3>1. recr' = Without(recr, {s})
      BY <1>1, <2>2 DEF RecrRm, e
    <3>2. p0 <= 0 /\ (p1 < 0 \/ e < p1)
      BY <1>0, <1>3, <1>4, <2>2 DEF InRange
    <3>3. \A x \in Seen(attn, s) : Out(x)
      BY <1>0, <1>3, <1>5, <3>2 DEF InRange
    <3>4. Seen(attn', s) = {}
      BY <1>2, <3>3
    <3>5. ASSUME NEW t \in SeqId
          PROVE  \E p \in -1 .. MaxPos : EndOf(Seen(attn', t), p) /\ TailAt(recr', t, p)
      <4>1. CASE t = s
        <5>1. -1 \in -1 .. MaxPos
          BY <1>0
        <5>2. TailAt(recr', s, -1)
          BY <1>1, <3>1, <5>1, TailWithout
        <5>3. EndOf(Seen(attn', s), -1)
          BY <3>4 DEF EndOf
        <5> QED BY <4>1, <5>1, <5>2, <5>3
      <4>2. CASE t # s
        <5>1. PICK p \in -1 .. MaxPos : EndOf(Seen(attn, t), p) /\ TailAt(recr, t, p)
          BY DEF IInv, Stores, EndsMatch
        <5>2. TailAt(recr', t, p)
          BY <1>1, <3>1, <4>2, <5>1, TailWithout
        <5> QED BY <1>2, <4>2, <5>1, <5>2
      <4> QED BY <4>1, <4>2
    <3>6. recr' \in SUBSET StateType
      BY <1>1, <3>1, TailWithout, ZenonT(60)
    <3> QED BY <3>5, <3>6 DEF EndsMatch
  <2> QED BY <2>1, <2>2
<1>7. Stores'
  <2>1. \A t \in SeqId : \A x \in Seen(attn', t) : x \in Seen(attn, t)
    BY <1>2
  <2>2. \A t \in SeqId : OneToken(Seen(attn', t))
    BY <2>1 DEF OneToken, IInv, Stores
  <2> QED BY <1>1, <1>2, <1>6, <2>2 DEF Stores
<1>8. Histories'
  <2>0. appended \in SUBSET SeqId
    BY DEF IInv, Histories
  <2>1. /\ appended' \in SUBSET SeqId
        /\ \A t \in appended' : \/ Seen(attn', t) = {}
                                \/ t \in appended /\ (t = s => p0 = p1 \/ p0 > e)
    <3> DEFINE A == IF p0 = p1 \/ p0 > PosMax(s) THEN appended ELSE appended \ {s}
    <3>1. A \in SUBSET SeqId /\ \A t \in A : t \in appended /\ (t = s => p0 = p1 \/ p0 > e)
      BY <1>3, <2>0
    <3>2. appended' = Begun(A)
      BY <1>1
    <3> HIDE DEF A
    <3> QED BY <1>2, <3>1, <3>2, BegunIs
  <2>2. \A t \in SeqId : Before(t)' = Seen(attn', t) /\ Before(t) = Seen(attn, t)
    BY <1>1 DEF Before
  <2>3. ASSUME ~JumpInside PROVE Histories'
    <3>1. /\ hist = [t \in SeqId |-> hist[t]]
          /\ \A t \in SeqId : HistTrue(Seen(attn, t), hist[t])
          /\ \A t \in appended : HistFull(Seen(attn, t), hist[t])
      BY <2>0, <2>2, <2>3 DEF IInv, Histories
    <3>2. /\ hist' = [t \in SeqId |-> hist'[t]]
          /\ hist'[s] = Trimmed(hist[s], p0, p1)
          /\ \A t \in SeqId : t # s => hist'[t] = hist[t]
      BY <1>1, <3>1
    <3>3. HistTrue(Seen(attn', s), hist'[s])
      <4>1. \A x \in Seen(attn, s) : x = <<x[1], x[2]>> /\ x[1] \in 0 .. MaxPos
        BY <1>1, SeenIs
      <4> QED BY <1>0, <1>2, <1>3, <1>4, <3>1, <3>2, <4>1, TrimTrue
    <3>4. ASSUME NEW t \in appended' PROVE HistFull(Seen(attn', t), hist'[t])
      <4>1. CASE Seen(attn', t) = {}
        BY <4>1, HistNone
      <4>2. CASE t \in appended /\ t # s
        BY <1>2, <2>0, <3>1, <3>2, <4>2
      <4>3. CASE s \in appended /\ t = s /\ (p0 = p1 \/ p0 > e) /\ Seen(attn', t) # {}
        <5>1. p0 > e \/ (p0 = p1 /\ p0 >= 0)
          <6>1. CASE p0 = p1 /\ p0 < 0
            <7>1. \A x \in Seen(attn, s) : Out(x)
              BY <1>0, <1>5, <6>1 DEF InRange
            <7> QED BY <1>2, <4>3, <7>1
          <6> QED BY <1>0, <4>3, <6>1
        <5>2. \A x \in Seen(attn, s) : x[1] \in 0 .. MaxPos
          BY <1>5
        <5>3. /\ Trimmed(hist[s], p0, p1) = hist[s]
              /\ {x \in Seen(attn, s) : ~InRange(x[1], p0, p1)} = Seen(attn, s)
          BY <1>0, <1>3, <3>1, <5>1, <5>2, TrimNothing
        <5> QED BY <1>2, <3>1, <3>2, <4>3, <5>3
      <4> QED BY <2>1, <4>1, <4>2, <4>3
    <3>5. \A t \in SeqId : HistTrue(Seen(attn', t), hist'[t])
      BY <1>2, <3>1, <3>2, <3>3
    <3> QED BY <2>1, <2>2, <3>2, <3>4, <3>5 DEF Histories
  <2> QED BY <2>1, <2>3 DEF Histories
<1> QED BY <1>1, <1>7, <1>8 DEF IInv, Steps, NoFalseContext, ContextKept

LEMMA CpKeeps == ASSUME NEW src \in SeqId, NEW dst \in SeqId
                 PROVE  IInv /\ seq_cp(src, dst) => IInv'
<1> SUFFICES ASSUME IInv, seq_cp(src, dst) PROVE IInv'
  OBVIOUS
<1>1. /\ pc = "idle" /\ pc' = "idle" /\ idx = attn /\ CellsOK(attn) /\ recr \in SUBSET StateType
      /\ src # dst /\ Positions(attn, dst) = {}
      /\ attn' = CacheCp(attn, src, dst) /\ idx' = CacheCp(idx, src, dst)
      /\ recr' = RecrCp(src, dst) /\ hist' = [hist EXCEPT ![dst] = hist[src]]
      /\ appended' = Begun(IF src \in appended THEN appended \cup {dst} ELSE appended \ {dst})
  BY DEF seq_cp, decode, IInv, Stores
<1>2. Seen(attn, dst) = {}
  BY <1>1, SeenIs
<1>3. /\ CellsOK(attn') /\ Seen(attn', dst) = Seen(attn, src)
      /\ \A t \in SeqId : t # dst => Seen(attn', t) = Seen(attn, t)
  BY <1>1, <1>2, SeenCp
<1>4. recr' \in SUBSET StateType /\ EndsMatch(attn', recr')
  <2> DEFINE R == Without(recr, {dst})
  <2>0. R \in SUBSET StateType
    BY <1>1, TailWithout, ZenonT(60)
  <2>1. recr' = {IF src \in r.seq THEN [r EXCEPT !.seq = @ \cup {dst}] ELSE r : r \in R}
    BY <1>1 DEF RecrCp
  <2>2. \A t \in SeqId, p \in -1 .. MaxPos : t # dst /\ TailAt(recr, t, p) => TailAt(R, t, p)
    BY <1>1, TailWithout
  <2>3. \A p \in -1 .. MaxPos, r \in R : dst \notin r.seq
    <3>1. MaxPos \in Nat /\ -1 \in -1 .. MaxPos
      BY ConfigAssumption
    <3>2. TailAt(R, dst, -1)
      BY <1>1, <3>1, TailWithout
    <3>3. \A r \in R : r.pos # -1
      BY <2>0, <3>1 DEF StateType
    <3> QED BY <3>2, <3>3 DEF TailAt
  <2> HIDE DEF R
  <2>4. \A q \in recr' : \E r \in R : /\ q.pos = r.pos /\ q \in StateType
                                      /\ q.seq = IF src \in r.seq THEN r.seq \cup {dst} ELSE r.seq
    <3> TAKE q \in recr'
    <3>1. PICK r \in R : q = IF src \in r.seq THEN [r EXCEPT !.seq = @ \cup {dst}] ELSE r
      BY <2>1
    <3>2. q.pos = r.pos /\ q \in StateType /\ q.seq = IF src \in r.seq THEN r.seq \cup {dst} ELSE r.seq
      BY <2>0, <3>1 DEF StateType
    <3> QED BY <3>2
  <2>5. \A r \in R : \E q \in recr' : /\ q.pos = r.pos
                                      /\ q.seq = IF src \in r.seq THEN r.seq \cup {dst} ELSE r.seq
    <3> TAKE r \in R
    <3> DEFINE q == IF src \in r.seq THEN [r EXCEPT !.seq = @ \cup {dst}] ELSE r
    <3>1. q \in recr'
      BY <2>1
    <3>2. q.pos = r.pos /\ q.seq = IF src \in r.seq THEN r.seq \cup {dst} ELSE r.seq
      BY <2>0 DEF StateType
    <3> QED BY <3>1, <3>2
  <2>6. ASSUME NEW t \in SeqId, t # dst, NEW p \in -1 .. MaxPos, TailAt(R, t, p)
        PROVE  TailAt(recr', t, p)
    <3>1. \A q \in recr' : t \in q.seq => \E r \in R : t \in r.seq /\ q.pos = r.pos
      <4> TAKE q \in recr'
      <4>1. PICK r \in R : q.pos = r.pos /\ q.seq = IF src \in r.seq THEN r.seq \cup {dst} ELSE r.seq
        BY <2>4
      <4>2. t \in q.seq => t \in r.seq
        BY <2>6, <4>1
      <4> QED BY <4>1, <4>2
    <3>2. \A r \in R : t \in r.seq => \E q \in recr' : t \in q.seq
      <4> TAKE r \in R
      <4>1. PICK q \in recr' : q.seq = IF src \in r.seq THEN r.seq \cup {dst} ELSE r.seq
        BY <2>5
      <4> QED BY <4>1
    <3> QED BY <2>6, <3>1, <3>2 DEF TailAt
  <2>7. ASSUME NEW p \in -1 .. MaxPos, TailAt(R, src, p)
        PROVE  TailAt(recr', dst, p)
    <3>1. \A q \in recr' : dst \in q.seq => q.pos = p
      <4> TAKE q \in recr'
      <4> HAVE dst \in q.seq
      <4>1. PICK r \in R : q.pos = r.pos /\ q.seq = IF src \in r.seq THEN r.seq \cup {dst} ELSE r.seq
        BY <2>4
      <4>2. src \in r.seq
        BY <2>3, <2>7, <4>1
      <4> QED BY <2>7, <4>1, <4>2 DEF TailAt
    <3>2. p >= 0 => \E q \in recr' : dst \in q.seq
      <4> HAVE p >= 0
      <4>1. PICK r \in R : src \in r.seq
        BY <2>7 DEF TailAt
      <4>2. PICK q \in recr' : q.seq = IF src \in r.seq THEN r.seq \cup {dst} ELSE r.seq
        BY <2>5
      <4> QED BY <4>1, <4>2
    <3> QED BY <3>1, <3>2 DEF TailAt
  <2>8. ASSUME NEW t \in SeqId
        PROVE  \E p \in -1 .. MaxPos : EndOf(Seen(attn', t), p) /\ TailAt(recr', t, p)
    <3>1. PICK p \in -1 .. MaxPos : EndOf(Seen(attn, t), p) /\ TailAt(recr, t, p)
      BY DEF IInv, Stores, EndsMatch
    <3>2. PICK g \in -1 .. MaxPos : EndOf(Seen(attn, src), g) /\ TailAt(recr, src, g)
      BY DEF IInv, Stores, EndsMatch
    <3>3. CASE t = dst
      BY <1>1, <1>3, <2>2, <2>7, <3>2, <3>3
    <3>4. CASE t # dst
      BY <1>3, <2>2, <2>6, <3>1, <3>4
    <3> QED BY <3>3, <3>4
  <2> QED BY <2>4, <2>8 DEF EndsMatch
<1>5. Stores'
  BY <1>1, <1>3, <1>4 DEF Stores, IInv
<1>6. Histories'
  <2>0. appended \in SUBSET SeqId
    BY DEF IInv, Histories
  <2>1. /\ appended' \in SUBSET SeqId
        /\ \A t \in appended' : \/ Seen(attn', t) = {}
                                \/ IF t = dst THEN src \in appended ELSE t \in appended
    <3> DEFINE A == IF src \in appended THEN appended \cup {dst} ELSE appended \ {dst}
    <3>1. A \in SUBSET SeqId /\ \A t \in A : IF t = dst THEN src \in appended ELSE t \in appended
      BY <2>0
    <3>2. appended' = Begun(A)
      BY <1>1
    <3> HIDE DEF A
    <3> QED BY <1>3, <3>1, <3>2, BegunIs
  <2>2. \A t \in SeqId : Before(t)' = Seen(attn', t) /\ Before(t) = Seen(attn, t)
    BY <1>1 DEF Before
  <2>3. ASSUME ~JumpInside PROVE Histories'
    <3>1. /\ hist = [t \in SeqId |-> hist[t]]
          /\ \A t \in SeqId : HistTrue(Seen(attn, t), hist[t])
          /\ \A t \in appended : HistFull(Seen(attn, t), hist[t])
      BY <2>0, <2>2, <2>3 DEF IInv, Histories
    <3>2. /\ hist' = [t \in SeqId |-> hist'[t]]
          /\ \A t \in SeqId : hist'[t] = IF t = dst THEN hist[src] ELSE hist[t]
      BY <1>1, <3>1
    <3>3. \A t \in SeqId : HistTrue(Seen(attn', t), hist'[t])
      BY <1>3, <3>1, <3>2
    <3>4. \A t \in appended' : HistFull(Seen(attn', t), hist'[t])
      BY <1>3, <2>0, <2>1, <3>1, <3>2, HistNone
    <3> QED BY <2>1, <2>2, <3>2, <3>3, <3>4 DEF Histories
  <2> QED BY <2>1, <2>3 DEF Histories
<1> QED BY <1>1, <1>5, <1>6 DEF IInv, Steps, NoFalseContext, ContextKept

LEMMA KeepKeeps == ASSUME NEW s \in SeqId PROVE IInv /\ seq_keep(s) => IInv'
<1> SUFFICES ASSUME IInv, seq_keep(s) PROVE IInv'
  OBVIOUS
<1>1. /\ pc = "idle" /\ pc' = "idle" /\ idx = attn /\ CellsOK(attn) /\ recr \in SUBSET StateType
      /\ attn' = CacheKeep(attn, s) /\ idx' = CacheKeep(idx, s) /\ recr' = RecrKeep(s)
      /\ hist' = [t \in SeqId |-> IF t = s THEN hist[s] ELSE NoHistory]
      /\ appended' = Begun(appended) /\ appended \in SUBSET SeqId
  BY DEF seq_keep, decode, IInv, Stores, Histories
<1>2. MaxPos \in Nat
  BY ConfigAssumption
<1>3. /\ CellsOK(attn') /\ Seen(attn', s) = Seen(attn, s)
      /\ \A t \in SeqId : t # s => Seen(attn', t) = {}
  BY <1>1, SeenKeep
<1>4. recr' \in SUBSET StateType /\ EndsMatch(attn', recr')
  <2>1. recr' = {[r EXCEPT !.seq = {s}] : r \in {q \in recr : s \in q.seq}}
    BY <1>1 DEF RecrKeep
  <2>2. \A q \in recr' : q \in StateType /\ q.seq = {s} /\ \E r \in recr : s \in r.seq /\ q.pos = r.pos
    <3> TAKE q \in recr'
    <3>1. PICK r \in recr : s \in r.seq /\ q = [r EXCEPT !.seq = {s}]
      BY <2>1
    <3>2. q \in StateType /\ q.seq = {s} /\ q.pos = r.pos
      BY <1>1, <3>1 DEF StateType
    <3> QED BY <3>1, <3>2
  <2>3. \A r \in recr : s \in r.seq => \E q \in recr' : s \in q.seq
    <3> TAKE r \in recr
    <3> HAVE s \in r.seq
    <3> DEFINE q == [r EXCEPT !.seq = {s}]
    <3>1. q \in recr' /\ q.seq = {s}
      BY <1>1, <2>1 DEF StateType
    <3> QED BY <3>1
  <2>4. PICK p \in -1 .. MaxPos : EndOf(Seen(attn, s), p) /\ TailAt(recr, s, p)
    BY DEF IInv, Stores, EndsMatch
  <2>5. TailAt(recr', s, p)
    BY <2>2, <2>3, <2>4 DEF TailAt
  <2>6. ASSUME NEW t \in SeqId, t # s PROVE TailAt(recr', t, -1) /\ EndOf(Seen(attn', t), -1)
    BY <1>3, <2>2, <2>6 DEF TailAt, EndOf
  <2>7. -1 \in -1 .. MaxPos
    BY <1>2
  <2> QED BY <1>3, <2>2, <2>4, <2>5, <2>6, <2>7 DEF EndsMatch
<1>5. Stores'
  BY <1>1, <1>3, <1>4 DEF Stores, IInv, OneToken
<1>6. Histories'
  <2>1. appended' \in SUBSET SeqId /\ \A t \in appended' : t \in appended \/ Seen(attn', t) = {}
    BY <1>1, <1>3, BegunIs
  <2>2. \A t \in SeqId : Before(t)' = Seen(attn', t) /\ Before(t) = Seen(attn, t)
    BY <1>1 DEF Before
  <2>3. ASSUME ~JumpInside PROVE Histories'
    <3>1. /\ \A t \in SeqId : HistTrue(Seen(attn, t), hist[t])
          /\ \A t \in appended : HistFull(Seen(attn, t), hist[t])
      BY <1>1, <2>2, <2>3 DEF IInv, Histories
    <3>2. \A t \in SeqId : hist'[t] = IF t = s THEN hist[s] ELSE NoHistory
      BY <1>1
    <3>3. \A t \in SeqId : HistTrue(Seen(attn', t), hist'[t])
      BY <1>3, <3>1, <3>2, HistNone
    <3>4. \A t \in appended' : HistFull(Seen(attn', t), hist'[t])
      BY <1>1, <1>3, <2>1, <3>1, <3>2, HistNone
    <3> QED BY <1>1, <2>1, <2>2, <3>3, <3>4 DEF Histories
  <2> QED BY <2>1, <2>3 DEF Histories
<1> QED BY <1>1, <1>5, <1>6 DEF IInv, Steps, NoFalseContext, ContextKept

LEMMA ComputeKeeps == IInv /\ Compute => IInv'
<1> SUFFICES ASSUME IInv, Compute PROVE IInv'
  OBVIOUS
<1>1. /\ pc = "compute" /\ pc' = IF left = <<>> THEN "idle" ELSE "ubatch"
      /\ attn' = attn /\ idx' = idx /\ recr' = recr /\ hist' = hist /\ left' = left
      /\ appended' = appended
  BY DEF Compute, caches
<1>2. Stores' /\ LeftOK(left, attn)
  BY <1>1 DEF IInv, Stores, Steps
<1>3. Steps'
  BY <1>1, <1>2 DEF Steps
<1>4. \A s : Before(s)' = Seen(attn, s) /\ Before(s) = Seen(attn, s)
  BY <1>1 DEF Before
<1>5. Histories'
  BY <1>1, <1>4 DEF IInv, Histories
<1> QED BY <1>1, <1>2, <1>3, <1>5 DEF IInv, NoFalseContext, ContextKept

\* CleanUp takes back a micro-batch only from the sequences that began with it.
Back == {s \in InUbatch : RolledBack(s)}
GoneFrom(c, i) == {s \in InUbatch : RolledBack(s) /\ s \in c[i].seq /\ c[i].pos >= ubatch[FirstOf(s)].pos}
Gone(c) == [i \in Cell |-> IF GoneFrom(c, i) # {} /\ GoneFrom(c, i) = c[i].seq THEN Free
                           ELSE [c[i] EXCEPT !.seq = @ \ GoneFrom(c, i)]]

LEMMA BackIs ==
  ASSUME Stores, Grouped(ubatch), Stored(ubatch, attn)
  PROVE  /\ Back \in SUBSET SeqId
         /\ \A s \in Back : ubatch[FirstOf(s)].pos = 0
<1>1. ASSUME NEW s \in InUbatch
      PROVE  /\ s \in SeqId /\ ubatch[FirstOf(s)].pos \in 0 .. MaxPos
             /\ ubatch[FirstOf(s)].pos <= TailPos(s)
  <2> DEFINE f == FirstOf(s)
  <2>1. f \in 1 .. Len(ubatch) /\ ubatch[f].seq = s
    <3>1. Firsts(ubatch, s) # {} /\ f = Min(Firsts(ubatch, s))
      BY MineIs
    <3>2. /\ f \in 1 .. Len(ubatch) /\ Max(Firsts(ubatch, s)) \in f .. Len(ubatch)
          /\ ubatch[f].seq = s <=> f <= f /\ f <= Max(Firsts(ubatch, s))
      BY <3>1, GroupIs
    <3>3. Len(ubatch) \in Nat
      BY DEF Grouped
    <3> QED BY <3>2, <3>3
  <2> HIDE DEF f
  <2>2. ubatch[f].pos \in 0 .. MaxPos /\ s \in SeqId /\ s \in ubatch[f].seqs
    BY <2>1, GroupPos
  <2>3. <<ubatch[f].pos, ubatch[f].tok>> \in Seen(attn, s)
    BY <2>1, <2>2 DEF Stored
  <2>4. EndOf(Seen(attn, s), TailPos(s))
    BY <2>2, StoresEnd
  <2>5. <<ubatch[f].pos, ubatch[f].tok>>[1] <= TailPos(s)
    BY <2>3, <2>4 DEF EndOf
  <2> QED BY <2>2, <2>5 DEF f
<1>2. ASSUME NEW s \in Back PROVE ubatch[FirstOf(s)].pos = 0
  BY <1>1 DEF Back, RolledBack, RecrAccepts
<1> QED BY <1>1, <1>2 DEF Back

LEMMA GoneIs ==
  ASSUME Stores, Grouped(ubatch), Stored(ubatch, attn)
  PROVE  /\ CellsOK(Gone(attn))
         /\ \A s \in SeqId : Seen(Gone(attn), s) = IF s \in Back THEN {} ELSE Seen(attn, s)
<1> DEFINE d == Gone(attn)
<1>0. CellsOK(attn) /\ MaxPos \in Nat
  BY ConfigAssumption DEF Stores
<1>1. \A i \in Cell : GoneFrom(attn, i) = attn[i].seq \cap Back
  <2> TAKE i \in Cell
  <2>1. attn[i].seq # {} => attn[i].pos \in 0 .. MaxPos
    BY <1>0 DEF CellsOK
  <2>2. \A s \in Back : ubatch[FirstOf(s)].pos = 0
    BY BackIs
  <2>3. \A s : s \in GoneFrom(attn, i) <=> s \in Back /\ s \in attn[i].seq /\ attn[i].pos >= ubatch[FirstOf(s)].pos
    BY DEF GoneFrom, Back
  <2>4. \A s \in attn[i].seq \cap Back : attn[i].pos >= ubatch[FirstOf(s)].pos
    BY <1>0, <2>1, <2>2
  <2> QED BY <2>3, <2>4
<1>2. ASSUME NEW i \in Cell
      PROVE  /\ \/ d[i] = Free \/ d[i] = attn[i]
                \/ \E X \in SUBSET SeqId : X # {} /\ attn[i].seq # {} /\ d[i] = [attn[i] EXCEPT !.seq = X]
             /\ d[i].seq = attn[i].seq \ Back
             /\ d[i].seq # {} => d[i].pos = attn[i].pos /\ d[i].tok = attn[i].tok
  <2>0. attn[i] \in CellType /\ attn[i].seq \in SUBSET SeqId
    BY <1>0 DEF CellsOK, CellType
  <2>1. CASE attn[i].seq \cap Back # {} /\ attn[i].seq \cap Back = attn[i].seq
    <3>1. d[i] = Free
      BY <1>1, <2>1 DEF Gone
    <3> QED BY <2>1, <3>1 DEF Free
  <2>2. CASE ~(attn[i].seq \cap Back # {} /\ attn[i].seq \cap Back = attn[i].seq)
    <3>1. d[i] = [attn[i] EXCEPT !.seq = attn[i].seq \ (attn[i].seq \cap Back)]
      BY <1>1, <2>2 DEF Gone
    <3>2. attn[i].seq \ (attn[i].seq \cap Back) = attn[i].seq \ Back
      OBVIOUS
    <3>3. d[i] = [attn[i] EXCEPT !.seq = attn[i].seq \ Back]
      BY <3>1, <3>2
    <3>4. d[i].seq = attn[i].seq \ Back /\ d[i].pos = attn[i].pos /\ d[i].tok = attn[i].tok
      BY <2>0, <3>3 DEF CellType
    <3>5. CASE attn[i].seq = {}
      <4>1. attn[i].seq \ Back = attn[i].seq
        BY <3>5
      <4>2. d[i] = attn[i]
        BY <2>0, <3>3, <4>1 DEF CellType
      <4> QED BY <3>4, <4>2
    <3>6. CASE attn[i].seq # {}
      <4>1. attn[i].seq \ Back # {} /\ attn[i].seq \ Back \in SUBSET SeqId
        BY <2>0, <2>2, <3>6
      <4> QED BY <3>3, <3>4, <3>6, <4>1
    <3> QED BY <3>5, <3>6
  <2> QED BY <2>1, <2>2
<1>3. d = [i \in Cell |-> d[i]]
  BY DEF Gone
<1> HIDE DEF d
<1>4. CellsOK(d)
  <2>1. \A i \in Cell : \/ d[i] = Free \/ d[i] = attn[i]
                         \/ \E X \in SUBSET SeqId :
                              X # {} /\ attn[i].seq # {} /\ d[i] = [attn[i] EXCEPT !.seq = X]
    BY <1>2
  <2> QED BY <1>0, <1>3, <2>1, CellsKept
<1>5. ASSUME NEW s \in SeqId, s \in Back PROVE Seen(d, s) = {}
  BY <1>2, <1>4, <1>5, SeenIs
<1>6. ASSUME NEW s \in SeqId, s \notin Back PROVE Seen(d, s) = Seen(attn, s)
  <2>1. \A i \in Cell : s \in d[i].seq <=> s \in attn[i].seq
    BY <1>2, <1>6
  <2>2. \A i \in Cell : s \in d[i].seq => d[i].pos = attn[i].pos /\ d[i].tok = attn[i].tok
    BY <1>2
  <2> QED BY <1>0, <1>4, <2>1, <2>2, SeenSame
<1> QED BY <1>4, <1>5, <1>6 DEF d

LEMMA CleanUpKeeps == IInv /\ (InputFails \/ ComputeFails) => IInv'
<1> SUFFICES ASSUME IInv, InputFails \/ ComputeFails PROVE IInv'
  OBVIOUS
<1>1. /\ pc \in {"inputs", "compute"} /\ pc' = "idle"
      /\ idx = attn /\ CellsOK(attn) /\ recr \in SUBSET StateType
      /\ attn' = Gone(attn) /\ idx' = Gone(idx) /\ recr' = Without(recr, Back)
      /\ hist' = [s \in SeqId |-> IF s \in Back THEN Trimmed(hist[s], ubatch[FirstOf(s)].pos, -1)
                                  ELSE hist[s]]
      /\ appended' = Begun(appended \ UNION {ubatch[k].seqs : k \in DOMAIN ubatch})
  BY DEF InputFails, ComputeFails, CleanUp, Gone, GoneFrom, Back, IInv, Stores
<1>2. Grouped(ubatch) /\ Stored(ubatch, attn) /\ Stores /\ MaxPos \in Nat
  BY <1>1, ConfigAssumption DEF IInv, Steps
<1>3. /\ CellsOK(attn')
      /\ \A s \in SeqId : Seen(attn', s) = IF s \in Back THEN {} ELSE Seen(attn, s)
  BY <1>1, <1>2, GoneIs
<1>4. Back \in SUBSET SeqId /\ \A s \in Back : ubatch[FirstOf(s)].pos = 0
  BY <1>2, BackIs
<1>5. EndsMatch(attn', recr') /\ recr' \in SUBSET StateType
  <2>1. ASSUME NEW s \in SeqId
        PROVE  \E p \in -1 .. MaxPos : EndOf(Seen(attn', s), p) /\ TailAt(recr', s, p)
    <3>1. CASE s \in Back
      <4>1. -1 \in -1 .. MaxPos
        BY <1>2
      <4>2. TailAt(recr', s, -1)
        BY <1>1, <1>4, <3>1, <4>1, TailWithout
      <4>3. EndOf(Seen(attn', s), -1)
        BY <1>3, <3>1 DEF EndOf
      <4> QED BY <4>1, <4>2, <4>3
    <3>2. CASE s \notin Back
      <4>1. PICK p \in -1 .. MaxPos : EndOf(Seen(attn, s), p) /\ TailAt(recr, s, p)
        BY DEF IInv, Stores, EndsMatch
      <4>2. TailAt(recr', s, p)
        BY <1>1, <1>4, <3>2, <4>1, TailWithout
      <4> QED BY <1>3, <3>2, <4>1, <4>2
    <3> QED BY <3>1, <3>2
  <2>2. recr' \in SUBSET StateType
    BY <1>1, <1>4, TailWithout
  <2> QED BY <2>1, <2>2 DEF EndsMatch
<1>6. Stores'
  <2>1. \A s \in SeqId : OneToken(Seen(attn', s))
    BY <1>2, <1>3 DEF Stores, OneToken
  <2> QED BY <1>1, <1>3, <1>5, <2>1 DEF Stores
<1>7. Histories'
  <2>0. appended \in SUBSET SeqId
    BY DEF IInv, Histories
  <2> DEFINE A == appended \ UNION {ubatch[k].seqs : k \in DOMAIN ubatch}
  <2>1. \A s \in A : s \in appended /\ s \notin InUbatch
    <3> TAKE s \in A
    <3>1. ASSUME s \in InUbatch PROVE FALSE
      <4>1. DOMAIN ubatch = 1 .. Len(ubatch)
        BY <1>2, MineIs
      <4>2. PICK k \in DOMAIN ubatch : ubatch[k].seq = s
        BY <3>1 DEF InUbatch
      <4>3. s \in ubatch[k].seqs
        BY <1>2, <4>1, <4>2, GroupPos
      <4> QED BY <4>2, <4>3
    <3> QED BY <3>1
  <2>2. A \in SUBSET SeqId /\ appended' = Begun(A)
    BY <1>1, <2>0
  <2> HIDE DEF A
  <2>3. /\ appended' \in SUBSET SeqId
        /\ \A s \in appended' : s \in A \/ Seen(attn', s) = {}
    BY <1>3, <2>2, BegunIs
  <2>4. \A s \in SeqId : Before(s)' = Seen(attn', s)
    BY <1>1 DEF Before
  <2>5. \A s \in SeqId : Before(s) = IF pc = "inputs" /\ s \in InUbatch
                          THEN Below(Seen(attn, s), ubatch[FirstOf(s)].pos) ELSE Seen(attn, s)
    BY <1>2, BeforeIs
  <2>6. ASSUME ~JumpInside PROVE Histories'
    <3>1. /\ \A s \in SeqId : HistTrue(Before(s), hist[s])
          /\ \A s \in appended : HistFull(Before(s), hist[s])
      BY <2>6 DEF IInv, Histories
    <3>2. \A s \in SeqId : hist'[s] = IF s \in Back THEN Trimmed(hist[s], 0, -1) ELSE hist[s]
      BY <1>1, <1>4
    <3>3. ASSUME NEW s \in SeqId PROVE HistTrue(Seen(attn', s), hist'[s])
      <4>0. OfTokens(Seen(attn, s)) /\ \A x \in Before(s) : x \in Seen(attn, s)
        BY <1>1, <2>5, SeenIs DEF Below
      <4>1. CASE s \notin Back
        BY <1>3, <3>1, <3>2, <4>0, <4>1, HistGrows
      <4>2. CASE s \in Back
        <5> DEFINE W == Before(s)
        <5>1. \A x \in W : x = <<x[1], x[2]>> /\ x[1] \in 0 .. MaxPos
          BY <4>0 DEF OfTokens
        <5>2. \E e \in -1 .. MaxPos : EndOf(W, e)
          <6>1. CASE W = Seen(attn, s)
            BY <6>1 DEF IInv, Stores, EndsMatch
          <6>2. CASE W # Seen(attn, s)
            <7>1. W = Below(Seen(attn, s), 0)
              BY <1>4, <2>5, <4>2, <6>2
            <7>2. W = {}
              BY <1>2, <5>1, <7>1 DEF Below
            <7> QED BY <1>2, <7>2 DEF EndOf
          <6> QED BY <6>1, <6>2
        <5>3. PICK e \in -1 .. MaxPos : EndOf(W, e)
          BY <5>2
        <5>4. HistTrue(W, hist[s])
          BY <3>1
        <5> HIDE DEF W
        <5>5. HistTrue({x \in W : ~InRange(x[1], 0, -1)}, Trimmed(hist[s], 0, -1))
          BY <5>1, <5>3, <5>4, TrimTrue
        <5>6. {x \in W : ~InRange(x[1], 0, -1)} = {}
          BY <1>2, <5>1 DEF InRange
        <5> QED BY <1>3, <3>2, <4>2, <5>5, <5>6
      <4> QED BY <4>1, <4>2
    <3>4. ASSUME NEW s \in appended' PROVE HistFull(Seen(attn', s), hist'[s])
      <4>1. CASE Seen(attn', s) = {}
        BY <4>1, HistNone
      <4>2. CASE s \in A
        <5>1. s \in appended /\ s \notin InUbatch /\ s \in SeqId /\ s \notin Back
          BY <2>0, <2>1, <4>2 DEF Back
        <5> QED BY <1>3, <2>5, <3>1, <3>2, <5>1
      <4> QED BY <2>3, <4>1, <4>2
    <3> QED BY <1>1, <2>3, <2>4, <3>3, <3>4 DEF Histories
  <2> QED BY <2>3, <2>6 DEF Histories
<1> QED BY <1>1, <1>6, <1>7 DEF IInv, Steps, NoFalseContext, ContextKept

-----------------------------------------------------------------------------
(* Batches and micro-batches *)

LEMMA RunsOK ==
  ASSUME Stores, NEW S \in SeqSets, NEW x \in Runs(S)
  PROVE  /\ RunOK(x) /\ x.seqs = S /\ S \in SUBSET SeqId
         /\ \A s \in S : Follows(Seen(attn, s), x.toks)
<1> DEFINE last == PosMax(Min(S))
<1>0. /\ MaxPos \in Nat /\ MaxRun \in Nat /\ Jumps \subseteq Nat /\ JumpInside \in BOOLEAN
      /\ SeqId \subseteq Nat /\ SeqId # {}
  BY ConfigAssumption
<1>1. S \in SUBSET SeqId /\ S # {}
  BY <1>0 DEF SeqSets
<1>2. Min(S) \in S
  <2>1. \A s \in S : s \in Nat
    BY <1>0, <1>1
  <2> QED BY <1>1, <2>1, MinOfNat
<1>3. last \in -1 .. MaxPos
  BY <1>1, <1>2, StoresEnd
<1>4. (\A s, u \in S : PosMax(s) = PosMax(u) /\ PosMin(s) = PosMin(u))
  BY DEF Runs
<1>5. PICK y \in Shapes :
        /\ last + Len(y.toks) + y.jump <= MaxPos
        /\ x = [seqs |-> S,
                toks |-> [k \in DOMAIN y.toks |->
                            [tok |-> y.toks[k],
                             pos |-> last + k + (IF k > y.at THEN y.jump ELSE 0)]]]
  BY <1>4 DEF Runs
<1> HIDE DEF last
<1>6. PICK m \in 1 .. MaxRun :
        y \in [at : 0 .. (IF JumpInside THEN m - 1 ELSE 0), jump : Jumps, toks : [1 .. m -> AnyToken]]
  BY DEF Shapes
<1>7. /\ m \in Nat /\ m >= 1 /\ DOMAIN y.toks = 1 .. m /\ Len(y.toks) = m
      /\ y.jump \in Nat /\ y.at \in 0 .. m /\ (~JumpInside => y.at = 0)
      /\ \A k \in 1 .. m : y.toks[k] \in AnyToken
  <2>1. /\ m \in Nat /\ m >= 1 /\ y.toks \in [1 .. m -> AnyToken] /\ y.jump \in Nat
        /\ y.at \in 0 .. (IF JumpInside THEN m - 1 ELSE 0)
    <3>1. m \in Nat /\ m >= 1
      BY <1>0
    <3>2. y.toks \in [1 .. m -> AnyToken] /\ y.jump \in Jumps
          /\ y.at \in 0 .. (IF JumpInside THEN m - 1 ELSE 0)
      BY <1>6, Zenon
    <3> QED BY <1>0, <3>1, <3>2
  <2>2. CASE JumpInside
    BY <2>1, <2>2
  <2>3. CASE ~JumpInside
    BY <2>1, <2>3
  <2> QED BY <2>2, <2>3
<1>8. /\ x.seqs = S
      /\ x.toks = [k \in 1 .. m |-> [tok |-> y.toks[k], pos |-> last + k + (IF k > y.at THEN y.jump ELSE 0)]]
  BY <1>5, <1>7
<1>9. \A k \in 1 .. m : /\ last + k + (IF k > y.at THEN y.jump ELSE 0) \in 0 .. MaxPos
                        /\ last + k <= last + k + (IF k > y.at THEN y.jump ELSE 0)
  BY <1>0, <1>3, <1>5, <1>7
<1>10. /\ x.toks \in Seq([tok : AnyToken, pos : 0 .. MaxPos]) /\ Len(x.toks) = m
       /\ \A k \in 1 .. m : x.toks[k].pos = last + k + (IF k > y.at THEN y.jump ELSE 0)
  <2>1. \A k \in 1 .. m : [tok |-> y.toks[k], pos |-> last + k + (IF k > y.at THEN y.jump ELSE 0)]
                             \in [tok : AnyToken, pos : 0 .. MaxPos]
    BY <1>7, <1>9
  <2>2. x.toks \in Seq([tok : AnyToken, pos : 0 .. MaxPos]) /\ Len(x.toks) = m
    BY <1>7, <1>8, <2>1
  <2>3. \A k \in 1 .. m : x.toks[k].pos = last + k + (IF k > y.at THEN y.jump ELSE 0)
    BY <1>8
  <2> QED BY <2>2, <2>3
<1>11. RunOK(x)
  <2>1. x \in RunType
    <3>1. x = [seqs |-> x.seqs, toks |-> x.toks]
      BY <1>5
    <3> QED BY <1>1, <1>8, <1>10, <3>1 DEF RunType
  <2>2. x.toks # <<>>
    BY <1>7, <1>10
  <2>3. ASSUME NEW k \in 1 .. m, NEW l \in 1 .. m
        PROVE  /\ k < l => x.toks[k].pos < x.toks[l].pos
               /\ ~JumpInside => x.toks[l].pos - x.toks[k].pos = l - k
    <3>1. /\ x.toks[k].pos = last + k + (IF k > y.at THEN y.jump ELSE 0)
          /\ x.toks[l].pos = last + l + (IF l > y.at THEN y.jump ELSE 0)
      BY <1>10
    <3>2. k < l => x.toks[k].pos < x.toks[l].pos
      BY <1>0, <1>3, <1>7, <3>1
    <3>3. ASSUME ~JumpInside PROVE x.toks[l].pos - x.toks[k].pos = l - k
      BY <1>0, <1>3, <1>7, <3>1, <3>3
    <3> QED BY <3>2, <3>3
  <2> QED BY <1>1, <1>8, <1>10, <2>1, <2>2, <2>3 DEF RunOK
<1>12. ASSUME NEW s \in S PROVE Follows(Seen(attn, s), x.toks)
  <2>1. PosMax(s) = last
    BY <1>2, <1>4 DEF last
  <2>2. EndOf(Seen(attn, s), last) /\ CellsOK(attn)
    BY <1>1, <2>1, StoresEnd DEF Stores
  <2>3. \A z \in Seen(attn, s) : z[1] <= last /\ z[1] \in 0 .. MaxPos
    BY <2>2, SeenIs DEF EndOf
  <2> QED BY <1>0, <1>3, <1>7, <1>9, <1>10, <2>3, SMTT(30) DEF Follows
<1> QED BY <1>1, <1>8, <1>11, <1>12

LEMMA DecodeKeeps == IInv /\ Decode => IInv'
<1> SUFFICES ASSUME IInv, Decode PROVE IInv'
  OBVIOUS
<1>1. /\ pc = "idle" /\ pc' = "ubatch"
      /\ attn' = attn /\ idx' = idx /\ recr' = recr /\ hist' = hist /\ appended' = appended
      /\ left' \in Batches /\ Total(left') <= Min({MaxBatch, Cardinality(FreeCells)})
  BY DEF Decode, caches
<1>2. Stores /\ Stores'
  BY <1>1 DEF IInv, Stores
<1> DEFINE b == left'
<1>3. \/ \E S \in SeqSets : \E x \in Runs(S) : b = <<x>>
      \/ \E s, u \in SeqId : s # u /\ \E x \in Runs({s}), y \in Runs({u}) : b = <<x, y>>
  <2> DEFINE One == UNION {{<<x>> : x \in Runs(S)} : S \in SeqSets}
             Two == UNION {{<<x, y>> : x \in Runs({p[1]}), y \in Runs({p[2]})} :
                             p \in {q \in SeqId \X SeqId : q[1] # q[2]}}
  <2>1. CASE b \in One
    BY <2>1
  <2>2. CASE b \in Two
    <3>1. PICK p \in SeqId \X SeqId : p[1] # p[2] /\ b \in {<<x, y>> : x \in Runs({p[1]}), y \in Runs({p[2]})}
      BY <2>2
    <3>2. \E s, u \in SeqId : s = p[1] /\ u = p[2]
      OBVIOUS
    <3>3. PICK s \in SeqId, u \in SeqId : s = p[1] /\ u = p[2]
      BY <3>2
    <3>4. s # u /\ b \in {<<x, y>> : x \in Runs({s}), y \in Runs({u})}
      BY <3>1, <3>3
    <3> HIDE DEF b
    <3>5. \E x \in Runs({s}), y \in Runs({u}) : b = <<x, y>>
      BY <3>4
    <3>6. \E g, h \in SeqId : g # h /\ \E x \in Runs({g}), y \in Runs({h}) : b = <<x, y>>
      <4> WITNESS s \in SeqId, u \in SeqId
      <4> QED BY <3>4, <3>5
    <3> QED BY <3>6
  <2>3. Batches = One \cup Two /\ b \in Batches
    BY <1>1 DEF Batches
  <2> HIDE DEF b, One, Two
  <2>4. b \in One \/ b \in Two
    BY <2>3
  <2> QED BY <2>1, <2>2, <2>4
<1>4. \A s \in SeqId : {s} \in SeqSets
  BY DEF SeqSets
<1>5. Total(b) <= Cardinality({i \in Cell : attn[i] = Free})
  <2>1. MaxBatch \in Nat /\ NCells \in Nat
    BY ConfigAssumption
  <2>2. Cardinality(FreeCells) \in Nat
    <3>1. IsFiniteSet(Cell)
      BY <2>1, FS_Interval DEF Cell
    <3>2. FreeCells \in SUBSET Cell
      BY DEF FreeCells
    <3> QED BY <3>1, <3>2, FS_Subset, FS_CardinalityType
  <2>3. Min({MaxBatch, Cardinality(FreeCells)}) <= Cardinality(FreeCells)
    <3>1. \A n \in Nat : Min({MaxBatch, n}) <= n
      <4> TAKE n \in Nat
      <4>1. MaxBatch \in Int /\ n \in Int
        BY <2>1
      <4>2. Min({MaxBatch, n}) = IF MaxBatch < n THEN MaxBatch ELSE n
        BY <4>1, OfTwo
      <4> QED BY <4>1, <4>2
    <3> QED BY <2>2, <3>1
  <2>4. Total(b) \in Int
    <3>1. CASE \E S \in SeqSets : \E x \in Runs(S) : b = <<x>>
      <4>0. PICK S \in SeqSets : \E x \in Runs(S) : b = <<x>>
        BY <3>1
      <4>1. PICK x \in Runs(S) : b = <<x>>
        BY <4>0
      <4>2. x.toks \in Seq([tok : AnyToken, pos : 0 .. MaxPos])
        BY <1>2, RunsOK DEF RunOK, RunType
      <4> QED BY <4>1, <4>2 DEF Total
    <3>2. CASE \E s, u \in SeqId : s # u /\ \E x \in Runs({s}), y \in Runs({u}) : b = <<x, y>>
      <4>1. PICK s \in SeqId, u \in SeqId : \E x \in Runs({s}), y \in Runs({u}) : b = <<x, y>>
        BY <3>2
      <4>2. PICK x \in Runs({s}), y \in Runs({u}) : b = <<x, y>>
        BY <4>1
      <4>3. x.toks \in Seq([tok : AnyToken, pos : 0 .. MaxPos]) /\ y.toks \in Seq([tok : AnyToken, pos : 0 .. MaxPos])
        BY <1>2, <1>4, RunsOK DEF RunOK, RunType
      <4> QED BY <4>2, <4>3 DEF Total
    <3> QED BY <1>3, <3>1, <3>2
  <2>5. Min({MaxBatch, Cardinality(FreeCells)}) \in Int /\ Total(b) <= Min({MaxBatch, Cardinality(FreeCells)})
    <3>1. \A n \in Nat : Min({MaxBatch, n}) \in Int
      <4> TAKE n \in Nat
      <4>1. MaxBatch \in Int /\ n \in Int
        BY <2>1
      <4>2. Min({MaxBatch, n}) = IF MaxBatch < n THEN MaxBatch ELSE n
        BY <4>1, OfTwo
      <4> QED BY <4>1, <4>2
    <3> QED BY <1>1, <2>2, <3>1
  <2> HIDE DEF b
  <2>6. Total(b) <= Cardinality(FreeCells)
    BY <2>2, <2>3, <2>4, <2>5
  <2> QED BY <2>6 DEF FreeCells
<1>6. LeftOK(b, attn) /\ b # <<>>
  <2>1. CASE \E S \in SeqSets : \E x \in Runs(S) : b = <<x>>
    <3>0. PICK S \in SeqSets : \E x \in Runs(S) : b = <<x>>
      BY <2>1
    <3>1. PICK x \in Runs(S) : b = <<x>>
      BY <3>0
    <3>2. RunOK(x) /\ x \in RunType /\ \A s \in x.seqs : Follows(Seen(attn, s), x.toks)
      BY <1>2, RunsOK DEF RunOK
    <3>3. b \in Seq(RunType) /\ Len(b) = 1 /\ b[1] = x /\ b # <<>>
      BY <3>1, <3>2
    <3>4. \A r \in 1 .. Len(b) : r = 1
      BY <3>3
    <3> HIDE DEF b
    <3> QED BY <1>5, <3>2, <3>3, <3>4 DEF LeftOK
  <2>2. CASE \E s, u \in SeqId : s # u /\ \E x \in Runs({s}), y \in Runs({u}) : b = <<x, y>>
    <3>1. PICK s \in SeqId, u \in SeqId : s # u /\ \E x \in Runs({s}), y \in Runs({u}) : b = <<x, y>>
      BY <2>2
    <3>2. PICK x \in Runs({s}), y \in Runs({u}) : b = <<x, y>>
      BY <3>1
    <3>3. /\ RunOK(x) /\ x \in RunType /\ x.seqs = {s} /\ \A t \in x.seqs : Follows(Seen(attn, t), x.toks)
          /\ RunOK(y) /\ y \in RunType /\ y.seqs = {u} /\ \A t \in y.seqs : Follows(Seen(attn, t), y.toks)
      BY <1>2, <1>4, RunsOK DEF RunOK
    <3>4. b \in Seq(RunType) /\ Len(b) = 2 /\ b[1] = x /\ b[2] = y /\ b # <<>>
      BY <3>2, <3>3
    <3>5. \A r \in 1 .. Len(b) : r = 1 \/ r = 2
      BY <3>4
    <3>6. x.seqs \cap y.seqs = {} /\ y.seqs \cap x.seqs = {}
      BY <3>1, <3>3
    <3> HIDE DEF b
    <3>7. \A r \in 1 .. Len(b) : RunOK(b[r]) /\ \A t \in b[r].seqs : Follows(Seen(attn, t), b[r].toks)
      BY <3>3, <3>4, <3>5
    <3>8. \A r, q \in 1 .. Len(b) : r # q => b[r].seqs \cap b[q].seqs = {}
      BY <3>4, <3>5, <3>6
    <3> QED BY <1>5, <3>4, <3>7, <3>8 DEF LeftOK
  <2> QED BY <1>3, <2>1, <2>2
<1>7. Steps'
  BY <1>1, <1>6 DEF Steps
<1>8. \A s : Before(s)' = Seen(attn, s) /\ Before(s) = Seen(attn, s)
  BY <1>1 DEF Before
<1>9. Histories'
  BY <1>1, <1>8 DEF IInv, Histories
<1> QED BY <1>1, <1>2, <1>7, <1>9 DEF IInv, NoFalseContext, ContextKept

\* The place of the i-th token of a micro-batch of two runs, n of each.
LEMMA DivMod ==
  ASSUME NEW n \in Nat \ {0}
  PROVE  /\ \A i \in 1 .. n : ((i - 1) \div n) + 1 = 1 /\ ((i - 1) % n) + 1 = i
         /\ \A i \in n + 1 .. 2 * n : ((i - 1) \div n) + 1 = 2 /\ ((i - 1) % n) + 1 = i - n
<1>1. \A i \in 1 .. n : (i - 1) \div n = 0 /\ (i - 1) % n = i - 1
  OBVIOUS
<1>2. \A i \in n + 1 .. 2 * n : (i - 1) \div n = 1
  BY SMTT(60)
<1>3. \A i \in n + 1 .. 2 * n : (i - 1) % n = i - 1 - n
  BY SMTT(60)
<1> QED BY <1>1, <1>2, <1>3

\* A micro-batch takes at least a token of one or of two runs, and no more
\* than either has.
LEMMA TakenIs ==
  ASSUME NEW b, NEW c, LeftOK(b, c), b # <<>>
  PROVE  /\ Parts(b) \in Seq(RunType)
         /\ Len(b) \in 1 .. 2 /\ Len(Parts(b)) \in 1 .. Len(b)
         /\ \A r \in 1 .. Len(Parts(b)) : Parts(b)[r] = b[r]
         /\ Taken(b) \in Nat \ {0}
         /\ \A r \in 1 .. Len(Parts(b)) : Taken(b) <= Len(b[r].toks)
<1>1. Len(b) \in 1 .. 2 /\ b \in Seq(RunType)
  <2>1. b \in Seq(RunType) /\ Len(b) <= 2
    BY DEF LeftOK
  <2>2. Len(b) \in Nat \ {0}
    BY <2>1, NotEmpty
  <2>3. \A n : n \in Nat \ {0} /\ n <= 2 => n \in 1 .. 2
    OBVIOUS
  <2>4. Len(b) \in 1 .. 2
    BY <2>1, <2>2, <2>3
  <2> QED BY <2>1, <2>4
<1>2. /\ Parts(b) \in Seq(RunType) /\ Len(Parts(b)) \in 1 .. Len(b)
      /\ \A r \in 1 .. Len(Parts(b)) : Parts(b)[r] = b[r]
  <2>1. b[1] \in RunType
    BY <1>1
  <2>2. CASE EmbdAll
    BY <1>1, <2>1, <2>2 DEF Parts
  <2>3. CASE ~EmbdAll
    BY <1>1, <2>3 DEF Parts
  <2> QED BY <2>2, <2>3
<1> DEFINE m == Len(Parts(b))
           fit == UBatch \div m
           T == {Len(Parts(b)[r].toks) : r \in 1 .. m} \cup {Max({1, fit})}
<1>3. \A r \in 1 .. m : Len(Parts(b)[r].toks) \in Nat \ {0} /\ Parts(b)[r] = b[r]
  <2> TAKE r \in 1 .. m
  <2>1. r \in 1 .. Len(b)
    <3>1. Len(b) \in Nat
      BY <1>1
    <3>2. m \in 1 .. Len(b)
      BY <1>2
    <3>3. \A x, y : x \in Nat /\ y \in 1 .. x => \A z \in 1 .. y : z \in 1 .. x
      OBVIOUS
    <3> HIDE DEF m
    <3> QED BY <3>1, <3>2, <3>3
  <2>1a. Parts(b)[r] = b[r]
    BY <1>2 DEF m
  <2>2. RunOK(b[r])
    BY <2>1 DEF LeftOK
  <2>3. b[r].toks \in Seq([tok : AnyToken, pos : 0 .. MaxPos]) /\ b[r].toks # <<>>
    BY <2>2 DEF RunOK, RunType
  <2> QED BY <2>1a, <2>3
<1>4. Max({1, fit}) \in Nat \ {0}
  <2>1. UBatch \in Nat
    BY ConfigAssumption
  <2>2. m = 1 \/ m = 2
    <3>1. \A x, y : x \in 1 .. 2 /\ y \in 1 .. x => y = 1 \/ y = 2
      OBVIOUS
    <3>2. Len(b) \in 1 .. 2
      BY <1>1
    <3>3. m \in 1 .. Len(b)
      BY <1>2
    <3> HIDE DEF m
    <3> QED BY <3>1, <3>2, <3>3
  <2>3. fit \in Int
    BY <2>1, <2>2
  <2> HIDE DEF fit
  <2>4. 1 \in Int
    OBVIOUS
  <2>5. Max({1, fit}) = IF 1 < fit THEN fit ELSE 1
    BY <2>3, <2>4, OfTwo
  <2> QED BY <2>3, <2>5
<1>5. Taken(b) = Min(T)
  BY DEF Taken
<1> HIDE DEF m, fit
<1>6. \A x \in T : x \in Nat \ {0}
  BY <1>3, <1>4
<1>7. Max({1, fit}) \in T /\ \A r \in 1 .. m : Len(Parts(b)[r].toks) \in T
  OBVIOUS
<1> HIDE DEF T
<1>8. Min(T) \in T /\ \A x \in T : Min(T) <= x
  BY <1>6, <1>7, MinOfNat
<1>9. Taken(b) \in Nat \ {0} /\ \A r \in 1 .. m : Taken(b) <= Len(b[r].toks)
  BY <1>3, <1>5, <1>6, <1>7, <1>8
<1> QED BY <1>1, <1>2, <1>9 DEF m

\* The j-th token of a run, as a micro-batch has it.
UbToken(run, j) ==
  [seqs |-> run.seqs, seq |-> Min(run.seqs), pos |-> run.toks[j].pos, tok |-> run.toks[j].tok]

\* A micro-batch: the first tokens of the first run, then those of the second.
LEMMA NextIs ==
  ASSUME NEW b, NEW c, LeftOK(b, c), b # <<>>
  PROVE  /\ NextUbatch(b) \in Seq(UbType)
         /\ Len(NextUbatch(b)) = IF Len(Parts(b)) = 1 THEN Taken(b) ELSE 2 * Taken(b)
         /\ \A i \in 1 .. Taken(b) : NextUbatch(b)[i] = UbToken(b[1], i)
         /\ Len(Parts(b)) = 2 =>
              \A i \in Taken(b) + 1 .. 2 * Taken(b) : NextUbatch(b)[i] = UbToken(b[2], i - Taken(b))
<1> DEFINE n == Taken(b)
           m == Len(Parts(b))
           len == n * m
           f(i) == LET r == ((i - 1) \div n) + 1
                   IN  [seqs |-> b[r].seqs, seq |-> Min(b[r].seqs),
                        pos |-> b[r].toks[((i - 1) % n) + 1].pos,
                        tok |-> b[r].toks[((i - 1) % n) + 1].tok]
<1>1. NextUbatch(b) = [i \in 1 .. len |-> f(i)]
  BY DEF NextUbatch
<1>2. /\ n \in Nat \ {0} /\ m \in 1 .. Len(b) /\ Len(b) \in 1 .. 2
      /\ \A r \in 1 .. m : n <= Len(b[r].toks)
  BY TakenIs
<1> HIDE DEF n, m
<1>3. len = IF m = 1 THEN n ELSE 2 * n
  BY <1>2
<1>4. \A i \in 1 .. n : f(i) = UbToken(b[1], i)
  BY <1>2, DivMod DEF UbToken
<1>5. \A i \in n + 1 .. 2 * n : f(i) = UbToken(b[2], i - n)
  BY <1>2, DivMod DEF UbToken
<1>6. ASSUME NEW r \in 1 .. m, NEW j \in 1 .. n PROVE UbToken(b[r], j) \in UbType
  <2>1. RunOK(b[r]) /\ j \in 1 .. Len(b[r].toks)
    BY <1>2 DEF LeftOK
  <2>1a. b[r].toks \in Seq([tok : AnyToken, pos : 0 .. MaxPos])
    BY <2>1 DEF RunOK, RunType
  <2>2. b[r].toks[j].pos \in 0 .. MaxPos /\ b[r].toks[j].tok \in AnyToken
    <3>1. \A S, t : t \in Seq(S) /\ j \in 1 .. Len(t) => t[j] \in S
      OBVIOUS
    <3>2. b[r].toks[j] \in [tok : AnyToken, pos : 0 .. MaxPos]
      BY <2>1, <2>1a, <3>1
    <3> QED BY <3>2
  <2>3. b[r].seqs \in SUBSET SeqId /\ b[r].seqs # {} /\ SeqId \subseteq Nat
    BY <2>1, ConfigAssumption DEF RunOK, RunType
  <2>4. Min(b[r].seqs) \in b[r].seqs
    BY <2>3, MinOfNat
  <2> QED BY <2>2, <2>3, <2>4 DEF UbToken, UbType
<1> HIDE DEF len, f
<1>7. \A i \in 1 .. len : f(i) \in UbType
  <2> TAKE i \in 1 .. len
  <2>1. CASE i \in 1 .. n
    BY <1>2, <1>4, <1>6, <2>1
  <2>2. CASE i \notin 1 .. n
    <3>1. m = 2 /\ i \in n + 1 .. 2 * n /\ i - n \in 1 .. n
      BY <1>2, <1>3, <2>2
    <3>2. UbToken(b[2], i - n) \in UbType
      BY <1>6, <3>1
    <3> QED BY <1>5, <3>1, <3>2
  <2> QED BY <2>1, <2>2
<1>8. len \in Nat /\ len >= n /\ (m = 2 => len = 2 * n)
  BY <1>2, <1>3
<1>9. /\ NextUbatch(b) \in Seq(UbType) /\ Len(NextUbatch(b)) = len
      /\ \A i \in 1 .. len : NextUbatch(b)[i] = f(i)
  BY <1>1, <1>7, <1>8
<1>10. \A i \in 1 .. n : NextUbatch(b)[i] = UbToken(b[1], i)
  BY <1>2, <1>4, <1>8, <1>9
<1>11. m = 2 => \A i \in n + 1 .. 2 * n : NextUbatch(b)[i] = UbToken(b[2], i - n)
  BY <1>2, <1>5, <1>8, <1>9
<1> QED BY <1>3, <1>9, <1>10, <1>11 DEF n, m

\* Where the k-th token of a micro-batch comes from.
RunOf(n, k) == IF k <= n THEN 1 ELSE 2
InRun(n, k) == IF k <= n THEN k ELSE k - n

UbFrom(b, n, ub) ==
  /\ n \in Nat \ {0} /\ ub \in Seq(UbType) /\ n <= Len(ub)
  /\ \A k \in 1 .. Len(ub) :
       /\ RunOf(n, k) \in 1 .. Len(b) /\ RunOf(n, k) <= Len(Parts(b))
       /\ InRun(n, k) \in 1 .. n /\ InRun(n, k) \in 1 .. Len(b[RunOf(n, k)].toks)
       /\ ub[k] = UbToken(b[RunOf(n, k)], InRun(n, k))

LEMMA UbTokenIs ==
  \A x, j : /\ UbToken(x, j).seqs = x.seqs /\ UbToken(x, j).seq = Min(x.seqs)
            /\ UbToken(x, j).pos = x.toks[j].pos /\ UbToken(x, j).tok = x.toks[j].tok
  BY DEF UbToken

LEMMA UbIs ==
  ASSUME NEW b, NEW c, LeftOK(b, c), b # <<>>, NEW n, n = Taken(b), NEW ub, ub = NextUbatch(b)
  PROVE  UbFrom(b, n, ub)
<1> DEFINE m == Len(Parts(b))
<1>1. /\ n \in Nat \ {0} /\ Len(b) \in 1 .. 2 /\ m \in 1 .. Len(b)
      /\ \A r \in 1 .. m : n <= Len(b[r].toks)
  BY TakenIs
<1>2. /\ ub \in Seq(UbType)
      /\ Len(ub) = IF m = 1 THEN n ELSE 2 * n
      /\ \A i \in 1 .. n : ub[i] = UbToken(b[1], i)
      /\ m = 2 => \A i \in n + 1 .. 2 * n : ub[i] = UbToken(b[2], i - n)
  BY NextIs
<1> HIDE DEF m
<1>3. \A x, y : x \in 1 .. 2 /\ y \in 1 .. x => y = 1 \/ y = 2
  OBVIOUS
<1>4. m = 1 \/ (m = 2 /\ Len(b) = 2)
  <2>1. \A x, y : x \in 1 .. 2 /\ y \in 1 .. x => y = 1 \/ (y = 2 /\ x = 2)
    OBVIOUS
  <2>2. Len(b) \in 1 .. 2
    BY <1>1
  <2> QED BY <1>1, <2>1, <2>2
<1>5. Len(ub) \in Nat /\ n <= Len(ub)
  BY <1>1, <1>2, <1>4
<1>6. ASSUME NEW k \in 1 .. Len(ub)
      PROVE  /\ RunOf(n, k) \in 1 .. Len(b) /\ RunOf(n, k) \in 1 .. m
             /\ InRun(n, k) \in 1 .. n
             /\ ub[k] = UbToken(b[RunOf(n, k)], InRun(n, k))
  <2>1. CASE k <= n
    <3>1. RunOf(n, k) = 1 /\ InRun(n, k) = k /\ k \in 1 .. n
      BY <1>1, <1>5, <2>1 DEF RunOf, InRun
    <3>2. 1 \in 1 .. Len(b) /\ 1 \in 1 .. m
      BY <1>1, <1>4
    <3> QED BY <1>2, <3>1, <3>2
  <2>2. CASE ~(k <= n)
    <3>1. m = 2 /\ k \in n + 1 .. 2 * n
      BY <1>1, <1>2, <1>4, <2>2
    <3>2. RunOf(n, k) = 2 /\ InRun(n, k) = k - n /\ k - n \in 1 .. n
      BY <1>1, <2>2, <3>1 DEF RunOf, InRun
    <3>3. Len(b) = 2 /\ 2 \in 1 .. 2
      BY <1>4, <3>1
    <3> QED BY <1>2, <3>1, <3>2, <3>3
  <2> QED BY <2>1, <2>2
<1>7. ASSUME NEW k \in 1 .. Len(ub)
      PROVE  RunOf(n, k) <= m /\ InRun(n, k) \in 1 .. Len(b[RunOf(n, k)].toks)
  <2>1. RunOf(n, k) \in 1 .. m /\ m \in Nat /\ InRun(n, k) \in 1 .. n
    BY <1>1, <1>4, <1>6
  <2>2. RunOf(n, k) \in 1 .. Len(b)
    BY <1>6
  <2>3. RunOK(b[RunOf(n, k)])
    BY <2>2 DEF LeftOK
  <2>4. Len(b[RunOf(n, k)].toks) \in Nat
    BY <2>3 DEF RunOK, RunType
  <2>5. n <= Len(b[RunOf(n, k)].toks)
    BY <1>1, <2>1
  <2>6. \A z : z \in Nat /\ n <= z => \A i \in 1 .. n : i \in 1 .. z
    BY <1>1
  <2> QED BY <2>1, <2>4, <2>5, <2>6
<1> QED BY <1>1, <1>2, <1>5, <1>6, <1>7 DEF m, UbFrom

\* The first sequence of a run is one of its sequences.
LEMMA FirstSeq ==
  ASSUME NEW x, RunOK(x)
  PROVE  x.seqs \in SUBSET SeqId /\ Min(x.seqs) \in x.seqs
<1>1. x.seqs \in SUBSET SeqId /\ x.seqs # {} /\ SeqId \subseteq Nat
  BY ConfigAssumption DEF RunOK, RunType
<1> QED BY <1>1, MinOfNat

LEMMA NextGrouped ==
  ASSUME NEW b, NEW c, LeftOK(b, c), b # <<>>
  PROVE  Grouped(NextUbatch(b))
<1> DEFINE ub == NextUbatch(b)
           n == Taken(b)
           R(k) == RunOf(n, k)
           J(k) == InRun(n, k)
<1>1. /\ n \in Nat \ {0} /\ ub \in Seq(UbType) /\ n <= Len(ub)
      /\ \A k \in 1 .. Len(ub) :
           /\ R(k) \in 1 .. Len(b)
           /\ J(k) \in 1 .. n /\ J(k) \in 1 .. Len(b[R(k)].toks)
           /\ ub[k] = UbToken(b[R(k)], J(k))
  <2>1. UbFrom(b, n, ub)
    BY UbIs
  <2> HIDE DEF ub, n
  <2> QED BY <2>1 DEF UbFrom
<1> HIDE DEF ub, n, R, J
<1>2. ub # <<>>
  <2>1. Len(ub) \in Nat /\ Len(ub) >= 1
    BY <1>1
  <2> QED BY <2>1
<1>3. ASSUME NEW k \in 1 .. Len(ub)
      PROVE  /\ RunOK(b[R(k)])
             /\ ub[k].seq \in ub[k].seqs /\ ub[k].seqs = b[R(k)].seqs
             /\ ub[k].seq = Min(b[R(k)].seqs)
             /\ ub[k].pos = b[R(k)].toks[J(k)].pos
  <2>1. RunOK(b[R(k)])
    BY <1>1 DEF LeftOK
  <2>2. Min(b[R(k)].seqs) \in b[R(k)].seqs
    BY <2>1, FirstSeq
  <2> QED BY <1>1, <2>1, <2>2, UbTokenIs
<1>4. ASSUME NEW k \in 1 .. Len(ub), NEW l \in 1 .. Len(ub), R(k) # R(l)
      PROVE  ub[k].seq # ub[l].seq /\ ub[k].seqs \cap ub[l].seqs = {}
  <2>1. b[R(k)].seqs \cap b[R(l)].seqs = {}
    BY <1>1, <1>4 DEF LeftOK
  <2>2. ub[k].seqs \cap ub[l].seqs = {}
    BY <1>3, <2>1
  <2> QED BY <1>3, <2>2
<1>5. ASSUME NEW k \in 1 .. Len(ub), NEW l \in 1 .. Len(ub), R(k) = R(l)
      PROVE  /\ ub[k].seq = ub[l].seq /\ ub[k].seqs = ub[l].seqs
             /\ k < l => ub[k].pos < ub[l].pos
             /\ ~JumpInside => ub[l].pos - ub[k].pos = l - k
             /\ \A m \in k .. l : ub[m].seq = ub[k].seq
  <2>1. ub[k].seq = ub[l].seq /\ ub[k].seqs = ub[l].seqs
    <3>1. ub[k].seq = Min(b[R(k)].seqs) /\ ub[k].seqs = b[R(k)].seqs
      BY <1>3
    <3>2. ub[l].seq = Min(b[R(l)].seqs) /\ ub[l].seqs = b[R(l)].seqs
      BY <1>3
    <3> QED BY <1>5, <3>1, <3>2
  <2>2. (k < l => J(k) < J(l)) /\ J(l) - J(k) = l - k
    BY <1>1, <1>5 DEF R, J, RunOf, InRun
  <2>3. /\ J(k) < J(l) => b[R(k)].toks[J(k)].pos < b[R(k)].toks[J(l)].pos
        /\ ~JumpInside => b[R(k)].toks[J(l)].pos - b[R(k)].toks[J(k)].pos = J(l) - J(k)
    <3>1. J(k) \in 1 .. Len(b[R(k)].toks) /\ J(l) \in 1 .. Len(b[R(k)].toks)
      BY <1>1, <1>5
    <3> QED BY <1>3, <3>1 DEF RunOK
  <2>4. ASSUME NEW m \in k .. l PROVE ub[m].seq = ub[k].seq
    <3>1. m \in 1 .. Len(ub)
      BY <1>1
    <3>2. R(m) = R(k)
      BY <1>1, <1>5, <3>1 DEF R, RunOf
    <3>3. ub[k].seq = Min(b[R(k)].seqs)
      BY <1>3
    <3>4. ub[m].seq = Min(b[R(m)].seqs)
      BY <1>3, <3>1
    <3> QED BY <3>2, <3>3, <3>4
  <2> QED BY <1>3, <1>5, <2>1, <2>2, <2>3, <2>4
<1> QED
  <2>1. \A k, l \in 1 .. Len(ub) :
          /\ ub[k].seq \in ub[k].seqs
          /\ ub[k].seq # ub[l].seq => ub[k].seqs \cap ub[l].seqs = {}
          /\ ub[k].seq = ub[l].seq =>
               /\ ub[k].seqs = ub[l].seqs
               /\ k < l => ub[k].pos < ub[l].pos
               /\ ~JumpInside => ub[l].pos - ub[k].pos = l - k
               /\ \A m \in k .. l : ub[m].seq = ub[k].seq
    BY <1>3, <1>4, <1>5
  <2> QED BY <1>1, <1>2, <2>1 DEF Grouped, ub

\* What a micro-batch leaves of a run.
LeftRun(x, n) == [x EXCEPT !.toks = SubSeq(@, n + 1, Len(@))]

LEMMA LeftRunIs ==
  ASSUME NEW x, RunOK(x), NEW n \in 0 .. Len(x.toks), NEW y, y = LeftRun(x, n)
  PROVE  /\ y \in RunType /\ y.seqs = x.seqs
         /\ x.toks \in Seq([tok : AnyToken, pos : 0 .. MaxPos])
         /\ y.toks \in Seq([tok : AnyToken, pos : 0 .. MaxPos])
         /\ Len(y.toks) = Len(x.toks) - n
         /\ \A k \in 1 .. Len(y.toks) : n + k \in 1 .. Len(x.toks) /\ y.toks[k] = x.toks[n + k]
         /\ y.toks # <<>> => RunOK(y)
<1>1. x \in RunType /\ x.toks \in Seq([tok : AnyToken, pos : 0 .. MaxPos]) /\ x.seqs \in SUBSET SeqId
  BY DEF RunOK, RunType
<1>2. y.seqs = x.seqs /\ y.toks = SubSeq(x.toks, n + 1, Len(x.toks))
      /\ y = [seqs |-> y.seqs, toks |-> y.toks]
  BY <1>1 DEF LeftRun, RunType
<1> DEFINE len == Len(x.toks)
<1>3. len \in Nat /\ n \in Nat /\ n <= len
  BY <1>1
<1> HIDE DEF len
<1>4. n + 1 \in 1 .. len + 1 /\ len \in (n + 1) - 1 .. len
  BY <1>3
<1>5. /\ SubSeq(x.toks, n + 1, len) \in Seq([tok : AnyToken, pos : 0 .. MaxPos])
      /\ Len(SubSeq(x.toks, n + 1, len)) = len - (n + 1) + 1
      /\ \A k \in 1 .. len - (n + 1) + 1 : SubSeq(x.toks, n + 1, len)[k] = x.toks[n + 1 + k - 1]
  BY <1>1, <1>4, Cut, ZenonT(60) DEF len
<1>6. /\ y.toks \in Seq([tok : AnyToken, pos : 0 .. MaxPos]) /\ Len(y.toks) = len - n
      /\ \A k \in 1 .. len - n : n + k \in 1 .. len /\ y.toks[k] = x.toks[n + k]
  <2>1. len - (n + 1) + 1 = len - n /\ \A k \in 1 .. len - n : n + 1 + k - 1 = n + k /\ n + k \in 1 .. len
    BY <1>3
  <2>2. y.toks = SubSeq(x.toks, n + 1, len)
    BY <1>2 DEF len
  <2> QED BY <1>5, <2>1, <2>2
<1>7. y \in RunType
  BY <1>1, <1>2, <1>6 DEF RunType
<1>8. ASSUME y.toks # <<>> PROVE RunOK(y)
  <2>1. \A k, l \in 1 .. len - n :
          /\ k < l => y.toks[k].pos < y.toks[l].pos
          /\ ~JumpInside => y.toks[l].pos - y.toks[k].pos = l - k
    <3> TAKE k, l \in 1 .. len - n
    <3>1. n + k \in 1 .. len /\ n + l \in 1 .. len /\ y.toks[k] = x.toks[n + k] /\ y.toks[l] = x.toks[n + l]
      BY <1>6
    <3>2. (k < l => n + k < n + l) /\ (n + l) - (n + k) = l - k
      BY <1>3
    <3>3. /\ n + k < n + l => x.toks[n + k].pos < x.toks[n + l].pos
          /\ ~JumpInside => x.toks[n + l].pos - x.toks[n + k].pos = (n + l) - (n + k)
      BY <3>1 DEF RunOK, len
    <3> QED BY <3>1, <3>2, <3>3
  <2> QED BY <1>2, <1>6, <1>7, <1>8, <2>1 DEF RunOK
<1> QED BY <1>1, <1>2, <1>6, <1>7, <1>8 DEF len

\* What a micro-batch leaves of a batch: runs of the same sequences, with tokens
\* that come after those it took.
RestFrom(b, n, R) ==
  /\ R \in Seq(RunType) /\ Len(R) <= 2
  /\ \A q \in 1 .. Len(R) :
       /\ RunOK(R[q])
       /\ \E r \in 1 .. Len(b) :
            /\ R[q].seqs = b[r].seqs
            /\ \A k \in 1 .. Len(R[q].toks) :
                 \E j \in 1 .. Len(b[r].toks) :
                   R[q].toks[k] = b[r].toks[j] /\ (r <= Len(Parts(b)) => j > n)
  /\ \A q, p \in 1 .. Len(R) : q # p => R[q].seqs \cap R[p].seqs = {}

LEMMA RestIs ==
  ASSUME NEW b, NEW c, LeftOK(b, c), b # <<>>, NEW n, n = Taken(b), NEW R, R = Rest(b)
  PROVE  /\ RestFrom(b, n, R)
         /\ R # <<>> => Total(R) = Total(b) - Len(NextUbatch(b))
<1> DEFINE m == Len(Parts(b))
           taken == [r \in DOMAIN b |->
                       IF r > m THEN b[r]
                       ELSE [b[r] EXCEPT !.toks = SubSeq(@, n + 1, Len(@))]]
           I == {r \in DOMAIN b : taken[r].toks # <<>>}
           len(r) == Len(b[r].toks)
<1>1. R = Picked(taken, I)
  BY DEF Rest
<1>2. /\ b \in Seq(RunType) /\ Len(b) \in 1 .. 2 /\ n \in Nat \ {0} /\ m \in 1 .. Len(b)
      /\ \A r \in 1 .. m : n <= Len(b[r].toks)
  BY TakenIs DEF LeftOK
<1>3. DOMAIN b = 1 .. Len(b)
  BY <1>2
<1>4. \A r \in 1 .. Len(b) : taken[r] = IF r > m THEN b[r] ELSE LeftRun(b[r], n)
  BY <1>3 DEF LeftRun
<1> HIDE DEF m
<1>5. ASSUME NEW r \in 1 .. Len(b)
      PROVE  /\ taken[r] \in RunType /\ taken[r].seqs = b[r].seqs
             /\ len(r) \in Nat /\ Len(taken[r].toks) = IF r > m THEN len(r) ELSE len(r) - n
             /\ taken[r].toks # <<>> <=> Len(taken[r].toks) >= 1
             /\ \A k \in 1 .. Len(taken[r].toks) :
                        \E j \in 1 .. Len(b[r].toks) :
                          taken[r].toks[k] = b[r].toks[j] /\ (r <= m => j > n)
             /\ taken[r].toks # <<>> => RunOK(taken[r])
  <2>0. RunOK(b[r]) /\ b[r] \in RunType /\ b[r].toks \in Seq([tok : AnyToken, pos : 0 .. MaxPos])
    BY DEF LeftOK, RunOK, RunType
  <2>1. CASE r > m
    <3>1. taken[r] = b[r]
      BY <1>4, <2>1
    <3>2. ~(r <= m)
      BY <1>2, <2>1
    <3> HIDE DEF taken
    <3> QED BY <2>0, <2>1, <3>1, <3>2
  <2>2. CASE ~(r > m)
    <3>1. taken[r] = LeftRun(b[r], n)
      BY <1>4, <2>2
    <3>2. r \in 1 .. m
      BY <1>2, <2>2
    <3>3. n \in 0 .. Len(b[r].toks)
      BY <1>2, <2>0, <3>2
    <3> HIDE DEF taken
    <3>4. /\ taken[r] \in RunType /\ taken[r].seqs = b[r].seqs
          /\ taken[r].toks \in Seq([tok : AnyToken, pos : 0 .. MaxPos])
          /\ Len(taken[r].toks) = Len(b[r].toks) - n
          /\ \A k \in 1 .. Len(taken[r].toks) : n + k \in 1 .. Len(b[r].toks) /\ taken[r].toks[k] = b[r].toks[n + k]
          /\ taken[r].toks # <<>> => RunOK(taken[r])
      BY <2>0, <3>1, <3>3, LeftRunIs, ZenonT(60)
    <3>5. taken[r].toks # <<>> <=> Len(taken[r].toks) >= 1
      BY <3>4
    <3>6. ASSUME NEW k \in 1 .. Len(taken[r].toks)
          PROVE  \E j \in 1 .. Len(b[r].toks) : taken[r].toks[k] = b[r].toks[j] /\ (r <= m => j > n)
      <4>1. n + k > n
        BY <1>2, <3>4
      <4> QED BY <3>4, <4>1
    <3>7. len(r) \in Nat
      BY <2>0
    <3>8. Len(taken[r].toks) = IF r > m THEN len(r) ELSE len(r) - n
      BY <2>2, <3>4
    <3> HIDE DEF len
    <3> QED BY <3>4, <3>5, <3>6, <3>7, <3>8
  <2> QED BY <2>1, <2>2
<1>6. taken \in Seq(RunType) /\ Len(taken) = Len(b)
  <2>1. taken = [r \in 1 .. Len(b) |-> taken[r]] /\ Len(b) \in Nat
    BY <1>2, <1>3
  <2> HIDE DEF taken
  <2> QED BY <1>5, <2>1
<1>7. I \in SUBSET (1 .. Len(taken))
  BY <1>3, <1>6
<1>8. \A r \in I : r \in 1 .. Len(b) /\ taken[r].toks # <<>>
  BY <1>3
<1>9. \A r \in 1 .. Len(b) : taken[r].toks # <<>> => r \in I
  BY <1>3
<1> HIDE DEF taken, I
<1>10. /\ R \in Seq(RunType) /\ Len(R) = Cardinality(I)
       /\ \A k \in 1 .. Len(R) :
            /\ Nth(I, k) \in I
            /\ R[k] = taken[Nth(I, k)]
            /\ \A l \in 1 .. Len(R) : k < l => Nth(I, k) < Nth(I, l)
       /\ \A i \in I : \E k \in 1 .. Len(R) : Nth(I, k) = i
  BY <1>1, <1>6, <1>7, PickedFrom
<1>11. Len(R) \in 0 .. 2
  <2>1. Len(R) \in Nat
    BY <1>10
  <2>2. ASSUME Len(R) > 2 PROVE FALSE
    <3>1. 1 \in 1 .. Len(R) /\ 2 \in 1 .. Len(R) /\ 3 \in 1 .. Len(R)
      BY <2>1, <2>2
    <3>2. /\ Nth(I, 1) \in 1 .. Len(b) /\ Nth(I, 2) \in 1 .. Len(b) /\ Nth(I, 3) \in 1 .. Len(b)
          /\ Nth(I, 1) < Nth(I, 2) /\ Nth(I, 2) < Nth(I, 3)
      BY <1>8, <1>10, <3>1
    <3> QED BY <1>2, <3>2
  <2>3. \A x : x \in Nat /\ ~(x > 2) => x \in 0 .. 2
    OBVIOUS
  <2> HIDE DEF len
  <2> QED BY <2>1, <2>2, <2>3
<1>12. ASSUME NEW q \in 1 .. Len(R)
       PROVE  /\ RunOK(R[q]) /\ Nth(I, q) \in 1 .. Len(b) /\ R[q].seqs = b[Nth(I, q)].seqs
              /\ \A k \in 1 .. Len(R[q].toks) :
                   \E j \in 1 .. Len(b[Nth(I, q)].toks) :
                      R[q].toks[k] = b[Nth(I, q)].toks[j] /\ (Nth(I, q) <= m => j > n)
  <2>1. Nth(I, q) \in 1 .. Len(b) /\ taken[Nth(I, q)].toks # <<>> /\ R[q] = taken[Nth(I, q)]
    BY <1>8, <1>10
  <2> QED BY <1>5, <2>1
<1>13. ASSUME NEW q \in 1 .. Len(R), NEW p \in 1 .. Len(R), q # p
       PROVE  R[q].seqs \cap R[p].seqs = {}
  <2>1. q < p \/ p < q
    BY <1>11, <1>13
  <2>2. Nth(I, q) \in 1 .. Len(b) /\ Nth(I, p) \in 1 .. Len(b) /\ Nth(I, q) # Nth(I, p)
    BY <1>8, <1>10, <2>1, SMTT(30)
  <2>3. b[Nth(I, q)].seqs \cap b[Nth(I, p)].seqs = {}
    BY <2>2 DEF LeftOK
  <2> QED BY <1>12, <2>3
<1>14. Len(NextUbatch(b)) = IF m = 1 THEN n ELSE 2 * n
  BY NextIs DEF m
<1>15. ASSUME R # <<>> PROVE Total(R) = Total(b) - Len(NextUbatch(b))
  <2>1. 1 \in 1 .. Len(R) /\ (Len(R) = 1 \/ Len(R) = 2)
    <3>1. Len(R) # 0
      BY <1>10, <1>15
    <3> QED BY <1>11, <3>1
  <2> DEFINE rest(r) == Len(taken[r].toks)
  <2>2. \A k \in 1 .. Len(R) : Len(R[k].toks) = rest(Nth(I, k)) /\ Nth(I, k) \in 1 .. Len(b)
    BY <1>8, <1>10
  <2>3. \A r \in 1 .. Len(b) : /\ len(r) \in Nat /\ rest(r) = IF r > m THEN len(r) ELSE len(r) - n
                               /\ (r \in I <=> rest(r) >= 1)
                               /\ (r <= m => n <= len(r))
    <3> TAKE r \in 1 .. Len(b)
    <3>1. r \in I <=> taken[r].toks # <<>>
      BY <1>8, <1>9
    <3>2. r <= m => r \in 1 .. m
      BY <1>2
    <3> QED BY <1>2, <1>5, <3>1, <3>2
  <2>4. Total(b) = len(1) + (IF Len(b) > 1 THEN len(2) ELSE 0)
    BY DEF Total
  <2>5. Total(R) = rest(Nth(I, 1)) + (IF Len(R) > 1 THEN rest(Nth(I, 2)) ELSE 0)
    <3>1. Len(R[1].toks) = rest(Nth(I, 1))
      BY <2>1, <2>2
    <3>2. CASE Len(R) = 1
      BY <3>1, <3>2 DEF Total
    <3>3. CASE Len(R) = 2
      <4>1. Len(R[2].toks) = rest(Nth(I, 2))
        BY <2>2, <3>3
      <4> QED BY <3>1, <3>3, <4>1 DEF Total
    <3> QED BY <2>1, <3>2, <3>3
  <2> HIDE DEF rest, len
  <2>6. CASE Len(b) = 1
    <3>1. m = 1 /\ \A x \in 1 .. Len(b) : x = 1
      BY <1>2, <2>6
    <3>2. Len(R) = 1
      <4>1. ASSUME Len(R) = 2 PROVE FALSE
        <5>1. 2 \in 1 .. Len(R)
          BY <4>1
        <5>2. Nth(I, 1) < Nth(I, 2) /\ Nth(I, 1) = 1 /\ Nth(I, 2) = 1
          BY <1>10, <2>1, <2>2, <3>1, <5>1
        <5> QED BY <5>2
      <4> QED BY <2>1, <4>1
    <3>3. Nth(I, 1) = 1
      BY <2>1, <2>2, <3>1
    <3>4. 1 \in 1 .. Len(b)
      BY <2>6
    <3> QED BY <1>2, <1>14, <2>3, <2>4, <2>5, <2>6, <3>1, <3>2, <3>3, <3>4
  <2>7. CASE Len(b) = 2
    <3>1. /\ (m = 1 \/ m = 2) /\ 1 \in 1 .. Len(b) /\ 2 \in 1 .. Len(b)
          /\ \A x \in 1 .. Len(b) : x = 1 \/ x = 2
      BY <1>2, <2>7
    <3>2. /\ len(1) \in Nat /\ len(2) \in Nat /\ rest(1) = len(1) - n /\ n <= len(1)
          /\ rest(2) = IF m = 1 THEN len(2) ELSE len(2) - n
          /\ (m = 2 => n <= len(2))
          /\ (1 \in I <=> rest(1) >= 1) /\ (2 \in I <=> rest(2) >= 1)
      BY <2>3, <3>1
    <3>3. CASE Len(R) = 2
      <4>1. Nth(I, 1) < Nth(I, 2) /\ 2 \in 1 .. Len(R)
        BY <1>10, <2>1, <3>3
      <4>2. Nth(I, 1) = 1 /\ Nth(I, 2) = 2
        BY <2>1, <2>2, <3>1, <4>1
      <4> QED BY <1>2, <1>14, <2>4, <2>5, <2>7, <3>1, <3>2, <3>3, <4>2
    <3>4. CASE Len(R) = 1
      <4>1. \A x \in I : x = Nth(I, 1)
        BY <1>10, <3>4
      <4>2. Nth(I, 1) \in I /\ (Nth(I, 1) = 1 \/ Nth(I, 1) = 2)
        BY <1>10, <2>1, <2>2, <3>1
      <4>3. Total(R) = rest(Nth(I, 1))
        BY <2>3, <2>5, <3>4, <2>2, <2>1, <3>1, <3>2, <4>2
      <4>4. CASE Nth(I, 1) = 1
        <5>1. 2 \notin I
          BY <4>1, <4>4
        <5> QED BY <1>2, <1>14, <2>4, <2>7, <3>1, <3>2, <4>3, <4>4, <5>1
      <4>5. CASE Nth(I, 1) = 2
        <5>1. 1 \notin I
          BY <4>1, <4>5
        <5> QED BY <1>2, <1>14, <2>4, <2>7, <3>1, <3>2, <4>3, <4>5, <5>1
      <4> QED BY <4>2, <4>4, <4>5
    <3> QED BY <2>1, <3>3, <3>4
  <2> QED BY <1>2, <2>6, <2>7
<1> QED
  <2>1. \A q \in 1 .. Len(R) :
          \E r \in 1 .. Len(b) :
             /\ R[q].seqs = b[r].seqs
             /\ \A k \in 1 .. Len(R[q].toks) :
                  \E j \in 1 .. Len(b[r].toks) :
                    R[q].toks[k] = b[r].toks[j] /\ (r <= m => j > n)
    BY <1>12
  <2>2. Len(R) <= 2
    <3>1. \A x : x \in 0 .. 2 => x <= 2
      OBVIOUS
    <3> QED BY <1>11, <3>1
  <2>3. RestFrom(b, n, R)
    BY <1>10, <1>12, <1>13, <2>1, <2>2 DEF m, RestFrom
  <2> QED BY <1>15, <2>3

-----------------------------------------------------------------------------
(* A micro-batch is put in the cells *)

\* The tokens of a micro-batch come after everything that is there, and they are
\* all that comes to the cells.
Ahead(ub, c) == \A k \in 1 .. Len(ub) : \A s \in ub[k].seqs : \A x \in Seen(c, s) : x[1] < ub[k].pos
Added(ub, c, d) ==
  \A s, x : x \in Seen(d, s)
              <=> \/ x \in Seen(c, s)
                  \/ \E k \in 1 .. Len(ub) : s \in ub[k].seqs /\ x = <<ub[k].pos, ub[k].tok>>

FreeIn(c) == {i \in Cell : c[i] = Free}

\* Free cells take the tokens; nothing else changes.
LEMMA PlacedIs ==
  ASSUME CellsOK(attn), NEW ub \in Seq(UbType), \A k \in 1 .. Len(ub) : ub[k].seqs # {},
         Len(ub) <= Cardinality(FreeCells), NEW d, d = Placed(attn, ub, Slot)
  PROVE  /\ CellsOK(d) /\ Added(ub, attn, d)
         /\ Cardinality(FreeIn(d)) = Cardinality(FreeCells) - Len(ub)
<1> DEFINE N == Len(ub)
           used == {Slot[k] : k \in DOMAIN ub}
           at(i) == CHOOSE k \in DOMAIN ub : Slot[k] = i
           gone(i) == {s \in attn[i].seq : \E j \in used : s \in attn[j].seq /\ attn[i].pos <= attn[j].pos}
<1>1. N \in Nat /\ DOMAIN ub = 1 .. N
  OBVIOUS
<1>2. /\ \A x \in FreeCells : x \in Int
      /\ IsFiniteSet(FreeCells) /\ FreeCells \in SUBSET Cell
  <2>1. IsFiniteSet(Cell)
    BY FS_Interval, ConfigAssumption DEF Cell
  <2>2. FreeCells \in SUBSET Cell
    BY DEF FreeCells
  <2>3. IsFiniteSet(FreeCells)
    BY <2>1, <2>2, FS_Subset
  <2>4. \A x \in Cell : x \in Int
    BY ConfigAssumption DEF Cell
  <2> QED BY <2>2, <2>3, <2>4
<1>3. N \in 0 .. Cardinality(FreeCells)
  <2>1. Cardinality(FreeCells) \in Nat
    BY <1>2, FS_CardinalityType
  <2> QED BY <1>1, <2>1
<1>4. \A k \in 1 .. N : Slot[k] = Nth(FreeCells, k)
  <2>1. Cardinality(FreeCells) \in Nat
    BY <1>2, FS_CardinalityType
  <2> QED BY <1>3, <2>1 DEF Slot, Ascending
<1>5. used = {Nth(FreeCells, k) : k \in 1 .. N}
  BY <1>1, <1>4
<1> HIDE DEF N
<1>6. /\ used \in SUBSET FreeCells
      /\ \A k, l \in 1 .. N : Nth(FreeCells, k) = Nth(FreeCells, l) => k = l
      /\ Cardinality(FreeCells \ used) = Cardinality(FreeCells) - N
  BY <1>2, <1>3, <1>5, NthFirst
<1>7. \A i \in used : attn[i] = Free /\ attn[i].seq = {}
  <2> HIDE DEF used
  <2>1. \A i \in FreeCells : attn[i] = Free
    BY DEF FreeCells
  <2>2. Free.seq = {}
    BY DEF Free
  <2> QED BY <1>6, <2>1, <2>2
<1>8. \A i \in Cell : gone(i) = {}
  BY <1>7
<1>9. d = [i \in Cell |->
             IF i \in used
             THEN [pos |-> ub[at(i)].pos, seq |-> ub[at(i)].seqs, tok |-> ub[at(i)].tok]
             ELSE IF attn[i].seq # {} /\ gone(i) = attn[i].seq THEN Free
             ELSE [attn[i] EXCEPT !.seq = @ \ gone(i)]]
  BY DEF Placed
<1>10. \A i \in used : at(i) \in 1 .. N /\ Slot[at(i)] = i
  BY <1>1
<1>11. ASSUME NEW k \in 1 .. N PROVE Slot[k] \in used /\ Slot[k] \in Cell /\ at(Slot[k]) = k
  <2>1. Slot[k] \in used
    BY <1>1
  <2>2. at(Slot[k]) \in 1 .. N /\ Slot[at(Slot[k])] = Slot[k]
    BY <1>10, <2>1
  <2> HIDE DEF at, used
  <2>3. at(Slot[k]) = k
    BY <1>4, <1>6, <2>2
  <2> QED BY <1>2, <1>6, <2>1, <2>3
<1>12. ASSUME NEW i \in Cell, i \notin used PROVE d[i] = attn[i]
  <2>0. attn[i] \in CellType
    BY DEF CellsOK
  <2>1. gone(i) = {}
    BY <1>8
  <2> HIDE DEF gone
  <2>2. d[i] = [attn[i] EXCEPT !.seq = @ \ {}]
    <3>1. d[i] = IF attn[i].seq # {} /\ gone(i) = attn[i].seq THEN Free
                 ELSE [attn[i] EXCEPT !.seq = @ \ gone(i)]
      BY <1>9, <1>12
    <3> QED BY <2>1, <3>1
  <2>3. attn[i].seq \ {} = attn[i].seq
    OBVIOUS
  <2> QED BY <2>0, <2>2, <2>3 DEF CellType
<1>13. ASSUME NEW k \in 1 .. N
       PROVE  d[Slot[k]] = [pos |-> ub[k].pos, seq |-> ub[k].seqs, tok |-> ub[k].tok]
  <2> HIDE DEF at, used, gone
  <2> QED BY <1>9, <1>11
<1>14. d = [i \in Cell |-> d[i]]
  BY <1>9
<1>15. \A i \in used : \E k \in 1 .. N : i = Slot[k]
  BY <1>1
<1> HIDE DEF at, used, gone
<1>16. \A k \in 1 .. N : ub[k] \in UbType
  BY DEF N
<1>17. ASSUME NEW k \in 1 .. N
       PROVE  /\ d[Slot[k]] \in CellType /\ d[Slot[k]].seq = ub[k].seqs /\ ub[k].seqs # {}
              /\ d[Slot[k]].pos = ub[k].pos /\ d[Slot[k]].tok = ub[k].tok
              /\ ub[k].pos \in 0 .. MaxPos /\ ub[k].tok \in AnyToken
  <2>1. ub[k].seqs \in SUBSET SeqId /\ ub[k].pos \in 0 .. MaxPos /\ ub[k].tok \in AnyToken
    BY <1>16 DEF UbType
  <2>2. ub[k].pos \in Int
    BY <2>1, ConfigAssumption
  <2>3. [pos |-> ub[k].pos, seq |-> ub[k].seqs, tok |-> ub[k].tok] \in CellType
    BY <2>1, <2>2 DEF CellType
  <2> QED BY <1>13, <2>1, <2>3 DEF N
<1>18. CellsOK(d)
  <2>1. ASSUME NEW i \in Cell
        PROVE  /\ d[i] \in CellType
               /\ IF d[i].seq = {} THEN d[i] = Free ELSE d[i].pos \in 0 .. MaxPos /\ d[i].tok \in AnyToken
    <3>1. CASE i \in used
      <4>1. PICK k \in 1 .. N : i = Slot[k]
        BY <1>15, <3>1
      <4> QED BY <1>17, <4>1
    <3>2. CASE i \notin used
      BY <1>12, <3>2 DEF CellsOK
    <3> QED BY <3>1, <3>2
  <2> QED BY <1>14, <2>1 DEF CellsOK
<1>19. ASSUME NEW s, NEW x
       PROVE  x \in Seen(d, s)
                <=> \/ x \in Seen(attn, s)
                    \/ \E k \in 1 .. N : s \in ub[k].seqs /\ x = <<ub[k].pos, ub[k].tok>>
  <2>1. ASSUME x \in Seen(d, s)
        PROVE  \/ x \in Seen(attn, s)
               \/ \E k \in 1 .. N : s \in ub[k].seqs /\ x = <<ub[k].pos, ub[k].tok>>
    <3>1. PICK i \in Cell : s \in d[i].seq /\ x = <<d[i].pos, d[i].tok>>
      BY <1>18, <2>1, SeenIs
    <3>2. CASE i \in used
      <4>1. PICK k \in 1 .. N : i = Slot[k]
        BY <1>15, <3>2
      <4> QED BY <1>17, <3>1, <4>1
    <3>3. CASE i \notin used
      <4>1. d[i] = attn[i]
        BY <1>12, <3>3
      <4> QED BY <3>1, <4>1, SeenIs
    <3> QED BY <3>2, <3>3
  <2>2. ASSUME x \in Seen(attn, s) PROVE x \in Seen(d, s)
    <3>1. PICK i \in Cell : s \in attn[i].seq /\ x = <<attn[i].pos, attn[i].tok>>
      BY <2>2, SeenIs
    <3>2. d[i] = attn[i]
      BY <1>7, <1>12, <3>1
    <3> QED BY <1>18, <3>1, <3>2, SeenIs
  <2>3. ASSUME NEW k \in 1 .. N, s \in ub[k].seqs, x = <<ub[k].pos, ub[k].tok>>
        PROVE  x \in Seen(d, s)
    <3>1. Slot[k] \in Cell /\ s \in d[Slot[k]].seq /\ x = <<d[Slot[k]].pos, d[Slot[k]].tok>>
      BY <1>11, <1>17, <2>3
    <3> QED BY <1>18, <3>1, SeenIs
  <2> QED BY <2>1, <2>2, <2>3
<1>20. FreeIn(d) = FreeCells \ used
  <2>1. ASSUME NEW i \in Cell PROVE d[i] = Free <=> i \in FreeCells /\ i \notin used
    <3>1. CASE i \in used
      <4>1. PICK k \in 1 .. N : i = Slot[k]
        BY <1>15, <3>1
      <4>2. d[i].seq # {}
        BY <1>17, <4>1
      <4> QED BY <3>1, <4>2 DEF Free
    <3>2. CASE i \notin used
      BY <1>12, <3>2 DEF FreeCells
    <3> QED BY <3>1, <3>2
  <2> QED BY <1>2, <2>1 DEF FreeIn
<1>21. Added(ub, attn, d)
  BY <1>19 DEF Added, N
<1> QED BY <1>6, <1>18, <1>20, <1>21 DEF N

LEMMA NextAhead ==
  ASSUME NEW b, NEW c, LeftOK(b, c), b # <<>>
  PROVE  /\ Ahead(NextUbatch(b), c)
         /\ \A k \in 1 .. Len(NextUbatch(b)) : NextUbatch(b)[k].seqs \in SeqSets
<1> DEFINE ub == NextUbatch(b)
           n == Taken(b)
           R(k) == RunOf(n, k)
           J(k) == InRun(n, k)
<1>1. /\ n \in Nat \ {0} /\ ub \in Seq(UbType) /\ n <= Len(ub)
      /\ \A k \in 1 .. Len(ub) :
           /\ R(k) \in 1 .. Len(b)
           /\ J(k) \in 1 .. n /\ J(k) \in 1 .. Len(b[R(k)].toks)
           /\ ub[k] = UbToken(b[R(k)], J(k))
  <2>1. UbFrom(b, n, ub)
    BY UbIs
  <2> HIDE DEF ub, n
  <2> QED BY <2>1 DEF UbFrom
<1> HIDE DEF ub, n, R, J
<1>2. ASSUME NEW k \in 1 .. Len(ub)
      PROVE  /\ ub[k].seqs \in SeqSets
             /\ \A s \in ub[k].seqs : \A x \in Seen(c, s) : x[1] < ub[k].pos
  <2>1. PICK r \in 1 .. Len(b) : r = R(k)
    BY <1>1
  <2>2. PICK j \in 1 .. Len(b[r].toks) : j = J(k)
    BY <1>1, <2>1
  <2>3. ub[k].seqs = b[r].seqs /\ ub[k].pos = b[r].toks[j].pos
    BY <1>1, <2>1, <2>2, UbTokenIs
  <2>4. RunOK(b[r]) /\ \A s \in b[r].seqs : Follows(Seen(c, s), b[r].toks)
    BY DEF LeftOK
  <2>5. b[r].seqs \in SeqSets
    BY <2>4 DEF RunOK
  <2>6. \A s \in b[r].seqs : \A x \in Seen(c, s) : x[1] < b[r].toks[j].pos
    BY <2>4 DEF Follows
  <2> QED BY <2>3, <2>5, <2>6
<1> QED BY <1>2 DEF Ahead, ub

\* Two tokens of a micro-batch with a sequence in common are of the same run.
LEMMA SameRun ==
  ASSUME NEW ub, Grouped(ub), NEW k \in 1 .. Len(ub), NEW l \in 1 .. Len(ub),
         NEW s, s \in ub[k].seqs, s \in ub[l].seqs
  PROVE  ub[k].seq = ub[l].seq /\ ub[k].seqs = ub[l].seqs
BY DEF Grouped

LEMMA AddedStored ==
  ASSUME NEW ub, Grouped(ub), NEW c, NEW d, CellsOK(c), CellsOK(d), Ahead(ub, c), Added(ub, c, d)
  PROVE  /\ Stored(ub, d)
         /\ \A s : OneToken(Seen(c, s)) => OneToken(Seen(d, s))
<1>1. ASSUME NEW k \in 1 .. Len(ub), NEW s \in ub[k].seqs
      PROVE  /\ <<ub[k].pos, ub[k].tok>> \in Seen(d, s)
             /\ \A x \in Seen(d, s) :
                  x[1] < ub[k].pos \/ \E l \in 1 .. Len(ub) : ub[l].seq = ub[k].seq /\ x = <<ub[l].pos, ub[l].tok>>
  <2>1. <<ub[k].pos, ub[k].tok>> \in Seen(d, s)
    BY DEF Added
  <2>2. ASSUME NEW x \in Seen(d, s)
        PROVE  x[1] < ub[k].pos \/ \E l \in 1 .. Len(ub) : ub[l].seq = ub[k].seq /\ x = <<ub[l].pos, ub[l].tok>>
    <3>1. CASE x \in Seen(c, s)
      BY <3>1 DEF Ahead
    <3>2. ASSUME NEW l \in 1 .. Len(ub), s \in ub[l].seqs, x = <<ub[l].pos, ub[l].tok>>
          PROVE  ub[l].seq = ub[k].seq
      BY <3>2, SameRun
    <3> QED BY <3>1, <3>2 DEF Added
  <2> QED BY <2>1, <2>2
<1>2. ASSUME NEW s, OneToken(Seen(c, s)) PROVE OneToken(Seen(d, s))
  <2>1. \A x \in Seen(d, s) : x[1] \in Int
    BY SeenIs, ConfigAssumption
  <2>2. ASSUME NEW x \in Seen(c, s), NEW k \in 1 .. Len(ub), s \in ub[k].seqs
        PROVE  x[1] # ub[k].pos
    <3>1. x[1] \in Int /\ x[1] < ub[k].pos
      BY <2>2, SeenIs DEF Ahead
    <3>2. ub[k].pos \in Int
      BY GroupPos
    <3> QED BY <3>1, <3>2
  <2>3. ASSUME NEW k \in 1 .. Len(ub), NEW l \in 1 .. Len(ub), s \in ub[k].seqs, s \in ub[l].seqs,
               ub[k].pos = ub[l].pos
        PROVE  k = l
    <3>1. ub[k].seq = ub[l].seq
      BY <2>3, SameRun
    <3>2. ub[k].pos \in Int /\ ub[l].pos \in Int
      BY GroupPos
    <3>3. /\ k < l => ub[k].pos < ub[l].pos
          /\ l < k => ub[l].pos < ub[k].pos
      BY <3>1 DEF Grouped
    <3> QED BY <2>3, <3>2, <3>3
  <2>4. ASSUME NEW x \in Seen(d, s), NEW y \in Seen(d, s), x[1] = y[1] PROVE x = y
    <3>1. CASE x \in Seen(c, s) /\ y \in Seen(c, s)
      BY <1>2, <2>4, <3>1 DEF OneToken
    <3>2. CASE x \in Seen(c, s) /\ y \notin Seen(c, s)
      <4>1. PICK k \in 1 .. Len(ub) : s \in ub[k].seqs /\ y = <<ub[k].pos, ub[k].tok>>
        BY <3>2 DEF Added
      <4>2. y[1] = ub[k].pos
        BY <4>1
      <4> QED BY <2>2, <2>4, <3>2, <4>1, <4>2
    <3>3. CASE x \notin Seen(c, s) /\ y \in Seen(c, s)
      <4>1. PICK k \in 1 .. Len(ub) : s \in ub[k].seqs /\ x = <<ub[k].pos, ub[k].tok>>
        BY <3>3 DEF Added
      <4>2. x[1] = ub[k].pos
        BY <4>1
      <4> QED BY <2>2, <2>4, <3>3, <4>1, <4>2
    <3>4. CASE x \notin Seen(c, s) /\ y \notin Seen(c, s)
      <4>1. PICK k \in 1 .. Len(ub) : s \in ub[k].seqs /\ x = <<ub[k].pos, ub[k].tok>>
        BY <3>4 DEF Added
      <4>2. PICK l \in 1 .. Len(ub) : s \in ub[l].seqs /\ y = <<ub[l].pos, ub[l].tok>>
        BY <3>4 DEF Added
      <4>3. ub[k].pos = ub[l].pos
        BY <2>4, <4>1, <4>2
      <4> QED BY <2>3, <4>1, <4>2, <4>3
    <3> QED BY <3>1, <3>2, <3>3, <3>4
  <2> QED BY <2>4 DEF OneToken
<1> QED BY <1>1, <1>2 DEF Stored

\* The states move to the last position of their sequences.
LEMMA AdvancedEnds ==
  ASSUME Stores, NEW ub, Grouped(ub), NEW d, CellsOK(d), Ahead(ub, attn), Added(ub, attn, d)
  PROVE  Advanced(ub) \in SUBSET StateType /\ EndsMatch(d, Advanced(ub))
<1> DEFINE sets == {ub[k].seqs : k \in DOMAIN ub}
           all == UNION sets
           R == Without(recr, all)
           New == {[pos |-> LastPos(ub, S), seq |-> S] : S \in sets}
<1>1. /\ ub \in Seq(UbType) /\ DOMAIN ub = 1 .. Len(ub) /\ Len(ub) \in Nat
      /\ MaxPos \in Nat /\ recr \in SUBSET StateType
  BY ConfigAssumption DEF Grouped, Stores
<1>2. \A k \in 1 .. Len(ub) : ub[k].seqs \in SUBSET SeqId /\ ub[k].pos \in 0 .. MaxPos /\ ub[k].seq \in ub[k].seqs
  BY GroupPos
<1>3. all \in SUBSET SeqId
  BY <1>1, <1>2
<1>4. /\ \A s : s \in all <=> \E k \in 1 .. Len(ub) : s \in ub[k].seqs
      /\ \A S \in sets : \E k \in 1 .. Len(ub) : S = ub[k].seqs
      /\ \A k \in 1 .. Len(ub) : ub[k].seqs \in sets
  BY <1>1
<1>5. Advanced(ub) = R \cup New
  BY DEF Advanced
<1>6. ASSUME NEW k \in 1 .. Len(ub)
      PROVE  /\ LastPos(ub, ub[k].seqs) \in 0 .. MaxPos
             /\ \A l \in 1 .. Len(ub) : ub[l].seqs = ub[k].seqs => ub[l].pos <= LastPos(ub, ub[k].seqs)
             /\ \E l \in 1 .. Len(ub) : ub[l].seqs = ub[k].seqs /\ ub[l].pos = LastPos(ub, ub[k].seqs)
  <2> DEFINE P == {ub[l].pos : l \in {i \in DOMAIN ub : ub[i].seqs = ub[k].seqs}}
  <2>1. \A x \in P : x \in Int /\ x <= MaxPos /\ \E l \in 1 .. Len(ub) : ub[l].seqs = ub[k].seqs /\ ub[l].pos = x
    BY <1>1, <1>2
  <2>2. \A l \in 1 .. Len(ub) : ub[l].seqs = ub[k].seqs => ub[l].pos \in P
    BY <1>1
  <2>3. P # {}
    BY <2>2
  <2>4. LastPos(ub, ub[k].seqs) = Max(P)
    BY DEF LastPos
  <2> HIDE DEF P
  <2>5. Max(P) \in P /\ \A x \in P : x <= Max(P)
    BY <1>1, <2>1, <2>3, MaxUpTo
  <2> QED BY <1>2, <2>1, <2>2, <2>4, <2>5
<1> HIDE DEF sets, all
<1>7. R \in SUBSET StateType
  BY <1>1, <1>3, TailWithout
<1>8. \A r \in New : \E k \in 1 .. Len(ub) : r.seq = ub[k].seqs /\ r.pos = LastPos(ub, ub[k].seqs) /\ r \in StateType
  <2> TAKE r \in New
  <2>1. PICK S \in sets : r = [pos |-> LastPos(ub, S), seq |-> S]
    OBVIOUS
  <2>2. PICK k \in 1 .. Len(ub) : S = ub[k].seqs
    BY <1>4
  <2>3. r.seq = ub[k].seqs /\ r.pos = LastPos(ub, ub[k].seqs) /\ r \in StateType
    BY <1>2, <1>6, <2>1, <2>2 DEF StateType
  <2> QED BY <2>3
<1>9. \A k \in 1 .. Len(ub) : \E r \in New : r.seq = ub[k].seqs /\ r.pos = LastPos(ub, ub[k].seqs)
  <2> TAKE k \in 1 .. Len(ub)
  <2> DEFINE r == [pos |-> LastPos(ub, ub[k].seqs), seq |-> ub[k].seqs]
  <2>1. r \in New
    BY <1>4
  <2>2. r.seq = ub[k].seqs /\ r.pos = LastPos(ub, ub[k].seqs)
    OBVIOUS
  <2> QED BY <2>1, <2>2
<1> HIDE DEF R, New
<1>10. ASSUME NEW s \in SeqId, s \notin all
       PROVE  \E p \in -1 .. MaxPos : EndOf(Seen(d, s), p) /\ TailAt(Advanced(ub), s, p)
  <2>1. PICK p \in -1 .. MaxPos : EndOf(Seen(attn, s), p) /\ TailAt(recr, s, p)
    BY DEF Stores, EndsMatch
  <2>2. \A x : x \in Seen(d, s) <=> x \in Seen(attn, s)
    BY <1>4, <1>10 DEF Added
  <2>3. EndOf(Seen(d, s), p)
    BY <2>1, <2>2 DEF EndOf
  <2>4. TailAt(R, s, p)
    BY <1>1, <1>3, <1>10, <2>1, TailWithout DEF R
  <2>5. \A r \in New : s \notin r.seq
    BY <1>4, <1>8, <1>10
  <2>6. TailAt(Advanced(ub), s, p)
    BY <1>5, <2>4, <2>5 DEF TailAt
  <2> QED BY <2>3, <2>6
<1>11. ASSUME NEW s \in SeqId, s \in all
       PROVE  \E p \in -1 .. MaxPos : EndOf(Seen(d, s), p) /\ TailAt(Advanced(ub), s, p)
  <2>1. PICK k \in 1 .. Len(ub) : s \in ub[k].seqs
    BY <1>4, <1>11
  <2> DEFINE p == LastPos(ub, ub[k].seqs)
  <2>2. p \in 0 .. MaxPos /\ p \in -1 .. MaxPos
    BY <1>1, <1>6
  <2>3. \A x \in Seen(d, s) : x[1] <= p
    <3> TAKE x \in Seen(d, s)
    <3>1. CASE x \in Seen(attn, s)
      <4>0. CellsOK(attn) /\ x[1] < ub[k].pos
        BY <2>1, <3>1 DEF Ahead, Stores
      <4>1. x[1] < ub[k].pos /\ ub[k].pos <= p /\ x[1] \in Int
        <5>1. x[1] \in 0 .. MaxPos
          BY <3>1, <4>0, SeenIs
        <5>2. x[1] \in Int
          BY <1>1, <5>1
        <5>3. ub[k].pos <= p
          BY <1>6
        <5> QED BY <4>0, <5>2, <5>3
      <4>2. ub[k].pos \in Int /\ p \in Int
        BY <1>1, <1>2, <2>2
      <4> QED BY <4>1, <4>2
    <3>2. ASSUME NEW l \in 1 .. Len(ub), s \in ub[l].seqs, x = <<ub[l].pos, ub[l].tok>>
          PROVE  x[1] <= p
      <4>1. ub[l].seqs = ub[k].seqs
        BY <2>1, <3>2, SameRun
      <4>2. ub[l].pos <= p
        BY <1>6, <4>1
      <4> QED BY <3>2, <4>2
    <3> QED BY <3>1, <3>2 DEF Added
  <2>4. \E x \in Seen(d, s) : x[1] = p
    <3>1. PICK l \in 1 .. Len(ub) : ub[l].seqs = ub[k].seqs /\ ub[l].pos = p
      BY <1>6
    <3>2. <<ub[l].pos, ub[l].tok>> \in Seen(d, s)
      BY <2>1, <3>1 DEF Added
    <3>3. <<ub[l].pos, ub[l].tok>>[1] = p
      BY <3>1
    <3> QED BY <3>2, <3>3
  <2>5. \A r \in R : s \notin r.seq
    <3>1. TailAt(R, s, -1)
      <4>1. -1 \in -1 .. MaxPos
        BY <1>1
      <4> QED BY <1>1, <1>3, <1>11, <4>1, TailWithout DEF R
    <3>2. \A r \in R : r.pos \in 0 .. MaxPos
      BY <1>7 DEF StateType
    <3> QED BY <1>1, <3>1, <3>2 DEF TailAt
  <2>6. \A r \in New : s \in r.seq => r.pos = p
    <3> TAKE r \in New
    <3> HAVE s \in r.seq
    <3>1. PICK l \in 1 .. Len(ub) : r.seq = ub[l].seqs /\ r.pos = LastPos(ub, ub[l].seqs)
      BY <1>8
    <3>2. ub[l].seqs = ub[k].seqs
      BY <2>1, <3>1, SameRun
    <3> QED BY <3>1, <3>2
  <2>7. \E r \in New : s \in r.seq
    BY <1>9, <2>1
  <2> HIDE DEF p
  <2>8. TailAt(Advanced(ub), s, p)
    BY <1>5, <2>5, <2>6, <2>7 DEF TailAt
  <2>9. EndOf(Seen(d, s), p)
    BY <2>3, <2>4 DEF EndOf
  <2> QED BY <2>2, <2>8, <2>9
<1>12. Advanced(ub) \in SUBSET StateType
  BY <1>5, <1>7, <1>8
<1> QED BY <1>10, <1>11, <1>12 DEF EndsMatch

\* A micro-batch has no more tokens than the batch.
LEMMA UbTotal ==
  ASSUME NEW b, NEW c, LeftOK(b, c), b # <<>>
  PROVE  /\ Len(NextUbatch(b)) \in Nat /\ Total(b) \in Nat
         /\ Len(NextUbatch(b)) <= Total(b)
<1> DEFINE n == Taken(b)
           m == Len(Parts(b))
           len(r) == Len(b[r].toks)
<1>1. /\ n \in Nat \ {0} /\ Len(b) \in 1 .. 2 /\ m \in 1 .. Len(b)
      /\ \A r \in 1 .. m : n <= len(r)
  BY TakenIs
<1>2. Len(NextUbatch(b)) = IF m = 1 THEN n ELSE 2 * n
  BY NextIs
<1>3. \A r \in 1 .. Len(b) : len(r) \in Nat
  <2> TAKE r \in 1 .. Len(b)
  <2>1. RunOK(b[r])
    BY DEF LeftOK
  <2> QED BY <2>1 DEF RunOK, RunType
<1>4. Total(b) = len(1) + (IF Len(b) > 1 THEN len(2) ELSE 0)
  BY DEF Total
<1> HIDE DEF n, m, len
<1>5. CASE Len(b) = 1
  <2>1. m = 1 /\ 1 \in 1 .. Len(b) /\ 1 \in 1 .. m
    BY <1>1, <1>5
  <2>2. len(1) \in Nat /\ n <= len(1)
    BY <1>1, <1>3, <2>1
  <2> QED BY <1>1, <1>2, <1>4, <1>5, <2>1, <2>2
<1>6. CASE Len(b) = 2
  <2>1. (m = 1 \/ m = 2) /\ 1 \in 1 .. Len(b) /\ 2 \in 1 .. Len(b) /\ 1 \in 1 .. m
    BY <1>1, <1>6
  <2>2. len(1) \in Nat /\ len(2) \in Nat /\ n <= len(1)
    BY <1>1, <1>3, <2>1
  <2>3. m = 2 => n <= len(2)
    BY <1>1
  <2> QED BY <1>1, <1>2, <1>4, <1>6, <2>1, <2>2, <2>3
<1> QED BY <1>1, <1>5, <1>6

\* What is left of the batch goes on after the micro-batch, and has room.
LEMMA RestOK ==
  ASSUME NEW b, NEW c, LeftOK(b, c), b # <<>>, NEW ub, ub = NextUbatch(b),
         NEW d, CellsOK(d), Added(ub, c, d),
         Cardinality(FreeIn(d)) = Cardinality(FreeIn(c)) - Len(ub),
         Cardinality(FreeIn(c)) \in Nat
  PROVE  LeftOK(Rest(b), d)
<1> DEFINE n == Taken(b)
           R == Rest(b)
           RR(k) == RunOf(n, k)
           J(k) == InRun(n, k)
<1>0. n = Taken(b) /\ R = Rest(b) /\ \A k : RR(k) = RunOf(n, k) /\ J(k) = InRun(n, k)
  OBVIOUS
<1> HIDE DEF n, R, RR, J
<1>1. /\ R \in Seq(RunType) /\ Len(R) <= 2
      /\ \A q \in 1 .. Len(R) :
           /\ RunOK(R[q])
           /\ \E r \in 1 .. Len(b) :
                /\ R[q].seqs = b[r].seqs
                /\ \A k \in 1 .. Len(R[q].toks) :
                     \E j \in 1 .. Len(b[r].toks) :
                       R[q].toks[k] = b[r].toks[j] /\ (r <= Len(Parts(b)) => j > n)
      /\ \A q, p \in 1 .. Len(R) : q # p => R[q].seqs \cap R[p].seqs = {}
      /\ R # <<>> => Total(R) = Total(b) - Len(ub)
  <2>1. RestFrom(b, n, R) /\ (R # <<>> => Total(R) = Total(b) - Len(ub))
    BY <1>0, RestIs
  <2> QED BY <2>1 DEF RestFrom
<1>2. /\ n \in Nat \ {0} /\ ub \in Seq(UbType) /\ n <= Len(ub)
      /\ \A k \in 1 .. Len(ub) :
           /\ RR(k) \in 1 .. Len(b) /\ RR(k) <= Len(Parts(b))
           /\ J(k) \in 1 .. n /\ J(k) \in 1 .. Len(b[RR(k)].toks)
           /\ ub[k] = UbToken(b[RR(k)], J(k))
  <2>1. UbFrom(b, n, ub)
    BY <1>0, UbIs
  <2> QED BY <2>1 DEF UbFrom, RR, J
<1>3. ASSUME NEW q \in 1 .. Len(R), NEW s \in R[q].seqs PROVE Follows(Seen(d, s), R[q].toks)
  <2>1. PICK r \in 1 .. Len(b) :
          /\ R[q].seqs = b[r].seqs
          /\ \A k \in 1 .. Len(R[q].toks) :
               \E j \in 1 .. Len(b[r].toks) :
                 R[q].toks[k] = b[r].toks[j] /\ (r <= Len(Parts(b)) => j > n)
    BY <1>1
  <2>2. RunOK(b[r]) /\ Follows(Seen(c, s), b[r].toks)
    BY <2>1 DEF LeftOK
  <2>3. ASSUME NEW x \in Seen(d, s), NEW k \in 1 .. Len(R[q].toks)
        PROVE  x[1] < R[q].toks[k].pos
    <3>1. PICK j \in 1 .. Len(b[r].toks) : R[q].toks[k] = b[r].toks[j] /\ (r <= Len(Parts(b)) => j > n)
      BY <2>1
    <3>2. CASE x \in Seen(c, s)
      BY <2>2, <3>1, <3>2 DEF Follows
    <3>3. ASSUME NEW l \in 1 .. Len(ub), s \in ub[l].seqs, x = <<ub[l].pos, ub[l].tok>>
          PROVE  x[1] < R[q].toks[k].pos
      <4>1. PICK t \in 1 .. Len(b) : t = RR(l)
        BY <1>2
      <4>2. PICK i \in 1 .. Len(b[t].toks) : i = J(l) /\ i \in 1 .. n /\ t <= Len(Parts(b))
        BY <1>2, <4>1
      <4>3. ub[l].seqs = b[t].seqs /\ ub[l].pos = b[t].toks[i].pos
        <5>1. ub[l] = UbToken(b[t], i)
          BY <1>2, <4>1, <4>2
        <5> QED BY <5>1, UbTokenIs, SMTT(30)
      <4>4. t = r
        <5>1. s \in b[t].seqs /\ s \in b[r].seqs
          BY <2>1, <3>3, <4>3
        <5> QED BY <5>1 DEF LeftOK
      <4>5. j > n
        BY <3>1, <4>2, <4>4
      <4>6. i < j
        <5>1. i \in Int /\ i <= n /\ n \in Int
          BY <1>2, <4>2
        <5>2. j \in Int
          OBVIOUS
        <5> QED BY <4>5, <5>1, <5>2
      <4>7. b[r].toks[i].pos < b[r].toks[j].pos
        <5>1. i \in 1 .. Len(b[r].toks)
          BY <4>4
        <5> QED BY <2>2, <4>6, <5>1 DEF RunOK
      <4>8. x[1] = b[r].toks[i].pos
        BY <3>3, <4>3, <4>4
      <4> QED BY <3>1, <4>7, <4>8
    <3> QED BY <3>2, <3>3 DEF Added
  <2> QED BY <2>3 DEF Follows
<1>4. ASSUME R # <<>> PROVE Total(R) <= Cardinality(FreeIn(d))
  <2> DEFINE was == Cardinality(FreeIn(c))
             is  == Cardinality(FreeIn(d))
  <2>1. Total(b) <= was
    BY DEF LeftOK, FreeIn
  <2>2. Total(R) = Total(b) - Len(ub) /\ is = was - Len(ub) /\ was \in Nat
    BY <1>0, <1>1, <1>4
  <2>3. Len(ub) \in Nat
    BY <1>2
  <2>4. Total(b) \in Int
    <3>1. Len(b) \in 1 .. 2
      BY TakenIs
    <3>2. \A r \in 1 .. Len(b) : Len(b[r].toks) \in Nat
      <4> TAKE r \in 1 .. Len(b)
      <4>1. RunOK(b[r])
        BY DEF LeftOK
      <4> QED BY <4>1 DEF RunOK, RunType
    <3>3. CASE Len(b) = 1
      BY <3>2, <3>3 DEF Total
    <3>4. CASE Len(b) = 2
      BY <3>2, <3>4 DEF Total
    <3> QED BY <3>1, <3>3, <3>4
  <2> HIDE DEF was, is
  <2>5. Total(R) <= is
    BY <2>1, <2>2, <2>3, <2>4
  <2> QED BY <2>5 DEF is
<1> QED
  <2>1. \A q \in 1 .. Len(R) : RunOK(R[q]) /\ \A s \in R[q].seqs : Follows(Seen(d, s), R[q].toks)
    BY <1>1, <1>3
  <2> QED BY <1>0, <1>1, <1>4, <2>1 DEF LeftOK, FreeIn

\* A sequence that is still among the appended ones shares its tokens with none.
LEMMA AloneIs ==
  ASSUME NEW ub, Grouped(ub), \A k \in 1 .. Len(ub) : ub[k].seqs \in SeqSets,
         NEW A, NEW B,
         B = A \ UNION {S \in SeqSets : Cardinality(S) > 1 /\ \E k \in DOMAIN ub : ub[k].seqs = S}
  PROVE  Alone(ub, B)
<1>1. SUFFICES ASSUME NEW k \in 1 .. Len(ub), NEW s \in B, s \in ub[k].seqs
               PROVE  s = ub[k].seq
  BY DEF Alone
<1> DEFINE S == ub[k].seqs
<1>2. S \in SeqSets /\ ub[k].seq \in S /\ S \in SUBSET SeqId /\ DOMAIN ub = 1 .. Len(ub)
  BY <1>1, GroupPos DEF Grouped
<1>3. ~(Cardinality(S) > 1)
  BY <1>1, <1>2
<1>4. IsFiniteSet(S)
  BY <1>2, ConfigAssumption, FS_Subset
<1>5. Cardinality(S) \in Nat /\ Cardinality(S) # 0
  BY <1>2, <1>4, FS_CardinalityType, FS_EmptySet
<1>6. Cardinality(S) = 1
  BY <1>3, <1>5
<1>7. PICK x : S = {x}
  BY <1>4, <1>6, FS_Singleton
<1> QED BY <1>1, <1>2, <1>7

LEMMA ApplyKeeps == IInv /\ ApplyUbatch => IInv'
<1> SUFFICES ASSUME IInv, ApplyUbatch PROVE IInv'
  OBVIOUS
<1> DEFINE ub == NextUbatch(left)
<1>1. /\ pc = "ubatch" /\ pc' = "inputs"
      /\ attn' = Placed(attn, ub, Slot) /\ idx' = Placed(idx, ub, Slot)
      /\ recr' = Advanced(ub) /\ ubatch' = ub /\ left' = Rest(left) /\ hist' = hist
      /\ appended' = appended \ UNION {S \in SeqSets : Cardinality(S) > 1 /\
                                            \E k \in DOMAIN ub : ub[k].seqs = S}
  BY DEF ApplyUbatch
<1>2. /\ Stores /\ CellsOK(attn) /\ idx = attn /\ LeftOK(left, attn) /\ left # <<>>
      /\ appended \in SUBSET SeqId
  BY <1>1 DEF IInv, Stores, Steps, Histories
<1>3. Grouped(ub)
  BY <1>2, NextGrouped
<1>4. Ahead(ub, attn) /\ \A k \in 1 .. Len(ub) : ub[k].seqs \in SeqSets
  BY <1>2, NextAhead
<1>5. FreeCells = FreeIn(attn) /\ Cardinality(FreeCells) \in Nat
  <2>1. IsFiniteSet(Cell)
    BY FS_Interval, ConfigAssumption DEF Cell
  <2>2. FreeCells \in SUBSET Cell
    BY DEF FreeCells
  <2> QED BY <2>1, <2>2, FS_Subset, FS_CardinalityType DEF FreeCells, FreeIn
<1>6. Len(ub) <= Cardinality(FreeCells)
  <2>1. Total(left) <= Cardinality(FreeCells)
    BY <1>2, <1>5 DEF LeftOK, FreeIn
  <2>2. Len(ub) <= Total(left)
    BY <1>2, UbTotal
  <2>3. Len(ub) \in Int /\ Total(left) \in Int
    BY <1>2, UbTotal
  <2> QED BY <1>5, <2>1, <2>2, <2>3
<1>7. ub \in Seq(UbType) /\ \A k \in 1 .. Len(ub) : ub[k].seqs # {} /\ ub[k].seq \in ub[k].seqs
  BY <1>3 DEF Grouped
<1> HIDE DEF ub
<1>8. /\ CellsOK(attn') /\ Added(ub, attn, attn')
      /\ Cardinality(FreeIn(attn')) = Cardinality(FreeCells) - Len(ub)
  <2> DEFINE d == attn'
  <2>1. d = Placed(attn, ub, Slot) /\ \A k \in 1 .. Len(ub) : ub[k].seqs # {}
    BY <1>1, <1>7
  <2> HIDE DEF d
  <2>2. /\ CellsOK(d) /\ Added(ub, attn, d)
        /\ Cardinality(FreeIn(d)) = Cardinality(FreeCells) - Len(ub)
    BY <1>2, <1>6, <1>7, <2>1, PlacedIs
  <2> QED BY <2>2 DEF d
<1>9. Stored(ub, attn') /\ \A s \in SeqId : OneToken(Seen(attn', s))
  BY <1>2, <1>3, <1>4, <1>8, AddedStored DEF Stores
<1>10. recr' \in SUBSET StateType /\ EndsMatch(attn', recr')
  BY <1>1, <1>2, <1>3, <1>4, <1>8, AdvancedEnds
<1>11. Stores'
  BY <1>1, <1>2, <1>8, <1>9, <1>10 DEF Stores
<1>12. LeftOK(left', attn')
  BY <1>1, <1>2, <1>5, <1>8, RestOK DEF ub
<1>13. Alone(ub, appended')
  BY <1>1, <1>3, <1>4, AloneIs
<1>14. Steps'
  BY <1>1, <1>3, <1>9, <1>12, <1>13 DEF Steps
<1>15. ASSUME NEW s \in SeqId
       PROVE  /\ \A x \in Before(s) : x \in Before(s)'
              /\ s \in appended' => \A x \in Before(s)' : x \in Before(s)
  <2>1. Before(s) = Seen(attn, s)
    BY <1>1 DEF Before
  <2>2. CASE Firsts(ub, s) # {}
    <3> DEFINE f == Min(Firsts(ub, s))
    <3>1. Before(s)' = Below(Seen(attn', s), ub[f].pos)
      BY <1>1, <2>2 DEF Before
    <3>2. f \in 1 .. Len(ub) /\ ub[f].seq = s /\ \A k \in 1 .. Len(ub) : ub[k].seq = s => f <= k
      <4>1. \A k \in Firsts(ub, s) : k \in Nat
        BY DEF Firsts
      <4>2. f \in Firsts(ub, s) /\ \A k \in Firsts(ub, s) : f <= k
        BY <2>2, <4>1, MinOfNat
      <4> QED BY <4>2 DEF Firsts
    <3> HIDE DEF f
    <3>3. s \in ub[f].seqs
      BY <1>7, <3>2
    <3>4. ASSUME NEW x \in Seen(attn, s) PROVE x \in Seen(attn', s) /\ x[1] < ub[f].pos
      BY <1>4, <1>8, <3>2, <3>3 DEF Ahead, Added
    <3>5. ASSUME NEW x \in Seen(attn', s), x[1] < ub[f].pos PROVE x \in Seen(attn, s)
      <4>1. ASSUME NEW k \in 1 .. Len(ub), s \in ub[k].seqs, x = <<ub[k].pos, ub[k].tok>> PROVE FALSE
        <5>1. ub[k].seq = s
          BY <1>3, <3>2, <3>3, <4>1, SameRun
        <5>2. f <= k
          BY <3>2, <5>1
        <5>3. ub[f].pos <= ub[k].pos /\ ub[f].pos \in Int /\ ub[k].pos \in Int
          <6>1. ub[f].seq = ub[k].seq
            BY <3>2, <5>1
          <6>2. /\ ub[f].pos \in 0 .. MaxPos /\ ub[k].pos \in 0 .. MaxPos
                /\ f <= k => ub[f].pos <= ub[k].pos
            BY <1>3, <3>2, <6>1, GroupPos
          <6> QED BY <5>2, <6>2, ConfigAssumption
        <5>4. x[1] = ub[k].pos
          BY <4>1
        <5> QED BY <3>5, <5>3, <5>4
      <4> QED BY <1>8, <4>1 DEF Added
    <3> QED BY <2>1, <3>1, <3>4, <3>5 DEF Below
  <2>3. CASE Firsts(ub, s) = {}
    <3>1. Before(s)' = Seen(attn', s)
      BY <1>1, <2>3 DEF Before
    <3>2. \A x \in Seen(attn, s) : x \in Seen(attn', s)
      BY <1>8 DEF Added
    <3>3. ASSUME s \in appended', NEW x \in Seen(attn', s) PROVE x \in Seen(attn, s)
      <4>1. ASSUME NEW k \in 1 .. Len(ub), s \in ub[k].seqs PROVE FALSE
        <5>1. ub[k].seq = s
          BY <1>13, <3>3, <4>1 DEF Alone
        <5> QED BY <2>3, <5>1 DEF Firsts
      <4> QED BY <1>8, <4>1 DEF Added
    <3> QED BY <2>1, <3>1, <3>2, <3>3
  <2> QED BY <2>2, <2>3
<1>16. Histories'
  <2>1. appended' \in SUBSET SeqId /\ \A s \in appended' : s \in appended
    BY <1>1, <1>2
  <2>2. ASSUME ~JumpInside
        PROVE  /\ hist' = [s \in SeqId |-> hist'[s]]
               /\ \A s \in SeqId : HistTrue(Before(s)', hist'[s])
               /\ \A s \in appended' : HistFull(Before(s)', hist'[s])
    <3>1. /\ hist = [s \in SeqId |-> hist[s]]
          /\ \A s \in SeqId : HistTrue(Before(s), hist[s])
          /\ \A s \in appended : HistFull(Before(s), hist[s])
      BY <2>2 DEF IInv, Histories
    <3>2. ASSUME NEW s \in SeqId PROVE HistTrue(Before(s)', hist[s])
      <4>1. HistTrue(Before(s), hist[s]) /\ \A x \in Before(s) : x \in Before(s)'
        BY <1>15, <3>1
      <4> QED BY <4>1, HistGrows
    <3>3. ASSUME NEW s \in appended' PROVE HistFull(Before(s)', hist[s])
      <4>1. Before(s)' = Before(s) /\ s \in appended
        BY <1>15, <2>1
      <4> QED BY <3>1, <4>1
    <3> QED BY <1>1, <3>1, <3>2, <3>3
  <2> QED BY <2>1, <2>2 DEF Histories
<1> QED BY <1>1, <1>11, <1>14, <1>16 DEF IInv, NoFalseContext, ContextKept

-----------------------------------------------------------------------------
(* The theorems *)

LEMMA NextKeeps == IInv /\ [Next]_vars => IInv'
<1> SUFFICES ASSUME IInv, [Next]_vars PROVE IInv'
  OBVIOUS
<1>1. CASE Clear
  BY <1>1, ClearKeeps
<1>2. ASSUME NEW s \in SeqId, NEW r \in Ranges, seq_rm(s, r[1], r[2]) PROVE IInv'
  BY <1>2, RmKeeps
<1>3. ASSUME NEW s \in SeqId, NEW t \in SeqId, seq_cp(s, t) PROVE IInv'
  BY <1>3, CpKeeps
<1>4. ASSUME NEW s \in SeqId, seq_keep(s) PROVE IInv'
  BY <1>4, KeepKeeps
<1>5. CASE Decode
  BY <1>5, DecodeKeeps
<1>6. CASE ApplyUbatch
  BY <1>6, ApplyKeeps
<1>7. CASE SetInput
  BY <1>7, SetInputKeeps
<1>8. CASE Compute
  BY <1>8, ComputeKeeps
<1>9. CASE InputFails \/ ComputeFails
  BY <1>9, CleanUpKeeps
<1>10. CASE UNCHANGED vars
  <2>1. /\ attn' = attn /\ idx' = idx /\ recr' = recr /\ hist' = hist /\ pc' = pc /\ left' = left
        /\ ubatch' = ubatch /\ contexts' = contexts /\ appended' = appended
    BY <1>10 DEF vars
  <2>2. Stores' /\ Steps'
    BY <2>1 DEF IInv, Stores, Steps
  <2>3. \A s : Before(s)' = Before(s)
    BY <2>1 DEF Before
  <2>4. Histories'
    BY <2>1, <2>3 DEF IInv, Histories
  <2>5. \A s, p : TokenAt(s, p)' = TokenAt(s, p)
    BY <2>1 DEF TokenAt
  <2>6. \A s, p : TrueContext(s, p)' = TrueContext(s, p)
    BY <2>1 DEF TrueContext, TokenAt
  <2>7. ~JumpInside => NoFalseContext' /\ ContextKept'
    BY <2>1, <2>5, <2>6 DEF IInv, NoFalseContext, ContextKept
  <2> QED BY <2>2, <2>4, <2>7 DEF IInv
<1> QED BY <1>1, <1>2, <1>3, <1>4, <1>5, <1>6, <1>7, <1>8, <1>9, <1>10 DEF Next, Operation

LEMMA Invariant == Spec => []IInv
<1>1. Init => IInv
  BY InitInv
<1>2. IInv /\ [Next]_vars => IInv'
  BY NextKeeps
<1> QED BY <1>1, <1>2, PTL DEF Spec

\* A cell is always the same token in the attention cache and in the indexer
\* cache, through every operation, micro-batch, failure and clean-up.
THEOREM CellsStaySame == Spec => []SameCells
<1>1. IInv => SameCells
  BY DEF IInv, Stores, SameCells
<1> QED BY <1>1, Invariant, PTL

\* The attention cells and the recurrent state of every sequence always end at
\* the same position.
THEOREM EndsStaySame == Spec => []SameEnd
<1>1. IInv => SameEnd
  BY StoresEnd DEF IInv, SameEnd
<1> QED BY <1>1, Invariant, PTL

\* As long as positions do not jump inside of a run, the predecessor that
\* set_input gives a token is the token that its sequence has there.
THEOREM PredecessorsTrue == ASSUME ~JumpInside PROVE Spec => []NoFalseContext
<1>1. IInv => NoFalseContext
  BY DEF IInv
<1> QED BY <1>1, Invariant, PTL

\* And a sequence that was only appended to loses none of its context, if it is
\* the first of its micro-batch.
THEOREM PredecessorsKept == ASSUME ~JumpInside PROVE Spec => []ContextKept
<1>1. IInv => ContextKept
  BY DEF IInv
<1> QED BY <1>1, Invariant, PTL
=============================================================================
