-------------------------- MODULE RecurrentMemProofs --------------------------
(***************************************************************************)
(* The cells of a recurrent memory agree with the tails, there is always a *)
(* cell and a row for a micro-batch, and a sequence goes on from the state *)
(* of its own tokens, for every number of cells, sequences and snapshots   *)
(* and every batch.                                                        *)
(*                                                                         *)
(* Sound is about the cells alone: whom they belong to, how many are used, *)
(* and that between two micro-batches a cell is filled from its own row.   *)
(* It holds whatever the caller relies on.  Told says what the rows mean,  *)
(* and is kept by a caller that relies on nothing (Trusting = {}).         *)
(***************************************************************************)
EXTENDS RecurrentMem, SubsequencesProofs, WellFoundedInduction

CellType == [pos : Int, src : Cell \cup {-1}, seq : SUBSET SeqId]

\* a cell belongs to the sequences whose tail it is
Agree(c, tl) == \A s \in SeqId, i \in Cell : s \in c[i].seq <=> tl[s] = i

InUse(c) == {i \in Cell : c[i].seq # {}}

\* a cell is filled from its own row, if it is filled at all
Home(c) ==
    \A i \in Cell : /\ c[i].seq # {} <=> c[i].pos >= 0
                    /\ c[i].src \in {-1, i}
                    /\ c[i].seq # {} => c[i].src = i

Matched(c, tl) == /\ c \in [Cell -> CellType] /\ tl \in [SeqId -> Cell \cup {-1}]
                /\ Agree(c, tl) /\ Home(c)

Tok == SeqId \X Token
RunType == [seqs : SeqSets, toks : Seq(Tok)]

\* Runs of different sequences, none of them empty.
RunsOK(runs) ==
    /\ runs \in Seq(RunType)
    /\ \A r \in DOMAIN runs : runs[r].toks # <<>>
    /\ \A r, q \in DOMAIN runs : r # q => runs[r].seqs \cap runs[q].seqs = {}

Sound ==
    /\ Matched(cells, tail)
    /\ head \in Cell
    /\ used = Cardinality(InUse(cells))
    /\ pc \in {"idle", "ubatch", "inputs"}
    /\ pc \in {"ubatch", "inputs"} => RunsOK(left)
    /\ pc = "ubatch" => left # <<>>
    /\ saved # <<>> => saved.pos \in Nat

-----------------------------------------------------------------------------
UbType == [seqs : SeqSets, toks : Seq(Tok), pos : Nat]

UbatchOK ==
    /\ ubatch \in Seq(UbType)
    /\ \A k \in DOMAIN ubatch : ubatch[k].toks # <<>> /\ Admitted(ubatch[k].seqs)
    /\ \A k, l \in DOMAIN ubatch : k # l => ubatch[k].seqs \cap ubatch[l].seqs = {}
    /\ \A k \in DOMAIN ubatch, r \in DOMAIN left :
          left[r].seqs = ubatch[k].seqs \/ left[r].seqs \cap ubatch[k].seqs = {}
    /\ \A k \in DOMAIN ubatch : cells[Main(k)].seq = ubatch[k].seqs
    /\ graph.n \in Nat /\ Len(ubatch) <= graph.n /\ InRange \subseteq Cell
    /\ graph.rs_z \in InRange \cup {-1}

InUb(ub, s) == \E k \in DOMAIN ub : s \in ub[k].seqs
InUbatch(s) == InUb(ubatch, s)

\* the caller's view of the sequences: a sequence without a cell has no tokens, and the
\* rows of one that can go back have the states it can go back to
Knows(tl, ix, un, tr, r) ==
    /\ tr \in [SeqId -> Seq(Tok)] /\ ix \in [SeqId -> Group] /\ un \in [SeqId -> Group]
    /\ \A s \in SeqId : tl[s] < 0 => tr[s] = <<>> /\ ix[s] = 0
    /\ \A s \in SeqId : tl[s] >= 0 /\ un[s] > 0 =>
          /\ ix[s] = 0 /\ un[s] <= Len(tr[s])
          /\ \A g \in 1 .. un[s] : r[g][tl[s]] = SubSeq(tr[s], 1, Len(tr[s]) - g)

\* sequences that share a cell go back nowhere
Apart(tl, ix, un) ==
    \A s, t \in SeqId : s # t /\ tl[s] = tl[t] /\ tl[s] >= 0 => ix[s] = 0 /\ un[s] = 0

\* what row i stands for
RowTold(c, ix, tr, r, i) ==
    /\ c[i].seq = {} /\ c[i].src = i => r[0][i] = <<>>
    /\ \A s \in c[i].seq : r[ix[s]][i] = tr[s]

\* what it is going to be filled with
CopyTold(i) ==
    /\ cells[i].seq = {} => Copied(i) = <<>>
    /\ \A s \in cells[i].seq : Copied(i) = truth[s]

RowsTell(c, tl, ix, un, tr, r) ==
    /\ Knows(tl, ix, un, tr, r)
    /\ Apart(tl, ix, un)
    /\ \A i \in Cell : RowTold(c, ix, tr, r, i)

\* Between find_slot and the end of the graph, the rows of the range are still to be
\* moved.
InputsTell ==
    /\ Knows(tail, rs_idx, undo, truth, rows)
    /\ \A s, t \in SeqId : s # t /\ tail[s] = tail[t] /\ tail[s] >= 0 =>
          rs_idx[s] = 0 /\ (undo[s] = 0 \/ InUbatch(s))
    /\ UbatchOK
    /\ \A i \in Cell : IF i \in InRange THEN CopyTold(i)
                       ELSE RowTold(cells, rs_idx, truth, rows, i)

IsRows(r) == r = [g \in Group |-> [i \in Cell |-> r[g][i]]]

Told ==
    /\ IsRows(rows)
    /\ IF pc = "inputs" THEN InputsTell ELSE RowsTell(cells, tail, rs_idx, undo, truth, rows)
    /\ pc # "idle" => \A r \in DOMAIN left : Admitted(left[r].seqs)
    /\ saved # <<>> => saved.truth \in Seq(Tok) /\ saved.row = saved.truth

-----------------------------------------------------------------------------
(* Numbers *)

LEMMA MinIs ==
  ASSUME NEW S \in SUBSET Nat, S # {}
  PROVE  Min(S) \in S /\ \A y \in S : Min(S) <= y
  BY HasLeast DEF Min

\* Numbers up to N have a greatest one.
LEMMA MaxIs ==
  ASSUME NEW N \in Nat, NEW S \in SUBSET (0 .. N), S # {}
  PROVE  Max(S) \in S /\ \A y \in S : Max(S) >= y
<1> DEFINE T == {n \in 0 .. N : N - n \in S}
<1>1. T \in SUBSET Nat
  OBVIOUS
<1>2. \A y \in S : y \in 0 .. N /\ N - y \in 0 .. N /\ N - (N - y) = y
  OBVIOUS
<1>3. \A y \in S : N - y \in T
  BY <1>2
<1>4. T # {}
  BY <1>3
<1>5. PICK n \in T : \A y \in T : n <= y
  BY <1>1, <1>4, HasLeast
<1>6. N - n \in S /\ n \in 0 .. N
  BY <1>5
<1>7. \A y \in S : N - n >= y
  BY <1>2, <1>3, <1>5, <1>6
<1> QED BY <1>6, <1>7 DEF Max

LEMMA MaxOfTwo ==
  ASSUME NEW a \in Int, NEW b \in Int
  PROVE  Max({a, b}) = IF a >= b THEN a ELSE b
  BY DEF Max

LEMMA MinOfIs ==
  ASSUME NEW a \in Int, NEW b \in Int
  PROVE  MinOf(a, b) \in {a, b} /\ MinOf(a, b) <= a /\ MinOf(a, b) <= b
  BY DEF MinOf

LEMMA FirstIs ==
  ASSUME NEW run, run.seqs \in SeqSets
  PROVE  First(run) \in run.seqs /\ First(run) \in SeqId
<1>1. run.seqs \in SUBSET SeqId /\ run.seqs # {}
  BY DEF SeqSets
<1>2. run.seqs \in SUBSET Nat
  BY <1>1 DEF SeqId
<1> QED BY <1>1, <1>2, MinIs DEF First

-----------------------------------------------------------------------------
(* How a batch is split *)

\* The runs that take part are runs of the batch.
LEMMA ChosenIs ==
  ASSUME NEW runs, Len(runs) \in Nat
  PROVE  Chosen(runs) \in SUBSET (1 .. Len(runs))
<1> DEFINE Step(c, k) ==
             IF Sequential /\ c # {} /\ First(runs[k]) # First(runs[Max(c)]) + 1
             THEN c ELSE c \cup {k}
           Does(g, n) == g = [k \in 0 .. n |-> IF k = 0 THEN {} ELSE Step(g[k - 1], k)]
           T == {n \in Nat : \E g : Does(g, n)}
           N == Len(runs)
<1>1. 0 \in T
  <2>1. Does([k \in 0 .. 0 |-> {}], 0)
    OBVIOUS
  <2> QED BY <2>1
<1>2. \A n \in 0 .. N - 1 : n \in T => n + 1 \in T
  <2> TAKE n \in 0 .. N - 1
  <2> HAVE n \in T
  <2>1. PICK g : Does(g, n)
    OBVIOUS
  <2> DEFINE h == [k \in 0 .. n + 1 |-> IF k <= n THEN g[k] ELSE Step(g[n], n + 1)]
  <2>2. ASSUME NEW k \in 0 .. n + 1
        PROVE  h[k] = IF k = 0 THEN {} ELSE Step(h[k - 1], k)
    <3> HIDE DEF Step
    <3>1. CASE k = 0
      BY <2>1, <3>1
    <3>2. CASE k # 0 /\ k <= n
      <4>1. k \in 0 .. n /\ k - 1 \in 0 .. n + 1 /\ k - 1 <= n
        BY <3>2
      <4>2. h[k] = g[k] /\ h[k - 1] = g[k - 1]
        BY <3>2, <4>1
      <4>3. g[k] = Step(g[k - 1], k)
        BY <2>1, <3>2, <4>1
      <4> QED BY <3>2, <4>2, <4>3
    <3>3. CASE k = n + 1
      <4>1. n \in 0 .. n + 1 /\ k - 1 = n /\ ~ k <= n /\ k # 0
        BY <3>3
      <4>2. h[k] = Step(g[n], n + 1) /\ h[n] = g[n]
        BY <4>1
      <4> QED BY <3>3, <4>1, <4>2
    <3> QED BY <3>1, <3>2, <3>3
  <2>3. Does(h, n + 1)
    <3> HIDE DEF Step
    <3> QED BY <2>2
  <2>4. \E f : Does(f, n + 1)
    BY <2>3
  <2>5. n + 1 \in Nat
    OBVIOUS
  <2> QED BY <2>4, <2>5
<1>3. N \in T
  <2> HIDE DEF T
  <2>1. \A n \in 0 .. N : n \in T
    BY <1>1, <1>2, UpFromZero
  <2> QED BY <2>1
<1> DEFINE chosen == CHOOSE f : Does(f, N)
<1>4. Does(chosen, N)
  <2> HIDE DEF Does
  <2> QED BY <1>3
<1>5. Chosen(runs) = chosen[N]
  BY DEF Chosen
<1> HIDE DEF chosen
<1> DEFINE U == {n \in Nat : n <= N => chosen[n] \in SUBSET (1 .. N)}
<1>6. 0 \in U
  BY <1>4
<1>7. \A n \in 0 .. N - 1 : n \in U => n + 1 \in U
  <2> TAKE n \in 0 .. N - 1
  <2> HAVE n \in U
  <2>1. n + 1 \in 0 .. N /\ n + 1 # 0 /\ (n + 1) - 1 = n /\ n + 1 \in 1 .. N /\ n <= N
    OBVIOUS
  <2>2. chosen[n + 1] = Step(chosen[n], n + 1)
    <3> HIDE DEF Step
    <3> QED BY <1>4, <2>1
  <2>3. chosen[n + 1] \in SUBSET (1 .. N)
    BY <2>1, <2>2
  <2> QED BY <2>1, <2>3
<1>8. N \in U
  <2> HIDE DEF U
  <2>1. \A n \in 0 .. N : n \in U
    BY <1>6, <1>7, UpFromZero
  <2> QED BY <2>1
<1> QED BY <1>5, <1>8

\* Every run that takes part has as many tokens as each of them gives, and one at
\* least.
LEMMA EachIs ==
  ASSUME NEW runs \in Seq(RunType), \A r \in DOMAIN runs : runs[r].toks # <<>>,
         NEW r \in Chosen(runs)
  PROVE  /\ r \in 1 .. Len(runs)
         /\ Each(runs) \in Nat \ {0} /\ Each(runs) <= Len(runs[r].toks)
<1> DEFINE C == Chosen(runs)
           L == {Len(runs[q].toks) : q \in C}
           n == UBatch \div Cardinality(C)
           m == Max({1, n})
<1>1. C \in SUBSET (1 .. Len(runs))
  BY ChosenIs
<1>2. \A q \in 1 .. Len(runs) : Len(runs[q].toks) \in Nat \ {0}
  <2> TAKE q \in 1 .. Len(runs)
  <2>1. q \in DOMAIN runs /\ runs[q] \in RunType
    OBVIOUS
  <2>2. runs[q].toks \in Seq(Tok) /\ runs[q].toks # <<>>
    BY <2>1 DEF RunType
  <2> QED BY <2>2, NotEmpty
<1>3. IsFiniteSet(C) /\ Cardinality(C) \in Nat
  BY <1>1, PlacesFinite
<1>4. Cardinality(C) # 0
  BY <1>3, FS_EmptySet
<1>5. n \in Nat
  BY <1>3, <1>4, SplitAssumption
<1>6. m \in Nat \ {0}
  <2> HIDE DEF n
  <2> QED BY <1>5, MaxOfTwo
<1>7. L \in SUBSET (Nat \ {0}) /\ Len(runs[r].toks) \in L
  BY <1>1, <1>2
<1>8. Each(runs) = Min(L \cup {m})
  BY DEF Each
<1> HIDE DEF L, m
<1>9. L \cup {m} \in SUBSET Nat /\ L \cup {m} # {}
  BY <1>6, <1>7
<1>10. Each(runs) \in L \cup {m} /\ \A y \in L \cup {m} : Each(runs) <= y
  BY <1>8, <1>9, MinIs
<1> QED BY <1>1, <1>6, <1>7, <1>10

\* A micro-batch takes something, and of no run more than it has.
Takes(runs, take) ==
  /\ \A r \in DOMAIN runs : take[r] \in 0 .. Len(runs[r].toks)
  /\ runs # <<>> => \E r \in DOMAIN runs : take[r] > 0

\* What split_equal takes of a run, is what it has, or nothing, or leaves a tail,
\* whatever n_keep_tail is (llama-batch.cpp:522).
LEMMA SplitEqualIs ==
  ASSUME NEW runs \in Seq(RunType), \A r \in DOMAIN runs : runs[r].toks # <<>>
  PROVE  /\ \A r \in DOMAIN runs :
              LET n == Len(runs[r].toks)
                  t == split_equal(runs)[r]
              IN  /\ t \in 0 .. n /\ n \in Nat \ {0}
                  /\ t = 0 \/ t = n \/ n - t >= KeepTail
         /\ runs # <<>> => \E r \in DOMAIN runs : split_equal(runs)[r] > 0
<1>1. ASSUME NEW r \in DOMAIN runs
      PROVE  Len(runs[r].toks) \in Nat \ {0}
  <2>1. runs[r] \in RunType
    OBVIOUS
  <2>2. runs[r].toks \in Seq(Tok) /\ runs[r].toks # <<>>
    BY <2>1 DEF RunType
  <2> QED BY <2>2, NotEmpty
<1>2. KeepTail \in Nat /\ UBatch \in Nat /\ KeepTail < UBatch
  BY SplitAssumption
<1>3. ASSUME NEW r \in DOMAIN runs, r \in Kept(runs)
      PROVE  /\ split_equal(runs)[r] = Each(runs)
             /\ Each(runs) \in 1 .. Len(runs[r].toks)
             /\ Each(runs) = Len(runs[r].toks) \/ Len(runs[r].toks) - Each(runs) >= KeepTail
  <2>1. r \in Chosen(runs) /\ (r <= r => Finishes(runs[r], Each(runs)))
    BY <1>3 DEF Kept
  <2>2. Each(runs) \in Nat \ {0} /\ Each(runs) <= Len(runs[r].toks) /\ r \in 1 .. Len(runs)
    BY <2>1, EachIs
  <2>3. Finishes(runs[r], Each(runs))
    BY <2>1, <2>2
  <2>4. split_equal(runs)[r] = Each(runs)
    BY <1>3 DEF split_equal
  <2> QED BY <1>1, <1>2, <2>2, <2>3, <2>4 DEF Finishes
<1>4. ASSUME Kept(runs) = {}, 1 \in DOMAIN runs
      PROVE  LET n == Len(runs[1].toks)
                 t == split_equal(runs)[1]
             IN  t \in 1 .. n /\ (t = n \/ n - t >= KeepTail)
  <2>1. split_equal(runs)[1] = Alone(runs[1])
    BY <1>4 DEF split_equal
  <2>2. Len(runs[1].toks) \in Nat \ {0}
    BY <1>1, <1>4
  <2> QED BY <1>2, <2>1, <2>2 DEF Alone
<1>5. ASSUME NEW r \in DOMAIN runs
      PROVE  LET n == Len(runs[r].toks)
                 t == split_equal(runs)[r]
             IN  t \in 0 .. n /\ n \in Nat \ {0} /\ (t = 0 \/ t = n \/ n - t >= KeepTail)
  <2>1. CASE r \in Kept(runs)
    BY <1>1, <1>3, <2>1
  <2>2. CASE Kept(runs) = {} /\ r = 1
    BY <1>1, <1>4, <2>2
  <2>3. CASE r \notin Kept(runs) /\ ~(Kept(runs) = {} /\ r = 1)
    <3>1. split_equal(runs)[r] = 0
      BY <2>3 DEF split_equal
    <3> QED BY <1>1, <3>1
  <2> QED BY <2>1, <2>2, <2>3
<1>6. ASSUME runs # <<>>
      PROVE  \E r \in DOMAIN runs : split_equal(runs)[r] > 0
  <2>1. CASE Kept(runs) = {}
    <3>1. 1 \in DOMAIN runs
      BY <1>6
    <3> QED BY <1>1, <1>4, <2>1, <3>1
  <2>2. CASE Kept(runs) # {}
    <3>1. PICK r \in Kept(runs) : TRUE
      BY <2>2
    <3>2. r \in Chosen(runs)
      BY DEF Kept
    <3>3. r \in DOMAIN runs
      BY <3>2, ChosenIs
    <3> QED BY <1>1, <1>3, <3>3
  <2> QED BY <2>1, <2>2
<1> QED BY <1>5, <1>6

LEMMA SplitEqualTakes ==
  ASSUME NEW runs \in Seq(RunType), \A r \in DOMAIN runs : runs[r].toks # <<>>
  PROVE  Takes(runs, split_equal(runs))
BY SplitEqualIs DEF Takes

\* split_seq takes the first tokens of the first run.
LEMMA SplitSeqIs ==
  ASSUME NEW runs \in Seq(RunType), \A r \in DOMAIN runs : runs[r].toks # <<>>
  PROVE  Takes(runs, split_seq(runs))
<1>1. ASSUME NEW r \in DOMAIN runs
      PROVE  Len(runs[r].toks) \in Nat \ {0}
  <2>1. runs[r] \in RunType
    OBVIOUS
  <2>2. runs[r].toks \in Seq(Tok) /\ runs[r].toks # <<>>
    BY <2>1 DEF RunType
  <2> QED BY <2>2, NotEmpty
<1>2. ASSUME runs # <<>>
      PROVE  1 \in DOMAIN runs /\ split_seq(runs)[1] \in 1 .. Len(runs[1].toks)
  <2>1. 1 \in DOMAIN runs
    BY <1>2
  <2>2. Len(runs[1].toks) \in Nat \ {0} /\ UBatch \in Nat \ {0}
    BY <1>1, <2>1, SplitAssumption
  <2> DEFINE n == Len(runs[1].toks)
  <2>3. {n, UBatch} \in SUBSET Nat /\ {n, UBatch} # {}
    BY <2>2
  <2>4. Min({n, UBatch}) \in {n, UBatch} /\ \A y \in {n, UBatch} : Min({n, UBatch}) <= y
    BY <2>3, MinIs
  <2>5. split_seq(runs)[1] = Min({n, UBatch})
    BY <2>1 DEF split_seq
  <2> HIDE DEF n
  <2>6. Min({n, UBatch}) \in 1 .. n
    BY <2>2, <2>4 DEF n
  <2> QED BY <2>1, <2>5, <2>6 DEF n
<1>3. ASSUME NEW r \in DOMAIN runs
      PROVE  split_seq(runs)[r] \in 0 .. Len(runs[r].toks)
  <2>1. CASE r = 1
    BY <1>1, <1>2, <2>1
  <2>2. CASE r # 1
    BY <1>1, <1>3, <2>2 DEF split_seq
  <2> QED BY <2>1, <2>2
<1> QED BY <1>2, <1>3 DEF Takes

\* The runs that have a token are kept, each once.
LEMMA FilteredIs ==
  ASSUME NEW runs \in Seq(RunType), NEW F, F = Filtered(runs)
  PROVE  /\ F \in Seq(RunType)
         /\ \A k \in DOMAIN F : \E r \in DOMAIN runs : F[k] = runs[r] /\ runs[r].toks # <<>>
         /\ \A r \in DOMAIN runs : runs[r].toks # <<>> => \E k \in DOMAIN F : F[k] = runs[r]
         /\ \A k, l \in DOMAIN F : k # l =>
              \E r, q \in DOMAIN runs : r # q /\ F[k] = runs[r] /\ F[l] = runs[q]
<1> DEFINE I == {r \in DOMAIN runs : runs[r].toks # <<>>}
<1>1. I \in SUBSET (1 .. Len(runs)) /\ F = Picked(runs, I)
  BY DEF Filtered
<1>0. \A r \in I : r \in DOMAIN runs /\ runs[r].toks # <<>>
  OBVIOUS
<1>00. \A r \in DOMAIN runs : runs[r].toks # <<>> => r \in I
  OBVIOUS
<1> HIDE DEF I
<1>2. /\ F \in Seq(RunType)
      /\ \A k \in 1 .. Len(F) :
           /\ Nth(I, k) \in I /\ F[k] = runs[Nth(I, k)]
           /\ \A l \in 1 .. Len(F) : k < l => Nth(I, k) < Nth(I, l)
      /\ \A i \in I : \E k \in 1 .. Len(F) : Nth(I, k) = i
  BY <1>1, PickedFrom
<1>3. DOMAIN F = 1 .. Len(F) /\ Len(F) \in Nat
  BY <1>2
<1>4. ASSUME NEW k \in DOMAIN F, NEW l \in DOMAIN F, k < l
      PROVE  Nth(I, k) # Nth(I, l)
  <2>1. k \in 1 .. Len(F) /\ l \in 1 .. Len(F)
    BY <1>3
  <2>2. Nth(I, k) < Nth(I, l) /\ Nth(I, k) \in I /\ Nth(I, l) \in I
    BY <1>2, <1>4, <2>1
  <2>3. \A i \in I : i \in Int
    BY <1>1
  <2> QED BY <2>2, <2>3
<1>5. \A k, l \in DOMAIN F : k # l => Nth(I, k) # Nth(I, l)
  <2> TAKE k, l \in DOMAIN F
  <2>1. k \in Int /\ l \in Int
    BY <1>3
  <2> QED BY <1>4, <2>1
<1>6. \A k \in DOMAIN F : Nth(I, k) \in DOMAIN runs /\ F[k] = runs[Nth(I, k)]
                          /\ runs[Nth(I, k)].toks # <<>>
  BY <1>0, <1>2, <1>3
<1>7. \A k, l \in DOMAIN F : k # l =>
              \E r, q \in DOMAIN runs : r # q /\ F[k] = runs[r] /\ F[l] = runs[q]
  BY <1>5, <1>6
<1>8. \A r \in DOMAIN runs : runs[r].toks # <<>> => \E k \in DOMAIN F : F[k] = runs[r]
  <2> TAKE r \in DOMAIN runs
  <2> HAVE runs[r].toks # <<>>
  <2>1. PICK k \in 1 .. Len(F) : Nth(I, k) = r
    BY <1>00, <1>2
  <2> QED BY <1>2, <1>3, <2>1
<1>9. \A k \in DOMAIN F : \E r \in DOMAIN runs : F[k] = runs[r] /\ runs[r].toks # <<>>
  BY <1>6
<1> QED BY <1>2, <1>7, <1>8, <1>9

\* A micro-batch takes the first tokens of some runs, the batch keeps the others.
LEMMA SplitIs ==
  ASSUME NEW runs, RunsOK(runs), runs # <<>>, NEW take, Takes(runs, take),
         NEW ub, ub = Piece(runs, take), NEW rest, rest = Rest(runs, take)
  PROVE  /\ ub \in Seq(RunType) /\ ub # <<>>
         /\ \A k \in DOMAIN ub : /\ ub[k].toks # <<>>
                                 /\ \E r \in DOMAIN runs : ub[k].seqs = runs[r].seqs
         /\ \A k, l \in DOMAIN ub : k # l => ub[k].seqs \cap ub[l].seqs = {}
         /\ RunsOK(rest)
         /\ \A q \in DOMAIN rest : \E r \in DOMAIN runs : rest[q].seqs = runs[r].seqs
<1> DEFINE n(r) == Len(runs[r].toks)
           t(r) == take[r]
           Fore == [r \in DOMAIN runs |-> [runs[r] EXCEPT !.toks = SubSeq(@, 1, t(r))]]
           Aft == [r \in DOMAIN runs |-> [runs[r] EXCEPT !.toks = SubSeq(@, t(r) + 1, Len(@))]]
<1>1. /\ runs \in Seq(RunType)
      /\ \A r \in DOMAIN runs : runs[r].toks # <<>>
      /\ \A r, q \in DOMAIN runs : r # q => runs[r].seqs \cap runs[q].seqs = {}
  BY DEF RunsOK
<1>2. /\ \A r \in DOMAIN runs : t(r) \in 0 .. n(r) /\ n(r) \in Nat
      /\ \E r \in DOMAIN runs : t(r) > 0
  <2>1. \A r \in DOMAIN runs : t(r) \in 0 .. n(r)
    BY DEF Takes
  <2>2. ASSUME NEW r \in DOMAIN runs
        PROVE  n(r) \in Nat
    <3>1. runs[r] \in RunType
      BY <1>1
    <3> QED BY <3>1 DEF RunType
  <2>3. \E r \in DOMAIN runs : t(r) > 0
    BY DEF Takes
  <2> QED BY <2>1, <2>2, <2>3
<1>3. ub = Filtered(Fore) /\ rest = Filtered(Aft)
  BY DEF Piece, Rest
<1>4. DOMAIN Fore = DOMAIN runs /\ DOMAIN Aft = DOMAIN runs /\ DOMAIN runs = 1 .. Len(runs)
      /\ Len(runs) \in Nat
  BY <1>1
<1>5. ASSUME NEW r \in DOMAIN runs
      PROVE  /\ Fore[r] = [seqs |-> runs[r].seqs, toks |-> SubSeq(runs[r].toks, 1, t(r))]
             /\ Aft[r] = [seqs |-> runs[r].seqs, toks |-> SubSeq(runs[r].toks, t(r) + 1, n(r))]
             /\ Fore[r] \in RunType /\ Len(Fore[r].toks) = t(r)
             /\ Aft[r] \in RunType /\ Len(Aft[r].toks) = n(r) - t(r)
             /\ runs[r] \in RunType
             /\ Fore[r].seqs = runs[r].seqs
             /\ Aft[r].seqs = runs[r].seqs
  <2>1. runs[r] \in RunType
    BY <1>1
  <2>2. /\ runs[r].seqs \in SeqSets /\ runs[r].toks \in Seq(Tok)
        /\ runs[r] = [seqs |-> runs[r].seqs, toks |-> runs[r].toks]
    BY <2>1 DEF RunType
  <2>3. t(r) \in 0 .. n(r) /\ n(r) \in Nat
    BY <1>2
  <2> DEFINE a == SubSeq(runs[r].toks, 1, t(r))
             b == SubSeq(runs[r].toks, t(r) + 1, n(r))
  <2>4. a \in Seq(Tok) /\ Len(a) = t(r)
    <3> HIDE DEF t
    <3>1. 1 \in 1 .. n(r) + 1 /\ t(r) \in 1 - 1 .. n(r)
      BY <2>3
    <3> QED BY <2>2, <2>3, <3>1, Cut
  <2>5. b \in Seq(Tok) /\ Len(b) = n(r) - t(r)
    <3> HIDE DEF t
    <3>1. t(r) + 1 \in 1 .. n(r) + 1 /\ n(r) \in t(r) + 1 - 1 .. n(r)
      BY <2>3
    <3> QED BY <2>2, <2>3, <3>1, Cut
  <2>6. /\ Fore[r] = [runs[r] EXCEPT !.toks = a]
        /\ Aft[r] = [runs[r] EXCEPT !.toks = b]
    OBVIOUS
  <2> HIDE DEF a, b, Fore, Aft
  <2>7. /\ Fore[r] = [seqs |-> runs[r].seqs, toks |-> a]
        /\ Aft[r] = [seqs |-> runs[r].seqs, toks |-> b]
    BY <2>2, <2>6
  <2>8. Fore[r] \in RunType /\ Fore[r].toks = a /\ Aft[r] \in RunType /\ Aft[r].toks = b
    BY <2>2, <2>4, <2>5, <2>7 DEF RunType
  <2>9. /\ Fore[r].seqs = runs[r].seqs
        /\ Aft[r].seqs = runs[r].seqs
    BY <2>7
  <2> QED BY <2>1, <2>4, <2>5, <2>7, <2>8, <2>9 DEF a, b
<1>6. Fore \in Seq(RunType) /\ Aft \in Seq(RunType)
  <2>1. Fore = [r \in DOMAIN runs |-> Fore[r]] /\ Aft = [r \in DOMAIN runs |-> Aft[r]]
    OBVIOUS
  <2> HIDE DEF Fore, Aft
  <2>2. \A r \in 1 .. Len(runs) : Fore[r] \in RunType /\ Aft[r] \in RunType
    BY <1>4, <1>5
  <2>3. Fore \in [1 .. Len(runs) -> RunType] /\ Aft \in [1 .. Len(runs) -> RunType]
    BY <1>4, <2>1, <2>2
  <2> QED BY <1>4, <2>3
<1> HIDE DEF Fore, Aft, n, t
<1>7. \A r \in DOMAIN runs :
        /\ Fore[r].seqs = runs[r].seqs
        /\ Aft[r].seqs = runs[r].seqs
        /\ Len(Fore[r].toks) = t(r) /\ Len(Aft[r].toks) = n(r) - t(r)
        /\ Fore[r].toks \in Seq(Tok) /\ Aft[r].toks \in Seq(Tok)
  <2> TAKE r \in DOMAIN runs
  <2>1. /\ Fore[r].seqs = runs[r].seqs
        /\ Aft[r].seqs = runs[r].seqs
    BY <1>5
  <2>2. Fore[r] \in RunType /\ Aft[r] \in RunType
    BY <1>5
  <2>3. Fore[r].toks \in Seq(Tok) /\ Aft[r].toks \in Seq(Tok)
    BY <2>2 DEF RunType
  <2>4. Len(Fore[r].toks) = t(r) /\ Len(Aft[r].toks) = n(r) - t(r)
    BY <1>5
  <2> QED BY <2>1, <2>3, <2>4
<1>8. /\ ub \in Seq(RunType)
      /\ \A k \in DOMAIN ub : \E r \in DOMAIN runs : ub[k] = Fore[r] /\ Fore[r].toks # <<>>
      /\ \A r \in DOMAIN runs : Fore[r].toks # <<>> => \E k \in DOMAIN ub : ub[k] = Fore[r]
      /\ \A k, l \in DOMAIN ub : k # l =>
           \E r, q \in DOMAIN runs : r # q /\ ub[k] = Fore[r] /\ ub[l] = Fore[q]
  <2>1. \A r : r \in DOMAIN Fore <=> r \in DOMAIN runs
    BY <1>4
  <2> QED BY <1>3, <1>6, <2>1, FilteredIs
<1>9. /\ rest \in Seq(RunType)
      /\ \A k \in DOMAIN rest : \E r \in DOMAIN runs : rest[k] = Aft[r] /\ Aft[r].toks # <<>>
      /\ \A r \in DOMAIN runs : Aft[r].toks # <<>> => \E k \in DOMAIN rest : rest[k] = Aft[r]
      /\ \A k, l \in DOMAIN rest : k # l =>
           \E r, q \in DOMAIN runs : r # q /\ rest[k] = Aft[r] /\ rest[l] = Aft[q]
  <2>1. \A r : r \in DOMAIN Aft <=> r \in DOMAIN runs
    BY <1>4
  <2> QED BY <1>3, <1>6, <2>1, FilteredIs
<1>10. ub # <<>>
  <2>1. PICK r \in DOMAIN runs : t(r) > 0
    BY <1>2
  <2>2. Fore[r].toks # <<>>
    <3>1. Len(Fore[r].toks) = t(r)
      BY <1>7
    <3> QED BY <2>1, <3>1
  <2>3. PICK k \in DOMAIN ub : ub[k] = Fore[r]
    BY <1>8, <2>2
  <2> QED BY <2>3
<1>11. \A k \in DOMAIN ub : /\ ub[k].toks # <<>>
                            /\ \E r \in DOMAIN runs : ub[k].seqs = runs[r].seqs
  BY <1>7, <1>8
<1>12. \A k, l \in DOMAIN ub : k # l => ub[k].seqs \cap ub[l].seqs = {}
  <2> TAKE k, l \in DOMAIN ub
  <2> HAVE k # l
  <2>1. PICK r, q \in DOMAIN runs : r # q /\ ub[k] = Fore[r] /\ ub[l] = Fore[q]
    BY <1>8
  <2> QED BY <1>1, <1>7, <2>1
<1>13. \A k, l \in DOMAIN rest : k # l => rest[k].seqs \cap rest[l].seqs = {}
  <2> TAKE k, l \in DOMAIN rest
  <2> HAVE k # l
  <2>1. PICK r, q \in DOMAIN runs : r # q /\ rest[k] = Aft[r] /\ rest[l] = Aft[q]
    BY <1>9
  <2> QED BY <1>1, <1>7, <2>1
<1>14. \A q \in DOMAIN rest : rest[q].toks # <<>>
  BY <1>9
<1>16. RunsOK(rest)
  BY <1>9, <1>13, <1>14 DEF RunsOK
<1>17. \A q \in DOMAIN rest : \E r \in DOMAIN runs : rest[q].seqs = runs[r].seqs
  BY <1>7, <1>9
<1> QED BY <1>8, <1>10, <1>11, <1>12, <1>16, <1>17

-----------------------------------------------------------------------------
(* Cells and tails *)

LEMMA SizeIs ==
  /\ NCells \in Nat \ {0} /\ NSeq \in Nat \ {0} /\ NSeq <= NCells
  /\ Cell = 0 .. NCells - 1 /\ SeqId = 0 .. NSeq - 1 /\ -1 \notin Cell
  /\ IsFiniteSet(Cell) /\ Cardinality(Cell) = NCells
  /\ IsFiniteSet(SeqId) /\ Cardinality(SeqId) = NSeq
<1>1. NCells \in Nat \ {0} /\ NSeq \in Nat \ {0} /\ NSeq <= NCells
  BY SizeAssumption
<1>2. Cell = 0 .. NCells - 1 /\ SeqId = 0 .. NSeq - 1
  BY DEF Cell, SeqId
<1>3. /\ IsFiniteSet(0 .. NCells - 1) /\ Cardinality(0 .. NCells - 1) = NCells
      /\ IsFiniteSet(0 .. NSeq - 1) /\ Cardinality(0 .. NSeq - 1) = NSeq
  BY <1>1, FS_Interval
<1>4. -1 \notin Cell
  BY <1>1, <1>2
<1> QED BY <1>1, <1>2, <1>3, <1>4

\* Some cell is the tail of none of S: there are as many cells as sequences.
LEMMA RoomLeft ==
  ASSUME NEW S \in SUBSET SeqId, S # SeqId, NEW tl
  PROVE  \E i \in Cell : \A s \in S : tl[s] # i
<1>1. SUFFICES ASSUME \A i \in Cell : \E s \in S : tl[s] = i
               PROVE  FALSE
  OBVIOUS
<1> DEFINE f == [i \in Cell |-> CHOOSE s \in S : tl[s] = i]
<1>2. \A i \in Cell : f[i] \in S /\ tl[f[i]] = i
  BY <1>1
<1>3. f \in [Cell -> S]
  BY <1>2
<1>4. IsFiniteSet(S) /\ Cardinality(S) <= NSeq /\ (Cardinality(S) = NSeq => S = SeqId)
  <2>1. IsFiniteSet(SeqId) /\ Cardinality(SeqId) = NSeq
    BY SizeIs
  <2>2. /\ IsFiniteSet(S) /\ Cardinality(S) <= Cardinality(SeqId)
        /\ Cardinality(SeqId) = Cardinality(S) => SeqId = S
    BY <2>1, FS_Subset
  <2> QED BY <2>1, <2>2
<1>5. Cardinality(S) \in Nat
  BY <1>4, FS_CardinalityType
<1>6. Cardinality(S) < Cardinality(Cell)
  BY <1>4, <1>5, SizeIs
<1> HIDE DEF f
<1>7. \E i, j \in Cell : i # j /\ f[i] = f[j]
  BY <1>3, <1>4, <1>6, SizeIs, FS_PigeonHole
<1> QED BY <1>2, <1>7

LEMMA Around ==
  ASSUME NEW n \in Nat \ {0}, NEW a \in 0 .. 2 * n - 1
  PROVE  a % n = IF a < n THEN a ELSE a - n
  OBVIOUS

\* Between a and b, going up and on from 0, b left out.
Between(a, b, j) == IF a <= b THEN a <= j /\ j < b ELSE a <= j \/ j < b

\* The search meets the first empty cell, and all before it are in use.
LEMMA FirstEmptyIs ==
  ASSUME NEW c, NEW i \in 0 .. NCells, \E j \in Cell : c[j].seq = {}
  PROVE  /\ FirstEmpty(c, i) \in Cell /\ c[FirstEmpty(c, i)].seq = {}
         /\ \A j \in Cell : Between(i, FirstEmpty(c, i), j) => c[j].seq # {}
<1> DEFINE At(d) == (i + d) % NCells
           D == {d \in 0 .. NCells - 1 : c[At(d)].seq = {}}
<1>0. NCells \in Nat \ {0} /\ Cell = 0 .. NCells - 1 /\ i \in Nat /\ i <= NCells
  BY SizeIs
<1>1. ASSUME NEW d \in 0 .. NCells - 1
      PROVE  At(d) = IF i + d < NCells THEN i + d ELSE (i + d) - NCells
  <2> DEFINE a == i + d
  <2>1. a \in 0 .. 2 * NCells - 1
    BY <1>0
  <2>2. At(d) = a % NCells
    OBVIOUS
  <2> HIDE DEF a, At
  <2>3. a % NCells = IF a < NCells THEN a ELSE a - NCells
    BY <1>0, <2>1, Around
  <2>4. At(d) = IF a < NCells THEN a ELSE a - NCells
    BY <2>2, <2>3
  <2> QED BY <2>4 DEF a
<1> HIDE DEF At
<1>2. ASSUME NEW j \in Cell
      PROVE  \E d \in 0 .. NCells - 1 : At(d) = j /\ d = IF i <= j THEN j - i ELSE j + NCells - i
  <2> DEFINE d == IF i <= j THEN j - i ELSE j + NCells - i
  <2>1. d \in 0 .. NCells - 1 /\ j \in 0 .. NCells - 1
    BY <1>0
  <2>2. At(d) = j
    BY <1>0, <1>1, <2>1
  <2> QED BY <2>1, <2>2
<1>3. D \in SUBSET Nat /\ D # {}
  BY <1>2
<1>4. Min(D) \in D /\ \A d \in D : Min(D) <= d
  <2> HIDE DEF D
  <2> QED BY <1>3, MinIs
<1>5. FirstEmpty(c, i) = At(Min(D))
  BY <1>3 DEF FirstEmpty, At
<1> DEFINE m == Min(D)
           b == At(m)
<1>6. m \in 0 .. NCells - 1 /\ c[b].seq = {} /\ \A d \in 0 .. NCells - 1 : c[At(d)].seq = {} => m <= d
  BY <1>4
<1> HIDE DEF m, D
<1>7. b = (IF i + m < NCells THEN i + m ELSE i + m - NCells) /\ b \in Cell
  BY <1>0, <1>1, <1>6
<1>8. ASSUME NEW j \in Cell, Between(i, b, j)
      PROVE  c[j].seq # {}
  <2>1. PICK d \in 0 .. NCells - 1 : At(d) = j /\ d = IF i <= j THEN j - i ELSE j + NCells - i
    BY <1>2
  <2>2. d < m
    <3> HIDE DEF b
    <3> QED BY <1>0, <1>6, <1>7, <1>8, <2>1 DEF Between
  <2>3. ~ m <= d
    BY <1>6, <2>1, <2>2
  <2> QED BY <1>6, <2>1, <2>3
<1> QED BY <1>5, <1>6, <1>7, <1>8 DEF m

LEMMA BetweenOn ==
  ASSUME NEW n \in Nat, NEW a \in 0 .. n - 1, NEW e \in 0 .. n - 1, NEW r \in 0 .. n - 1,
         NEW i \in 0 .. n - 1,
         ~Between(a, e, i), i # e, ~Between(e + 1, r, i)
  PROVE  /\ \A j \in 0 .. n - 1 :
              Between(a, r, j) <=> Between(a, e, j) \/ j = e \/ Between(e + 1, r, j)
         /\ ~Between(a, e, r) /\ r # e
  BY DEF Between

\* what Apply and state_read ask find_slot for
Asked(ub) ==
    /\ Len(ub) \in Nat \ {0} /\ DOMAIN ub = 1 .. Len(ub)
    /\ \A k \in DOMAIN ub : ub[k].seqs \in SeqSets /\ ub[k].pos \in Nat
    /\ \A k, l \in DOMAIN ub : k # l => ub[k].seqs \cap ub[l].seqs = {}

LEMMA FirstsApart ==
  ASSUME NEW ub, Asked(ub)
  PROVE  /\ \A k \in DOMAIN ub : First(ub[k]) \in ub[k].seqs /\ First(ub[k]) \in SeqId
         /\ \A k, l \in DOMAIN ub : First(ub[k]) \in ub[l].seqs => k = l
         /\ \A k, l \in DOMAIN ub : First(ub[k]) = First(ub[l]) => k = l
<1>1. \A k \in DOMAIN ub : First(ub[k]) \in ub[k].seqs /\ First(ub[k]) \in SeqId
  BY FirstIs DEF Asked
<1>2. \A k, l \in DOMAIN ub : k # l => ub[k].seqs \cap ub[l].seqs = {}
  BY DEF Asked
<1> QED BY <1>1, <1>2

Gone(ub) == UNION {ub[k].seqs \ {First(ub[k])} : k \in DOMAIN ub}

LEMMA GoneIs ==
  ASSUME NEW ub, Asked(ub)
  PROVE  /\ \A s : s \in Gone(ub) <=> \E k \in DOMAIN ub : s \in ub[k].seqs /\ s # First(ub[k])
         /\ \A k \in DOMAIN ub : First(ub[k]) \notin Gone(ub)
         /\ Gone(ub) \subseteq SeqId
<1>1. \A s : s \in Gone(ub) <=> \E k \in DOMAIN ub : s \in ub[k].seqs /\ s # First(ub[k])
  BY DEF Gone
<1>2. \A k \in DOMAIN ub : ub[k].seqs \subseteq SeqId
  BY DEF Asked, SeqSets
<1> QED BY <1>1, <1>2, FirstsApart

\* A cell that sequences leave is empty, or as it was but for them.
LEMMA LeaveIs ==
  ASSUME NEW c \in CellType, NEW S
  PROVE  /\ Leave(c, S) \in CellType
         /\ Leave(c, S).seq = c.seq \ S
         /\ Leave(c, S).seq # {} => Leave(c, S).pos = c.pos /\ Leave(c, S).src = c.src
         /\ Leave(c, S).seq = {} /\ c.seq # {} => Leave(c, S).pos = -1 /\ Leave(c, S).src = -1
         /\ c.seq = {} => Leave(c, S) = c
<1>1. c = [pos |-> c.pos, src |-> c.src, seq |-> c.seq] /\ c.pos \in Int
      /\ c.src \in Cell \cup {-1} /\ c.seq \in SUBSET SeqId
  BY DEF CellType
<1>2. CASE c.seq # {} /\ c.seq \subseteq S
  <2>1. Leave(c, S) = [pos |-> -1, src |-> -1, seq |-> {}] /\ c.seq \ S = {}
    BY <1>2 DEF Leave, EmptyCell
  <2> QED BY <1>2, <2>1 DEF CellType
<1>3. CASE ~(c.seq # {} /\ c.seq \subseteq S)
  <2>1. Leave(c, S) = [c EXCEPT !.seq = c.seq \ S]
    BY <1>3 DEF Leave
  <2>2. Leave(c, S) = [pos |-> c.pos, src |-> c.src, seq |-> c.seq \ S]
    BY <1>1, <2>1
  <2>3. c.seq = {} => c.seq \ S = c.seq
    OBVIOUS
  <2>4. c.seq # {} => c.seq \ S # {}
    BY <1>3
  <2>5. c.seq \ S \in SUBSET SeqId
    BY <1>1
  <2> QED BY <1>1, <2>2, <2>3, <2>4, <2>5 DEF CellType
<1> QED BY <1>2, <1>3

LeftCells(c, tl, G) == [i \in Cell |-> Leave(c[i], {s \in G : tl[s] = i})]
LeftTails(tl, G) == [s \in SeqId |-> IF s \in G THEN -1 ELSE tl[s]]

\* Sequences leave their cells, and the tails of these sequences are gone.
LEMMA LeftMatched ==
  ASSUME NEW c, NEW tl, Matched(c, tl), NEW G, NEW d, NEW ul,
         d = LeftCells(c, tl, G), ul = LeftTails(tl, G)
  PROVE  /\ Matched(d, ul)
         /\ \A i \in Cell : d[i].seq = {} /\ d[i].src = i => c[i].seq = {} /\ c[i].src = i
<1>1. /\ c \in [Cell -> CellType] /\ tl \in [SeqId -> Cell \cup {-1}]
      /\ Agree(c, tl) /\ Home(c)
  BY DEF Matched
<1> DEFINE S(i) == {s \in G : tl[s] = i}
<1>2. \A i \in Cell : d[i] = Leave(c[i], S(i)) /\ c[i] \in CellType
  BY <1>1 DEF LeftCells
<1>3. \A i \in Cell :
        /\ d[i] \in CellType
        /\ d[i].seq = c[i].seq \ S(i)
        /\ d[i].seq # {} => d[i].pos = c[i].pos /\ d[i].src = c[i].src
        /\ d[i].seq = {} /\ c[i].seq # {} => d[i].pos = -1 /\ d[i].src = -1
        /\ c[i].seq = {} => d[i] = c[i]
  <2> TAKE i \in Cell
  <2> HIDE DEF S
  <2> QED BY <1>2, LeaveIs
<1>4. d \in [Cell -> CellType] /\ ul \in [SeqId -> Cell \cup {-1}]
  <2>1. d = [i \in Cell |-> d[i]]
    BY DEF LeftCells
  <2>2. ul \in [SeqId -> Cell \cup {-1}]
    BY <1>1 DEF LeftTails
  <2> QED BY <1>3, <2>1, <2>2
<1>5. Agree(d, ul)
  <2> SUFFICES ASSUME NEW s \in SeqId, NEW i \in Cell
               PROVE  s \in d[i].seq <=> ul[s] = i
    BY DEF Agree
  <2>1. s \in c[i].seq <=> tl[s] = i
    BY <1>1 DEF Agree
  <2>0. s \in S(i) <=> s \in G /\ tl[s] = i
    OBVIOUS
  <2> HIDE DEF S
  <2>2. s \in d[i].seq <=> s \in c[i].seq /\ ~(s \in G /\ tl[s] = i)
    BY <1>3, <2>0
  <2>3. ul[s] = IF s \in G THEN -1 ELSE tl[s]
    BY DEF LeftTails
  <2> QED BY <2>1, <2>2, <2>3, SizeIs
<1>6. \A i \in Cell : i # -1 /\ ~ -1 >= 0
  BY SizeIs
<1>7. Home(d)
  <2> SUFFICES ASSUME NEW i \in Cell
               PROVE  /\ d[i].seq # {} <=> d[i].pos >= 0
                      /\ d[i].src \in {-1, i}
                      /\ d[i].seq # {} => d[i].src = i
    BY DEF Home
  <2>1. /\ c[i].seq # {} <=> c[i].pos >= 0
        /\ c[i].src \in {-1, i}
        /\ c[i].seq # {} => c[i].src = i
    BY <1>1 DEF Home
  <2>2. d[i].seq # {} => c[i].seq # {}
    BY <1>3
  <2> HIDE DEF S
  <2> QED BY <1>3, <1>6, <2>1, <2>2
<1>8. \A i \in Cell : d[i].seq = {} /\ d[i].src = i => c[i].seq = {} /\ c[i].src = i
  <2> HIDE DEF S
  <2> QED BY <1>3, <1>6
<1> QED BY <1>4, <1>5, <1>7, <1>8 DEF Matched

LEMMA UnsharedIs ==
  ASSUME NEW before, Matched(before.cells, before.tail), NEW ub, Asked(ub),
         NEW a, a = Unshared(before, ub)
  PROVE  /\ Matched(a.cells, a.tail)
         /\ \A s \in SeqId : a.tail[s] = IF s \in Gone(ub) THEN -1 ELSE before.tail[s]
         /\ \A i \in Cell : a.cells[i].seq = {} /\ a.cells[i].src = i =>
              before.cells[i].seq = {} /\ before.cells[i].src = i
<1> DEFINE G == Gone(ub)
           d == LeftCells(before.cells, before.tail, G)
           ul == LeftTails(before.tail, G)
<1>1. a.cells = d /\ a.tail = ul
  BY DEF Unshared, Gone, LeftCells, LeftTails
<1> HIDE DEF G
<1>2. /\ Matched(d, ul)
      /\ \A i \in Cell : d[i].seq = {} /\ d[i].src = i =>
           before.cells[i].seq = {} /\ before.cells[i].src = i
  BY LeftMatched
<1>3. \A s \in SeqId : ul[s] = IF s \in G THEN -1 ELSE before.tail[s]
  BY DEF LeftTails
<1> HIDE DEF d, ul
<1> QED BY <1>1, <1>2, <1>3 DEF G

-----------------------------------------------------------------------------
(* A cell for every set of a micro-batch *)

StartOf(before, ub) == IF before.head > before.used + 2 * Len(ub) THEN 0 ELSE before.head
OwnStart(before, ub) ==
  [cells |-> Unshared(before, ub).cells, tail |-> Unshared(before, ub).tail,
   next |-> FirstEmpty(Unshared(before, ub).cells, StartOf(before, ub)), ok |-> TRUE]
Owning(before, ub) ==
  CHOOSE own : own = [k \in 0 .. Len(ub) |->
    IF k = 0 THEN OwnStart(before, ub) ELSE OwnCell(own[k - 1], First(ub[k]))]

\* The loop that looks for cells goes one set further at every step.
LEMMA OwningIs ==
  ASSUME NEW before, NEW ub, Asked(ub)
  PROVE  /\ Owning(before, ub)[0] = OwnStart(before, ub)
         /\ \A k \in 0 .. Len(ub) - 1 : Owning(before, ub)[k + 1] = OwnCell(Owning(before, ub)[k], First(ub[k + 1]))
         /\ Owned(before, ub) = Owning(before, ub)[Len(ub)]
<1> DEFINE b == OwnStart(before, ub)
           Step(m, k) == OwnCell(m, First(ub[k]))
           N == Len(ub)
           Does(g, n) == g = [k \in 0 .. n |-> IF k = 0 THEN b ELSE Step(g[k - 1], k)]
           T == {n \in Nat : \E g : Does(g, n)}
<1>0. N \in Nat
  BY DEF Asked
<1>1. 0 \in T
  <2>1. Does([k \in 0 .. 0 |-> b], 0)
    <3> HIDE DEF b, Step
    <3> QED OBVIOUS
  <2> QED BY <2>1
<1>2. \A n \in 0 .. N - 1 : n \in T => n + 1 \in T
  <2> HIDE DEF b, Step, N
  <2> TAKE n \in 0 .. N - 1
  <2> HAVE n \in T
  <2>1. PICK g : Does(g, n)
    OBVIOUS
  <2> DEFINE h == [k \in 0 .. n + 1 |-> IF k <= n THEN g[k] ELSE Step(g[n], n + 1)]
  <2>2. ASSUME NEW k \in 0 .. n + 1
        PROVE  h[k] = IF k = 0 THEN b ELSE Step(h[k - 1], k)
    <3>1. CASE k = 0
      BY <2>1, <3>1
    <3>2. CASE k # 0 /\ k <= n
      <4>1. k \in 0 .. n /\ k - 1 \in 0 .. n + 1 /\ k - 1 <= n
        BY <3>2
      <4>2. h[k] = g[k] /\ h[k - 1] = g[k - 1]
        BY <3>2, <4>1
      <4>3. g[k] = Step(g[k - 1], k)
        BY <2>1, <3>2, <4>1
      <4> QED BY <3>2, <4>2, <4>3
    <3>3. CASE k = n + 1
      <4>1. n \in 0 .. n + 1 /\ k - 1 = n /\ ~ k <= n /\ k # 0
        BY <3>3
      <4>2. h[k] = Step(g[n], n + 1) /\ h[n] = g[n]
        BY <4>1
      <4> QED BY <3>3, <4>1, <4>2
    <3> QED BY <3>1, <3>2, <3>3
  <2>3. Does(h, n + 1)
    BY <2>2
  <2>4. \E f : Does(f, n + 1)
    BY <2>3
  <2>5. n + 1 \in Nat
    OBVIOUS
  <2> QED BY <2>4, <2>5
<1>3. N \in T
  <2> HIDE DEF T, N
  <2>1. \A n \in 0 .. N : n \in T
    BY <1>0, <1>1, <1>2, UpFromZero
  <2> QED BY <1>0, <2>1
<1>4. Does(Owning(before, ub), N)
  <2>1. Owning(before, ub) = CHOOSE f : Does(f, N)
    BY DEF Owning
  <2> HIDE DEF Does, N
  <2> QED BY <1>3, <2>1
<1>5. \A k \in 0 .. N - 1 : k + 1 \in 0 .. N /\ k + 1 # 0 /\ (k + 1) - 1 = k
  BY <1>0
<1>6. Owning(before, ub)[0] = b /\ \A k \in 0 .. N - 1 : Owning(before, ub)[k + 1] = Step(Owning(before, ub)[k], k + 1)
  <2> HIDE DEF b, Step, N
  <2> QED BY <1>0, <1>4, <1>5
<1>7. Owned(before, ub) = Owning(before, ub)[Len(ub)]
  BY DEF Owned, Owning, OwnStart, StartOf
<1> QED BY <1>6, <1>7

PlaceStart(owned) == [cells |-> owned.cells, tail |-> owned.tail]
PlaceStep(m, min, ub, k) == Swapped(m, min + k - 1, m.tail[First(ub[k])])
Placing(owned, min, ub) ==
  CHOOSE place : place = [k \in 0 .. Len(ub) |->
    IF k = 0 THEN PlaceStart(owned) ELSE PlaceStep(place[k - 1], min, ub, k)]

\* So does the loop that puts them in order.
LEMMA PlacingIs ==
  ASSUME NEW owned, NEW min, NEW ub, Asked(ub)
  PROVE  /\ Placing(owned, min, ub)[0] = PlaceStart(owned)
         /\ \A k \in 0 .. Len(ub) - 1 : Placing(owned, min, ub)[k + 1] = PlaceStep(Placing(owned, min, ub)[k], min, ub, k + 1)
         /\ Gathered(owned, min, ub) = Placing(owned, min, ub)[Len(ub)]
<1> DEFINE b == PlaceStart(owned)
           Step(m, k) == PlaceStep(m, min, ub, k)
           N == Len(ub)
           Does(g, n) == g = [k \in 0 .. n |-> IF k = 0 THEN b ELSE Step(g[k - 1], k)]
           T == {n \in Nat : \E g : Does(g, n)}
<1>0. N \in Nat
  BY DEF Asked
<1>1. 0 \in T
  <2>1. Does([k \in 0 .. 0 |-> b], 0)
    <3> HIDE DEF b, Step
    <3> QED OBVIOUS
  <2> QED BY <2>1
<1>2. \A n \in 0 .. N - 1 : n \in T => n + 1 \in T
  <2> HIDE DEF b, Step, N
  <2> TAKE n \in 0 .. N - 1
  <2> HAVE n \in T
  <2>1. PICK g : Does(g, n)
    OBVIOUS
  <2> DEFINE h == [k \in 0 .. n + 1 |-> IF k <= n THEN g[k] ELSE Step(g[n], n + 1)]
  <2>2. ASSUME NEW k \in 0 .. n + 1
        PROVE  h[k] = IF k = 0 THEN b ELSE Step(h[k - 1], k)
    <3>1. CASE k = 0
      BY <2>1, <3>1
    <3>2. CASE k # 0 /\ k <= n
      <4>1. k \in 0 .. n /\ k - 1 \in 0 .. n + 1 /\ k - 1 <= n
        BY <3>2
      <4>2. h[k] = g[k] /\ h[k - 1] = g[k - 1]
        BY <3>2, <4>1
      <4>3. g[k] = Step(g[k - 1], k)
        BY <2>1, <3>2, <4>1
      <4> QED BY <3>2, <4>2, <4>3
    <3>3. CASE k = n + 1
      <4>1. n \in 0 .. n + 1 /\ k - 1 = n /\ ~ k <= n /\ k # 0
        BY <3>3
      <4>2. h[k] = Step(g[n], n + 1) /\ h[n] = g[n]
        BY <4>1
      <4> QED BY <3>3, <4>1, <4>2
    <3> QED BY <3>1, <3>2, <3>3
  <2>3. Does(h, n + 1)
    BY <2>2
  <2>4. \E f : Does(f, n + 1)
    BY <2>3
  <2>5. n + 1 \in Nat
    OBVIOUS
  <2> QED BY <2>4, <2>5
<1>3. N \in T
  <2> HIDE DEF T, N
  <2>1. \A n \in 0 .. N : n \in T
    BY <1>0, <1>1, <1>2, UpFromZero
  <2> QED BY <1>0, <2>1
<1>4. Does(Placing(owned, min, ub), N)
  <2>1. Placing(owned, min, ub) = CHOOSE f : Does(f, N)
    BY DEF Placing
  <2> HIDE DEF Does, N
  <2> QED BY <1>3, <2>1
<1>5. \A k \in 0 .. N - 1 : k + 1 \in 0 .. N /\ k + 1 # 0 /\ (k + 1) - 1 = k
  BY <1>0
<1>6. Placing(owned, min, ub)[0] = b /\ \A k \in 0 .. N - 1 : Placing(owned, min, ub)[k + 1] = Step(Placing(owned, min, ub)[k], k + 1)
  <2> HIDE DEF b, Step, N
  <2> QED BY <1>0, <1>4, <1>5
<1>7. Gathered(owned, min, ub) = Placing(owned, min, ub)[Len(ub)]
  BY DEF Gathered, Placing, PlaceStart, PlaceStep
<1> QED BY <1>6, <1>7

\* Every sequence of a cell has it as its tail, and a sequence that had a cell has
\* one; it is filled from the row of its old tail.
Dwell(m, tl) ==
    /\ m.cells \in [Cell -> CellType] /\ m.tail \in [SeqId -> Cell \cup {-1}]
    /\ \A s \in SeqId, i \in Cell :
          s \in m.cells[i].seq => m.tail[s] = i /\ m.cells[i].src = tl[s]
    /\ \A s \in SeqId : tl[s] # -1 => m.tail[s] # -1 /\ s \in m.cells[m.tail[s]].seq
    /\ \A s \in SeqId : tl[s] = -1 /\ m.tail[s] # -1 => m.cells[m.tail[s]].seq = {}
    /\ \A i \in Cell : m.cells[i].seq # {} <=> m.cells[i].pos >= 0

\* the first k sets of a micro-batch have a cell to themselves
Owns(m, ub, k) ==
    \A j \in 1 .. k : /\ m.tail[First(ub[j])] # -1
                      /\ \A t \in SeqId : m.tail[t] = m.tail[First(ub[j])] => t = First(ub[j])

Taken(m, i) == \E s \in SeqId : m.tail[s] = i

\* As long as a cell is free, next is: the cells the search went past are taken,
\* and an empty one that it did not meet is free.
Ahead(m, start) ==
    (\E i \in Cell : ~Taken(m, i)) =>
       /\ m.next \in Cell /\ ~Taken(m, m.next) /\ m.cells[m.next].seq = {}
       /\ \A i \in Cell : Between(start, m.next, i) => Taken(m, i)
       /\ \A i \in Cell : ~Between(start, m.next, i) /\ m.cells[i].seq = {} => ~Taken(m, i)

OwnInv(a, start, ub, m, k) ==
    /\ m.ok = TRUE
    /\ Dwell(m, a.tail) /\ Owns(m, ub, k)
    /\ \A s \in SeqId : (\A j \in 1 .. k : s # First(ub[j])) => m.tail[s] = a.tail[s]
    /\ \A i \in Cell : m.cells[i].seq = {} => m.cells[i] = a.cells[i]
    /\ \A i \in Cell : \/ m.cells[i].src = a.cells[i].src
                       \/ \E j \in 1 .. k : m.tail[First(ub[j])] = i
    /\ Ahead(m, start)

\* s has left the cell old for the cell e
MovedOut(c, d, s, old, e) ==
    /\ old \in Cell
    /\ d[e].pos = c[old].pos /\ d[e].src = c[old].src /\ d[e].seq = {s}
    /\ d[old].pos = c[old].pos /\ d[old].src = c[old].src /\ d[old].seq = c[old].seq \ {s}
    /\ \A i \in Cell \ {e, old} : d[i] = c[i]

\* s gets the cell e, and the search goes on behind it
Gets(m, s, old, e, r) ==
    /\ r.cells \in [Cell -> CellType]
    /\ r.tail = [m.tail EXCEPT ![s] = e]
    /\ r.next = FirstEmpty(r.cells, e + 1)
    /\ r.ok = (m.ok /\ m.cells[e].seq = {} /\ (old >= 0 => s \in m.cells[old].seq))
    /\ old = -1 => r.cells = m.cells
    /\ old # -1 => MovedOut(m.cells, r.cells, s, old, e)

\* What OwnCell does for a sequence that has no cell of its own.
LEMMA OwnCellIs ==
  ASSUME NEW m, m.cells \in [Cell -> CellType], m.tail \in [SeqId -> Cell \cup {-1}],
         NEW s \in SeqId, NEW e \in Cell, e = m.next, NEW old, old = m.tail[s], old # e,
         ~(old >= 0 /\ m.cells[old].seq = {s}), NEW r, r = OwnCell(m, s)
  PROVE  Gets(m, s, old, e, r)
<1>1. old \in Cell \cup {-1} /\ (old \in Cell <=> old >= 0) /\ (old = -1 <=> ~ old >= 0)
  BY SizeIs
<1> DEFINE c == m.cells
           moved == [c EXCEPT ![e].pos = c[old].pos, ![e].src = c[old].src, ![e].seq = {s},
                              ![old].seq = @ \ {s}]
           next == IF old >= 0 THEN moved ELSE c
<1>2. r = [cells |-> next, tail |-> [m.tail EXCEPT ![s] = e], next |-> FirstEmpty(next, e + 1),
           ok |-> m.ok /\ m.cells[e].seq = {} /\ (old >= 0 => s \in m.cells[old].seq)]
  BY ZenonT(60) DEF OwnCell
<1>3. ASSUME old # -1
      PROVE  /\ next \in [Cell -> CellType]
             /\ MovedOut(c, next, s, old, e)
  <2>1. old \in Cell /\ next = moved
    BY <1>1, <1>3
  <2> HIDE DEF c
  <2>2. c \in [Cell -> CellType]
    BY DEF c
  <2>3. /\ c[e] = [pos |-> c[e].pos, src |-> c[e].src, seq |-> c[e].seq]
        /\ c[old] = [pos |-> c[old].pos, src |-> c[old].src, seq |-> c[old].seq]
        /\ c[old].pos \in Int /\ c[old].src \in Cell \cup {-1} /\ c[old].seq \in SUBSET SeqId
    BY <2>1, <2>2 DEF CellType
  <2>4. /\ moved[e] = [pos |-> c[old].pos, src |-> c[old].src, seq |-> {s}]
        /\ moved[old] = [pos |-> c[old].pos, src |-> c[old].src, seq |-> c[old].seq \ {s}]
        /\ \A i \in Cell \ {e, old} : moved[i] = c[i]
        /\ moved = [i \in Cell |-> moved[i]]
    BY <2>1, <2>2, <2>3, ZenonT(60)
  <2>5. c[old].seq \ {s} \in SUBSET SeqId /\ {s} \in SUBSET SeqId
    BY <2>3
  <2> HIDE DEF moved
  <2>6. moved[e] \in CellType /\ moved[old] \in CellType
    BY <2>3, <2>4, <2>5 DEF CellType
  <2>7. \A i \in Cell : moved[i] \in CellType
    BY <2>2, <2>4, <2>6
  <2>8. moved \in [Cell -> CellType]
    BY <2>4, <2>7
  <2>9. MovedOut(c, moved, s, old, e)
    BY <2>1, <2>4 DEF MovedOut
  <2> QED BY <2>1, <2>8, <2>9
<1>4. old = -1 => next = c
  BY <1>1
<1> HIDE DEF next
<1>5. /\ r.cells = next /\ r.tail = [m.tail EXCEPT ![s] = e] /\ r.next = FirstEmpty(next, e + 1)
      /\ r.ok = (m.ok /\ m.cells[e].seq = {} /\ (old >= 0 => s \in m.cells[old].seq))
  BY <1>2
<1> QED BY <1>1, <1>3, <1>4, <1>5 DEF Gets

\* A sequence without a cell of its own finds one: there is a free cell.
LEMMA FreeCell ==
  ASSUME NEW m, NEW tl, Dwell(m, tl), NEW s \in SeqId,
         ~(m.tail[s] >= 0 /\ m.cells[m.tail[s]].seq = {s}),
         m.tail[s] # -1 => tl[s] # -1
  PROVE  /\ \E i \in Cell : ~Taken(m, i)
         /\ m.tail[s] # -1 => /\ m.tail[s] \in Cell /\ s \in m.cells[m.tail[s]].seq
                              /\ m.cells[m.tail[s]].seq \ {s} # {}
<1> DEFINE old == m.tail[s]
<1>1. /\ m.cells \in [Cell -> CellType] /\ m.tail \in [SeqId -> Cell \cup {-1}]
      /\ \A t \in SeqId, i \in Cell : t \in m.cells[i].seq => m.tail[t] = i
      /\ \A t \in SeqId : tl[t] # -1 => m.tail[t] # -1 /\ t \in m.cells[m.tail[t]].seq
  BY DEF Dwell
<1>2. CASE old = -1
  <2> DEFINE S == {t \in SeqId : m.tail[t] # -1}
  <2>1. S \in SUBSET SeqId /\ s \notin S
    BY <1>2
  <2>2. \A t \in SeqId : t \in S <=> m.tail[t] # -1
    OBVIOUS
  <2> HIDE DEF S
  <2>3. PICK i \in Cell : \A t \in S : m.tail[t] # i
    BY <2>1, RoomLeft
  <2>4. \A t \in SeqId : m.tail[t] # i
    BY <2>2, <2>3, SizeIs
  <2> QED BY <1>2, <2>4 DEF Taken
<1>3. CASE old # -1
  <2>1. old \in Cell /\ old >= 0 /\ s \in m.cells[old].seq
    BY <1>1, <1>3, SizeIs
  <2>2. m.cells[old].seq \ {s} # {} /\ m.cells[old].seq # {s}
    BY <2>1
  <2>3. PICK t \in m.cells[old].seq : t # s
    BY <2>2
  <2>4. t \in SeqId /\ m.tail[t] = old
    <3>1. m.cells[old] \in CellType
      BY <1>1, <2>1
    <3>2. m.cells[old].seq \in SUBSET SeqId
      BY <3>1 DEF CellType
    <3> QED BY <1>1, <2>1, <2>3, <3>2
  <2> DEFINE S == SeqId \ {s}
  <2>5. S \in SUBSET SeqId /\ S # SeqId /\ t \in S
    BY <2>3, <2>4
  <2>6. PICK i \in Cell : \A x \in S : m.tail[x] # i
    BY <2>5, RoomLeft
  <2>7. \A x \in SeqId : m.tail[x] # i
    <3>1. m.tail[t] # i
      BY <2>5, <2>6
    <3>2. m.tail[s] # i
      BY <2>4, <3>1
    <3> QED BY <2>6, <3>2
  <2> QED BY <2>1, <2>2, <2>7 DEF Taken
<1> QED BY <1>2, <1>3

\* Nothing changes for a sequence that has a cell of its own.
LEMMA OwnsAlready ==
  ASSUME NEW m, NEW tl, Dwell(m, tl), NEW s \in SeqId,
         m.tail[s] >= 0, m.cells[m.tail[s]].seq = {s}
  PROVE  m.tail[s] # -1 /\ \A t \in SeqId : m.tail[t] = m.tail[s] => t = s
<1>1. /\ m.tail \in [SeqId -> Cell \cup {-1}]
      /\ \A t \in SeqId : tl[t] # -1 => m.tail[t] # -1 /\ t \in m.cells[m.tail[t]].seq
      /\ \A t \in SeqId : tl[t] = -1 /\ m.tail[t] # -1 => m.cells[m.tail[t]].seq = {}
  BY DEF Dwell
<1>2. m.tail[s] # -1
  BY SizeIs
<1>3. ASSUME NEW t \in SeqId, m.tail[t] = m.tail[s]
      PROVE  t = s
  <2>1. m.cells[m.tail[t]].seq = {s} /\ m.tail[t] # -1
    BY <1>2, <1>3
  <2>2. t \in m.cells[m.tail[t]].seq
    BY <1>1, <2>1
  <2> QED BY <2>1, <2>2
<1> QED BY <1>2, <1>3

\* The search goes on from the cell that was taken.
LEMMA AheadStep ==
  ASSUME NEW m, NEW tl, Dwell(m, tl), NEW start \in Cell, Ahead(m, start),
         NEW s \in SeqId, NEW old, NEW e \in Cell, e = m.next, ~Taken(m, e),
         NEW r, Gets(m, s, old, e, r),
         m.tail[s] # -1 => \E t \in SeqId : t # s /\ m.tail[t] = m.tail[s],
         \A i \in Cell \ {e} : r.cells[i].seq = {} <=> m.cells[i].seq = {}
  PROVE  Ahead(r, start)
<1>0. /\ m.cells \in [Cell -> CellType] /\ m.tail \in [SeqId -> Cell \cup {-1}]
      /\ \A t \in SeqId, i \in Cell : t \in m.cells[i].seq => m.tail[t] = i
      /\ r.cells \in [Cell -> CellType] /\ r.tail = [m.tail EXCEPT ![s] = e]
      /\ r.next = FirstEmpty(r.cells, e + 1)
  BY DEF Dwell, Gets
<1>1. SUFFICES ASSUME NEW i \in Cell, ~Taken(r, i)
               PROVE  /\ r.next \in Cell /\ ~Taken(r, r.next) /\ r.cells[r.next].seq = {}
                      /\ \A j \in Cell : Between(start, r.next, j) => Taken(r, j)
                      /\ \A j \in Cell : ~Between(start, r.next, j) /\ r.cells[j].seq = {}
                           => ~Taken(r, j)
  BY DEF Ahead
<1>2. \A t \in SeqId : r.tail[t] = IF t = s THEN e ELSE m.tail[t]
  BY <1>0
<1>3. \A j \in Cell : Taken(r, j) <=> j = e \/ Taken(m, j)
  <2> TAKE j \in Cell
  <2>1. Taken(r, j) => j = e \/ Taken(m, j)
    BY <1>2 DEF Taken
  <2>2. j = e => Taken(r, j)
    BY <1>2 DEF Taken
  <2>3. ASSUME Taken(m, j)
        PROVE  Taken(r, j)
    <3>1. PICK t \in SeqId : m.tail[t] = j
      BY <2>3 DEF Taken
    <3>2. CASE t # s
      BY <1>2, <3>1, <3>2 DEF Taken
    <3>3. CASE t = s
      <4>1. m.tail[s] # -1
        BY <3>1, <3>3, SizeIs
      <4>2. PICK x \in SeqId : x # s /\ m.tail[x] = j
        BY <3>1, <3>3, <4>1
      <4> QED BY <1>2, <4>2 DEF Taken
    <3> QED BY <3>2, <3>3
  <2> QED BY <2>1, <2>2, <2>3
<1>4. i # e /\ ~Taken(m, i)
  BY <1>1, <1>3
<1>5. /\ m.cells[e].seq = {}
      /\ \A j \in Cell : Between(start, e, j) => Taken(m, j)
      /\ \A j \in Cell : ~Between(start, e, j) /\ m.cells[j].seq = {} => ~Taken(m, j)
  BY <1>4 DEF Ahead
<1>6. \A j \in Cell : m.cells[j].seq # {} => Taken(m, j)
  <2> TAKE j \in Cell
  <2>1. m.cells[j] \in CellType
    BY <1>0
  <2>2. m.cells[j].seq \in SUBSET SeqId
    BY <2>1 DEF CellType
  <2> QED BY <1>0, <2>2 DEF Taken
<1>7. ~Between(start, e, i) /\ r.cells[i].seq = {}
  BY <1>4, <1>5, <1>6
<1> DEFINE n == r.next
<1>8. /\ n \in Cell /\ r.cells[n].seq = {}
      /\ \A j \in Cell : Between(e + 1, n, j) => r.cells[j].seq # {}
  <2>1. e + 1 \in 0 .. NCells
    BY SizeIs
  <2> QED BY <1>0, <1>7, <2>1, FirstEmptyIs
<1> HIDE DEF n
<1>9. ~Between(e + 1, n, i)
  BY <1>7, <1>8
<1>10. /\ \A j \in Cell : Between(start, n, j) <=> Between(start, e, j) \/ j = e \/ Between(e + 1, n, j)
       /\ ~Between(start, e, n) /\ n # e
  <2>1. NCells \in Nat /\ Cell = 0 .. NCells - 1
    BY SizeIs
  <2>2. /\ start \in 0 .. NCells - 1 /\ e \in 0 .. NCells - 1 /\ n \in 0 .. NCells - 1
        /\ i \in 0 .. NCells - 1
    BY <1>8, <2>1
  <2>3. ~Between(start, e, i) /\ i # e /\ ~Between(e + 1, n, i)
    BY <1>4, <1>7, <1>9
  <2>4. /\ \A j \in 0 .. NCells - 1 :
             Between(start, n, j) <=> Between(start, e, j) \/ j = e \/ Between(e + 1, n, j)
        /\ ~Between(start, e, n) /\ n # e
    BY <2>1, <2>2, <2>3, BetweenOn
  <2> QED BY <2>1, <2>4
<1>11. ~Taken(r, n)
  BY <1>3, <1>5, <1>8, <1>10
<1>12. \A j \in Cell : Between(start, n, j) => Taken(r, j)
  <2> TAKE j \in Cell
  <2> HAVE Between(start, n, j)
  <2>1. CASE Between(start, e, j) \/ j = e
    BY <1>3, <1>5, <2>1
  <2>2. CASE Between(e + 1, n, j) /\ j # e
    BY <1>3, <1>6, <1>8, <2>2
  <2> QED BY <1>10, <2>1, <2>2
<1>13. \A j \in Cell : ~Between(start, n, j) /\ r.cells[j].seq = {} => ~Taken(r, j)
  BY <1>3, <1>5, <1>10
<1> QED BY <1>8, <1>11, <1>12, <1>13 DEF n

\* The next set gets its cell.
LEMMA OwnStep ==
  ASSUME NEW a, Matched(a.cells, a.tail), NEW start \in Cell, NEW ub, Asked(ub),
         NEW k \in 0 .. Len(ub) - 1, NEW m, OwnInv(a, start, ub, m, k),
         NEW r, r = OwnCell(m, First(ub[k + 1]))
  PROVE  OwnInv(a, start, ub, r, k + 1)
<1> DEFINE P(j) == First(ub[j])
<1>0. PICK s : s = First(ub[k + 1])
  OBVIOUS
<1>1. /\ k \in Nat /\ k + 1 \in 1 .. Len(ub) /\ k + 1 \in DOMAIN ub
      /\ \A j : j \in 1 .. k + 1 <=> j \in 1 .. k \/ j = k + 1
      /\ \A j \in 1 .. k : j \in DOMAIN ub /\ j # k + 1
      /\ k + 1 \in 1 .. k + 1
  BY DEF Asked
<1>2. s \in SeqId /\ P(k + 1) = s /\ \A j \in 1 .. k : P(j) # s /\ P(j) \in SeqId
  BY <1>0, <1>1, FirstsApart
<1> HIDE DEF P
<1>3. /\ m.ok = TRUE /\ Dwell(m, a.tail) /\ Owns(m, ub, k) /\ Ahead(m, start)
      /\ \A t \in SeqId : (\A j \in 1 .. k : t # P(j)) => m.tail[t] = a.tail[t]
      /\ \A i \in Cell : m.cells[i].seq = {} => m.cells[i] = a.cells[i]
      /\ \A i \in Cell : m.cells[i].src = a.cells[i].src \/ \E j \in 1 .. k : m.tail[P(j)] = i
  BY DEF OwnInv, P
<1>4. /\ m.cells \in [Cell -> CellType] /\ m.tail \in [SeqId -> Cell \cup {-1}]
      /\ \A t \in SeqId, i \in Cell :
            t \in m.cells[i].seq => m.tail[t] = i /\ m.cells[i].src = a.tail[t]
      /\ \A t \in SeqId : a.tail[t] # -1 => m.tail[t] # -1 /\ t \in m.cells[m.tail[t]].seq
      /\ \A t \in SeqId : a.tail[t] = -1 /\ m.tail[t] # -1 => m.cells[m.tail[t]].seq = {}
      /\ \A i \in Cell : m.cells[i].seq # {} <=> m.cells[i].pos >= 0
  BY <1>3 DEF Dwell
<1>5. /\ a.tail[s] = m.tail[s]
      /\ \A j \in 1 .. k : m.tail[P(j)] # -1
      /\ \A j \in 1 .. k : \A t \in SeqId : m.tail[t] = m.tail[P(j)] => t = P(j)
  BY <1>2, <1>3 DEF Owns, P
<1>6. CASE m.tail[s] >= 0 /\ m.cells[m.tail[s]].seq = {s}
  <2>1. r = m
    BY <1>0, <1>6 DEF OwnCell
  <2>2. m.tail[s] # -1 /\ \A t \in SeqId : m.tail[t] = m.tail[s] => t = s
    BY <1>2, <1>3, <1>6, OwnsAlready
  <2>3. Owns(m, ub, k + 1)
    BY <1>1, <1>2, <1>5, <2>2 DEF Owns, P
  <2>4. \A t \in SeqId : (\A j \in 1 .. k + 1 : t # P(j)) => m.tail[t] = a.tail[t]
    BY <1>1, <1>3
  <2>5. \A i \in Cell : m.cells[i].src = a.cells[i].src \/ \E j \in 1 .. k + 1 : m.tail[P(j)] = i
    BY <1>1, <1>3
  <2> QED BY <1>3, <2>1, <2>3, <2>4, <2>5 DEF OwnInv, P
<1>7. CASE ~(m.tail[s] >= 0 /\ m.cells[m.tail[s]].seq = {s})
  <2>0. PICK old, e : old = m.tail[s] /\ e = m.next
    OBVIOUS
  <2>1. /\ \E i \in Cell : ~Taken(m, i)
        /\ old # -1 => old \in Cell /\ s \in m.cells[old].seq /\ m.cells[old].seq \ {s} # {}
    BY <1>2, <1>3, <1>5, <1>7, <2>0, FreeCell
  <2>2. e \in Cell /\ ~Taken(m, e) /\ m.cells[e].seq = {}
    BY <1>3, <2>0, <2>1 DEF Ahead
  <2>3. \A t \in SeqId : m.tail[t] # e
    BY <2>2 DEF Taken
  <2>4. old # e /\ ~(old >= 0 /\ m.cells[old].seq = {s})
    BY <1>2, <1>7, <2>0, <2>3
  <2>G. Gets(m, s, old, e, r)
    <3>1. /\ m.cells \in [Cell -> CellType] /\ m.tail \in [SeqId -> Cell \cup {-1}]
          /\ s \in SeqId /\ e \in Cell /\ e = m.next /\ old = m.tail[s] /\ r = OwnCell(m, s)
      BY <1>0, <1>2, <1>4, <2>0, <2>2
    <3> QED BY <2>4, <3>1, OwnCellIs
  <2>5. /\ r.cells \in [Cell -> CellType]
        /\ r.tail = [m.tail EXCEPT ![s] = e]
        /\ r.ok = (m.ok /\ m.cells[e].seq = {} /\ (old >= 0 => s \in m.cells[old].seq))
        /\ old = -1 => r.cells = m.cells
        /\ old # -1 => MovedOut(m.cells, r.cells, s, old, e)
    BY <2>G DEF Gets
  <2>6. \A t \in SeqId : r.tail[t] = IF t = s THEN e ELSE m.tail[t]
    BY <1>4, <2>5
  <2>7. old \in Cell \cup {-1} /\ (old >= 0 => old # -1) /\ e # -1
    <3>1. old \in Cell \cup {-1}
      BY <1>2, <1>4, <2>0
    <3> QED BY <2>2, <3>1, SizeIs
  <2>8. r.ok = TRUE
    BY <1>3, <2>1, <2>2, <2>5, <2>7
  <2>9. /\ \A i \in Cell : r.cells[i].seq = IF old = -1 THEN m.cells[i].seq
                                            ELSE IF i = e THEN {s}
                                            ELSE IF i = old THEN m.cells[i].seq \ {s}
                                            ELSE m.cells[i].seq
        /\ \A i \in Cell : r.cells[i].pos = IF old # -1 /\ i = e THEN m.cells[old].pos ELSE m.cells[i].pos
        /\ \A i \in Cell : r.cells[i].src = IF old # -1 /\ i = e THEN m.cells[old].src ELSE m.cells[i].src
        /\ \A i \in Cell : i # old /\ (i # e \/ old = -1) => r.cells[i] = m.cells[i]
    <3>1. CASE old = -1
      BY <2>5, <3>1
    <3>2. CASE old # -1
      <4>0. MovedOut(m.cells, r.cells, s, old, e)
        BY <2>5, <3>2
      <4>1. /\ old # e
            /\ r.cells[e].pos = m.cells[old].pos /\ r.cells[e].src = m.cells[old].src
            /\ r.cells[e].seq = {s}
            /\ r.cells[old].pos = m.cells[old].pos /\ r.cells[old].src = m.cells[old].src
            /\ r.cells[old].seq = m.cells[old].seq \ {s}
            /\ \A i \in Cell \ {e, old} : r.cells[i] = m.cells[i]
        BY <2>4, <4>0 DEF MovedOut
      <4>2. ASSUME NEW i \in Cell
            PROVE  /\ r.cells[i].seq = IF i = e THEN {s} ELSE IF i = old THEN m.cells[i].seq \ {s}
                                       ELSE m.cells[i].seq
                   /\ r.cells[i].pos = IF i = e THEN m.cells[old].pos ELSE m.cells[i].pos
                   /\ r.cells[i].src = IF i = e THEN m.cells[old].src ELSE m.cells[i].src
                   /\ i # old /\ i # e => r.cells[i] = m.cells[i]
        <5>1. CASE i = e
          BY <4>1, <5>1
        <5>2. CASE i = old
          BY <4>1, <5>2
        <5>3. CASE i \in Cell \ {e, old}
          BY <4>1, <5>3
        <5> QED BY <5>1, <5>2, <5>3
      <4> QED BY <3>2, <4>2
    <3> QED BY <3>1, <3>2
  <2>10. r.tail \in [SeqId -> Cell \cup {-1}]
    <3>1. e \in Cell \cup {-1}
      BY <2>2
    <3>2. r.tail = [m.tail EXCEPT ![s] = e] /\ m.tail \in [SeqId -> Cell \cup {-1}]
      BY <1>4, <2>5
    <3> QED BY <3>1, <3>2
  <2>11. ASSUME NEW t \in SeqId, NEW i \in Cell, t \in r.cells[i].seq
         PROVE  r.tail[t] = i /\ r.cells[i].src = a.tail[t]
    <3>1. CASE old = -1
      <4>1. t \in m.cells[i].seq /\ r.cells[i].src = m.cells[i].src
        BY <2>9, <2>11, <3>1
      <4>2. m.tail[t] = i /\ m.cells[i].src = a.tail[t]
        BY <1>4, <4>1
      <4>3. t # s
        BY <2>0, <2>7, <3>1, <4>2, SizeIs
      <4> QED BY <2>6, <4>1, <4>2, <4>3
    <3>2. CASE old # -1 /\ i = e
      <4>1. t = s /\ r.cells[i].src = m.cells[old].src
        BY <2>9, <2>11, <3>2
      <4>2. m.cells[old].src = a.tail[s]
        BY <1>2, <1>4, <2>1, <3>2
      <4> QED BY <2>6, <3>2, <4>1, <4>2
    <3>3. CASE old # -1 /\ i # e
      <4>1. t \in m.cells[i].seq /\ r.cells[i].src = m.cells[i].src /\ (i = old => t # s)
        BY <2>9, <2>11, <3>3
      <4>2. m.tail[t] = i /\ m.cells[i].src = a.tail[t]
        BY <1>4, <4>1
      <4>3. t # s
        BY <2>0, <4>1, <4>2
      <4> QED BY <2>6, <4>1, <4>2, <4>3
    <3> QED BY <3>1, <3>2, <3>3
  <2>12. ASSUME NEW t \in SeqId, a.tail[t] # -1
         PROVE  r.tail[t] # -1 /\ t \in r.cells[r.tail[t]].seq
    <3>1. m.tail[t] # -1 /\ t \in m.cells[m.tail[t]].seq /\ m.tail[t] \in Cell /\ m.tail[t] # e
      BY <1>4, <2>3, <2>12
    <3>2. CASE t = s
      <4>1. old # -1 /\ r.tail[t] = e
        BY <2>0, <2>6, <3>1, <3>2
      <4> QED BY <2>2, <2>7, <2>9, <3>2, <4>1
    <3>3. CASE t # s
      <4>1. r.tail[t] = m.tail[t]
        BY <2>6, <3>3
      <4>2. t \in r.cells[m.tail[t]].seq
        BY <2>9, <3>1, <3>3
      <4> QED BY <3>1, <4>1, <4>2
    <3> QED BY <3>2, <3>3
  <2>13. ASSUME NEW t \in SeqId, a.tail[t] = -1, r.tail[t] # -1
         PROVE  r.cells[r.tail[t]].seq = {}
    <3>1. CASE t = s
      <4>1. old = -1 /\ r.tail[t] = e
        BY <1>5, <2>0, <2>6, <2>13, <3>1
      <4> QED BY <2>2, <2>9, <4>1
    <3>2. CASE t # s
      <4>1. r.tail[t] = m.tail[t] /\ m.tail[t] \in Cell /\ m.tail[t] # e
        BY <1>4, <2>3, <2>6, <2>13, <3>2
      <4>2. m.cells[m.tail[t]].seq = {}
        BY <1>4, <2>13, <4>1, SizeIs
      <4>3. m.tail[t] # old
        BY <2>1, <2>7, <4>1, <4>2, SizeIs
      <4> QED BY <2>9, <4>1, <4>2, <4>3
    <3> QED BY <3>1, <3>2
  <2>14. \A i \in Cell : r.cells[i].seq # {} <=> r.cells[i].pos >= 0
    <3> TAKE i \in Cell
    <3>1. CASE old # -1 /\ i = e
      <4>1. r.cells[i].seq # {} /\ r.cells[i].pos = m.cells[old].pos
        BY <2>9, <3>1
      <4>2. old \in Cell /\ m.cells[old].seq # {}
        BY <2>1, <3>1
      <4> QED BY <1>4, <4>1, <4>2
    <3>2. CASE ~(old # -1 /\ i = e)
      <4>1. r.cells[i].pos = m.cells[i].pos
        BY <2>9, <3>2
      <4>2. r.cells[i].seq = {} <=> m.cells[i].seq = {}
        BY <2>1, <2>9, <3>2
      <4> QED BY <1>4, <4>1, <4>2
    <3> QED BY <3>1, <3>2
  <2>15. Dwell(r, a.tail)
    BY <2>5, <2>10, <2>11, <2>12, <2>13, <2>14 DEF Dwell
  <2>16. Owns(r, ub, k + 1)
    <3> SUFFICES ASSUME NEW j \in 1 .. k + 1
                 PROVE  r.tail[P(j)] # -1 /\ \A t \in SeqId : r.tail[t] = r.tail[P(j)] => t = P(j)
      BY DEF Owns, P
    <3>1. CASE j = k + 1
      BY <1>2, <2>3, <2>6, <2>7, <3>1
    <3>2. CASE j # k + 1
      <4>1. j \in 1 .. k
        BY <1>1, <3>2
      <4>2. r.tail[P(j)] = m.tail[P(j)] /\ m.tail[P(j)] # e
        BY <1>2, <2>3, <2>6, <4>1
      <4> QED BY <1>2, <1>5, <2>6, <4>1, <4>2
    <3> QED BY <3>1, <3>2
  <2>17. \A t \in SeqId : (\A j \in 1 .. k + 1 : t # P(j)) => r.tail[t] = a.tail[t]
    BY <1>1, <1>2, <1>3, <2>6
  <2>18. \A i \in Cell : r.cells[i].seq = {} => r.cells[i] = a.cells[i]
    <3> TAKE i \in Cell
    <3> HAVE r.cells[i].seq = {}
    <3>1. ~(old # -1 /\ (i = e \/ i = old))
      BY <2>1, <2>9
    <3>2. i # old
      BY <2>7, <3>1, SizeIs
    <3>3. r.cells[i] = m.cells[i]
      BY <2>9, <3>1, <3>2
    <3> QED BY <1>3, <3>3
  <2>19. \A i \in Cell : \/ r.cells[i].src = a.cells[i].src
                         \/ \E j \in 1 .. k + 1 : r.tail[P(j)] = i
    <3> TAKE i \in Cell
    <3>1. CASE i = e
      BY <1>1, <1>2, <2>6, <3>1
    <3>2. CASE i # e
      <4>1. r.cells[i].src = m.cells[i].src
        BY <2>9, <3>2
      <4>2. \A j \in 1 .. k : r.tail[P(j)] = m.tail[P(j)] /\ j \in 1 .. k + 1
        BY <1>1, <1>2, <2>6
      <4> QED BY <1>3, <4>1, <4>2
    <3> QED BY <3>1, <3>2
  <2>20. Ahead(r, start)
    <3>1. \A i \in Cell \ {e} : r.cells[i].seq = {} <=> m.cells[i].seq = {}
      BY <2>1, <2>9
    <3>2. ASSUME m.tail[s] # -1
          PROVE  \E t \in SeqId : t # s /\ m.tail[t] = m.tail[s]
      <4>1. old \in Cell /\ m.cells[old].seq \ {s} # {}
        BY <2>0, <2>1, <3>2
      <4>2. PICK t \in m.cells[old].seq : t # s
        BY <4>1
      <4>3. m.cells[old] \in CellType
        BY <1>4, <4>1
      <4>4. t \in SeqId
        BY <4>2, <4>3 DEF CellType
      <4> QED BY <1>4, <2>0, <4>1, <4>2, <4>4
    <3>3. Dwell(m, a.tail) /\ Ahead(m, start) /\ s \in SeqId /\ e \in Cell /\ e = m.next /\ ~Taken(m, e)
      BY <1>2, <1>3, <2>0, <2>2
    <3> QED BY <2>G, <3>1, <3>2, <3>3, AheadStep
  <2> QED BY <2>8, <2>15, <2>16, <2>17, <2>18, <2>19, <2>20 DEF OwnInv, P
<1> QED BY <1>6, <1>7

\* Every set gets its cell.
LEMMA OwnedIs ==
  ASSUME NEW before, Matched(before.cells, before.tail), before.head \in Cell, before.used \in Int,
         NEW ub, Asked(ub), NEW a, a = Unshared(before, ub)
  PROVE  OwnInv(a, StartOf(before, ub), ub, Owned(before, ub), Len(ub))
<1> DEFINE own == Owning(before, ub)
           start == StartOf(before, ub)
           N == Len(ub)
           T == {n \in 0 .. N : OwnInv(a, start, ub, own[n], n)}
<1>1. /\ N \in Nat
      /\ own[0] = OwnStart(before, ub)
      /\ \A k \in 0 .. N - 1 : own[k + 1] = OwnCell(own[k], First(ub[k + 1]))
      /\ Owned(before, ub) = own[N]
  BY OwningIs DEF Asked
<1>2. start \in Cell
  BY SizeIs DEF StartOf
<1>3. Matched(a.cells, a.tail)
  BY UnsharedIs
<1>4. OwnInv(a, start, ub, own[0], 0)
  <2> DEFINE m == own[0]
  <2>1. m.cells = a.cells /\ m.tail = a.tail /\ m.next = FirstEmpty(a.cells, start) /\ m.ok = TRUE
    BY <1>1 DEF OwnStart
  <2> HIDE DEF m, start
  <2>2. /\ a.cells \in [Cell -> CellType] /\ a.tail \in [SeqId -> Cell \cup {-1}]
        /\ \A s \in SeqId, i \in Cell : s \in a.cells[i].seq <=> a.tail[s] = i
    BY <1>3 DEF Matched, Agree
  <2>3. \A i \in Cell : /\ a.cells[i].seq # {} <=> a.cells[i].pos >= 0
                        /\ a.cells[i].seq # {} => a.cells[i].src = i
    BY <1>3 DEF Matched, Home
  <2>4. Dwell(m, a.tail)
    <3>1. /\ m.cells \in [Cell -> CellType] /\ m.tail \in [SeqId -> Cell \cup {-1}]
          /\ \A i \in Cell : m.cells[i].seq # {} <=> m.cells[i].pos >= 0
      BY <2>1, <2>2, <2>3
    <3>2. \A s \in SeqId, i \in Cell :
            s \in m.cells[i].seq => m.tail[s] = i /\ m.cells[i].src = a.tail[s]
      BY <2>1, <2>2, <2>3
    <3>3. \A s \in SeqId : a.tail[s] # -1 => m.tail[s] # -1 /\ s \in m.cells[m.tail[s]].seq
      BY <2>1, <2>2
    <3>4. \A s \in SeqId : a.tail[s] = -1 /\ m.tail[s] # -1 => m.cells[m.tail[s]].seq = {}
      BY <2>1
    <3> QED BY <3>1, <3>2, <3>3, <3>4 DEF Dwell
  <2>5. \A i \in Cell : m.cells[i].seq = {} <=> ~Taken(m, i)
    <3> TAKE i \in Cell
    <3>1. a.cells[i] \in CellType
      BY <2>2
    <3>2. a.cells[i].seq \in SUBSET SeqId
      BY <3>1 DEF CellType
    <3> QED BY <2>1, <2>2, <3>2 DEF Taken
  <2>6. Ahead(m, start)
    <3> SUFFICES ASSUME NEW i \in Cell, ~Taken(m, i)
                 PROVE  /\ m.next \in Cell /\ ~Taken(m, m.next) /\ m.cells[m.next].seq = {}
                        /\ \A j \in Cell : Between(start, m.next, j) => Taken(m, j)
                        /\ \A j \in Cell : ~Between(start, m.next, j) /\ m.cells[j].seq = {}
                             => ~Taken(m, j)
      BY DEF Ahead
    <3>1. start \in 0 .. NCells /\ \E j \in Cell : a.cells[j].seq = {}
      BY <1>2, <2>1, <2>5, SizeIs
    <3>2. /\ m.next \in Cell /\ a.cells[m.next].seq = {}
          /\ \A j \in Cell : Between(start, m.next, j) => a.cells[j].seq # {}
      BY <2>1, <3>1, FirstEmptyIs
    <3> QED BY <2>1, <2>5, <3>2
  <2>7. ~ \E j \in 1 .. 0 : TRUE
    OBVIOUS
  <2>8. Owns(m, ub, 0)
    BY <2>7 DEF Owns
  <2> QED BY <2>1, <2>4, <2>6, <2>8 DEF OwnInv, m
<1>5. 0 \in T
  BY <1>1, <1>4
<1>6. ASSUME NEW n \in 0 .. N - 1, n \in T
      PROVE  n + 1 \in T
  <2>1. n + 1 \in 0 .. N /\ own[n + 1] = OwnCell(own[n], First(ub[n + 1])) /\ OwnInv(a, start, ub, own[n], n)
    BY <1>1, <1>6
  <2> HIDE DEF own, start
  <2>2. OwnInv(a, start, ub, own[n + 1], n + 1)
    BY <1>2, <1>3, <2>1, OwnStep
  <2> QED BY <2>1, <2>2
<1>7. \A n \in 0 .. N : n \in T
  <2> HIDE DEF T, N
  <2> QED BY <1>1, <1>5, <1>6, UpFromZero
<1>8. N \in 0 .. N
  BY <1>1
<1> QED BY <1>1, <1>7, <1>8

-----------------------------------------------------------------------------
(* The sets of a micro-batch come to lie next to each other *)

\* m is owned with its cells in other places: cell i of owned is now cell sg[i]
Renamed(owned, m, sg) ==
    /\ sg \in [Cell -> Cell]
    /\ \A i, j \in Cell : sg[i] = sg[j] => i = j
    /\ \A j \in Cell : \E i \in Cell : sg[i] = j
    /\ m.cells \in [Cell -> CellType] /\ m.tail \in [SeqId -> Cell \cup {-1}]
    /\ \A i \in Cell : m.cells[sg[i]] = owned.cells[i]
    /\ \A s \in SeqId : m.tail[s] = IF owned.tail[s] = -1 THEN -1 ELSE sg[owned.tail[s]]

Across(dst, src, i) == IF i = src THEN dst ELSE IF i = dst THEN src ELSE i

\* Two cells change places.
LEMMA SwappedIs ==
  ASSUME NEW owned, owned.tail \in [SeqId -> Cell \cup {-1}], NEW m, NEW sg, Renamed(owned, m, sg),
         NEW dst \in Cell, NEW src \in Cell, NEW r, r = Swapped(m, dst, src),
         m = [cells |-> m.cells, tail |-> m.tail],
         NEW tg, tg = [i \in Cell |-> Across(dst, src, sg[i])]
  PROVE  Renamed(owned, r, tg) /\ r = [cells |-> r.cells, tail |-> r.tail]
<1>1. /\ sg \in [Cell -> Cell]
      /\ \A i, j \in Cell : sg[i] = sg[j] => i = j
      /\ \A j \in Cell : \E i \in Cell : sg[i] = j
      /\ m.cells \in [Cell -> CellType] /\ m.tail \in [SeqId -> Cell \cup {-1}]
      /\ \A i \in Cell : m.cells[sg[i]] = owned.cells[i]
      /\ \A s \in SeqId : m.tail[s] = IF owned.tail[s] = -1 THEN -1 ELSE sg[owned.tail[s]]
  BY DEF Renamed
<1> DEFINE A(i) == Across(dst, src, i)
<1>2. /\ \A i \in Cell : A(i) \in Cell /\ A(A(i)) = i
      /\ A(-1) = -1
  BY SizeIs DEF Across
<1>3. \A i \in Cell : tg[i] = A(sg[i]) /\ tg[i] \in Cell
  BY <1>1, <1>2
<1>4. tg \in [Cell -> Cell]
  BY <1>3
<1>5. /\ r = [cells |-> [m.cells EXCEPT ![dst] = m.cells[src], ![src] = m.cells[dst]],
              tail |-> [s \in SeqId |-> A(m.tail[s])]]
  <2>1. r = [m EXCEPT !.cells = [m.cells EXCEPT ![dst] = m.cells[src], ![src] = m.cells[dst]],
                      !.tail = [s \in SeqId |-> A(m.tail[s])]]
    BY DEF Swapped, Across
  <2> HIDE DEF A
  <2> QED BY <2>1
<1>6. \A i \in Cell : [m.cells EXCEPT ![dst] = m.cells[src], ![src] = m.cells[dst]][i] = m.cells[A(i)]
  BY <1>1 DEF Across
<1>7. /\ r.cells = [m.cells EXCEPT ![dst] = m.cells[src], ![src] = m.cells[dst]]
      /\ r.tail = [s \in SeqId |-> A(m.tail[s])] /\ r = [cells |-> r.cells, tail |-> r.tail]
  BY <1>5
<1> HIDE DEF A
<1>8. r.cells \in [Cell -> CellType]
  <2>1. m.cells[src] \in CellType /\ m.cells[dst] \in CellType
    BY <1>1
  <2> QED BY <1>1, <1>7, <2>1
<1>9. \A i \in Cell : r.cells[tg[i]] = owned.cells[i]
  <2> TAKE i \in Cell
  <2>1. r.cells[tg[i]] = m.cells[A(tg[i])]
    BY <1>3, <1>6, <1>7
  <2>2. A(tg[i]) = sg[i]
    BY <1>1, <1>2, <1>3
  <2> QED BY <1>1, <2>1, <2>2
<1>10. \A s \in SeqId : r.tail[s] = A(m.tail[s])
  BY <1>7
<1>11. r.tail \in [SeqId -> Cell \cup {-1}]
  <2>1. \A s \in SeqId : A(m.tail[s]) \in Cell \cup {-1}
    BY <1>1, <1>2
  <2> QED BY <1>7, <2>1
<1>12. \A s \in SeqId : r.tail[s] = IF owned.tail[s] = -1 THEN -1 ELSE tg[owned.tail[s]]
  <2> TAKE s \in SeqId
  <2>1. owned.tail[s] \in Cell \cup {-1}
    OBVIOUS
  <2>2. CASE owned.tail[s] = -1
    BY <1>1, <1>2, <1>10, <2>2
  <2>3. CASE owned.tail[s] # -1
    <3>1. owned.tail[s] \in Cell /\ m.tail[s] = sg[owned.tail[s]]
      BY <1>1, <2>1, <2>3
    <3> QED BY <1>3, <1>10, <2>3, <3>1
  <2> QED BY <2>2, <2>3
<1>13. \A i, j \in Cell : tg[i] = tg[j] => i = j
  BY <1>1, <1>2, <1>3
<1>14. \A j \in Cell : \E i \in Cell : tg[i] = j
  <2> TAKE j \in Cell
  <2>1. PICK i \in Cell : sg[i] = A(j)
    BY <1>1, <1>2
  <2> QED BY <1>2, <1>3, <2>1
<1> QED BY <1>4, <1>7, <1>8, <1>9, <1>11, <1>12, <1>13, <1>14 DEF Renamed

Stretch(min, max) == min .. max

\* The first k sets are in their places, and no cell outside the range was touched.
Places(owned, ub, min, max, sg, k) ==
    /\ \A i \in Cell : IF i \in Stretch(min, max) THEN sg[i] \in Stretch(min, max) ELSE sg[i] = i
    /\ \A j \in 1 .. k : sg[owned.tail[First(ub[j])]] = min + j - 1

PlaceInv(owned, ub, min, max, m, k) ==
    /\ m = [cells |-> m.cells, tail |-> m.tail]
    /\ \E sg : Renamed(owned, m, sg) /\ Places(owned, ub, min, max, sg, k)

\* every set of the micro-batch has a cell of its own in the range
Settles(owned, ub, min, max) ==
    /\ owned.cells \in [Cell -> CellType] /\ owned.tail \in [SeqId -> Cell \cup {-1}]
    /\ min \in Cell /\ max \in Cell /\ min + Len(ub) - 1 <= max
    /\ \A j \in DOMAIN ub : /\ owned.tail[First(ub[j])] \in Stretch(min, max)
                            /\ \A t \in SeqId : owned.tail[t] = owned.tail[First(ub[j])] => t = First(ub[j])

LEMMA PlaceStepIs ==
  ASSUME NEW owned, NEW ub, Asked(ub), NEW min, NEW max, Settles(owned, ub, min, max),
         NEW k \in 0 .. Len(ub) - 1, NEW m, PlaceInv(owned, ub, min, max, m, k),
         NEW r, r = PlaceStep(m, min, ub, k + 1)
  PROVE  PlaceInv(owned, ub, min, max, r, k + 1)
<1>1. PICK sg : Renamed(owned, m, sg) /\ Places(owned, ub, min, max, sg, k)
  BY DEF PlaceInv
<1>2. PICK dst, src : dst = min + k /\ src = m.tail[First(ub[k + 1])]
  OBVIOUS
<1>3. NCells \in Nat /\ Cell = 0 .. NCells - 1 /\ Len(ub) \in Nat /\ DOMAIN ub = 1 .. Len(ub)
  BY SizeIs DEF Asked
<1>4. /\ owned.tail \in [SeqId -> Cell \cup {-1}] /\ min \in Nat /\ max \in Nat
      /\ Stretch(min, max) \subseteq Cell /\ dst \in Stretch(min, max)
      /\ k + 1 \in DOMAIN ub /\ \A j \in 1 .. k : j \in DOMAIN ub /\ j # k + 1 /\ j \in Nat
  BY <1>2, <1>3 DEF Settles, Stretch
<1>5. /\ \A j \in DOMAIN ub : owned.tail[First(ub[j])] \in Stretch(min, max)
      /\ \A j \in DOMAIN ub : owned.tail[First(ub[j])] # -1 /\ owned.tail[First(ub[j])] \in Cell
      /\ \A j, l \in DOMAIN ub : owned.tail[First(ub[j])] = owned.tail[First(ub[l])] => j = l
  <2>1. \A j \in DOMAIN ub : owned.tail[First(ub[j])] \in Stretch(min, max)
    BY DEF Settles
  <2>2. \A j, l \in DOMAIN ub : owned.tail[First(ub[j])] = owned.tail[First(ub[l])]
          => First(ub[j]) = First(ub[l])
    BY FirstsApart DEF Settles
  <2>3. \A j, l \in DOMAIN ub : First(ub[j]) = First(ub[l]) => j = l
    BY FirstsApart
  <2>4. \A j \in DOMAIN ub : owned.tail[First(ub[j])] \in Cell
    BY <1>4, <2>1
  <2>5. -1 \notin Cell
    BY SizeIs
  <2> QED BY <2>1, <2>2, <2>3, <2>4, <2>5
<1>6. /\ sg \in [Cell -> Cell] /\ \A i, j \in Cell : sg[i] = sg[j] => i = j
      /\ \A s \in SeqId : m.tail[s] = IF owned.tail[s] = -1 THEN -1 ELSE sg[owned.tail[s]]
  BY <1>1 DEF Renamed
<1>7. /\ \A i \in Cell : IF i \in Stretch(min, max) THEN sg[i] \in Stretch(min, max) ELSE sg[i] = i
      /\ \A j \in 1 .. k : sg[owned.tail[First(ub[j])]] = min + j - 1
  BY <1>1 DEF Places
<1> DEFINE o(j) == owned.tail[First(ub[j])]
<1>8. src = sg[o(k + 1)] /\ src \in Stretch(min, max)
  BY <1>2, <1>4, <1>5, <1>6, <1>7, FirstsApart
<1>9. PICK tg : tg = [i \in Cell |-> Across(dst, src, sg[i])]
  OBVIOUS
<1>10. Renamed(owned, r, tg) /\ r = [cells |-> r.cells, tail |-> r.tail]
  <2>1. r = Swapped(m, dst, src)
    <3>1. min + (k + 1) - 1 = min + k
      BY <1>4
    <3>2. r = Swapped(m, min + (k + 1) - 1, src)
      BY <1>2 DEF PlaceStep
    <3> QED BY <1>2, <3>1, <3>2
  <2>2. m = [cells |-> m.cells, tail |-> m.tail] /\ dst \in Cell /\ src \in Cell
    BY <1>4, <1>8 DEF PlaceInv
  <2> QED BY <1>1, <1>4, <1>9, <2>1, <2>2, SwappedIs
<1>11. \A i \in Cell : tg[i] = Across(dst, src, sg[i])
  BY <1>9
<1>12. \A i \in Cell : IF i \in Stretch(min, max) THEN tg[i] \in Stretch(min, max) ELSE tg[i] = i
  <2> TAKE i \in Cell
  <2>1. tg[i] = IF sg[i] = src THEN dst ELSE IF sg[i] = dst THEN src ELSE sg[i]
    BY <1>11 DEF Across
  <2>2. IF i \in Stretch(min, max) THEN sg[i] \in Stretch(min, max) ELSE sg[i] = i
    BY <1>7
  <2>3. dst \in Stretch(min, max) /\ src \in Stretch(min, max)
    BY <1>4, <1>8
  <2> QED BY <2>1, <2>2, <2>3
<1>13. ASSUME NEW j \in 1 .. k + 1
       PROVE  tg[o(j)] = min + j - 1
  <2>1. CASE j = k + 1
    <3>1. tg[o(j)] = dst
      BY <1>4, <1>5, <1>8, <1>11, <2>1 DEF Across
    <3> HIDE DEF o
    <3> QED BY <1>2, <1>4, <2>1, <3>1
  <2>2. CASE j # k + 1
    <3>1. j \in 1 .. k /\ j \in DOMAIN ub /\ k + 1 \in DOMAIN ub
      BY <1>4, <2>2
    <3>2. sg[o(j)] = min + j - 1
      BY <1>7, <3>1
    <3>3. sg[o(j)] # dst
      <4> HIDE DEF o
      <4> QED BY <1>2, <1>4, <3>1, <3>2
    <3>4. sg[o(j)] # src
      <4>1. o(j) \in Cell /\ o(k + 1) \in Cell /\ o(j) # o(k + 1)
        BY <1>5, <2>2, <3>1
      <4> HIDE DEF o
      <4> QED BY <1>6, <1>8, <4>1
    <3>5. o(j) \in Cell
      BY <1>5, <3>1
    <3> HIDE DEF o
    <3> QED BY <1>11, <3>2, <3>3, <3>4, <3>5 DEF Across
  <2> QED BY <2>1, <2>2
<1>14. Places(owned, ub, min, max, tg, k + 1)
  BY <1>12, <1>13 DEF Places
<1> QED BY <1>10, <1>14 DEF PlaceInv

\* All of them are in their places.
LEMMA GatheredIs ==
  ASSUME NEW owned, NEW ub, Asked(ub), NEW min, NEW max, Settles(owned, ub, min, max)
  PROVE  PlaceInv(owned, ub, min, max, Gathered(owned, min, ub), Len(ub))
<1> DEFINE place == Placing(owned, min, ub)
           N == Len(ub)
           T == {n \in 0 .. N : PlaceInv(owned, ub, min, max, place[n], n)}
<1>1. /\ N \in Nat
      /\ place[0] = PlaceStart(owned)
      /\ \A k \in 0 .. N - 1 : place[k + 1] = PlaceStep(place[k], min, ub, k + 1)
      /\ Gathered(owned, min, ub) = place[N]
  BY PlacingIs DEF Asked
<1>2. PlaceInv(owned, ub, min, max, place[0], 0)
  <2> DEFINE m == place[0]
             sg == [i \in Cell |-> i]
  <2>1. m.cells = owned.cells /\ m.tail = owned.tail /\ m = [cells |-> m.cells, tail |-> m.tail]
    BY <1>1 DEF PlaceStart
  <2>2. owned.cells \in [Cell -> CellType] /\ owned.tail \in [SeqId -> Cell \cup {-1}]
    BY DEF Settles
  <2>3. sg \in [Cell -> Cell] /\ \A i \in Cell : sg[i] = i
    OBVIOUS
  <2> HIDE DEF m, sg
  <2>4. \A s \in SeqId : m.tail[s] = IF owned.tail[s] = -1 THEN -1 ELSE sg[owned.tail[s]]
    <3> TAKE s \in SeqId
    <3>1. owned.tail[s] \in Cell \cup {-1} /\ m.tail[s] = owned.tail[s]
      BY <2>1, <2>2
    <3> QED BY <2>3, <3>1
  <2>5. Renamed(owned, m, sg)
    BY <2>1, <2>2, <2>3, <2>4 DEF Renamed
  <2>6. ~ \E j \in 1 .. 0 : TRUE
    OBVIOUS
  <2>7. Places(owned, ub, min, max, sg, 0)
    BY <2>3, <2>6 DEF Places
  <2> QED BY <2>1, <2>5, <2>7 DEF PlaceInv, m
<1>3. 0 \in T
  BY <1>1, <1>2
<1>4. ASSUME NEW n \in 0 .. N - 1, n \in T
      PROVE  n + 1 \in T
  <2>1. /\ n + 1 \in 0 .. N /\ place[n + 1] = PlaceStep(place[n], min, ub, n + 1)
        /\ PlaceInv(owned, ub, min, max, place[n], n)
    BY <1>1, <1>4
  <2> HIDE DEF place
  <2>2. PlaceInv(owned, ub, min, max, place[n + 1], n + 1)
    BY <2>1, PlaceStepIs
  <2> QED BY <2>1, <2>2
<1>5. \A n \in 0 .. N : n \in T
  <2> HIDE DEF T, N
  <2> QED BY <1>1, <1>3, <1>4, UpFromZero
<1>6. N \in 0 .. N
  BY <1>1
<1> QED BY <1>1, <1>5, <1>6

Firsts(owned, ub) == {owned.tail[First(ub[k])] : k \in DOMAIN ub}

\* From the first to the last of their cells there is room for all sets.
LEMMA SettlesIs ==
  ASSUME NEW a, NEW start, NEW ub, Asked(ub), NEW owned, OwnInv(a, start, ub, owned, Len(ub)),
         NEW min, min = Min(Firsts(owned, ub)), NEW max, max = Max(Firsts(owned, ub))
  PROVE  Settles(owned, ub, min, max) /\ (Len(ub) = 1 => min = max)
<1> DEFINE mine == {owned.tail[First(ub[k])] : k \in DOMAIN ub}
<1>0. min = Min(mine) /\ max = Max(mine)
  BY DEF Firsts
<1>1. /\ Len(ub) \in Nat \ {0} /\ DOMAIN ub = 1 .. Len(ub) /\ 1 \in DOMAIN ub
      /\ NCells \in Nat \ {0} /\ Cell = 0 .. NCells - 1
  BY SizeIs DEF Asked
<1>2. /\ owned.cells \in [Cell -> CellType] /\ owned.tail \in [SeqId -> Cell \cup {-1}]
      /\ \A j \in DOMAIN ub : owned.tail[First(ub[j])] # -1
      /\ \A j \in DOMAIN ub : \A t \in SeqId : owned.tail[t] = owned.tail[First(ub[j])] => t = First(ub[j])
  BY <1>1 DEF OwnInv, Dwell, Owns
<1> DEFINE o(j) == owned.tail[First(ub[j])]
<1>3. \A j \in DOMAIN ub : o(j) \in Cell /\ o(j) \in mine
  BY <1>2, FirstsApart
<1>4. \A i \in mine : i \in Cell /\ \E j \in DOMAIN ub : i = o(j)
  BY <1>3
<1>5. mine # {} /\ mine \in SUBSET Nat /\ NCells - 1 \in Nat /\ mine \in SUBSET (0 .. NCells - 1)
  BY <1>1, <1>3, <1>4
<1> HIDE DEF mine
<1>6. min \in mine /\ max \in mine /\ \A i \in mine : min <= i /\ i <= max
  <2>1. min \in mine /\ \A i \in mine : min <= i
    BY <1>0, <1>5, MinIs
  <2>2. max \in mine /\ \A i \in mine : max >= i
    BY <1>0, <1>5, MaxIs
  <2>3. \A i \in mine : i \in Nat
    BY <1>5
  <2> QED BY <2>1, <2>2, <2>3
<1>7. min \in Cell /\ max \in Cell /\ min \in Nat /\ max \in Nat /\ min <= max
  BY <1>1, <1>4, <1>6
<1>8. \A j \in DOMAIN ub : o(j) \in Stretch(min, max)
  BY <1>1, <1>3, <1>6, <1>7 DEF Stretch
<1>9. \A j, l \in DOMAIN ub : o(j) = o(l) => j = l
  BY <1>2, FirstsApart
<1>10. min + Len(ub) - 1 <= max
  <2> DEFINE f == [j \in 1 .. Len(ub) |-> o(j)]
             S == Stretch(min, max)
  <2>1. \A j \in 1 .. Len(ub) : f[j] = o(j) /\ f[j] \in S
    BY <1>1, <1>8
  <2>2. IsFiniteSet(S) /\ Cardinality(S) = max - min + 1
    BY <1>7, FS_Interval DEF Stretch
  <2>3. IsFiniteSet(1 .. Len(ub)) /\ Cardinality(1 .. Len(ub)) = Len(ub)
    BY <1>1, FS_Interval
  <2>4. f \in [1 .. Len(ub) -> S]
    BY <2>1
  <2> HIDE DEF f, S
  <2>5. SUFFICES ASSUME max - min + 1 < Len(ub)
                 PROVE  FALSE
    BY <1>1, <1>7
  <2>6. \E j, l \in 1 .. Len(ub) : j # l /\ f[j] = f[l]
    BY <2>2, <2>3, <2>4, <2>5, FS_PigeonHole
  <2> QED BY <1>1, <1>9, <2>1, <2>6
<1>11. Len(ub) = 1 => min = max
  <2> HAVE Len(ub) = 1
  <2>1. \A i \in mine : i = o(1)
    BY <1>1, <1>4
  <2> QED BY <1>6, <2>1
<1> QED BY <1>2, <1>7, <1>8, <1>10, <1>11 DEF Settles

\* r is the row of no sequence, and of a cell that is filled from it
Blank(c, r) == r \in Cell /\ c[r].seq = {} /\ c[r].src = r

\* How the cells lie after they were gathered: the k-th set has cell min + k - 1 to
\* itself, a cell is filled from the old row of its sequences or from the row of an
\* empty cell, and the cells out of the range are filled from their own row.
Laid(before, ub, min, max, m) ==
    /\ m.cells \in [Cell -> CellType] /\ m.tail \in [SeqId -> Cell \cup {-1}]
    /\ min \in Cell /\ max \in Cell /\ min + Len(ub) - 1 <= max
    /\ \A j \in DOMAIN ub : \A s \in SeqId : m.tail[s] = min + j - 1 <=> s = First(ub[j])
    /\ \A i \in Cell, s \in SeqId : s \in m.cells[i].seq =>
          s \notin Gone(ub) /\ before.tail[s] # -1 /\ m.cells[i].src = before.tail[s] /\ m.tail[s] = i
    /\ \A s \in SeqId : before.tail[s] # -1 /\ s \notin Gone(ub) =>
          m.tail[s] \in Cell /\ s \in m.cells[m.tail[s]].seq
    /\ \A i \in Cell : m.cells[i].seq = {} /\ m.cells[i].src # -1 => Blank(before.cells, m.cells[i].src)
    /\ \A i \in Cell \ Stretch(min, max) : m.cells[i].src \in {-1, i}
    /\ \A s \in SeqId : ~InUb(ub, s) => (m.tail[s] = -1 <=> before.tail[s] = -1)
    /\ \A i \in Cell : m.cells[i].seq # {} <=> m.cells[i].pos >= 0

LEMMA LaidIs ==
  ASSUME NEW before, Matched(before.cells, before.tail), NEW ub, Asked(ub),
         NEW a, a = Unshared(before, ub), NEW start, NEW owned, OwnInv(a, start, ub, owned, Len(ub)),
         NEW min, NEW max, Settles(owned, ub, min, max),
         NEW m, PlaceInv(owned, ub, min, max, m, Len(ub))
  PROVE  Laid(before, ub, min, max, m)
<1> DEFINE P(j) == First(ub[j])
           o(j) == owned.tail[P(j)]
<1>1. PICK sg : Renamed(owned, m, sg) /\ Places(owned, ub, min, max, sg, Len(ub))
  BY DEF PlaceInv
<1>2. /\ Len(ub) \in Nat \ {0} /\ DOMAIN ub = 1 .. Len(ub)
      /\ NCells \in Nat \ {0} /\ Cell = 0 .. NCells - 1 /\ -1 \notin Cell
  BY SizeIs DEF Asked
<1>3. /\ sg \in [Cell -> Cell] /\ \A i, j \in Cell : sg[i] = sg[j] => i = j
      /\ \A j \in Cell : \E i \in Cell : sg[i] = j
      /\ m.cells \in [Cell -> CellType] /\ m.tail \in [SeqId -> Cell \cup {-1}]
      /\ \A i \in Cell : m.cells[sg[i]] = owned.cells[i]
      /\ \A s \in SeqId : m.tail[s] = IF owned.tail[s] = -1 THEN -1 ELSE sg[owned.tail[s]]
  BY <1>1 DEF Renamed
<1>4. /\ \A i \in Cell : IF i \in Stretch(min, max) THEN sg[i] \in Stretch(min, max) ELSE sg[i] = i
      /\ \A j \in DOMAIN ub : sg[o(j)] = min + j - 1
  BY <1>1, <1>2 DEF Places
<1>5. /\ min \in Cell /\ max \in Cell /\ min + Len(ub) - 1 <= max
      /\ \A j \in DOMAIN ub : o(j) \in Stretch(min, max)
      /\ \A j \in DOMAIN ub : \A t \in SeqId : owned.tail[t] = o(j) => t = P(j)
  BY DEF Settles
<1>6. Stretch(min, max) \subseteq Cell /\ \A j \in DOMAIN ub : o(j) \in Cell /\ P(j) \in SeqId
  BY <1>2, <1>5, FirstsApart DEF Stretch
<1>7. /\ Matched(a.cells, a.tail)
      /\ \A s \in SeqId : a.tail[s] = IF s \in Gone(ub) THEN -1 ELSE before.tail[s]
      /\ \A i \in Cell : a.cells[i].seq = {} /\ a.cells[i].src = i => Blank(before.cells, i)
  BY UnsharedIs DEF Blank
<1>8. \A i \in Cell : a.cells[i].src \in {-1, i}
  BY <1>7 DEF Matched, Home
<1>9. /\ Dwell(owned, a.tail)
      /\ \A s \in SeqId : (\A j \in 1 .. Len(ub) : s # P(j)) => owned.tail[s] = a.tail[s]
      /\ \A i \in Cell : owned.cells[i].seq = {} => owned.cells[i] = a.cells[i]
      /\ \A i \in Cell : owned.cells[i].src = a.cells[i].src \/ \E j \in 1 .. Len(ub) : o(j) = i
  BY DEF OwnInv
<1>10. /\ owned.cells \in [Cell -> CellType] /\ owned.tail \in [SeqId -> Cell \cup {-1}]
       /\ \A s \in SeqId, i \in Cell :
            s \in owned.cells[i].seq => owned.tail[s] = i /\ owned.cells[i].src = a.tail[s]
       /\ \A s \in SeqId : a.tail[s] # -1 => owned.tail[s] # -1 /\ s \in owned.cells[owned.tail[s]].seq
       /\ \A s \in SeqId : a.tail[s] = -1 /\ owned.tail[s] # -1 => owned.cells[owned.tail[s]].seq = {}
       /\ \A i \in Cell : owned.cells[i].seq # {} <=> owned.cells[i].pos >= 0
  BY <1>9 DEF Dwell
<1> HIDE DEF P
<1>11. \A j \in DOMAIN ub : \A s \in SeqId : m.tail[s] = min + j - 1 <=> s = P(j)
  <2> TAKE j \in DOMAIN ub
  <2> TAKE s \in SeqId
  <2>1. sg[o(j)] = min + j - 1 /\ o(j) \in Cell /\ P(j) \in SeqId
    BY <1>4, <1>6
  <2>2. min + j - 1 # -1
    BY <1>2, <1>5
  <2>3. s = P(j) => m.tail[s] = min + j - 1
    BY <1>2, <1>3, <2>1
  <2>4. ASSUME m.tail[s] = min + j - 1
        PROVE  s = P(j)
    <3>1. owned.tail[s] # -1 /\ m.tail[s] = sg[owned.tail[s]]
      BY <1>3, <2>2, <2>4
    <3>2. owned.tail[s] \in Cell
      BY <1>10, <3>1
    <3>3. owned.tail[s] = o(j)
      BY <1>3, <2>1, <2>4, <3>1, <3>2
    <3> QED BY <1>5, <3>3
  <2> QED BY <2>3, <2>4
<1>12. ASSUME NEW i \in Cell, NEW s \in SeqId, s \in m.cells[i].seq
       PROVE  /\ s \notin Gone(ub) /\ before.tail[s] # -1
              /\ m.cells[i].src = before.tail[s] /\ m.tail[s] = i
  <2>1. PICK c \in Cell : sg[c] = i
    BY <1>3
  <2>2. m.cells[i] = owned.cells[c]
    BY <1>3, <2>1
  <2>3. owned.tail[s] = c /\ owned.cells[c].src = a.tail[s] /\ owned.tail[s] # -1
    BY <1>2, <1>10, <1>12, <2>2
  <2>4. a.tail[s] # -1
    BY <1>10, <1>12, <2>2, <2>3
  <2>5. s \notin Gone(ub) /\ a.tail[s] = before.tail[s]
    BY <1>7, <2>4
  <2>6. m.tail[s] = i
    BY <1>3, <2>1, <2>3
  <2> QED BY <2>2, <2>3, <2>4, <2>5, <2>6
<1>13. ASSUME NEW s \in SeqId, before.tail[s] # -1, s \notin Gone(ub)
       PROVE  m.tail[s] \in Cell /\ s \in m.cells[m.tail[s]].seq
  <2>1. a.tail[s] # -1
    BY <1>7, <1>13
  <2>2. owned.tail[s] # -1 /\ s \in owned.cells[owned.tail[s]].seq /\ owned.tail[s] \in Cell
    BY <1>10, <2>1
  <2>3. m.tail[s] = sg[owned.tail[s]]
    BY <1>3, <2>2
  <2> QED BY <1>3, <2>2, <2>3
<1>14. ASSUME NEW i \in Cell, m.cells[i].seq = {}, m.cells[i].src # -1
       PROVE  Blank(before.cells, m.cells[i].src)
  <2>1. PICK c \in Cell : sg[c] = i
    BY <1>3
  <2>2. m.cells[i] = owned.cells[c]
    BY <1>3, <2>1
  <2>3. owned.cells[c] = a.cells[c]
    BY <1>9, <1>14, <2>2
  <2>4. a.cells[c].seq = {} /\ a.cells[c].src # -1
    BY <1>14, <2>2, <2>3
  <2>5. a.cells[c].src = c
    BY <1>8, <2>4
  <2> QED BY <1>7, <2>2, <2>3, <2>4, <2>5
<1>15. ASSUME NEW i \in Cell \ Stretch(min, max)
       PROVE  m.cells[i].src \in {-1, i}
  <2>1. m.cells[i] = owned.cells[i]
    BY <1>3, <1>4
  <2>2. ~ \E j \in 1 .. Len(ub) : o(j) = i
    BY <1>2, <1>5
  <2>3. owned.cells[i].src = a.cells[i].src
    BY <1>9, <2>2
  <2> QED BY <1>8, <2>1, <2>3
<1>16. ASSUME NEW s \in SeqId, ~InUb(ub, s)
       PROVE  m.tail[s] = -1 <=> before.tail[s] = -1
  <2>1. s \notin Gone(ub) /\ \A j \in 1 .. Len(ub) : s # P(j)
    BY <1>2, <1>16, GoneIs, FirstsApart DEF InUb, P
  <2>2. owned.tail[s] = before.tail[s]
    BY <1>7, <1>9, <2>1
  <2>3. owned.tail[s] # -1 => owned.tail[s] \in Cell
    BY <1>10
  <2>4. CASE owned.tail[s] = -1
    BY <1>3, <2>2, <2>4
  <2>5. CASE owned.tail[s] # -1
    <3>1. m.tail[s] = sg[owned.tail[s]] /\ sg[owned.tail[s]] \in Cell
      BY <1>3, <2>3, <2>5
    <3> QED BY <1>2, <2>2, <2>5, <3>1
  <2> QED BY <2>4, <2>5
<1>17. \A i \in Cell : m.cells[i].seq # {} <=> m.cells[i].pos >= 0
  <2> TAKE i \in Cell
  <2>1. PICK c \in Cell : sg[c] = i
    BY <1>3
  <2>2. m.cells[i] = owned.cells[c]
    BY <1>3, <2>1
  <2> QED BY <1>10, <2>2
<1> QED BY <1>3, <1>5, <1>11, <1>12, <1>13, <1>14, <1>15, <1>16, <1>17 DEF Laid, P

\* what find_slot leaves behind
Ran(f) == f.head .. (f.head + f.graph.n) - 1

\* the row is the zeroed one, or nobody's
FreshRow(before, f, r) == (r = f.graph.rs_z /\ r # -1) \/ Blank(before.cells, r)

Slot(before, ub, f) ==
    /\ f.ok = TRUE
    /\ Matched(f.cells, f.tail)
    /\ f.used = Cardinality(InUse(f.cells))
    /\ f.head \in Cell /\ f.graph.n \in Nat /\ Len(ub) <= f.graph.n /\ Ran(f) \subseteq Cell
    /\ Len(ub) = 1 => f.graph.n = 1
    /\ f.graph.rs_z \in Ran(f) \cup {-1}
    /\ \A k \in DOMAIN ub : f.cells[f.head + k - 1].seq = ub[k].seqs
    /\ \A i \in Ran(f) : f.cells[i].src = i
    /\ \A s \in SeqId : ~InUb(ub, s) => (f.tail[s] = -1 <=> before.tail[s] = -1)

\* where the rows of the range come from
Traced(before, ub, f) ==
    /\ \A k \in DOMAIN ub :
          LET r == f.graph.src0[f.head + k - 1]
              t == before.tail[First(ub[k])]
          IN  IF t # -1 THEN r = t /\ r # f.graph.rs_z ELSE FreshRow(before, f, r)
    /\ \A i \in Ran(f), s \in SeqId : s \in f.cells[i].seq /\ ~InUb(ub, s) =>
          /\ before.tail[s] # -1
          /\ f.graph.src0[i] = before.tail[s] /\ f.graph.src0[i] # f.graph.rs_z
    /\ \A i \in Ran(f) : f.cells[i].seq = {} => FreshRow(before, f, f.graph.src0[i])
    /\ \A i \in Cell \ Ran(f) :
          /\ \A s \in f.cells[i].seq : before.tail[s] = i /\ ~InUb(ub, s)
          /\ f.cells[i].seq = {} /\ f.cells[i].src = i => Blank(before.cells, i)

FillsIn(ub, min, max, m, d) ==
    /\ d \in [Cell -> CellType]
    /\ \A k \in DOMAIN ub : \A i \in Int : i = min + k - 1 =>
          i \in Stretch(min, max) /\ i \in Cell /\ d[i].pos = ub[k].pos /\ d[i].seq = ub[k].seqs
    /\ \A i \in Cell : (\A k \in DOMAIN ub : i # min + k - 1) => d[i] = m.cells[i]
    /\ \A i \in Cell : d[i].src = m.cells[i].src
    /\ Stretch(min, max) \subseteq Cell

\* The gathered cells become those of the sets.
LEMMA FilledIs ==
  ASSUME NEW before, NEW ub, Asked(ub), NEW min, NEW max, NEW m, Laid(before, ub, min, max, m),
         NEW d, d = Filled(m.cells, min, ub)
  PROVE  FillsIn(ub, min, max, m, d)
<1>1. /\ Len(ub) \in Nat \ {0} /\ DOMAIN ub = 1 .. Len(ub)
      /\ NCells \in Nat \ {0} /\ Cell = 0 .. NCells - 1
      /\ \A k \in DOMAIN ub : ub[k].seqs \in SUBSET SeqId /\ ub[k].pos \in Int
  BY SizeIs DEF Asked, SeqSets
<1>2. m.cells \in [Cell -> CellType] /\ min \in Cell /\ max \in Cell /\ min + Len(ub) - 1 <= max
  BY DEF Laid
<1>3. Stretch(min, max) \subseteq Cell
  BY <1>1, <1>2 DEF Stretch
<1>4. \A k \in DOMAIN ub : /\ min + k - 1 \in Stretch(min, max) /\ (min + k - 1) - min + 1 = k
  BY <1>1, <1>2 DEF Stretch
<1>5. ASSUME NEW k \in DOMAIN ub
      PROVE  \A i \in Int : i = min + k - 1 =>
               /\ i \in Stretch(min, max) /\ i \in Cell /\ d[i] \in CellType
               /\ d[i].pos = ub[k].pos /\ d[i].seq = ub[k].seqs /\ d[i].src = m.cells[i].src
  <2> SUFFICES ASSUME NEW i \in Int, i = min + k - 1
               PROVE  /\ i \in Stretch(min, max) /\ i \in Cell /\ d[i] \in CellType
                      /\ d[i].pos = ub[k].pos /\ d[i].seq = ub[k].seqs /\ d[i].src = m.cells[i].src
    OBVIOUS
  <2>1. i \in Stretch(min, max)
    BY <1>4
  <2>2. i \in Cell /\ i - min + 1 = k
    BY <1>3, <1>4, <2>1
  <2>3. d[i] = [pos |-> ub[k].pos, src |-> m.cells[i].src, seq |-> ub[k].seqs]
    BY <2>2 DEF Filled
  <2>4. m.cells[i] \in CellType
    BY <1>2, <2>2
  <2>5. m.cells[i].src \in Cell \cup {-1}
    BY <2>4 DEF CellType
  <2>6. d[i] \in CellType /\ d[i].src = m.cells[i].src
    BY <1>1, <2>3, <2>5 DEF CellType
  <2>7. d[i].pos = ub[k].pos /\ d[i].seq = ub[k].seqs
    BY <2>3
  <2> QED BY <2>1, <2>2, <2>6, <2>7
<1>6. ASSUME NEW i \in Cell, \A k \in DOMAIN ub : i # min + k - 1
      PROVE  d[i] = m.cells[i]
  <2>1. i - min + 1 \notin DOMAIN ub
    <3> SUFFICES ASSUME NEW k \in DOMAIN ub, k = i - min + 1
                 PROVE  FALSE
      OBVIOUS
    <3>1. i \in Int /\ min \in Int /\ k \in Int
      BY <1>1, <1>2
    <3>2. min + k - 1 = i
      BY <3>1
    <3> QED BY <1>6, <3>2
  <2> QED BY <2>1 DEF Filled
<1>7. \A i \in Cell : d[i] \in CellType /\ d[i].src = m.cells[i].src
  <2> TAKE i \in Cell
  <2>1. i \in Int
    BY <1>1
  <2>2. CASE \E k \in DOMAIN ub : i = min + k - 1
    BY <1>5, <2>1, <2>2
  <2>3. CASE \A k \in DOMAIN ub : i # min + k - 1
    BY <1>2, <1>6, <2>3
  <2> QED BY <2>2, <2>3
<1>8. d \in [Cell -> CellType]
  <2>1. d = [i \in Cell |-> d[i]]
    BY DEF Filled
  <2> QED BY <1>7, <2>1
<1> QED BY <1>3, <1>5, <1>6, <1>7, <1>8 DEF FillsIn

\* There is a row to zero if one is needed: fewer cells are filled from the range
\* than it has.
LEMMA ZeroRowIs ==
  ASSUME NEW cs, NEW S \in SUBSET Cell, \A i \in Cell \ S : cs[i].src \notin S,
         NEW z, z = ZeroRow(cs, S)
  PROVE  /\ z \in S \cup {-1}
         /\ z # -1 => \A j \in Cell : cs[j].src # z
         /\ \A i \in S : cs[i].src = -1 => z # -1
<1> DEFINE zeroed == {i \in S : \A j \in Cell : cs[j].src # i}
<1>0. Cell \subseteq Nat
  BY SizeIs
<1>1. zeroed \in SUBSET S /\ zeroed \in SUBSET Nat
  BY <1>0
<1>2. z = IF zeroed = {} THEN -1 ELSE Min(zeroed)
  BY DEF ZeroRow
<1>3. zeroed # {} => Min(zeroed) \in zeroed
  <2> HIDE DEF zeroed
  <2> QED BY <1>1, MinIs
<1>4. \A i \in zeroed : i \in S /\ i # -1 /\ \A j \in Cell : cs[j].src # i
  BY <1>0
<1>5. ASSUME NEW e \in S, cs[e].src = -1, zeroed = {}
      PROVE  FALSE
  <2> DEFINE from(i) == CHOOSE j \in Cell : cs[j].src = i
             T == S \ {e}
             g == [i \in S |-> from(i)]
  <2>1. ASSUME NEW i \in S
        PROVE  g[i] \in T /\ cs[g[i]].src = i
    <3>1. \E j \in Cell : cs[j].src = i
      BY <1>5
    <3>2. g[i] \in Cell /\ cs[g[i]].src = i
      BY <3>1
    <3>3. g[i] \in S
      BY <3>2
    <3>4. g[i] # e
      BY <1>0, <1>5, <3>2
    <3> QED BY <3>2, <3>3, <3>4
  <2>2. g \in [S -> T]
    BY <2>1
  <2>3. IsFiniteSet(S)
    BY SizeIs, FS_Subset
  <2>4. IsFiniteSet(T) /\ Cardinality(T) = Cardinality(S) - 1 /\ Cardinality(S) \in Nat
    BY <1>5, <2>3, FS_RemoveElement, FS_CardinalityType
  <2> HIDE DEF g, T
  <2>5. Cardinality(T) < Cardinality(S)
    BY <2>4
  <2>6. \E i, j \in S : i # j /\ g[i] = g[j]
    BY <2>2, <2>3, <2>4, <2>5, FS_PigeonHole
  <2> QED BY <2>1, <2>6
<1>6. \A i \in S : cs[i].src = -1 => z # -1
  <2> TAKE i \in S
  <2> HAVE cs[i].src = -1
  <2>1. zeroed # {}
    BY <1>5
  <2> QED BY <1>2, <1>3, <1>4, <2>1
<1> HIDE DEF zeroed
<1> QED BY <1>2, <1>3, <1>4, <1>6

Sourced(d, S) == [i \in Cell |-> IF i \in S THEN [d[i] EXCEPT !.src = i] ELSE d[i]]

LEMMA SourcedIs ==
  ASSUME NEW d \in [Cell -> CellType], NEW S, NEW c, c = Sourced(d, S)
  PROVE  /\ c \in [Cell -> CellType]
         /\ \A i \in Cell : c[i].pos = d[i].pos /\ c[i].seq = d[i].seq
         /\ \A i \in Cell : c[i].src = IF i \in S THEN i ELSE d[i].src
<1>1. \A i \in Cell : c[i] = IF i \in S THEN [d[i] EXCEPT !.src = i] ELSE d[i]
  BY DEF Sourced
<1>2. ASSUME NEW i \in Cell
      PROVE  /\ c[i] \in CellType /\ c[i].pos = d[i].pos /\ c[i].seq = d[i].seq
             /\ c[i].src = IF i \in S THEN i ELSE d[i].src
  <2>1. d[i] = [pos |-> d[i].pos, src |-> d[i].src, seq |-> d[i].seq]
        /\ d[i].pos \in Int /\ d[i].src \in Cell \cup {-1} /\ d[i].seq \in SUBSET SeqId
    BY DEF CellType
  <2>2. i \in S => c[i] = [pos |-> d[i].pos, src |-> i, seq |-> d[i].seq]
    BY <1>1, <2>1
  <2>3. CASE i \in S
    BY <2>1, <2>2, <2>3 DEF CellType
  <2>4. CASE i \notin S
    BY <1>1, <2>4
  <2> QED BY <2>3, <2>4
<1>3. c = [i \in Cell |-> c[i]]
  BY DEF Sourced
<1> QED BY <1>2, <1>3

\* the steps of find_slot, each with its result
Steps(before, ub, f, owned, min, max, m, d, z) ==
    /\ owned = Owned(before, ub)
    /\ min = Min(Firsts(owned, ub)) /\ max = Max(Firsts(owned, ub))
    /\ m = Gathered(owned, min, ub)
    /\ d = Filled(m.cells, min, ub)
    /\ z = ZeroRow(d, Stretch(min, max))
    /\ f.cells = Sourced(d, Stretch(min, max))
    /\ f.tail = TailsFilled(m.tail, min, ub)
    /\ f.head = min
    /\ f.used = Cardinality({i \in Cell : d[i].seq # {}})
    /\ f.graph.n = max - min + 1 /\ f.graph.rs_z = z
    /\ f.graph.src0 = [i \in Stretch(min, max) |-> IF d[i].src < 0 THEN z ELSE d[i].src]
    /\ f.ok = (owned.ok /\ \A i \in Stretch(min, max) : d[i].src < 0 => z >= 0)

LEMMA StepsIs ==
  ASSUME NEW before, NEW ub, NEW f, f = find_slot(before, ub)
  PROVE  \E owned, min, max, m, d, z : Steps(before, ub, f, owned, min, max, m, d, z)
<1>1. PICK owned : owned = Owned(before, ub)
  OBVIOUS
<1>2. PICK min, max : min = Min(Firsts(owned, ub)) /\ max = Max(Firsts(owned, ub))
  OBVIOUS
<1>3. PICK m : m = Gathered(owned, min, ub)
  OBVIOUS
<1>4. PICK d : d = Filled(m.cells, min, ub)
  OBVIOUS
<1>5. PICK z : z = ZeroRow(d, Stretch(min, max))
  OBVIOUS
<1>6. f = [cells |-> Sourced(d, Stretch(min, max)),
           tail |-> TailsFilled(m.tail, min, ub),
           head |-> min,
           used |-> Cardinality({i \in Cell : d[i].seq # {}}),
           graph |-> [n |-> max - min + 1, rs_z |-> z,
                      src0 |-> [i \in Stretch(min, max) |-> IF d[i].src < 0 THEN z ELSE d[i].src]],
           ok |-> owned.ok /\ \A i \in Stretch(min, max) : d[i].src < 0 => z >= 0]
  BY <1>1, <1>2, <1>3, <1>4, <1>5, ZenonT(60) DEF find_slot, Sourced, Stretch, Firsts
<1> DEFINE A == Sourced(d, Stretch(min, max))
           B == TailsFilled(m.tail, min, ub)
           C == Cardinality({i \in Cell : d[i].seq # {}})
           D == [i \in Stretch(min, max) |-> IF d[i].src < 0 THEN z ELSE d[i].src]
           E == owned.ok /\ \A i \in Stretch(min, max) : d[i].src < 0 => z >= 0
           n == max - min + 1
<1>7. f = [cells |-> A, tail |-> B, head |-> min, used |-> C,
           graph |-> [n |-> n, rs_z |-> z, src0 |-> D], ok |-> E]
  BY <1>6
<1>8. /\ f.cells = A /\ f.tail = B /\ f.head = min /\ f.used = C
      /\ f.graph.n = n /\ f.graph.rs_z = z /\ f.graph.src0 = D /\ f.ok = E
  <2> HIDE DEF A, B, C, D, E, n
  <2> QED BY <1>7
<1>9. Steps(before, ub, f, owned, min, max, m, d, z)
  BY <1>1, <1>2, <1>3, <1>4, <1>5, <1>8, Zenon DEF Steps
<1> QED BY <1>9

LEMMA TailsFilledIs ==
  ASSUME NEW ub, Asked(ub), NEW tl, NEW min \in Int, NEW ul, ul = TailsFilled(tl, min, ub)
  PROVE  /\ \A k \in DOMAIN ub : \A s \in ub[k].seqs : ul[s] = min + k - 1
         /\ \A s \in SeqId : ~InUb(ub, s) => ul[s] = tl[s]
         /\ ul = [s \in SeqId |-> ul[s]]
<1>1. \A s \in SeqId : ul[s] = IF InUb(ub, s) THEN min + (CHOOSE k \in DOMAIN ub : s \in ub[k].seqs) - 1
                               ELSE tl[s]
  BY DEF TailsFilled, InUb
<1>2. ASSUME NEW k \in DOMAIN ub, NEW s \in ub[k].seqs
      PROVE  ul[s] = min + k - 1
  <2>1. s \in SeqId /\ InUb(ub, s)
    BY DEF Asked, SeqSets, InUb
  <2>2. PICK l : l = CHOOSE j \in DOMAIN ub : s \in ub[j].seqs
    OBVIOUS
  <2>3. l \in DOMAIN ub /\ s \in ub[l].seqs
    BY <2>2
  <2>4. l = k
    BY <2>3 DEF Asked
  <2> QED BY <1>1, <2>1, <2>2, <2>4
<1>3. ul = [s \in SeqId |-> ul[s]]
  BY DEF TailsFilled
<1> QED BY <1>1, <1>2, <1>3

\* find_slot keeps cells and tails in agreement, always finds what it asserts, and
\* fills every cell of the range from the row it means.
LEMMA SlotIs ==
  ASSUME NEW before, Matched(before.cells, before.tail), before.head \in Cell, before.used \in Int,
         NEW ub, Asked(ub), NEW f, f = find_slot(before, ub)
  PROVE  Slot(before, ub, f) /\ Traced(before, ub, f)
<1>1. PICK owned, min, max, m, d, z : Steps(before, ub, f, owned, min, max, m, d, z)
  BY StepsIs
<1>2. PICK a : a = Unshared(before, ub)
  OBVIOUS
<1>3. PICK R : R = Stretch(min, max)
  OBVIOUS
<1>4. /\ owned = Owned(before, ub) /\ m = Gathered(owned, min, ub)
      /\ d = Filled(m.cells, min, ub) /\ z = ZeroRow(d, R)
      /\ f.cells = Sourced(d, R) /\ f.tail = TailsFilled(m.tail, min, ub) /\ f.head = min
      /\ f.used = Cardinality({i \in Cell : d[i].seq # {}})
      /\ f.graph.n = max - min + 1 /\ f.graph.rs_z = z
      /\ f.graph.src0 = [i \in R |-> IF d[i].src < 0 THEN z ELSE d[i].src]
      /\ f.ok = (owned.ok /\ \A i \in R : d[i].src < 0 => z >= 0)
  BY <1>1, <1>3 DEF Steps
<1>5. OwnInv(a, StartOf(before, ub), ub, owned, Len(ub))
  BY <1>2, <1>4, OwnedIs
<1>6. Settles(owned, ub, min, max) /\ (Len(ub) = 1 => min = max)
  <2>1. min = Min(Firsts(owned, ub)) /\ max = Max(Firsts(owned, ub))
    BY <1>1 DEF Steps
  <2> QED BY <1>5, <2>1, SettlesIs
<1>7. Laid(before, ub, min, max, m)
  <2>1. PlaceInv(owned, ub, min, max, m, Len(ub))
    BY <1>4, <1>6, GatheredIs
  <2> QED BY <1>2, <1>5, <1>6, <2>1, LaidIs
<1>8. /\ m.cells \in [Cell -> CellType] /\ m.tail \in [SeqId -> Cell \cup {-1}]
      /\ min \in Cell /\ max \in Cell /\ min + Len(ub) - 1 <= max
      /\ \A j \in DOMAIN ub : \A s \in SeqId : m.tail[s] = min + j - 1 <=> s = First(ub[j])
      /\ \A i \in Cell, s \in SeqId : s \in m.cells[i].seq =>
            s \notin Gone(ub) /\ before.tail[s] # -1 /\ m.cells[i].src = before.tail[s] /\ m.tail[s] = i
      /\ \A s \in SeqId : before.tail[s] # -1 /\ s \notin Gone(ub) =>
            m.tail[s] \in Cell /\ s \in m.cells[m.tail[s]].seq
      /\ \A i \in Cell : m.cells[i].seq = {} /\ m.cells[i].src # -1 => Blank(before.cells, m.cells[i].src)
      /\ \A i \in Cell \ R : m.cells[i].src \in {-1, i}
      /\ \A s \in SeqId : ~InUb(ub, s) => (m.tail[s] = -1 <=> before.tail[s] = -1)
      /\ \A i \in Cell : m.cells[i].seq # {} <=> m.cells[i].pos >= 0
  BY <1>3, <1>7 DEF Laid
<1>9. /\ d \in [Cell -> CellType]
      /\ \A k \in DOMAIN ub : \A i \in Int : i = min + k - 1 =>
            i \in R /\ i \in Cell /\ d[i].pos = ub[k].pos /\ d[i].seq = ub[k].seqs
      /\ \A i \in Cell : (\A k \in DOMAIN ub : i # min + k - 1) => d[i] = m.cells[i]
      /\ \A i \in Cell : d[i].src = m.cells[i].src
      /\ R \subseteq Cell
  <2>1. FillsIn(ub, min, max, m, d)
    BY <1>4, <1>7, FilledIs
  <2> QED BY <1>3, <2>1 DEF FillsIn
<1>10. /\ f.cells \in [Cell -> CellType]
       /\ \A i \in Cell : f.cells[i].pos = d[i].pos /\ f.cells[i].seq = d[i].seq
       /\ \A i \in Cell : f.cells[i].src = IF i \in R THEN i ELSE d[i].src
  BY <1>4, <1>9, SourcedIs
<1>11. /\ z \in R \cup {-1}
       /\ z # -1 => \A j \in Cell : d[j].src # z
       /\ \A i \in R : d[i].src = -1 => z # -1
  <2>1. \A i \in Cell \ R : d[i].src \notin R
    <3>1. -1 \notin R
      BY <1>9, SizeIs
    <3> QED BY <1>8, <1>9, <3>1
  <2> QED BY <1>4, <1>9, <2>1, ZeroRowIs
<1>12. /\ Len(ub) \in Nat \ {0} /\ DOMAIN ub = 1 .. Len(ub)
       /\ \A k \in DOMAIN ub : ub[k].seqs \in SUBSET SeqId /\ ub[k].seqs # {} /\ ub[k].pos \in Nat
       /\ \A k, l \in DOMAIN ub : k # l => ub[k].seqs \cap ub[l].seqs = {}
       /\ NCells \in Nat \ {0} /\ Cell = 0 .. NCells - 1 /\ -1 \notin Cell
  BY SizeIs DEF Asked, SeqSets
<1>13. /\ \A k \in DOMAIN ub : \A s \in ub[k].seqs : f.tail[s] = min + k - 1
       /\ \A s \in SeqId : ~InUb(ub, s) => f.tail[s] = m.tail[s]
       /\ f.tail = [s \in SeqId |-> f.tail[s]]
  <2>1. min \in Int
    BY <1>8, <1>12
  <2> QED BY <1>4, <2>1, TailsFilledIs
<1>14. Ran(f) = R /\ f.graph.n \in Nat /\ Len(ub) <= f.graph.n /\ (Len(ub) = 1 => f.graph.n = 1)
  <2>1. (min + (max - min + 1)) - 1 = max /\ max - min + 1 \in Nat /\ Len(ub) <= max - min + 1
    BY <1>8, <1>12
  <2>2. Len(ub) = 1 => max - min + 1 = 1
    BY <1>6, <1>8, <1>12
  <2> QED BY <1>3, <1>4, <2>1, <2>2 DEF Ran, Stretch
<1>15. /\ \A i \in Cell : i \in Int
       /\ \A k \in DOMAIN ub : min + k - 1 \in Int
  BY <1>8, <1>12
<1>16. \A i \in Cell : d[i].src < 0 <=> d[i].src = -1
  <2> TAKE i \in Cell
  <2>1. d[i] \in CellType
    BY <1>9
  <2>2. d[i].src \in Cell \cup {-1}
    BY <2>1 DEF CellType
  <2> QED BY <1>12, <2>2
<1>17. z >= 0 <=> z # -1
  BY <1>9, <1>11, <1>12
<1>18. f.ok = TRUE
  <2>1. owned.ok = TRUE
    BY <1>5 DEF OwnInv
  <2>2. \A i \in R : d[i].src < 0 => z >= 0
    BY <1>9, <1>11, <1>16, <1>17
  <2> QED BY <1>4, <2>1, <2>2
\* a sequence that is still in the cell of another has it alone or is in no set
<1>19. ASSUME NEW i \in Cell, \A k \in DOMAIN ub : i # min + k - 1, NEW s \in d[i].seq
       PROVE  /\ s \in SeqId /\ ~InUb(ub, s) /\ before.tail[s] # -1
              /\ d[i].src = before.tail[s] /\ m.tail[s] = i
  <2>1. d[i] = m.cells[i]
    BY <1>9, <1>19
  <2>2. m.cells[i] \in CellType
    BY <1>8
  <2>3. s \in SeqId /\ s \in m.cells[i].seq
    BY <1>19, <2>1, <2>2 DEF CellType
  <2>4. s \notin Gone(ub) /\ before.tail[s] # -1 /\ m.cells[i].src = before.tail[s] /\ m.tail[s] = i
    BY <1>8, <2>3
  <2>5. \A k \in DOMAIN ub : s # First(ub[k])
    BY <1>8, <1>19, <2>3, <2>4
  <2>6. ~InUb(ub, s)
    BY <2>4, <2>5, GoneIs DEF InUb
  <2> QED BY <2>1, <2>3, <2>4, <2>6
<1>20. Agree(f.cells, f.tail)
  <2> SUFFICES ASSUME NEW s \in SeqId, NEW i \in Cell
               PROVE  s \in d[i].seq <=> f.tail[s] = i
    BY <1>10 DEF Agree
  <2>1. CASE InUb(ub, s)
    <3>1. PICK k \in DOMAIN ub : s \in ub[k].seqs
      BY <2>1 DEF InUb
    <3>2. f.tail[s] = min + k - 1
      BY <1>13, <3>1
    <3>3. CASE i = min + k - 1
      <4>1. d[i].seq = ub[k].seqs
        BY <1>9, <1>15, <3>3
      <4> QED BY <3>1, <3>2, <3>3, <4>1
    <3>4. CASE i # min + k - 1
      <4>1. s \notin d[i].seq
        <5>1. CASE \A l \in DOMAIN ub : i # min + l - 1
          BY <1>19, <2>1, <5>1
        <5>2. CASE \E l \in DOMAIN ub : i = min + l - 1
          <6>1. PICK l \in DOMAIN ub : i = min + l - 1
            BY <5>2
          <6>2. d[i].seq = ub[l].seqs
            BY <1>9, <1>15, <6>1
          <6>3. l # k
            BY <3>4, <6>1
          <6> QED BY <1>12, <3>1, <6>2, <6>3
        <5> QED BY <5>1, <5>2
      <4> QED BY <3>2, <3>4, <4>1
    <3> QED BY <3>3, <3>4
  <2>2. CASE ~InUb(ub, s)
    <3>1. f.tail[s] = m.tail[s]
      BY <1>13, <2>2
    <3>2. CASE \A l \in DOMAIN ub : i # min + l - 1
      <4>1. s \in d[i].seq => m.tail[s] = i
        BY <1>19, <3>2
      <4>2. ASSUME m.tail[s] = i
            PROVE  s \in d[i].seq
        <5>1. before.tail[s] # -1
          BY <1>8, <1>12, <2>2, <4>2
        <5>2. s \notin Gone(ub)
          BY <2>2, GoneIs DEF InUb
        <5>3. s \in m.cells[i].seq
          BY <1>8, <4>2, <5>1, <5>2
        <5> QED BY <1>9, <3>2, <5>3
      <4> QED BY <3>1, <4>1, <4>2
    <3>3. CASE \E l \in DOMAIN ub : i = min + l - 1
      <4>1. PICK l \in DOMAIN ub : i = min + l - 1
        BY <3>3
      <4>2. d[i].seq = ub[l].seqs
        BY <1>9, <1>15, <4>1
      <4>3. s \notin ub[l].seqs
        BY <2>2 DEF InUb
      <4>4. s # First(ub[l])
        BY <4>3, FirstsApart
      <4>5. m.tail[s] # i
        BY <1>8, <4>1, <4>4
      <4> QED BY <3>1, <4>2, <4>3, <4>5
    <3> QED BY <3>2, <3>3
  <2> QED BY <2>1, <2>2
<1>21. Home(f.cells)
  <2> SUFFICES ASSUME NEW i \in Cell
               PROVE  /\ d[i].seq # {} <=> d[i].pos >= 0
                      /\ f.cells[i].src \in {-1, i}
                      /\ d[i].seq # {} => f.cells[i].src = i
    BY <1>10 DEF Home
  <2>1. d[i].seq # {} <=> d[i].pos >= 0
    <3>1. CASE \A k \in DOMAIN ub : i # min + k - 1
      BY <1>8, <1>9, <3>1
    <3>2. CASE \E k \in DOMAIN ub : i = min + k - 1
      <4>1. PICK k \in DOMAIN ub : i = min + k - 1
        BY <3>2
      <4>2. d[i].seq = ub[k].seqs /\ d[i].pos = ub[k].pos
        BY <1>9, <1>15, <4>1
      <4> QED BY <1>12, <4>2
    <3> QED BY <3>1, <3>2
  <2>2. CASE i \in R
    BY <1>10, <2>1, <2>2
  <2>3. CASE i \notin R
    <3>1. f.cells[i].src = m.cells[i].src /\ m.cells[i].src \in {-1, i}
      BY <1>8, <1>9, <1>10, <2>3
    <3>2. \A k \in DOMAIN ub : i # min + k - 1
      BY <1>9, <1>15, <2>3
    <3>3. ASSUME d[i].seq # {}
          PROVE  f.cells[i].src = i
      <4>1. PICK s : s \in d[i].seq
        BY <3>3
      <4>2. d[i].src # -1
        BY <1>19, <3>2, <4>1
      <4> QED BY <1>9, <3>1, <4>2
    <3> QED BY <2>1, <3>1, <3>3
  <2> QED BY <2>2, <2>3
<1>22. f.tail \in [SeqId -> Cell \cup {-1}]
  <2>1. ASSUME NEW s \in SeqId
        PROVE  f.tail[s] \in Cell \cup {-1}
    <3>1. CASE InUb(ub, s)
      <4>1. PICK k \in DOMAIN ub : s \in ub[k].seqs
        BY <3>1 DEF InUb
      <4>2. f.tail[s] = min + k - 1 /\ f.tail[s] \in Int
        BY <1>13, <1>15, <4>1
      <4> QED BY <1>9, <4>2
    <3>2. CASE ~InUb(ub, s)
      BY <1>8, <1>13, <3>2
    <3> QED BY <3>1, <3>2
  <2> QED BY <1>13, <2>1
<1>23. f.used = Cardinality(InUse(f.cells))
  <2>1. InUse(f.cells) = {i \in Cell : d[i].seq # {}}
    BY <1>10 DEF InUse
  <2> QED BY <1>4, <2>1
<1>24. /\ \A k \in DOMAIN ub : f.cells[f.head + k - 1].seq = ub[k].seqs
       /\ \A i \in R : f.cells[i].src = i
       /\ \A s \in SeqId : ~InUb(ub, s) => (f.tail[s] = -1 <=> before.tail[s] = -1)
  <2>1. \A k \in DOMAIN ub : f.cells[f.head + k - 1].seq = ub[k].seqs
    <3> TAKE k \in DOMAIN ub
    <3>1. PICK i : i = min + k - 1
      OBVIOUS
    <3>2. i \in Cell /\ d[i].seq = ub[k].seqs
      BY <1>9, <1>15, <3>1
    <3> QED BY <1>4, <1>10, <3>1, <3>2
  <2>2. \A i \in R : f.cells[i].src = i
    BY <1>9, <1>10
  <2> QED BY <1>8, <1>13, <2>1, <2>2
<1>25. Slot(before, ub, f)
  <2>1. Matched(f.cells, f.tail)
    BY <1>10, <1>20, <1>21, <1>22 DEF Matched
  <2>2. f.head \in Cell /\ Ran(f) \subseteq Cell /\ f.graph.rs_z \in Ran(f) \cup {-1}
    BY <1>4, <1>8, <1>9, <1>11, <1>14
  <2> QED BY <1>14, <1>18, <1>23, <1>24, <2>1, <2>2 DEF Slot
<1>26. \A i \in R : f.graph.src0[i] = IF d[i].src = -1 THEN z ELSE d[i].src
  BY <1>4, <1>9, <1>16
\* a row that is copied is not the zeroed one
<1>27. \A i \in R : d[i].src # -1 => f.graph.src0[i] = d[i].src /\ f.graph.src0[i] # f.graph.rs_z
  <2> TAKE i \in R
  <2> HAVE d[i].src # -1
  <2>1. f.graph.src0[i] = d[i].src /\ f.graph.rs_z = z /\ i \in Cell
    BY <1>4, <1>9, <1>26
  <2>2. d[i].src # z
    BY <1>11, <2>1
  <2> QED BY <2>1, <2>2
<1>28. \A i \in R : m.cells[i].seq = {} => FreshRow(before, f, f.graph.src0[i])
  <2> TAKE i \in R
  <2> HAVE m.cells[i].seq = {}
  <2>1. i \in Cell /\ d[i].src = m.cells[i].src
    BY <1>9
  <2>2. CASE d[i].src = -1
    BY <1>4, <1>11, <1>26, <2>2 DEF FreshRow
  <2>3. CASE d[i].src # -1
    <3>1. Blank(before.cells, m.cells[i].src)
      BY <1>8, <2>1, <2>3
    <3> QED BY <1>27, <2>1, <2>3, <3>1 DEF FreshRow
  <2> QED BY <2>2, <2>3
<1>29. ASSUME NEW k \in DOMAIN ub
       PROVE  IF before.tail[First(ub[k])] # -1
              THEN /\ f.graph.src0[f.head + k - 1] = before.tail[First(ub[k])]
                   /\ f.graph.src0[f.head + k - 1] # f.graph.rs_z
              ELSE FreshRow(before, f, f.graph.src0[f.head + k - 1])
  <2>1. PICK i, s : i = f.head + k - 1 /\ s = First(ub[k])
    OBVIOUS
  <2>2. i \in R /\ i \in Cell /\ d[i].src = m.cells[i].src /\ s \in SeqId /\ s \notin Gone(ub)
    <3>1. i = min + k - 1 /\ i \in Int
      BY <1>4, <1>15, <2>1
    <3>2. i \in R /\ i \in Cell
      BY <1>9, <3>1
    <3> QED BY <1>9, <2>1, <3>2, FirstsApart, GoneIs
  <2>3. CASE before.tail[s] # -1
    <3>1. m.tail[s] = i /\ s \in m.cells[i].seq
      BY <1>4, <1>8, <2>1, <2>2, <2>3
    <3>2. m.cells[i].src = before.tail[s]
      BY <1>8, <2>2, <3>1
    <3> QED BY <1>27, <2>1, <2>2, <2>3, <3>2
  <2>4. CASE before.tail[s] = -1
    <3>1. m.cells[i].seq = {}
      <4> SUFFICES ASSUME NEW t \in m.cells[i].seq
                   PROVE  FALSE
        OBVIOUS
      <4>1. m.cells[i] \in CellType
        BY <1>8, <2>2
      <4>2. t \in SeqId
        BY <4>1 DEF CellType
      <4>3. m.tail[t] = i /\ before.tail[t] # -1
        BY <1>8, <2>2, <4>2
      <4>4. t = s
        BY <1>4, <1>8, <2>1, <4>2, <4>3
      <4> QED BY <2>4, <4>3, <4>4
    <3> QED BY <1>28, <2>1, <2>2, <2>4, <3>1
  <2> QED BY <2>1, <2>3, <2>4
<1>30. ASSUME NEW i \in R, NEW s \in SeqId, s \in f.cells[i].seq, ~InUb(ub, s)
       PROVE  /\ before.tail[s] # -1
              /\ f.graph.src0[i] = before.tail[s] /\ f.graph.src0[i] # f.graph.rs_z
  <2>1. i \in Cell /\ s \in d[i].seq
    BY <1>9, <1>10, <1>30
  <2>2. \A k \in DOMAIN ub : i # min + k - 1
    <3> SUFFICES ASSUME NEW k \in DOMAIN ub, i = min + k - 1
                 PROVE  FALSE
      OBVIOUS
    <3>1. s \in ub[k].seqs
      BY <1>9, <1>15, <2>1
    <3> QED BY <1>30, <3>1 DEF InUb
  <2>3. before.tail[s] # -1 /\ d[i].src = before.tail[s]
    BY <1>19, <2>1, <2>2
  <2> QED BY <1>27, <2>3
<1>31. ASSUME NEW i \in R, f.cells[i].seq = {}
       PROVE  FreshRow(before, f, f.graph.src0[i])
  <2>1. i \in Cell /\ d[i].seq = {}
    BY <1>9, <1>10, <1>31
  <2>2. \A k \in DOMAIN ub : i # min + k - 1
    <3> SUFFICES ASSUME NEW k \in DOMAIN ub, i = min + k - 1
                 PROVE  FALSE
      OBVIOUS
    <3>1. d[i].seq = ub[k].seqs
      BY <1>9, <1>15, <2>1
    <3> QED BY <1>12, <2>1, <3>1
  <2>3. m.cells[i].seq = {}
    BY <1>9, <2>1, <2>2
  <2> QED BY <1>28, <2>3
<1>32. ASSUME NEW i \in Cell \ R
       PROVE  /\ \A s \in f.cells[i].seq : before.tail[s] = i /\ ~InUb(ub, s)
              /\ f.cells[i].seq = {} /\ f.cells[i].src = i => Blank(before.cells, i)
  <2>1. \A k \in DOMAIN ub : i # min + k - 1
    BY <1>9, <1>15
  <2>2. d[i] = m.cells[i] /\ f.cells[i].seq = d[i].seq /\ f.cells[i].src = d[i].src
    BY <1>9, <1>10, <2>1
  <2>3. \A s \in f.cells[i].seq : before.tail[s] = i /\ ~InUb(ub, s)
    <3> TAKE s \in f.cells[i].seq
    <3>1. ~InUb(ub, s) /\ before.tail[s] # -1 /\ d[i].src = before.tail[s]
      BY <1>19, <2>1, <2>2
    <3> QED BY <1>8, <2>2, <3>1
  <2>4. f.cells[i].seq = {} /\ f.cells[i].src = i => Blank(before.cells, i)
    <3> HAVE f.cells[i].seq = {} /\ f.cells[i].src = i
    <3>1. m.cells[i].seq = {} /\ m.cells[i].src = i /\ i # -1
      BY <1>12, <2>2
    <3> QED BY <1>8, <3>1
  <2> QED BY <2>3, <2>4
<1>33. Traced(before, ub, f)
  BY <1>14, <1>29, <1>30, <1>31, <1>32 DEF Traced
<1> QED BY <1>25, <1>33

-----------------------------------------------------------------------------
(* Between two decodes *)

Fit(c, tl, h, u) == Matched(c, tl) /\ h \in Cell /\ u = Cardinality(InUse(c))

\* The number of cells in use goes down by those that are freed.
LEMMA FewerUsed ==
  ASSUME NEW c, NEW d, InUse(d) \subseteq InUse(c), NEW G, G = InUse(c) \ InUse(d)
  PROVE  Cardinality(InUse(c)) - Cardinality(G) = Cardinality(InUse(d))
<1>1. PICK S, T : S = InUse(c) /\ T = InUse(d)
  OBVIOUS
<1>2. S \subseteq Cell /\ T \subseteq S /\ G = S \ T
  BY <1>1 DEF InUse
<1>3. IsFiniteSet(S) /\ IsFiniteSet(T)
  BY <1>2, SizeIs, FS_Subset
<1>4. S \cap T = T
  BY <1>2
<1>5. Cardinality(S \ T) = Cardinality(S) - Cardinality(S \cap T)
  BY <1>3, FS_Difference
<1>6. Cardinality(S) \in Nat /\ Cardinality(T) \in Nat
  BY <1>3, FS_CardinalityType
<1>7. Cardinality(G) = Cardinality(S) - Cardinality(T)
  BY <1>2, <1>4, <1>5
<1> QED BY <1>1, <1>6, <1>7

LEMMA FreedIs ==
  ASSUME NEW c, NEW d
  PROVE  Empty(d) \ Empty(c) = InUse(c) \ InUse(d)
  BY DEF Empty, InUse

LEMMA UsedIs ==
  ASSUME NEW c
  PROVE  Cardinality(InUse(c)) \in Nat
<1>1. InUse(c) \subseteq Cell
  BY DEF InUse
<1> QED BY <1>1, SizeIs, FS_Subset, FS_CardinalityType

LEMMA FreedHeadIs ==
  ASSUME head \in Cell, NEW c
  PROVE  FreedHead(c) \in Cell
<1>1. PICK freed : freed = Empty(c) \ Empty(cells)
  OBVIOUS
<1>2. freed \in SUBSET Cell
  BY <1>1 DEF Empty
<1>3. freed \in SUBSET Nat
  BY <1>2, SizeIs
<1>4. freed # {} => Min(freed) \in Cell
  BY <1>2, <1>3, MinIs
<1> QED BY <1>1, <1>4 DEF FreedHead

\* s has left its cell, and the others are where they were.
LeftBy(c, tl, d, ul, s) ==
    /\ \A i \in Cell : d[i].seq = c[i].seq \ {s}
    /\ \A i \in Cell : d[i].seq # {} => d[i].pos = c[i].pos /\ d[i].src = c[i].src
    /\ \A i \in Cell : d[i].seq = {} /\ d[i].src = i => Blank(c, i)
    /\ \A t \in SeqId : ul[t] = IF t = s THEN -1 ELSE tl[t]

LEMMA WithoutIs ==
  ASSUME Fit(cells, tail, head, used), NEW s \in SeqId, NEW w, w = Without(s)
  PROVE  Fit(w.cells, w.tail, w.head, w.used) /\ LeftBy(cells, tail, w.cells, w.tail, s)
<1>1. PICK c : c = [i \in Cell |-> Leave(cells[i], {s})]
  OBVIOUS
<1>2. w = [cells |-> c, tail |-> [tail EXCEPT ![s] = -1], head |-> FreedHead(c),
           used |-> used - Cardinality(Empty(c) \ Empty(cells))]
  BY <1>1 DEF Without
<1>3. /\ w.cells = c /\ w.tail = [tail EXCEPT ![s] = -1] /\ w.head = FreedHead(c)
      /\ w.used = used - Cardinality(Empty(c) \ Empty(cells))
  BY <1>2
<1>4. /\ cells \in [Cell -> CellType] /\ tail \in [SeqId -> Cell \cup {-1}]
      /\ head \in Cell /\ used = Cardinality(InUse(cells)) /\ -1 \notin Cell
      /\ \A t \in SeqId, i \in Cell : t \in cells[i].seq <=> tail[t] = i
      /\ \A i \in Cell : /\ cells[i].seq # {} <=> cells[i].pos >= 0
                         /\ cells[i].src \in {-1, i}
                         /\ cells[i].seq # {} => cells[i].src = i
  BY SizeIs DEF Fit, Matched, Agree, Home
<1>5. \A i \in Cell : /\ c[i] \in CellType
                      /\ c[i].seq = cells[i].seq \ {s}
                      /\ c[i].seq # {} => c[i].pos = cells[i].pos /\ c[i].src = cells[i].src
                      /\ c[i].seq = {} /\ cells[i].seq # {} => c[i].pos = -1 /\ c[i].src = -1
                      /\ cells[i].seq = {} => c[i] = cells[i]
  <2> TAKE i \in Cell
  <2>1. c[i] = Leave(cells[i], {s}) /\ cells[i] \in CellType
    BY <1>1, <1>4
  <2> QED BY <2>1, LeaveIs
<1>6. c \in [Cell -> CellType]
  <2>1. c = [i \in Cell |-> c[i]]
    BY <1>1
  <2> QED BY <1>5, <2>1
<1>7. \A t \in SeqId : w.tail[t] = IF t = s THEN -1 ELSE tail[t]
  BY <1>3, <1>4
<1>8. w.tail \in [SeqId -> Cell \cup {-1}]
  BY <1>3, <1>4
<1>9. Agree(c, w.tail)
  BY <1>4, <1>5, <1>7 DEF Agree
<1>10. Home(c)
  <2> SUFFICES ASSUME NEW i \in Cell
               PROVE  /\ c[i].seq # {} <=> c[i].pos >= 0
                      /\ c[i].src \in {-1, i}
                      /\ c[i].seq # {} => c[i].src = i
    BY DEF Home
  <2>1. /\ cells[i].seq # {} <=> cells[i].pos >= 0
        /\ cells[i].src \in {-1, i}
        /\ cells[i].seq # {} => cells[i].src = i
    BY <1>4
  <2>2. c[i].seq # {} => cells[i].seq # {}
    BY <1>5
  <2>3. ~ -1 >= 0
    OBVIOUS
  <2> QED BY <1>5, <2>1, <2>2, <2>3
<1>11. w.used = Cardinality(InUse(c))
  <2>1. InUse(c) \subseteq InUse(cells)
    BY <1>5 DEF InUse
  <2> QED BY <1>3, <1>4, <2>1, FreedIs, FewerUsed
<1>12. w.head \in Cell
  BY <1>3, <1>4, FreedHeadIs
<1>13. Fit(w.cells, w.tail, w.head, w.used)
  BY <1>3, <1>6, <1>8, <1>9, <1>10, <1>11, <1>12 DEF Fit, Matched
<1>14. \A i \in Cell : c[i].seq = {} /\ c[i].src = i => Blank(cells, i)
  <2> TAKE i \in Cell
  <2> HAVE c[i].seq = {} /\ c[i].src = i
  <2>1. cells[i].seq = {}
    BY <1>4, <1>5
  <2>2. cells[i].src = i
    BY <1>5, <2>1
  <2> QED BY <2>1, <2>2 DEF Blank
<1> QED BY <1>3, <1>5, <1>7, <1>13, <1>14 DEF LeftBy

LEMMA FitIs ==
  ASSUME NEW c, NEW tl, NEW h, NEW u, Fit(c, tl, h, u)
  PROVE  /\ c \in [Cell -> CellType] /\ tl \in [SeqId -> Cell \cup {-1}]
         /\ h \in Cell /\ u = Cardinality(InUse(c)) /\ -1 \notin Cell
         /\ \A t \in SeqId, i \in Cell : t \in c[i].seq <=> tl[t] = i
         /\ \A i \in Cell : c[i].seq # {} <=> c[i].pos >= 0
         /\ \A i \in Cell : c[i].src \in {-1, i}
         /\ \A i \in Cell : c[i].seq # {} => c[i].src = i
         /\ \A i \in Cell : c[i].seq \in SUBSET SeqId
         /\ \A t \in SeqId : tl[t] >= 0 <=> tl[t] # -1
         /\ \A t \in SeqId : tl[t] >= 0 => tl[t] \in Cell /\ t \in c[tl[t]].seq
<1>1. /\ c \in [Cell -> CellType] /\ tl \in [SeqId -> Cell \cup {-1}]
      /\ h \in Cell /\ u = Cardinality(InUse(c)) /\ -1 \notin Cell /\ Cell \subseteq Nat
      /\ \A t \in SeqId, i \in Cell : t \in c[i].seq <=> tl[t] = i
      /\ \A i \in Cell : /\ c[i].seq # {} <=> c[i].pos >= 0
                         /\ c[i].src \in {-1, i}
                         /\ c[i].seq # {} => c[i].src = i
  BY SizeIs DEF Fit, Matched, Agree, Home
<1>2. \A i \in Cell : c[i].seq \in SUBSET SeqId
  <2> TAKE i \in Cell
  <2>1. c[i] \in CellType
    BY <1>1
  <2> QED BY <2>1 DEF CellType
<1>3. ASSUME NEW t \in SeqId
      PROVE  /\ tl[t] >= 0 <=> tl[t] # -1
             /\ tl[t] >= 0 => tl[t] \in Cell /\ t \in c[tl[t]].seq
  <2>1. tl[t] \in Cell \cup {-1}
    BY <1>1
  <2>2. CASE tl[t] = -1
    BY <2>2
  <2>3. CASE tl[t] \in Cell
    <3>1. tl[t] \in Nat /\ t \in c[tl[t]].seq
      BY <1>1, <2>3
    <3> QED BY <1>1, <2>3, <3>1
  <2> QED BY <2>1, <2>2, <2>3
<1> QED BY <1>1, <1>2, <1>3

\* Sequences share a cell.
CopiedTo(c, tl, d, ul, src, dst) ==
    /\ \A i \in Cell : d[i].seq = IF tl[src] = i THEN c[i].seq \cup {dst} ELSE c[i].seq \ {dst}
    /\ \A i \in Cell : d[i].seq # {} => c[i].seq # {} /\ d[i].pos = c[i].pos /\ d[i].src = c[i].src
    /\ \A i \in Cell : d[i].seq = {} /\ d[i].src = i => Blank(c, i)
    /\ \A t \in SeqId : ul[t] = IF t = dst THEN tl[src] ELSE tl[t]

LEMMA CopyFits ==
  ASSUME Fit(cells, tail, head, used), NEW src \in SeqId, NEW dst \in SeqId, seq_cp(src, dst)
  PROVE  Fit(cells', tail', head', used') /\ CopiedTo(cells, tail, cells', tail', src, dst)
<1>1. PICK c : c = IF tail[dst] >= 0 THEN [cells EXCEPT ![tail[dst]] = Leave(@, {dst})] ELSE cells
  OBVIOUS
<1>2. /\ cells' = IF tail[src] >= 0 THEN [c EXCEPT ![tail[src]].seq = @ \cup {dst}] ELSE c
      /\ used' = used - Cardinality(Empty(c) \ Empty(cells))
      /\ tail' = [tail EXCEPT ![dst] = tail[src]] /\ head' = head /\ src # dst
  BY <1>1 DEF seq_cp
<1>3. /\ cells \in [Cell -> CellType] /\ tail \in [SeqId -> Cell \cup {-1}]
      /\ head \in Cell /\ used = Cardinality(InUse(cells)) /\ -1 \notin Cell
      /\ \A t \in SeqId, i \in Cell : t \in cells[i].seq <=> tail[t] = i
      /\ \A i \in Cell : cells[i].seq # {} <=> cells[i].pos >= 0
      /\ \A i \in Cell : cells[i].src \in {-1, i}
      /\ \A i \in Cell : cells[i].seq # {} => cells[i].src = i
      /\ \A i \in Cell : cells[i].seq \in SUBSET SeqId
      /\ \A t \in SeqId : tail[t] >= 0 <=> tail[t] # -1
      /\ \A t \in SeqId : tail[t] >= 0 => tail[t] \in Cell /\ t \in cells[tail[t]].seq
  BY FitIs
<1>4. \A i \in Cell : c[i] = IF tail[dst] = i THEN Leave(cells[i], {dst}) ELSE cells[i]
  <2>1. CASE tail[dst] >= 0
    BY <1>1, <1>3, <2>1
  <2>2. CASE ~ tail[dst] >= 0
    <3>1. c = cells /\ tail[dst] = -1
      BY <1>1, <1>3, <2>2
    <3> QED BY <1>3, <3>1
  <2> QED BY <2>1, <2>2
<1>5. \A i \in Cell : /\ c[i] \in CellType
                      /\ c[i].seq = cells[i].seq \ {dst}
                      /\ c[i].seq # {} => c[i].pos = cells[i].pos /\ c[i].src = cells[i].src
                      /\ c[i].seq = {} /\ cells[i].seq # {} => c[i].pos = -1 /\ c[i].src = -1
                      /\ cells[i].seq = {} => c[i] = cells[i]
  <2> TAKE i \in Cell
  <2>1. cells[i] \in CellType
    BY <1>3
  <2>2. CASE tail[dst] = i
    <3>1. c[i] = Leave(cells[i], {dst})
      BY <1>4, <2>2
    <3> QED BY <2>1, <3>1, LeaveIs
  <2>3. CASE tail[dst] # i
    <3>1. c[i] = cells[i]
      BY <1>4, <2>3
    <3>2. dst \notin cells[i].seq
      BY <1>3, <2>3
    <3>3. cells[i].seq \ {dst} = cells[i].seq
      BY <3>2
    <3> QED BY <2>1, <3>1, <3>3
  <2> QED BY <2>2, <2>3
<1>6. c = [i \in Cell |-> c[i]]
  <2>1. CASE tail[dst] >= 0
    BY <1>1, <1>3, <2>1
  <2>2. CASE ~ tail[dst] >= 0
    BY <1>1, <1>3, <2>2
  <2> QED BY <2>1, <2>2
<1>7. c \in [Cell -> CellType]
  BY <1>5, <1>6
<1>8. PICK d : d = cells'
  OBVIOUS
<1>9. /\ d \in [Cell -> CellType]
      /\ \A i \in Cell : /\ d[i].seq = IF tail[src] = i THEN c[i].seq \cup {dst} ELSE c[i].seq
                         /\ d[i].pos = c[i].pos /\ d[i].src = c[i].src
  <2>1. CASE tail[src] >= 0
    <3>1. PICK e : e = tail[src]
      OBVIOUS
    <3>2. e \in Cell /\ d = [c EXCEPT ![e].seq = c[e].seq \cup {dst}]
      BY <1>2, <1>3, <1>8, <2>1, <3>1
    <3>3. c[e] \in CellType
      BY <1>7, <3>2
    <3>4. c[e] = [pos |-> c[e].pos, src |-> c[e].src, seq |-> c[e].seq]
      BY <3>3 DEF CellType
    <3>5. /\ d[e] = [pos |-> c[e].pos, src |-> c[e].src, seq |-> c[e].seq \cup {dst}]
          /\ \A i \in Cell \ {e} : d[i] = c[i]
          /\ d = [i \in Cell |-> d[i]]
      BY <1>7, <3>2, <3>4
    <3>6. /\ d[e] \in CellType /\ d[e].seq = c[e].seq \cup {dst}
          /\ d[e].pos = c[e].pos /\ d[e].src = c[e].src
      <4>1. c[e].seq \cup {dst} \in SUBSET SeqId /\ c[e].pos \in Int /\ c[e].src \in Cell \cup {-1}
        BY <3>3 DEF CellType
      <4> QED BY <3>5, <4>1 DEF CellType
    <3>7. \A i \in Cell : d[i] \in CellType
      BY <1>5, <3>5, <3>6
    <3> QED BY <3>1, <3>5, <3>6, <3>7
  <2>2. CASE ~ tail[src] >= 0
    <3>1. d = c /\ tail[src] = -1
      BY <1>2, <1>3, <1>8, <2>2
    <3> QED BY <1>3, <1>7, <3>1
  <2> QED BY <2>1, <2>2
<1>10. \A i \in Cell : d[i].seq = IF tail[src] = i THEN cells[i].seq \cup {dst} ELSE cells[i].seq \ {dst}
  <2> TAKE i \in Cell
  <2>1. (cells[i].seq \ {dst}) \cup {dst} = cells[i].seq \cup {dst}
    OBVIOUS
  <2> QED BY <1>5, <1>9, <2>1
<1>11. \A i \in Cell : d[i].seq # {} <=> c[i].seq # {}
  <2> TAKE i \in Cell
  <2>1. CASE tail[src] = i
    <3>1. src \in cells[i].seq
      BY <1>3, <2>1
    <3>2. src \in c[i].seq
      BY <1>2, <1>5, <3>1
    <3> QED BY <1>9, <2>1, <3>2
  <2>2. CASE tail[src] # i
    BY <1>9, <2>2
  <2> QED BY <2>1, <2>2
<1>12. \A i \in Cell : d[i].seq # {} => cells[i].seq # {} /\ d[i].pos = cells[i].pos /\ d[i].src = cells[i].src
  <2> TAKE i \in Cell
  <2> HAVE d[i].seq # {}
  <2>1. c[i].seq # {}
    BY <1>11
  <2> QED BY <1>5, <1>9, <2>1
<1>13. \A i \in Cell : d[i].seq = {} =>
          \/ d[i].pos = -1 /\ d[i].src = -1
          \/ cells[i].seq = {} /\ d[i].pos = cells[i].pos /\ d[i].src = cells[i].src
  <2> TAKE i \in Cell
  <2> HAVE d[i].seq = {}
  <2>1. c[i].seq = {} /\ d[i].pos = c[i].pos /\ d[i].src = c[i].src
    BY <1>9, <1>11
  <2>2. CASE cells[i].seq = {}
    <3>1. c[i] = cells[i]
      BY <1>5, <2>2
    <3> QED BY <2>1, <2>2, <3>1
  <2>3. CASE cells[i].seq # {}
    <3>1. c[i].pos = -1 /\ c[i].src = -1
      BY <1>5, <2>1, <2>3
    <3> QED BY <2>1, <3>1
  <2> QED BY <2>2, <2>3
<1>14. \A t \in SeqId : tail'[t] = IF t = dst THEN tail[src] ELSE tail[t]
  BY <1>2, <1>3
<1>15. tail' \in [SeqId -> Cell \cup {-1}]
  BY <1>2, <1>3
<1>16. Agree(d, tail')
  <2> SUFFICES ASSUME NEW t \in SeqId, NEW i \in Cell
               PROVE  t \in d[i].seq <=> tail'[t] = i
    BY DEF Agree
  <2>1. t \in cells[i].seq <=> tail[t] = i
    BY <1>3
  <2> QED BY <1>10, <1>14, <2>1
<1>17. Home(d)
  <2> SUFFICES ASSUME NEW i \in Cell
               PROVE  /\ d[i].seq # {} <=> d[i].pos >= 0
                      /\ d[i].src \in {-1, i}
                      /\ d[i].seq # {} => d[i].src = i
    BY DEF Home
  <2>1. CASE d[i].seq # {}
    BY <1>3, <1>12, <2>1
  <2>2. CASE d[i].seq = {} /\ d[i].pos = -1 /\ d[i].src = -1
    BY <2>2
  <2>3. CASE d[i].seq = {} /\ cells[i].seq = {} /\ d[i].pos = cells[i].pos /\ d[i].src = cells[i].src
    BY <1>3, <2>3
  <2> QED BY <1>13, <2>1, <2>2, <2>3
<1>18. used' = Cardinality(InUse(d))
  <2>1. InUse(d) = InUse(c) /\ InUse(c) \subseteq InUse(cells)
    BY <1>5, <1>11 DEF InUse
  <2> QED BY <1>2, <1>3, <2>1, FreedIs, FewerUsed
<1>19. \A i \in Cell : d[i].seq = {} /\ d[i].src = i => Blank(cells, i)
  <2> TAKE i \in Cell
  <2> HAVE d[i].seq = {} /\ d[i].src = i
  <2>1. i # -1
    BY <1>3
  <2> QED BY <1>13, <2>1 DEF Blank
<1>20. Fit(d, tail', head', used')
  BY <1>2, <1>3, <1>9, <1>15, <1>16, <1>17, <1>18 DEF Fit, Matched
<1>21. CopiedTo(cells, tail, d, tail', src, dst)
  BY <1>10, <1>12, <1>14, <1>19 DEF CopiedTo
<1> QED BY <1>8, <1>20, <1>21

\* Only s is left.
KeptOf(c, tl, d, ul, s) ==
    /\ \A i \in Cell : IF tl[s] = i
                       THEN d[i].seq = {s} /\ d[i].pos = c[i].pos /\ d[i].src = c[i].src
                       ELSE d[i] = EmptyCell
    /\ \A t \in SeqId : ul[t] = IF t = s THEN tl[t] ELSE -1

LEMMA KeepFits ==
  ASSUME Fit(cells, tail, head, used), NEW s \in SeqId, seq_keep(s)
  PROVE  Fit(cells', tail', head', used') /\ KeptOf(cells, tail, cells', tail', s)
<1>1. PICK d : d = [i \in Cell |-> IF s \in cells[i].seq THEN [cells[i] EXCEPT !.seq = {s}]
                                   ELSE EmptyCell]
  OBVIOUS
<1>2. PICK G, other : /\ G = {i \in Cell : s \notin cells[i].seq /\ cells[i].pos >= 0}
                      /\ other = {i \in Cell : s \notin cells[i].seq}
  OBVIOUS
<1>3. /\ cells' = d /\ tail' = [t \in SeqId |-> IF t = s THEN tail[t] ELSE -1]
      /\ used' = used - Cardinality(G)
      /\ head' = IF other # {} /\ Min(other) < head THEN Min(other) ELSE head
  BY <1>1, <1>2 DEF seq_keep
<1>4. /\ cells \in [Cell -> CellType] /\ tail \in [SeqId -> Cell \cup {-1}]
      /\ head \in Cell /\ used = Cardinality(InUse(cells)) /\ -1 \notin Cell
      /\ \A t \in SeqId, i \in Cell : t \in cells[i].seq <=> tail[t] = i
      /\ \A i \in Cell : cells[i].seq # {} <=> cells[i].pos >= 0
      /\ \A i \in Cell : cells[i].seq # {} => cells[i].src = i
  BY FitIs
<1>5. EmptyCell.seq = {} /\ EmptyCell.pos = -1 /\ EmptyCell.src = -1 /\ EmptyCell \in CellType
  BY DEF EmptyCell, CellType
<1>6. ASSUME NEW i \in Cell
      PROVE  /\ d[i] \in CellType
             /\ IF tail[s] = i
                THEN d[i].seq = {s} /\ d[i].pos = cells[i].pos /\ d[i].src = cells[i].src
                ELSE d[i] = EmptyCell
  <2>1. cells[i] = [pos |-> cells[i].pos, src |-> cells[i].src, seq |-> cells[i].seq]
        /\ cells[i].pos \in Int /\ cells[i].src \in Cell \cup {-1}
    BY <1>4 DEF CellType
  <2>2. CASE tail[s] = i
    <3>1. d[i] = [cells[i] EXCEPT !.seq = {s}]
      BY <1>1, <1>4, <2>2
    <3>2. d[i] = [pos |-> cells[i].pos, src |-> cells[i].src, seq |-> {s}]
      BY <2>1, <3>1
    <3> QED BY <2>1, <2>2, <3>2 DEF CellType
  <2>3. CASE tail[s] # i
    <3>1. d[i] = EmptyCell
      BY <1>1, <1>4, <2>3
    <3> QED BY <1>5, <2>3, <3>1
  <2> QED BY <2>2, <2>3
<1>7. d \in [Cell -> CellType]
  <2>1. d = [i \in Cell |-> d[i]]
    BY <1>1
  <2> QED BY <1>6, <2>1
<1>8. \A t \in SeqId : tail'[t] = IF t = s THEN tail[t] ELSE -1
  BY <1>3
<1>9. tail' \in [SeqId -> Cell \cup {-1}]
  BY <1>3, <1>4
<1>10. Agree(d, tail')
  <2> SUFFICES ASSUME NEW t \in SeqId, NEW i \in Cell
               PROVE  t \in d[i].seq <=> tail'[t] = i
    BY DEF Agree
  <2> QED BY <1>4, <1>5, <1>6, <1>8
<1>11. Home(d)
  <2> SUFFICES ASSUME NEW i \in Cell
               PROVE  /\ d[i].seq # {} <=> d[i].pos >= 0
                      /\ d[i].src \in {-1, i}
                      /\ d[i].seq # {} => d[i].src = i
    BY DEF Home
  <2>1. CASE tail[s] = i
    <3>1. s \in cells[i].seq
      BY <1>4, <2>1
    <3>2. cells[i].pos >= 0 /\ cells[i].src = i
      BY <1>4, <3>1
    <3> QED BY <1>6, <2>1, <3>2
  <2>2. CASE tail[s] # i
    BY <1>5, <1>6, <2>2
  <2> QED BY <2>1, <2>2
<1>12. used' = Cardinality(InUse(d))
  <2>1. \A i \in Cell : d[i].seq # {} <=> s \in cells[i].seq
    BY <1>4, <1>5, <1>6, SMTT(30)
  <2>2. InUse(d) \subseteq InUse(cells)
    BY <2>1 DEF InUse
  <2>3. G = InUse(cells) \ InUse(d)
    BY <1>2, <1>4, <2>1 DEF InUse
  <2> QED BY <1>3, <1>4, <2>2, <2>3, FewerUsed
<1>13. head' \in Cell
  <2>1. other \in SUBSET Cell /\ other \in SUBSET Nat
    BY <1>2, SizeIs
  <2>2. other # {} => Min(other) \in Cell
    BY <2>1, MinIs
  <2> QED BY <1>3, <1>4, <2>2
<1>14. Fit(d, tail', head', used')
  BY <1>7, <1>9, <1>10, <1>11, <1>12, <1>13 DEF Fit, Matched
<1>15. KeptOf(cells, tail, d, tail', s)
  BY <1>6, <1>8 DEF KeptOf
<1> QED BY <1>3, <1>14, <1>15

\* Taking tokens back changes a position only.
LEMMA RmTailFits ==
  ASSUME Fit(cells, tail, head, used), NEW s \in SeqId, NEW r \in Group, seq_rm_tail(s, r)
  PROVE  /\ Fit(cells', tail', head', used')
         /\ \A i \in Cell : cells'[i].seq = cells[i].seq /\ cells'[i].src = cells[i].src
<1>1. /\ cells \in [Cell -> CellType] /\ tail \in [SeqId -> Cell \cup {-1}]
      /\ head \in Cell /\ used = Cardinality(InUse(cells))
      /\ \A t \in SeqId, i \in Cell : t \in cells[i].seq <=> tail[t] = i
      /\ \A i \in Cell : cells[i].seq # {} <=> cells[i].pos >= 0
      /\ \A i \in Cell : cells[i].src \in {-1, i}
      /\ \A i \in Cell : cells[i].seq # {} => cells[i].src = i
      /\ \A t \in SeqId : tail[t] >= 0 => tail[t] \in Cell /\ t \in cells[tail[t]].seq
  BY FitIs
<1>2. PICK e, d : e = tail[s] /\ d = cells'
  OBVIOUS
<1>3. /\ e \in Cell /\ s \in cells[e].seq /\ r <= cells[e].pos
      /\ d = [cells EXCEPT ![e].pos = @ - r]
      /\ tail' = tail /\ head' = head /\ used' = used
  BY <1>1, <1>2 DEF seq_rm_tail
<1>4. r \in Int /\ -1 \notin Cell
  BY SizeIs, SizeAssumption DEF Group
<1>5. cells[e] = [pos |-> cells[e].pos, src |-> cells[e].src, seq |-> cells[e].seq]
      /\ cells[e].pos \in Int /\ cells[e].src \in Cell \cup {-1} /\ cells[e].seq \in SUBSET SeqId
  BY <1>1, <1>3 DEF CellType
<1>6. /\ d[e] = [pos |-> cells[e].pos - r, src |-> cells[e].src, seq |-> cells[e].seq]
      /\ \A i \in Cell \ {e} : d[i] = cells[i]
      /\ d = [i \in Cell |-> d[i]]
  <2>1. cells \in [Cell -> CellType] /\ e \in Cell
    BY <1>1, <1>3
  <2>2. PICK x : x = [pos |-> cells[e].pos - r, src |-> cells[e].src, seq |-> cells[e].seq]
    OBVIOUS
  <2>3. [cells[e] EXCEPT !.pos = cells[e].pos - r] = x
    BY <1>5, <2>2
  <2>4. d = [cells EXCEPT ![e] = x]
    BY <1>3, <2>3
  <2> QED BY <2>1, <2>2, <2>4
<1>7. cells[e].pos - r \in Int /\ (cells[e].pos - r >= 0)
  BY <1>3, <1>4, <1>5
<1>8. /\ d[e] \in CellType /\ d[e].seq = cells[e].seq /\ d[e].src = cells[e].src /\ d[e].pos >= 0
  BY <1>5, <1>6, <1>7 DEF CellType
<1>9. \A i \in Cell : /\ d[i] \in CellType /\ d[i].seq = cells[i].seq /\ d[i].src = cells[i].src
                      /\ d[i].pos >= 0 <=> cells[i].pos >= 0
  <2> TAKE i \in Cell
  <2>1. CASE i = e
    <3>1. cells[e].pos >= 0
      BY <1>1, <1>3
    <3> QED BY <1>8, <2>1, <3>1
  <2>2. CASE i # e
    BY <1>1, <1>6, <2>2
  <2> QED BY <2>1, <2>2
<1>10. d \in [Cell -> CellType]
  BY <1>6, <1>9
<1>11. Matched(d, tail)
  BY <1>1, <1>9, <1>10 DEF Matched, Agree, Home
<1>12. InUse(d) = InUse(cells)
  BY <1>9 DEF InUse
<1> QED BY <1>1, <1>2, <1>3, <1>9, <1>11, <1>12 DEF Fit

\* All cells are empty.
LEMMA EmptyFits ==
  Fit([i \in Cell |-> EmptyCell], [s \in SeqId |-> -1], 0, 0)
<1>1. PICK d, ul : d = [i \in Cell |-> EmptyCell] /\ ul = [s \in SeqId |-> -1]
  OBVIOUS
<1>2. EmptyCell.seq = {} /\ EmptyCell.pos = -1 /\ EmptyCell.src = -1 /\ EmptyCell \in CellType
  BY DEF EmptyCell, CellType
<1>3. d \in [Cell -> CellType] /\ \A i \in Cell : d[i] = EmptyCell
  BY <1>1, <1>2
<1>4. ul \in [SeqId -> Cell \cup {-1}] /\ \A s \in SeqId : ul[s] = -1
  BY <1>1
<1>5. Matched(d, ul)
  BY <1>2, <1>3, <1>4, SizeIs DEF Matched, Agree, Home
<1>6. InUse(d) = {}
  BY <1>2, <1>3 DEF InUse
<1>7. Cardinality(InUse(d)) = 0
  BY <1>6, FS_EmptySet
<1> QED BY <1>1, <1>5, <1>7, SizeIs DEF Fit

\* A restored sequence gets a cell like one that decoded a token.
ReadSlot(s) == find_slot(Without(s), <<[seqs |-> {s}, pos |-> saved.pos]>>)

LEMMA ReadFits ==
  ASSUME Fit(cells, tail, head, used), NEW s \in SeqId, saved.pos \in Nat, state_read(s),
         NEW ub, ub = <<[seqs |-> {s}, pos |-> saved.pos]>>, NEW m, m = ReadSlot(s)
  PROVE  /\ Asked(ub) /\ First(ub[1]) = s
         /\ Slot(Without(s), ub, m) /\ Traced(Without(s), ub, m)
         /\ cells' = m.cells /\ tail' = m.tail /\ head' = m.head /\ used' = m.used
         /\ Fit(cells', tail', head', used') /\ pc' = "idle"
<1>1. Asked(ub) /\ First(ub[1]) = s
  <2>1. /\ Len(ub) = 1 /\ DOMAIN ub = {1} /\ ub[1].seqs = {s} /\ ub[1].pos \in Nat
    OBVIOUS
  <2>2. {s} \in SeqSets
    BY DEF SeqSets
  <2>3. 1 .. 1 = {1} /\ 1 \in Nat \ {0}
    OBVIOUS
  <2>4. First(ub[1]) \in {s}
    BY <2>1, <2>2, FirstIs
  <2> QED BY <2>1, <2>2, <2>3, <2>4 DEF Asked
<1>2. PICK w : w = Without(s)
  OBVIOUS
<1>3. /\ Fit(w.cells, w.tail, w.head, w.used)
  BY <1>2, WithoutIs
<1>4. w.used \in Int
  BY <1>3, UsedIs DEF Fit
<1>5. Slot(w, ub, m) /\ Traced(w, ub, m)
  <2>1. m = find_slot(w, ub)
    BY <1>2 DEF ReadSlot
  <2>2. Matched(w.cells, w.tail) /\ w.head \in Cell
    BY <1>3 DEF Fit
  <2> QED BY <1>1, <1>4, <2>1, <2>2, SlotIs
<1>6. /\ cells' = [m.cells EXCEPT ![m.head].src = m.head]
      /\ tail' = m.tail /\ head' = m.head /\ used' = m.used
      /\ pc' = IF m.ok THEN "idle" ELSE "aborted"
  BY DEF state_read, ReadSlot
<1>7. /\ m.ok = TRUE /\ Matched(m.cells, m.tail) /\ m.used = Cardinality(InUse(m.cells))
      /\ m.head \in Cell /\ \A i \in Ran(m) : m.cells[i].src = i
      /\ m.graph.n \in Nat /\ Len(ub) <= m.graph.n
  BY <1>5 DEF Slot
<1>8. m.head \in Ran(m)
  <2>1. Len(ub) = 1 /\ m.head \in Nat
    BY <1>7, SizeIs
  <2> QED BY <1>7, <2>1 DEF Ran
<1>9. [m.cells EXCEPT ![m.head].src = m.head] = m.cells
  <2>1. PICK c, h : c = m.cells /\ h = m.head
    OBVIOUS
  <2>2. c \in [Cell -> CellType] /\ h \in Cell /\ c[h].src = h
    BY <1>7, <1>8, <2>1 DEF Matched
  <2>3. c[h] \in CellType
    BY <2>2
  <2>4. [c[h] EXCEPT !.src = h] = c[h]
    BY <2>2, <2>3 DEF CellType
  <2>5. [c EXCEPT ![h].src = h] = [c EXCEPT ![h] = [c[h] EXCEPT !.src = h]]
    OBVIOUS
  <2>6. [c EXCEPT ![h] = c[h]] = c
    BY <2>2
  <2> QED BY <2>1, <2>4, <2>5, <2>6
<1>10. Fit(cells', tail', head', used') /\ pc' = "idle" /\ cells' = m.cells
  BY <1>6, <1>7, <1>9 DEF Fit
<1> QED BY <1>1, <1>2, <1>5, <1>6, <1>10

-----------------------------------------------------------------------------
(* Decode *)

LEMMA RunIs ==
  ASSUME NEW S \in SeqSets, NEW m \in Nat \ {0}, NEW t \in Token, NEW run, run = Run(S, m, t)
  PROVE  run \in RunType /\ run.seqs = S /\ run.toks # <<>>
<1>1. PICK T : T = [k \in 1 .. m |-> <<Min(S), t>>]
  OBVIOUS
<1>2. run = [seqs |-> S, toks |-> T]
  BY <1>1 DEF Run
<1>3. Min(S) \in SeqId
  <2>1. S \in SUBSET SeqId /\ S # {}
    BY DEF SeqSets
  <2>2. S \in SUBSET Nat
    BY <2>1 DEF SeqId
  <2> QED BY <2>1, <2>2, MinIs
<1>4. T \in Seq(Tok) /\ Len(T) = m
  <2>1. <<Min(S), t>> \in Tok
    BY <1>3 DEF Tok
  <2>2. T \in [1 .. m -> Tok] /\ m \in Nat
    BY <1>1, <2>1
  <2> QED BY <2>2
<1>5. T # <<>>
  BY <1>4
<1>6. run \in RunType
  BY <1>2, <1>4 DEF RunType
<1> QED BY <1>2, <1>5, <1>6

LEMMA DecodeIs ==
  ASSUME Decode
  PROVE  RunsOK(left') /\ left' # <<>> /\ \A r \in DOMAIN left' : Admitted(left'[r].seqs)
<1>1. PICK f \in Orders :
        /\ \A k \in DOMAIN f : Admitted(f[k])
        /\ \E len \in [DOMAIN f -> 1 .. MaxBatch], t \in [DOMAIN f -> Token] :
             left' = [k \in DOMAIN f |-> Run(f[k], len[k], t[k])]
  BY DEF Decode
<1>2. PICK len \in [DOMAIN f -> 1 .. MaxBatch], t \in [DOMAIN f -> Token] :
        left' = [k \in DOMAIN f |-> Run(f[k], len[k], t[k])]
  BY <1>1
<1>3. PICK n \in 1 .. NSeq : f \in [1 .. n -> SeqSets]
  BY DEF Orders
<1>4. /\ n \in Nat \ {0} /\ DOMAIN f = 1 .. n
      /\ \A x, y \in 1 .. n : x # y => f[x] \cap f[y] = {}
  BY <1>3, SizeIs, SMTT(30) DEF Orders
<1>5. PICK runs : runs = left'
  OBVIOUS
<1>6. ASSUME NEW k \in 1 .. n
      PROVE  runs[k] \in RunType /\ runs[k].seqs = f[k] /\ runs[k].toks # <<>>
  <2>1. f[k] \in SeqSets /\ len[k] \in Nat \ {0} /\ t[k] \in Token
    BY <1>3, <1>4, SizeAssumption
  <2>2. runs[k] = Run(f[k], len[k], t[k])
    BY <1>2, <1>4, <1>5
  <2> QED BY <2>1, <2>2, RunIs
<1>7. runs = [k \in 1 .. n |-> runs[k]]
  BY <1>2, <1>4, <1>5
<1>8. runs \in Seq(RunType) /\ Len(runs) = n /\ DOMAIN runs = 1 .. n
  <2>1. runs \in [1 .. n -> RunType]
    BY <1>6, <1>7
  <2> QED BY <1>4, <2>1
<1>9. runs # <<>>
  BY <1>4, <1>8
<1>10. RunsOK(runs)
  BY <1>4, <1>6, <1>8 DEF RunsOK
<1>11. \A r \in DOMAIN runs : Admitted(runs[r].seqs)
  BY <1>1, <1>4, <1>6, <1>8
<1> QED BY <1>5, <1>9, <1>10, <1>11

\* The next micro-batch, and where its cells are.
LEMMA ApplyIs ==
  ASSUME Fit(cells, tail, head, used), RunsOK(left), left # <<>>, Apply
  PROVE  /\ ubatch' \in Seq(UbType) /\ Asked(ubatch')
         /\ \A k \in DOMAIN ubatch' : /\ ubatch'[k].toks # <<>>
                                      /\ \E r \in DOMAIN left : ubatch'[k].seqs = left[r].seqs
         /\ RunsOK(left')
         /\ \A q \in DOMAIN left' : \E r \in DOMAIN left : left'[q].seqs = left[r].seqs
         /\ \E m : /\ Slot(Mem, ubatch', m) /\ Traced(Mem, ubatch', m)
                   /\ cells' = m.cells /\ tail' = m.tail /\ head' = m.head /\ used' = m.used
                   /\ graph' = m.graph
                   /\ undo' = [s \in SeqId |->
                                 IF m.tail[s] = tail[s] \/ Trusts("moved") THEN undo[s] ELSE 0]
         /\ Fit(cells', tail', head', used') /\ pc' = "inputs"
<1>1. PICK runs : runs = Piece(left, Take)
  OBVIOUS
<1>2. PICK ub : ub = WithPos(runs)
  OBVIOUS
<1>3. PICK m : m = find_slot(Mem, ub)
  OBVIOUS
<1>4. /\ ubatch' = ub /\ cells' = m.cells /\ tail' = m.tail /\ head' = m.head /\ used' = m.used
      /\ graph' = m.graph
      /\ pc' = IF m.ok THEN "inputs" ELSE "aborted"
      /\ undo' = [s \in SeqId |-> IF m.tail[s] = tail[s] \/ Trusts("moved") THEN undo[s] ELSE 0]
      /\ left' = Rest(left, Take)
  BY <1>1, <1>2, <1>3 DEF Apply, Becomes
<1>5. /\ runs \in Seq(RunType) /\ runs # <<>>
      /\ \A k \in DOMAIN runs : /\ runs[k].toks # <<>>
                                /\ \E r \in DOMAIN left : runs[k].seqs = left[r].seqs
      /\ \A k, l \in DOMAIN runs : k # l => runs[k].seqs \cap runs[l].seqs = {}
      /\ RunsOK(left')
      /\ \A q \in DOMAIN left' : \E r \in DOMAIN left : left'[q].seqs = left[r].seqs
  <2>1. PICK rest, take : take = Take /\ rest = Rest(left, take)
    OBVIOUS
  <2>2. left' = rest /\ runs = Piece(left, take)
    BY <1>1, <1>4, <2>1
  <2>3. left \in Seq(RunType) /\ \A r \in DOMAIN left : left[r].toks # <<>>
    BY DEF RunsOK
  <2>4. Takes(left, take)
    BY <2>1, <2>3, SplitEqualTakes, SplitSeqIs DEF Take
  <2> QED BY <2>1, <2>2, <2>4, SplitIs
<1>6. /\ cells \in [Cell -> CellType] /\ tail \in [SeqId -> Cell \cup {-1}]
      /\ head \in Cell /\ used = Cardinality(InUse(cells))
      /\ \A i \in Cell : cells[i].seq # {} <=> cells[i].pos >= 0
      /\ \A t \in SeqId : tail[t] >= 0 => tail[t] \in Cell /\ t \in cells[tail[t]].seq
  BY FitIs
<1>7. Len(runs) \in Nat \ {0} /\ DOMAIN runs = 1 .. Len(runs)
  BY <1>5
<1>8. ASSUME NEW k \in DOMAIN runs
      PROVE  /\ ub[k] \in UbType /\ ub[k].pos \in Nat
             /\ ub[k].seqs = runs[k].seqs /\ ub[k].toks = runs[k].toks
  <2>1. runs[k] \in RunType
    BY <1>5, <1>7
  <2>2. runs[k].seqs \in SeqSets /\ runs[k].toks \in Seq(Tok)
    BY <2>1 DEF RunType
  <2>3. Len(runs[k].toks) \in Nat \ {0}
    BY <1>5, <2>2
  <2>4. PICK s, n : s = First(runs[k]) /\ n = Len(runs[k].toks)
    OBVIOUS
  <2>5. s \in SeqId
    BY <2>2, <2>4, FirstIs
  <2>6. PICK p : p = (IF tail[s] < 0 THEN -1 ELSE cells[tail[s]].pos) + n
    OBVIOUS
  <2>7. ub[k] = [seqs |-> runs[k].seqs, toks |-> runs[k].toks, pos |-> p]
    BY <1>2, <2>4, <2>6 DEF WithPos
  <2>8. p \in Nat
    <3>1. CASE tail[s] < 0
      BY <2>3, <2>4, <2>6, <3>1
    <3>2. CASE ~ tail[s] < 0
      <4>1. tail[s] \in Cell /\ s \in cells[tail[s]].seq
        <5>1. tail[s] \in Cell \cup {-1}
          BY <1>6, <2>5
        <5>2. tail[s] >= 0
          BY <3>2, <5>1, SizeIs
        <5> QED BY <1>6, <2>5, <5>2
      <4>2. cells[tail[s]] \in CellType /\ cells[tail[s]].seq # {}
        BY <1>6, <4>1
      <4>3. cells[tail[s]].pos \in Int /\ cells[tail[s]].pos >= 0
        BY <1>6, <4>1, <4>2 DEF CellType
      <4> QED BY <2>3, <2>4, <2>6, <3>2, <4>3
    <3> QED BY <3>1, <3>2
  <2>9. ub[k] \in UbType
    BY <2>2, <2>7, <2>8 DEF UbType
  <2> QED BY <2>7, <2>8, <2>9
<1>9. ub \in Seq(UbType) /\ Len(ub) = Len(runs) /\ DOMAIN ub = DOMAIN runs
  <2>1. ub = [k \in 1 .. Len(runs) |-> ub[k]]
    BY <1>2, <1>7 DEF WithPos
  <2>2. ub \in [1 .. Len(runs) -> UbType] /\ Len(runs) \in Nat
    BY <1>7, <1>8, <2>1
  <2> QED BY <1>7, <2>2
<1>10. Asked(ub)
  <2>1. \A k \in DOMAIN ub : ub[k].seqs \in SeqSets /\ ub[k].pos \in Nat
    BY <1>8, <1>9 DEF UbType
  <2>2. \A k, l \in DOMAIN ub : k # l => ub[k].seqs \cap ub[l].seqs = {}
    BY <1>5, <1>8, <1>9
  <2> QED BY <1>7, <1>9, <2>1, <2>2 DEF Asked
<1>11. Slot(Mem, ub, m) /\ Traced(Mem, ub, m)
  <2>1. PICK before : before = Mem
    OBVIOUS
  <2>2. /\ before.cells = cells /\ before.tail = tail /\ before.head = head /\ before.used = used
    BY <2>1 DEF Mem
  <2>3. /\ Matched(before.cells, before.tail) /\ before.head \in Cell /\ before.used \in Int
    BY <1>6, <2>2, UsedIs DEF Fit
  <2>4. m = find_slot(before, ub)
    BY <1>3, <2>1
  <2>5. Slot(before, ub, m) /\ Traced(before, ub, m)
    BY <1>10, <2>3, <2>4, SlotIs
  <2> QED BY <2>1, <2>5
<1>12. Fit(cells', tail', head', used') /\ pc' = "inputs"
  <2>1. /\ m.ok = TRUE /\ Matched(m.cells, m.tail) /\ m.used = Cardinality(InUse(m.cells))
        /\ m.head \in Cell
    BY <1>11 DEF Slot
  <2> QED BY <1>4, <2>1 DEF Fit
<1>13. \A k \in DOMAIN ub : /\ ub[k].toks # <<>>
                            /\ \E r \in DOMAIN left : ub[k].seqs = left[r].seqs
  BY <1>5, <1>8, <1>9, SMTT(30)
<1> QED BY <1>4, <1>5, <1>9, <1>10, <1>11, <1>12, <1>13

-----------------------------------------------------------------------------
(* The cells *)

LEMMA SoundIs ==
  ASSUME Sound
  PROVE  /\ Fit(cells, tail, head, used)
         /\ pc \in {"ubatch", "inputs"} => RunsOK(left)
         /\ pc = "ubatch" => left # <<>>
         /\ saved # <<>> => saved.pos \in Nat
  BY DEF Sound, Fit

\* Between two decodes that is all there is to say.
LEMMA IdleSound ==
  ASSUME Fit(cells', tail', head', used'), pc' = "idle",
         saved' # <<>> => saved'.pos \in Nat
  PROVE  Sound'
  BY DEF Sound, Fit

LEMMA InitSound ==
  ASSUME Init
  PROVE  Sound
<1>1. /\ cells = [i \in Cell |-> EmptyCell] /\ tail = [s \in SeqId |-> -1]
      /\ head = 0 /\ used = 0 /\ pc = "idle" /\ saved = <<>>
  BY DEF Init
<1>2. Fit(cells, tail, head, used)
  BY <1>1, EmptyFits
<1> QED BY <1>1, <1>2 DEF Sound, Fit

LEMMA SoundStep ==
  ASSUME Sound, [Next]_vars
  PROVE  Sound'
<1>1. /\ Fit(cells, tail, head, used)
      /\ pc \in {"ubatch", "inputs"} => RunsOK(left)
      /\ pc = "ubatch" => left # <<>>
      /\ saved # <<>> => saved.pos \in Nat
  BY SoundIs
<1>2. CASE Clear
  <2>1. /\ cells' = [i \in Cell |-> EmptyCell] /\ tail' = [s \in SeqId |-> -1]
        /\ head' = 0 /\ used' = 0 /\ pc' = "idle" /\ saved' = saved
    BY <1>2 DEF Clear, decode
  <2>2. Fit(cells', tail', head', used')
    BY <2>1, EmptyFits
  <2> QED BY <1>1, <2>1, <2>2, IdleSound
<1>3. ASSUME NEW s \in SeqId, seq_rm_whole(s)
      PROVE  Sound'
  <2>1. PICK w : w = Without(s)
    OBVIOUS
  <2>2. /\ cells' = w.cells /\ tail' = w.tail /\ head' = w.head /\ used' = w.used
        /\ pc' = "idle" /\ saved' = saved
    BY <1>3, <2>1 DEF seq_rm_whole, Becomes, decode
  <2>3. Fit(w.cells, w.tail, w.head, w.used)
    BY <1>1, <2>1, WithoutIs
  <2> QED BY <1>1, <2>2, <2>3, IdleSound
<1>4. ASSUME NEW s \in SeqId, NEW r \in Group \ {0}, seq_rm_tail(s, r)
      PROVE  Sound'
  <2>1. Fit(cells', tail', head', used')
    BY <1>1, <1>4, RmTailFits
  <2>2. pc' = "idle" /\ saved' = saved
    BY <1>4 DEF seq_rm_tail, decode
  <2> QED BY <1>1, <2>1, <2>2, IdleSound
<1>5. ASSUME NEW s \in SeqId, NEW t \in SeqId, seq_cp(s, t)
      PROVE  Sound'
  <2>1. Fit(cells', tail', head', used')
    BY <1>1, <1>5, CopyFits
  <2>2. pc' = "idle" /\ saved' = saved
    BY <1>5 DEF seq_cp, decode
  <2> QED BY <1>1, <2>1, <2>2, IdleSound
<1>6. ASSUME NEW s \in SeqId, seq_keep(s)
      PROVE  Sound'
  <2>1. Fit(cells', tail', head', used')
    BY <1>1, <1>6, KeepFits
  <2>2. pc' = "idle" /\ saved' = saved
    BY <1>6 DEF seq_keep, decode
  <2> QED BY <1>1, <2>1, <2>2, IdleSound
<1>7. ASSUME NEW s \in SeqId, state_write(s)
      PROVE  Sound'
  <2>1. /\ cells' = cells /\ tail' = tail /\ head' = head /\ used' = used /\ pc' = "idle"
        /\ tail[s] >= 0 /\ saved'.pos = cells[tail[s]].pos
    BY <1>7 DEF state_write, meta, decode
  <2>2. tail[s] \in Cell /\ s \in cells[tail[s]].seq /\ cells \in [Cell -> CellType]
        /\ (cells[tail[s]].seq # {} => cells[tail[s]].pos >= 0)
    BY <1>1, <2>1, FitIs
  <2>3. cells[tail[s]] \in CellType /\ cells[tail[s]].pos >= 0
    BY <2>2
  <2>4. saved'.pos \in Nat
    BY <2>1, <2>3 DEF CellType
  <2> QED BY <1>1, <2>1, <2>4, IdleSound
<1>8. ASSUME NEW s \in SeqId, state_read(s)
      PROVE  Sound'
  <2>1. saved.pos \in Nat /\ saved' = saved
    BY <1>1, <1>8 DEF state_read
  <2>2. PICK ub, m : ub = <<[seqs |-> {s}, pos |-> saved.pos]>> /\ m = ReadSlot(s)
    OBVIOUS
  <2>3. Fit(cells', tail', head', used') /\ pc' = "idle"
    BY <1>1, <1>8, <2>1, <2>2, ReadFits
  <2> QED BY <2>1, <2>3, IdleSound
<1>9. CASE Decode
  <2>1. RunsOK(left') /\ left' # <<>>
    BY <1>9, DecodeIs
  <2>2. /\ cells' = cells /\ tail' = tail /\ head' = head /\ used' = used /\ pc' = "ubatch"
        /\ saved' = saved
    BY <1>9 DEF Decode, meta
  <2> QED BY <1>1, <2>1, <2>2 DEF Sound, Fit
<1>10. CASE Apply
  <2>1. pc = "ubatch" /\ saved' = saved
    BY <1>10 DEF Apply
  <2>2. /\ RunsOK(left') /\ Fit(cells', tail', head', used') /\ pc' = "inputs"
    BY <1>1, <1>10, <2>1, ApplyIs
  <2> QED BY <1>1, <2>1, <2>2 DEF Sound, Fit
<1>11. CASE Compute
  <2>1. /\ cells' = cells /\ tail' = tail /\ head' = head /\ used' = used
        /\ left' = left /\ saved' = saved /\ pc = "inputs"
        /\ pc' = IF left = <<>> THEN "idle" ELSE "ubatch"
    BY <1>11 DEF Compute, meta
  <2> QED BY <1>1, <2>1 DEF Sound, Fit
<1>12. CASE UNCHANGED vars
  <2>1. /\ cells' = cells /\ tail' = tail /\ head' = head /\ used' = used
        /\ left' = left /\ saved' = saved /\ pc' = pc /\ ubatch' = ubatch
    BY <1>12 DEF vars
  <2> QED BY <2>1 DEF Sound
<1>13. CASE Next
  BY <1>2, <1>3, <1>4, <1>5, <1>6, <1>7, <1>8, <1>9, <1>10, <1>11, <1>13, Zenon DEF Next
<1> QED BY <1>12, <1>13

LEMMA AlwaysSound == Spec => []Sound
<1>1. Init => Sound
  BY InitSound
<1>2. Sound /\ [Next]_vars => Sound'
  BY SoundStep
<1> QED BY <1>1, <1>2, PTL DEF Spec

\* The debug check of find_slot holds before and after every operation: a sequence is
\* in the cell its tail names and in no other, and used is the number of cells in use
\* (llama-memory-recurrent.cpp:525).
THEOREM TailsAlwaysAgree == Spec => []TailsAgree
<1>1. Sound => TailsAgree
  BY DEF Sound, Matched, Agree, InUse, TailsAgree
<1> QED BY <1>1, AlwaysSound, PTL

\* The assertions of find_slot never fail: there is an empty cell for every sequence of
\* a micro-batch that needs one, a sequence that moves is in its cell, and there is a
\* row to zero when a new sequence needs one (llama-memory-recurrent.cpp:574).
THEOREM FindSlotNeverAborts == Spec => []NeverAborts
<1>1. Sound => NeverAborts
  BY DEF Sound, NeverAborts
<1> QED BY <1>1, AlwaysSound, PTL

-----------------------------------------------------------------------------
(* The rows *)

\* A row that a cell or a rollback leads to is remembered.
LEMMA RememberedIs ==
  ASSUME NEW r, NEW q, q = Remembered(r)
  PROVE  /\ IsRows(q)
         /\ \A i \in Cell : cells'[i].src = i => q[0][i] = r[0][i]
         /\ \A i \in Cell, g \in Group : \A s \in cells'[i].seq :
              cells'[i].src = i /\ (g <= undo'[s] \/ g = rs_idx'[s]) => q[g][i] = r[g][i]
<1> DEFINE LedTo(g, i) ==
             \E c \in Cell : /\ cells'[c].src = i
                             /\ g = 0 \/ \E s \in cells'[c].seq : g <= undo'[s] \/ g = rs_idx'[s]
<1>1. q = [g \in Group |-> [i \in Cell |-> IF LedTo(g, i) THEN r[g][i] ELSE Stale]]
  BY DEF Remembered
<1>2. \A i \in Cell : cells'[i].src = i => LedTo(0, i)
  OBVIOUS
<1>3. \A i \in Cell, g \in Group : \A s \in cells'[i].seq :
        cells'[i].src = i /\ (g <= undo'[s] \/ g = rs_idx'[s]) => LedTo(g, i)
  OBVIOUS
<1> HIDE DEF LedTo
<1>4. \A g \in Group, i \in Cell : LedTo(g, i) => q[g][i] = r[g][i]
  BY <1>1
<1>5. 0 \in Group
  BY SizeAssumption DEF Group
<1>6. IsRows(q)
  BY <1>1 DEF IsRows
<1> QED BY <1>2, <1>3, <1>4, <1>5, <1>6

LEMMA KnowsIs ==
  ASSUME NEW tl, NEW ix, NEW un, NEW tr, NEW r, Knows(tl, ix, un, tr, r)
  PROVE  /\ tr \in [SeqId -> Seq(Tok)] /\ ix \in [SeqId -> Group] /\ un \in [SeqId -> Group]
         /\ \A s \in SeqId : tl[s] < 0 => tr[s] = <<>> /\ ix[s] = 0
         /\ \A s \in SeqId : tl[s] >= 0 /\ un[s] > 0 =>
               /\ ix[s] = 0 /\ un[s] <= Len(tr[s])
               /\ \A g \in 1 .. un[s] : r[g][tl[s]] = SubSeq(tr[s], 1, Len(tr[s]) - g)
  BY DEF Knows

LEMMA GroupIs ==
  /\ NRs \in Nat /\ 0 \in Group
  /\ \A g \in Group : g \in Nat /\ g <= NRs
  /\ \A g \in Nat : g <= NRs => g \in Group
  /\ \A n \in Group : \A g \in 1 .. n : g \in Group /\ g <= n /\ g # 0
  BY SizeAssumption DEF Group

\* What the rows tell is still told when the others are forgotten.
LEMMA IdleTold ==
  ASSUME Fit(cells', tail', head', used'), NEW r,
         RowsTell(cells', tail', rs_idx', undo', truth', r), rows' = Remembered(r),
         pc' = "idle", saved' # <<>> => saved'.truth \in Seq(Tok) /\ saved'.row = saved'.truth
  PROVE  Told'
<1>1. PICK c, tl, ix, un, tr, q :
        /\ c = cells' /\ tl = tail' /\ ix = rs_idx' /\ un = undo' /\ tr = truth' /\ q = rows'
  OBVIOUS
<1>2. /\ IsRows(q)
      /\ \A i \in Cell : c[i].src = i => q[0][i] = r[0][i]
      /\ \A i \in Cell, g \in Group : \A s \in c[i].seq :
           c[i].src = i /\ (g <= un[s] \/ g = ix[s]) => q[g][i] = r[g][i]
  BY <1>1, RememberedIs
<1>3. /\ tl \in [SeqId -> Cell \cup {-1}]
      /\ \A i \in Cell : c[i].seq # {} => c[i].src = i
      /\ \A i \in Cell : c[i].seq \in SUBSET SeqId
      /\ \A t \in SeqId : tl[t] >= 0 => tl[t] \in Cell /\ t \in c[tl[t]].seq
  BY <1>1, FitIs
<1>4. Knows(tl, ix, un, tr, r) /\ Apart(tl, ix, un) /\ \A i \in Cell : RowTold(c, ix, tr, r, i)
  BY <1>1 DEF RowsTell
<1>5. /\ tr \in [SeqId -> Seq(Tok)] /\ ix \in [SeqId -> Group] /\ un \in [SeqId -> Group]
      /\ \A s \in SeqId : tl[s] < 0 => tr[s] = <<>> /\ ix[s] = 0
      /\ \A s \in SeqId : tl[s] >= 0 /\ un[s] > 0 =>
               /\ ix[s] = 0 /\ un[s] <= Len(tr[s])
               /\ \A g \in 1 .. un[s] : r[g][tl[s]] = SubSeq(tr[s], 1, Len(tr[s]) - g)
  BY <1>4, KnowsIs
<1>6. ASSUME NEW s \in SeqId, tl[s] >= 0, un[s] > 0, NEW g \in 1 .. un[s]
      PROVE  q[g][tl[s]] = r[g][tl[s]]
  <2>1. g \in Group /\ g <= un[s]
    BY <1>5, GroupIs
  <2>2. tl[s] \in Cell /\ s \in c[tl[s]].seq
    BY <1>3, <1>6
  <2>3. c[tl[s]].src = tl[s]
    BY <1>3, <2>2
  <2> QED BY <1>2, <2>1, <2>2, <2>3
<1>7. Knows(tl, ix, un, tr, q)
  BY <1>5, <1>6 DEF Knows
<1>8. ASSUME NEW i \in Cell
      PROVE  RowTold(c, ix, tr, q, i)
  <2>1. c[i].seq = {} /\ c[i].src = i => q[0][i] = <<>>
    BY <1>2, <1>4 DEF RowTold
  <2>2. ASSUME NEW s \in c[i].seq
        PROVE  q[ix[s]][i] = tr[s]
    <3>1. s \in SeqId /\ c[i].src = i
      BY <1>3
    <3>2. ix[s] \in Group
      BY <1>5, <3>1
    <3>3. q[ix[s]][i] = r[ix[s]][i]
      BY <1>2, <3>1, <3>2
    <3> QED BY <1>4, <3>3 DEF RowTold
  <2> QED BY <2>1, <2>2 DEF RowTold
<1>9. RowsTell(c, tl, ix, un, tr, q)
  BY <1>4, <1>7, <1>8 DEF RowsTell
<1> QED BY <1>1, <1>2, <1>9 DEF Told

LEMMA ToldIs ==
  ASSUME Sound, Told, pc # "inputs"
  PROVE  /\ Fit(cells, tail, head, used) /\ IsRows(rows)
         /\ truth \in [SeqId -> Seq(Tok)] /\ rs_idx \in [SeqId -> Group] /\ undo \in [SeqId -> Group]
         /\ \A s \in SeqId : tail[s] < 0 => truth[s] = <<>> /\ rs_idx[s] = 0
         /\ \A s \in SeqId : tail[s] >= 0 /\ undo[s] > 0 =>
               /\ rs_idx[s] = 0 /\ undo[s] <= Len(truth[s])
               /\ \A g \in 1 .. undo[s] : rows[g][tail[s]] = SubSeq(truth[s], 1, Len(truth[s]) - g)
         /\ \A s, t \in SeqId : s # t /\ tail[s] = tail[t] /\ tail[s] >= 0 => rs_idx[s] = 0 /\ undo[s] = 0
         /\ \A i \in Cell : Blank(cells, i) => rows[0][i] = <<>>
         /\ \A i \in Cell : \A s \in cells[i].seq : rows[rs_idx[s]][i] = truth[s]
         /\ pc # "idle" => \A r \in DOMAIN left : Admitted(left[r].seqs)
         /\ saved # <<>> => saved.truth \in Seq(Tok) /\ saved.row = saved.truth
<1>1. /\ RowsTell(cells, tail, rs_idx, undo, truth, rows) /\ IsRows(rows)
      /\ pc # "idle" => \A r \in DOMAIN left : Admitted(left[r].seqs)
      /\ saved # <<>> => saved.truth \in Seq(Tok) /\ saved.row = saved.truth
  BY DEF Told
<1>2. /\ Knows(tail, rs_idx, undo, truth, rows) /\ Apart(tail, rs_idx, undo)
      /\ \A i \in Cell : RowTold(cells, rs_idx, truth, rows, i)
  BY <1>1 DEF RowsTell
<1>3. /\ \A i \in Cell : Blank(cells, i) => rows[0][i] = <<>>
      /\ \A i \in Cell : \A s \in cells[i].seq : rows[rs_idx[s]][i] = truth[s]
  BY <1>2 DEF RowTold, Blank
<1>4. /\ truth \in [SeqId -> Seq(Tok)] /\ rs_idx \in [SeqId -> Group] /\ undo \in [SeqId -> Group]
      /\ \A s \in SeqId : tail[s] < 0 => truth[s] = <<>> /\ rs_idx[s] = 0
      /\ \A s \in SeqId : tail[s] >= 0 /\ undo[s] > 0 =>
            /\ rs_idx[s] = 0 /\ undo[s] <= Len(truth[s])
            /\ \A g \in 1 .. undo[s] : rows[g][tail[s]] = SubSeq(truth[s], 1, Len(truth[s]) - g)
  BY <1>2, KnowsIs
<1>5. \A s, t \in SeqId : s # t /\ tail[s] = tail[t] /\ tail[s] >= 0 => rs_idx[s] = 0 /\ undo[s] = 0
  BY <1>2 DEF Apart
<1> QED BY <1>1, <1>3, <1>4, <1>5, SoundIs

\* the same for a state given by its parts
LEMMA TellsIf ==
  ASSUME NEW c, NEW tl, NEW ix, NEW un, NEW tr, NEW r,
         tr \in [SeqId -> Seq(Tok)], ix \in [SeqId -> Group], un \in [SeqId -> Group],
         \A s \in SeqId : tl[s] < 0 => tr[s] = <<>> /\ ix[s] = 0,
         \A s \in SeqId : tl[s] >= 0 /\ un[s] > 0 =>
               /\ ix[s] = 0 /\ un[s] <= Len(tr[s])
               /\ \A g \in 1 .. un[s] : r[g][tl[s]] = SubSeq(tr[s], 1, Len(tr[s]) - g),
         \A s, t \in SeqId : s # t /\ tl[s] = tl[t] /\ tl[s] >= 0 => ix[s] = 0 /\ un[s] = 0,
         \A i \in Cell : c[i].seq = {} /\ c[i].src = i => r[0][i] = <<>>,
         \A i \in Cell : \A s \in c[i].seq : r[ix[s]][i] = tr[s]
  PROVE  RowsTell(c, tl, ix, un, tr, r)
<1>1. Knows(tl, ix, un, tr, r)
  BY DEF Knows
<1>2. Apart(tl, ix, un)
  BY DEF Apart
<1>3. \A i \in Cell : RowTold(c, ix, tr, r, i)
  BY DEF RowTold
<1> QED BY <1>1, <1>2, <1>3 DEF RowsTell

\* Without cells there is nothing to tell.
LEMMA NothingTold ==
  ASSUME NEW c, c = [i \in Cell |-> EmptyCell], NEW tl, tl = [s \in SeqId |-> -1],
         NEW ix, ix = [s \in SeqId |-> 0], NEW un, un = [s \in SeqId |-> 0],
         NEW tr, tr = [s \in SeqId |-> <<>>], NEW r
  PROVE  RowsTell(c, tl, ix, un, tr, r)
<1>1. /\ \A i \in Cell : c[i].seq = {} /\ c[i].src = -1
      /\ \A s \in SeqId : tl[s] = -1 /\ ix[s] = 0 /\ un[s] = 0 /\ tr[s] = <<>>
  BY DEF EmptyCell
<1>2. ~(-1 >= 0) /\ -1 \notin Cell /\ 0 \in Group
  BY SizeIs, GroupIs
<1>3. ix \in [SeqId -> Group] /\ un \in [SeqId -> Group]
  BY <1>2
<1>4. tr \in [SeqId -> Seq(Tok)]
  <2>1. <<>> \in Seq(Tok)
    OBVIOUS
  <2> QED BY <2>1
<1>5. Knows(tl, ix, un, tr, r)
  BY <1>1, <1>2, <1>3, <1>4 DEF Knows
<1>6. Apart(tl, ix, un)
  BY <1>1 DEF Apart
<1>7. \A i \in Cell : RowTold(c, ix, tr, r, i)
  BY <1>1, <1>2 DEF RowTold
<1> QED BY <1>5, <1>6, <1>7 DEF RowsTell

LEMMA InitTold ==
  ASSUME Init
  PROVE  Told
<1>1. /\ cells = [i \in Cell |-> EmptyCell] /\ tail = [s \in SeqId |-> -1]
      /\ rs_idx = [s \in SeqId |-> 0] /\ undo = [s \in SeqId |-> 0] /\ truth = [s \in SeqId |-> <<>>]
      /\ rows = [g \in Group |-> [i \in Cell |-> Stale]] /\ pc = "idle" /\ saved = <<>>
  BY DEF Init
<1>2. RowsTell(cells, tail, rs_idx, undo, truth, rows)
  BY <1>1, NothingTold
<1>3. IsRows(rows)
  BY <1>1 DEF IsRows
<1> QED BY <1>1, <1>2, <1>3 DEF Told

LEMMA ClearTold ==
  ASSUME Sound, Told, Clear
  PROVE  Told'
<1>1. /\ cells' = [i \in Cell |-> EmptyCell] /\ tail' = [s \in SeqId |-> -1] /\ head' = 0 /\ used' = 0
      /\ rs_idx' = [s \in SeqId |-> 0] /\ undo' = [s \in SeqId |-> 0] /\ truth' = [s \in SeqId |-> <<>>]
      /\ rows' = Remembered(rows) /\ pc' = "idle" /\ saved' = saved /\ pc = "idle"
  BY DEF Clear, decode
<1>2. PICK r : r = rows
  OBVIOUS
<1>3. RowsTell(cells', tail', rs_idx', undo', truth', r)
  BY <1>1, NothingTold
<1>4. Fit(cells', tail', head', used')
  BY <1>1, EmptyFits
<1>5. saved' # <<>> => saved'.truth \in Seq(Tok) /\ saved'.row = saved'.truth
  BY <1>1 DEF Told
<1> QED BY <1>1, <1>2, <1>3, <1>4, <1>5, IdleTold

LEMMA RmWholeTold ==
  ASSUME Sound, Told, NEW s \in SeqId, seq_rm_whole(s)
  PROVE  Told'
<1>1. PICK w : w = Without(s)
  OBVIOUS
<1>2. /\ pc = "idle" /\ pc' = "idle" /\ saved' = saved
      /\ cells' = w.cells /\ tail' = w.tail /\ head' = w.head /\ used' = w.used
      /\ rs_idx' = [rs_idx EXCEPT ![s] = 0] /\ truth' = [truth EXCEPT ![s] = <<>>]
      /\ undo' = [undo EXCEPT ![s] = 0] /\ rows' = Remembered(rows)
  BY <1>1 DEF seq_rm_whole, Becomes, decode
<1>3. /\ Fit(cells, tail, head, used)
      /\ truth \in [SeqId -> Seq(Tok)] /\ rs_idx \in [SeqId -> Group] /\ undo \in [SeqId -> Group]
      /\ \A t \in SeqId : tail[t] < 0 => truth[t] = <<>> /\ rs_idx[t] = 0
      /\ \A t \in SeqId : tail[t] >= 0 /\ undo[t] > 0 =>
            /\ rs_idx[t] = 0 /\ undo[t] <= Len(truth[t])
            /\ \A g \in 1 .. undo[t] : rows[g][tail[t]] = SubSeq(truth[t], 1, Len(truth[t]) - g)
      /\ \A t, u \in SeqId : t # u /\ tail[t] = tail[u] /\ tail[t] >= 0 => rs_idx[t] = 0 /\ undo[t] = 0
      /\ \A i \in Cell : Blank(cells, i) => rows[0][i] = <<>>
      /\ \A i \in Cell : \A t \in cells[i].seq : rows[rs_idx[t]][i] = truth[t]
      /\ saved # <<>> => saved.truth \in Seq(Tok) /\ saved.row = saved.truth
  BY <1>2, ToldIs
<1>4. Fit(w.cells, w.tail, w.head, w.used) /\ LeftBy(cells, tail, w.cells, w.tail, s)
  BY <1>1, <1>3, WithoutIs
<1>5. PICK c, tl, ix, un, tr, r :
        c = cells' /\ tl = tail' /\ ix = rs_idx' /\ un = undo' /\ tr = truth' /\ r = rows
  OBVIOUS
<1>6. /\ \A i \in Cell : c[i].seq = cells[i].seq \ {s}
      /\ \A i \in Cell : c[i].seq = {} /\ c[i].src = i => Blank(cells, i)
      /\ \A t \in SeqId : tl[t] = IF t = s THEN -1 ELSE tail[t]
  BY <1>2, <1>4, <1>5 DEF LeftBy
<1>7. /\ \A t \in SeqId : ix[t] = IF t = s THEN 0 ELSE rs_idx[t]
      /\ \A t \in SeqId : un[t] = IF t = s THEN 0 ELSE undo[t]
      /\ \A t \in SeqId : tr[t] = IF t = s THEN <<>> ELSE truth[t]
  BY <1>2, <1>3, <1>5
<1>8. tr \in [SeqId -> Seq(Tok)] /\ ix \in [SeqId -> Group] /\ un \in [SeqId -> Group]
  <2>1. 0 \in Group /\ <<>> \in Seq(Tok)
    BY GroupIs
  <2>2. ix \in [SeqId -> Group] /\ un \in [SeqId -> Group]
    BY <1>2, <1>3, <1>5, <2>1
  <2>3. tr \in [SeqId -> Seq(Tok)]
    BY <1>2, <1>3, <1>5, <2>1
  <2> QED BY <2>2, <2>3
<1>9. \A t \in SeqId : tl[t] < 0 => tr[t] = <<>> /\ ix[t] = 0
  BY <1>3, <1>6, <1>7
<1>10. \A t \in SeqId : tl[t] >= 0 => t # s
  BY <1>6
<1>11. \A t \in SeqId : tl[t] >= 0 /\ un[t] > 0 =>
          /\ ix[t] = 0 /\ un[t] <= Len(tr[t])
          /\ \A g \in 1 .. un[t] : r[g][tl[t]] = SubSeq(tr[t], 1, Len(tr[t]) - g)
  <2> TAKE t \in SeqId
  <2> HAVE tl[t] >= 0 /\ un[t] > 0
  <2>1. tl[t] = tail[t] /\ un[t] = undo[t] /\ ix[t] = rs_idx[t] /\ tr[t] = truth[t]
    BY <1>6, <1>7, <1>10
  <2>2. tail[t] >= 0 /\ undo[t] > 0
    BY <2>1
  <2> QED BY <1>3, <1>5, <2>1, <2>2
<1>12. \A t, u \in SeqId : t # u /\ tl[t] = tl[u] /\ tl[t] >= 0 => ix[t] = 0 /\ un[t] = 0
  <2> TAKE t, u \in SeqId
  <2> HAVE t # u /\ tl[t] = tl[u] /\ tl[t] >= 0
  <2>1. tl[t] = tail[t] /\ tl[u] = tail[u] /\ ix[t] = rs_idx[t] /\ un[t] = undo[t]
    BY <1>6, <1>7, <1>10
  <2>2. t # u /\ tail[t] = tail[u] /\ tail[t] >= 0
    BY <2>1
  <2>3. rs_idx[t] = 0 /\ undo[t] = 0
    BY <1>3, <2>2
  <2> QED BY <2>1, <2>3
<1>13. \A i \in Cell : c[i].seq = {} /\ c[i].src = i => r[0][i] = <<>>
  BY <1>3, <1>5, <1>6
<1>14. \A i \in Cell : \A t \in c[i].seq : r[ix[t]][i] = tr[t]
  <2> TAKE i \in Cell
  <2> TAKE t \in c[i].seq
  <2>1. t \in cells[i].seq /\ t # s
    BY <1>6
  <2>2. t \in SeqId
    BY <1>3, <2>1, FitIs
  <2> QED BY <1>3, <1>5, <1>7, <2>1, <2>2
<1>15. RowsTell(c, tl, ix, un, tr, r)
  BY <1>8, <1>9, <1>11, <1>12, <1>13, <1>14, TellsIf
<1> QED BY <1>2, <1>3, <1>4, <1>5, <1>15, IdleTold

LEMMA RmTailTold ==
  ASSUME Sound, Told, Trusting = {}, NEW s \in SeqId, NEW n \in Group \ {0}, seq_rm_tail(s, n)
  PROVE  Told'
<1>1. /\ pc = "idle" /\ pc' = "idle" /\ saved' = saved /\ tail[s] >= 0 /\ n <= undo[s]
      /\ rs_idx' = [rs_idx EXCEPT ![s] = n]
      /\ truth' = [truth EXCEPT ![s] = SubSeq(@, 1, Len(@) - n)]
      /\ undo' = [undo EXCEPT ![s] = 0] /\ rows' = Remembered(rows) /\ tail' = tail
  BY DEF seq_rm_tail, decode, Trusts
<1>2. /\ Fit(cells, tail, head, used)
      /\ truth \in [SeqId -> Seq(Tok)] /\ rs_idx \in [SeqId -> Group] /\ undo \in [SeqId -> Group]
      /\ \A t \in SeqId : tail[t] < 0 => truth[t] = <<>> /\ rs_idx[t] = 0
      /\ \A t \in SeqId : tail[t] >= 0 /\ undo[t] > 0 =>
            /\ rs_idx[t] = 0 /\ undo[t] <= Len(truth[t])
            /\ \A g \in 1 .. undo[t] : rows[g][tail[t]] = SubSeq(truth[t], 1, Len(truth[t]) - g)
      /\ \A t, u \in SeqId : t # u /\ tail[t] = tail[u] /\ tail[t] >= 0 => rs_idx[t] = 0 /\ undo[t] = 0
      /\ \A i \in Cell : Blank(cells, i) => rows[0][i] = <<>>
      /\ \A i \in Cell : \A t \in cells[i].seq : rows[rs_idx[t]][i] = truth[t]
      /\ saved # <<>> => saved.truth \in Seq(Tok) /\ saved.row = saved.truth
  BY <1>1, ToldIs
<1>3. /\ Fit(cells', tail', head', used')
      /\ \A i \in Cell : cells'[i].seq = cells[i].seq /\ cells'[i].src = cells[i].src
  BY <1>2, RmTailFits
<1>4. PICK c, ix, un, tr, r : c = cells' /\ ix = rs_idx' /\ un = undo' /\ tr = truth' /\ r = rows
  OBVIOUS
<1>5. PICK x : x = SubSeq(truth[s], 1, Len(truth[s]) - n)
  OBVIOUS
<1>6. /\ \A t \in SeqId : ix[t] = IF t = s THEN n ELSE rs_idx[t]
      /\ \A t \in SeqId : un[t] = IF t = s THEN 0 ELSE undo[t]
      /\ \A t \in SeqId : tr[t] = IF t = s THEN x ELSE truth[t]
  BY <1>1, <1>2, <1>4, <1>5
<1>7. n \in Nat /\ n >= 1 /\ undo[s] \in Nat /\ undo[s] > 0 /\ n \in 1 .. undo[s]
  <2>1. n \in Nat /\ n # 0 /\ undo[s] \in Nat /\ n <= undo[s]
    BY <1>1, <1>2, GroupIs
  <2> QED BY <2>1
<1>8. undo[s] <= Len(truth[s]) /\ rows[n][tail[s]] = x /\ \A u \in SeqId : u # s => tail[u] # tail[s]
  BY <1>1, <1>2, <1>5, <1>7
<1>9. x \in Seq(Tok)
  <2>1. truth[s] \in Seq(Tok)
    BY <1>2
  <2>2. Len(truth[s]) - n \in Nat /\ Len(truth[s]) - n <= Len(truth[s])
    BY <1>7, <1>8, <2>1
  <2>3. \A k \in 1 .. Len(truth[s]) - n : k \in 1 .. Len(truth[s])
    BY <2>1, <2>2
  <2> QED BY <1>5, <2>1, <2>2, <2>3
<1>10. tr \in [SeqId -> Seq(Tok)] /\ ix \in [SeqId -> Group] /\ un \in [SeqId -> Group]
  <2>1. 0 \in Group /\ n \in Group
    BY GroupIs
  <2>2. ix \in [SeqId -> Group] /\ un \in [SeqId -> Group]
    BY <1>1, <1>2, <1>4, <2>1
  <2>3. tr = [truth EXCEPT ![s] = x]
    BY <1>1, <1>4, <1>5
  <2>4. tr \in [SeqId -> Seq(Tok)]
    BY <1>2, <1>9, <2>3
  <2> QED BY <2>2, <2>4
<1>11. \A t \in SeqId : tail[t] < 0 => tr[t] = <<>> /\ ix[t] = 0
  <2> TAKE t \in SeqId
  <2> HAVE tail[t] < 0
  <2>1. t # s
    <3>1. tail[s] \in Cell \cup {-1}
      BY <1>2, FitIs
    <3>2. tail[s] \in Int
      BY <3>1, SizeIs
    <3> QED BY <1>1, <3>2
  <2> QED BY <1>2, <1>6, <2>1
<1>12. \A t \in SeqId : tail[t] >= 0 /\ un[t] > 0 =>
          /\ ix[t] = 0 /\ un[t] <= Len(tr[t])
          /\ \A g \in 1 .. un[t] : r[g][tail[t]] = SubSeq(tr[t], 1, Len(tr[t]) - g)
  <2> TAKE t \in SeqId
  <2> HAVE tail[t] >= 0 /\ un[t] > 0
  <2>1. t # s
    BY <1>6
  <2>2. un[t] = undo[t] /\ ix[t] = rs_idx[t] /\ tr[t] = truth[t]
    BY <1>6, <2>1
  <2>3. tail[t] >= 0 /\ undo[t] > 0
    BY <2>2
  <2> QED BY <1>2, <1>4, <2>2, <2>3
<1>13. \A t, u \in SeqId : t # u /\ tail[t] = tail[u] /\ tail[t] >= 0 => ix[t] = 0 /\ un[t] = 0
  <2> TAKE t, u \in SeqId
  <2> HAVE t # u /\ tail[t] = tail[u] /\ tail[t] >= 0
  <2>1. t # s
    BY <1>8
  <2> QED BY <1>2, <1>6, <2>1
<1>14. \A i \in Cell : c[i].seq = {} /\ c[i].src = i => r[0][i] = <<>>
  BY <1>2, <1>3, <1>4 DEF Blank
<1>15. \A i \in Cell : \A t \in c[i].seq : r[ix[t]][i] = tr[t]
  <2> TAKE i \in Cell
  <2> TAKE t \in c[i].seq
  <2>1. t \in cells[i].seq
    BY <1>3, <1>4
  <2>2. t \in SeqId /\ tail[t] = i
    BY <1>2, <2>1, FitIs
  <2>3. CASE t = s
    BY <1>4, <1>6, <1>8, <2>2, <2>3
  <2>4. CASE t # s
    BY <1>2, <1>4, <1>6, <2>1, <2>2, <2>4
  <2> QED BY <2>3, <2>4
<1>16. RowsTell(c, tail, ix, un, tr, r)
  BY <1>10, <1>11, <1>12, <1>13, <1>14, <1>15, TellsIf
<1> QED BY <1>1, <1>2, <1>3, <1>4, <1>16, IdleTold

LEMMA CopyTells ==
  ASSUME Sound, Told, Trusting = {}, NEW src \in SeqId, NEW dst \in SeqId, seq_cp(src, dst)
  PROVE  Told'
<1>1. /\ pc = "idle" /\ pc' = "idle" /\ saved' = saved /\ src # dst
      /\ rs_idx[src] = 0 /\ rs_idx[dst] = 0 /\ rs_idx' = rs_idx
      /\ truth' = [truth EXCEPT ![dst] = truth[src]]
      /\ undo' = [undo EXCEPT ![src] = 0, ![dst] = 0] /\ rows' = Remembered(rows)
  BY DEF seq_cp, decode, Settled, Trusts
<1>2. /\ Fit(cells, tail, head, used)
      /\ truth \in [SeqId -> Seq(Tok)] /\ rs_idx \in [SeqId -> Group] /\ undo \in [SeqId -> Group]
      /\ \A t \in SeqId : tail[t] < 0 => truth[t] = <<>> /\ rs_idx[t] = 0
      /\ \A t \in SeqId : tail[t] >= 0 /\ undo[t] > 0 =>
            /\ rs_idx[t] = 0 /\ undo[t] <= Len(truth[t])
            /\ \A g \in 1 .. undo[t] : rows[g][tail[t]] = SubSeq(truth[t], 1, Len(truth[t]) - g)
      /\ \A t, u \in SeqId : t # u /\ tail[t] = tail[u] /\ tail[t] >= 0 => rs_idx[t] = 0 /\ undo[t] = 0
      /\ \A i \in Cell : Blank(cells, i) => rows[0][i] = <<>>
      /\ \A i \in Cell : \A t \in cells[i].seq : rows[rs_idx[t]][i] = truth[t]
      /\ saved # <<>> => saved.truth \in Seq(Tok) /\ saved.row = saved.truth
  BY <1>1, ToldIs
<1>3. /\ Fit(cells', tail', head', used') /\ CopiedTo(cells, tail, cells', tail', src, dst)
  BY <1>2, CopyFits
<1>4. PICK c, tl, ix, un, tr, r :
        c = cells' /\ tl = tail' /\ ix = rs_idx' /\ un = undo' /\ tr = truth' /\ r = rows
  OBVIOUS
<1>5. /\ \A i \in Cell : c[i].seq = IF tail[src] = i THEN cells[i].seq \cup {dst} ELSE cells[i].seq \ {dst}
      /\ \A i \in Cell : c[i].seq = {} /\ c[i].src = i => Blank(cells, i)
      /\ \A t \in SeqId : tl[t] = IF t = dst THEN tail[src] ELSE tail[t]
  BY <1>3, <1>4 DEF CopiedTo
<1>6. /\ \A t \in SeqId : ix[t] = rs_idx[t]
      /\ \A t \in SeqId : un[t] = IF t = src \/ t = dst THEN 0 ELSE undo[t]
      /\ \A t \in SeqId : tr[t] = IF t = dst THEN truth[src] ELSE truth[t]
  BY <1>1, <1>2, <1>4
<1>7. tr \in [SeqId -> Seq(Tok)] /\ ix \in [SeqId -> Group] /\ un \in [SeqId -> Group]
  <2>1. 0 \in Group /\ truth[src] \in Seq(Tok)
    BY <1>2, GroupIs
  <2>2. ix \in [SeqId -> Group] /\ un \in [SeqId -> Group]
    BY <1>1, <1>2, <1>4, <2>1
  <2>3. tr \in [SeqId -> Seq(Tok)]
    BY <1>1, <1>2, <1>4, <2>1
  <2> QED BY <2>2, <2>3
<1>8. \A t \in SeqId : tl[t] < 0 => tr[t] = <<>> /\ ix[t] = 0
  <2> TAKE t \in SeqId
  <2> HAVE tl[t] < 0
  <2>1. CASE t = dst
    BY <1>1, <1>2, <1>5, <1>6, <2>1
  <2>2. CASE t # dst
    BY <1>2, <1>5, <1>6, <2>2
  <2> QED BY <2>1, <2>2
<1>9. \A t \in SeqId : tl[t] >= 0 /\ un[t] > 0 =>
          /\ ix[t] = 0 /\ un[t] <= Len(tr[t])
          /\ \A g \in 1 .. un[t] : r[g][tl[t]] = SubSeq(tr[t], 1, Len(tr[t]) - g)
  <2> TAKE t \in SeqId
  <2> HAVE tl[t] >= 0 /\ un[t] > 0
  <2>1. t # src /\ t # dst
    BY <1>6
  <2>2. un[t] = undo[t] /\ ix[t] = rs_idx[t] /\ tr[t] = truth[t] /\ tl[t] = tail[t]
    BY <1>5, <1>6, <2>1
  <2>3. tail[t] >= 0 /\ undo[t] > 0
    BY <2>2
  <2> QED BY <1>2, <1>4, <2>2, <2>3
<1>10. \A t, u \in SeqId : t # u /\ tl[t] = tl[u] /\ tl[t] >= 0 => ix[t] = 0 /\ un[t] = 0
  <2> TAKE t, u \in SeqId
  <2> HAVE t # u /\ tl[t] = tl[u] /\ tl[t] >= 0
  <2>1. CASE t = src \/ t = dst
    BY <1>1, <1>6, <2>1
  <2>2. CASE t # src /\ t # dst
    <3>1. tl[t] = tail[t] /\ ix[t] = rs_idx[t] /\ un[t] = undo[t]
      BY <1>5, <1>6, <2>2
    <3>2. CASE u = dst
      <4>1. tail[t] = tail[src] /\ tail[t] >= 0
        BY <1>5, <3>1, <3>2
      <4> QED BY <1>2, <2>2, <3>1, <4>1
    <3>3. CASE u # dst
      <4>1. tail[t] = tail[u] /\ tail[t] >= 0
        BY <1>5, <3>1, <3>3
      <4> QED BY <1>2, <3>1, <4>1
    <3> QED BY <3>2, <3>3
  <2> QED BY <2>1, <2>2
<1>11. \A i \in Cell : c[i].seq = {} /\ c[i].src = i => r[0][i] = <<>>
  BY <1>2, <1>4, <1>5
<1>12. \A i \in Cell : \A t \in c[i].seq : r[ix[t]][i] = tr[t]
  <2> TAKE i \in Cell
  <2> TAKE t \in c[i].seq
  <2>0. \A j \in Cell, u \in SeqId : u \in cells[j].seq <=> tail[u] = j
    BY <1>2, FitIs
  <2>1. CASE t = dst
    <3>1. tail[src] = i
      BY <1>5, <2>1
    <3>2. src \in cells[i].seq
      BY <2>0, <3>1
    <3>3. rows[0][i] = truth[src]
      BY <1>1, <1>2, <3>2
    <3> QED BY <1>1, <1>4, <1>6, <2>1, <3>3
  <2>2. CASE t # dst
    <3>1. t \in cells[i].seq
      BY <1>5, <2>2
    <3>2. t \in SeqId
      BY <1>2, <3>1, FitIs
    <3> QED BY <1>2, <1>4, <1>6, <2>2, <3>1, <3>2
  <2> QED BY <2>1, <2>2
<1>13. RowsTell(c, tl, ix, un, tr, r)
  BY <1>7, <1>8, <1>9, <1>10, <1>11, <1>12, TellsIf
<1> QED BY <1>1, <1>2, <1>3, <1>4, <1>13, IdleTold

LEMMA KeepTells ==
  ASSUME Sound, Told, Trusting = {}, NEW s \in SeqId, seq_keep(s)
  PROVE  Told'
<1>1. /\ pc = "idle" /\ pc' = "idle" /\ saved' = saved /\ rs_idx' = rs_idx
      /\ \A t \in SeqId \ {s} : rs_idx[t] = 0
      /\ truth' = [t \in SeqId |-> IF t = s THEN truth[t] ELSE <<>>]
      /\ undo' = [t \in SeqId |-> IF t = s THEN undo[t] ELSE 0] /\ rows' = Remembered(rows)
  BY DEF seq_keep, decode, Settled, Trusts
<1>2. /\ Fit(cells, tail, head, used)
      /\ truth \in [SeqId -> Seq(Tok)] /\ rs_idx \in [SeqId -> Group] /\ undo \in [SeqId -> Group]
      /\ \A t \in SeqId : tail[t] < 0 => truth[t] = <<>> /\ rs_idx[t] = 0
      /\ \A t \in SeqId : tail[t] >= 0 /\ undo[t] > 0 =>
            /\ rs_idx[t] = 0 /\ undo[t] <= Len(truth[t])
            /\ \A g \in 1 .. undo[t] : rows[g][tail[t]] = SubSeq(truth[t], 1, Len(truth[t]) - g)
      /\ \A i \in Cell : \A t \in cells[i].seq : rows[rs_idx[t]][i] = truth[t]
      /\ saved # <<>> => saved.truth \in Seq(Tok) /\ saved.row = saved.truth
  BY <1>1, ToldIs
<1>3. /\ Fit(cells', tail', head', used') /\ KeptOf(cells, tail, cells', tail', s)
  BY <1>2, KeepFits
<1>4. PICK c, tl, ix, un, tr, r :
        c = cells' /\ tl = tail' /\ ix = rs_idx' /\ un = undo' /\ tr = truth' /\ r = rows
  OBVIOUS
<1>5. /\ \A i \in Cell : tail[s] = i => c[i].seq = {s}
      /\ \A i \in Cell : tail[s] # i => c[i].seq = {} /\ c[i].src = -1
      /\ \A t \in SeqId : tl[t] = IF t = s THEN tail[t] ELSE -1
  BY <1>3, <1>4 DEF KeptOf, EmptyCell
<1>6. /\ \A t \in SeqId : ix[t] = rs_idx[t]
      /\ \A t \in SeqId : un[t] = IF t = s THEN undo[t] ELSE 0
      /\ \A t \in SeqId : tr[t] = IF t = s THEN truth[t] ELSE <<>>
  BY <1>1, <1>4
<1>7. tr \in [SeqId -> Seq(Tok)] /\ ix \in [SeqId -> Group] /\ un \in [SeqId -> Group]
  <2>1. 0 \in Group /\ <<>> \in Seq(Tok)
    BY GroupIs
  <2>2. ix \in [SeqId -> Group] /\ un \in [SeqId -> Group]
    BY <1>1, <1>2, <1>4, <2>1
  <2>3. tr \in [SeqId -> Seq(Tok)]
    BY <1>1, <1>2, <1>4, <2>1
  <2> QED BY <2>2, <2>3
<1>8. \A t \in SeqId : tl[t] < 0 => tr[t] = <<>> /\ ix[t] = 0
  BY <1>1, <1>2, <1>5, <1>6
<1>9. \A t \in SeqId : tl[t] >= 0 => t = s /\ tl[t] = tail[s]
  BY <1>5
<1>10. \A t \in SeqId : tl[t] >= 0 /\ un[t] > 0 =>
          /\ ix[t] = 0 /\ un[t] <= Len(tr[t])
          /\ \A g \in 1 .. un[t] : r[g][tl[t]] = SubSeq(tr[t], 1, Len(tr[t]) - g)
  <2> TAKE t \in SeqId
  <2> HAVE tl[t] >= 0 /\ un[t] > 0
  <2>1. un[t] = undo[t] /\ ix[t] = rs_idx[t] /\ tr[t] = truth[t] /\ tl[t] = tail[t]
    BY <1>6, <1>9
  <2>2. tail[t] >= 0 /\ undo[t] > 0
    BY <2>1
  <2>3. /\ rs_idx[t] = 0 /\ undo[t] <= Len(truth[t])
        /\ \A g \in 1 .. undo[t] : rows[g][tail[t]] = SubSeq(truth[t], 1, Len(truth[t]) - g)
    BY <1>2, <2>2
  <2> QED BY <1>4, <2>1, <2>3
<1>11. \A t, u \in SeqId : t # u /\ tl[t] = tl[u] /\ tl[t] >= 0 => ix[t] = 0 /\ un[t] = 0
  <2> TAKE t, u \in SeqId
  <2> HAVE t # u /\ tl[t] = tl[u] /\ tl[t] >= 0
  <2>1. tl[u] >= 0
    OBVIOUS
  <2> QED BY <1>9, <2>1
<1>12. \A i \in Cell : c[i].seq = {} /\ c[i].src = i => r[0][i] = <<>>
  BY <1>5, SizeIs
<1>13. \A i \in Cell : \A t \in c[i].seq : r[ix[t]][i] = tr[t]
  <2> TAKE i \in Cell
  <2> TAKE t \in c[i].seq
  <2>1. t = s /\ tail[s] = i
    BY <1>5
  <2>2. s \in cells[i].seq
    BY <1>2, <2>1, FitIs
  <2> QED BY <1>2, <1>4, <1>6, <2>1, <2>2
<1>14. RowsTell(c, tl, ix, un, tr, r)
  BY <1>7, <1>8, <1>10, <1>11, <1>12, <1>13, TellsIf
<1> QED BY <1>1, <1>2, <1>3, <1>4, <1>14, IdleTold

\* A sequence is saved from the row that its rollback index leads to.
LEMMA StateRowIs ==
  ASSUME Sound, Told, pc # "inputs", NEW s \in SeqId, tail[s] >= 0
  PROVE  StateRow(s) = truth[s]
<1>1. /\ Fit(cells, tail, head, used) /\ rs_idx \in [SeqId -> Group]
      /\ \A t, u \in SeqId : t # u /\ tail[t] = tail[u] /\ tail[t] >= 0 => rs_idx[t] = 0 /\ undo[t] = 0
      /\ \A i \in Cell : \A t \in cells[i].seq : rows[rs_idx[t]][i] = truth[t]
  BY ToldIs
<1>2. /\ tail[s] \in Cell /\ s \in cells[tail[s]].seq /\ cells[tail[s]].src = tail[s]
      /\ \A t \in cells[tail[s]].seq : t \in SeqId /\ tail[t] = tail[s]
  BY <1>1, FitIs
<1>3. PICK i, S, n : i = tail[s] /\ S = {rs_idx[t] : t \in cells[i].seq} /\ n = rs_idx[s]
  OBVIOUS
<1>4. \A t \in cells[i].seq : rs_idx[t] = n
  BY <1>1, <1>2, <1>3
<1>5. S = {n} /\ n \in Nat
  BY <1>1, <1>2, <1>3, <1>4, GroupIs
<1>6. Max(S) = n
  <2>1. S \in SUBSET (0 .. n) /\ S # {}
    BY <1>5
  <2>2. Max(S) \in S
    BY <1>5, <2>1, MaxIs
  <2> QED BY <1>5, <2>2
<1>7. StateRow(s) = rows[n][i]
  BY <1>2, <1>3, <1>6 DEF StateRow
<1> QED BY <1>1, <1>2, <1>3, <1>7

LEMMA WriteTold ==
  ASSUME Sound, Told, NEW s \in SeqId, state_write(s)
  PROVE  Told'
<1>1. /\ pc = "idle" /\ pc' = "idle" /\ tail[s] >= 0
      /\ cells' = cells /\ tail' = tail /\ rs_idx' = rs_idx /\ rows' = rows
      /\ truth' = truth /\ undo' = undo
      /\ saved' = [row |-> StateRow(s), pos |-> cells[tail[s]].pos, truth |-> truth[s]]
  BY DEF state_write, meta, decode
<1>2. truth \in [SeqId -> Seq(Tok)] /\ StateRow(s) = truth[s]
  BY <1>1, ToldIs, StateRowIs
<1>3. saved'.truth \in Seq(Tok) /\ saved'.row = saved'.truth
  BY <1>1, <1>2
<1>4. IsRows(rows) /\ RowsTell(cells, tail, rs_idx, undo, truth, rows)
  BY <1>1 DEF Told
<1> QED BY <1>1, <1>3, <1>4 DEF Told

LEMMA DecodeTold ==
  ASSUME Sound, Told, Decode
  PROVE  Told'
<1>1. /\ pc = "idle" /\ pc' = "ubatch"
      /\ cells' = cells /\ tail' = tail /\ rs_idx' = rs_idx /\ rows' = rows
      /\ truth' = truth /\ undo' = undo /\ saved' = saved
  BY DEF Decode, meta
<1>2. \A r \in DOMAIN left' : Admitted(left'[r].seqs)
  BY DecodeIs
<1>3. (\A r \in DOMAIN left : Admitted(left[r].seqs))'
  BY <1>1, <1>2 DEF Admitted, Settled
<1>4. /\ IsRows(rows) /\ RowsTell(cells, tail, rs_idx, undo, truth, rows)
      /\ saved # <<>> => saved.truth \in Seq(Tok) /\ saved.row = saved.truth
  BY <1>1 DEF Told
<1> QED BY <1>1, <1>3, <1>4 DEF Told

\* The cell of a restored sequence is its own, and the others stay where they are.
LEMMA ReadMoves ==
  ASSUME Fit(cells, tail, head, used), NEW s \in SeqId, saved.pos \in Nat, state_read(s)
  PROVE  /\ Fit(cells', tail', head', used') /\ pc' = "idle"
         /\ tail'[s] = head' /\ head' \in Cell /\ cells'[head'].seq = {s}
         /\ \A t \in SeqId : t # s => tail'[t] = tail[t] /\ tail'[t] # head'
         /\ \A i \in Cell : i # head' => \A t \in cells'[i].seq : t # s /\ t \in cells[i].seq
         /\ \A i \in Cell : i # head' /\ cells'[i].seq = {} /\ cells'[i].src = i => Blank(cells, i)
<1>1. PICK ub, m, w : ub = <<[seqs |-> {s}, pos |-> saved.pos]>> /\ m = ReadSlot(s) /\ w = Without(s)
  OBVIOUS
<1>2. /\ Slot(w, ub, m) /\ Traced(w, ub, m)
      /\ cells' = m.cells /\ tail' = m.tail /\ head' = m.head /\ used' = m.used
      /\ Fit(cells', tail', head', used') /\ pc' = "idle"
  BY <1>1, ReadFits
<1>3. LeftBy(cells, tail, w.cells, w.tail, s)
  BY <1>1, WithoutIs
<1>4. PICK c, tl, h : c = m.cells /\ tl = m.tail /\ h = m.head
  OBVIOUS
<1>5. Len(ub) = 1 /\ DOMAIN ub = {1} /\ ub[1].seqs = {s} /\ \A t \in SeqId : InUb(ub, t) <=> t = s
  <2>1. Len(ub) = 1 /\ DOMAIN ub = {1} /\ ub[1].seqs = {s}
    BY <1>1
  <2> QED BY <2>1 DEF InUb
<1>6. h \in Cell /\ h \in Int /\ m.graph.n = 1
  BY <1>2, <1>4, <1>5, SizeIs DEF Slot
<1>7. Ran(m) = {h}
  BY <1>4, <1>6 DEF Ran
<1>8. c[h].seq = {s}
  <2>1. 1 \in DOMAIN ub /\ h + 1 - 1 = h
    BY <1>5, <1>6
  <2> QED BY <1>2, <1>4, <1>5, <2>1 DEF Slot
<1>9. /\ \A i \in Cell \ {h} :
            /\ \A t \in c[i].seq : w.tail[t] = i /\ ~InUb(ub, t)
            /\ c[i].seq = {} /\ c[i].src = i => Blank(w.cells, i)
      /\ \A t \in SeqId : ~InUb(ub, t) => (tl[t] = -1 <=> w.tail[t] = -1)
  BY <1>2, <1>4, <1>7 DEF Slot, Traced
<1>10. /\ tl \in [SeqId -> Cell \cup {-1}]
       /\ \A t \in SeqId, i \in Cell : t \in c[i].seq <=> tl[t] = i
       /\ \A i \in Cell : c[i].seq \in SUBSET SeqId
  BY <1>2, <1>4, FitIs
<1>11. tl[s] = h
  BY <1>6, <1>8, <1>10
<1>12. ASSUME NEW t \in SeqId, t # s
       PROVE  tl[t] = tail[t] /\ tl[t] # h
  <2>1. tl[t] # h
    BY <1>6, <1>8, <1>10, <1>12
  <2>2. w.tail[t] = tail[t] /\ ~InUb(ub, t)
    BY <1>3, <1>5, <1>12 DEF LeftBy
  <2>3. CASE tl[t] = -1
    BY <1>9, <2>1, <2>2, <2>3
  <2>4. CASE tl[t] # -1
    <3>1. tl[t] \in Cell \ {h}
      BY <1>10, <2>1, <2>4
    <3>2. t \in c[tl[t]].seq
      BY <1>10, <3>1
    <3> QED BY <1>9, <2>1, <2>2, <3>1, <3>2
  <2> QED BY <2>3, <2>4
<1>13. ASSUME NEW i \in Cell, i # h
       PROVE  /\ \A t \in c[i].seq : t # s /\ t \in cells[i].seq
              /\ c[i].seq = {} /\ c[i].src = i => Blank(cells, i)
  <2>1. ASSUME NEW t \in c[i].seq
        PROVE  t # s /\ t \in cells[i].seq
    <3>1. t \in SeqId /\ tl[t] = i
      BY <1>10
    <3>2. t # s
      BY <1>11, <1>13, <3>1
    <3>3. tail[t] = i
      BY <1>12, <3>1, <3>2
    <3> QED BY <3>1, <3>2, <3>3, FitIs
  <2>2. c[i].seq = {} /\ c[i].src = i => Blank(cells, i)
    <3>1. ASSUME Blank(w.cells, i)
          PROVE  Blank(cells, i)
      BY <1>3, <3>1 DEF LeftBy, Blank
    <3> QED BY <1>9, <1>13, <3>1
  <2> QED BY <2>1, <2>2
<1> QED BY <1>2, <1>4, <1>6, <1>8, <1>11, <1>12, <1>13

LEMMA ReadTold ==
  ASSUME Sound, Told, Trusting = {}, NEW s \in SeqId, state_read(s)
  PROVE  Told'
<1>1. /\ pc = "idle" /\ saved # <<>> /\ saved' = saved
      /\ rs_idx' = [rs_idx EXCEPT ![s] = 0]
      /\ truth' = [truth EXCEPT ![s] = saved.truth]
      /\ undo' = [undo EXCEPT ![s] = 0]
      /\ rows' = Remembered([rows EXCEPT ![0][head'] = saved.row])
  BY DEF state_read, Trusts
<1>2. /\ Fit(cells, tail, head, used)
      /\ truth \in [SeqId -> Seq(Tok)] /\ rs_idx \in [SeqId -> Group] /\ undo \in [SeqId -> Group]
      /\ \A t \in SeqId : tail[t] < 0 => truth[t] = <<>> /\ rs_idx[t] = 0
      /\ \A t \in SeqId : tail[t] >= 0 /\ undo[t] > 0 =>
            /\ rs_idx[t] = 0 /\ undo[t] <= Len(truth[t])
            /\ \A g \in 1 .. undo[t] : rows[g][tail[t]] = SubSeq(truth[t], 1, Len(truth[t]) - g)
      /\ \A t, u \in SeqId : t # u /\ tail[t] = tail[u] /\ tail[t] >= 0 => rs_idx[t] = 0 /\ undo[t] = 0
      /\ \A i \in Cell : Blank(cells, i) => rows[0][i] = <<>>
      /\ \A i \in Cell : \A t \in cells[i].seq : rows[rs_idx[t]][i] = truth[t]
      /\ saved.truth \in Seq(Tok) /\ saved.row = saved.truth /\ IsRows(rows)
  BY <1>1, ToldIs
<1>3. saved.pos \in Nat
  BY <1>1, SoundIs
<1>4. PICK c, tl, h, ix, un, tr, r :
        /\ c = cells' /\ tl = tail' /\ h = head' /\ ix = rs_idx' /\ un = undo' /\ tr = truth'
        /\ r = [rows EXCEPT ![0][h] = saved.row]
  OBVIOUS
<1>5. /\ Fit(cells', tail', head', used') /\ pc' = "idle"
      /\ tl[s] = h /\ h \in Cell /\ c[h].seq = {s}
      /\ \A t \in SeqId : t # s => tl[t] = tail[t] /\ tl[t] # h
      /\ \A i \in Cell : i # h => \A t \in c[i].seq : t # s /\ t \in cells[i].seq
      /\ \A i \in Cell : i # h /\ c[i].seq = {} /\ c[i].src = i => Blank(cells, i)
  BY <1>2, <1>3, <1>4, ReadMoves
<1>6. /\ \A t \in SeqId : ix[t] = IF t = s THEN 0 ELSE rs_idx[t]
      /\ \A t \in SeqId : un[t] = IF t = s THEN 0 ELSE undo[t]
      /\ \A t \in SeqId : tr[t] = IF t = s THEN saved.truth ELSE truth[t]
  BY <1>1, <1>2, <1>4
<1>7. tr \in [SeqId -> Seq(Tok)] /\ ix \in [SeqId -> Group] /\ un \in [SeqId -> Group]
  <2>1. 0 \in Group
    BY GroupIs
  <2>2. ix \in [SeqId -> Group] /\ un \in [SeqId -> Group]
    BY <1>1, <1>2, <1>4, <2>1
  <2>3. tr \in [SeqId -> Seq(Tok)]
    BY <1>1, <1>2, <1>4
  <2> QED BY <2>2, <2>3
<1>8. /\ r[0][h] = saved.truth
      /\ \A g \in Group, i \in Cell : i # h => r[g][i] = rows[g][i]
  <2>1. 0 \in Group
    BY GroupIs
  <2>2. DOMAIN rows = Group /\ \A g \in Group : DOMAIN rows[g] = Cell
    <3>1. PICK q : q = rows
      OBVIOUS
    <3>2. q = [g \in Group |-> [i \in Cell |-> q[g][i]]]
      BY <1>2, <3>1 DEF IsRows
    <3> QED BY <3>1, <3>2
  <2>3. PICK x : x = saved.truth
    OBVIOUS
  <2>4. r = [rows EXCEPT ![0] = [rows[0] EXCEPT ![h] = x]]
    BY <1>2, <1>4, <2>3
  <2>5. r[0] = [rows[0] EXCEPT ![h] = x] /\ \A g \in Group : g # 0 => r[g] = rows[g]
    BY <2>1, <2>2, <2>4
  <2>6. r[0][h] = x /\ \A i \in Cell : i # h => r[0][i] = rows[0][i]
    BY <1>5, <2>1, <2>2, <2>5
  <2> QED BY <2>3, <2>5, <2>6
<1>9. \A t \in SeqId : tl[t] < 0 => tr[t] = <<>> /\ ix[t] = 0
  <2> TAKE t \in SeqId
  <2> HAVE tl[t] < 0
  <2>1. t # s
    BY <1>5, SizeIs
  <2> QED BY <1>2, <1>5, <1>6, <2>1
<1>10. \A t \in SeqId : tl[t] >= 0 /\ un[t] > 0 =>
          /\ ix[t] = 0 /\ un[t] <= Len(tr[t])
          /\ \A g \in 1 .. un[t] : r[g][tl[t]] = SubSeq(tr[t], 1, Len(tr[t]) - g)
  <2> TAKE t \in SeqId
  <2> HAVE tl[t] >= 0 /\ un[t] > 0
  <2>1. t # s
    BY <1>6
  <2>2. un[t] = undo[t] /\ ix[t] = rs_idx[t] /\ tr[t] = truth[t] /\ tl[t] = tail[t] /\ tl[t] # h
    BY <1>5, <1>6, <2>1
  <2>3. /\ rs_idx[t] = 0 /\ undo[t] <= Len(truth[t]) /\ undo[t] \in Group
        /\ \A g \in 1 .. undo[t] : rows[g][tail[t]] = SubSeq(truth[t], 1, Len(truth[t]) - g)
    BY <1>2, <2>2
  <2>4. tl[t] \in Cell
    BY <1>2, <2>2, FitIs
  <2>5. \A g \in 1 .. undo[t] : r[g][tl[t]] = rows[g][tl[t]]
    BY <1>8, <2>2, <2>3, <2>4, GroupIs
  <2> QED BY <2>2, <2>3, <2>5
<1>11. \A t, u \in SeqId : t # u /\ tl[t] = tl[u] /\ tl[t] >= 0 => ix[t] = 0 /\ un[t] = 0
  <2> TAKE t, u \in SeqId
  <2> HAVE t # u /\ tl[t] = tl[u] /\ tl[t] >= 0
  <2>1. t # s /\ u # s
    BY <1>5
  <2> QED BY <1>2, <1>5, <1>6, <2>1, SMTT(30)
<1>12. \A i \in Cell : c[i].seq = {} /\ c[i].src = i => r[0][i] = <<>>
  <2> TAKE i \in Cell
  <2> HAVE c[i].seq = {} /\ c[i].src = i
  <2>1. i # h /\ Blank(cells, i)
    BY <1>5
  <2> QED BY <1>2, <1>8, <2>1, GroupIs
<1>13. \A i \in Cell : \A t \in c[i].seq : r[ix[t]][i] = tr[t]
  <2> TAKE i \in Cell
  <2> TAKE t \in c[i].seq
  <2>1. CASE i = h
    BY <1>5, <1>6, <1>8, <2>1
  <2>2. CASE i # h
    <3>1. t # s /\ t \in cells[i].seq
      BY <1>5, <2>2
    <3>2. t \in SeqId
      BY <1>2, <3>1, FitIs
    <3>3. ix[t] = rs_idx[t] /\ tr[t] = truth[t] /\ rs_idx[t] \in Group
      BY <1>2, <1>6, <3>1, <3>2
    <3> QED BY <1>2, <1>8, <2>2, <3>1, <3>3
  <2> QED BY <2>1, <2>2
<1>14. RowsTell(c, tl, ix, un, tr, r)
  BY <1>7, <1>9, <1>10, <1>11, <1>12, <1>13, TellsIf
<1> QED BY <1>1, <1>2, <1>4, <1>5, <1>14, IdleTold

-----------------------------------------------------------------------------
(* A micro-batch gets its cells *)

\* The sequences of a micro-batch are in the cells from head on.
LEMMA InUbIs ==
  ASSUME NEW before, NEW ub, NEW f, Asked(ub), Slot(before, ub, f)
  PROVE  /\ \A k \in DOMAIN ub : /\ f.head + k - 1 \in Ran(f)
                                 /\ f.cells[f.head + k - 1].seq = ub[k].seqs
                                 /\ \A s \in ub[k].seqs : s \in SeqId /\ f.tail[s] = f.head + k - 1
         /\ \A s, t \in SeqId : f.tail[s] = f.tail[t] /\ InUb(ub, s) /\ f.tail[s] # -1 =>
              \E k \in DOMAIN ub : s \in ub[k].seqs /\ t \in ub[k].seqs
<1>1. /\ f.head \in Nat /\ f.graph.n \in Nat /\ Len(ub) <= f.graph.n /\ Ran(f) \subseteq Cell
      /\ Len(ub) \in Nat /\ DOMAIN ub = 1 .. Len(ub)
      /\ \A k \in DOMAIN ub : f.cells[f.head + k - 1].seq = ub[k].seqs
      /\ \A k \in DOMAIN ub : ub[k].seqs \in SUBSET SeqId
      /\ \A s \in SeqId, i \in Cell : s \in f.cells[i].seq <=> f.tail[s] = i
      /\ f.tail \in [SeqId -> Cell \cup {-1}]
  BY SizeIs DEF Slot, Asked, Matched, Agree, SeqSets
<1>2. ASSUME NEW k \in DOMAIN ub
      PROVE  f.head + k - 1 \in Ran(f)
  <2>1. k \in Nat /\ 1 <= k /\ k <= f.graph.n
    BY <1>1
  <2> QED BY <1>1, <2>1 DEF Ran
<1>3. ASSUME NEW k \in DOMAIN ub, NEW s \in ub[k].seqs
      PROVE  s \in SeqId /\ f.tail[s] = f.head + k - 1
  <2>1. PICK i : i = f.head + k - 1
    OBVIOUS
  <2>2. i \in Cell /\ s \in SeqId /\ s \in f.cells[i].seq
    BY <1>1, <1>2, <2>1
  <2> QED BY <1>1, <2>1, <2>2
<1>4. ASSUME NEW s \in SeqId, NEW t \in SeqId, f.tail[s] = f.tail[t], InUb(ub, s)
      PROVE  \E k \in DOMAIN ub : s \in ub[k].seqs /\ t \in ub[k].seqs
  <2>1. PICK k \in DOMAIN ub : s \in ub[k].seqs
    BY <1>4 DEF InUb
  <2>2. PICK i : i = f.head + k - 1
    OBVIOUS
  <2>3. i \in Cell /\ f.tail[t] = i /\ f.cells[i].seq = ub[k].seqs
    BY <1>1, <1>2, <1>3, <1>4, <2>1, <2>2
  <2>4. t \in ub[k].seqs
    BY <1>1, <2>3
  <2> QED BY <2>1, <2>4
<1> QED BY <1>1, <1>2, <1>3, <1>4

\* Sequences that share a cell after find_slot shared it before, unless they are in the
\* same set of the micro-batch; and they are in it together or not at all.
LEMMA SharesIs ==
  ASSUME NEW before, NEW ub, NEW f, Asked(ub), Slot(before, ub, f), Traced(before, ub, f),
         NEW s \in SeqId, NEW t \in SeqId, f.tail[s] = f.tail[t], f.tail[s] # -1,
         ~InUb(ub, s)
  PROVE  ~InUb(ub, t) /\ before.tail[s] = before.tail[t] /\ before.tail[s] # -1
<1>1. /\ f.tail \in [SeqId -> Cell \cup {-1}] /\ Ran(f) \subseteq Cell
      /\ \A u \in SeqId, i \in Cell : u \in f.cells[i].seq <=> f.tail[u] = i
  BY DEF Slot, Matched, Agree
<1>2. ~InUb(ub, t)
  <2>1. ASSUME InUb(ub, t)
        PROVE  FALSE
    <3>1. f.tail[t] = f.tail[s] /\ f.tail[t] # -1
      OBVIOUS
    <3>2. PICK k \in DOMAIN ub : t \in ub[k].seqs /\ s \in ub[k].seqs
      BY <2>1, <3>1, InUbIs
    <3> QED BY <3>2 DEF InUb
  <2> QED BY <2>1
<1>3. PICK i \in Cell : i = f.tail[s]
  BY <1>1
<1>4. s \in f.cells[i].seq /\ t \in f.cells[i].seq
  BY <1>1, <1>3
<1>5. CASE i \in Ran(f)
  BY <1>2, <1>4, <1>5 DEF Traced
<1>6. CASE i \notin Ran(f)
  <2>1. -1 # i
    BY <1>1, <1>3
  <2> QED BY <1>2, <1>3, <1>4, <1>6, <2>1 DEF Traced
<1> QED BY <1>5, <1>6

\* what the rows say before a micro-batch gets its cells
Before(before, ub, ix, tr, rw) ==
    /\ \A s \in SeqId : before.tail[s] = -1 => tr[s] = <<>> /\ ix[s] = 0
    /\ \A s \in SeqId : before.tail[s] # -1 => rw[ix[s]][before.tail[s]] = tr[s]
    /\ \A s, t \in SeqId : s # t /\ before.tail[s] = before.tail[t] /\ before.tail[s] # -1 =>
          ix[s] = 0
    /\ \A i \in Cell : Blank(before.cells, i) => rw[0][i] = <<>>
    /\ \A k \in DOMAIN ub : \A s, t \in ub[k].seqs : tr[s] = tr[t]

\* what the graph copies to cell i
Fetch(f, ix, rw, i) ==
    LET gr == IF f.cells[i].seq = {} THEN 0 ELSE ix[Min(f.cells[i].seq)]
        ro == f.graph.src0[i]
    IN  IF f.graph.rs_z >= 0 /\ gr = 0 /\ ro = f.graph.rs_z THEN <<>> ELSE rw[gr][ro]

LEMMA FetchFresh ==
  ASSUME NEW before, NEW ub, NEW f, NEW ix, NEW tr, NEW rw,
         Slot(before, ub, f), Before(before, ub, ix, tr, rw),
         NEW i, FreshRow(before, f, f.graph.src0[i]),
         f.cells[i].seq = {} \/ ix[Min(f.cells[i].seq)] = 0
  PROVE  Fetch(f, ix, rw, i) = <<>>
<1>1. PICK z, ro : z = f.graph.rs_z /\ ro = f.graph.src0[i]
  OBVIOUS
<1>2. z # -1 => z >= 0
  <2>1. z \in Ran(f) \cup {-1} /\ Ran(f) \subseteq Cell
    BY <1>1 DEF Slot
  <2>2. \A x \in Cell : x >= 0
    BY SizeIs
  <2>3. z \in Cell \cup {-1}
    BY <2>1
  <2> QED BY <2>2, <2>3
<1>3. Fetch(f, ix, rw, i) = IF z >= 0 /\ ro = z THEN <<>> ELSE rw[0][ro]
  BY <1>1 DEF Fetch
<1>4. (ro = z /\ z # -1) \/ Blank(before.cells, ro)
  BY <1>1 DEF FreshRow
<1>5. CASE ro = z /\ z # -1
  BY <1>2, <1>3, <1>5
<1>6. CASE Blank(before.cells, ro)
  <2>1. rw[0][ro] = <<>>
    BY <1>6 DEF Before, Blank
  <2> QED BY <1>3, <2>1
<1> QED BY <1>4, <1>5, <1>6

\* Every row of the range gets the state of the sequences in its cell.
LEMMA FetchIs ==
  ASSUME NEW before, NEW ub, NEW f, NEW ix, NEW tr, NEW rw,
         Asked(ub), Slot(before, ub, f), Traced(before, ub, f), Before(before, ub, ix, tr, rw),
         NEW i \in Ran(f)
  PROVE  /\ f.cells[i].seq = {} => Fetch(f, ix, rw, i) = <<>>
         /\ \A s \in f.cells[i].seq : Fetch(f, ix, rw, i) = tr[s]
<1>1. CASE f.cells[i].seq = {}
  <2>1. FreshRow(before, f, f.graph.src0[i])
    BY <1>1 DEF Traced
  <2>2. Fetch(f, ix, rw, i) = <<>>
    BY <1>1, <2>1, FetchFresh
  <2> QED BY <1>1, <2>2
<1>2. ASSUME NEW s \in f.cells[i].seq
      PROVE  Fetch(f, ix, rw, i) = tr[s]
  <2>1. /\ i \in Cell /\ f.cells[i].seq \in SUBSET SeqId /\ i # -1
        /\ \A t \in f.cells[i].seq : f.tail[t] = i
    <3>1. i \in Cell /\ f.cells \in [Cell -> CellType]
      BY DEF Slot, Matched
    <3>2. f.cells[i] \in CellType /\ i # -1
      BY <3>1, SizeIs
    <3>3. f.cells[i].seq \in SUBSET SeqId
      BY <3>2 DEF CellType
    <3> QED BY <3>1, <3>2, <3>3 DEF Slot, Matched, Agree
  <2>2. PICK t : t = Min(f.cells[i].seq)
    OBVIOUS
  <2>3. t \in f.cells[i].seq
    <3>1. f.cells[i].seq \in SUBSET Nat
      BY <2>1, SizeIs
    <3>2. f.cells[i].seq # {}
      BY <1>2
    <3> QED BY <2>2, <3>1, <3>2, MinIs
  <2>4. PICK z, ro : z = f.graph.rs_z /\ ro = f.graph.src0[i]
    OBVIOUS
  <2>5. Fetch(f, ix, rw, i) = IF z >= 0 /\ ix[t] = 0 /\ ro = z THEN <<>> ELSE rw[ix[t]][ro]
    BY <2>2, <2>3, <2>4 DEF Fetch
  <2>6. s \in SeqId /\ t \in SeqId /\ f.tail[s] = i /\ f.tail[t] = i
    BY <1>2, <2>1, <2>3
  <2>7. CASE ~InUb(ub, s)
    <3>1. before.tail[s] = before.tail[t] /\ before.tail[s] # -1
      BY <2>1, <2>6, <2>7, SharesIs
    <3>2. ro = before.tail[s] /\ ro # z
      BY <2>4, <2>6, <2>7 DEF Traced
    <3>3. ix[t] = ix[s]
      BY <2>6, <3>1 DEF Before
    <3>4. rw[ix[s]][before.tail[s]] = tr[s]
      BY <2>6, <3>1 DEF Before
    <3> QED BY <2>5, <3>2, <3>3, <3>4
  <2>8. CASE InUb(ub, s)
    <3>1. PICK k \in DOMAIN ub : s \in ub[k].seqs
      BY <2>8 DEF InUb
    <3>2. i = f.head + k - 1 /\ f.cells[i].seq = ub[k].seqs
      BY <2>6, <3>1, InUbIs
    <3>3. t = First(ub[k])
      BY <2>2, <3>2 DEF First
    <3>4. tr[s] = tr[t]
      BY <2>3, <3>1, <3>2 DEF Before
    <3>5. CASE before.tail[t] # -1
      <4>1. ro = before.tail[t] /\ ro # z
        BY <2>4, <3>2, <3>3, <3>5 DEF Traced
      <4>2. rw[ix[t]][before.tail[t]] = tr[t]
        BY <2>6, <3>5 DEF Before
      <4> QED BY <2>5, <3>4, <4>1, <4>2
    <3>6. CASE before.tail[t] = -1
      <4>1. FreshRow(before, f, f.graph.src0[i])
        BY <3>2, <3>3, <3>6 DEF Traced
      <4>2. tr[t] = <<>> /\ ix[t] = 0
        BY <2>6, <3>6 DEF Before
      <4>3. Fetch(f, ix, rw, i) = <<>>
        BY <2>2, <4>1, <4>2, FetchFresh
      <4> QED BY <3>4, <4>2, <4>3
    <3> QED BY <3>5, <3>6
  <2> QED BY <2>7, <2>8
<1> QED BY <1>1, <1>2

LEMMA ApplyTold ==
  ASSUME Sound, Told, Trusting = {}, Apply
  PROVE  Told'
<1>1. /\ pc = "ubatch" /\ rs_idx' = rs_idx /\ rows' = rows /\ truth' = truth /\ saved' = saved
  BY DEF Apply
<1>2. /\ Fit(cells, tail, head, used) /\ IsRows(rows)
      /\ truth \in [SeqId -> Seq(Tok)] /\ rs_idx \in [SeqId -> Group] /\ undo \in [SeqId -> Group]
      /\ \A t \in SeqId : tail[t] < 0 => truth[t] = <<>> /\ rs_idx[t] = 0
      /\ \A t \in SeqId : tail[t] >= 0 /\ undo[t] > 0 =>
            /\ rs_idx[t] = 0 /\ undo[t] <= Len(truth[t])
            /\ \A g \in 1 .. undo[t] : rows[g][tail[t]] = SubSeq(truth[t], 1, Len(truth[t]) - g)
      /\ \A t, u \in SeqId : t # u /\ tail[t] = tail[u] /\ tail[t] >= 0 => rs_idx[t] = 0 /\ undo[t] = 0
      /\ \A i \in Cell : Blank(cells, i) => rows[0][i] = <<>>
      /\ \A i \in Cell : \A t \in cells[i].seq : rows[rs_idx[t]][i] = truth[t]
      /\ \A r \in DOMAIN left : Admitted(left[r].seqs)
      /\ saved # <<>> => saved.truth \in Seq(Tok) /\ saved.row = saved.truth
  BY <1>1, ToldIs
<1>3. PICK ub, lf : ub = ubatch' /\ lf = left'
  OBVIOUS
<1>4. /\ ub \in Seq(UbType) /\ Asked(ub) /\ RunsOK(left) /\ RunsOK(lf) /\ pc' = "inputs"
      /\ \A k \in DOMAIN ub : /\ ub[k].toks # <<>>
                              /\ \E r \in DOMAIN left : ub[k].seqs = left[r].seqs
      /\ \A q \in DOMAIN lf : \E r \in DOMAIN left : lf[q].seqs = left[r].seqs
      /\ Fit(cells', tail', head', used')
  BY <1>1, <1>2, <1>3, ApplyIs, SoundIs
<1>5. PICK m : /\ Slot(Mem, ub, m) /\ Traced(Mem, ub, m)
               /\ cells' = m.cells /\ tail' = m.tail /\ head' = m.head /\ used' = m.used
               /\ graph' = m.graph
               /\ undo' = [s \in SeqId |->
                             IF m.tail[s] = tail[s] \/ Trusts("moved") THEN undo[s] ELSE 0]
  BY <1>1, <1>2, <1>3, ApplyIs, SoundIs
<1>6. PICK before : before = Mem
  OBVIOUS
<1>7. /\ before.cells = cells /\ before.tail = tail
      /\ Slot(before, ub, m) /\ Traced(before, ub, m)
  BY <1>5, <1>6 DEF Mem
<1>8. PICK c, tl, un : c = m.cells /\ tl = m.tail /\ un = undo'
  OBVIOUS
<1>9. \A s \in SeqId : un[s] = IF tl[s] = tail[s] THEN undo[s] ELSE 0
  BY <1>5, <1>8 DEF Trusts
<1>10. /\ tail \in [SeqId -> Cell \cup {-1}] /\ tl \in [SeqId -> Cell \cup {-1}]
       /\ c \in [Cell -> CellType] /\ -1 \notin Cell
       /\ \A s \in SeqId : tail[s] >= 0 <=> tail[s] # -1
       /\ \A s \in SeqId : tail[s] < 0 <=> tail[s] = -1
       /\ \A s \in SeqId : tl[s] >= 0 <=> tl[s] # -1
       /\ \A s \in SeqId : tl[s] < 0 <=> tl[s] = -1
       /\ \A s \in SeqId, i \in Cell : s \in c[i].seq <=> tl[s] = i
       /\ \A s \in SeqId, i \in Cell : s \in cells[i].seq <=> tail[s] = i
       /\ \A i \in Cell : c[i].seq \in SUBSET SeqId
  <2>1. Fit(c, tl, m.head, m.used)
    BY <1>4, <1>5, <1>8
  <2>2. /\ tail \in [SeqId -> Cell \cup {-1}] /\ tl \in [SeqId -> Cell \cup {-1}]
        /\ c \in [Cell -> CellType] /\ -1 \notin Cell
        /\ \A s \in SeqId, i \in Cell : s \in c[i].seq <=> tl[s] = i
        /\ \A s \in SeqId, i \in Cell : s \in cells[i].seq <=> tail[s] = i
        /\ \A i \in Cell : c[i].seq \in SUBSET SeqId
    BY <1>2, <2>1, FitIs
  <2>3. \A x \in Cell \cup {-1} : (x >= 0 <=> x # -1) /\ (x < 0 <=> x = -1)
    BY SizeIs
  <2> QED BY <2>2, <2>3
<1>11. \A k \in DOMAIN ub : Admitted(ub[k].seqs)
  BY <1>2, <1>4
<1>12. \A k \in DOMAIN ub : \A s, t \in ub[k].seqs : truth[s] = truth[t] /\ (s # t => rs_idx[s] = 0)
  BY <1>11 DEF Admitted, Settled, Trusts
<1>13. Before(before, ub, rs_idx, truth, rows)
  <2>1. \A s \in SeqId : tail[s] = -1 => truth[s] = <<>> /\ rs_idx[s] = 0
    BY <1>2, <1>10
  <2>2. \A s \in SeqId : tail[s] # -1 => rows[rs_idx[s]][tail[s]] = truth[s]
    <3> TAKE s \in SeqId
    <3> HAVE tail[s] # -1
    <3>1. tail[s] \in Cell
      BY <1>10
    <3> QED BY <1>2, <1>10, <3>1
  <2>3. \A s, t \in SeqId : s # t /\ tail[s] = tail[t] /\ tail[s] # -1 => rs_idx[s] = 0
    BY <1>2, <1>10
  <2> QED BY <1>2, <1>7, <1>12, <2>1, <2>2, <2>3 DEF Before
\* the caller's view
<1>14. un \in [SeqId -> Group]
  <2>1. un = [s \in SeqId |-> IF m.tail[s] = tail[s] \/ Trusts("moved") THEN undo[s] ELSE 0]
    BY <1>5, <1>8
  <2>2. \A s \in SeqId : un[s] \in Group
    BY <1>2, <1>9, GroupIs
  <2> QED BY <2>1, <2>2
<1>15. ASSUME NEW s \in SeqId, tl[s] < 0
       PROVE  truth[s] = <<>> /\ rs_idx[s] = 0
  <2>1. tl[s] = -1
    BY <1>10, <1>15
  <2>2. ~InUb(ub, s)
    <3>1. ASSUME NEW k \in DOMAIN ub, s \in ub[k].seqs
          PROVE  FALSE
      <4>1. tl[s] = m.head + k - 1 /\ m.head + k - 1 \in Ran(m)
        BY <1>4, <1>7, <1>8, <3>1, InUbIs
      <4>2. Ran(m) \subseteq Cell
        BY <1>7 DEF Slot
      <4> QED BY <1>10, <2>1, <4>1, <4>2
    <3> QED BY <3>1 DEF InUb
  <2>3. tail[s] = -1
    BY <1>7, <1>8, <2>1, <2>2 DEF Slot
  <2> QED BY <1>2, <1>10, <2>3
<1>16. ASSUME NEW s \in SeqId, tl[s] >= 0, un[s] > 0
       PROVE  /\ rs_idx[s] = 0 /\ un[s] <= Len(truth[s])
              /\ \A g \in 1 .. un[s] : rows[g][tl[s]] = SubSeq(truth[s], 1, Len(truth[s]) - g)
  <2>1. tl[s] = tail[s] /\ un[s] = undo[s]
    BY <1>9, <1>16
  <2>2. tail[s] >= 0 /\ undo[s] > 0
    BY <1>16, <2>1
  <2> QED BY <1>2, <2>1, <2>2
<1>17. Knows(tl, rs_idx, un, truth, rows)
  BY <1>2, <1>14, <1>15, <1>16 DEF Knows
<1>18. ASSUME NEW s \in SeqId, NEW t \in SeqId, s # t, tl[s] = tl[t], tl[s] >= 0
       PROVE  rs_idx[s] = 0 /\ (un[s] = 0 \/ InUb(ub, s))
  <2>1. tl[s] # -1
    BY <1>10, <1>18
  <2>2. CASE InUb(ub, s)
    <3>1. PICK k \in DOMAIN ub : s \in ub[k].seqs /\ t \in ub[k].seqs
      BY <1>4, <1>7, <1>8, <1>18, <2>1, <2>2, InUbIs
    <3> QED BY <1>12, <1>18, <2>2, <3>1
  <2>3. CASE ~InUb(ub, s)
    <3>1. tail[s] = tail[t] /\ tail[s] # -1
      BY <1>4, <1>7, <1>8, <1>18, <2>1, <2>3, SharesIs
    <3>2. rs_idx[s] = 0 /\ undo[s] = 0
      BY <1>2, <1>10, <1>18, <3>1
    <3> QED BY <1>9, <3>2
  <2> QED BY <2>2, <2>3
\* the micro-batch
<1>19. \A k \in DOMAIN ub, r \in DOMAIN lf : lf[r].seqs = ub[k].seqs \/ lf[r].seqs \cap ub[k].seqs = {}
  <2> TAKE k \in DOMAIN ub, r \in DOMAIN lf
  <2>1. PICK p \in DOMAIN left : ub[k].seqs = left[p].seqs
    BY <1>4
  <2>2. PICK q \in DOMAIN left : lf[r].seqs = left[q].seqs
    BY <1>4
  <2>3. p # q => left[q].seqs \cap left[p].seqs = {}
    BY <1>4 DEF RunsOK
  <2> QED BY <2>1, <2>2, <2>3
<1>20. \A r \in DOMAIN lf : Admitted(lf[r].seqs)
  BY <1>2, <1>4
<1>21. UbatchOK'
  <2>1. /\ m.head \in Cell /\ m.graph.n \in Nat /\ Len(ub) <= m.graph.n /\ Ran(m) \subseteq Cell
        /\ m.graph.rs_z \in Ran(m) \cup {-1}
        /\ \A k \in DOMAIN ub : c[m.head + k - 1].seq = ub[k].seqs
    BY <1>7, <1>8 DEF Slot
  <2>2. InRange' = Ran(m)
    <3>1. m.head \in Int
      BY <2>1, SizeIs
    <3> QED BY <1>5, <2>1, <3>1 DEF InRange, Ran
  <2>3. \A k \in DOMAIN ub : ub[k].toks # <<>> /\ Admitted(ub[k].seqs)'
    BY <1>1, <1>4, <1>11 DEF Admitted, Settled
  <2>4. \A k, l \in DOMAIN ub : k # l => ub[k].seqs \cap ub[l].seqs = {}
    BY <1>4 DEF Asked
  <2> QED BY <1>3, <1>4, <1>5, <1>8, <1>19, <2>1, <2>2, <2>3, <2>4 DEF UbatchOK, Main
\* the rows
<1>22. InRange' = Ran(m)
  <2>1. m.head \in Int /\ m.graph.n \in Nat
    BY <1>7, SizeIs DEF Slot
  <2> QED BY <1>5, <2>1 DEF InRange, Ran
<1>23. ASSUME NEW i \in Ran(m)
       PROVE  CopyTold(i)'
  <2>1. /\ c[i].seq = {} => Fetch(m, rs_idx, rows, i) = <<>>
        /\ \A s \in c[i].seq : Fetch(m, rs_idx, rows, i) = truth[s]
    BY <1>4, <1>7, <1>8, <1>13, FetchIs
  <2>2. PICK gr, ro : /\ gr = IF c[i].seq = {} THEN 0 ELSE rs_idx[Min(c[i].seq)]
                      /\ ro = m.graph.src0[i]
    OBVIOUS
  <2>3. SCopy(i)' = [group |-> gr, row |-> ro]
    BY <1>1, <1>5, <1>8, <2>2 DEF SCopy
  <2>4. Fetch(m, rs_idx, rows, i) =
          IF m.graph.rs_z >= 0 /\ gr = 0 /\ ro = m.graph.rs_z THEN <<>> ELSE rows[gr][ro]
    BY <1>8, <2>2 DEF Fetch
  <2>5. Copied(i)' = IF m.graph.rs_z >= 0 /\ SCopy(i)' = [group |-> 0, row |-> m.graph.rs_z] THEN <<>>
                     ELSE rows[SCopy(i)'.group][SCopy(i)'.row]
    BY <1>1, <1>5 DEF Copied
  <2>6. Copied(i)' = Fetch(m, rs_idx, rows, i)
    BY <2>3, <2>4, <2>5
  <2> QED BY <1>1, <1>5, <1>8, <2>1, <2>6 DEF CopyTold
<1>24. ASSUME NEW i \in Cell, i \notin Ran(m)
       PROVE  RowTold(c, rs_idx, truth, rows, i)
  <2>1. /\ \A s \in c[i].seq : tail[s] = i
        /\ c[i].seq = {} /\ c[i].src = i => Blank(cells, i)
    BY <1>7, <1>8, <1>24 DEF Traced
  <2>2. \A s \in c[i].seq : s \in SeqId /\ s \in cells[i].seq
    BY <1>10, <2>1
  <2> QED BY <1>2, <2>1, <2>2 DEF RowTold
<1>25. InputsTell'
  <2>1. Knows(tail, rs_idx, undo, truth, rows)'
    BY <1>1, <1>5, <1>8, <1>17
  <2>2. \A s \in SeqId : InUbatch(s)' <=> InUb(ub, s)
    BY <1>3 DEF InUbatch
  <2>3. \A s, t \in SeqId : s # t /\ tail'[s] = tail'[t] /\ tail'[s] >= 0 =>
          rs_idx'[s] = 0 /\ (undo'[s] = 0 \/ InUbatch(s)')
    BY <1>1, <1>5, <1>8, <1>18, <2>2
  <2>4. \A i \in Cell : IF i \in InRange' THEN CopyTold(i)'
                        ELSE RowTold(cells, rs_idx, truth, rows, i)'
    BY <1>1, <1>5, <1>8, <1>22, <1>23, <1>24
  <2> QED BY <1>21, <2>1, <2>3, <2>4 DEF InputsTell
<1>26. (\A r \in DOMAIN left : Admitted(left[r].seqs))'
  BY <1>1, <1>3, <1>20 DEF Admitted, Settled
<1> QED BY <1>1, <1>2, <1>4, <1>25, <1>26 DEF Told

-----------------------------------------------------------------------------
(* A micro-batch is computed *)

\* Tokens taken from the end of what was appended.
LEMMA CutIs ==
  ASSUME NEW S, NEW a \in Seq(S), NEW b \in Seq(S), NEW g \in Nat, g <= Len(b)
  PROVE  SubSeq(a \o b, 1, Len(a \o b) - g) = a \o SubSeq(b, 1, Len(b) - g)
<1>1. PICK n, m : n = Len(a) /\ m = Len(b) - g
  OBVIOUS
<1>2. /\ n \in Nat /\ m \in Nat /\ m <= Len(b) /\ Len(a \o b) \in Nat
      /\ Len(a \o b) - g = n + m /\ n + m <= Len(a \o b)
  BY <1>1
<1>3. PICK x, y, z : x = SubSeq(a \o b, 1, n + m) /\ y = SubSeq(b, 1, m) /\ z = a \o y
  OBVIOUS
<1>4. x \in Seq(S) /\ Len(x) = n + m /\ \A j \in 1 .. n + m : x[j] = (a \o b)[j]
  <2>1. a \o b \in Seq(S)
    OBVIOUS
  <2>2. \A j \in 1 .. n + m : (a \o b)[j] \in S
    BY <1>2, <2>1
  <2> QED BY <1>2, <1>3, <2>1, <2>2
<1>5. y \in Seq(S) /\ Len(y) = m /\ \A j \in 1 .. m : y[j] = b[j]
  <2>1. \A j \in 1 .. m : b[j] \in S
    BY <1>2
  <2> QED BY <1>2, <1>3, <2>1
<1>6. z \in Seq(S) /\ Len(z) = n + m
  <2>1. a \o y \in Seq(S) /\ Len(a \o y) = Len(a) + Len(y)
    BY <1>5
  <2> QED BY <1>1, <1>3, <1>5, <2>1
<1>7. ASSUME NEW j \in 1 .. n + m
      PROVE  x[j] = z[j]
  <2>1. CASE j <= n
    <3>1. x[j] = a[j] /\ z[j] = a[j]
      BY <1>1, <1>2, <1>3, <1>4, <1>5, <2>1
    <3> QED BY <3>1
  <2>2. CASE ~(j <= n)
    <3>1. j - n \in 1 .. m
      BY <1>2, <2>2
    <3>2. x[j] = b[j - n]
      BY <1>1, <1>2, <1>4, <2>2, <3>1
    <3>3. z[j] = y[j - n]
      BY <1>1, <1>2, <1>3, <1>5, <2>2, <3>1
    <3> QED BY <1>5, <3>1, <3>2, <3>3
  <2> QED BY <2>1, <2>2
<1>8. x = z
  BY <1>4, <1>6, <1>7
<1> QED BY <1>1, <1>2, <1>3, <1>8

\* what is known before the graph is computed
LEMMA InputsAre ==
  ASSUME Sound, Told, pc = "inputs"
  PROVE  /\ Fit(cells, tail, head, used) /\ IsRows(rows)
         /\ truth \in [SeqId -> Seq(Tok)] /\ rs_idx \in [SeqId -> Group] /\ undo \in [SeqId -> Group]
         /\ \A s \in SeqId : tail[s] < 0 => truth[s] = <<>> /\ rs_idx[s] = 0
         /\ \A s \in SeqId : tail[s] >= 0 /\ undo[s] > 0 =>
               /\ rs_idx[s] = 0 /\ undo[s] <= Len(truth[s])
               /\ \A g \in 1 .. undo[s] : rows[g][tail[s]] = SubSeq(truth[s], 1, Len(truth[s]) - g)
         /\ \A s, t \in SeqId : s # t /\ tail[s] = tail[t] /\ tail[s] >= 0 =>
               rs_idx[s] = 0 /\ (undo[s] = 0 \/ InUbatch(s))
         /\ UbatchOK
         /\ \A i \in InRange : CopyTold(i)
         /\ \A i \in Cell : i \notin InRange => RowTold(cells, rs_idx, truth, rows, i)
         /\ \A r \in DOMAIN left : Admitted(left[r].seqs)
         /\ saved # <<>> => saved.truth \in Seq(Tok) /\ saved.row = saved.truth
<1>1. /\ InputsTell /\ IsRows(rows)
      /\ \A r \in DOMAIN left : Admitted(left[r].seqs)
      /\ saved # <<>> => saved.truth \in Seq(Tok) /\ saved.row = saved.truth
  BY DEF Told
<1>2. /\ Knows(tail, rs_idx, undo, truth, rows)
      /\ \A s, t \in SeqId : s # t /\ tail[s] = tail[t] /\ tail[s] >= 0 =>
            rs_idx[s] = 0 /\ (undo[s] = 0 \/ InUbatch(s))
      /\ UbatchOK
      /\ \A i \in Cell : IF i \in InRange THEN CopyTold(i)
                         ELSE RowTold(cells, rs_idx, truth, rows, i)
  BY <1>1 DEF InputsTell
<1>3. InRange \subseteq Cell
  BY <1>2 DEF UbatchOK
<1>4. /\ truth \in [SeqId -> Seq(Tok)] /\ rs_idx \in [SeqId -> Group] /\ undo \in [SeqId -> Group]
      /\ \A s \in SeqId : tail[s] < 0 => truth[s] = <<>> /\ rs_idx[s] = 0
      /\ \A s \in SeqId : tail[s] >= 0 /\ undo[s] > 0 =>
            /\ rs_idx[s] = 0 /\ undo[s] <= Len(truth[s])
            /\ \A g \in 1 .. undo[s] : rows[g][tail[s]] = SubSeq(truth[s], 1, Len(truth[s]) - g)
  BY <1>2, KnowsIs
<1>5. Fit(cells, tail, head, used)
  BY SoundIs
<1> QED BY <1>1, <1>2, <1>3, <1>4, <1>5

\* The sequences of the micro-batch are in the first cells of the range.
LEMMA MainIs ==
  ASSUME Fit(cells, tail, head, used), UbatchOK
  PROVE  /\ Len(ubatch) \in Nat /\ DOMAIN ubatch = 1 .. Len(ubatch) /\ head \in Int
         /\ \A k \in DOMAIN ubatch :
              /\ k \in Int /\ Main(k) = head + k - 1 /\ Main(k) \in InRange /\ Main(k) \in Cell
              /\ Main(k) \notin Extra
              /\ cells[Main(k)].seq = ubatch[k].seqs /\ ubatch[k].seqs # {}
              /\ ubatch[k].toks \in Seq(Tok) /\ Len(ubatch[k].toks) \in Nat \ {0}
              /\ \A s \in ubatch[k].seqs : s \in SeqId /\ tail[s] = Main(k)
         /\ \A k, l \in DOMAIN ubatch : Main(k) = Main(l) => k = l
         /\ \A i \in InRange : i \in Cell /\ (i \in Extra \/ \E k \in DOMAIN ubatch : i = Main(k))
         /\ \A i \in Extra : i \in InRange
<1>1. /\ ubatch \in Seq(UbType) /\ graph.n \in Nat /\ Len(ubatch) <= graph.n /\ InRange \subseteq Cell
      /\ \A k \in DOMAIN ubatch : ubatch[k].toks # <<>>
      /\ \A k \in DOMAIN ubatch : cells[Main(k)].seq = ubatch[k].seqs
  BY DEF UbatchOK
<1>2. head \in Nat /\ Cell \subseteq Int
  BY FitIs, SizeIs
<1>3. Len(ubatch) \in Nat /\ DOMAIN ubatch = 1 .. Len(ubatch)
  BY <1>1
<1>4. ASSUME NEW k \in DOMAIN ubatch
      PROVE  /\ k \in Int /\ Main(k) = head + k - 1 /\ Main(k) \in InRange /\ Main(k) \in Cell
             /\ Main(k) \notin Extra
  <2>1. k \in Nat /\ 1 <= k /\ k <= Len(ubatch)
    BY <1>3
  <2>2. Main(k) = head + k - 1
    BY DEF Main
  <2>3. Main(k) \in InRange
    BY <1>1, <1>2, <1>3, <2>1, <2>2 DEF InRange
  <2>4. Main(k) \notin Extra
    BY <1>2, <1>3, <2>1, <2>2 DEF Extra
  <2> QED BY <1>1, <2>1, <2>2, <2>3, <2>4
<1>5. ASSUME NEW k \in DOMAIN ubatch
      PROVE  /\ ubatch[k].seqs # {} /\ ubatch[k].toks \in Seq(Tok) /\ Len(ubatch[k].toks) \in Nat \ {0}
             /\ \A s \in ubatch[k].seqs : s \in SeqId /\ tail[s] = Main(k)
  <2>1. ubatch[k] \in UbType
    BY <1>1, <1>3
  <2>2. ubatch[k].seqs \in SeqSets /\ ubatch[k].toks \in Seq(Tok)
    BY <2>1 DEF UbType
  <2>3. Len(ubatch[k].toks) \in Nat \ {0}
    <3>1. PICK x : x = ubatch[k].toks
      OBVIOUS
    <3>2. x \in Seq(Tok) /\ x # <<>>
      BY <1>1, <2>2, <3>1
    <3> QED BY <3>1, <3>2
  <2>4. \A s \in ubatch[k].seqs : s \in SeqId /\ tail[s] = Main(k)
    BY <1>1, <1>4, <2>2, FitIs DEF SeqSets
  <2> QED BY <2>2, <2>3, <2>4 DEF SeqSets
<1>6. \A k, l \in DOMAIN ubatch : Main(k) = Main(l) => k = l
  <2> TAKE k, l \in DOMAIN ubatch
  <2> HAVE Main(k) = Main(l)
  <2>1. k \in Int /\ l \in Int /\ head + k - 1 = head + l - 1
    <3>1. Main(k) = head + k - 1 /\ Main(l) = head + l - 1
      BY <1>4
    <3> QED BY <1>4, <3>1
  <2>2. \A h, x, y \in Int : h + x - 1 = h + y - 1 => x = y
    OBVIOUS
  <2>3. head \in Int
    BY <1>2
  <2> QED BY <2>1, <2>2, <2>3
<1>7. ASSUME NEW i \in InRange
      PROVE  i \in Extra \/ \E k \in DOMAIN ubatch : i = Main(k)
  <2>1. CASE i >= head + Len(ubatch)
    BY <2>1 DEF Extra
  <2>2. CASE ~(i >= head + Len(ubatch))
    <3>1. i \in Int /\ head <= i
      BY <1>1, <1>2 DEF InRange
    <3>2. PICK k : k = i - head + 1
      OBVIOUS
    <3>3. k \in DOMAIN ubatch /\ i = head + k - 1
      BY <1>2, <1>3, <2>2, <3>1, <3>2
    <3> QED BY <3>3 DEF Main
  <2> QED BY <2>1, <2>2
<1>8. \A i \in Extra : i \in InRange
  BY DEF Extra
<1> QED BY <1>1, <1>2, <1>3, <1>4, <1>5, <1>6, <1>7, <1>8

\* The rollbacks of the sequences in the range are used up, and no others.
LEMMA UsedUpIs ==
  ASSUME Fit(cells, tail, head, used), UbatchOK, rs_idx \in [SeqId -> Group],
         \A s, t \in SeqId : s # t /\ tail[s] = tail[t] /\ tail[s] >= 0 => rs_idx[s] = 0
  PROVE  /\ UsedUp \in [SeqId -> Group]
         /\ \A s \in SeqId : tail[s] \in InRange => UsedUp[s] = 0
         /\ \A s \in SeqId : tail[s] \notin InRange => UsedUp[s] = rs_idx[s]
         /\ \A s \in SeqId : rs_idx[s] = 0 => UsedUp[s] = 0
<1> DEFINE Led(s) == \E i \in InRange : cells[i].seq # {} /\ s = Min(cells[i].seq)
<1>1. /\ InRange \subseteq Cell
      /\ \A i \in Cell : cells[i].seq \in SUBSET SeqId
      /\ \A s \in SeqId, i \in Cell : s \in cells[i].seq <=> tail[s] = i
  BY FitIs DEF UbatchOK
<1>2. \A i \in InRange : cells[i].seq # {} => Min(cells[i].seq) \in cells[i].seq
  <2> TAKE i \in InRange
  <2> HAVE cells[i].seq # {}
  <2>1. cells[i].seq \in SUBSET Nat
    BY <1>1, SizeIs
  <2> QED BY <2>1, MinIs
<1>3. UsedUp = [s \in SeqId |-> IF Led(s) THEN 0 ELSE rs_idx[s]]
  BY DEF UsedUp
<1>4. ASSUME NEW s \in SeqId, Led(s)
      PROVE  tail[s] \in InRange
  BY <1>1, <1>2, <1>4
<1>5. ASSUME NEW s \in SeqId, tail[s] \in InRange, ~Led(s)
      PROVE  rs_idx[s] = 0
  <2>1. PICK i \in InRange : i = tail[s]
    BY <1>5
  <2>2. s \in cells[i].seq /\ i \in Cell
    BY <1>1, <2>1
  <2>3. PICK t : t = Min(cells[i].seq)
    OBVIOUS
  <2>4. t \in cells[i].seq
    BY <1>2, <2>2, <2>3
  <2>5. t # s
    BY <1>5, <2>2, <2>3
  <2>6. t \in SeqId /\ tail[t] = tail[s]
    BY <1>1, <2>1, <2>2, <2>4
  <2>7. tail[s] >= 0
    BY <2>1, <2>2, SizeIs
  <2> QED BY <2>5, <2>6, <2>7
<1> HIDE DEF Led
<1>6. \A s \in SeqId : UsedUp[s] = IF Led(s) THEN 0 ELSE rs_idx[s]
  BY <1>3
<1>7. UsedUp \in [SeqId -> Group]
  BY <1>3, GroupIs
<1> QED BY <1>4, <1>5, <1>6, <1>7

\* The tokens of the micro-batch are appended, and the last of them can be taken back.
LEMMA ComputedIs ==
  ASSUME Fit(cells, tail, head, used), UbatchOK, Trusting = {}, Compute,
         truth \in [SeqId -> Seq(Tok)], undo \in [SeqId -> Group]
  PROVE  /\ truth' \in [SeqId -> Seq(Tok)] /\ undo' \in [SeqId -> Group]
         /\ \A s \in SeqId : ~InUbatch(s) => truth'[s] = truth[s] /\ undo'[s] = undo[s]
         /\ \A k \in DOMAIN ubatch : \A s \in ubatch[k].seqs :
               /\ truth'[s] = truth[s] \o ubatch[k].toks
               /\ undo'[s] = IF ubatch[k].seqs # {s} THEN 0
                             ELSE MinOf(NRs, Len(ubatch[k].toks) - 1)
<1> DEFINE part(s) == {k \in DOMAIN ubatch : s \in ubatch[k].seqs}
           its(s) == CHOOSE k \in part(s) : TRUE
<1>0. \A s \in SeqId : Reach(s) = 0
  BY DEF Reach, Trusts
<1>1. /\ truth' = [s \in SeqId |-> IF part(s) = {} THEN truth[s] ELSE truth[s] \o ubatch[its(s)].toks]
      /\ undo' = [s \in SeqId |->
                    IF part(s) = {} THEN undo[s]
                    ELSE IF ubatch[its(s)].seqs # {s} THEN 0
                    ELSE MinOf(NRs, Reach(s) + Len(ubatch[its(s)].toks) - 1)]
  BY DEF Compute
<1>2. /\ \A k \in DOMAIN ubatch : /\ ubatch[k].toks \in Seq(Tok) /\ Len(ubatch[k].toks) \in Nat \ {0}
                                  /\ \A s \in ubatch[k].seqs : s \in SeqId
      /\ \A k, l \in DOMAIN ubatch : k # l => ubatch[k].seqs \cap ubatch[l].seqs = {}
  BY MainIs DEF UbatchOK
<1>3. \A s \in SeqId : ~InUbatch(s) => part(s) = {}
  BY DEF InUbatch, InUb
<1>4. \A s \in SeqId : part(s) # {} => its(s) \in part(s)
  OBVIOUS
<1>5. ASSUME NEW k \in DOMAIN ubatch, NEW s \in ubatch[k].seqs
      PROVE  part(s) # {} /\ its(s) = k
  <2>1. part(s) = {k}
    BY <1>2, <1>5
  <2> QED BY <2>1
<1>6. \A s \in SeqId : part(s) # {} => /\ its(s) \in DOMAIN ubatch /\ s \in ubatch[its(s)].seqs
  BY <1>4
<1> HIDE DEF part, its
<1>7. ASSUME NEW s \in SeqId
      PROVE  truth'[s] \in Seq(Tok) /\ undo'[s] \in Group
  <2>1. CASE part(s) = {}
    BY <1>1, <2>1
  <2>2. CASE part(s) # {}
    <3>1. PICK x : x = ubatch[its(s)].toks
      OBVIOUS
    <3>2. x \in Seq(Tok) /\ Len(x) \in Nat \ {0}
      BY <1>2, <1>6, <2>2, <3>1
    <3>3. truth'[s] = truth[s] \o x
      BY <1>1, <2>2, <3>1
    <3>4. undo'[s] = 0 \/ undo'[s] = MinOf(NRs, Len(x) - 1)
      BY <1>0, <1>1, <2>2, <3>1, <3>2
    <3>5. MinOf(NRs, Len(x) - 1) \in Group
      <4>1. /\ NRs \in Int /\ Len(x) - 1 \in Nat
            /\ MinOf(NRs, Len(x) - 1) \in {NRs, Len(x) - 1} /\ MinOf(NRs, Len(x) - 1) <= NRs
        BY <3>2, GroupIs, MinOfIs
      <4> QED BY <4>1, GroupIs
    <3>6. truth[s] \in Seq(Tok)
      OBVIOUS
    <3>7. truth[s] \o x \in Seq(Tok)
      BY <3>2, <3>6
    <3> QED BY <3>3, <3>4, <3>5, <3>7, GroupIs
  <2> QED BY <2>1, <2>2
<1>8. truth' \in [SeqId -> Seq(Tok)] /\ undo' \in [SeqId -> Group]
  <2>1. truth' = [s \in SeqId |-> truth'[s]] /\ undo' = [s \in SeqId |-> undo'[s]]
    BY <1>1
  <2> QED BY <1>7, <2>1
<1>9. \A s \in SeqId : ~InUbatch(s) => truth'[s] = truth[s] /\ undo'[s] = undo[s]
  BY <1>1, <1>3
<1>10. ASSUME NEW k \in DOMAIN ubatch, NEW s \in ubatch[k].seqs
       PROVE  /\ truth'[s] = truth[s] \o ubatch[k].toks
              /\ undo'[s] = IF ubatch[k].seqs # {s} THEN 0
                            ELSE MinOf(NRs, Len(ubatch[k].toks) - 1)
  <2>1. s \in SeqId /\ part(s) # {} /\ its(s) = k /\ Len(ubatch[k].toks) \in Nat \ {0}
    BY <1>2, <1>5, <1>10
  <2>2. Reach(s) + Len(ubatch[k].toks) - 1 = Len(ubatch[k].toks) - 1
    BY <1>0, <2>1
  <2> QED BY <1>1, <2>1, <2>2
<1> QED BY <1>8, <1>9, <1>10

\* The rows that the graph writes: the snapshots of the sequences of the micro-batch,
\* and the rows that were only moved.
LEMMA NewRowsIs ==
  ASSUME Fit(cells, tail, head, used), UbatchOK, NEW r, r = NewRows
  PROVE  /\ IsRows(r)
         /\ \A k \in DOMAIN ubatch : \A g \in Group : g < Len(ubatch[k].toks) =>
              r[g][Main(k)] = Copied(Main(k))
                                \o SubSeq(ubatch[k].toks, 1, Len(ubatch[k].toks) - g)
         /\ \A i \in Extra : r[0][i] = Copied(i)
         /\ \A i \in Cell : \A g \in Group :
              i \notin InRange \/ (g # 0 /\ \A k \in DOMAIN ubatch : i # Main(k)) =>
                r[g][i] = rows[g][i]
<1> DEFINE Written(g, i) == \E k \in DOMAIN ubatch : i = Main(k) /\ g < Len(ubatch[k].toks)
           New(g, i) == IF Written(g, i) THEN Snapshot(i - head + 1, g)
                        ELSE IF g = 0 /\ i \in Extra THEN Copied(i)
                        ELSE IF g = 0 /\ i = graph.rs_z THEN <<>>
                        ELSE rows[g][i]
<1>1. r = [g \in Group |-> [i \in Cell |-> New(g, i)]]
  BY DEF NewRows
<1>2. \A g \in Group, i \in Cell : r[g][i] = New(g, i)
  BY <1>1
<1>3. IsRows(r)
  BY <1>1 DEF IsRows
<1>4. ASSUME NEW k \in DOMAIN ubatch, NEW g \in Group, g < Len(ubatch[k].toks)
      PROVE  r[g][Main(k)] = Copied(Main(k))
                               \o SubSeq(ubatch[k].toks, 1, Len(ubatch[k].toks) - g)
  <2>1. PICK i : i = Main(k)
    OBVIOUS
  <2>2. i \in Cell /\ k \in Int /\ i = head + k - 1 /\ head \in Int
    BY <2>1, MainIs
  <2>3. Written(g, i)
    BY <1>4, <2>1
  <2>4. i - head + 1 = k
    BY <2>2
  <2>5. r[g][i] = Snapshot(k, g)
    BY <1>2, <2>2, <2>3, <2>4
  <2> QED BY <2>1, <2>5 DEF Snapshot
<1>5. ASSUME NEW i \in Extra
      PROVE  r[0][i] = Copied(i)
  <2>1. i \in Cell /\ \A k \in DOMAIN ubatch : i # Main(k)
    BY MainIs
  <2>2. 0 \in Group
    BY GroupIs
  <2> QED BY <1>2, <2>1, <2>2
<1>6. ASSUME NEW i \in Cell, NEW g \in Group,
             i \notin InRange \/ (g # 0 /\ \A k \in DOMAIN ubatch : i # Main(k))
      PROVE  r[g][i] = rows[g][i]
  <2>1. \A k \in DOMAIN ubatch : i # Main(k)
    BY <1>6, MainIs
  <2>2. ~(g = 0 /\ i \in Extra)
    BY <1>6, MainIs
  <2>3. ~(g = 0 /\ i = graph.rs_z)
    <3>1. graph.rs_z \in InRange \cup {-1} /\ i # -1
      BY SizeIs DEF UbatchOK
    <3> QED BY <1>6, <3>1
  <2> QED BY <1>2, <2>1, <2>2, <2>3
<1> QED BY <1>3, <1>4, <1>5, <1>6

\* what a graph that was computed leaves behind
Results(ix, un, tr, r) == ix = UsedUp /\ un = undo' /\ tr = truth' /\ r = NewRows

LEMMA ComputeTells ==
  ASSUME Sound, Told, Trusting = {}, Compute, NEW ix, NEW un, NEW tr, NEW r, Results(ix, un, tr, r)
  PROVE  IsRows(r) /\ RowsTell(cells, tail, ix, un, tr, r)
<1>1. pc = "inputs"
  BY DEF Compute
<1>2. /\ Fit(cells, tail, head, used) /\ UbatchOK
      /\ truth \in [SeqId -> Seq(Tok)] /\ rs_idx \in [SeqId -> Group] /\ undo \in [SeqId -> Group]
      /\ \A s \in SeqId : tail[s] < 0 => truth[s] = <<>> /\ rs_idx[s] = 0
      /\ \A s \in SeqId : tail[s] >= 0 /\ undo[s] > 0 =>
            /\ rs_idx[s] = 0 /\ undo[s] <= Len(truth[s])
            /\ \A g \in 1 .. undo[s] : rows[g][tail[s]] = SubSeq(truth[s], 1, Len(truth[s]) - g)
      /\ \A s, t \in SeqId : s # t /\ tail[s] = tail[t] /\ tail[s] >= 0 =>
            rs_idx[s] = 0 /\ (undo[s] = 0 \/ InUbatch(s))
      /\ \A i \in InRange : CopyTold(i)
      /\ \A i \in Cell : i \notin InRange => RowTold(cells, rs_idx, truth, rows, i)
  BY <1>1, InputsAre
<1>3. /\ ix \in [SeqId -> Group]
      /\ \A s \in SeqId : tail[s] \in InRange => ix[s] = 0
      /\ \A s \in SeqId : tail[s] \notin InRange => ix[s] = rs_idx[s]
      /\ \A s \in SeqId : rs_idx[s] = 0 => ix[s] = 0
  BY <1>2, UsedUpIs DEF Results
<1>4. /\ tr \in [SeqId -> Seq(Tok)] /\ un \in [SeqId -> Group]
      /\ \A s \in SeqId : ~InUbatch(s) => tr[s] = truth[s] /\ un[s] = undo[s]
      /\ \A k \in DOMAIN ubatch : \A s \in ubatch[k].seqs :
            /\ tr[s] = truth[s] \o ubatch[k].toks
            /\ un[s] = IF ubatch[k].seqs # {s} THEN 0 ELSE MinOf(NRs, Len(ubatch[k].toks) - 1)
  BY <1>2, ComputedIs DEF Results
<1>5. /\ IsRows(r)
      /\ \A k \in DOMAIN ubatch : \A g \in Group : g < Len(ubatch[k].toks) =>
           r[g][Main(k)] = Copied(Main(k)) \o SubSeq(ubatch[k].toks, 1, Len(ubatch[k].toks) - g)
      /\ \A i \in Extra : r[0][i] = Copied(i)
      /\ \A i \in Cell : \A g \in Group :
           i \notin InRange \/ (g # 0 /\ \A k \in DOMAIN ubatch : i # Main(k)) =>
             r[g][i] = rows[g][i]
  BY <1>2, NewRowsIs, ZenonT(60) DEF Results
<1>6. /\ \A k \in DOMAIN ubatch :
           /\ Main(k) \in InRange /\ Main(k) \in Cell
           /\ cells[Main(k)].seq = ubatch[k].seqs /\ ubatch[k].seqs # {}
           /\ ubatch[k].toks \in Seq(Tok) /\ Len(ubatch[k].toks) \in Nat \ {0}
           /\ \A s \in ubatch[k].seqs : s \in SeqId /\ tail[s] = Main(k)
      /\ \A i \in InRange : i \in Cell /\ (i \in Extra \/ \E k \in DOMAIN ubatch : i = Main(k))
      /\ \A i \in Extra : i \in InRange /\ \A k \in DOMAIN ubatch : i # Main(k)
      /\ \A s \in SeqId, i \in Cell : s \in cells[i].seq <=> tail[s] = i
      /\ \A s \in SeqId : tail[s] >= 0 => tail[s] \in Cell
      /\ \A i \in Cell : i >= 0 /\ cells[i].seq \in SUBSET SeqId
  BY <1>2, MainIs, FitIs, SizeIs, SMTT(30)
<1>7. \A k \in DOMAIN ubatch : \A s \in SeqId : tail[s] = Main(k) => s \in ubatch[k].seqs /\ InUbatch(s)
  BY <1>6 DEF InUbatch, InUb
<1>8. \A s \in SeqId : tail[s] < 0 => tr[s] = <<>> /\ ix[s] = 0
  <2> TAKE s \in SeqId
  <2> HAVE tail[s] < 0
  <2>1. ~InUbatch(s)
    <3>1. ASSUME NEW k \in DOMAIN ubatch, s \in ubatch[k].seqs
          PROVE  FALSE
      <4>1. tail[s] \in Cell /\ tail[s] >= 0
        BY <1>6, <3>1
      <4>2. tail[s] \in Int
        BY <4>1, SizeIs
      <4> QED BY <4>1, <4>2
    <3> QED BY <3>1 DEF InUbatch, InUb
  <2> QED BY <1>2, <1>3, <1>4, <2>1
<1>9. \A s \in SeqId : tail[s] >= 0 /\ un[s] > 0 =>
         /\ ix[s] = 0 /\ un[s] <= Len(tr[s])
         /\ \A g \in 1 .. un[s] : r[g][tail[s]] = SubSeq(tr[s], 1, Len(tr[s]) - g)
  <2> TAKE s \in SeqId
  <2> HAVE tail[s] >= 0 /\ un[s] > 0
  <2>1. CASE InUbatch(s)
    <3>1. PICK k \in DOMAIN ubatch : s \in ubatch[k].seqs
      BY <2>1 DEF InUbatch, InUb
    <3>2. PICK i, a, b, n : i = Main(k) /\ a = truth[s] /\ b = ubatch[k].toks /\ n = un[s]
      OBVIOUS
    <3>3. /\ i \in InRange /\ tail[s] = i /\ s \in cells[i].seq /\ a \in Seq(Tok) /\ b \in Seq(Tok)
          /\ Len(b) \in Nat \ {0} /\ tr[s] = a \o b
      BY <1>2, <1>4, <1>6, <3>1, <3>2
    <3>4. n \in Group /\ n \in Nat /\ n <= Len(b) - 1
      <4>1. n = MinOf(NRs, Len(b) - 1)
        <5>1. n = IF ubatch[k].seqs # {s} THEN 0 ELSE MinOf(NRs, Len(b) - 1)
          BY <1>4, <3>1, <3>2
        <5>2. n # 0
          BY <3>2
        <5> QED BY <5>1, <5>2
      <4>2. NRs \in Int /\ Len(b) - 1 \in Int
        BY <3>3, GroupIs
      <4>3. n \in Group
        BY <1>4, <3>2
      <4>4. n <= Len(b) - 1
        BY <4>1, <4>2, MinOfIs
      <4> QED BY <4>3, <4>4, GroupIs
    <3>5. ix[s] = 0
      BY <1>3, <3>3
    <3>6. Copied(i) = a
      <4>1. CopyTold(i)
        BY <1>2, <3>3
      <4> QED BY <3>2, <3>3, <4>1 DEF CopyTold
    <3>7. n <= Len(a \o b)
      BY <3>3, <3>4
    <3>8. \A g \in 1 .. n : r[g][i] = SubSeq(a \o b, 1, Len(a \o b) - g)
      <4> TAKE g \in 1 .. n
      <4>1. g \in Group /\ g \in Nat /\ g < Len(b) /\ g <= Len(b)
        BY <3>3, <3>4, GroupIs
      <4>2. r[g][i] = a \o SubSeq(b, 1, Len(b) - g)
        BY <1>5, <3>2, <3>6, <4>1
      <4> QED BY <3>3, <4>1, <4>2, CutIs, SMTT(30)
    <3> QED BY <3>2, <3>3, <3>5, <3>7, <3>8
  <2>2. CASE ~InUbatch(s)
    <3>1. un[s] = undo[s] /\ tr[s] = truth[s]
      BY <1>4, <2>2
    <3>2. /\ rs_idx[s] = 0 /\ undo[s] <= Len(truth[s]) /\ undo[s] \in Group
          /\ \A g \in 1 .. undo[s] : rows[g][tail[s]] = SubSeq(truth[s], 1, Len(truth[s]) - g)
      BY <1>2, <3>1
    <3>3. tail[s] \in Cell /\ \A k \in DOMAIN ubatch : tail[s] # Main(k)
      BY <1>6, <1>7, <2>2
    <3>4. \A g \in 1 .. undo[s] : r[g][tail[s]] = rows[g][tail[s]]
      BY <1>5, <3>2, <3>3, GroupIs
    <3> QED BY <1>3, <3>1, <3>2, <3>4
  <2> QED BY <2>1, <2>2
<1>10. \A s, t \in SeqId : s # t /\ tail[s] = tail[t] /\ tail[s] >= 0 => ix[s] = 0 /\ un[s] = 0
  <2> TAKE s, t \in SeqId
  <2> HAVE s # t /\ tail[s] = tail[t] /\ tail[s] >= 0
  <2>1. rs_idx[s] = 0 /\ (undo[s] = 0 \/ InUbatch(s))
    BY <1>2
  <2>2. CASE InUbatch(s)
    <3>1. PICK k \in DOMAIN ubatch : s \in ubatch[k].seqs
      BY <2>2 DEF InUbatch, InUb
    <3>2. t \in ubatch[k].seqs
      BY <1>6, <1>7, <3>1
    <3>3. ubatch[k].seqs # {s}
      BY <3>2
    <3>4. un[s] = 0
      BY <1>4, <3>1, <3>3
    <3> QED BY <1>3, <2>1, <3>4
  <2>3. CASE ~InUbatch(s)
    BY <1>3, <1>4, <2>1, <2>3
  <2> QED BY <2>2, <2>3
<1>11. ASSUME NEW i \in Cell
       PROVE  /\ cells[i].seq = {} /\ cells[i].src = i => r[0][i] = <<>>
              /\ \A s \in cells[i].seq : r[ix[s]][i] = tr[s]
  <2>1. ASSUME NEW k \in DOMAIN ubatch, i = Main(k)
        PROVE  cells[i].seq # {} /\ \A s \in cells[i].seq : r[ix[s]][i] = tr[s]
    <3>1. cells[i].seq = ubatch[k].seqs /\ cells[i].seq # {} /\ i \in InRange
      BY <1>6, <2>1
    <3>2. ASSUME NEW s \in cells[i].seq
          PROVE  r[ix[s]][i] = tr[s]
      <4>1. PICK b : b = ubatch[k].toks
        OBVIOUS
      <4>2. /\ s \in SeqId /\ tail[s] = i /\ b \in Seq(Tok) /\ Len(b) \in Nat \ {0}
            /\ tr[s] = truth[s] \o b
        BY <1>4, <1>6, <2>1, <3>1, <3>2, <4>1
      <4>3. ix[s] = 0 /\ 0 \in Group
        BY <1>3, <3>1, <4>2, GroupIs
      <4>4. Copied(i) = truth[s]
        BY <1>2, <3>1, <3>2 DEF CopyTold
      <4>5. r[0][i] = truth[s] \o SubSeq(b, 1, Len(b) - 0)
        <5>1. 0 \in Group /\ 0 < Len(ubatch[k].toks)
          BY <4>1, <4>2, <4>3
        <5>2. r[0][Main(k)] = Copied(Main(k))
                                \o SubSeq(ubatch[k].toks, 1, Len(ubatch[k].toks) - 0)
          BY <1>5, <5>1
        <5> QED BY <2>1, <4>1, <4>4, <5>2
      <4>6. SubSeq(b, 1, Len(b) - 0) = b
        BY <4>2
      <4> QED BY <4>2, <4>3, <4>5, <4>6
    <3> QED BY <3>1, <3>2
  <2>2. ASSUME i \in Extra
        PROVE  /\ cells[i].seq = {} => r[0][i] = <<>>
               /\ \A s \in cells[i].seq : r[ix[s]][i] = tr[s]
    <3>1. i \in InRange /\ r[0][i] = Copied(i) /\ CopyTold(i)
      BY <1>2, <1>5, <1>6, <2>2
    <3>2. ASSUME NEW s \in cells[i].seq
          PROVE  r[ix[s]][i] = tr[s]
      <4>1. s \in SeqId /\ tail[s] = i
        BY <1>6, <3>2
      <4>2. ~InUbatch(s)
        BY <1>6, <2>2, <4>1 DEF InUbatch, InUb
      <4>3. ix[s] = 0 /\ tr[s] = truth[s]
        BY <1>3, <1>4, <3>1, <4>1, <4>2
      <4> QED BY <3>1, <3>2, <4>3 DEF CopyTold
    <3> QED BY <3>1, <3>2 DEF CopyTold
  <2>3. ASSUME i \notin InRange
        PROVE  /\ cells[i].seq = {} /\ cells[i].src = i => r[0][i] = <<>>
               /\ \A s \in cells[i].seq : r[ix[s]][i] = tr[s]
    <3>1. RowTold(cells, rs_idx, truth, rows, i) /\ \A g \in Group : r[g][i] = rows[g][i]
      BY <1>2, <1>5, <2>3
    <3>2. ASSUME NEW s \in cells[i].seq
          PROVE  r[ix[s]][i] = tr[s]
      <4>1. s \in SeqId /\ tail[s] = i
        BY <1>6, <3>2
      <4>2. ~InUbatch(s)
        BY <1>6, <2>3, <4>1 DEF InUbatch, InUb
      <4>3. ix[s] = rs_idx[s] /\ ix[s] \in Group /\ tr[s] = truth[s]
        BY <1>3, <1>4, <2>3, <4>1, <4>2
      <4> QED BY <3>1, <3>2, <4>3 DEF RowTold
    <3> QED BY <3>1, <3>2, GroupIs DEF RowTold
  <2> QED BY <1>6, <2>1, <2>2, <2>3
<1>12. \A i \in Cell : cells[i].seq = {} /\ cells[i].src = i => r[0][i] = <<>>
  BY <1>11
<1>13. \A i \in Cell : \A s \in cells[i].seq : r[ix[s]][i] = tr[s]
  BY <1>11
<1>14. RowsTell(cells, tail, ix, un, tr, r)
  <2>1. /\ tr \in [SeqId -> Seq(Tok)] /\ ix \in [SeqId -> Group] /\ un \in [SeqId -> Group]
    BY <1>3, <1>4
  <2> QED BY <1>8, <1>9, <1>10, <1>12, <1>13, <2>1, TellsIf
<1> QED BY <1>5, <1>14

LEMMA ComputeTold ==
  ASSUME Sound, Told, Trusting = {}, Compute
  PROVE  Told'
<1>1. /\ pc = "inputs" /\ cells' = cells /\ tail' = tail /\ head' = head /\ used' = used
      /\ left' = left /\ saved' = saved /\ rs_idx' = UsedUp
      /\ pc' = IF left = <<>> THEN "idle" ELSE "ubatch"
      /\ rows' = IF left = <<>> THEN Remembered(NewRows) ELSE NewRows
  BY DEF Compute, meta
<1>2. PICK ix, un, tr, r : ix = UsedUp /\ un = undo' /\ tr = truth' /\ r = NewRows
  OBVIOUS
<1>3. IsRows(r) /\ RowsTell(cells, tail, ix, un, tr, r)
  BY <1>2, ComputeTells DEF Results
<1>4. /\ Fit(cells, tail, head, used) /\ UbatchOK
      /\ truth \in [SeqId -> Seq(Tok)] /\ rs_idx \in [SeqId -> Group] /\ undo \in [SeqId -> Group]
      /\ \A s, t \in SeqId : s # t /\ tail[s] = tail[t] /\ tail[s] >= 0 =>
            rs_idx[s] = 0 /\ (undo[s] = 0 \/ InUbatch(s))
      /\ \A q \in DOMAIN left : Admitted(left[q].seqs)
      /\ saved # <<>> => saved.truth \in Seq(Tok) /\ saved.row = saved.truth
  BY <1>1, InputsAre
<1>5. CASE left = <<>>
  <2>1. RowsTell(cells', tail', rs_idx', undo', truth', r)
    BY <1>1, <1>2, <1>3
  <2>2. Fit(cells', tail', head', used')
    BY <1>1, <1>4
  <2>3. rows' = Remembered(r) /\ pc' = "idle"
    BY <1>1, <1>2, <1>5
  <2>4. saved' # <<>> => saved'.truth \in Seq(Tok) /\ saved'.row = saved'.truth
    BY <1>1, <1>4
  <2> QED BY <2>1, <2>2, <2>3, <2>4, IdleTold
<1>6. CASE left # <<>>
  <2>1. /\ \A s \in SeqId : ~InUbatch(s) => tr[s] = truth[s]
        /\ \A k \in DOMAIN ubatch : \A s \in ubatch[k].seqs : tr[s] = truth[s] \o ubatch[k].toks
    BY <1>2, <1>4, ComputedIs
  <2>2. \A s \in SeqId : rs_idx[s] = 0 => ix[s] = 0
    BY <1>2, <1>4, UsedUpIs
  <2>3. \A k \in DOMAIN ubatch, q \in DOMAIN left :
          left[q].seqs = ubatch[k].seqs \/ left[q].seqs \cap ubatch[k].seqs = {}
    BY <1>4 DEF UbatchOK
  <2>4. ASSUME NEW q \in DOMAIN left, NEW s \in left[q].seqs, NEW t \in left[q].seqs, s # t
        PROVE  tr[s] = tr[t] /\ ix[s] = 0
    <3>1. truth[s] = truth[t] /\ rs_idx[s] = 0
      BY <1>4, <2>4 DEF Admitted, Settled, Trusts
    <3>2. s \in SeqId /\ t \in SeqId
      <4>1. left \in Seq(RunType)
        BY <1>1, SoundIs DEF RunsOK
      <4>2. left[q] \in RunType
        BY <4>1
      <4>3. left[q].seqs \in SeqSets
        BY <4>2 DEF RunType
      <4> QED BY <2>4, <4>3 DEF SeqSets
    <3>3. CASE InUbatch(s)
      <4>1. PICK k \in DOMAIN ubatch : s \in ubatch[k].seqs
        BY <3>3 DEF InUbatch, InUb
      <4>2. t \in ubatch[k].seqs
        BY <2>3, <2>4, <4>1
      <4> QED BY <2>1, <2>2, <3>1, <3>2, <4>1, <4>2
    <3>4. CASE ~InUbatch(s)
      <4>1. ASSUME NEW k \in DOMAIN ubatch, t \in ubatch[k].seqs
            PROVE  FALSE
        <5>1. s \in ubatch[k].seqs
          BY <2>3, <2>4, <4>1
        <5> QED BY <3>4, <5>1 DEF InUbatch, InUb
      <4>2. ~InUbatch(t)
        BY <4>1 DEF InUbatch, InUb
      <4> QED BY <2>1, <2>2, <3>1, <3>2, <3>4, <4>2
    <3> QED BY <3>3, <3>4
  <2>5. (\A q \in DOMAIN left : Admitted(left[q].seqs))'
    BY <1>1, <1>2, <2>4 DEF Admitted, Settled
  <2>6. rows' = r /\ pc' = "ubatch"
    BY <1>1, <1>2, <1>6
  <2> QED BY <1>1, <1>2, <1>3, <1>4, <2>5, <2>6 DEF Told
<1> QED BY <1>5, <1>6

LEMMA ToldStep ==
  ASSUME Sound, Told, Trusting = {}, [Next]_vars
  PROVE  Told'
<1>1. CASE UNCHANGED vars
  <2>1. /\ cells' = cells /\ tail' = tail /\ head' = head /\ rs_idx' = rs_idx /\ rows' = rows
        /\ graph' = graph /\ left' = left /\ ubatch' = ubatch /\ pc' = pc /\ truth' = truth
        /\ undo' = undo /\ saved' = saved
    BY <1>1 DEF vars
  <2>2. \A S : Admitted(S)' <=> Admitted(S)
    BY <2>1 DEF Admitted, Settled
  <2>3. InRange' = InRange /\ \A k : Main(k)' = Main(k)
    BY <2>1 DEF InRange, Main
  <2>4. \A i : CopyTold(i)' <=> CopyTold(i)
    BY <2>1 DEF CopyTold, Copied, SCopy
  <2>5. UbatchOK' <=> UbatchOK
    BY <2>1, <2>2, <2>3 DEF UbatchOK
  <2>6. \A s : InUbatch(s)' <=> InUbatch(s)
    BY <2>1 DEF InUbatch
  <2>7. InputsTell' <=> InputsTell
    BY <2>1, <2>3, <2>4, <2>5, <2>6 DEF InputsTell
  <2> QED BY <2>1, <2>2, <2>7 DEF Told
<1>2. CASE Clear
  BY <1>2, ClearTold
<1>3. ASSUME NEW s \in SeqId, seq_rm_whole(s)
      PROVE  Told'
  BY <1>3, RmWholeTold
<1>4. ASSUME NEW s \in SeqId, NEW n \in Group \ {0}, seq_rm_tail(s, n)
      PROVE  Told'
  BY <1>4, RmTailTold
<1>5. ASSUME NEW s \in SeqId, NEW t \in SeqId, seq_cp(s, t)
      PROVE  Told'
  BY <1>5, CopyTells
<1>6. ASSUME NEW s \in SeqId, seq_keep(s)
      PROVE  Told'
  BY <1>6, KeepTells
<1>7. ASSUME NEW s \in SeqId, state_write(s)
      PROVE  Told'
  BY <1>7, WriteTold
<1>8. ASSUME NEW s \in SeqId, state_read(s)
      PROVE  Told'
  BY <1>8, ReadTold
<1>9. CASE Decode
  BY <1>9, DecodeTold
<1>10. CASE Apply
  BY <1>10, ApplyTold
<1>11. CASE Compute
  BY <1>11, ComputeTold
<1>12. CASE Next
  BY <1>2, <1>3, <1>4, <1>5, <1>6, <1>7, <1>8, <1>9, <1>10, <1>11, <1>12, Zenon DEF Next
<1> QED BY <1>1, <1>12

\* What the rows mean is what the next decode reads.
LEMMA HistoryIs ==
  ASSUME Sound, Told
  PROVE  StateIsHistory
<1>1. ASSUME pc = "idle", NEW s \in SeqId
      PROVE  Reads(s) = truth[s]
  <2>1. /\ Fit(cells, tail, head, used)
        /\ \A t \in SeqId : tail[t] < 0 => truth[t] = <<>> /\ rs_idx[t] = 0
        /\ \A t, u \in SeqId : t # u /\ tail[t] = tail[u] /\ tail[t] >= 0 => rs_idx[t] = 0 /\ undo[t] = 0
        /\ \A i \in Cell : \A t \in cells[i].seq : rows[rs_idx[t]][i] = truth[t]
    BY <1>1, ToldIs
  <2>2. CASE tail[s] < 0
    BY <2>1, <2>2 DEF Reads
  <2>3. CASE ~(tail[s] < 0)
    <3>1. PICK i : i = tail[s]
      OBVIOUS
    <3>2. tail[s] \in Cell \cup {-1}
      BY <2>1, FitIs
    <3>3. tail[s] >= 0
      BY <2>3, <3>2, SizeIs
    <3>4. /\ i \in Cell /\ s \in cells[i].seq /\ cells[i].src = i
          /\ \A t \in cells[i].seq : t \in SeqId /\ tail[t] = i
      BY <2>1, <3>1, <3>3, FitIs
    <3>5. PICK t : t = Min(cells[i].seq)
      OBVIOUS
    <3>6. t \in cells[i].seq
      <4>1. cells[i].seq \in SUBSET Nat
        BY <3>4, SizeIs
      <4> QED BY <3>4, <3>5, <4>1, MinIs
    <3>7. rs_idx[t] = rs_idx[s]
      BY <2>1, <3>1, <3>3, <3>4, <3>6
    <3>8. ~(i < 0)
      BY <3>4, SizeIs
    <3>9. Reads(s) = rows[rs_idx[t]][i]
      BY <2>3, <3>1, <3>4, <3>5, <3>8 DEF Reads
    <3> QED BY <2>1, <3>4, <3>7, <3>9
  <2> QED BY <2>2, <2>3
<1>2. ASSUME pc = "inputs", NEW k \in DOMAIN ubatch
      PROVE  Copied(Main(k)) = truth[First(ubatch[k])]
  <2>1. /\ Fit(cells, tail, head, used) /\ UbatchOK /\ \A i \in InRange : CopyTold(i)
    BY <1>2, InputsAre
  <2>2. Main(k) \in InRange /\ cells[Main(k)].seq = ubatch[k].seqs
    BY <2>1, MainIs
  <2>3. First(ubatch[k]) \in ubatch[k].seqs
    <3>1. ubatch \in Seq(UbType)
      BY <2>1 DEF UbatchOK
    <3>2. ubatch[k] \in UbType
      BY <3>1
    <3> QED BY <3>2, FirstIs DEF UbType
  <2> QED BY <2>1, <2>2, <2>3 DEF CopyTold
<1> QED BY <1>1, <1>2 DEF StateIsHistory

\* A caller that relies on nothing gets for every sequence the state of its own tokens:
\* through every placement by find_slot, every move of a row by the graph, rollbacks to
\* a snapshot, shared cells, and saved and restored sequences
\* (llama-memory-recurrent.cpp:450, llama-graph.cpp, delta-net-base.cpp).
THEOREM StateIsAlwaysHistory ==
  ASSUME Trusting = {}
  PROVE  Spec => []StateIsHistory
<1>1. Init => Sound /\ Told
  BY InitSound, InitTold
<1>2. Sound /\ Told /\ [Next]_vars => Sound' /\ Told'
  BY SoundStep, ToldStep
<1>3. Sound /\ Told => StateIsHistory
  BY HistoryIs
<1> QED BY <1>1, <1>2, <1>3, PTL DEF Spec
=============================================================================
