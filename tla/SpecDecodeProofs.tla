--------------------------- MODULE SpecDecodeProofs ---------------------------
(***************************************************************************)
(* What is sampled depends on the tokens alone, for every memory of a      *)
(* target, every number and length of drafts, every size of a batch, every *)
(* number of checkpoints and every sequence of requests.                   *)
(*                                                                         *)
(* The tokens that the target should hold are known at every step: they    *)
(* are the prompt, the answer and the draft.  A memory, a checkpoint, a    *)
(* row the drafter carries over are true if they are what those tokens     *)
(* give (Holds, Covers, Carried).                                          *)
(***************************************************************************)
EXTENDS SpecDecode, SubsequencesProofs

\* s is how t begins
Begins(s, t) == Len(s) <= Len(t) /\ \A k \in 1 .. Len(s) : s[k] = t[k]

\* a memory that holds the tokens s
MemType == [kv : Seq(Token), pos : Int, idx : 0 .. kind.n_rs,
            rows : [0 .. kind.n_rs -> Seq(Token)]]
Settled(m) == Recurrent => m.pos = Len(m.kv) - 1 /\ RecState(m) = m.kv
Holds(m, s) == m \in MemType /\ m.kv = s /\ Settled(m)

\* what the drafter carries over of s: a row for a position of s is the one that
\* the target computed, or neutral
True(r, s) == 0 <= r.pos /\ r.pos < Len(s) => r.h = Zero \/ r.h = First(s, r.pos + 1)
RowType == [pos : Int, h : Seq(Token)]
Carried(m, s) ==
  /\ m.pend \in RowType /\ m.prev \in RowType /\ m.ring \in Seq(RowType)
  /\ True(m.pend, s) /\ True(m.prev, s)
  /\ \A p \in 0 .. Len(s) - 1 : True(Newest(m.ring, p), s)
CarriedBack(spec, s) == spec = NoState \/ (spec = <<spec[1]>> /\ Carried(spec[1], s))
MtpType == [pend : RowType, prev : RowType, bound : RowType, first : Int,
            rows : Seq(Seq(Token)), drafted : Nat, ring : Seq(RowType)]

\* verify_h holds the last rows of s
RowsOf(m, s) ==
  m.rows # <<>> =>
    /\ m.first >= 0 /\ m.first + Len(m.rows) = Len(s)
    /\ \A k \in 1 .. Len(m.rows) : m.rows[k] = First(s, m.first + k)

\* the checkpoint c was taken when s was in memory
Covers(c, s) ==
  /\ s # <<>> /\ c.n = Len(s) /\ c.pos = Len(s) - 1
  /\ c.data = <<[pos |-> Len(s) - 1, row |-> s]>>
  /\ CarriedBack(c.spec, s)

\* the tokens before the last one, which a draft comes after
History == prompt \o sent
Base == First(History, Len(History) - 1)

\* what is in memory, or is about to be
Phases ==
  /\ state \in {"idle", "prompt", "gen"}
  /\ \/ pc = "build" /\ toks = tgt.kv
     \/ pc = "decode" /\ batch # <<>> /\ toks = tgt.kv \o batch
     \/ pc = "sample" /\ toks = tgt.kv /\ state = "gen"
  /\ state = "idle" => /\ pc = "build" /\ prompt = <<>> /\ sent = <<>>
                       /\ sampled = <<>> /\ draft = <<>>
  /\ state = "prompt" => /\ Begins(toks, prompt) /\ sent = <<>> /\ sampled = <<>> /\ draft = <<>>
                         /\ pc = "build" => Len(toks) < Len(prompt)
  /\ state # "idle" => prompt # <<>>
  /\ state = "gen" =>
       /\ pc = "build" => toks = Base
       /\ pc = "decode" => batch = sampled \o draft
       /\ pc # "build" => toks = History \o draft
       /\ pc # "sample" \/ draft # <<>> => sent # <<>> /\ sampled = <<sent[Len(sent)]>>

\* the snapshots that verification may go back to
Snapshots ==
  pc = "sample" /\ Recurrent =>
    /\ tgt.idx = 0
    /\ \A g \in 0 .. kind.n_rs : g <= Len(draft) => tgt.rows[g] = First(tgt.kv, Len(tgt.kv) - g)

\* A checkpoint of a prompt p is true of it; that of a slot without a request is
\* true of the tokens t, as far as they go.
Along(t, s) == \A k \in 1 .. Len(s) : k <= Len(t) => t[k] = s[k]
CkptRow(c) == c.data[1].row
Stored(c, st, p, t) ==
  /\ CkptRow(c) \in Seq(Token) /\ Covers(c, CkptRow(c)) /\ Along(t, CkptRow(c))
  /\ st # "idle" => Begins(CkptRow(c), p)
SavedType == [pend : RowType, prev : RowType, ring : Seq(RowType)]
CkptType == [n : Nat, pos : Int, data : Seq([pos : Int, row : Seq(Token)]), spec : Seq(SavedType)]
Checkpoints ==
  /\ ckpts \in Seq(CkptType) /\ (ckpts # <<>> => Recurrent)
  /\ \A k \in 1 .. Len(ckpts) : Stored(ckpts[k], state, prompt, toks)

\* the checkpoint of a draft is there when it may be needed
DraftCkpt == draft # <<>> /\ NeedsCkpt(Len(draft)) => Covers(ckpt, Base)

\* what the drafter has seen, of the last batch too
Seen ==
  /\ mtp \in MtpType /\ Carried(mtp, tgt.kv)
  /\ pc = "sample" => True(mtp.bound, tgt.kv) /\ RowsOf(mtp, tgt.kv)

Tokens ==
  /\ kind \in Kinds
  /\ prompt \in Seq(Token) /\ sent \in Seq(Token) /\ toks \in Seq(Token)
  /\ draft \in Seq(Token) /\ batch \in Seq(Token) /\ sampled \in Seq(Token)

IInv ==
  /\ Tokens /\ Holds(tgt, tgt.kv) /\ dft = Len(tgt.kv)
  /\ Phases /\ Snapshots /\ Checkpoints /\ DraftCkpt /\ Seen
  /\ SampledFromHistory

-----------------------------------------------------------------------------
(* How a sequence begins *)

LEMMA FirstIs ==
  ASSUME NEW S, NEW s \in Seq(S), NEW n \in 0 .. Len(s)
  PROVE  /\ First(s, n) \in Seq(S) /\ Len(First(s, n)) = n
         /\ \A k \in 1 .. n : First(s, n)[k] = s[k]
<1>1. 1 \in 1 .. Len(s) + 1 /\ n \in 1 - 1 .. Len(s) /\ n - 1 + 1 = n
  OBVIOUS
<1>2. \A k \in 1 .. n : 1 + k - 1 = k
  OBVIOUS
<1> QED BY <1>1, <1>2, Cut DEF First

\* What a sequence begins with is its first part.
LEMMA BeginsIs ==
  ASSUME NEW S, NEW s \in Seq(S), NEW t \in Seq(S), Begins(s, t)
  PROVE  s = First(t, Len(s))
<1>1. Len(s) \in 0 .. Len(t) /\ \A k \in 1 .. Len(s) : s[k] = t[k]
  BY DEF Begins
<1>2. /\ First(t, Len(s)) \in Seq(S) /\ Len(First(t, Len(s))) = Len(s)
      /\ \A k \in 1 .. Len(s) : First(t, Len(s))[k] = t[k]
  BY <1>1, FirstIs
<1> QED BY <1>1, <1>2, SameEntries

LEMMA FirstBegins ==
  ASSUME NEW S, NEW s \in Seq(S), NEW n \in 0 .. Len(s)
  PROVE  Begins(First(s, n), s)
  BY FirstIs DEF Begins

LEMMA BeginsTrans ==
  ASSUME NEW S, NEW s \in Seq(S), NEW t \in Seq(S), NEW u \in Seq(S), Begins(s, t), Begins(t, u)
  PROVE  Begins(s, u)
<1>1. Len(s) \in Nat /\ Len(t) \in Nat /\ Len(u) \in Nat
  OBVIOUS
<1> QED BY <1>1 DEF Begins

\* The first part of the first part.
LEMMA FirstFirst ==
  ASSUME NEW S, NEW s \in Seq(S), NEW n \in 0 .. Len(s), NEW m \in 0 .. n
  PROVE  First(First(s, n), m) = First(s, m)
<1> DEFINE t == First(s, n)
<1>1. t \in Seq(S) /\ Len(t) = n /\ \A k \in 1 .. n : t[k] = s[k]
  BY FirstIs
<1>2. m \in 0 .. Len(s)
  OBVIOUS
<1> HIDE DEF t
<1>3. First(t, m) \in Seq(S) /\ Len(First(t, m)) = m /\ \A k \in 1 .. m : First(t, m)[k] = t[k]
  BY <1>1, FirstIs
<1>4. First(s, m) \in Seq(S) /\ Len(First(s, m)) = m /\ \A k \in 1 .. m : First(s, m)[k] = s[k]
  BY <1>2, FirstIs
<1>5. First(t, m) = First(s, m)
  BY <1>1, <1>3, <1>4, SameEntries
<1> QED BY <1>5 DEF t

\* All of a sequence, and the first part of two in a row.
LEMMA FirstAll ==
  ASSUME NEW S, NEW s \in Seq(S)
  PROVE  First(s, Len(s)) = s
<1>1. Len(s) \in 0 .. Len(s)
  OBVIOUS
<1> QED BY <1>1, FirstIs, SameEntries

LEMMA FirstConcat ==
  ASSUME NEW S, NEW s \in Seq(S), NEW t \in Seq(S)
  PROVE  /\ \A n \in 0 .. Len(s) : First(s \o t, n) = First(s, n)
         /\ \A n \in 0 .. Len(t) : First(s \o t, Len(s) + n) = s \o First(t, n)
<1>1. /\ s \o t \in Seq(S) /\ Len(s \o t) = Len(s) + Len(t)
      /\ \A k \in 1 .. Len(s) + Len(t) : (s \o t)[k] = IF k <= Len(s) THEN s[k] ELSE t[k - Len(s)]
  BY Concat
<1>2. ASSUME NEW n \in 0 .. Len(s)
      PROVE  First(s \o t, n) = First(s, n)
  <2>1. n \in 0 .. Len(s \o t)
    BY <1>1
  <2>2. /\ First(s \o t, n) \in Seq(S) /\ Len(First(s \o t, n)) = n
        /\ \A k \in 1 .. n : First(s \o t, n)[k] = (s \o t)[k]
    BY <1>1, <2>1, FirstIs
  <2>3. First(s, n) \in Seq(S) /\ Len(First(s, n)) = n /\ \A k \in 1 .. n : First(s, n)[k] = s[k]
    BY FirstIs
  <2>4. \A k \in 1 .. n : First(s \o t, n)[k] = First(s, n)[k]
    BY <1>1, <2>2, <2>3
  <2> QED BY <2>2, <2>3, <2>4, SameEntries
<1>3. ASSUME NEW n \in 0 .. Len(t)
      PROVE  First(s \o t, Len(s) + n) = s \o First(t, n)
  <2>1. Len(s) + n \in 0 .. Len(s \o t)
    BY <1>1
  <2>2. /\ First(s \o t, Len(s) + n) \in Seq(S) /\ Len(First(s \o t, Len(s) + n)) = Len(s) + n
        /\ \A k \in 1 .. Len(s) + n : First(s \o t, Len(s) + n)[k] = (s \o t)[k]
    BY <1>1, <2>1, FirstIs
  <2>3. First(t, n) \in Seq(S) /\ Len(First(t, n)) = n /\ \A k \in 1 .. n : First(t, n)[k] = t[k]
    BY FirstIs
  <2>4. /\ s \o First(t, n) \in Seq(S) /\ Len(s \o First(t, n)) = Len(s) + n
        /\ \A k \in 1 .. Len(s) + n :
             (s \o First(t, n))[k] = IF k <= Len(s) THEN s[k] ELSE First(t, n)[k - Len(s)]
    BY <2>3, Concat, ZenonT(60)
  <2>5. ASSUME NEW k \in 1 .. Len(s) + n
        PROVE  First(s \o t, Len(s) + n)[k] = (s \o First(t, n))[k]
    <3>1. First(s \o t, Len(s) + n)[k] = IF k <= Len(s) THEN s[k] ELSE t[k - Len(s)]
      BY <1>1, <2>2
    <3>2. k > Len(s) => k - Len(s) \in 1 .. n
      OBVIOUS
    <3> QED BY <2>3, <2>4, <3>1, <3>2
  <2> QED BY <2>2, <2>4, <2>5, SameEntries
<1> QED BY <1>2, <1>3

\* The last of two in a row that are not empty, and three in a row.
LEMMA ThreeInARow ==
  ASSUME NEW S, NEW s \in Seq(S), NEW t \in Seq(S), NEW u \in Seq(S)
  PROVE  (s \o t) \o u = s \o (t \o u)
<1>1. /\ s \o t \in Seq(S) /\ Len(s \o t) = Len(s) + Len(t)
      /\ \A k \in 1 .. Len(s) + Len(t) : (s \o t)[k] = IF k <= Len(s) THEN s[k] ELSE t[k - Len(s)]
  BY Concat
<1>2. /\ t \o u \in Seq(S) /\ Len(t \o u) = Len(t) + Len(u)
      /\ \A k \in 1 .. Len(t) + Len(u) : (t \o u)[k] = IF k <= Len(t) THEN t[k] ELSE u[k - Len(t)]
  BY Concat
<1>3. /\ (s \o t) \o u \in Seq(S) /\ Len((s \o t) \o u) = Len(s \o t) + Len(u)
      /\ \A k \in 1 .. Len(s \o t) + Len(u) :
           ((s \o t) \o u)[k] = IF k <= Len(s \o t) THEN (s \o t)[k] ELSE u[k - Len(s \o t)]
  BY <1>1, Concat
<1>4. /\ s \o (t \o u) \in Seq(S) /\ Len(s \o (t \o u)) = Len(s) + Len(t \o u)
      /\ \A k \in 1 .. Len(s) + Len(t \o u) :
           (s \o (t \o u))[k] = IF k <= Len(s) THEN s[k] ELSE (t \o u)[k - Len(s)]
  BY <1>2, Concat
<1> DEFINE L == (s \o t) \o u
           R == s \o (t \o u)
<1>5. Len(s) \in Nat /\ Len(t) \in Nat /\ Len(u) \in Nat
  OBVIOUS
<1>6. ASSUME NEW k \in 1 .. Len(s) + Len(t) + Len(u) PROVE L[k] = R[k]
  <2>1. CASE k <= Len(s)
    BY <1>1, <1>2, <1>3, <1>4, <1>5, <2>1
  <2>2. CASE k > Len(s) /\ k <= Len(s) + Len(t)
    <3>1. L[k] = t[k - Len(s)]
      BY <1>1, <1>3, <1>5, <2>2
    <3>2. R[k] = (t \o u)[k - Len(s)] /\ k - Len(s) \in 1 .. Len(t)
      BY <1>2, <1>4, <1>5, <2>2
    <3> QED BY <1>2, <1>5, <3>1, <3>2
  <2>3. CASE k > Len(s) + Len(t)
    <3>1. L[k] = u[k - (Len(s) + Len(t))]
      BY <1>1, <1>3, <1>5, <2>3
    <3>2. R[k] = (t \o u)[k - Len(s)] /\ k - Len(s) \in Len(t) + 1 .. Len(t) + Len(u)
      BY <1>2, <1>4, <1>5, <2>3
    <3>3. (t \o u)[k - Len(s)] = u[(k - Len(s)) - Len(t)]
      BY <1>2, <1>5, <3>2
    <3>4. (k - Len(s)) - Len(t) = k - (Len(s) + Len(t))
      BY <1>5
    <3> QED BY <3>1, <3>2, <3>3, <3>4
  <2> QED BY <1>5, <2>1, <2>2, <2>3
<1>7. Len(L) = Len(s) + Len(t) + Len(u) /\ Len(R) = Len(s) + Len(t) + Len(u)
  BY <1>1, <1>2, <1>3, <1>4, <1>5
<1>8. L \in Seq(S) /\ R \in Seq(S)
  BY <1>3, <1>4
<1> HIDE DEF L, R
<1>9. L = R
  BY <1>6, <1>7, <1>8, SameEntries
<1> QED BY <1>9 DEF L, R

-----------------------------------------------------------------------------
(* The rows that the drafter carries over *)

\* The greatest of some numbers, when there is one.
LEMMA ChosenGreatest ==
  ASSUME NEW n \in Nat, NEW S, \A x \in S : x \in 0 .. n, S # {}
  PROVE  \E k \in S : k = (CHOOSE x \in S : \A y \in S : y <= x) /\ \A j \in S : j <= k
<1> DEFINE T == {n - x : x \in S}
           R == OpToRel(<, Nat)
<1>1. IsWellFoundedOn(R, Nat)
  BY NatLessThanWellFounded
<1> HIDE DEF R
<1>2. T \subseteq Nat /\ T # {}
  OBVIOUS
<1>3. PICK y \in T : \A z \in T : <<z, y>> \notin R
  BY <1>1, <1>2, WFMin
<1>4. \A z \in T : ~(z < y)
  BY <1>2, <1>3 DEF R, OpToRel
<1>5. PICK m \in S : y = n - m
  BY <1>3
<1>6. \A j \in S : j <= m
  <2> TAKE j \in S
  <2>1. ~(n - j < n - m)
    BY <1>4, <1>5
  <2>2. j \in 0 .. n /\ m \in 0 .. n
    OBVIOUS
  <2> QED BY <2>1, <2>2
<1> QED BY <1>6

\* The newest row of a position is the last one in the ring, if there is any.
LEMMA NewestIs ==
  ASSUME NEW ring \in Seq(RowType), NEW p
  PROVE  \/ /\ Newest(ring, p) = None
            /\ \A k \in 1 .. Len(ring) : ring[k].pos # p
         \/ \E k \in 1 .. Len(ring) :
              /\ Newest(ring, p) = ring[k] /\ ring[k].pos = p
              /\ \A j \in 1 .. Len(ring) : ring[j].pos = p => j <= k
<1> DEFINE at == {k \in DOMAIN ring : ring[k].pos = p}
<1>0. DOMAIN ring = 1 .. Len(ring) /\ Len(ring) \in Nat
  OBVIOUS
<1>1. CASE at = {}
  BY <1>0, <1>1 DEF Newest
<1>2. CASE at # {}
  <2>1. \A x \in at : x \in 0 .. Len(ring)
    BY <1>0
  <2> HIDE DEF at
  <2>2. PICK k \in at : k = (CHOOSE x \in at : \A y \in at : y <= x) /\ \A j \in at : j <= k
    BY <1>0, <1>2, <2>1, ChosenGreatest
  <2> USE DEF at
  <2>3. Newest(ring, p) = ring[k]
    BY <1>2, <2>2 DEF Newest
  <2> QED BY <1>0, <2>2, <2>3
<1> QED BY <1>1, <1>2

LEMMA NewestType ==
  ASSUME NEW ring \in Seq(RowType), NEW p
  PROVE  Newest(ring, p) \in RowType
<1>1. None \in RowType
  BY DEF None, RowType, Zero
<1>2. \A k \in 1 .. Len(ring) : ring[k] \in RowType
  OBVIOUS
<1> QED BY <1>1, <1>2, NewestIs

\* A row that is true of some tokens is true of the first of them.
LEMMA TrueCut ==
  ASSUME NEW s \in Seq(Token), NEW n \in 0 .. Len(s), NEW r \in RowType, True(r, s)
  PROVE  True(r, First(s, n))
<1> SUFFICES ASSUME 0 <= r.pos, r.pos < Len(First(s, n)), r.h # Zero
             PROVE  r.h = First(First(s, n), r.pos + 1)
  BY DEF True
<1>1. Len(First(s, n)) = n /\ r.pos \in Int
  BY FirstIs DEF RowType
<1>2. r.pos < Len(s) /\ r.pos + 1 \in 0 .. n
  BY <1>1
<1>3. r.h = First(s, r.pos + 1)
  BY <1>2 DEF True
<1> QED BY <1>2, <1>3, FirstFirst

LEMMA CarriedCut ==
  ASSUME NEW m, NEW s \in Seq(Token), NEW n \in 0 .. Len(s), Carried(m, s)
  PROVE  Carried(m, First(s, n))
<1>1. m.pend \in RowType /\ m.prev \in RowType /\ m.ring \in Seq(RowType)
  BY DEF Carried
<1>2. True(m.pend, First(s, n)) /\ True(m.prev, First(s, n))
  BY <1>1, TrueCut DEF Carried
<1>3. ASSUME NEW p \in 0 .. Len(First(s, n)) - 1
      PROVE  True(Newest(m.ring, p), First(s, n))
  <2>1. p \in 0 .. Len(s) - 1
    BY FirstIs
  <2>2. True(Newest(m.ring, p), s) /\ Newest(m.ring, p) \in RowType
    BY <1>1, <2>1, NewestType DEF Carried
  <2> QED BY <2>2, TrueCut
<1> QED BY <1>1, <1>2, <1>3 DEF Carried

LEMMA NoneTrue ==
  ASSUME NEW s
  PROVE  None \in RowType /\ True(None, s) /\ None.pos = -1
  BY DEF None, RowType, True, Zero

\* Rows of tokens are pushed into the ring: it has true rows of the others, and
\* the oldest ones are forgotten.
LEMMA PushedTrue ==
  ASSUME NEW ring \in Seq(RowType), NEW s \in Seq(Token), NEW p0 \in Nat,
         NEW hs \in Seq(Seq(Token)), p0 + Len(hs) <= Len(s),
         \A k \in 1 .. Len(hs) : hs[k] = First(s, p0 + k),
         \A p \in 0 .. Len(s) - 1 :
           p < p0 \/ p >= p0 + Len(hs) => True(Newest(ring, p), s)
  PROVE  /\ Pushed(ring, p0, hs) \in Seq(RowType)
         /\ \A p \in 0 .. Len(s) - 1 : True(Newest(Pushed(ring, p0, hs), p), s)
<1> DEFINE new == [k \in DOMAIN hs |-> Row(p0 + k - 1, hs[k])]
           all == ring \o new
           a == IF Len(all) > RingN THEN Len(all) - RingN + 1 ELSE 1
           cut == SubSeq(all, a, Len(all))
<1>0. DOMAIN hs = 1 .. Len(hs) /\ Len(hs) \in Nat /\ Len(ring) \in Nat
  OBVIOUS
<1>1. /\ new \in Seq(RowType) /\ Len(new) = Len(hs)
      /\ \A k \in 1 .. Len(hs) : new[k] = Row(p0 + k - 1, hs[k])
  <2>1. \A k \in 1 .. Len(hs) : Row(p0 + k - 1, hs[k]) \in RowType
    BY DEF Row, RowType
  <2> QED BY <1>0, <2>1
<1> HIDE DEF new
<1>2. /\ all \in Seq(RowType) /\ Len(all) = Len(ring) + Len(hs)
      /\ \A k \in 1 .. Len(ring) + Len(hs) :
           all[k] = IF k <= Len(ring) THEN ring[k] ELSE new[k - Len(ring)]
  <2> DEFINE T == RowType
  <2>0. ring \in Seq(T) /\ new \in Seq(T)
    BY <1>1
  <2> HIDE DEF T
  <2>1. /\ ring \o new \in Seq(T) /\ Len(ring \o new) = Len(ring) + Len(new)
        /\ \A k \in 1 .. Len(ring) + Len(new) :
             (ring \o new)[k] = IF k <= Len(ring) THEN ring[k] ELSE new[k - Len(ring)]
    BY <2>0, Concat
  <2> USE DEF T
  <2> QED BY <1>1, <2>1
<1>3. Pushed(ring, p0, hs) = cut
  BY DEF Pushed, new
<1> HIDE DEF all
<1>4. a \in 1 .. Len(all) + 1 /\ Len(all) \in a - 1 .. Len(all) /\ Len(all) \in Nat
  <2>1. RingN \in Nat \ {0} /\ Len(all) \in Nat
    BY <1>2, RingAssumption
  <2> QED BY <2>1
<1> HIDE DEF a
<1>5. /\ cut \in Seq(RowType) /\ Len(cut) = Len(all) - a + 1
      /\ \A k \in 1 .. Len(all) - a + 1 : cut[k] = all[a + k - 1]
  BY <1>2, <1>4, Cut
<1> HIDE DEF cut
<1>6. ASSUME NEW p \in 0 .. Len(s) - 1
      PROVE  True(Newest(cut, p), s)
  <2>1. CASE Newest(cut, p) = None
    BY <2>1, NoneTrue
  <2>2. CASE Newest(cut, p) # None
    <3>1. PICK k \in 1 .. Len(cut) :
            /\ Newest(cut, p) = cut[k] /\ cut[k].pos = p
            /\ \A j \in 1 .. Len(cut) : cut[j].pos = p => j <= k
      BY <1>5, <2>2, NewestIs
    <3> DEFINE i == a + k - 1
    <3>2. i \in 1 .. Len(all) /\ cut[k] = all[i]
      BY <1>4, <1>5, <3>1
    <3>3. ASSUME NEW j \in 1 .. Len(all), all[j].pos = p, ~(j <= i)
          PROVE  FALSE
      <4>1. j - a + 1 \in 1 .. Len(cut) /\ cut[j - a + 1] = all[j] /\ j - a + 1 > k
        <5>1. i \in Int /\ a \in Int /\ k \in Int /\ Len(all) \in Int
          BY <1>4, <1>5
        <5>2. j > i
          BY <3>3, <5>1
        <5>3. j - a + 1 \in 1 .. Len(all) - a + 1 /\ a + (j - a + 1) - 1 = j /\ j - a + 1 > k
          BY <5>1, <5>2
        <5> QED BY <1>5, <5>3
      <4> QED BY <3>1, <3>3, <4>1, <1>5
    <3> HIDE DEF i
    <3>4. CASE i > Len(ring)
      <4> DEFINE l == i - Len(ring)
      <4>1. l \in 1 .. Len(hs) /\ all[i] = new[l]
        <5>1. i \in 1 .. Len(ring) + Len(hs)
          BY <1>2, <3>2
        <5> QED BY <1>0, <1>2, <3>4, <5>1
      <4>2. all[i] = Row(p0 + l - 1, hs[l])
        BY <1>1, <4>1
      <4>3. p = p0 + l - 1 /\ all[i].h = First(s, p0 + l)
        BY <3>1, <3>2, <4>1, <4>2 DEF Row
      <4>4. p0 + l = p + 1
        BY <4>1, <4>3
      <4> QED BY <3>1, <3>2, <4>3, <4>4 DEF True
    <3>5. CASE i <= Len(ring)
      <4>1. all[i] = ring[i] /\ i \in 1 .. Len(ring)
        BY <1>2, <3>2, <3>5
      <4>2. p < p0 \/ p >= p0 + Len(hs)
        <5> SUFFICES ASSUME p >= p0, p < p0 + Len(hs) PROVE FALSE
          OBVIOUS
        <5> DEFINE l == p - p0 + 1
        <5>1. l \in 1 .. Len(hs) /\ p0 + l - 1 = p
          BY <1>0
        <5> HIDE DEF l
        <5>5. Len(ring) + l \in 1 .. Len(ring) + Len(hs) /\ ~(Len(ring) + l <= Len(ring))
              /\ (Len(ring) + l) - Len(ring) = l
          BY <1>0, <5>1
        <5>2. all[Len(ring) + l] = new[l]
          BY <1>2, <5>5
        <5>3. all[Len(ring) + l].pos = p
          <6>1. new[l] = Row(p0 + l - 1, hs[l])
            BY <1>1, <5>1
          <6>2. Row(p0 + l - 1, hs[l]).pos = p0 + l - 1
            BY DEF Row
          <6> QED BY <5>1, <5>2, <6>1, <6>2
        <5>4. Len(ring) + l <= i
          BY <1>2, <3>3, <5>5, <5>3
        <5> QED BY <3>5, <5>1, <5>4, <1>0, <3>2
      <4>3. True(Newest(ring, p), s)
        BY <4>2
      <4>4. ASSUME NEW j \in 1 .. Len(ring), ring[j].pos = p
            PROVE  j <= i
        <5>1. j \in 1 .. Len(ring) + Len(hs) /\ j <= Len(ring)
          BY <1>0
        <5>2. all[j] = ring[j] /\ j \in 1 .. Len(all)
          BY <1>2, <5>1
        <5> QED BY <3>3, <4>4, <5>2
      <4>7. ring[i].pos = p
        BY <4>1, <3>1, <3>2
      <4>5. PICK j \in 1 .. Len(ring) :
              /\ Newest(ring, p) = ring[j] /\ ring[j].pos = p
              /\ \A l \in 1 .. Len(ring) : ring[l].pos = p => l <= j
        BY <4>1, <4>7, NewestIs
      <4>6. j = i
        BY <4>1, <4>4, <4>5, <3>1, <3>2
      <4> QED BY <3>1, <3>2, <4>1, <4>3, <4>5, <4>6
    <3> QED BY <1>0, <3>2, <3>4, <3>5
  <2> QED BY <2>1, <2>2
<1> QED BY <1>3, <1>5, <1>6

\* A true row of a position that was there stays true when tokens are added.
LEMMA TrueLonger ==
  ASSUME NEW s \in Seq(Token), NEW t \in Seq(Token), NEW r \in RowType, True(r, s),
         r.pos < Len(s)
  PROVE  True(r, s \o t)
<1> SUFFICES ASSUME 0 <= r.pos, r.h # Zero
             PROVE  r.h = First(s \o t, r.pos + 1)
  BY DEF True
<1>1. r.pos + 1 \in 0 .. Len(s)
  BY DEF RowType
<1>2. r.h = First(s, r.pos + 1)
  BY DEF True
<1> QED BY <1>1, <1>2, FirstConcat

\* The row of the last of p tokens.
LEMMA RowTrue ==
  ASSUME NEW s \in Seq(Token), NEW p \in 1 .. Len(s)
  PROVE  /\ Row(p - 1, First(s, p)) \in RowType /\ True(Row(p - 1, First(s, p)), s)
         /\ Row(p - 1, Zero) \in RowType /\ True(Row(p - 1, Zero), s)
<1>1. First(s, p) \in Seq(Token) /\ Zero \in Seq(Token)
  BY FirstIs DEF Zero
<1>2. (p - 1) + 1 = p
  OBVIOUS
<1> QED BY <1>1, <1>2 DEF Row, RowType, True

\* process(): after a batch the drafter has the rows of its tokens.
LEMMA ObservedTrue ==
  ASSUME NEW m \in MtpType, NEW s \in Seq(Token), NEW ts \in Seq(Token), ts # <<>>,
         Carried(m, s), NEW hs, hs = [k \in DOMAIN ts |-> s \o First(ts, k)]
  PROVE  LET o == Observed(m, Len(s), hs)
         IN  o \in MtpType /\ Carried(o, s \o ts) /\ True(o.bound, s \o ts) /\ RowsOf(o, s \o ts)
<1> DEFINE u == s \o ts
           n == Len(hs)
           p == Len(s)
           bound == IF p > 0 THEN Boundary(m, p) ELSE None
           o == Observed(m, p, hs)
<1>1. u \in Seq(Token) /\ Len(u) = Len(s) + Len(ts) /\ Len(s) \in Nat /\ Len(ts) \in Nat \ {0}
  BY Concat, NotEmpty
<1>2. \A k \in 1 .. Len(ts) : s \o First(ts, k) = First(u, Len(s) + k)
  BY FirstConcat
<1>3. ASSUME NEW k \in 1 .. Len(ts)
      PROVE  First(u, Len(s) + k) \in Seq(Token)
  <2>1. Len(s) + k \in 0 .. Len(u)
    BY <1>1
  <2> HIDE DEF u
  <2> QED BY <1>1, <2>1, FirstIs
<1>4. /\ hs \in Seq(Seq(Token)) /\ Len(hs) = Len(ts)
      /\ \A k \in 1 .. Len(hs) : hs[k] = First(u, p + k)
  <2>1. DOMAIN ts = 1 .. Len(ts)
    OBVIOUS
  <2>2. \A k \in 1 .. Len(ts) : hs[k] = First(u, Len(s) + k)
    BY <1>2, <2>1
  <2>3. hs \in [1 .. Len(ts) -> Seq(Token)]
    BY <1>2, <1>3, <2>1
  <2>4. hs \in Seq(Seq(Token)) /\ Len(hs) = Len(ts)
    BY <2>3, <1>1
  <2> QED BY <2>2, <2>4
<1> HIDE DEF u
<1>5. m.pend \in RowType /\ m.prev \in RowType /\ m.ring \in Seq(RowType) /\ m.drafted \in Nat
  BY DEF MtpType
<1>6. \A r : r \in RowType /\ True(r, s) /\ r.pos < Len(s) => True(r, u)
  BY TrueLonger DEF u
<1>7. bound \in RowType /\ True(bound, u)
  <2>1. CASE p = 0
    BY <2>1, NoneTrue
  <2>2. CASE p > 0
    <3>1. p \in 1 .. Len(u) /\ p - 1 < Len(s)
      BY <1>1, <2>2
    <3>2. Row(p - 1, Zero) \in RowType /\ True(Row(p - 1, Zero), u)
      BY <1>1, <3>1, RowTrue
    <3>3. True(m.pend, s) /\ True(m.prev, s)
      BY DEF Carried
    <3> HIDE DEF p
    <3> QED BY <2>2, <3>1, <3>2, <3>3, <1>5, <1>6 DEF Boundary, p
  <2> QED BY <1>1, <2>1, <2>2
<1> HIDE DEF bound
<1>8. \A k \in 1 .. n : Row(p + k - 1, hs[k]) \in RowType /\ True(Row(p + k - 1, hs[k]), u)
  <2> TAKE k \in 1 .. n
  <2>1. hs[k] = First(u, p + k)
    BY <1>4
  <2>2. k \in 1 .. Len(ts)
    BY <1>4
  <2>3. p + k \in 1 .. Len(u)
    BY <1>1, <2>2
  <2> QED BY <1>1, <2>1, <2>3, RowTrue
<1>9. /\ Pushed(m.ring, p, hs) \in Seq(RowType)
      /\ \A q \in 0 .. Len(u) - 1 : True(Newest(Pushed(m.ring, p, hs), q), u)
  <2>1. ASSUME NEW q \in 0 .. Len(u) - 1, q < p \/ q >= p + Len(hs)
        PROVE  True(Newest(m.ring, q), u)
    <3>1. q \in 0 .. Len(s) - 1
      BY <1>1, <1>4, <2>1
    <3>2. True(Newest(m.ring, q), s) /\ Newest(m.ring, q) \in RowType
      BY <3>1, <1>5, NewestType DEF Carried
    <3>3. Newest(m.ring, q) = None \/ Newest(m.ring, q).pos = q
      BY <1>5, NewestIs
    <3> QED BY <3>1, <3>2, <3>3, <1>6, NoneTrue
  <2>2. p \in Nat /\ p + Len(hs) <= Len(u)
    BY <1>1, <1>4
  <2> QED BY <1>1, <1>4, <1>5, <2>1, <2>2, PushedTrue
<1>10. n \in 1 .. n /\ (n > 1 => n - 1 \in 1 .. n /\ p + (n - 1) - 1 = p + n - 2)
  BY <1>1, <1>4
<1>11. /\ o.pend = Row(p + n - 1, hs[n])
       /\ o.prev = IF n > 1 THEN Row(p + n - 2, hs[n - 1]) ELSE bound
       /\ o.bound = bound /\ o.first = (IF m.drafted > 0 THEN p ELSE -1)
       /\ o.rows = (IF m.drafted > 0 THEN hs ELSE <<>>)
       /\ o.drafted = m.drafted /\ o.ring = Pushed(m.ring, p, hs)
  BY DEF Observed, bound
<1>12. o = [pend |-> o.pend, prev |-> o.prev, bound |-> o.bound, first |-> o.first,
            rows |-> o.rows, drafted |-> o.drafted, ring |-> o.ring]
  BY DEF Observed
<1> HIDE DEF o
<1>13. /\ o.pend \in RowType /\ True(o.pend, u) /\ o.prev \in RowType /\ True(o.prev, u)
       /\ o.bound \in RowType /\ True(o.bound, u)
  BY <1>7, <1>8, <1>10, <1>11
<1>14. o.first \in Int /\ o.rows \in Seq(Seq(Token)) /\ o.ring \in Seq(RowType)
  BY <1>1, <1>4, <1>9, <1>11
<1>15. o \in MtpType
  BY <1>5, <1>11, <1>12, <1>13, <1>14 DEF MtpType
<1>16. Carried(o, u)
  BY <1>9, <1>11, <1>13, <1>14 DEF Carried
<1>17. RowsOf(o, u)
  <2>1. CASE m.drafted > 0
    <3>1. o.rows = hs /\ o.first = p
      BY <1>11, <2>1
    <3>2. p >= 0 /\ p + Len(hs) = Len(u)
      <4>1. Len(hs) = Len(ts)
        BY <1>4
      <4>2. Len(u) = p + Len(ts) /\ p >= 0
        BY <1>1
      <4> QED BY <4>1, <4>2
    <3> QED BY <1>4, <3>1, <3>2 DEF RowsOf
  <2>2. CASE ~(m.drafted > 0)
    BY <1>11, <2>2 DEF RowsOf
  <2> QED BY <2>1, <2>2
<1> QED BY <1>13, <1>15, <1>16, <1>17 DEF o, u

\* accept(): whichever row becomes the boundary is true of what was decoded.
LEMMA AcceptedTrue ==
  ASSUME NEW m \in MtpType, NEW s \in Seq(Token), Carried(m, s), True(m.bound, s), RowsOf(m, s),
         NEW n \in Nat
  PROVE  Accepted(m, n) \in MtpType /\ Carried(Accepted(m, n), s)
<1>0. /\ m.pend \in RowType /\ m.prev \in RowType /\ m.ring \in Seq(RowType)
      /\ m.bound \in RowType /\ m.first \in Int /\ m.rows \in Seq(Seq(Token))
  BY DEF MtpType
<1>1. CASE m.rows = <<>>
  <2>1. Accepted(m, n) = [m EXCEPT !.drafted = 0]
    BY <1>1 DEF Accepted
  <2> DEFINE a == [m EXCEPT !.drafted = 0]
  <2>2. a \in MtpType /\ a.pend = m.pend /\ a.prev = m.prev /\ a.ring = m.ring
    BY DEF MtpType
  <2> HIDE DEF a
  <2>3. Carried(a, s)
    BY <2>2 DEF Carried
  <2> QED BY <2>1, <2>2, <2>3 DEF a
<1>2. CASE m.rows # <<>>
  <2> DEFINE i == IF n < Len(m.rows) THEN n ELSE Len(m.rows) - 1
             a == Accepted(m, n)
             prev == IF i = 0 THEN m.bound ELSE Row(m.first + i - 1, m.rows[i])
  <2>1. Len(m.rows) \in Nat \ {0}
    BY <1>0, <1>2, NotEmpty
  <2>2. i \in 0 .. Len(m.rows) - 1
    BY <2>1
  <2>3. a = [m EXCEPT !.drafted = 0, !.ring = Pushed(@, m.first, m.rows),
                      !.pend = Row(m.first + i, m.rows[i + 1]), !.prev = prev]
    BY <1>2 DEF Accepted
  <2> HIDE DEF i, a
  <2>4. /\ m.first \in Nat /\ m.first + Len(m.rows) = Len(s)
        /\ \A k \in 1 .. Len(m.rows) : m.rows[k] = First(s, m.first + k)
    BY <1>0, <1>2 DEF RowsOf
  <2>5. ASSUME NEW k \in 1 .. Len(m.rows)
        PROVE  Row(m.first + k - 1, m.rows[k]) \in RowType /\ True(Row(m.first + k - 1, m.rows[k]), s)
    <3>1. m.first + k \in 1 .. Len(s)
      BY <2>4
    <3> QED BY <2>4, <3>1, RowTrue
  <2>6. Row(m.first + i, m.rows[i + 1]) \in RowType /\ True(Row(m.first + i, m.rows[i + 1]), s)
    <3>1. i + 1 \in 1 .. Len(m.rows) /\ m.first + (i + 1) - 1 = m.first + i
      BY <2>1, <2>2, <2>4
    <3> QED BY <2>5, <3>1
  <2>7. prev \in RowType /\ True(prev, s)
    <3>1. i # 0 => i \in 1 .. Len(m.rows)
      BY <2>1, <2>2
    <3> QED BY <1>0, <2>5, <3>1
  <2> HIDE DEF prev
  <2>8. /\ Pushed(m.ring, m.first, m.rows) \in Seq(RowType)
        /\ \A p \in 0 .. Len(s) - 1 : True(Newest(Pushed(m.ring, m.first, m.rows), p), s)
    <3>1. \A p \in 0 .. Len(s) - 1 : True(Newest(m.ring, p), s)
      BY DEF Carried
    <3>2. m.first + Len(m.rows) <= Len(s)
      BY <2>4
    <3> QED BY <1>0, <2>4, <3>1, <3>2, PushedTrue
  <2>9. /\ a.pend = Row(m.first + i, m.rows[i + 1]) /\ a.prev = prev
        /\ a.ring = Pushed(m.ring, m.first, m.rows) /\ a \in MtpType
    BY <2>3, <2>6, <2>7, <2>8 DEF MtpType
  <2>10. Carried(a, s)
    BY <2>6, <2>7, <2>8, <2>9 DEF Carried
  <2> QED BY <2>9, <2>10 DEF a
<1> QED BY <1>1, <1>2

\* A new drafter knows nothing.
LEMMA ResetTrue ==
  ASSUME NEW s \in Seq(Token)
  PROVE  Reset \in MtpType /\ Carried(Reset, s)
<1>1. /\ Reset.pend = None /\ Reset.prev = None /\ Reset.ring = <<>>
      /\ Reset \in MtpType
  BY NoneTrue DEF Reset, MtpType
<1>2. \A p : Newest(<<>>, p) = None
  BY DEF Newest
<1>3. <<>> \in Seq(RowType)
  OBVIOUS
<1> QED BY <1>1, <1>2, <1>3, NoneTrue DEF Carried

\* rollback_state(): the rows of later positions are dropped.
LEMMA RolledBackTrue ==
  ASSUME NEW m \in MtpType, NEW s \in Seq(Token), Carried(m, s), NEW p \in Int,
         CanRollBack(m, p)
  PROVE  RolledBack(m, p) \in MtpType
         /\ (p < Len(s) => Carried(RolledBack(m, p), s))
<1> DEFINE o == RolledBack(m, p)
           ring == [k \in DOMAIN m.ring |-> IF m.ring[k].pos > p THEN None ELSE m.ring[k]]
           prev == IF p >= 1 THEN Newest(m.ring, p - 1) ELSE None
<1>0. m.ring \in Seq(RowType) /\ DOMAIN m.ring = 1 .. Len(m.ring) /\ Len(m.ring) \in Nat
  BY DEF MtpType
<1>1. /\ Newest(m.ring, p) \in RowType /\ prev \in RowType
  BY <1>0, NewestType, NoneTrue
<1>2. /\ ring \in Seq(RowType) /\ Len(ring) = Len(m.ring)
      /\ \A k \in 1 .. Len(m.ring) : ring[k] = IF m.ring[k].pos > p THEN None ELSE m.ring[k]
  <2>1. \A k \in 1 .. Len(m.ring) : m.ring[k] \in RowType
    BY <1>0
  <2>2. ring \in [1 .. Len(m.ring) -> RowType]
    BY <1>0, <2>1, NoneTrue
  <2>3. ring \in Seq(RowType) /\ Len(ring) = Len(m.ring)
    BY <1>0, <2>2
  <2> QED BY <1>0, <2>3
<1> HIDE DEF ring, prev
<1>3. /\ o.pend = Newest(m.ring, p) /\ o.prev = prev /\ o.ring = ring /\ o \in MtpType
  <2>1. o = [Reset EXCEPT !.pend = Newest(m.ring, p), !.prev = prev, !.ring = ring]
    BY DEF RolledBack, prev, ring
  <2> HIDE DEF o
  <2>2. <<>> \in Seq(RowType) /\ Reset \in MtpType
    BY ResetTrue DEF Zero
  <2> QED BY <1>1, <1>2, <2>1, <2>2 DEF MtpType
<1> HIDE DEF o
<1>4. ASSUME p < Len(s) PROVE Carried(o, s)
  <2>0. p >= 0
    BY DEF CanRollBack
  <2>1. \A q \in 0 .. Len(s) - 1 : True(Newest(m.ring, q), s)
    BY DEF Carried
  <2>2. True(Newest(m.ring, p), s) /\ True(prev, s)
    <3>1. p \in 0 .. Len(s) - 1 /\ (p >= 1 => p - 1 \in 0 .. Len(s) - 1)
      BY <1>4, <2>0
    <3> QED BY <2>1, <3>1, NoneTrue DEF prev
  <2>3. ASSUME NEW q \in 0 .. Len(s) - 1
        PROVE  True(Newest(ring, q), s)
    <3>1. CASE Newest(ring, q) = None
      BY <3>1, NoneTrue
    <3>2. CASE Newest(ring, q) # None
      <4>1. PICK k \in 1 .. Len(ring) :
              /\ Newest(ring, q) = ring[k] /\ ring[k].pos = q
              /\ \A j \in 1 .. Len(ring) : ring[j].pos = q => j <= k
        BY <1>2, <3>2, NewestIs
      <4>2. ring[k] = m.ring[k] /\ q <= p
        <5>1. m.ring[k] \in RowType
          BY <1>0, <1>2
        <5> QED BY <1>2, <4>1, <3>2, <5>1 DEF RowType
      <4>3. PICK i \in 1 .. Len(m.ring) :
              /\ Newest(m.ring, q) = m.ring[i] /\ m.ring[i].pos = q
              /\ \A j \in 1 .. Len(m.ring) : m.ring[j].pos = q => j <= i
        <5>1. k \in 1 .. Len(m.ring) /\ m.ring[k].pos = q
          BY <1>2, <4>1, <4>2
        <5> QED BY <1>0, <5>1, NewestIs
      <4>4. ring[i] = m.ring[i]
        BY <1>2, <4>2, <4>3
      <4>5. i = k
        BY <1>2, <4>1, <4>2, <4>3, <4>4
      <4> QED BY <2>1, <4>1, <4>3, <4>4, <4>5
    <3> QED BY <3>1, <3>2
  <2> QED BY <1>1, <1>2, <1>3, <2>2, <2>3 DEF Carried
<1> QED BY <1>3, <1>4 DEF o

\* get_state(): what is saved is as true as what is carried.
LEMMA SavedTrue ==
  ASSUME NEW m \in MtpType, NEW s \in Seq(Token), Carried(m, s)
  PROVE  CarriedBack(Saved(m), s) /\ Saved(m) \in Seq(SavedType)
<1> DEFINE I == {k \in DOMAIN m.ring : m.ring[k] # None}
           ring == Picked(m.ring, I)
           o == [pend |-> m.pend, prev |-> m.prev, ring |-> ring]
<1>0. m.ring \in Seq(RowType) /\ DOMAIN m.ring = 1 .. Len(m.ring) /\ Len(m.ring) \in Nat
  BY DEF MtpType
<1>1. (\A x \in I : x \in Int) /\ IsFiniteSet(I) /\ Cardinality(I) \in Nat
  <2>1. IsFiniteSet(1 .. Len(m.ring))
    BY <1>0, FS_Interval
  <2>2. I \subseteq 1 .. Len(m.ring)
    BY <1>0
  <2> QED BY <2>1, <2>2, FS_Subset, FS_CardinalityType
<1>2. \A i \in I : i \in 1 .. Len(m.ring) /\ m.ring[i] # None
  BY <1>0
<1>3. \A i \in 1 .. Len(m.ring) : m.ring[i].pos >= 0 => i \in I
  BY <1>0, NoneTrue
<1> HIDE DEF I
<1>4. \A k \in 1 .. Cardinality(I) : Nth(I, k) \in I
  BY <1>1, NthPlace
<1>5. /\ ring \in Seq(RowType) /\ Len(ring) = Cardinality(I)
      /\ \A k \in 1 .. Cardinality(I) : ring[k] = m.ring[Nth(I, k)]
  <2>1. ring = [k \in 1 .. Cardinality(I) |-> m.ring[Nth(I, k)]]
    BY DEF Picked
  <2>2. \A k \in 1 .. Cardinality(I) : m.ring[Nth(I, k)] \in RowType
    BY <1>0, <1>2, <1>4
  <2> HIDE DEF ring
  <2>3. ring \in [1 .. Cardinality(I) -> RowType]
    BY <2>1, <2>2
  <2>4. ring \in Seq(RowType) /\ Len(ring) = Cardinality(I)
    BY <1>1, <2>3
  <2> QED BY <2>1, <2>4
<1> HIDE DEF ring
<1>6. ASSUME NEW q \in 0 .. Len(s) - 1
      PROVE  True(Newest(ring, q), s)
  <2>1. CASE Newest(ring, q) = None
    BY <2>1, NoneTrue
  <2>2. CASE Newest(ring, q) # None
    <3>1. PICK k \in 1 .. Len(ring) :
            /\ Newest(ring, q) = ring[k] /\ ring[k].pos = q
            /\ \A j \in 1 .. Len(ring) : ring[j].pos = q => j <= k
      BY <1>5, <2>2, NewestIs
    <3> DEFINE i == Nth(I, k)
    <3>2. i \in I /\ i \in 1 .. Len(m.ring) /\ ring[k] = m.ring[i]
      BY <1>2, <1>4, <1>5, <3>1
    <3>3. PICK l \in 1 .. Len(m.ring) :
            /\ Newest(m.ring, q) = m.ring[l] /\ m.ring[l].pos = q
            /\ \A j \in 1 .. Len(m.ring) : m.ring[j].pos = q => j <= l
      <4>1. m.ring[i].pos = q
        BY <3>1, <3>2
      <4> HIDE DEF i
      <4> QED BY <1>0, <3>2, <4>1, NewestIs
    <3>4. l \in I
      BY <1>3, <3>3
    <3>5. PICK j \in 1 .. Cardinality(I) : Nth(I, j) = l
      BY <1>1, <3>4, NthOnto
    <3>6. j <= k
      BY <1>5, <3>1, <3>3, <3>5
    <3>7. ~(j < k)
      <4>1. SUFFICES ASSUME j < k PROVE FALSE
        OBVIOUS
      <4>2. k \in 1 .. Cardinality(I)
        BY <1>5
      <4>3. Nth(I, j) < Nth(I, k)
        BY <1>1, <4>1, <4>2, NthAscends
      <4>4. i <= l
        BY <3>1, <3>2, <3>3
      <4>5. i \in Int /\ l \in Int
        BY <3>2
      <4> QED BY <3>5, <4>3, <4>4, <4>5
    <3>8. j = k
      BY <1>1, <1>5, <3>6, <3>7
    <3>9. i = l
      BY <3>5, <3>8
    <3>10. True(Newest(m.ring, q), s)
      BY DEF Carried
    <3> QED BY <3>1, <3>2, <3>3, <3>9, <3>10
  <2> QED BY <2>1, <2>2
<1>7. Carried(o, s)
  BY <1>5, <1>6 DEF Carried
<1>8. Saved(m) = NoState \/ Saved(m) = <<o>>
  BY DEF Saved, ring, I
<1>9. o \in SavedType
  BY <1>0, <1>5 DEF MtpType, SavedType
<1> HIDE DEF o
<1>10. <<o>>[1] = o /\ <<o>> \in Seq(SavedType) /\ <<>> \in Seq(SavedType)
  BY <1>9
<1>11. CASE Saved(m) = NoState
  BY <1>10, <1>11 DEF CarriedBack, NoState
<1>12. CASE Saved(m) = <<o>>
  <2>1. Saved(m)[1] = o
    BY <1>10, <1>12
  <2> QED BY <1>7, <1>10, <1>12, <2>1 DEF CarriedBack
<1> QED BY <1>8, <1>11, <1>12

\* set_state(): and so is what is restored.
LEMMA RestoredTrue ==
  ASSUME NEW spec, NEW s \in Seq(Token), CarriedBack(spec, s)
  PROVE  Restored(spec) \in MtpType /\ Carried(Restored(spec), s)
<1>1. CASE spec = NoState
  BY <1>1, ResetTrue DEF Restored
<1>2. CASE spec # NoState
  <2> DEFINE o == Restored(spec)
  <2>1. Carried(spec[1], s)
    BY <1>2 DEF CarriedBack
  <2>2. o = [Reset EXCEPT !.pend = spec[1].pend, !.prev = spec[1].prev, !.ring = spec[1].ring]
    BY <1>2 DEF Restored
  <2> HIDE DEF o
  <2>3. Reset \in MtpType
    BY ResetTrue
  <2>4. o \in MtpType /\ o.pend = spec[1].pend /\ o.prev = spec[1].prev /\ o.ring = spec[1].ring
    BY <2>1, <2>2, <2>3 DEF MtpType, Carried
  <2>5. Carried(o, s)
    BY <2>1, <2>4 DEF Carried
  <2> QED BY <2>4, <2>5 DEF o
<1> QED BY <1>1, <1>2

-----------------------------------------------------------------------------
(* The memory of the target *)

LEMMA KindIs ==
  ASSUME kind \in Kinds
  PROVE  /\ kind.n_rs \in Nat /\ kind.rm \in {"part", "full", "rs"}
         /\ kind.rm = "rs" <=> kind.n_rs > 0
  BY KindAssumption

LEMMA MinOfIs ==
  ASSUME NEW a \in Int, NEW b \in Int
  PROVE  /\ MinOf(a, b) \in Int /\ MinOf(a, b) <= a /\ MinOf(a, b) <= b
         /\ MinOf(a, b) = a \/ MinOf(a, b) = b
         /\ a <= b => MinOf(a, b) = a
         /\ b <= a => MinOf(a, b) = b
  BY DEF MinOf

LEMMA MemIs ==
  ASSUME kind \in Kinds, NEW m \in MemType
  PROVE  /\ m.kv \in Seq(Token) /\ m.pos \in Int /\ m.idx \in 0 .. kind.n_rs
         /\ m.rows \in [0 .. kind.n_rs -> Seq(Token)]
         /\ m = [kv |-> m.kv, pos |-> m.pos, idx |-> m.idx, rows |-> m.rows]
         /\ RecState(m) \in Seq(Token)
<1>1. /\ m.kv \in Seq(Token) /\ m.pos \in Int /\ m.idx \in 0 .. kind.n_rs
      /\ m.rows \in [0 .. kind.n_rs -> Seq(Token)]
      /\ m = [kv |-> m.kv, pos |-> m.pos, idx |-> m.idx, rows |-> m.rows]
  BY DEF MemType
<1>2. RecState(m) \in Seq(Token)
  <2>1. m.rows[m.idx] \in Seq(Token)
    BY <1>1
  <2>2. <<>> \in Seq(Token)
    OBVIOUS
  <2> QED BY <2>1, <2>2 DEF RecState
<1> QED BY <1>1, <1>2

LEMMA EmptyHolds ==
  ASSUME kind \in Kinds
  PROVE  Holds(EmptyMem, <<>>)
<1>1. EmptyMem \in MemType
  <2>1. <<>> \in Seq(Token) /\ -1 \in Int /\ 0 \in 0 .. kind.n_rs
    BY KindIs
  <2>2. [g \in 0 .. kind.n_rs |-> <<>>] \in [0 .. kind.n_rs -> Seq(Token)]
    BY <2>1
  <2> QED BY <2>1, <2>2 DEF EmptyMem, MemType
<1>2. EmptyMem.kv = <<>> /\ EmptyMem.pos = -1
  BY DEF EmptyMem
<1>3. RecState(EmptyMem) = <<>>
  BY <1>2 DEF RecState
<1> QED BY <1>1, <1>2, <1>3 DEF Holds, Settled

\* m can go on after s, which its attention cache begins with
Ready(m, s) ==
  /\ m \in MemType /\ Begins(s, m.kv)
  /\ Recurrent => m.pos = Len(s) - 1 /\ RecState(m) = s

LEMMA HoldsReady ==
  ASSUME NEW m, NEW s \in Seq(Token), Holds(m, s)
  PROVE  Ready(m, s)
  BY DEF Holds, Ready, Settled, Begins

\* Nothing is taken from the recurrent state that stands at the end of s.
LEMMA RemovedReady ==
  ASSUME kind \in Kinds, NEW m, NEW s \in Seq(Token), s # <<>>, Ready(m, s)
  PROVE  CanRemove(m, Len(s)) /\ Holds(Removed(m, Len(s)), s)
<1> DEFINE o == [m EXCEPT !.kv = First(@, MinOf(Len(s), Len(@)))]
<1>0. Len(s) \in Nat \ {0}
  BY NotEmpty
<1>1. m \in MemType /\ m.kv \in Seq(Token) /\ Begins(s, m.kv)
  BY MemIs DEF Ready
<1>2. ~Recurrent \/ Len(s) > m.pos
  BY <1>0 DEF Ready
<1>3. MinOf(Len(s), Len(m.kv)) = Len(s)
  BY <1>0, <1>1, MinOfIs DEF Begins
<1>4. First(m.kv, Len(s)) = s
  BY <1>1, BeginsIs
<1>5. o = [m EXCEPT !.kv = s]
  BY <1>3, <1>4
<1>6. Removed(m, Len(s)) = o
  BY <1>0, <1>2 DEF Removed
<1> HIDE DEF o
<1>7. /\ o \in MemType /\ o.kv = s /\ o.pos = m.pos /\ o.idx = m.idx /\ o.rows = m.rows
  BY <1>1, <1>5 DEF MemType
<1>8. RecState(o) = RecState(m)
  BY <1>7 DEF RecState
<1>9. Holds(o, s)
  BY <1>7, <1>8 DEF Holds, Settled, Ready
<1> QED BY <1>0, <1>2, <1>6, <1>9 DEF CanRemove

LEMMA RemovedAll ==
  ASSUME kind \in Kinds, NEW m
  PROVE  CanRemove(m, 0) /\ Holds(Removed(m, 0), <<>>)
  BY EmptyHolds DEF CanRemove, Removed

\* Some tokens are taken from the end, and the snapshot of what is left is there.
LEMMA RemovedBack ==
  ASSUME kind \in Kinds, NEW m, NEW t \in Seq(Token), Holds(m, t),
         NEW n \in 1 .. Len(t) - 1,
         Recurrent => Len(t) - n <= kind.n_rs /\ m.rows[Len(t) - n] = First(t, n)
  PROVE  CanRemove(m, n) /\ Holds(Removed(m, n), First(t, n))
<1>0. Len(t) \in Nat /\ n \in 0 .. Len(t) /\ n # 0 /\ n \in Nat
  OBVIOUS
<1>1. m \in MemType /\ m.kv = t
  BY DEF Holds
<1>2. MinOf(n, Len(t)) = n
  BY <1>0, MinOfIs
<1>3. /\ First(t, n) \in Seq(Token) /\ Len(First(t, n)) = n
  BY <1>0, FirstIs
<1>4. CASE ~Recurrent
  <2> DEFINE o == [m EXCEPT !.kv = First(@, MinOf(n, Len(@)))]
  <2>1. o = [m EXCEPT !.kv = First(t, n)]
    BY <1>1, <1>2
  <2>2. Removed(m, n) = o
    BY <1>0, <1>4 DEF Removed
  <2> HIDE DEF o
  <2>3. o \in MemType /\ o.kv = First(t, n)
    BY <1>1, <1>3, <2>1 DEF MemType
  <2> QED BY <1>4, <2>2, <2>3 DEF Holds, Settled, CanRemove
<1>5. CASE Recurrent
  <2> DEFINE o == [m EXCEPT !.kv = First(@, MinOf(n, Len(@))), !.pos = n - 1,
                            !.idx = m.pos - (n - 1)]
  <2>1. m.pos = Len(t) - 1
    BY <1>1, <1>5 DEF Holds, Settled
  <2>2. m.pos - (n - 1) = Len(t) - n /\ ~(n > m.pos) /\ Len(t) - n \in 0 .. kind.n_rs
    BY <1>0, <1>5, <2>1, KindIs
  <2>3. o = [m EXCEPT !.kv = First(t, n), !.pos = n - 1, !.idx = Len(t) - n]
    BY <1>1, <1>2, <2>2
  <2>4. Removed(m, n) = o
    BY <1>0, <1>5, <2>2 DEF Removed
  <2> HIDE DEF o
  <2>5. /\ o \in MemType /\ o.kv = First(t, n) /\ o.pos = n - 1
        /\ o.idx = Len(t) - n /\ o.rows = m.rows
    <3>1. n - 1 \in Int
      BY <1>0
    <3> HIDE DEF First
    <3> QED BY <1>1, <1>3, <2>2, <2>3, <3>1 DEF MemType
  <2>6. RecState(o) = First(t, n)
    BY <1>0, <1>5, <2>5 DEF RecState
  <2>7. CanRemove(m, n)
    BY <1>5, <2>2 DEF CanRemove
  <2> QED BY <1>3, <2>4, <2>5, <2>6, <2>7 DEF Holds, Settled
<1> QED BY <1>4, <1>5

\* A checkpoint of s is loaded into a memory that begins with s.
LEMMA LoadedReady ==
  ASSUME kind \in Kinds, Recurrent, NEW m \in MemType, NEW s \in Seq(Token), s # <<>>,
         Begins(s, m.kv), NEW data, data = <<[pos |-> Len(s) - 1, row |-> s]>>
  PROVE  Ready(Loaded(m, data), s) /\ Loaded(m, data).kv = m.kv
<1> DEFINE o == [m EXCEPT !.pos = data[1].pos, !.idx = 0, !.rows[0] = data[1].row]
<1>0. Len(s) \in Nat \ {0} /\ data # <<>> /\ data[1].pos = Len(s) - 1 /\ data[1].row = s
  BY NotEmpty
<1>1. o = Loaded(m, data)
  BY <1>0 DEF Loaded
<1>2. 0 \in 0 .. kind.n_rs
  BY KindIs
<1>3. [m.rows EXCEPT ![0] = s] \in [0 .. kind.n_rs -> Seq(Token)]
  BY MemIs
<1>4. o = [m EXCEPT !.pos = Len(s) - 1, !.idx = 0, !.rows = [m.rows EXCEPT ![0] = s]]
  BY <1>0, MemIs
<1> HIDE DEF o
<1>5. /\ o \in MemType /\ o.kv = m.kv /\ o.pos = Len(s) - 1 /\ o.idx = 0
      /\ o.rows = [m.rows EXCEPT ![0] = s]
  <2> DEFINE rows == [m.rows EXCEPT ![0] = s]
  <2>1. Len(s) - 1 \in Int
    BY <1>0
  <2> HIDE DEF rows
  <2> QED BY <1>2, <1>3, <1>4, <2>1 DEF MemType, rows
<1>6. RecState(o) = s
  <2>1. o.rows[0] = s
    BY <1>2, <1>5, MemIs
  <2> QED BY <1>0, <1>5, <2>1 DEF RecState
<1> QED BY <1>1, <1>5, <1>6 DEF Ready

\* Without a recurrent state, or without data, nothing is loaded.
LEMMA LoadedMem ==
  ASSUME kind \in Kinds, NEW m \in MemType, NEW s \in Seq(Token), NEW data,
         data = <<[pos |-> Len(s) - 1, row |-> s]>>
  PROVE  Loaded(m, data) \in MemType /\ Loaded(m, data).kv = m.kv
<1> DEFINE o == [m EXCEPT !.pos = data[1].pos, !.idx = 0, !.rows[0] = data[1].row]
<1>1. CASE Loaded(m, data) = m
  BY <1>1
<1>2. CASE Loaded(m, data) = o
  <2>1. Len(s) - 1 \in Int /\ data[1].pos = Len(s) - 1 /\ data[1].row = s
    OBVIOUS
  <2>2. 0 \in 0 .. kind.n_rs
    BY KindIs
  <2>3. [m.rows EXCEPT ![0] = s] \in [0 .. kind.n_rs -> Seq(Token)]
    BY MemIs
  <2>4. o = [m EXCEPT !.pos = Len(s) - 1, !.idx = 0, !.rows = [m.rows EXCEPT ![0] = s]]
    BY <2>1, MemIs
  <2> HIDE DEF o
  <2> QED BY <1>2, <2>1, <2>2, <2>3, <2>4, ZenonT(60) DEF MemType
<1> QED BY <1>1, <1>2 DEF Loaded

\* Decoding adds the tokens, and the snapshots of the batch.
LEMMA DecodedHolds ==
  ASSUME kind \in Kinds, NEW m, NEW s \in Seq(Token), NEW ts \in Seq(Token), ts # <<>>,
         Holds(m, s)
  PROVE  /\ Holds(Decoded(m, ts), s \o ts)
         /\ \A k \in 0 .. Len(ts) : Consumed(m, ts, k) = s \o First(ts, k)
         /\ Recurrent =>
              /\ Decoded(m, ts).idx = 0
              /\ \A g \in 0 .. kind.n_rs :
                   g < Len(ts) => Decoded(m, ts).rows[g] = First(s \o ts, Len(s \o ts) - g)
<1> DEFINE o == Decoded(m, ts)
           n == Len(ts)
           row(g) == IF g < n THEN RecState(m) \o First(ts, n - g) ELSE m.rows[g]
<1>0. n \in Nat /\ n # 0 /\ Len(s) \in Nat
  BY NotEmpty
<1>1. /\ m \in MemType /\ m.kv = s /\ RecState(m) \in Seq(Token)
      /\ m.pos \in Int /\ m.rows \in [0 .. kind.n_rs -> Seq(Token)]
  BY MemIs DEF Holds
<1>2. s \o ts \in Seq(Token) /\ Len(s \o ts) = Len(s) + n
  BY Concat
<1>3. ASSUME NEW g \in 0 .. kind.n_rs
      PROVE  row(g) \in Seq(Token)
  <2>1. CASE g < n
    <3>1. n - g \in 0 .. Len(ts)
      BY <1>0, <2>1, KindIs
    <3>2. First(ts, n - g) \in Seq(Token)
      BY <3>1, FirstIs
    <3>3. RecState(m) \o First(ts, n - g) \in Seq(Token)
      BY <1>1, <3>2, Concat
    <3> QED BY <2>1, <3>3
  <2>2. CASE ~(g < n)
    BY <1>1, <2>2
  <2> QED BY <2>1, <2>2
<1>4. /\ o.kv = s \o ts /\ o.pos = m.pos + n /\ o.idx = 0
      /\ o.rows = [g \in 0 .. kind.n_rs |-> row(g)]
      /\ o = [kv |-> o.kv, pos |-> o.pos, idx |-> o.idx, rows |-> o.rows]
  BY <1>1 DEF Decoded
<1> HIDE DEF o, row
<1>5. o \in MemType
  <2>1. 0 \in 0 .. kind.n_rs
    BY KindIs
  <2>2. o.rows \in [0 .. kind.n_rs -> Seq(Token)]
    BY <1>3, <1>4
  <2>3. o.pos \in Int
    BY <1>0, <1>1, <1>4
  <2> QED BY <1>2, <1>4, <2>1, <2>2, <2>3 DEF MemType
<1>6. Recurrent => RecState(m) = s /\ m.pos = Len(s) - 1
  BY <1>1 DEF Holds, Settled
<1>7. ASSUME Recurrent, NEW g \in 0 .. kind.n_rs, g < n
      PROVE  o.rows[g] = First(s \o ts, Len(s \o ts) - g)
  <2>1. o.rows[g] = s \o First(ts, n - g)
    BY <1>4, <1>6, <1>7 DEF row
  <2>2. n - g \in 0 .. Len(ts) /\ Len(s) + (n - g) = Len(s \o ts) - g
    BY <1>0, <1>2, <1>7, KindIs
  <2>3. First(s \o ts, Len(s) + (n - g)) = s \o First(ts, n - g)
    BY <2>2, FirstConcat
  <2> QED BY <2>1, <2>2, <2>3
<1>8. \A k \in 0 .. n : Consumed(m, ts, k) = s \o First(ts, k)
  BY <1>1, <1>6 DEF Consumed
<1>9. Settled(o)
  <2> SUFFICES ASSUME Recurrent PROVE o.pos = Len(o.kv) - 1 /\ RecState(o) = o.kv
    BY DEF Settled
  <2>1. o.pos = Len(s) - 1 + n /\ Len(o.kv) = Len(s) + n
    BY <1>2, <1>4, <1>6
  <2>2. 0 \in 0 .. kind.n_rs /\ 0 < n /\ o.pos >= 0
    BY <1>0, <2>1, KindIs
  <2>3. o.rows[0] = First(s \o ts, Len(s \o ts) - 0)
    BY <1>7, <2>2
  <2>4. o.rows[0] = s \o ts
    <3>1. Len(s \o ts) - 0 = Len(s \o ts)
      BY <1>0, <1>2
    <3> QED BY <1>2, <2>3, <3>1, FirstAll
  <2> QED BY <1>0, <1>4, <2>1, <2>2, <2>4 DEF RecState
<1> QED BY <1>4, <1>5, <1>7, <1>8, <1>9 DEF o, Holds

-----------------------------------------------------------------------------
(* Steps *)

LEMMA PosMaxIs ==
  ASSUME NEW m, NEW s \in Seq(Token), Holds(m, s)
  PROVE  /\ PosMax(m) = Len(s) - 1
         /\ s # <<>> => PosMin(m) >= 0 /\ (Recurrent => PosMin(m) = Len(s) - 1)
         /\ s = <<>> => PosMin(m) = -1
<1>1. Len(s) \in Nat /\ (s # <<>> => Len(s) # 0) /\ m.kv = s
  BY NotEmpty DEF Holds
<1>2. Recurrent => m.pos = Len(s) - 1
  BY <1>1 DEF Holds, Settled
<1>3. MinOf(Len(s) - 1, Len(s) - 1) = Len(s) - 1
  BY DEF MinOf
<1> QED BY <1>1, <1>2, <1>3 DEF PosMax, PosMin

LEMMA PartialIs ==
  ASSUME NEW m, NEW s \in Seq(Token), Holds(m, s), Recurrent
  PROVE  Partial(m) = <<[pos |-> Len(s) - 1, row |-> s]>>
  BY DEF Partial, Holds, Settled

LEMMA HoldsNext ==
  ASSUME kind' = kind, NEW s, Holds(tgt', s)
  PROVE  (Holds(tgt, tgt.kv))' /\ tgt'.kv = s
  BY DEF Holds, MemType, Settled, Recurrent, RecState

\* The tokens of the request that a slot works on, and what of them is in memory.
LEMMA HistoryIs ==
  ASSUME IInv, state # "idle"
  PROVE  /\ History \in Seq(Token) /\ Len(History) = Len(prompt) + Len(sent)
         /\ Len(prompt) \in Nat \ {0} /\ Len(sent) \in Nat
         /\ Begins(prompt, History)
<1>1. prompt \in Seq(Token) /\ sent \in Seq(Token) /\ prompt # <<>>
  BY DEF IInv, Tokens, Phases
<1>2. Len(prompt) \in Nat \ {0} /\ Len(sent) \in Nat
  BY <1>1, NotEmpty
<1>3. /\ History \in Seq(Token) /\ Len(History) = Len(prompt) + Len(sent)
      /\ \A k \in 1 .. Len(prompt) + Len(sent) :
           History[k] = IF k <= Len(prompt) THEN prompt[k] ELSE sent[k - Len(prompt)]
  BY <1>1, Concat DEF History
<1>4. Begins(prompt, History)
  BY <1>2, <1>3 DEF Begins
<1> QED BY <1>2, <1>3, <1>4

LEMMA BaseIs ==
  ASSUME IInv, state = "gen", pc # "sample" \/ draft # <<>>
  PROVE  /\ Base \in Seq(Token) /\ Len(Base) = Len(History) - 1 /\ Base # <<>>
         /\ sampled \in Seq(Token) /\ Len(sampled) = 1 /\ Base \o sampled = History
         /\ Begins(prompt, Base)
<1>1. /\ prompt \in Seq(Token) /\ sent \in Seq(Token) /\ prompt # <<>> /\ sent # <<>>
      /\ sampled \in Seq(Token) /\ sampled = <<sent[Len(sent)]>>
  BY DEF IInv, Tokens, Phases
<1>2. Len(prompt) \in Nat \ {0} /\ Len(sent) \in Nat \ {0} /\ Len(sampled) = 1
  BY <1>1, NotEmpty
<1>3. /\ History \in Seq(Token) /\ Len(History) = Len(prompt) + Len(sent)
      /\ \A k \in 1 .. Len(prompt) + Len(sent) :
           History[k] = IF k <= Len(prompt) THEN prompt[k] ELSE sent[k - Len(prompt)]
  BY <1>1, Concat DEF History
<1>4. Len(History) - 1 \in 0 .. Len(History) /\ Len(History) - 1 \in Nat \ {0}
  BY <1>2, <1>3
<1>5. /\ Base \in Seq(Token) /\ Len(Base) = Len(History) - 1
      /\ \A k \in 1 .. Len(History) - 1 : Base[k] = History[k]
  BY <1>3, <1>4, FirstIs DEF Base
<1>6. Base # <<>>
  BY <1>4, <1>5
<1>7. /\ Base \o sampled \in Seq(Token) /\ Len(Base \o sampled) = Len(Base) + 1
      /\ \A k \in 1 .. Len(Base) + 1 :
           (Base \o sampled)[k] = IF k <= Len(Base) THEN Base[k] ELSE sampled[k - Len(Base)]
  BY <1>1, <1>2, <1>5, Concat
<1>8. ASSUME NEW k \in 1 .. Len(History)
      PROVE  (Base \o sampled)[k] = History[k]
  <2>1. CASE k <= Len(Base)
    BY <1>2, <1>3, <1>5, <1>7, <2>1
  <2>2. CASE ~(k <= Len(Base))
    <3>0. Len(History) \in Int /\ Len(Base) \in Int /\ Len(Base) = Len(History) - 1
      BY <1>3, <1>5
    <3>4. k = Len(History)
      BY <2>2, <3>0
    <3>1. k = Len(History) /\ k - Len(Base) = 1 /\ k - Len(prompt) = Len(sent) /\ ~(k <= Len(prompt))
      BY <1>2, <1>3, <3>0, <3>4
    <3>2. History[k] = sent[Len(sent)]
      BY <1>2, <1>3, <3>1
    <3>3. (Base \o sampled)[k] = sampled[1]
      BY <1>2, <1>3, <1>5, <1>7, <3>1, <2>2
    <3> QED BY <1>1, <3>2, <3>3
  <2> QED BY <2>1, <2>2
<1>9. Len(Base \o sampled) = Len(History)
  BY <1>2, <1>3, <1>5, <1>7
<1>10. Base \o sampled = History
  BY <1>3, <1>7, <1>8, <1>9, SameEntries
<1>11. Begins(prompt, Base)
  BY <1>2, <1>3, <1>5 DEF Begins
<1> QED BY <1>1, <1>2, <1>5, <1>6, <1>10, <1>11

\* What is in memory agrees with the prompt.
LEMMA AlongPrompt ==
  ASSUME IInv, state # "idle"
  PROVE  /\ Along(toks, prompt)
         /\ state = "gen" => Begins(prompt, toks)
<1>1. prompt \in Seq(Token) /\ toks \in Seq(Token) /\ draft \in Seq(Token)
  BY DEF IInv, Tokens
<1>2. CASE state = "prompt"
  <2>1. Begins(toks, prompt)
    BY <1>2 DEF IInv, Phases
  <2> QED BY <1>1, <1>2, <2>1 DEF Begins, Along
<1>3. CASE state = "gen"
  <2>1. Begins(prompt, toks)
    <3>1. CASE pc = "build"
      <4>1. toks = Base
        BY <1>3, <3>1 DEF IInv, Phases
      <4> QED BY <1>3, <3>1, <4>1, BaseIs
    <3>2. CASE pc # "build"
      <4>1. toks = History \o draft
        BY <1>3, <3>2 DEF IInv, Phases
      <4>2. History \in Seq(Token) /\ Begins(prompt, History)
        BY <1>3, HistoryIs
      <4>3. /\ Len(History \o draft) = Len(History) + Len(draft)
            /\ \A k \in 1 .. Len(History) + Len(draft) :
                 (History \o draft)[k] = IF k <= Len(History) THEN History[k]
                                         ELSE draft[k - Len(History)]
        BY <1>1, <4>2, Concat
      <4>4. Len(History) \in Nat /\ Len(draft) \in Nat /\ Len(prompt) \in Nat
        BY <1>1, <4>2
      <4> QED BY <4>1, <4>2, <4>3, <4>4 DEF Begins
    <3> QED BY <3>1, <3>2
  <2> QED BY <1>1, <2>1 DEF Begins, Along
<1> QED BY <1>2, <1>3 DEF IInv, Phases

LEMMA AlongCut ==
  ASSUME NEW t \in Seq(Token), NEW s \in Seq(Token), Along(t, s), NEW n \in 0 .. Len(t)
  PROVE  Along(First(t, n), s)
  BY FirstIs DEF Along

\* The checkpoints of a request are true of it as long as it goes on, and of the
\* tokens that it leaves.
LEMMA StoredKept ==
  ASSUME IInv, state # "idle", NEW k \in 1 .. Len(ckpts),
         NEW t, Along(t, prompt), NEW st, NEW p, st # "idle" => p = prompt
  PROVE  Stored(ckpts[k], st, p, t)
<1> DEFINE c == ckpts[k]
           r == CkptRow(c)
<1>1. r \in Seq(Token) /\ Covers(c, r) /\ Begins(r, prompt)
  BY DEF IInv, Checkpoints, Stored
<1> HIDE DEF r, c
<1>2. Along(t, r)
  <2> SUFFICES ASSUME NEW j \in 1 .. Len(r), j <= Len(t) PROVE t[j] = r[j]
    BY DEF Along
  <2>1. prompt \in Seq(Token)
    BY DEF IInv, Tokens
  <2>2. j \in 1 .. Len(prompt) /\ r[j] = prompt[j]
    BY <1>1, <2>1 DEF Begins
  <2> QED BY <2>2 DEF Along
<1>3. Stored(c, st, p, t)
  BY <1>1, <1>2 DEF Stored, r
<1> QED BY <1>3 DEF c

LEMMA CkptsKept ==
  ASSUME IInv, state # "idle", ckpts' = ckpts, kind' = kind,
         Along(toks', prompt), state' # "idle" => prompt' = prompt
  PROVE  Checkpoints'
<1>1. ckpts \in Seq(CkptType) /\ (ckpts # <<>> => Recurrent)
  BY DEF IInv, Checkpoints
<1>2. \A k \in 1 .. Len(ckpts) : Stored(ckpts[k], state', prompt', toks')
  BY StoredKept
<1>3. (Recurrent)' = Recurrent
  BY DEF Recurrent
<1> QED BY <1>1, <1>2, <1>3 DEF Checkpoints

\* A slot without a request: what it keeps is the tokens, their memory and the
\* checkpoints.
LEMMA Released ==
  ASSUME IInv, state # "idle", Release, kind' = kind, ckpts' = ckpts, pc' = "build",
         batch' \in Seq(Token), toks' \in Seq(Token), Along(toks', prompt),
         Holds(tgt', toks'), dft' = Len(toks'), mtp' \in MtpType, Carried(mtp', toks')
  PROVE  IInv'
<1>1. /\ state' = "idle" /\ sampled' = <<>> /\ draft' = <<>>
      /\ prompt' = <<>> /\ sent' = <<>>
  BY DEF Release
<1>2. <<>> \in Seq(Token)
  OBVIOUS
<1>3. (Holds(tgt, tgt.kv))' /\ tgt'.kv = toks'
  BY HoldsNext
<1>4. Tokens'
  BY <1>1, <1>2 DEF IInv, Tokens
<1>5. (dft = Len(tgt.kv))'
  BY <1>3
<1>6. Phases'
  BY <1>1, <1>3 DEF Phases
<1>7. Snapshots' /\ SampledFromHistory'
  BY DEF Snapshots, SampledFromHistory
<1>8. Checkpoints'
  BY <1>1, CkptsKept
<1>9. DraftCkpt'
  BY <1>1 DEF DraftCkpt
<1>10. Seen'
  BY <1>3 DEF Seen
<1> QED BY <1>3, <1>4, <1>5, <1>6, <1>7, <1>8, <1>9, <1>10 DEF IInv

\* A request goes on with a token that was sampled.
LEMMA SentOn ==
  ASSUME IInv, pc = "sample", kind' = kind, ckpts' = ckpts, pc' = "build", batch' \in Seq(Token),
         NEW ts \in Seq(Token), ts # <<>>, Sends(ts),
         toks' = First(History \o ts, Len(History) + Len(ts) - 1),
         Holds(tgt', toks'), dft' = Len(toks'), mtp' \in MtpType, Carried(mtp', toks')
  PROVE  IInv'
<1>1. /\ state = "gen" /\ prompt \in Seq(Token) /\ sent \in Seq(Token)
      /\ History \in Seq(Token) /\ Len(ts) \in Nat \ {0}
      /\ Begins(prompt, History) /\ Len(History) \in Nat
  BY HistoryIs, NotEmpty DEF IInv, Phases, Tokens
<1> DEFINE h == History \o ts
           n == Len(History) + Len(ts) - 1
<1>2. /\ h \in Seq(Token) /\ Len(h) = Len(History) + Len(ts)
      /\ \A k \in 1 .. Len(History) + Len(ts) :
           h[k] = IF k <= Len(History) THEN History[k] ELSE ts[k - Len(History)]
  BY <1>1, Concat
<1> HIDE DEF h
<1>3. n \in 0 .. Len(h)
  BY <1>1, <1>2
<1>4. toks' \in Seq(Token) /\ Len(toks') = n /\ \A k \in 1 .. n : toks'[k] = h[k]
  BY <1>2, <1>3, FirstIs DEF h
<1>5. Along(toks', prompt)
  <2> SUFFICES ASSUME NEW k \in 1 .. Len(prompt), k <= Len(toks') PROVE toks'[k] = prompt[k]
    BY DEF Along
  <2>1. k \in 1 .. Len(History) /\ prompt[k] = History[k]
    BY <1>1 DEF Begins
  <2>2. k \in 1 .. n /\ k \in 1 .. Len(History) + Len(ts) /\ k <= Len(History)
    BY <1>1, <1>4, <2>1
  <2> QED BY <1>2, <1>4, <2>1, <2>2
<1>6. CASE Release
  BY <1>1, <1>4, <1>5, <1>6, Released
<1>7. CASE ~Release
  <2>1. /\ sent' = sent \o ts /\ sampled' = <<Last(ts)>> /\ draft' = <<>>
        /\ state' = state /\ prompt' = prompt
    BY <1>7 DEF Sends
  <2>2. /\ sent' \in Seq(Token) /\ Len(sent') = Len(sent) + Len(ts)
        /\ \A k \in 1 .. Len(sent) + Len(ts) :
             sent'[k] = IF k <= Len(sent) THEN sent[k] ELSE ts[k - Len(sent)]
    BY <1>1, <2>1, Concat
  <2>3. sent' # <<>> /\ sampled' = <<sent'[Len(sent')]>>
    <3>1. Len(sent) + Len(ts) \in 1 .. Len(sent) + Len(ts) /\ ~(Len(sent) + Len(ts) <= Len(sent))
          /\ (Len(sent) + Len(ts)) - Len(sent) = Len(ts)
      BY <1>1
    <3>2. sent'[Len(sent')] = ts[Len(ts)]
      BY <2>2, <3>1
    <3>3. Len(sent') # 0
      BY <1>1, <2>2
    <3>4. sent' # <<>>
      BY <3>3
    <3> QED BY <2>1, <3>2, <3>4 DEF Last
  <2>4. History' = h
    <3>1. (prompt \o sent) \o ts = prompt \o (sent \o ts)
      BY <1>1, ThreeInARow, SMTT(30)
    <3> QED BY <2>1, <3>1 DEF History, h
  <2>5. toks' = Base'
    BY <1>2, <2>4 DEF Base, h
  <2>6. (Holds(tgt, tgt.kv))' /\ tgt'.kv = toks'
    BY HoldsNext
  <2>7. <<>> \in Seq(Token) /\ ts[Len(ts)] \in Token /\ sampled' = <<ts[Len(ts)]>>
    BY <1>1, <2>1 DEF Last
  <2>8. Tokens'
    BY <1>1, <1>4, <2>1, <2>2, <2>7 DEF IInv, Tokens
  <2>9. (dft = Len(tgt.kv))'
    BY <2>6
  <2>10. Phases'
    <3>1. prompt # <<>>
      BY <1>1 DEF IInv, Phases
    <3> QED BY <1>1, <2>1, <2>3, <2>5, <2>6, <3>1 DEF Phases
  <2>11. Snapshots' /\ SampledFromHistory'
    BY DEF Snapshots, SampledFromHistory
  <2>12. Checkpoints'
    BY <1>1, <1>5, <2>1, CkptsKept
  <2>13. DraftCkpt'
    BY <2>1 DEF DraftCkpt
  <2>14. Seen'
    BY <2>6 DEF Seen
  <2> QED BY <2>6, <2>8, <2>9, <2>10, <2>11, <2>12, <2>13, <2>14 DEF IInv
<1> QED BY <1>6, <1>7

\* What a memory in the middle of a request holds.
LEMMA InMemory ==
  ASSUME IInv
  PROVE  /\ toks \in Seq(Token) /\ tgt.kv \in Seq(Token) /\ Holds(tgt, tgt.kv)
         /\ dft = Len(tgt.kv) /\ mtp \in MtpType /\ Carried(mtp, tgt.kv)
         /\ pc # "decode" => toks = tgt.kv
  BY DEF IInv, Tokens, Holds, MemType, Seen, Phases

LEMMA GiveUpOk ==
  ASSUME IInv, state # "idle", GiveUp
  PROVE  IInv'
<1>1. /\ Release /\ kind' = kind /\ ckpts' = ckpts /\ pc' = "build" /\ batch' = <<>>
      /\ toks' = <<>> /\ tgt' = EmptyMem /\ dft' = 0 /\ mtp' = Reset
  BY DEF GiveUp
<1>2. <<>> \in Seq(Token) /\ Len(<<>>) = 0
  OBVIOUS
<1>3. Holds(EmptyMem, <<>>)
  BY EmptyHolds DEF IInv, Tokens
<1>4. Holds(tgt', toks')
  <2>1. EmptyMem' = EmptyMem
    BY <1>1 DEF EmptyMem
  <2> QED BY <1>1, <1>3
<1>5. Reset \in MtpType /\ Carried(Reset, <<>>)
  BY <1>2, ResetTrue
<1>6. Along(<<>>, prompt)
  BY <1>2 DEF Along
<1> QED BY <1>1, <1>2, <1>4, <1>5, <1>6, Released

LEMMA CancelOk ==
  ASSUME IInv, Cancel
  PROVE  IInv'
<1>1. /\ pc = "build" /\ state # "idle" /\ Release /\ kind' = kind /\ ckpts' = ckpts /\ pc' = pc
      /\ batch' = batch /\ toks' = toks /\ tgt' = tgt /\ dft' = dft /\ mtp' = mtp
  BY DEF Cancel, memory
<1>2. batch \in Seq(Token)
  BY DEF IInv, Tokens
<1>3. Along(toks, prompt)
  BY <1>1, AlongPrompt
<1>4. Holds(tgt, toks) /\ toks \in Seq(Token) /\ dft = Len(toks) /\ mtp \in MtpType /\ Carried(mtp, toks)
  BY <1>1, InMemory
<1>5. Holds(tgt', toks')
  BY <1>1, <1>4
<1> QED BY <1>1, <1>2, <1>3, <1>4, <1>5, Released

LEMMA DecodeFailsOk ==
  ASSUME IInv, DecodeFails
  PROVE  IInv'
  BY GiveUpOk DEF IInv, Phases, DecodeFails

LEMMA RestoreFailsOk ==
  ASSUME IInv, NEW n, NEW t, RestoreFails(n, t)
  PROVE  IInv'
  BY GiveUpOk DEF IInv, Phases, RestoreFails, Verify

LEMMA SampleOk ==
  ASSUME IInv, Sample
  PROVE  IInv'
<1>1. /\ pc = "sample" /\ draft = <<>> /\ kind' = kind /\ ckpts' = ckpts /\ pc' = "build"
      /\ batch' = batch /\ toks' = toks /\ tgt' = tgt /\ dft' = dft /\ mtp' = mtp
  BY DEF Sample, memory
<1>2. PICK t \in Token : Sends(<<t>>)
  BY DEF Sample
<1>3. <<t>> \in Seq(Token) /\ <<t>> # <<>> /\ Len(<<t>>) = 1 /\ <<>> \in Seq(Token)
  OBVIOUS
<1>4. state = "gen" /\ batch \in Seq(Token) /\ toks = History \o <<>>
  BY <1>1 DEF IInv, Phases, Tokens
<1>5. History \in Seq(Token)
  BY <1>4, HistoryIs
<1>6. toks = History
  BY <1>4, <1>5
<1>7. Holds(tgt, toks) /\ dft = Len(toks) /\ mtp \in MtpType /\ Carried(mtp, toks)
  BY <1>1, InMemory
<1>8. First(History \o <<t>>, Len(History) + Len(<<t>>) - 1) = History
  <2> DEFINE u == <<t>>
  <2>1. Len(History) + Len(u) - 1 = Len(History) /\ Len(History) \in 0 .. Len(History)
        /\ u \in Seq(Token)
    BY <1>3, <1>5
  <2> HIDE DEF u
  <2>2. First(History \o u, Len(History)) = First(History, Len(History))
    BY <1>5, <2>1, FirstConcat
  <2>3. First(History \o u, Len(History) + Len(u) - 1) = History
    BY <1>5, <2>1, <2>2, FirstAll
  <2> QED BY <2>3 DEF u
<1> DEFINE ts == <<t>>
<1>9. ts \in Seq(Token) /\ ts # <<>> /\ Sends(ts)
      /\ toks' = First(History \o ts, Len(History) + Len(ts) - 1)
  BY <1>1, <1>2, <1>3, <1>6, <1>8
<1> HIDE DEF ts
<1>10. Holds(tgt', toks') /\ dft' = Len(toks') /\ mtp' \in MtpType /\ Carried(mtp', toks')
  BY <1>1, <1>7
<1> QED BY <1>1, <1>4, <1>9, <1>10, SentOn

\* What is verified: the rows of the draft, n of which are accepted.
LEMMA VerifiedIs ==
  ASSUME IInv, NEW n, NEW t \in Token, Verify(n, t)
  PROVE  /\ state = "gen" /\ pc = "sample" /\ History \in Seq(Token) /\ draft \in Seq(Token)
         /\ n \in 0 .. Len(draft) /\ Len(draft) \in Nat /\ Len(History) \in Nat \ {0}
         /\ toks = History \o draft /\ Len(toks) = Len(History) + Len(draft)
         /\ Len(toks) - Len(draft) + n = Len(History) + n
         /\ First(toks, Len(History) + n) = History \o First(draft, n)
         /\ Accepts(n, t) \in Seq(Token) /\ Len(Accepts(n, t)) = n + 1
         /\ First(Accepts(n, t), n) = First(draft, n)
<1>1. state = "gen" /\ pc = "sample" /\ n \in 0 .. Len(draft) /\ draft \in Seq(Token)
      /\ toks = History \o draft
  BY DEF IInv, Phases, Tokens, Verify
<1>2. History \in Seq(Token) /\ Len(History) \in Nat \ {0} /\ Len(draft) \in Nat
  BY <1>1, HistoryIs
<1>3. Len(toks) = Len(History) + Len(draft)
  BY <1>1, <1>2, Concat
<1>4. Len(toks) - Len(draft) + n = Len(History) + n
  BY <1>1, <1>2, <1>3
<1>5. First(toks, Len(History) + n) = History \o First(draft, n)
  BY <1>1, <1>2, FirstConcat
<1> DEFINE d == First(draft, n)
           u == <<t>>
<1>6. d \in Seq(Token) /\ Len(d) = n
  BY <1>1, FirstIs
<1>7. Accepts(n, t) = Append(d, t)
  BY DEF Accepts
<1> HIDE DEF d
<1>8. Append(d, t) = d \o u
  BY <1>6
<1>9. u \in Seq(Token) /\ Len(u) = 1 /\ n \in Nat
  BY <1>1
<1> HIDE DEF u
<1>10. d \o u \in Seq(Token) /\ Len(d \o u) = n + 1
  <2>1. d \o u \in Seq(Token) /\ Len(d \o u) = Len(d) + Len(u)
    BY <1>6, <1>9, Concat
  <2> QED BY <1>6, <1>9, <2>1
<1>11. First(d \o u, n) = d
  <2>1. Len(d) \in 0 .. Len(d)
    BY <1>6, <1>9
  <2> QED BY <1>6, <1>9, <2>1, FirstConcat, FirstAll
<1> QED BY <1>1, <1>2, <1>3, <1>4, <1>5, <1>7, <1>8, <1>10, <1>11 DEF d

LEMMA AcceptOk ==
  ASSUME IInv, NEW n, NEW t \in Token, Accept(n, t)
  PROVE  IInv'
<1> DEFINE m == Len(History) + n
           ts == Accepts(n, t)
<1>1. /\ state = "gen" /\ pc = "sample" /\ History \in Seq(Token) /\ draft \in Seq(Token)
      /\ n \in 0 .. Len(draft) /\ Len(draft) \in Nat /\ Len(History) \in Nat \ {0}
      /\ toks = History \o draft /\ Len(toks) = Len(History) + Len(draft)
      /\ Len(toks) - Len(draft) + n = m
      /\ First(toks, m) = History \o First(draft, n)
      /\ ts \in Seq(Token) /\ Len(ts) = n + 1 /\ First(ts, n) = First(draft, n)
  BY VerifiedIs DEF Accept
<1>2. CanTakeBack(n) /\ draft # <<>>
  BY DEF Accept, Verify
<1>3. /\ toks \in Seq(Token) /\ tgt.kv = toks /\ Holds(tgt, toks) /\ dft = Len(toks)
      /\ mtp \in MtpType /\ Carried(mtp, toks) /\ True(mtp.bound, toks) /\ RowsOf(mtp, toks)
      /\ kind \in Kinds /\ batch \in Seq(Token)
  BY <1>1, InMemory DEF IInv, Seen, Tokens
<1> HIDE DEF ts
<1>4. m \in 1 .. Len(toks) /\ m \in Nat /\ Len(toks) \in Nat /\ Len(toks) - m = Len(draft) - n
  BY <1>1
<1>5. Accept(n, t) =>
        IF CanRemove(tgt, m)
        THEN /\ toks' = First(toks, m)
             /\ tgt' = Removed(tgt, m) /\ dft' = MinOf(dft, m)
             /\ mtp' = Accepted(mtp, n) /\ Sends(ts)
             /\ pc' = "build" /\ kind' = kind /\ ckpts' = ckpts /\ batch' = batch
        ELSE Abort
  <2>1. Len(toks) - Len(draft) + n = m
    BY <1>1
  <2> HIDE DEF m
  <2> QED BY <2>1 DEF Accept, ts
<1> HIDE DEF m
<1>6. CanRemove(tgt, m) /\ Holds(Removed(tgt, m), First(toks, m))
  <2>1. CASE n = Len(draft)
    <3>1. m = Len(toks)
      BY <1>1, <1>4, <2>1
    <3>2. toks # <<>>
      BY <1>1, <1>4
    <3>3. Ready(tgt, toks)
      BY <1>3, HoldsReady
    <3> QED BY <1>3, <3>1, <3>2, <3>3, RemovedReady, FirstAll
  <2>2. CASE n # Len(draft)
    <3>1. Len(draft) - n > 0 /\ m \in 1 .. Len(toks) - 1
      BY <1>1, <1>4, <2>2
    <3>2. ~NeedsCkpt(Len(draft) - n)
      BY <1>2, <2>2 DEF CanTakeBack
    <3>3. Recurrent => Len(toks) - m <= kind.n_rs
      <4>1. Recurrent => kind.rm = "rs"
        BY <1>3, <3>2, KindIs DEF NeedsCkpt, Recurrent
      <4>2. kind.rm = "rs" => ~(Len(draft) - n > kind.n_rs)
        BY <3>2 DEF NeedsCkpt
      <4>3. kind.n_rs \in Nat
        BY <1>3, KindIs
      <4> QED BY <1>1, <1>4, <4>1, <4>2, <4>3
    <3>4. Recurrent => tgt.rows[Len(toks) - m] = First(toks, m)
      <4> SUFFICES ASSUME Recurrent PROVE tgt.rows[Len(toks) - m] = First(toks, m)
        OBVIOUS
      <4>1. Len(toks) - m \in 0 .. kind.n_rs /\ Len(toks) - m <= Len(draft)
        BY <1>1, <1>3, <1>4, <3>1, <3>3, KindIs
      <4>2. tgt.rows[Len(toks) - m] = First(toks, Len(toks) - (Len(toks) - m))
        BY <1>1, <1>3, <4>1 DEF IInv, Snapshots
      <4>3. Len(toks) - (Len(toks) - m) = m
        BY <1>4
      <4> QED BY <4>2, <4>3
    <3> QED BY <1>3, <3>1, <3>3, <3>4, RemovedBack
  <2> QED BY <2>1, <2>2
<1>7. /\ toks' = First(toks, m) /\ tgt' = Removed(tgt, m) /\ dft' = MinOf(dft, m)
      /\ mtp' = Accepted(mtp, n) /\ Sends(ts)
      /\ pc' = "build" /\ kind' = kind /\ ckpts' = ckpts /\ batch' = batch
  BY <1>5, <1>6
<1>8. First(toks, m) \in Seq(Token) /\ Len(First(toks, m)) = m
  BY <1>3, <1>4, FirstIs
<1>9. dft' = Len(toks')
  BY <1>3, <1>4, <1>7, <1>8, MinOfIs
<1>10. mtp' \in MtpType /\ Carried(mtp', toks')
  <2>1. Accepted(mtp, n) \in MtpType /\ Carried(Accepted(mtp, n), toks)
    <3>1. n \in Nat
      BY <1>1
    <3> QED BY <1>3, <3>1, AcceptedTrue
  <2>2. m \in 0 .. Len(toks)
    BY <1>4
  <2> QED BY <1>3, <1>7, <2>1, <2>2, CarriedCut
<1>11. toks' = First(History \o ts, Len(History) + Len(ts) - 1)
  <2>1. n \in 0 .. Len(ts) /\ Len(History) + Len(ts) - 1 = Len(History) + n
    BY <1>1
  <2>2. First(History \o ts, Len(History) + n) = History \o First(ts, n)
    <3>1. History \in Seq(Token) /\ ts \in Seq(Token)
      BY <1>1
    <3> QED BY <2>1, <3>1, FirstConcat
  <2> QED BY <1>1, <1>7, <2>1, <2>2 DEF m
<1>12. ts # <<>>
  BY <1>1
<1>13. Holds(tgt', toks')
  BY <1>6, <1>7
<1> QED BY <1>1, <1>3, <1>7, <1>9, <1>10, <1>11, <1>12, <1>13, SentOn

LEMMA RestoreOk ==
  ASSUME IInv, NEW n, NEW t \in Token, Restore(n, t)
  PROVE  IInv'
<1> DEFINE m == Loaded(tgt, ckpt.data)
           p == ckpt.pos + 1
<1>1. /\ state = "gen" /\ pc = "sample" /\ History \in Seq(Token) /\ draft \in Seq(Token)
      /\ n \in 0 .. Len(draft) /\ Len(draft) \in Nat /\ Len(History) \in Nat \ {0}
      /\ toks = History \o draft /\ Len(toks) = Len(History) + Len(draft)
      /\ Accepts(n, t) \in Seq(Token)
  BY VerifiedIs DEF Restore
<1>2. n # Len(draft) /\ NeedsCkpt(Len(draft) - n) /\ draft # <<>>
  BY DEF Restore, Verify, CanTakeBack
<1>3. /\ toks \in Seq(Token) /\ tgt.kv = toks /\ Holds(tgt, toks) /\ dft = Len(toks)
      /\ mtp \in MtpType /\ Carried(mtp, toks) /\ kind \in Kinds
      /\ batch \in Seq(Token) /\ prompt \in Seq(Token) /\ sent \in Seq(Token)
      /\ sampled \in Seq(Token)
  BY <1>1, InMemory DEF IInv, Tokens
<1>4. Recurrent /\ NeedsCkpt(Len(draft))
  <2>1. kind.n_rs \in Nat
    BY <1>3, KindIs
  <2>2. kind.rm = "full" \/ (kind.rm = "rs" /\ Len(draft) - n > kind.n_rs)
    BY <1>2 DEF NeedsCkpt
  <2>3. Len(draft) - n > kind.n_rs => Len(draft) > kind.n_rs
    BY <1>1, <2>1
  <2> QED BY <2>2, <2>3 DEF NeedsCkpt, Recurrent
<1>5. /\ Base # <<>> /\ ckpt.n = Len(Base) /\ ckpt.pos = Len(Base) - 1
      /\ ckpt.data = <<[pos |-> Len(Base) - 1, row |-> Base]>>
      /\ CarriedBack(ckpt.spec, Base)
  BY <1>2, <1>4 DEF IInv, DraftCkpt, Covers
<1>6. /\ Base \in Seq(Token) /\ Len(Base) = Len(History) - 1 /\ Begins(prompt, Base)
  BY <1>1, <1>2, BaseIs
<1>7. Len(Base) \in 0 .. Len(toks) /\ Len(Base) \in 0 .. Len(History) /\ p = Len(Base) /\ Len(Base) \in Nat
  BY <1>1, <1>5, <1>6
<1>8. First(toks, Len(Base)) = Base
  <2>1. First(History \o draft, Len(Base)) = First(History, Len(Base))
    BY <1>1, <1>7, FirstConcat
  <2>2. First(History, Len(Base)) = Base
    BY <1>6 DEF Base
  <2> QED BY <1>1, <2>1, <2>2
<1>9. Begins(Base, tgt.kv)
  BY <1>3, <1>7, <1>8, FirstBegins
<1>10. tgt \in MemType
  BY <1>3 DEF Holds
<1>11. Ready(m, Base)
  BY <1>3, <1>4, <1>5, <1>6, <1>9, <1>10, LoadedReady
<1> HIDE DEF m
<1>12. CanRemove(m, p) /\ Holds(Removed(m, p), Base)
  BY <1>3, <1>5, <1>6, <1>7, <1>11, RemovedReady
<1>13. /\ tgt' = Removed(m, p) /\ dft' = MinOf(dft, p) /\ toks' = First(toks, ckpt.n)
       /\ mtp' = IF ckpt.spec # NoState THEN Restored(ckpt.spec) ELSE mtp
       /\ draft' = <<>> \/ draft' = Accepts(n, t)
       /\ pc' = "build" /\ kind' = kind /\ state' = state /\ prompt' = prompt
       /\ ckpts' = ckpts /\ sampled' = sampled /\ ckpt' = ckpt /\ batch' = batch /\ sent' = sent
  BY <1>12 DEF Restore, m
<1>14. toks' = Base /\ dft' = Len(Base)
  BY <1>3, <1>5, <1>7, <1>8, <1>13, MinOfIs
<1>15. (Holds(tgt, tgt.kv))' /\ tgt'.kv = Base
  <2>1. Holds(tgt', Base)
    BY <1>12, <1>13
  <2> QED BY <1>13, <2>1, HoldsNext
<1>16. mtp' \in MtpType /\ Carried(mtp', Base)
  <2>1. CASE ckpt.spec # NoState
    BY <1>5, <1>6, <1>13, <2>1, RestoredTrue
  <2>2. CASE ckpt.spec = NoState
    BY <1>3, <1>7, <1>8, <1>13, <2>2, CarriedCut
  <2> QED BY <2>1, <2>2
<1>17. History' = History /\ Base' = Base
  BY <1>13 DEF History, Base
<1>18. Tokens'
  <2>1. draft' \in Seq(Token)
    <3>1. <<>> \in Seq(Token) /\ Accepts(n, t) \in Seq(Token)
      BY <1>1
    <3> QED BY <1>13, <3>1
  <2> QED BY <1>3, <1>6, <1>13, <1>14, <2>1 DEF Tokens
<1>19. Phases'
  <2>1. sent # <<>> /\ sampled = <<sent[Len(sent)]>> /\ prompt # <<>>
    BY <1>1, <1>2 DEF IInv, Phases
  <2> QED BY <1>1, <1>13, <1>14, <1>15, <1>17, <2>1 DEF Phases
<1>20. Along(toks', prompt)
  BY <1>6, <1>14 DEF Begins, Along
<1>21. Checkpoints'
  BY <1>1, <1>13, <1>20, CkptsKept
<1>22. DraftCkpt'
  BY <1>5, <1>13, <1>17 DEF DraftCkpt, Covers
<1>23. Seen'
  BY <1>13, <1>15, <1>16 DEF Seen
<1>24. Snapshots' /\ SampledFromHistory'
  BY <1>13 DEF Snapshots, SampledFromHistory
<1>25. (dft = Len(tgt.kv))'
  BY <1>14, <1>15
<1> QED BY <1>15, <1>18, <1>19, <1>21, <1>22, <1>23, <1>24, <1>25 DEF IInv

\* update_batch(): the last token and a draft come after what is in memory.
LEMMA BatchedOk ==
  ASSUME IInv, pc = "build", state = "gen", NEW d \in Seq(Token), Batched(d),
         dft' = dft, mtp' \in MtpType, Carried(mtp', tgt.kv),
         d # <<>> /\ NeedsCkpt(Len(d)) => Covers(ckpt', Base)
  PROVE  IInv'
<1>1. /\ draft' = d /\ batch' = sampled \o d /\ toks' = toks \o (sampled \o d) /\ pc' = "decode"
      /\ kind' = kind /\ tgt' = tgt /\ state' = state /\ prompt' = prompt /\ ckpts' = ckpts
      /\ sampled' = sampled /\ sent' = sent
  BY DEF Batched
<1>2. /\ Base \in Seq(Token) /\ sampled \in Seq(Token) /\ Len(sampled) = 1
      /\ Base \o sampled = History /\ Begins(prompt, Base) /\ toks = Base
      /\ sent # <<>> /\ sampled = <<sent[Len(sent)]>> /\ prompt # <<>>
  <2>1. /\ Base \in Seq(Token) /\ sampled \in Seq(Token) /\ Len(sampled) = 1
        /\ Base \o sampled = History /\ Begins(prompt, Base)
    BY BaseIs
  <2>2. toks = Base /\ sent # <<>> /\ sampled = <<sent[Len(sent)]>> /\ prompt # <<>>
    BY DEF IInv, Phases
  <2> QED BY <2>1, <2>2
<1>3. /\ toks = tgt.kv /\ Holds(tgt, tgt.kv) /\ dft = Len(tgt.kv)
      /\ prompt \in Seq(Token) /\ sent \in Seq(Token) /\ kind \in Kinds
  BY InMemory DEF IInv, Tokens
<1>4. /\ sampled \o d \in Seq(Token) /\ Len(sampled \o d) = 1 + Len(d)
      /\ (Base \o sampled) \o d = Base \o (sampled \o d)
  <2>1. sampled \o d \in Seq(Token) /\ Len(sampled \o d) = Len(sampled) + Len(d)
    BY <1>2, Concat
  <2>2. (Base \o sampled) \o d = Base \o (sampled \o d)
    <3>1. Base \in Seq(Token) /\ sampled \in Seq(Token)
      BY <1>2
    <3> QED BY <3>1, ThreeInARow
  <2> QED BY <1>2, <2>1, <2>2
<1>5. toks' = History \o d /\ toks' = tgt.kv \o batch' /\ batch' # <<>>
  <2>1. Len(batch') = 1 + Len(d) /\ Len(d) \in Nat
    BY <1>1, <1>4
  <2>2. batch' # <<>>
    BY <2>1
  <2> QED BY <1>1, <1>2, <1>3, <1>4, <2>2
<1>6. /\ toks' \in Seq(Token) /\ Len(toks') = Len(Base) + Len(sampled \o d)
      /\ \A k \in 1 .. Len(Base) + Len(sampled \o d) :
           toks'[k] = IF k <= Len(Base) THEN Base[k] ELSE (sampled \o d)[k - Len(Base)]
  <2> DEFINE e == sampled \o d
  <2>1. e \in Seq(Token) /\ toks' = Base \o e
    BY <1>1, <1>2, <1>4
  <2> HIDE DEF e
  <2>2. /\ toks' \in Seq(Token) /\ Len(toks') = Len(Base) + Len(e)
        /\ \A k \in 1 .. Len(Base) + Len(e) :
             toks'[k] = IF k <= Len(Base) THEN Base[k] ELSE e[k - Len(Base)]
    BY <1>2, <2>1, Concat
  <2> QED BY <2>2 DEF e
<1>7. Along(toks', prompt)
  <2> SUFFICES ASSUME NEW k \in 1 .. Len(prompt), k <= Len(toks') PROVE toks'[k] = prompt[k]
    BY DEF Along
  <2>1. k \in 1 .. Len(Base) /\ prompt[k] = Base[k]
    BY <1>2 DEF Begins
  <2>2. Len(sampled \o d) \in Nat /\ Len(Base) \in Nat
    BY <1>2, <1>4
  <2>3. k \in 1 .. Len(Base) + Len(sampled \o d) /\ k <= Len(Base)
    BY <2>1, <2>2
  <2> QED BY <1>6, <2>1, <2>3
<1>8. History' = History /\ Base' = Base
  BY <1>1 DEF History, Base
<1>9. (Holds(tgt, tgt.kv))' /\ tgt'.kv = tgt.kv
  <2>1. Holds(tgt', tgt.kv)
    BY <1>1, <1>3
  <2> QED BY <1>1, <2>1, HoldsNext
<1>10. Tokens'
  BY <1>1, <1>2, <1>3, <1>4, <1>6 DEF Tokens
<1>11. Phases'
  BY <1>1, <1>2, <1>5, <1>8, <1>9 DEF Phases
<1>12. Checkpoints'
  BY <1>1, <1>7, CkptsKept
<1>13. DraftCkpt'
  BY <1>1, <1>8 DEF DraftCkpt, NeedsCkpt, Covers
<1>14. Seen'
  BY <1>1, <1>9 DEF Seen
<1>15. Snapshots' /\ SampledFromHistory'
  BY <1>1 DEF Snapshots, SampledFromHistory
<1>16. (dft = Len(tgt.kv))'
  BY <1>3, <1>9
<1> QED BY <1>9, <1>10, <1>11, <1>12, <1>13, <1>14, <1>15, <1>16 DEF IInv

LEMMA BuildDraftOk ==
  ASSUME IInv, BuildDraft
  PROVE  IInv'
<1>1. pc = "build" /\ state = "gen" /\ dft' = MinOf(dft, PosMax(tgt) + 1)
  BY DEF BuildDraft
<1> DEFINE max == IF CanDraft(mtp, Len(toks)) /\ dft = Len(toks) THEN DraftMax ELSE 0
<1>2. PICK d \in Drafts(max) :
        /\ ckpt' = [n |-> Len(toks), pos |-> PosMax(tgt), spec |-> Saved(mtp),
                    data |-> IF d # <<>> /\ NeedsCkpt(Len(d)) THEN Partial(tgt) ELSE ckpt.data]
        /\ mtp' = [mtp EXCEPT !.drafted = Len(d)]
        /\ Batched(d)
  BY DEF BuildDraft
<1> HIDE DEF max
<1>3. d \in Seq(Token)
  <2>1. PICK n \in 0 .. max : d \in [1 .. n -> Token]
    BY DEF Drafts
  <2> QED BY <2>1
<1>4. /\ tgt.kv \in Seq(Token) /\ Holds(tgt, tgt.kv) /\ dft = Len(tgt.kv) /\ mtp \in MtpType
      /\ Carried(mtp, tgt.kv) /\ toks = tgt.kv
  BY <1>1, InMemory
<1>5. toks = Base /\ Base \in Seq(Token) /\ Base # <<>>
  BY <1>1, BaseIs DEF IInv, Phases
<1>6. dft' = dft
  <2>1. PosMax(tgt) = Len(tgt.kv) - 1
    BY <1>4, PosMaxIs
  <2>2. Len(tgt.kv) \in Int /\ (Len(tgt.kv) - 1) + 1 = Len(tgt.kv)
    BY <1>4
  <2> QED BY <1>1, <1>4, <2>1, <2>2, MinOfIs
<1>7. mtp' \in MtpType /\ Carried(mtp', tgt.kv)
  <2> DEFINE o == [mtp EXCEPT !.drafted = Len(d)]
  <2>1. Len(d) \in Nat
    BY <1>3
  <2>2. o \in MtpType /\ o.pend = mtp.pend /\ o.prev = mtp.prev /\ o.ring = mtp.ring
    BY <1>4, <2>1 DEF MtpType
  <2> HIDE DEF o
  <2>3. Carried(o, tgt.kv)
    BY <1>4, <2>2 DEF Carried
  <2> QED BY <1>2, <2>2, <2>3 DEF o
<1>8. ASSUME d # <<>>, NeedsCkpt(Len(d)) PROVE Covers(ckpt', Base)
  <2>1. Recurrent
    BY <1>8 DEF NeedsCkpt, Recurrent
  <2>2. Partial(tgt) = <<[pos |-> Len(Base) - 1, row |-> Base]>>
    BY <1>4, <1>5, <2>1, PartialIs
  <2>3. PosMax(tgt) = Len(Base) - 1
    BY <1>4, <1>5, PosMaxIs
  <2>4. CarriedBack(Saved(mtp), Base)
    BY <1>4, <1>5, SavedTrue
  <2>5. ckpt' = [n |-> Len(Base), pos |-> Len(Base) - 1, spec |-> Saved(mtp), data |-> Partial(tgt)]
    BY <1>2, <1>5, <1>8, <2>3
  <2>6. ckpt'.n = Len(Base) /\ ckpt'.pos = Len(Base) - 1 /\ ckpt'.spec = Saved(mtp) /\ ckpt'.data = Partial(tgt)
    BY <2>5
  <2> QED BY <1>5, <2>2, <2>4, <2>6 DEF Covers
<1> QED BY <1>1, <1>2, <1>3, <1>6, <1>7, <1>8, BatchedOk

LEMMA BuildReplayOk ==
  ASSUME IInv, BuildReplay
  PROVE  IInv'
<1>1. pc = "build" /\ state = "gen"
  BY DEF BuildReplay
<1>2. draft # <<>> /\ kind.rm = "full" => ckpt.data # <<>>
  <2> SUFFICES ASSUME draft # <<>>, kind.rm = "full" PROVE ckpt.data # <<>>
    OBVIOUS
  <2>1. Covers(ckpt, Base)
    BY DEF IInv, DraftCkpt, NeedsCkpt
  <2>2. ckpt.data = <<[pos |-> Len(Base) - 1, row |-> Base]>>
    BY <2>1 DEF Covers
  <2> QED BY <2>2
<1>3. Batched(draft) /\ dft' = dft /\ mtp' = mtp /\ ckpt' = ckpt
  BY <1>2 DEF BuildReplay
<1>4. mtp \in MtpType /\ Carried(mtp, tgt.kv) /\ draft \in Seq(Token)
  BY InMemory DEF IInv, Tokens
<1>5. draft # <<>> /\ NeedsCkpt(Len(draft)) => Covers(ckpt', Base)
  BY <1>3 DEF IInv, DraftCkpt
<1> QED BY <1>1, <1>3, <1>4, <1>5, BatchedOk

-----------------------------------------------------------------------------
(* The prompt *)

\* create_checkpoint(): what is in memory before the batch.
LEMMA NewCkptIs ==
  ASSUME IInv, pc = "build", state = "prompt", Recurrent, PosMin(tgt) >= 0,
         NEW t, Along(t, toks)
  PROVE  NewCkpt(Len(toks)) \in CkptType /\ Stored(NewCkpt(Len(toks)), state, prompt, t)
<1> DEFINE c == NewCkpt(Len(toks))
           data == <<[pos |-> Len(toks) - 1, row |-> toks]>>
<1>1. /\ toks \in Seq(Token) /\ toks = tgt.kv /\ Holds(tgt, toks)
      /\ mtp \in MtpType /\ Carried(mtp, toks) /\ Begins(toks, prompt)
  BY InMemory DEF IInv, Phases
<1>2. toks # <<>> /\ PosMax(tgt) = Len(toks) - 1
  BY <1>1, PosMaxIs
<1>3. Partial(tgt) = data
  BY <1>1, PartialIs
<1>4. CarriedBack(Saved(mtp), toks) /\ Saved(mtp) \in Seq(SavedType)
  BY <1>1, SavedTrue
<1>5. /\ c = [n |-> Len(toks), pos |-> Len(toks) - 1, data |-> data, spec |-> Saved(mtp)]
      /\ c.n = Len(toks) /\ c.pos = Len(toks) - 1 /\ c.data = data /\ c.spec = Saved(mtp)
  BY <1>2, <1>3 DEF NewCkpt
<1> HIDE DEF c
<1>6. data[1].row = toks /\ Len(toks) \in Nat /\ Len(toks) - 1 \in Int
      /\ data \in Seq([pos : Int, row : Seq(Token)])
  BY <1>1
<1> HIDE DEF data
<1>7. c \in CkptType
  BY <1>4, <1>5, <1>6 DEF CkptType
<1>8. CkptRow(c) = toks
  BY <1>5, <1>6 DEF CkptRow
<1>9. Covers(c, toks)
  BY <1>2, <1>4, <1>5 DEF Covers, data
<1> QED BY <1>1, <1>7, <1>8, <1>9 DEF Stored, c

LEMMA AddPromptOk ==
  ASSUME IInv, AddPrompt
  PROVE  IInv'
<1> DEFINE n == Len(toks)
           len == Len(prompt)
           stop == len - MinOf(NBatch, CkptTail)
           upto == IF NCkpt > 0 /\ Recurrent /\ n < stop THEN stop ELSE len
           end == MinOf(upto, n + NBatch)
<1>1. /\ pc = "build" /\ state = "prompt"
      /\ batch' = SubSeq(prompt, n + 1, end) /\ toks' = toks \o batch' /\ ckpts' = WithCkpt(n)
      /\ pc' = "decode" /\ kind' = kind /\ tgt' = tgt /\ dft' = dft /\ mtp' = mtp
      /\ state' = state /\ prompt' = prompt /\ sampled' = sampled /\ draft' = draft
      /\ sent' = sent
  BY DEF AddPrompt, memory
<1>2. /\ toks \in Seq(Token) /\ prompt \in Seq(Token) /\ sampled = <<>> /\ draft = <<>> /\ sent = <<>>
      /\ toks = tgt.kv /\ Holds(tgt, tgt.kv) /\ Begins(toks, prompt) /\ Len(toks) < Len(prompt)
      /\ dft = Len(tgt.kv) /\ mtp \in MtpType /\ Carried(mtp, tgt.kv) /\ prompt # <<>>
      /\ kind \in Kinds
  BY <1>1, InMemory DEF IInv, Phases, Tokens
<1>3. n \in Nat /\ len \in Nat /\ n < len
  BY <1>2
<1>4. end \in n + 1 .. len
  <2>1. NBatch \in Nat \ {0} /\ CkptTail \in Nat \ {0}
    BY SpecAssumption
  <2>2. MinOf(NBatch, CkptTail) \in Nat \ {0}
    BY <2>1 DEF MinOf
  <2>3. upto \in n + 1 .. len
    BY <1>3, <2>2
  <2> HIDE DEF upto
  <2> QED BY <1>3, <2>1, <2>3 DEF MinOf
<1> HIDE DEF end
<1>5. /\ batch' \in Seq(Token) /\ Len(batch') = end - n /\ batch' # <<>>
      /\ \A k \in 1 .. end - n : batch'[k] = prompt[n + k]
  <2>1. n + 1 \in 1 .. len + 1 /\ end \in (n + 1) - 1 .. len
    BY <1>3, <1>4
  <2>2. /\ batch' \in Seq(Token) /\ Len(batch') = end - (n + 1) + 1
        /\ \A k \in 1 .. end - (n + 1) + 1 : batch'[k] = prompt[(n + 1) + k - 1]
    BY <1>1, <1>2, <2>1, Cut, ZenonT(60)
  <2>3. end - (n + 1) + 1 = end - n /\ end - n \in Nat \ {0}
    BY <1>3, <1>4
  <2>4. \A k \in 1 .. end - n : (n + 1) + k - 1 = n + k
    BY <1>3, <1>4
  <2>5. Len(batch') # 0
    BY <2>2, <2>3
  <2>6. batch' # <<>>
    BY <2>5
  <2> QED BY <2>2, <2>3, <2>4, <2>6
<1>6. /\ toks' \in Seq(Token) /\ Len(toks') = end
      /\ \A k \in 1 .. end : toks'[k] = IF k <= n THEN toks[k] ELSE batch'[k - n]
  <2>1. /\ toks' \in Seq(Token) /\ Len(toks') = n + Len(batch')
        /\ \A k \in 1 .. n + Len(batch') : toks'[k] = IF k <= n THEN toks[k] ELSE batch'[k - n]
    <3> DEFINE b == batch'
    <3>1. b \in Seq(Token) /\ toks \in Seq(Token) /\ toks' = toks \o b
      BY <1>1, <1>2, <1>5
    <3> HIDE DEF b
    <3>2. /\ toks' \in Seq(Token) /\ Len(toks') = n + Len(b)
          /\ \A k \in 1 .. n + Len(b) : toks'[k] = IF k <= n THEN toks[k] ELSE b[k - n]
      BY <3>1, Concat
    <3> QED BY <3>2 DEF b
  <2>2. n + Len(batch') = end
    BY <1>3, <1>4, <1>5
  <2> QED BY <2>1, <2>2
<1>7. Begins(toks', prompt)
  <2>1. ASSUME NEW k \in 1 .. end PROVE toks'[k] = prompt[k]
    <3>1. CASE k <= n
      BY <1>2, <1>3, <1>6, <3>1 DEF Begins
    <3>2. CASE ~(k <= n)
      <4>1. k - n \in 1 .. end - n /\ n + (k - n) = k
        BY <1>3, <1>4, <3>2
      <4> QED BY <1>5, <1>6, <3>2, <4>1
    <3> QED BY <3>1, <3>2
  <2> QED BY <1>4, <1>6, <2>1 DEF Begins
<1>8. Along(toks', prompt) /\ Along(toks', toks)
  <2>1. Along(toks', prompt)
    BY <1>7 DEF Begins, Along
  <2>2. Along(toks', toks)
    BY <1>3, <1>4, <1>6 DEF Along
  <2> QED BY <2>1, <2>2
<1>9. /\ ckpts \in Seq(CkptType) /\ (ckpts # <<>> => Recurrent)
      /\ \A k \in 1 .. Len(ckpts) : Stored(ckpts[k], state, prompt, toks')
  BY <1>1, <1>8, StoredKept DEF IInv, Checkpoints
<1>10. Checkpoints'
  <2> DEFINE kept == IF Len(ckpts) < NCkpt THEN ckpts
                     ELSE SubSeq(ckpts, Len(ckpts) - NCkpt + 2, Len(ckpts))
             c == NewCkpt(n)
  <2>1. CASE ckpts' = ckpts
    BY <1>1, <1>8, <2>1, CkptsKept
  <2>2. CASE ckpts' = Append(kept, c) /\ NCkpt > 0 /\ Recurrent /\ PosMin(tgt) >= 0
    <3>1. c \in CkptType /\ Stored(c, state, prompt, toks')
      BY <1>1, <1>8, <2>2, NewCkptIs
    <3>2. /\ kept \in Seq(CkptType)
          /\ \A k \in 1 .. Len(kept) : Stored(kept[k], state, prompt, toks')
      <4>1. CASE Len(ckpts) < NCkpt
        BY <1>9, <4>1
      <4>2. CASE ~(Len(ckpts) < NCkpt)
        <5> DEFINE a == Len(ckpts) - NCkpt + 2
                   z == Len(ckpts)
        <5>1. NCkpt \in Nat /\ z \in Nat
          BY <1>9, SpecAssumption
        <5>2. a \in 1 .. z + 1 /\ z \in a - 1 .. z
          BY <2>2, <4>2, <5>1
        <5>3. kept = SubSeq(ckpts, a, z)
          BY <4>2
        <5> HIDE DEF a, kept
        <5>4. /\ kept \in Seq(CkptType) /\ Len(kept) = z - a + 1
              /\ \A k \in 1 .. z - a + 1 : kept[k] = ckpts[a + k - 1]
          BY <1>9, <5>2, <5>3, Cut
        <5>5. \A k \in 1 .. z - a + 1 : a + k - 1 \in 1 .. z
          BY <5>1, <5>2
        <5> QED BY <1>9, <5>4, <5>5
      <4> QED BY <4>1, <4>2
    <3> HIDE DEF kept, c
    <3>3. /\ ckpts' \in Seq(CkptType) /\ Len(ckpts') = Len(kept) + 1
          /\ \A k \in 1 .. Len(kept) + 1 : ckpts'[k] = IF k <= Len(kept) THEN kept[k] ELSE c
      BY <2>2, <3>1, <3>2
    <3>4. \A k \in 1 .. Len(ckpts') : Stored(ckpts'[k], state, prompt, toks')
      <4> TAKE k \in 1 .. Len(ckpts')
      <4>1. CASE k <= Len(kept)
        BY <3>2, <3>3, <4>1
      <4>2. CASE ~(k <= Len(kept))
        BY <3>1, <3>3, <4>2
      <4> QED BY <4>1, <4>2
    <3>5. (Recurrent)'
      BY <1>1, <2>2 DEF Recurrent
    <3> QED BY <1>1, <3>3, <3>4, <3>5 DEF Checkpoints
  <2> QED BY <1>1, <2>1, <2>2 DEF WithCkpt
<1>11. (Holds(tgt, tgt.kv))' /\ tgt'.kv = tgt.kv
  <2>1. Holds(tgt', tgt.kv)
    BY <1>1, <1>2
  <2> QED BY <1>1, <2>1, HoldsNext
<1>12. Tokens'
  BY <1>1, <1>5, <1>6 DEF IInv, Tokens
<1>13. Phases'
  BY <1>1, <1>2, <1>5, <1>7, <1>11 DEF Phases
<1>14. Snapshots' /\ SampledFromHistory' /\ DraftCkpt'
  BY <1>1, <1>2 DEF Snapshots, SampledFromHistory, DraftCkpt
<1>15. Seen'
  BY <1>1, <1>2, <1>11 DEF Seen
<1>16. (dft = Len(tgt.kv))'
  BY <1>1, <1>2
<1> QED BY <1>10, <1>11, <1>12, <1>13, <1>14, <1>15, <1>16 DEF IInv

-----------------------------------------------------------------------------
(* Decoding *)

\* What the target has consumed at the rows of a batch.
LEMMA RowsOfBatch ==
  ASSUME kind \in Kinds, NEW m, NEW s \in Seq(Token), NEW ts \in Seq(Token), ts # <<>>,
         Holds(m, s), NEW hs, hs = [k \in DOMAIN ts |-> Consumed(m, ts, k)]
  PROVE  /\ hs = [k \in DOMAIN ts |-> s \o First(ts, k)]
         /\ hs \in Seq(Seq(Token)) /\ Len(hs) = Len(ts)
         /\ \A k \in 1 .. Len(ts) : hs[k] = First(s \o ts, Len(s) + k)
<1>1. DOMAIN ts = 1 .. Len(ts) /\ Len(ts) \in Nat
  OBVIOUS
<1>2. \A k \in 1 .. Len(ts) : Consumed(m, ts, k) = s \o First(ts, k)
  <2>1. \A k \in 0 .. Len(ts) : Consumed(m, ts, k) = s \o First(ts, k)
    BY DecodedHolds
  <2> QED BY <2>1
<1>3. hs = [k \in DOMAIN ts |-> s \o First(ts, k)]
  BY <1>1, <1>2
<1>4. \A k \in 1 .. Len(ts) : s \o First(ts, k) = First(s \o ts, Len(s) + k) /\ s \o First(ts, k) \in Seq(Token)
  <2> TAKE k \in 1 .. Len(ts)
  <2>1. k \in 0 .. Len(ts)
    OBVIOUS
  <2>2. First(ts, k) \in Seq(Token)
    BY <2>1, FirstIs
  <2> QED BY <2>1, <2>2, FirstConcat, Concat
<1>5. hs \in [1 .. Len(ts) -> Seq(Token)]
  BY <1>1, <1>3, <1>4
<1>6. hs \in Seq(Seq(Token)) /\ Len(hs) = Len(ts)
  BY <1>1, <1>5
<1>7. \A k \in 1 .. Len(ts) : hs[k] = First(s \o ts, Len(s) + k)
  BY <1>1, <1>3, <1>4
<1> QED BY <1>3, <1>6, <1>7

LEMMA DecodeOk ==
  ASSUME IInv, Decode
  PROVE  IInv'
<1> DEFINE kv == tgt.kv
           hs == [k \in DOMAIN batch |-> Consumed(tgt, batch, k)]
           done == Len(toks) = Len(prompt) \/ state = "gen"
           p0 == Len(toks) - Len(batch)
<1>1. pc = "decode" /\ state \in {"prompt", "gen"} /\ prompt # <<>> /\ state # "idle"
  BY DEF Decode, IInv, Phases
<1>2. /\ toks \in Seq(Token) /\ kv \in Seq(Token) /\ Holds(tgt, kv) /\ dft = Len(kv)
      /\ mtp \in MtpType /\ Carried(mtp, kv)
      /\ batch \in Seq(Token) /\ batch # <<>> /\ toks = kv \o batch
      /\ prompt \in Seq(Token) /\ sent \in Seq(Token) /\ draft \in Seq(Token)
      /\ kind \in Kinds /\ sampled \in Seq(Token)
  BY <1>1, InMemory DEF IInv, Tokens, Phases
<1> HIDE DEF kv
<1>3. Len(toks) = Len(kv) + Len(batch) /\ Len(kv) \in Nat /\ Len(batch) \in Nat \ {0}
  <2>1. Len(kv \o batch) = Len(kv) + Len(batch)
    BY <1>2, Concat
  <2> QED BY <1>2, <2>1, NotEmpty
<1>4. p0 = Len(kv) /\ PosMax(tgt) + 1 = p0
  <2>1. PosMax(tgt) = Len(kv) - 1
    BY <1>2, PosMaxIs
  <2> QED BY <1>3, <2>1
<1>5. /\ tgt' = Decoded(tgt, batch) /\ dft' = Len(kv) + Len(batch)
      /\ mtp' = Observed(mtp, Len(kv), hs)
      /\ out' = IF done THEN SubSeq(hs, Len(hs) - Len(draft), Len(hs)) ELSE <<>>
      /\ state' = (IF done THEN "gen" ELSE state) /\ pc' = (IF done THEN "sample" ELSE "build")
      /\ batch' = <<>> /\ kind' = kind /\ prompt' = prompt /\ toks' = toks
      /\ ckpts' = ckpts /\ draft' = draft /\ ckpt' = ckpt /\ sampled' = sampled /\ sent' = sent
  BY <1>2, <1>4 DEF Decode, slot, kv
<1> HIDE DEF hs, p0
<1>6. /\ hs = [k \in DOMAIN batch |-> kv \o First(batch, k)]
      /\ hs \in Seq(Seq(Token)) /\ Len(hs) = Len(batch)
      /\ \A k \in 1 .. Len(batch) : hs[k] = First(toks, Len(kv) + k)
  BY <1>2, RowsOfBatch, SMTT(30) DEF hs
<1>7. /\ Holds(tgt', toks)
      /\ Recurrent => /\ tgt'.idx = 0
                      /\ \A g \in 0 .. kind.n_rs :
                           g < Len(batch) => tgt'.rows[g] = First(toks, Len(toks) - g)
  BY <1>2, <1>5, DecodedHolds
<1>8. (Holds(tgt, tgt.kv))' /\ tgt'.kv = toks
  BY <1>5, <1>7, HoldsNext
<1>9. /\ mtp' \in MtpType /\ Carried(mtp', toks) /\ True(mtp'.bound, toks) /\ RowsOf(mtp', toks)
  BY <1>2, <1>5, <1>6, ObservedTrue
<1>10. state = "gen" => toks = History \o draft
  BY <1>1 DEF IInv, Phases
<1>11. state = "prompt" => Begins(toks, prompt) /\ draft = <<>> /\ sent = <<>> /\ sampled = <<>>
  BY DEF IInv, Phases
<1>12. done => toks = History \o draft
  <2>1. CASE state = "gen"
    BY <1>10, <2>1
  <2>2. CASE state = "prompt" /\ Len(toks) = Len(prompt)
    <3>1. toks = prompt
      <4>1. toks \in Seq(Token) /\ prompt \in Seq(Token) /\ Begins(toks, prompt)
        BY <1>2, <1>11, <2>2
      <4>2. toks = First(prompt, Len(prompt))
        BY <2>2, <4>1, BeginsIs
      <4> QED BY <4>1, <4>2, FirstAll
    <3>2. prompt \o <<>> = prompt
      BY <1>2
    <3> QED BY <1>11, <2>2, <3>1, <3>2 DEF History
  <2> QED BY <1>1, <2>1, <2>2
<1>13. Len(draft) < Len(batch) /\ Len(draft) \in Nat
  <2>1. CASE state = "gen"
    <3>1. batch = sampled \o draft /\ Len(sampled) = 1
      BY <1>1, <2>1, BaseIs DEF IInv, Phases
    <3>2. Len(batch) = 1 + Len(draft)
      <4>1. Len(sampled \o draft) = Len(sampled) + Len(draft)
        BY <1>2, Concat
      <4> QED BY <3>1, <4>1
    <3>3. Len(draft) \in Nat
      BY <1>2
    <3> QED BY <3>2, <3>3
  <2>2. CASE state = "prompt"
    <3>1. Len(draft) = 0
      BY <1>11, <2>2
    <3> QED BY <1>3, <3>1
  <2> QED BY <1>1, <2>1, <2>2
<1>14. History' = History /\ Base' = Base
  BY <1>5 DEF History, Base
<1>15. Tokens'
  <2>1. <<>> \in Seq(Token)
    OBVIOUS
  <2> QED BY <1>2, <1>5, <2>1 DEF Tokens
<1>16. Phases'
  <2>1. CASE ~done
    <3>1. state = "prompt" /\ state' = "prompt" /\ pc' = "build" /\ Len(toks) # Len(prompt)
      BY <1>1, <1>5, <2>1
    <3>2. Begins(toks, prompt) /\ Len(toks) < Len(prompt)
      BY <1>2, <1>11, <3>1 DEF Begins
    <3> QED BY <1>1, <1>5, <1>8, <1>11, <3>1, <3>2 DEF Phases
  <2>2. CASE done
    <3>1. state' = "gen" /\ pc' = "sample"
      BY <1>5, <2>2
    <3>2. draft # <<>> => state = "gen"
      BY <1>1, <1>11
    <3>3. draft # <<>> => sent # <<>> /\ sampled = <<sent[Len(sent)]>>
      BY <3>2 DEF IInv, Phases
    <3> QED BY <1>1, <1>5, <1>8, <1>12, <1>14, <2>2, <3>1, <3>3 DEF Phases
  <2> QED BY <2>1, <2>2
<1>17. Snapshots'
  <2> SUFFICES ASSUME Recurrent
               PROVE  /\ tgt'.idx = 0
                      /\ \A g \in 0 .. kind.n_rs :
                           g <= Len(draft) => tgt'.rows[g] = First(toks, Len(toks) - g)
    BY <1>5, <1>8 DEF Snapshots, Recurrent
  <2>1. ASSUME NEW g \in 0 .. kind.n_rs, g <= Len(draft)
        PROVE  g < Len(batch)
    <3>1. kind.n_rs \in Nat
      BY <1>2, KindIs
    <3> QED BY <1>3, <1>13, <2>1, <3>1
  <2> QED BY <1>7, <2>1
<1>18. Checkpoints'
  <2>1. Along(toks', prompt)
    BY <1>1, <1>5, AlongPrompt
  <2> QED BY <1>1, <1>5, <2>1, CkptsKept
<1>19. DraftCkpt'
  BY <1>5, <1>14 DEF IInv, DraftCkpt, NeedsCkpt
<1>20. Seen'
  BY <1>8, <1>9 DEF Seen
<1>21. SampledFromHistory'
  <2> SUFFICES ASSUME done
               PROVE  /\ toks = History \o draft
                      /\ \A k \in DOMAIN out' : out'[k] = History \o First(draft, k - 1)
    BY <1>5, <1>8 DEF SampledFromHistory, History
  <2> DEFINE a == Len(batch) - Len(draft)
             z == Len(batch)
  <2>1. a \in 1 .. z + 1 /\ z \in a - 1 .. z /\ a \in Nat
    BY <1>3, <1>13
  <2>2. out' = SubSeq(hs, a, z)
    BY <1>5, <1>6
  <2>3. /\ out' \in Seq(Seq(Token)) /\ Len(out') = z - a + 1
        /\ \A k \in 1 .. z - a + 1 : out'[k] = hs[a + k - 1]
    <3> DEFINE T == Seq(Token)
    <3>1. hs \in Seq(T) /\ a \in 1 .. Len(hs) + 1 /\ z \in a - 1 .. Len(hs)
      BY <1>6, <2>1
    <3> HIDE DEF T, a, z
    <3>2. /\ SubSeq(hs, a, z) \in Seq(T) /\ Len(SubSeq(hs, a, z)) = z - a + 1
          /\ \A k \in 1 .. z - a + 1 : SubSeq(hs, a, z)[k] = hs[a + k - 1]
      BY <3>1, Cut
    <3> QED BY <2>2, <3>2 DEF T
  <2>4. DOMAIN out' = 1 .. Len(draft) + 1
    <3>1. z - a + 1 = Len(draft) + 1
      BY <1>3, <1>13
    <3>2. DOMAIN out' = 1 .. Len(out')
      BY <2>3
    <3> QED BY <2>3, <3>1, <3>2
  <2>5. History \in Seq(Token) /\ Len(toks) = Len(History) + Len(draft) /\ Len(History) \in Nat
    <3>1. History \in Seq(Token)
      BY <1>1, HistoryIs
    <3>2. Len(History \o draft) = Len(History) + Len(draft)
      BY <1>2, <3>1, Concat
    <3> QED BY <1>12, <3>1, <3>2
  <2>6. ASSUME NEW k \in 1 .. Len(draft) + 1
        PROVE  out'[k] = History \o First(draft, k - 1)
    <3>1. /\ a + k - 1 \in 1 .. Len(batch) /\ k \in 1 .. z - a + 1
          /\ k - 1 \in 0 .. Len(draft) /\ Len(kv) + (a + k - 1) = Len(History) + (k - 1)
      BY <1>3, <1>13, <2>5
    <3>2. out'[k] = First(toks, Len(History) + (k - 1))
      BY <1>6, <2>3, <3>1
    <3>3. First(History \o draft, Len(History) + (k - 1)) = History \o First(draft, k - 1)
      <4>1. History \in Seq(Token) /\ draft \in Seq(Token) /\ k - 1 \in 0 .. Len(draft)
        BY <1>2, <2>5, <3>1
      <4> QED BY <4>1, FirstConcat
    <3> QED BY <1>12, <3>2, <3>3
  <2> QED BY <1>12, <2>4, <2>6
<1>22. (dft = Len(tgt.kv))'
  BY <1>3, <1>5, <1>8
<1> QED BY <1>8, <1>15, <1>16, <1>17, <1>18, <1>19, <1>20, <1>21, <1>22 DEF IInv

-----------------------------------------------------------------------------
(* A request: what of the memory is used again *)

\* get_common_prefix
LEMMA CommonIs ==
  ASSUME NEW s \in Seq(Token), NEW t \in Seq(Token)
  PROVE  /\ CommonPrefix(s, t) \in 0 .. Len(s) /\ CommonPrefix(s, t) \in 0 .. Len(t)
         /\ First(s, CommonPrefix(s, t)) = First(t, CommonPrefix(s, t))
<1> DEFINE low == MinOf(Len(s), Len(t))
           same == {n \in 0 .. low : First(s, n) = First(t, n)}
<1>1. low \in Nat /\ low <= Len(s) /\ low <= Len(t)
  BY MinOfIs DEF MinOf
<1> HIDE DEF low
<1>2. 0 \in same
  <2>1. 0 \in 0 .. Len(s) /\ 0 \in 0 .. Len(t) /\ 0 \in 0 .. low
    BY <1>1
  <2>2. /\ First(s, 0) \in Seq(Token) /\ Len(First(s, 0)) = 0
        /\ First(t, 0) \in Seq(Token) /\ Len(First(t, 0)) = 0
    BY <2>1, FirstIs
  <2>3. First(s, 0) = First(t, 0)
    BY <2>2
  <2> QED BY <2>1, <2>3
<1>3. \A x \in same : x \in 0 .. low
  OBVIOUS
<1>4. CommonPrefix(s, t) = CHOOSE n \in same : \A k \in same : k <= n
  BY DEF CommonPrefix, low
<1>5. \A x \in same : First(s, x) = First(t, x)
  OBVIOUS
<1> HIDE DEF same
<1>6. PICK k \in same : k = (CHOOSE x \in same : \A y \in same : y <= x) /\ \A j \in same : j <= k
  BY <1>1, <1>2, <1>3, ChosenGreatest
<1>7. CommonPrefix(s, t) \in same
  BY <1>4, <1>6
<1> QED BY <1>1, <1>3, <1>5, <1>7

LEMMA NewestCkptIs ==
  ASSUME NEW n \in Nat, NEW at, \A k \in at : k \in 1 .. n
  PROVE  \/ NewestCkpt(at) = 0
         \/ NewestCkpt(at) \in at /\ NewestCkpt(at) > 0
<1>1. CASE at = {}
  BY <1>1 DEF NewestCkpt
<1>2. CASE at # {}
  <2>1. \A k \in at : k \in 0 .. n
    OBVIOUS
  <2>2. PICK k \in at : k = (CHOOSE x \in at : \A y \in at : y <= x) /\ \A j \in at : j <= k
    BY <1>2, <2>1, ChosenGreatest
  <2>3. NewestCkpt(at) = k
    BY <1>2, <2>2 DEF NewestCkpt
  <2> QED BY <2>3
<1> QED BY <1>1, <1>2

\* A checkpoint before the n-th token is true of the tokens in memory.
LEMMA CkptBefore ==
  ASSUME IInv, NEW k \in 1 .. Len(ckpts), NEW n \in 0 .. Len(toks), ckpts[k].pos < n
  PROVE  LET c == ckpts[k]
             q == c.pos + 1
         IN  /\ Recurrent /\ q \in 1 .. n /\ c.n = q
             /\ c.data = <<[pos |-> Len(First(toks, q)) - 1, row |-> First(toks, q)]>>
             /\ CarriedBack(c.spec, First(toks, q))
             /\ CkptRow(c) = First(toks, q) /\ Covers(c, CkptRow(c))
<1> DEFINE c == ckpts[k]
           q == c.pos + 1
           r == CkptRow(c)
<1>1. r \in Seq(Token) /\ Covers(c, r) /\ Along(toks, r) /\ toks \in Seq(Token) /\ ckpts \in Seq(CkptType)
  BY DEF IInv, Checkpoints, Stored, Tokens
<1>2. Recurrent
  <2>1. ckpts # <<>>
    OBVIOUS
  <2> QED BY <2>1 DEF IInv, Checkpoints
<1> HIDE DEF r
<1>3. /\ r # <<>> /\ c.n = Len(r) /\ c.pos = Len(r) - 1
      /\ c.data = <<[pos |-> Len(r) - 1, row |-> r]>> /\ CarriedBack(c.spec, r)
  BY <1>1 DEF Covers
<1> HIDE DEF c
<1>4. Len(r) \in Nat \ {0} /\ c.pos < n
  BY <1>1, <1>3, NotEmpty DEF c
<1>5. q = Len(r) /\ q \in 1 .. n /\ q \in 0 .. Len(toks)
  <2>1. Len(r) \in Int
    BY <1>4
  <2>2. q = Len(r)
    BY <1>3, <2>1
  <2>3. Len(r) - 1 < n
    BY <1>3, <1>4
  <2>4. Len(toks) \in Nat
    BY <1>1
  <2> QED BY <1>4, <2>2, <2>3, <2>4
<1> HIDE DEF q
<1>6. Begins(r, toks)
  <2>1. ASSUME NEW j \in 1 .. Len(r) PROVE r[j] = toks[j]
    <3>1. j <= Len(toks)
      BY <1>5
    <3> QED BY <1>1, <3>1 DEF Along
  <2> QED BY <1>5, <2>1 DEF Begins
<1>7. r = First(toks, q)
  BY <1>1, <1>5, <1>6, BeginsIs
<1> QED BY <1>1, <1>2, <1>3, <1>5, <1>7 DEF c, q, r

\* s is a memory that can go on after the first s.n tokens.
Fit(s, lcp) ==
  /\ s = [n |-> s.n, next |-> s.next, tgt |-> s.tgt, dft |-> s.dft, mtp |-> s.mtp]
  /\ s.n \in 0 .. lcp /\ s.tgt \in MemType /\ s.dft \in Nat /\ s.n <= s.dft
  /\ s.mtp \in MtpType /\ Carried(s.mtp, First(toks, s.n))
  /\ s.n > 0 => Ready(s.tgt, First(toks, s.n))

\* The tail is taken out, a checkpoint is loaded, or the memory is used no more.
LEMMA TrailingIs ==
  ASSUME IInv, pc # "decode", NEW lcp \in 1 .. Len(toks) - 1,
         Recurrent /\ Len(toks) - lcp <= kind.n_rs =>
           tgt.rows[Len(toks) - lcp] = First(toks, lcp),
         \A k \in 1 .. Len(ckpts) : ckpts[k].pos # lcp,
         NEW s, s = [n |-> lcp, next |-> lcp, tgt |-> tgt, dft |-> dft, mtp |-> mtp]
  PROVE  Fit(TrailingRollback(s), lcp)
<1> DEFINE rm == CanRemove(tgt, lcp)
           m == IF rm THEN Removed(tgt, lcp) ELSE tgt
           d == IF rm THEN MinOf(dft, lcp) ELSE dft
           cut == IF rm THEN [s EXCEPT !.tgt = Removed(@, lcp), !.dft = MinOf(@, lcp)] ELSE s
           before == {k \in DOMAIN ckpts : ckpts[k].pos <= lcp}
           at == NewestCkpt(before)
           q == ckpts[at].pos + 1
<1>1. /\ toks \in Seq(Token) /\ toks = tgt.kv /\ Holds(tgt, toks) /\ dft = Len(toks)
      /\ mtp \in MtpType /\ Carried(mtp, toks) /\ kind \in Kinds /\ tgt \in MemType
      /\ ckpts \in Seq(CkptType)
  BY InMemory DEF IInv, Tokens, Holds, Checkpoints
<1>2. lcp \in 0 .. Len(toks) /\ lcp \in Nat \ {0} /\ Len(toks) \in Nat
  BY <1>1
<1>3. rm => Holds(m, First(toks, lcp))
  <2> SUFFICES ASSUME rm PROVE Holds(Removed(tgt, lcp), First(toks, lcp))
    OBVIOUS
  <2>1. Recurrent => Len(toks) - lcp <= kind.n_rs
    <3>1. Recurrent => tgt.pos = Len(toks) - 1
      BY <1>1 DEF Holds, Settled
    <3>2. tgt.pos = Len(toks) - 1 => ~(lcp > tgt.pos) /\ tgt.pos - (lcp - 1) = Len(toks) - lcp
      BY <1>2
    <3> QED BY <1>2, <3>1, <3>2 DEF CanRemove
  <2> QED BY <1>1, <2>1, RemovedBack
<1>4. m \in MemType /\ d \in Nat /\ lcp <= d /\ \A j \in 1 .. lcp : Begins(First(toks, j), m.kv)
  <2>1. CASE rm
    <3>1. m \in MemType /\ m.kv = First(toks, lcp)
      BY <1>3, <2>1 DEF Holds
    <3>2. d = lcp
      <4>1. MinOf(dft, lcp) = lcp
        <5>1. dft \in Int /\ lcp \in Int /\ lcp <= dft
          BY <1>1, <1>2
        <5> QED BY <5>1, MinOfIs
      <4> QED BY <2>1, <4>1
    <3>3. ASSUME NEW j \in 1 .. lcp PROVE Begins(First(toks, j), First(toks, lcp))
      <4>1. First(toks, lcp) \in Seq(Token) /\ Len(First(toks, lcp)) = lcp
        BY <1>1, <1>2, FirstIs
      <4>2. First(First(toks, lcp), j) = First(toks, j)
        BY <1>1, <1>2, FirstFirst
      <4>3. j \in 0 .. Len(First(toks, lcp))
        BY <4>1
      <4> QED BY <4>1, <4>2, <4>3, FirstBegins
    <3> QED BY <1>2, <3>1, <3>2, <3>3
  <2>2. CASE ~rm
    <3>1. \A j \in 1 .. lcp : j \in 0 .. Len(toks)
      BY <1>2
    <3>2. \A j \in 1 .. lcp : Begins(First(toks, j), toks)
      BY <1>1, <3>1, FirstBegins
    <3> QED BY <1>1, <1>2, <2>2, <3>2
  <2> QED BY <2>1, <2>2
<1>5. cut = [n |-> lcp, next |-> lcp, tgt |-> m, dft |-> d, mtp |-> mtp]
  OBVIOUS
<1> HIDE DEF m, d, cut
<1>6. CASE rm /\ CanRollBack(mtp, lcp - 1)
  <2> DEFINE o == [n |-> lcp, next |-> lcp, tgt |-> m, dft |-> d, mtp |-> RolledBack(mtp, lcp - 1)]
  <2>1. TrailingRollback(s) = [cut EXCEPT !.mtp = RolledBack(@, lcp - 1)]
    BY <1>6 DEF TrailingRollback, cut
  <2>2. TrailingRollback(s) = o
    BY <1>5, <2>1
  <2>3. /\ First(toks, lcp) \in Seq(Token) /\ Len(First(toks, lcp)) = lcp
    BY <1>1, <1>2, FirstIs
  <2>4. Ready(m, First(toks, lcp))
    BY <1>3, <1>6, <2>3, HoldsReady
  <2>5. RolledBack(mtp, lcp - 1) \in MtpType /\ Carried(RolledBack(mtp, lcp - 1), First(toks, lcp))
    <3>1. Carried(mtp, First(toks, lcp))
      BY <1>1, <1>2, CarriedCut
    <3>2. lcp - 1 \in Int /\ lcp - 1 < Len(First(toks, lcp))
      BY <1>2, <2>3
    <3> QED BY <1>1, <1>6, <2>3, <3>1, <3>2, RolledBackTrue
  <2>6. Fit(o, lcp)
    <3>1. lcp \in 0 .. lcp
      BY <1>2
    <3> QED BY <1>4, <2>4, <2>5, <3>1 DEF Fit
  <2> QED BY <2>2, <2>6
<1>7. at = 0 \/ (at \in 1 .. Len(ckpts) /\ at > 0 /\ ckpts[at].pos < lcp)
  <2>1. \A k \in before : k \in 1 .. Len(ckpts) /\ ckpts[k].pos <= lcp
    BY <1>1
  <2>2. Len(ckpts) \in Nat
    BY <1>1
  <2> HIDE DEF before
  <2>3. at = 0 \/ (at \in before /\ at > 0)
    BY <2>1, <2>2, NewestCkptIs
  <2>4. ASSUME at \in before PROVE ckpts[at].pos < lcp
    <3>1. at \in 1 .. Len(ckpts) /\ ckpts[at].pos <= lcp
      BY <2>1, <2>4
    <3>2. ckpts[at] \in CkptType
      BY <1>1, <3>1
    <3>3. ckpts[at].pos \in Int /\ ckpts[at].pos # lcp
      BY <3>1, <3>2 DEF CkptType
    <3> QED BY <1>2, <3>1, <3>3
  <2> QED BY <2>1, <2>3, <2>4
<1> HIDE DEF before
<1>8. at > 0 => /\ Recurrent /\ q \in 1 .. lcp /\ ckpts[at].n = q
                /\ ckpts[at].data = <<[pos |-> Len(First(toks, q)) - 1, row |-> First(toks, q)]>>
                /\ CarriedBack(ckpts[at].spec, First(toks, q))
  BY <1>2, <1>7, CkptBefore
<1> HIDE DEF at
<1>9. ASSUME at > 0
      PROVE  /\ First(toks, q) \in Seq(Token) /\ Len(First(toks, q)) = q /\ q \in Nat
             /\ Loaded(m, ckpts[at].data) \in MemType
             /\ Ready(Loaded(m, ckpts[at].data), First(toks, q))
  <2> DEFINE u == First(toks, q)
             data == ckpts[at].data
  <2>1. q \in 0 .. Len(toks) /\ q \in 1 .. lcp /\ q \in Nat
    BY <1>2, <1>8, <1>9
  <2>2. u \in Seq(Token) /\ Len(u) = q
    BY <1>1, <2>1, FirstIs
  <2>3. u # <<>>
    BY <2>1, <2>2
  <2>4. Begins(u, m.kv) /\ Recurrent /\ data = <<[pos |-> Len(u) - 1, row |-> u]>>
    BY <1>4, <1>8, <1>9, <2>1
  <2> HIDE DEF u, data
  <2>5. Ready(Loaded(m, data), u)
    BY <1>1, <1>4, <2>2, <2>3, <2>4, LoadedReady
  <2> QED BY <2>1, <2>2, <2>5 DEF u, data, Ready
<1>10. CASE ~(rm /\ CanRollBack(mtp, lcp - 1)) /\ at > 0 /\ ckpts[at].spec # NoState
  <2> DEFINE u == First(toks, q)
             l == Loaded(m, ckpts[at].data)
             r == Restored(ckpts[at].spec)
             o == [n |-> q, next |-> lcp, tgt |-> l, dft |-> d, mtp |-> r]
  <2>1. TrailingRollback(s) = [cut EXCEPT !.tgt = Loaded(@, ckpts[at].data),
                                 !.n = MinOf(MinOf(ckpts[at].pos + 1, Len(toks)), ckpts[at].n),
                                 !.mtp = Restored(ckpts[at].spec)]
    <3>1. s.n = lcp /\ s.tgt = tgt /\ s.dft = dft /\ s.mtp = mtp
      OBVIOUS
    <3> QED BY <1>10, <3>1 DEF TrailingRollback, cut, at, before
  <2>2. MinOf(MinOf(q, Len(toks)), ckpts[at].n) = q
    <3>1. q \in Int /\ q <= Len(toks) /\ Len(toks) \in Int /\ ckpts[at].n = q
      BY <1>2, <1>8, <1>10
    <3>2. MinOf(q, Len(toks)) = q /\ MinOf(q, q) = q
      BY <3>1, MinOfIs
    <3> QED BY <3>1, <3>2
  <2>3. TrailingRollback(s) = o
    BY <1>5, <2>1, <2>2
  <2>4. r \in MtpType /\ Carried(r, u)
    BY <1>8, <1>9, <1>10, RestoredTrue
  <2>5. l \in MemType /\ Ready(l, u) /\ q \in 0 .. lcp /\ q <= d
    <3>1. q \in 1 .. lcp /\ lcp <= d /\ d \in Nat /\ lcp \in Nat
      BY <1>2, <1>4, <1>8, <1>10
    <3> QED BY <1>9, <1>10, <3>1
  <2> HIDE DEF l, r, q
  <2>6. Fit(o, lcp)
    BY <1>4, <2>4, <2>5 DEF Fit
  <2> QED BY <2>3, <2>6
<1>11. CASE ~(rm /\ CanRollBack(mtp, lcp - 1)) /\ ~(at > 0 /\ ckpts[at].spec # NoState)
  <2> DEFINE l == IF at > 0 THEN Loaded(m, ckpts[at].data) ELSE m
             o == [n |-> 0, next |-> lcp, tgt |-> l, dft |-> d, mtp |-> Reset]
  <2>1. TrailingRollback(s) = [cut EXCEPT !.tgt = IF at > 0 THEN Loaded(@, ckpts[at].data) ELSE @,
                                 !.n = 0, !.mtp = Reset]
    <3>1. s.n = lcp /\ s.tgt = tgt /\ s.dft = dft /\ s.mtp = mtp
      OBVIOUS
    <3> QED BY <1>11, <3>1 DEF TrailingRollback, cut, at, before
  <2>2. TrailingRollback(s) = o
    BY <1>5, <2>1
  <2>3. l \in MemType
    BY <1>4, <1>9
  <2>4. 0 \in 0 .. Len(toks) /\ 0 \in 0 .. lcp /\ 0 <= d
    BY <1>2, <1>4
  <2>5. First(toks, 0) \in Seq(Token)
    BY <1>1, <2>4, FirstIs
  <2>6. Reset \in MtpType /\ Carried(Reset, First(toks, 0))
    BY <2>5, ResetTrue
  <2> HIDE DEF l
  <2>7. Fit(o, lcp)
    BY <1>4, <2>3, <2>4, <2>6 DEF Fit
  <2> QED BY <2>2, <2>7
<1> QED BY <1>6, <1>10, <1>11

\* The state of a memory that lies beyond what is kept goes back to a checkpoint.
LEMMA BackIs ==
  ASSUME IInv, pc # "decode", NEW lcp \in 1 .. Len(toks) - 1,
         \A k \in 1 .. Len(ckpts) : ckpts[k].pos # lcp,
         NEW p \in Seq(Token), lcp <= Len(p), p # <<>>, NEW s, Fit(s, lcp)
  PROVE  LET o == BackToCkpt(s, p)
         IN  /\ Fit(o, lcp) /\ o.next \in 0 .. lcp
             /\ o.n = Len(p) => ~Recurrent \/ o.n = 1
<1> DEFINE new == s.n < Len(p)
           thold == MaxOf(0, s.n - (IF new THEN 0 ELSE 1))
           before == {k \in DOMAIN ckpts : /\ ckpts[k].pos <= s.n
                                           /\ (ckpts[k].pos < thold \/ ckpts[k].pos = 0)}
           at == NewestCkpt(before)
           q == ckpts[at].pos + 1
           o == BackToCkpt(s, p)
           next == MinOf(s.n, q)
           back == [s EXCEPT !.tgt = Loaded(@, ckpts[at].data),
                             !.n = MinOf(MinOf(next, Len(toks)), ckpts[at].n), !.next = next]
<1>1. /\ toks \in Seq(Token) /\ toks = tgt.kv /\ kind \in Kinds /\ ckpts \in Seq(CkptType)
      /\ ckpts # <<>> => Recurrent
  BY InMemory DEF IInv, Tokens, Checkpoints
<1>2. lcp \in 0 .. Len(toks) /\ lcp \in Nat \ {0} /\ Len(toks) \in Nat /\ Len(p) \in Nat \ {0}
  BY <1>1, NotEmpty
<1>3. /\ s = [n |-> s.n, next |-> s.next, tgt |-> s.tgt, dft |-> s.dft, mtp |-> s.mtp]
      /\ s.n \in 0 .. lcp /\ s.tgt \in MemType /\ s.dft \in Nat /\ s.n <= s.dft
      /\ s.mtp \in MtpType /\ Carried(s.mtp, First(toks, s.n))
      /\ s.n > 0 => Ready(s.tgt, First(toks, s.n))
  BY DEF Fit
<1>4. /\ s.n \in Nat /\ s.n \in 0 .. Len(toks) /\ ~(s.n >= Len(toks)) /\ s.n <= Len(p)
      /\ First(toks, s.n) \in Seq(Token) /\ Len(First(toks, s.n)) = s.n
  <2>1. s.n \in Nat /\ s.n \in 0 .. Len(toks) /\ ~(s.n >= Len(toks)) /\ s.n <= Len(p)
    BY <1>2, <1>3
  <2> QED BY <1>1, <2>1, FirstIs
<1>5. s.n > 0 /\ Recurrent => PosMin(s.tgt) = s.n - 1
  <2> SUFFICES ASSUME s.n > 0, Recurrent PROVE PosMin(s.tgt) = s.n - 1
    OBVIOUS
  <2>1. s.tgt.pos = s.n - 1 /\ Begins(First(toks, s.n), s.tgt.kv)
    BY <1>3, <1>4 DEF Ready
  <2>2. s.tgt.kv # <<>>
    BY <1>4, <2>1 DEF Begins
  <2> QED BY <2>1, <2>2 DEF PosMin
<1>6. thold = IF new THEN s.n ELSE s.n - 1
  <2>1. ~new => s.n = Len(p)
    BY <1>2, <1>4
  <2> QED BY <1>2, <1>4, <2>1 DEF MaxOf
<1> HIDE DEF thold
<1>7. CASE s.n = 0 \/ PosMin(s.tgt) < thold
  <2>1. o = [s EXCEPT !.next = s.n]
    BY <1>4, <1>7 DEF BackToCkpt, thold
  <2>2. o = [n |-> s.n, next |-> s.n, tgt |-> s.tgt, dft |-> s.dft, mtp |-> s.mtp]
    BY <1>3, <2>1
  <2> HIDE DEF o
  <2>3. Fit(o, lcp) /\ o.next = s.n /\ o.n = s.n
    BY <1>3, <2>2 DEF Fit
  <2>4. ASSUME s.n = Len(p) PROVE ~Recurrent
    <3>1. s.n > 0 /\ ~new
      BY <1>2, <2>4
    <3>2. PosMin(s.tgt) < s.n - 1
      BY <1>6, <1>7, <3>1
    <3> QED BY <1>4, <1>5, <3>1, <3>2
  <2> QED BY <1>3, <2>3, <2>4 DEF o
<1>8. CASE ~(s.n = 0 \/ PosMin(s.tgt) < thold)
  <2>1. o = IF at = 0 THEN [s EXCEPT !.n = 0, !.next = 0] ELSE back
    BY <1>4, <1>8 DEF BackToCkpt, thold
  <2>2. CASE at = 0
    <3>1. o = [n |-> 0, next |-> 0, tgt |-> s.tgt, dft |-> s.dft, mtp |-> s.mtp]
      BY <1>3, <2>1, <2>2
    <3>2. Carried(s.mtp, First(toks, 0))
      <4>1. 0 \in 0 .. s.n
        BY <1>4
      <4>2. First(First(toks, s.n), 0) = First(toks, 0)
        BY <1>1, <1>4, <4>1, FirstFirst
      <4>3. Carried(s.mtp, First(First(toks, s.n), 0))
        BY <1>3, <1>4, <4>1, CarriedCut
      <4> QED BY <4>2, <4>3
    <3>3. 0 \in 0 .. lcp /\ 0 <= s.dft
      BY <1>2, <1>3
    <3> HIDE DEF o
    <3>4. Fit(o, lcp) /\ o.next = 0 /\ o.n = 0
      BY <1>3, <3>1, <3>2, <3>3 DEF Fit
    <3>5. Len(p) # 0
      BY <1>2
    <3> QED BY <3>3, <3>4, <3>5 DEF o
  <2>3. CASE at # 0
    <3>1. at \in 1 .. Len(ckpts) /\ at > 0 /\ ckpts[at].pos <= s.n
          /\ (ckpts[at].pos < thold \/ ckpts[at].pos = 0)
      <4>1. \A k \in before : /\ k \in 1 .. Len(ckpts) /\ ckpts[k].pos <= s.n
                              /\ (ckpts[k].pos < thold \/ ckpts[k].pos = 0)
        BY <1>1
      <4>2. Len(ckpts) \in Nat
        BY <1>1
      <4> HIDE DEF before
      <4>3. at \in before /\ at > 0
        BY <2>3, <4>1, <4>2, NewestCkptIs
      <4> QED BY <4>1, <4>3
    <3> HIDE DEF at, before
    <3>2. Recurrent
      <4>1. ckpts # <<>>
        BY <3>1
      <4> QED BY <1>1, <4>1
    <3>3. s.n = Len(p) /\ s.n = lcp /\ thold = s.n - 1 /\ s.n > 0
      <4>1. PosMin(s.tgt) = s.n - 1 /\ s.n > 0
        BY <1>4, <1>5, <1>8, <3>2
      <4>2. ~new
        BY <1>4, <1>6, <1>8, <4>1
      <4> QED BY <1>2, <1>3, <1>4, <1>6, <4>1, <4>2
    <3>4. ckpts[at].pos \in Int /\ ckpts[at].pos < lcp
      <4>1. ckpts[at] \in CkptType
        BY <1>1, <3>1
      <4>2. ckpts[at].pos \in Int /\ ckpts[at].pos # lcp
        BY <3>1, <4>1 DEF CkptType
      <4> QED BY <1>2, <3>1, <3>3, <4>2
    <3>5. /\ q \in 1 .. lcp /\ ckpts[at].n = q
          /\ ckpts[at].data = <<[pos |-> Len(First(toks, q)) - 1, row |-> First(toks, q)]>>
      BY <1>2, <3>1, <3>4, CkptBefore
    <3>6. q < Len(p) \/ q = 1
      BY <1>2, <3>1, <3>3, <3>4
    <3> HIDE DEF q, o
    <3>7. next = q /\ MinOf(MinOf(next, Len(toks)), ckpts[at].n) = q
      <4>1. q \in Int /\ s.n \in Int /\ q <= s.n /\ Len(toks) \in Int /\ q <= Len(toks)
        BY <1>2, <1>4, <3>3, <3>5
      <4>2. MinOf(s.n, q) = q /\ MinOf(q, Len(toks)) = q /\ MinOf(q, q) = q
        BY <4>1, MinOfIs
      <4> QED BY <3>5, <4>2
    <3> DEFINE l == Loaded(s.tgt, ckpts[at].data)
    <3>8. o = [n |-> q, next |-> q, tgt |-> l, dft |-> s.dft, mtp |-> s.mtp]
      <4>1. o = back
        BY <2>1, <2>3
      <4>2. back = [s EXCEPT !.tgt = l, !.n = q, !.next = q]
        BY <3>7
      <4> QED BY <1>3, <4>1, <4>2
    <3> DEFINE u == First(toks, q)
    <3>9. q \in 0 .. Len(toks) /\ q \in 0 .. s.n /\ q \in 1 .. s.n
      BY <1>2, <1>4, <3>3, <3>5
    <3>10. u \in Seq(Token) /\ Len(u) = q /\ First(First(toks, s.n), q) = u
      BY <1>1, <1>4, <3>9, FirstIs, FirstFirst
    <3>11. u # <<>>
      BY <3>9, <3>10
    <3>12. Begins(u, s.tgt.kv)
      <4>1. Begins(First(toks, s.n), s.tgt.kv) /\ s.tgt.kv \in Seq(Token)
        BY <1>1, <1>3, <3>3, MemIs DEF Ready
      <4>2. Begins(u, First(toks, s.n))
        <5>1. q \in 0 .. Len(First(toks, s.n))
          BY <1>4, <3>9
        <5> QED BY <1>4, <3>10, <5>1, FirstBegins
      <4> HIDE DEF u
      <4> QED BY <1>4, <3>10, <4>1, <4>2, BeginsTrans
    <3>13. Ready(l, u)
      <4> DEFINE data == ckpts[at].data
      <4>1. data = <<[pos |-> Len(u) - 1, row |-> u]>>
        BY <3>5
      <4> HIDE DEF u, data
      <4>2. Ready(Loaded(s.tgt, data), u)
        BY <1>1, <1>3, <3>2, <3>10, <3>11, <3>12, <4>1, LoadedReady
      <4> QED BY <4>2 DEF data
    <3>14. Carried(s.mtp, u)
      <4>1. Carried(s.mtp, First(First(toks, s.n), q))
        BY <1>3, <1>4, <3>9, CarriedCut
      <4> QED BY <3>10, <4>1
    <3>15. q \in 0 .. lcp /\ q <= s.dft /\ l \in MemType
      BY <1>2, <1>3, <1>4, <3>5, <3>9, <3>13 DEF Ready
    <3> HIDE DEF l
    <3>16. Fit(o, lcp) /\ o.next = q /\ o.n = q
      BY <1>3, <3>8, <3>13, <3>14, <3>15 DEF Fit
    <3>17. q = Len(p) => q = 1
      BY <1>2, <3>5, <3>6
    <3> QED BY <3>15, <3>16, <3>17 DEF o
  <2> QED BY <2>2, <2>3
<1> QED BY <1>7, <1>8

\* What is used of a memory for a prompt p, up to its n-th token.
Usable(s, n, p) ==
  /\ n \in 0 .. Len(toks) /\ n < Len(p) /\ First(toks, n) = First(p, n)
  /\ CanRemove(s.tgt, n) /\ Holds(Removed(s.tgt, n), First(toks, n))
  /\ MinOf(s.dft, n) = n /\ s.mtp \in MtpType /\ Carried(s.mtp, First(toks, n))

\* The last token of a prompt is decoded again, when all of it is in memory.
LEMMA FitUsable ==
  ASSUME IInv, NEW lcp \in 0 .. Len(toks), NEW p \in Seq(Token), p # <<>>, lcp <= Len(p),
         First(toks, lcp) = First(p, lcp),
         NEW s, Fit(s, lcp),
         s.n = Len(p) =>
           \/ ~Recurrent \/ s.n = 1
           \/ /\ s.n = Len(toks) /\ Holds(s.tgt, toks)
              /\ kind.n_rs > 0
              /\ s.n > 1 => s.tgt.rows[1] = First(toks, s.n - 1)
  PROVE  Usable(s, IF s.n = Len(p) THEN s.n - 1 ELSE s.n, p)
<1> DEFINE n == IF s.n = Len(p) THEN s.n - 1 ELSE s.n
<1> SUFFICES Usable(s, n, p)
  OBVIOUS
<1>1. toks \in Seq(Token) /\ kind \in Kinds /\ Len(toks) \in Nat /\ Len(p) \in Nat \ {0}
  BY NotEmpty DEF IInv, Tokens
<1>2. /\ s.n \in 0 .. lcp /\ s.tgt \in MemType /\ s.dft \in Nat /\ s.n <= s.dft
      /\ s.mtp \in MtpType /\ Carried(s.mtp, First(toks, s.n))
      /\ s.n > 0 => Ready(s.tgt, First(toks, s.n))
  BY DEF Fit
<1>3. /\ n \in 0 .. s.n /\ n \in 0 .. lcp /\ n \in 0 .. Len(toks) /\ n < Len(p) /\ n \in Nat
      /\ s.n \in 0 .. Len(toks) /\ s.n \in Nat /\ lcp \in 0 .. Len(p)
      /\ (s.n # Len(p) => n = s.n) /\ (s.n = Len(p) => n = s.n - 1)
  BY <1>1, <1>2
<1> HIDE DEF n
<1>4. First(toks, n) = First(p, n)
  <2>1. First(First(toks, lcp), n) = First(toks, n)
    BY <1>1, <1>3, FirstFirst
  <2>2. First(First(p, lcp), n) = First(p, n)
    BY <1>3, FirstFirst
  <2> QED BY <2>1, <2>2
<1>5. Carried(s.mtp, First(toks, n))
  <2>1. First(toks, s.n) \in Seq(Token) /\ Len(First(toks, s.n)) = s.n
    BY <1>1, <1>3, FirstIs
  <2>2. n \in 0 .. Len(First(toks, s.n))
    BY <1>3, <2>1
  <2>3. First(First(toks, s.n), n) = First(toks, n)
    BY <1>1, <1>3, FirstFirst
  <2>4. Carried(s.mtp, First(First(toks, s.n), n))
    BY <1>2, <2>1, <2>2, CarriedCut
  <2> QED BY <2>3, <2>4
<1>6. MinOf(s.dft, n) = n
  <2>1. s.dft \in Int /\ n \in Int /\ n <= s.dft
    BY <1>2, <1>3
  <2> QED BY <2>1, MinOfIs
<1>7. First(toks, n) \in Seq(Token) /\ Len(First(toks, n)) = n
  BY <1>1, <1>3, FirstIs
<1>8. CASE n = 0
  <2>1. First(toks, n) = <<>>
    BY <1>7, <1>8, NotEmpty
  <2>2. CanRemove(s.tgt, 0) /\ Holds(Removed(s.tgt, 0), <<>>)
    BY <1>1, RemovedAll
  <2> QED BY <1>3, <1>4, <1>5, <1>6, <1>2, <1>8, <2>1, <2>2 DEF Usable
<1>9. ASSUME n > 0, Ready(s.tgt, First(toks, n))
      PROVE  Usable(s, n, p)
  <2> DEFINE u == First(toks, n)
  <2>1. u # <<>> /\ u \in Seq(Token) /\ Len(u) = n
    BY <1>3, <1>7, <1>9
  <2>2. CanRemove(s.tgt, Len(u)) /\ Holds(Removed(s.tgt, Len(u)), u)
    <3>1. Ready(s.tgt, u)
      BY <1>9
    <3> HIDE DEF u
    <3> QED BY <1>1, <2>1, <3>1, RemovedReady
  <2> QED BY <1>2, <1>3, <1>4, <1>5, <1>6, <2>1, <2>2 DEF Usable
<1>10. CASE n > 0 /\ s.n # Len(p)
  BY <1>2, <1>3, <1>9, <1>10
<1>11. CASE n > 0 /\ s.n = Len(p) /\ ~Recurrent
  <2>1. Begins(First(toks, s.n), s.tgt.kv) /\ s.tgt.kv \in Seq(Token)
    BY <1>1, <1>2, <1>3, <1>11, MemIs DEF Ready
  <2>2. Begins(First(toks, n), First(toks, s.n))
    <3>1. First(toks, s.n) \in Seq(Token) /\ Len(First(toks, s.n)) = s.n
      BY <1>1, <1>3, FirstIs
    <3>2. First(First(toks, s.n), n) = First(toks, n) /\ n \in 0 .. Len(First(toks, s.n))
      BY <1>1, <1>3, <3>1, FirstFirst
    <3> QED BY <3>1, <3>2, FirstBegins
  <2>3. First(toks, s.n) \in Seq(Token)
    BY <1>1, <1>3, FirstIs
  <2>4. Begins(First(toks, n), s.tgt.kv)
    BY <1>7, <2>1, <2>2, <2>3, BeginsTrans
  <2>5. Ready(s.tgt, First(toks, n))
    BY <1>2, <1>11, <2>4 DEF Ready
  <2> QED BY <1>9, <1>11, <2>5
<1>12. CASE n > 0 /\ s.n = Len(p) /\ Recurrent
  <2>1. s.n # 1 /\ n = s.n - 1
    <3>1. n = s.n - 1
      BY <1>3, <1>12
    <3>2. n > 0
      BY <1>12
    <3> QED BY <3>1, <3>2
  <2>2. /\ s.n = Len(toks) /\ Holds(s.tgt, toks) /\ kind.n_rs > 0
        /\ s.tgt.rows[1] = First(toks, n)
    BY <1>3, <1>12, <2>1
  <2>3. n \in 1 .. Len(toks) - 1 /\ Len(toks) - n = 1 /\ 1 <= kind.n_rs
    <3>1. kind.n_rs \in Nat
      BY <1>1, KindIs
    <3> QED BY <1>1, <1>3, <1>12, <2>1, <2>2, <3>1
  <2>4. CanRemove(s.tgt, n) /\ Holds(Removed(s.tgt, n), First(toks, n))
    BY <1>1, <2>2, <2>3, RemovedBack
  <2> QED BY <1>2, <1>3, <1>4, <1>5, <1>6, <2>4 DEF Usable
<1> QED BY <1>3, <1>8, <1>10, <1>11, <1>12

\* The clients rely on nothing, see Careful, or the target has attention alone.
Clean == Trusting = {} \/ \A k \in Kinds : k.rm = "part"

LEMMA ReuseIs ==
  ASSUME IInv, Clean, state = "idle", NEW p \in Seq(Token), p # <<>>, NEW cached,
         Careful(p, cached)
  PROVE  LET s == Reuse(p, cached)
         IN  /\ Usable(s, IF s.n = Len(p) THEN s.n - 1 ELSE s.n, p)
             /\ \A k \in 1 .. Len(ckpts) :
                  LET r == CkptRow(ckpts[k])
                  IN  ckpts[k].pos <= s.next => Covers(ckpts[k], r) /\ r \in Seq(Token) /\ Begins(r, p)
<1> DEFINE lcp == IF cached THEN CommonPrefix(toks, p) ELSE 0
           s0 == [n |-> lcp, next |-> lcp, tgt |-> tgt, dft |-> dft, mtp |-> mtp]
           s1 == TrailingRollback(s0)
           o == Reuse(p, cached)
           exact == lcp = Len(p) /\ lcp = Len(toks)
           n == IF exact THEN lcp - 1 ELSE lcp
           back == tgt.pos - (n - 1)
<1>1. /\ toks \in Seq(Token) /\ toks = tgt.kv /\ Holds(tgt, toks) /\ dft = Len(toks)
      /\ mtp \in MtpType /\ Carried(mtp, toks) /\ kind \in Kinds /\ tgt \in MemType
      /\ pc = "build" /\ ckpts \in Seq(CkptType)
  BY InMemory DEF IInv, Tokens, Holds, Phases, Checkpoints
<1>2. /\ lcp \in 0 .. Len(toks) /\ lcp \in 0 .. Len(p) /\ First(toks, lcp) = First(p, lcp)
  <2>1. CASE cached
    BY <1>1, <2>1, CommonIs
  <2>2. CASE ~cached
    <3>1. 0 \in 0 .. Len(toks) /\ 0 \in 0 .. Len(p)
      BY <1>1
    <3>2. /\ First(toks, 0) \in Seq(Token) /\ Len(First(toks, 0)) = 0
          /\ First(p, 0) \in Seq(Token) /\ Len(First(p, 0)) = 0
      BY <1>1, <3>1, FirstIs
    <3>3. First(toks, 0) = First(p, 0)
      BY <3>2
    <3> QED BY <2>2, <3>1, <3>3
  <2> QED BY <2>1, <2>2
<1>3. kind.rm # "part" => \A what : ~Trusts(what)
  BY <1>1 DEF Clean, Trusts
<1>4. /\ exact => kind.rm # "full"
      /\ n > 0 /\ n < Len(toks) /\ back \in 1 .. kind.n_rs => tgt.rows[back] = First(toks, n)
      /\ \A k \in DOMAIN ckpts : ckpts[k].pos # lcp
  <2>1. /\ exact /\ kind.rm = "full" => Trusts("exact")
        /\ n > 0 /\ n < Len(toks) /\ back \in 1 .. kind.n_rs =>
             Trusts("snapshot") \/ tgt.rows[back] = First(tgt.kv, n)
        /\ (\E k \in DOMAIN ckpts : ckpts[k].pos = lcp) => Trusts("edge")
    BY DEF Careful
  <2>2. CASE kind.rm = "part"
    <3>1. ckpts = <<>>
      BY <2>2 DEF IInv, Checkpoints, Recurrent
    <3>2. kind.n_rs = 0
      BY <1>1, <2>2, KindIs
    <3>3. DOMAIN ckpts = {} /\ 1 .. kind.n_rs = {}
      BY <3>1, <3>2
    <3> QED BY <2>2, <3>3
  <2>3. CASE kind.rm # "part"
    BY <1>1, <1>3, <2>1, <2>3
  <2> QED BY <2>2, <2>3
<1>5. o = BackToCkpt(IF lcp > 0 /\ lcp < Len(toks) THEN s1 ELSE s0, p)
  BY DEF Reuse
<1>6. \A k \in 1 .. Len(ckpts) : ckpts[k].pos # lcp /\ ckpts[k].pos \in Int
  <2>1. \A k \in 1 .. Len(ckpts) : ckpts[k] \in CkptType /\ k \in DOMAIN ckpts
    BY <1>1
  <2> QED BY <1>4, <2>1 DEF CkptType
<1>7. Len(toks) \in Nat /\ Len(p) \in Nat \ {0} /\ lcp \in Nat /\ lcp <= Len(p)
  BY <1>1, <1>2, NotEmpty
<1> HIDE DEF lcp
<1>8. Recurrent => tgt.pos = Len(toks) - 1
  BY <1>1 DEF Holds, Settled
<1>9. s0.n = lcp /\ s0.next = lcp /\ s0.tgt = tgt /\ s0.dft = dft /\ s0.mtp = mtp
  OBVIOUS
<1>10. /\ Fit(o, lcp) /\ o.next \in 0 .. lcp
       /\ o.n = Len(p) => \/ ~Recurrent \/ o.n = 1
                          \/ /\ o.n = Len(toks) /\ Holds(o.tgt, toks) /\ kind.n_rs > 0
                             /\ o.n > 1 => o.tgt.rows[1] = First(toks, o.n - 1)
  <2>1. CASE lcp = 0 \/ lcp = Len(toks)
    <3>1. o = BackToCkpt(s0, p)
      BY <1>5, <1>7, <2>1
    <3>2. o = s0
      <4>1. BackToCkpt(s0, p) = [s0 EXCEPT !.next = s0.n]
        <5>1. s0.n = 0 \/ s0.n >= Len(toks)
          BY <1>7, <1>9, <2>1
        <5> HIDE DEF s0
        <5> QED BY <5>1 DEF BackToCkpt
      <4> QED BY <3>1, <4>1
    <3>3. Fit(s0, lcp)
      <4>1. Carried(mtp, First(toks, lcp))
        BY <1>1, <1>2, CarriedCut
      <4>2. ASSUME lcp > 0 PROVE Ready(tgt, First(toks, lcp))
        <5>1. First(toks, lcp) = toks
          BY <1>1, <1>7, <2>1, <4>2, FirstAll
        <5> QED BY <1>1, <5>1, HoldsReady
      <4>3. dft \in Nat /\ lcp <= dft /\ lcp \in 0 .. lcp
        BY <1>1, <1>2, <1>7
      <4> QED BY <1>1, <1>9, <4>1, <4>2, <4>3 DEF Fit
    <3>4. ASSUME lcp = Len(p), Recurrent
          PROVE  /\ lcp = Len(toks) /\ kind.n_rs > 0
                 /\ lcp > 1 => tgt.rows[1] = First(toks, lcp - 1)
      <4>1. lcp = Len(toks) /\ exact /\ n = lcp - 1
        BY <1>7, <2>1, <3>4
      <4>2. kind.n_rs \in Nat /\ kind.n_rs > 0
        <5>1. kind.rm = "rs"
          BY <1>1, <1>4, <3>4, <4>1, KindIs DEF Recurrent
        <5> QED BY <1>1, <5>1, KindIs
      <4>3. back = 1
        BY <1>7, <1>8, <3>4, <4>1
      <4>4. lcp > 1 => n > 0 /\ n < Len(toks) /\ back \in 1 .. kind.n_rs
        BY <1>7, <4>1, <4>2, <4>3
      <4> QED BY <1>4, <4>1, <4>2, <4>3, <4>4
    <3> HIDE DEF s0
    <3>5. lcp \in 0 .. lcp
      BY <1>7
    <3> QED BY <1>1, <1>9, <3>2, <3>3, <3>4, <3>5
  <2>2. CASE lcp > 0 /\ lcp < Len(toks)
    <3>1. lcp \in 1 .. Len(toks) - 1 /\ ~exact /\ n = lcp
      BY <1>7, <2>2
    <3>2. Recurrent /\ Len(toks) - lcp <= kind.n_rs =>
            tgt.rows[Len(toks) - lcp] = First(toks, lcp)
      <4> SUFFICES ASSUME Recurrent, Len(toks) - lcp <= kind.n_rs
                   PROVE  tgt.rows[Len(toks) - lcp] = First(toks, lcp)
        OBVIOUS
      <4>1. back = Len(toks) - lcp
        BY <1>7, <1>8, <3>1
      <4>2. kind.n_rs \in Nat
        BY <1>1, KindIs
      <4>3. Len(toks) - lcp \in 1 .. kind.n_rs
        BY <1>7, <2>2, <4>2
      <4> QED BY <1>4, <2>2, <3>1, <4>1, <4>3
    <3>3. Fit(s1, lcp)
      BY <1>1, <1>6, <3>1, <3>2, TrailingIs
    <3>4. o = BackToCkpt(s1, p)
      BY <1>5, <2>2
    <3> HIDE DEF s1, o
    <3>5. LET b == BackToCkpt(s1, p)
          IN  /\ Fit(b, lcp) /\ b.next \in 0 .. lcp
              /\ b.n = Len(p) => ~Recurrent \/ b.n = 1
      BY <1>1, <1>6, <1>7, <3>1, <3>3, BackIs
    <3> QED BY <3>4, <3>5
  <2> QED BY <1>2, <1>7, <2>1, <2>2
<1> HIDE DEF o
<1>11. Usable(o, IF o.n = Len(p) THEN o.n - 1 ELSE o.n, p)
  BY <1>2, <1>7, <1>10, FitUsable
<1>12. ASSUME NEW k \in 1 .. Len(ckpts), ckpts[k].pos <= o.next
       PROVE  LET r == CkptRow(ckpts[k])
              IN  Covers(ckpts[k], r) /\ r \in Seq(Token) /\ Begins(r, p)
  <2> DEFINE q == ckpts[k].pos + 1
             r == CkptRow(ckpts[k])
  <2>1. ckpts[k].pos < lcp /\ ckpts[k].pos \in Int
    BY <1>6, <1>7, <1>10, <1>12
  <2>2. q \in 1 .. lcp /\ r = First(toks, q) /\ Covers(ckpts[k], r)
    BY <1>2, <2>1, CkptBefore
  <2> HIDE DEF q, r
  <2>3. q \in 0 .. lcp /\ q \in 0 .. Len(p) /\ q \in 0 .. Len(toks)
    BY <1>2, <1>7, <2>2
  <2>4. First(First(toks, lcp), q) = First(toks, q) /\ First(First(p, lcp), q) = First(p, q)
    BY <1>1, <1>2, <2>3, FirstFirst
  <2>5. r = First(p, q)
    BY <1>2, <2>2, <2>4
  <2>6. r \in Seq(Token) /\ Begins(r, p)
    BY <2>3, <2>5, FirstIs, FirstBegins
  <2> QED BY <2>2, <2>6 DEF r
<1> QED BY <1>11, <1>12 DEF o

LEMMA StartPromptOk ==
  ASSUME IInv, Clean, NEW p \in Prompts, NEW cached, StartPrompt(p, cached)
  PROVE  IInv'
<1> DEFINE s == Reuse(p, cached)
           n == IF s.n = Len(p) THEN s.n - 1 ELSE s.n
           u == First(toks, n)
           I == {k \in DOMAIN ckpts : ckpts[k].pos <= s.next}
<1>1. p \in Seq(Token) /\ p # <<>>
  BY PromptAssumption
<1>2. /\ pc = "build" /\ state = "idle" /\ Careful(p, cached)
  BY DEF StartPrompt
<1>3. /\ Usable(s, n, p)
      /\ \A k \in 1 .. Len(ckpts) :
           LET r == CkptRow(ckpts[k])
           IN  ckpts[k].pos <= s.next => Covers(ckpts[k], r) /\ r \in Seq(Token) /\ Begins(r, p)
  BY <1>1, <1>2, ReuseIs
<1>4. /\ kind' = kind /\ tgt' = Removed(s.tgt, n) /\ dft' = MinOf(s.dft, n) /\ mtp' = s.mtp
      /\ toks' = u /\ ckpts' = Picked(ckpts, I) /\ state' = "prompt" /\ prompt' = p
      /\ sampled' = sampled /\ draft' = draft /\ batch' = batch /\ sent' = sent /\ pc' = pc
  BY <1>3 DEF StartPrompt, Usable
<1> HIDE DEF s, n
<1>5. /\ n \in 0 .. Len(toks) /\ n < Len(p) /\ u = First(p, n) /\ Holds(Removed(s.tgt, n), u)
      /\ MinOf(s.dft, n) = n /\ s.mtp \in MtpType /\ Carried(s.mtp, u)
  BY <1>3 DEF Usable
<1>6. /\ toks \in Seq(Token) /\ kind \in Kinds /\ draft = <<>> /\ sampled = <<>> /\ sent = <<>>
      /\ batch \in Seq(Token) /\ ckpts \in Seq(CkptType) /\ (ckpts # <<>> => Recurrent)
  BY <1>2 DEF IInv, Phases, Tokens, Checkpoints
<1>7. u \in Seq(Token) /\ Len(u) = n /\ n \in Nat /\ Begins(u, p)
  <2>1. u \in Seq(Token) /\ Len(u) = n
    BY <1>5, <1>6, FirstIs
  <2>2. Len(p) \in Nat /\ n \in Nat
    BY <1>1, <1>5, <1>6
  <2>3. n \in 0 .. Len(p)
    BY <1>5, <2>2
  <2> QED BY <1>1, <1>5, <2>1, <2>2, <2>3, FirstBegins
<1> HIDE DEF u
<1>8. (Holds(tgt, tgt.kv))' /\ tgt'.kv = u
  <2>1. Holds(tgt', u)
    BY <1>4, <1>5
  <2> QED BY <1>4, <2>1, HoldsNext
<1>9. Checkpoints'
  <2>1. \A i \in I : i \in 1 .. Len(ckpts) /\ ckpts[i].pos <= s.next
    BY <1>6
  <2>2. I \in SUBSET (1 .. Len(ckpts))
    BY <2>1
  <2> HIDE DEF I
  <2>3. /\ ckpts' \in Seq(CkptType)
        /\ \A k \in 1 .. Len(ckpts') : Nth(I, k) \in I /\ ckpts'[k] = ckpts[Nth(I, k)]
    BY <1>4, <1>6, <2>2, PickedFrom
  <2>5. ASSUME NEW k \in 1 .. Len(ckpts') PROVE Stored(ckpts'[k], state', prompt', toks')
    <3> DEFINE i == Nth(I, k)
               c == ckpts[i]
               r == CkptRow(c)
    <3>1. i \in 1 .. Len(ckpts) /\ c.pos <= s.next /\ ckpts'[k] = c
      BY <2>1, <2>3
    <3>2. Covers(c, r) /\ r \in Seq(Token) /\ Begins(r, p)
      BY <1>3, <3>1
    <3> HIDE DEF r, c
    <3>3. Along(u, r)
      BY <1>1, <1>7, <3>2 DEF Begins, Along
    <3>4. Stored(c, "prompt", p, u)
      BY <3>2, <3>3 DEF Stored, r
    <3> QED BY <1>4, <3>1, <3>4
  <2>6. ckpts' # <<>> => (Recurrent)'
    <3> SUFFICES ASSUME ckpts' # <<>> PROVE (Recurrent)'
      OBVIOUS
    <3>1. 1 \in 1 .. Len(ckpts')
      BY <2>3
    <3>2. ckpts # <<>>
      BY <2>1, <2>3, <3>1
    <3> QED BY <1>4, <1>6, <3>2 DEF Recurrent
  <2> QED BY <2>3, <2>5, <2>6 DEF Checkpoints
<1>10. Tokens'
  BY <1>1, <1>4, <1>6, <1>7 DEF IInv, Tokens
<1>11. Phases'
  BY <1>1, <1>2, <1>4, <1>5, <1>6, <1>7, <1>8 DEF Phases
<1>12. Snapshots' /\ SampledFromHistory' /\ DraftCkpt'
  BY <1>2, <1>4, <1>6 DEF Snapshots, SampledFromHistory, DraftCkpt
<1>13. Seen'
  BY <1>2, <1>4, <1>5, <1>8 DEF Seen
<1>14. (dft = Len(tgt.kv))'
  BY <1>4, <1>5, <1>7, <1>8
<1> QED BY <1>8, <1>9, <1>10, <1>11, <1>12, <1>13, <1>14 DEF IInv

-----------------------------------------------------------------------------
(* The specification *)

LEMMA InitOk ==
  ASSUME Init
  PROVE  IInv
<1>1. /\ kind \in Kinds /\ tgt = EmptyMem /\ dft = 0 /\ mtp = Reset
      /\ state = "idle" /\ prompt = <<>> /\ toks = <<>> /\ ckpts = <<>>
      /\ sampled = <<>> /\ draft = <<>> /\ batch = <<>> /\ sent = <<>> /\ pc = "build"
  BY DEF Init
<1>2. <<>> \in Seq(Token) /\ <<>> \in Seq(CkptType) /\ Len(<<>>) = 0
  OBVIOUS
<1>3. Holds(tgt, <<>>) /\ tgt.kv = <<>>
  BY <1>1, EmptyHolds DEF Holds
<1>4. mtp \in MtpType /\ Carried(mtp, <<>>)
  BY <1>1, <1>2, ResetTrue
<1>5. Tokens /\ Holds(tgt, tgt.kv) /\ dft = Len(tgt.kv)
  BY <1>1, <1>2, <1>3 DEF Tokens
<1>6. Phases
  BY <1>1, <1>3 DEF Phases
<1>7. Snapshots /\ DraftCkpt /\ SampledFromHistory
  BY <1>1 DEF Snapshots, DraftCkpt, SampledFromHistory
<1>8. Checkpoints
  BY <1>1, <1>2 DEF Checkpoints
<1>9. Seen
  BY <1>1, <1>3, <1>4 DEF Seen
<1> QED BY <1>5, <1>6, <1>7, <1>8, <1>9 DEF IInv

LEMMA NextOk ==
  ASSUME Clean, IInv, [Next]_vars
  PROVE  IInv'
<1>1. CASE AddPrompt
  BY <1>1, AddPromptOk
<1>2. CASE BuildDraft
  BY <1>2, BuildDraftOk
<1>3. CASE BuildReplay
  BY <1>3, BuildReplayOk
<1>4. CASE Decode
  BY <1>4, DecodeOk
<1>5. CASE DecodeFails
  BY <1>5, DecodeFailsOk
<1>6. CASE Sample
  BY <1>6, SampleOk
<1>7. ASSUME NEW n \in 0 .. NDraft, NEW t \in Token, Accept(n, t)
      PROVE  IInv'
  BY <1>7, AcceptOk
<1>8. ASSUME NEW n \in 0 .. NDraft, NEW t \in Token, Restore(n, t)
      PROVE  IInv'
  BY <1>8, RestoreOk
<1>9. ASSUME NEW n \in 0 .. NDraft, NEW t \in Token, RestoreFails(n, t)
      PROVE  IInv'
  BY <1>9, RestoreFailsOk
<1>10. CASE Cancel
  BY <1>10, CancelOk
<1>11. ASSUME NEW p \in Prompts, NEW c \in BOOLEAN, StartPrompt(p, c)
       PROVE  IInv'
  BY <1>11, StartPromptOk
<1>12. CASE UNCHANGED vars
  <2>1. /\ kind' = kind /\ tgt' = tgt /\ dft' = dft /\ mtp' = mtp
        /\ state' = state /\ prompt' = prompt /\ toks' = toks /\ ckpts' = ckpts
        /\ sampled' = sampled /\ draft' = draft /\ ckpt' = ckpt /\ batch' = batch
        /\ out' = out /\ sent' = sent /\ pc' = pc
    BY <1>12 DEF vars, slot, memory
  <2>2. Tokens' /\ Phases' /\ Seen'
    BY <2>1 DEF IInv, Tokens, Phases, Seen, History, Base
  <2>3. Snapshots' /\ DraftCkpt' /\ SampledFromHistory'
    BY <2>1 DEF IInv, Snapshots, DraftCkpt, SampledFromHistory, Recurrent, NeedsCkpt, History, Base
  <2>4. Checkpoints'
    BY <2>1 DEF IInv, Checkpoints, Recurrent
  <2>5. (Holds(tgt, tgt.kv))'
    <3>1. Holds(tgt', tgt.kv)
      BY <2>1 DEF IInv
    <3> QED BY <2>1, <3>1, HoldsNext
  <2>6. (dft = Len(tgt.kv))'
    BY <2>1 DEF IInv
  <2> QED BY <2>2, <2>3, <2>4, <2>5, <2>6 DEF IInv
<1> QED BY <1>1, <1>2, <1>3, <1>4, <1>5, <1>6, <1>7, <1>8, <1>9, <1>10, <1>11, <1>12 DEF Next, Step

LEMMA BoundaryTrue ==
  ASSUME IInv
  PROVE  BoundaryIsHistory
<1>1. Carried(mtp, tgt.kv) /\ mtp.ring \in Seq(RowType)
  BY DEF IInv, Seen, Carried
<1>2. ASSUME NEW r, True(r, tgt.kv), 0 <= r.pos, r.pos < Len(tgt.kv)
      PROVE  r.h \in {Zero, First(tgt.kv, r.pos + 1)}
  BY <1>2 DEF True
<1>3. /\ True(mtp.pend, tgt.kv) /\ True(mtp.prev, tgt.kv)
      /\ \A p \in 0 .. Len(tgt.kv) - 1 : True(Newest(mtp.ring, p), tgt.kv)
  BY <1>1 DEF Carried
<1> QED BY <1>2, <1>3 DEF BoundaryIsHistory

\* Every token of an answer is sampled from what the target computes for the
\* prompt, the answer so far and the accepted part of the draft, whatever was
\* drafted, rejected, replayed, restored or reused (update_slots with
\* spec_draft, spec_ckpt and prompt.checkpoints): for all requests, if the target
\* has an attention cache alone, and otherwise for all those that Careful lets
\* pass.
THEOREM AnswersFromHistory == ASSUME Clean PROVE Spec => []SampledFromHistory
<1>1. Init => IInv
  BY InitOk
<1>2. IInv /\ [Next]_vars => IInv'
  BY NextOk
<1>3. IInv => SampledFromHistory
  BY DEF IInv
<1> QED BY <1>1, <1>2, <1>3, PTL DEF Spec

\* The memories of target and drafter never refuse a removal or a batch:
\* slot.prompt.tokens and what is in memory stay together, and a draft that may
\* have to be undone has a checkpoint (the asserts on llama_memory_seq_rm and on
\* spec_ckpt in update_slots).
THEOREM NeverRefused == ASSUME Clean PROVE Spec => []NeverAborts
<1>1. Init => IInv
  BY InitOk
<1>2. IInv /\ [Next]_vars => IInv'
  BY NextOk
<1>3. IInv => NeverAborts
  BY DEF IInv, Phases, NeverAborts
<1> QED BY <1>1, <1>2, <1>3, PTL DEF Spec

\* The rows that the drafter carries over to the next batch are those that the
\* target computed for the tokens in memory (pending_h, pending_h_prev and the
\* ring of common_speculative_state_draft_mtp), whatever was verified, rolled
\* back or restored since.
THEOREM BoundaryRows == ASSUME Clean PROVE Spec => []BoundaryIsHistory
<1>1. Init => IInv
  BY InitOk
<1>2. IInv /\ [Next]_vars => IInv'
  BY NextOk
<1>3. IInv => BoundaryIsHistory
  BY BoundaryTrue
<1> QED BY <1>1, <1>2, <1>3, PTL DEF Spec
=============================================================================
