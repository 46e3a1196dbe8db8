------------------------------- MODULE HybridIdx -------------------------------
(* The memory of a Qwen4Exp context, llama_memory_hybrid_idx
   (src/src/llama-memory-hybrid-idx.cpp over llama-memory-hybrid.cpp): four
   stores that every operation and every decode must keep in step,

     attn  the attention KV cache
     idx   the indexer cache, addressed by the cells of attn
     recr  the recurrent memory, which holds one state per sequence
     hist  the last tokens of every sequence, for the n-gram rows of the
           per-layer embeddings (PLE)

   and the graph input that reads hist (llm_graph_input_ple::set_input of
   src/src/models/qwen4exp.cpp).

   The two caches are modelled in KvCache; here a cell is what it stands for,
   without the indexes, the heads, the window (this model has none) and the
   shifts (its M-RoPE positions forbid seq_add and seq_div, which assert).
   kv_unified, so one stream.  recr is a set of states; the cells they live in
   are RecurrentMem's.                                                        *)
EXTENDS Integers, Sequences, FiniteSets, FiniteSetsExt, Subsequences

CONSTANTS
  NCells,      \* cells of either cache
  SeqId,       \* sequences
  Token, Eos,  \* tokens other than the end of a segment, and that one
  NGram,       \* ple_ngram_size
  UBatch,      \* n_ubatch
  EmbdAll,     \* every token is an output: batches are split by sequence
  Shared,      \* batches whose tokens belong to all sequences at once
  MaxRun,      \* bound: tokens of a sequence in a batch
  MaxBatch,    \* bound: tokens of a batch
  MaxPos,      \* bound on positions
  Jumps,       \* by how much positions jump forward, as M-RoPE allows
  JumpInside,  \* they may do so inside a run
  Ranges       \* the <<p0, p1>> passed to seq_rm, negative bounds are open

Cell == 0 .. NCells - 1
NoToken == "none"
AnyToken == Token \cup {Eos}

ASSUME ConfigAssumption ==
  /\ Eos \notin Token /\ NoToken \notin AnyToken
  /\ NCells \in Nat \ {0} /\ SeqId \subseteq Nat /\ SeqId # {} /\ IsFiniteSet(SeqId)
  /\ NGram \in Nat \ {0, 1} /\ UBatch \in Nat /\ UBatch >= Cardinality(SeqId)
  /\ EmbdAll \in BOOLEAN /\ Shared \in BOOLEAN
  /\ MaxRun \in Nat /\ MaxBatch \in Nat /\ MaxPos \in Nat /\ Jumps \subseteq Nat /\ JumpInside \in BOOLEAN
  /\ Ranges \subseteq Int \X Int

VARIABLES
  attn, idx,   \* what each cell of a cache holds
  recr,        \* the states: their position and the sequences that share them
  hist,        \* ple_histories
  pc,          \* what the context is doing
  left,        \* the runs of the batch that are not yet in a micro-batch
  ubatch,      \* the micro-batch in progress
  contexts,    \* the predecessors set_input found for each of its tokens
  appended,    \* history: sequences that were only ever appended to or copied
  saved        \* the sequence state the caller last saved

vars == <<attn, idx, recr, hist, pc, left, ubatch, contexts, appended, saved>>
caches == <<attn, idx>>
decode == <<pc, left, ubatch, contexts>>

-----------------------------------------------------------------------------
(* The stores and their operations *)

\* tok is the token whose K row (or indexer key) the cell has
Free == [pos |-> -1, seq |-> {}, tok |-> NoToken]

InRange(p, p0, p1) == p >= p0 /\ (p1 < 0 \/ p < p1) /\ p >= 0

\* the cells of s in the range leave s
CacheRm(c, s, p0, p1) ==
  [i \in Cell |->
     IF s \notin c[i].seq \/ ~InRange(c[i].pos, p0, p1) THEN c[i]
     ELSE IF c[i].seq = {s} THEN Free
     ELSE [c[i] EXCEPT !.seq = @ \ {s}]]

CacheCp(c, src, dst) ==
  [i \in Cell |->
     IF src \in c[i].seq THEN [c[i] EXCEPT !.seq = @ \cup {dst}] ELSE c[i]]

CacheKeep(c, s) ==
  [i \in Cell |-> IF s \in c[i].seq THEN [c[i] EXCEPT !.seq = {s}] ELSE Free]

Positions(c, s) == {c[i].pos : i \in {j \in Cell : s \in c[j].seq}}
CacheMax(c, s) == IF Positions(c, s) = {} THEN -1 ELSE Max(Positions(c, s))

\* the recurrent memory keeps the state after the last token only (n_rs_seq is
\* 0 for this model): it refuses to take back less than the whole sequence
TailPos(s) == Max({-1} \cup {r.pos : r \in {q \in recr : s \in q.seq}})
RecrAccepts(s, p0, p1) == ~(p0 > 0 /\ p0 <= TailPos(s) /\ (p1 < 0 \/ TailPos(s) < p1))

Without(R, S) ==
  {[r EXCEPT !.seq = @ \ S] : r \in {q \in R : ~(q.seq \subseteq S)}}
RecrRm(s, p0, p1) == IF InRange(TailPos(s), p0, p1) THEN Without(recr, {s}) ELSE recr
RecrCp(src, dst) ==
  {IF src \in r.seq THEN [r EXCEPT !.seq = @ \cup {dst}] ELSE r :
     r \in Without(recr, {dst})}
RecrKeep(s) == {[r EXCEPT !.seq = {s}] : r \in {q \in recr : s \in q.seq}}

\* seq_pos_max and seq_pos_min of the hybrid memory
PosMax(s) == IF CacheMax(attn, s) < TailPos(s) THEN CacheMax(attn, s) ELSE TailPos(s)
PosMin(s) == Max({TailPos(s), IF Positions(attn, s) = {} THEN -1 ELSE Min(Positions(attn, s))})

NoHistory == [next_pos |-> -1, toks |-> <<>>]

\* the lambda trim of seq_rm
Trimmed(h, p0, p1) ==
  LET first  == IF p0 < 0 THEN 0 ELSE p0
      last   == IF p1 < 0 THEN MaxPos + 2 ELSE p1
      oldest == h.next_pos - Len(h.toks)
  IN  IF first >= last \/ h.toks = <<>> \/ first >= h.next_pos \/ last <= oldest
        THEN h
      ELSE IF last >= h.next_pos /\ first > oldest
        THEN [next_pos |-> first, toks |-> SubSeq(h.toks, 1, first - oldest)]
      ELSE NoHistory

-----------------------------------------------------------------------------
(* Operations of the caller, between two decodes *)

Init ==
  /\ attn = [i \in Cell |-> Free] /\ idx = attn
  /\ recr = {}
  /\ hist = [s \in SeqId |-> NoHistory]
  /\ pc = "idle" /\ left = <<>> /\ ubatch = <<>> /\ contexts = <<>>
  /\ appended = SeqId
  /\ saved = {}

\* sequences that begin anew are again only appended to
Begun(A) == A \cup {s \in SeqId : Positions(attn', s) = {}}

Clear ==
  /\ pc = "idle"
  /\ attn' = [i \in Cell |-> Free] /\ idx' = attn'
  /\ recr' = {}
  /\ hist' = [s \in SeqId |-> NoHistory]
  /\ appended' = SeqId
  /\ UNCHANGED <<decode, saved>>

\* variant for the runs: the caches are edited whatever the recurrent memory says
seq_rmUnasked(s, p0, p1) ==
  /\ pc = "idle"
  /\ attn' = CacheRm(attn, s, p0, p1)
  /\ idx' = CacheRm(idx, s, p0, p1)
  /\ recr' = IF RecrAccepts(s, p0, p1) THEN RecrRm(s, p0, p1) ELSE recr
  /\ hist' = [hist EXCEPT ![s] = Trimmed(@, p0, p1)]
  /\ UNCHANGED <<decode, appended, saved>>

\* refused as a whole when the recurrent memory refuses it
seq_rm(s, p0, p1) ==
  /\ pc = "idle"
  /\ RecrAccepts(s, p0, p1)
  /\ attn' = CacheRm(attn, s, p0, p1)
  /\ idx' = CacheRm(idx, s, p0, p1)
  /\ recr' = RecrRm(s, p0, p1)
  /\ hist' = [hist EXCEPT ![s] = Trimmed(@, p0, p1)]
  /\ appended' = Begun(IF p0 = p1 \/ p0 > PosMax(s) THEN appended ELSE appended \ {s})
  /\ UNCHANGED <<decode, saved>>

\* the caller copies a whole sequence onto one that it has emptied
seq_cp(src, dst) ==
  /\ pc = "idle"
  /\ src # dst /\ Positions(attn, dst) = {}
  /\ attn' = CacheCp(attn, src, dst)
  /\ idx' = CacheCp(idx, src, dst)
  /\ recr' = RecrCp(src, dst)
  /\ hist' = [hist EXCEPT ![dst] = hist[src]]
  /\ appended' = Begun(IF src \in appended THEN appended \cup {dst} ELSE appended \ {dst})
  /\ UNCHANGED <<decode, saved>>

\* variant for the runs: the indexer cache is forgotten
seq_keepBut(s) ==
  /\ pc = "idle"
  /\ attn' = CacheKeep(attn, s)
  /\ recr' = RecrKeep(s)
  /\ hist' = [t \in SeqId |-> IF t = s THEN hist[s] ELSE NoHistory]
  /\ appended' = Begun(appended)
  /\ UNCHANGED <<idx, decode, saved>>

seq_keep(s) ==
  /\ pc = "idle"
  /\ attn' = CacheKeep(attn, s)
  /\ idx' = CacheKeep(idx, s)
  /\ recr' = RecrKeep(s)
  /\ hist' = [t \in SeqId |-> IF t = s THEN hist[s] ELSE NoHistory]
  /\ appended' = Begun(appended)
  /\ UNCHANGED <<decode, saved>>

-----------------------------------------------------------------------------
(* Decode.  A batch is a list of runs: the tokens of one set of sequences. *)

SeqSets == {{s} : s \in SeqId} \cup (IF Shared THEN {SeqId} ELSE {})

\* what llama_batch_allocr::init admits: positions go on after the last one of
\* the memory, and sequences that share tokens are at the same place
Shapes ==
  UNION {[at : 0 .. (IF JumpInside THEN m - 1 ELSE 0), jump : Jumps, toks : [1 .. m -> AnyToken]] : m \in 1 .. MaxRun}
Runs(S) ==
  LET last == PosMax(Min(S))
      run(x) == [seqs |-> S,
                 toks |-> [k \in DOMAIN x.toks |->
                             [tok |-> x.toks[k],
                              pos |-> last + k + (IF k > x.at THEN x.jump ELSE 0)]]]
  IN  IF \A s, u \in S : PosMax(s) = PosMax(u) /\ PosMin(s) = PosMin(u)
      THEN {run(x) : x \in {y \in Shapes : last + Len(y.toks) + y.jump <= MaxPos}}
      ELSE {}

Batches ==
  (UNION {{<<x>> : x \in Runs(S)} : S \in SeqSets}) \cup
  (UNION {{<<x, y>> : x \in Runs({p[1]}), y \in Runs({p[2]})} :
            p \in {q \in SeqId \X SeqId : q[1] # q[2]}})

Total(b) == Len(b[1].toks) + (IF Len(b) > 1 THEN Len(b[2].toks) ELSE 0)
FreeCells == {i \in Cell : attn[i] = Free}

\* init_batch: the micro-batches are rehearsed in attn, which without a window
\* has room for all of them or for none
Decode ==
  /\ pc = "idle"
  /\ \E b \in Batches :
       /\ Total(b) <= Min({MaxBatch, Cardinality(FreeCells)})
       /\ left' = b
  /\ pc' = "ubatch"
  /\ UNCHANGED <<caches, recr, hist, ubatch, contexts, appended, saved>>

\* split_seq takes one run, split_equal as many tokens of each run
Parts(runs) == IF EmbdAll THEN <<runs[1]>> ELSE runs
Taken(runs) ==
  LET m   == Len(Parts(runs))
      fit == UBatch \div m
  IN  Min({Len(Parts(runs)[r].toks) : r \in 1 .. m} \cup {Max({1, fit})})

\* the tokens of a micro-batch, one run after the other
NextUbatch(runs) ==
  LET n == Taken(runs)
  IN  [i \in 1 .. n * Len(Parts(runs)) |->
         LET r == ((i - 1) \div n) + 1
         IN  [seqs |-> runs[r].seqs, seq |-> Min(runs[r].seqs),
              pos |-> runs[r].toks[((i - 1) % n) + 1].pos,
              tok |-> runs[r].toks[((i - 1) % n) + 1].tok]]

Rest(runs) ==
  LET n     == Taken(runs)
      taken == [r \in DOMAIN runs |->
                  IF r > Len(Parts(runs)) THEN runs[r]
                  ELSE [runs[r] EXCEPT !.toks = SubSeq(@, n + 1, Len(@))]]
  IN  Picked(taken, {r \in DOMAIN runs : taken[r].toks # <<>>})

\* apply_ubatch in either cache: the tokens go into the cells that the attention
\* cache chose for them; a cell still in use there is taken from its sequence,
\* with everything below it
Placed(c, ub, slot) ==
  LET at(i) == CHOOSE k \in DOMAIN ub : slot[k] = i
      used  == {slot[k] : k \in DOMAIN ub}
      gone(i) == {s \in c[i].seq : \E j \in used : s \in c[j].seq /\ c[i].pos <= c[j].pos}
  IN  [i \in Cell |->
         IF i \in used
         THEN [pos |-> ub[at(i)].pos, seq |-> ub[at(i)].seqs, tok |-> ub[at(i)].tok]
         ELSE IF c[i].seq # {} /\ gone(i) = c[i].seq THEN Free
         ELSE [c[i] EXCEPT !.seq = @ \ gone(i)]]

\* find_slot: the first free cells, wherever the search starts
Slot == Ascending(FreeCells)

LastPos(ub, S) == Max({ub[k].pos : k \in {l \in DOMAIN ub : ub[l].seqs = S}})
Advanced(ub) ==
  LET sets == {ub[k].seqs : k \in DOMAIN ub}
  IN  Without(recr, UNION sets) \cup {[pos |-> LastPos(ub, S), seq |-> S] : S \in sets}

ApplyUbatch ==
  /\ pc = "ubatch"
  /\ LET ub == NextUbatch(left)
     IN  /\ attn' = Placed(attn, ub, Slot)
         /\ idx' = Placed(idx, ub, Slot)
         /\ recr' = Advanced(ub)
         /\ ubatch' = ub
         /\ appended' = appended \ UNION {S \in SeqSets : Cardinality(S) > 1 /\
                                            \E k \in DOMAIN ub : ub[k].seqs = S}
  /\ left' = Rest(left)
  /\ pc' = "inputs"
  /\ UNCHANGED <<hist, contexts, saved>>

-----------------------------------------------------------------------------
(* llm_graph_input_ple::set_input *)

Padding == [k \in 1 .. NGram - 1 |-> Eos]
Resized(toks) == SubSeq(toks \o Padding, 1, NGram - 1)

FirstOf(s) == Min({k \in DOMAIN ubatch : ubatch[k].seq = s})
InUbatch == {ubatch[k].seq : k \in DOMAIN ubatch}

\* the tokens of s, which are next to each other in a micro-batch
LastOf(s) == Max({k \in DOMAIN ubatch : ubatch[k].seq = s})
Mine(s) == SubSeq(ubatch, FirstOf(s), LastOf(s))

\* variant for the runs: a snapshot is trusted wherever it ends
SnapshotAny(s) == IF hist[s].toks = <<>> THEN Padding ELSE Resized(hist[s].toks)

\* the history of s as the micro-batch finds it, most recent token last
Snapshot(s) ==
  IF hist[s].next_pos = ubatch[FirstOf(s)].pos THEN Resized(hist[s].toks) ELSE Padding

\* the token d places before the i-th of the micro-batch
Prev(i, d) ==
  LET me   == ubatch[i]
      j    == i - d
      back == d - (i - 1)
      k    == Len(Snapshot(me.seq)) - back + 1
  IN  IF j >= 1 /\ ubatch[j].seq = me.seq /\ ubatch[j].pos = me.pos - d
        THEN ubatch[j].tok
      ELSE IF back > 0 /\ k >= 1 /\ me.pos - d >= 0
        THEN Snapshot(me.seq)[k]
      ELSE Eos

\* an end of segment hides everything before it
Context(i) ==
  [d \in 1 .. NGram - 1 |->
     IF \E e \in 1 .. d - 1 : Prev(i, e) = Eos THEN Eos ELSE Prev(i, d)]

\* variant for the runs: the history is stored under the last position itself
CommittedEarly ==
  [s \in SeqId |->
     IF s \notin InUbatch THEN hist[s]
     ELSE LET toks == Snapshot(s) \o [k \in DOMAIN Mine(s) |-> Mine(s)[k].tok]
          IN  [next_pos |-> ubatch[LastOf(s)].pos,
               toks |-> SubSeq(toks, Len(toks) - NGram + 2, Len(toks))]]

Committed ==
  [s \in SeqId |->
     IF s \notin InUbatch THEN hist[s]
     ELSE LET toks == Snapshot(s) \o [k \in DOMAIN Mine(s) |-> Mine(s)[k].tok]
          IN  [next_pos |-> ubatch[LastOf(s)].pos + 1,
               toks |-> SubSeq(toks, Len(toks) - NGram + 2, Len(toks))]]

SetInput ==
  /\ pc = "inputs"
  /\ contexts' = [i \in DOMAIN ubatch |-> Context(i)]
  /\ hist' = Committed
  /\ pc' = "compute"
  /\ UNCHANGED <<caches, recr, left, ubatch, appended, saved>>

\* the clean-up of a decode that fails: seq_rm from the first position of the
\* micro-batch on, for the first sequence of each token.  The recurrent memory
\* refuses it unless that is the whole sequence, and then nothing is removed.
RolledBack(s) == FirstOf(s) \in DOMAIN ubatch /\ RecrAccepts(s, ubatch[FirstOf(s)].pos, -1)
CleanUp ==
  LET gone(c) == [i \in Cell |->
        LET S == {s \in InUbatch : RolledBack(s) /\ s \in c[i].seq
                                   /\ c[i].pos >= ubatch[FirstOf(s)].pos}
        IN  IF S # {} /\ S = c[i].seq THEN Free ELSE [c[i] EXCEPT !.seq = @ \ S]]
      back == {s \in InUbatch : RolledBack(s)}
  IN  /\ attn' = gone(attn)
      /\ idx' = gone(idx)
      /\ recr' = Without(recr, back)
      /\ hist' = [s \in SeqId |->
                    IF s \in back THEN Trimmed(hist[s], ubatch[FirstOf(s)].pos, -1)
                    ELSE hist[s]]
      /\ appended' = Begun(appended \ UNION {ubatch[k].seqs : k \in DOMAIN ubatch})
      /\ pc' = "idle"
      /\ left' = <<>> /\ ubatch' = <<>> /\ contexts' = <<>>
      /\ UNCHANGED saved

\* the graph cannot be allocated, or the rows cannot be read: hist is untouched
InputFails == pc = "inputs" /\ CleanUp
\* the graph fails: hist has the tokens already
ComputeFails == pc = "compute" /\ CleanUp

Compute ==
  /\ pc = "compute"
  /\ pc' = IF left = <<>> THEN "idle" ELSE "ubatch"
  /\ ubatch' = <<>> /\ contexts' = <<>>
  /\ UNCHANGED <<caches, recr, hist, left, appended, saved>>

-----------------------------------------------------------------------------
(* llama_memory_hybrid::state_write and state_read, which hybrid_idx inherits *)

state_write(s) ==
  /\ pc = "idle" /\ Positions(attn, s) # {}
  /\ saved' = {[cell EXCEPT !.seq = {}] : cell \in {attn[i] : i \in {j \in Cell : s \in attn[j].seq}}}
  /\ UNCHANGED <<caches, recr, hist, decode, appended>>

state_read(s) ==
  /\ pc = "idle" /\ saved # {}
  /\ LET c == CacheRm(attn, s, 0, -1)
     IN  \E f \in [saved -> {i \in Cell : c[i] = Free}] :
           /\ \A x, y \in saved : f[x] = f[y] => x = y
           /\ attn' = [i \in Cell |->
                IF \E x \in saved : f[x] = i
                THEN [(CHOOSE x \in saved : f[x] = i) EXCEPT !.seq = {s}] ELSE c[i]]
  /\ recr' = Without(recr, {s}) \cup {[pos |-> Max({x.pos : x \in saved}), seq |-> {s}]}
  /\ appended' = appended \ {s}
  /\ UNCHANGED <<idx, hist, decode, saved>>

-----------------------------------------------------------------------------
Operation ==
  \/ Clear
  \/ \E s \in SeqId, r \in Ranges : seq_rm(s, r[1], r[2])
  \/ \E s, t \in SeqId : seq_cp(s, t)
  \/ \E s \in SeqId : seq_keep(s)

Next ==
  \/ Operation
  \/ Decode \/ ApplyUbatch \/ SetInput \/ Compute \/ InputFails \/ ComputeFails

Spec == Init /\ [][Next]_vars

\* with a caller that saves and restores sequences
StateNext == Next \/ \E s \in SeqId : state_write(s) \/ state_read(s)
StateSpec == Init /\ [][StateNext]_vars

-----------------------------------------------------------------------------
(* Properties *)

\* A cell means the same token in both caches (llama-memory-hybrid-idx.h:33):
\* idx takes the slots of attn and is edited by the same calls, so that the
\* top-k of the indexer selects the cells it has scored.
SameCells == attn = idx

\* The attention cells and the recurrent state of a sequence end at the same
\* position: a call that one of them refuses leaves the other alone.
SameEnd == \A s \in SeqId : CacheMax(attn, s) = TailPos(s)

\* the token of s at position p, as the memory has it
TokenAt(s, p) == {attn[i].tok : i \in {j \in Cell : s \in attn[j].seq /\ attn[j].pos = p}}

\* A token is never given a predecessor that is not the token of its sequence
\* at that position; what is not known reads as the end of a segment.  Tokens
\* of other sequences, of removed positions, or of the same micro-batch must
\* not slip in (qwen4exp.cpp:1175).
NoFalseContext ==
  pc = "compute" =>
    \A i \in DOMAIN ubatch, d \in 1 .. NGram - 1 :
      contexts[i][d] # Eos => TokenAt(ubatch[i].seq, ubatch[i].pos - d) = {contexts[i][d]}

\* what the context should be: the tokens before, as far as they are contiguous
\* and back to the end of a segment
TrueContext(s, p) ==
  [d \in 1 .. NGram - 1 |->
     IF \A e \in 1 .. d : TokenAt(s, p - e) # {} /\ (e < d => TokenAt(s, p - e) # {Eos})
     THEN CHOOSE t \in TokenAt(s, p - d) : TRUE ELSE Eos]

\* A sequence that was only ever appended to never loses its context, over the
\* borders of micro-batches and batches and through the operations on other
\* sequences: stated for the sequence that comes first in its micro-batch.
ContextKept ==
  pc = "compute" =>
    \A i \in DOMAIN ubatch :
      ubatch[i].seq = ubatch[1].seq /\ ubatch[i].seq \in appended =>
        contexts[i] = TrueContext(ubatch[i].seq, ubatch[i].pos)

\* the same for every sequence of the micro-batch
EveryContextKept ==
  pc = "compute" =>
    \A i \in DOMAIN ubatch :
      ubatch[i].seq \in appended => contexts[i] = TrueContext(ubatch[i].seq, ubatch[i].pos)
=============================================================================
