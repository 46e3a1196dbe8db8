----------------------------- MODULE RecurrentMem -----------------------------
(* The recurrent memory (src/src/llama-memory-recurrent.cpp): one cell, and one
   row of the state tensors, holds the state of a whole sequence.  find_slot
   brings the cells of a micro-batch together, next to each other, and leaves
   it to the graph to move the rows (build_rs in llama-graph.cpp); n_rs_seq
   further groups of rows keep the states before the last tokens, from which
   seq_rm takes a few tokens back (build_recurrent_attn in delta-net-base.cpp).

   A row stands for the tokens that were folded into it, so a state taken from
   the wrong row, group or sequence shows up as a wrong history.  What is left in
   a row that nobody may read again is not kept apart: it is Stale, the history
   of no sequence.  The positions
   are not shifted (seq_add, seq_div), a whole-memory state is not saved, and
   of the two tensors only the recurrent states are modelled: the convolution
   states have the same rows and are written to every group.

   prepare() rehearses find_slot on a copy of the cells, with the result that
   it has again when it is applied; the rehearsal is left out.               *)
EXTENDS Integers, Sequences, FiniteSets, FiniteSetsExt, SequencesExt, BatchSplit

CONSTANTS
  NCells,    \* size: cells, and rows of a group
  NSeq,      \* n_seq_max
  NRs,       \* n_rs_seq: how many tokens of a sequence can be taken back
  Token,
  MaxPos,    \* bound: tokens of a sequence
  MaxBatch,  \* bound: tokens of a batch
  Trusting   \* what the caller relies on, see Trusts

Cell  == 0 .. NCells - 1
SeqId == 0 .. NSeq - 1
Group == 0 .. NRs

ASSUME SizeAssumption ==
  /\ NSeq \in Nat \ {0} /\ NCells \in Nat /\ NSeq <= NCells
  /\ NRs \in Nat /\ MaxPos \in Nat /\ MaxBatch \in Nat

\* llama_memory_recurrent and llama_memory_hybrid pass no n_keep_tail, and
\* llama_memory_hybrid_idx passes n_rs_seq + 1 only where n_rs_seq > 0, which its
\* one architecture does not support: no memory asks for a tail to be kept.
ASSUME NoKeepTail == KeepTail = 0

VARIABLES
  cells,   \* pos, src and seq_id of every cell
  tail,    \* tail[s]: the cell of sequence s, or -1
  head,    \* where the last micro-batch was put
  used,    \* the number of cells in use
  rs_idx,  \* rs_idx[s]: how many tokens back the state of s is to be read
  rows,    \* rows[g][i]: row i of group g
  graph,   \* the copies the graph will make, n, rs_z and src0; <<>> when idle
  embd_all, \* whether the batch has an output for every token
  left,    \* the runs of the batch that are not yet in a micro-batch
  ubatch,  \* the micro-batch in progress
  pc,      \* what the context is doing
  truth,   \* history: the tokens of each sequence, as the caller gave them
  undo,    \* history: how many of them the caller may take back
  saved    \* the sequence state the caller last saved

vars == <<cells, tail, head, used, rs_idx, rows, graph, embd_all, left, ubatch, pc,
          truth, undo, saved>>
meta == <<cells, tail, head, used>>
decode == <<graph, embd_all, left, ubatch, pc>>

\* A caller takes tokens back from the last micro-batch of a sequence only, once,
\* and while nothing else happens to the cell.  It may rely on more: that a
\* sequence can be taken back though its cell was moved ("moved"), after it was
\* restored ("restored"), again ("twice"), into an earlier micro-batch
\* ("earlier"), or that a pending one is dropped with its sequence ("pending").
Trusts(what) == what \in Trusting

-----------------------------------------------------------------------------
(* cells *)

EmptyCell == [pos |-> -1, src |-> -1, seq |-> {}]
Empty(c) == {i \in Cell : c[i].seq = {}}

\* the cell after the sequences S have left it
Leave(cell, S) ==
  IF cell.seq # {} /\ cell.seq \subseteq S THEN EmptyCell ELSE [cell EXCEPT !.seq = @ \ S]

\* variant for the runs: as if the search stopped at the end
FirstEmptyAhead(c, i) ==
  LET D == {d \in 0 .. NCells - 1 : i + d < NCells /\ c[i + d].seq = {}}
  IN  IF D = {} THEN i % NCells ELSE i + Min(D)

\* the first empty cell from i on, around the end
FirstEmpty(c, i) ==
  LET D == {d \in 0 .. NCells - 1 : c[(i + d) % NCells].seq = {}}
  IN  IF D = {} THEN i % NCells ELSE (i + Min(D)) % NCells

\* seq_rm and seq_keep pull the head back to the first cell they free
FreedHead(c) ==
  LET freed == Empty(c) \ Empty(cells)
  IN  IF freed # {} /\ Min(freed) < head THEN Min(freed) ELSE head

Settled(s) == rs_idx[s] = 0 \/ Trusts("pending")

\* The rows between two decodes: r where a cell, or a rollback that is pending or
\* that the caller may still ask for, leads to it.
Stale == << <<-1>> >>
Remembered(r) ==
  [g \in Group |-> [i \in Cell |->
     IF \E c \in Cell :
          /\ cells'[c].src = i
          /\ g = 0 \/ \E s \in cells'[c].seq : g <= undo'[s] \/ g = rs_idx'[s]
     THEN r[g][i] ELSE Stale]]

-----------------------------------------------------------------------------
(* Operations of the caller, between two decodes *)

Init ==
  /\ cells = [i \in Cell |-> EmptyCell]
  /\ tail = [s \in SeqId |-> -1]
  /\ head = 0 /\ used = 0
  /\ rs_idx = [s \in SeqId |-> 0]
  /\ rows = [g \in Group |-> [i \in Cell |-> Stale]]
  /\ graph = <<>> /\ embd_all = FALSE /\ left = <<>> /\ ubatch = <<>> /\ pc = "idle"
  /\ truth = [s \in SeqId |-> <<>>]
  /\ undo = [s \in SeqId |-> 0]
  /\ saved = <<>>

\* clear(data): the rows are zeroed, or left, but no cell leads to one
Clear ==
  /\ pc = "idle"
  /\ cells' = [i \in Cell |-> EmptyCell]
  /\ tail' = [s \in SeqId |-> -1]
  /\ head' = 0 /\ used' = 0
  /\ rs_idx' = [s \in SeqId |-> 0]
  /\ truth' = [s \in SeqId |-> <<>>]
  /\ undo' = [s \in SeqId |-> 0]
  /\ UNCHANGED <<decode, saved>>
  /\ rows' = Remembered(rows)

\* the memory after seq_rm(s, 0, -1), the whole of s
Mem == [cells |-> cells, tail |-> tail, head |-> head, used |-> used]
Without(s) ==
  LET c == [i \in Cell |-> Leave(cells[i], {s})]
  IN  [cells |-> c, tail |-> [tail EXCEPT ![s] = -1], head |-> FreedHead(c),
       used |-> used - Cardinality(Empty(c) \ Empty(cells))]
Becomes(m) == cells' = m.cells /\ tail' = m.tail /\ head' = m.head /\ used' = m.used

seq_rm_whole(s) ==
  /\ pc = "idle" /\ tail[s] >= 0
  /\ Becomes(Without(s))
  /\ rs_idx' = [rs_idx EXCEPT ![s] = 0]
  /\ truth' = [truth EXCEPT ![s] = <<>>]
  /\ undo' = [undo EXCEPT ![s] = 0]
  /\ UNCHANGED <<decode, saved>>
  /\ rows' = Remembered(rows)

\* seq_rm(s, p0, -1): back to an earlier state; refused beyond n_rs_seq.  Other
\* ranges leave the state alone.
seq_rm_tail(s, rollback) ==
  /\ pc = "idle" /\ tail[s] >= 0
  /\ rollback <= undo[s]
  /\ rollback <= NRs /\ rollback <= cells[tail[s]].pos
  /\ rs_idx' = [rs_idx EXCEPT ![s] = rollback]
  /\ cells' = [cells EXCEPT ![tail[s]].pos = @ - rollback]
  /\ truth' = [truth EXCEPT ![s] = SubSeq(@, 1, Len(@) - rollback)]
  /\ undo' = [undo EXCEPT ![s] = IF Trusts("twice") THEN @ - rollback ELSE 0]
  /\ UNCHANGED <<tail, head, used, decode, saved>>
  /\ rows' = Remembered(rows)

\* seq_rm(-1, 0, -1): every cell, but not the tails
seq_rm_any ==
  /\ pc = "idle"
  /\ cells' = [i \in Cell |-> IF cells[i].pos >= 0 THEN EmptyCell ELSE cells[i]]
  /\ head' = FreedHead(cells')
  /\ used' = used - Cardinality({i \in Cell : cells[i].seq # {}})
  /\ rs_idx' = [s \in SeqId |-> 0]
  /\ truth' = [s \in SeqId |-> <<>>]
  /\ undo' = [s \in SeqId |-> 0]
  /\ UNCHANGED <<tail, decode, saved>>
  /\ rows' = Remembered(rows)

\* the sequences share the cell until one of them goes on
seq_cp(src, dst) ==
  /\ pc = "idle" /\ src # dst /\ Settled(src) /\ Settled(dst)
  /\ LET c == IF tail[dst] >= 0
              THEN [cells EXCEPT ![tail[dst]] = Leave(@, {dst})] ELSE cells
     IN  /\ cells' = IF tail[src] >= 0
                     THEN [c EXCEPT ![tail[src]].seq = @ \cup {dst}] ELSE c
         /\ used' = used - Cardinality(Empty(c) \ Empty(cells))
  /\ tail' = [tail EXCEPT ![dst] = tail[src]]
  /\ truth' = [truth EXCEPT ![dst] = truth[src]]
  /\ undo' = [undo EXCEPT ![src] = 0, ![dst] = 0]
  /\ UNCHANGED <<head, rs_idx, decode, saved>>
  /\ rows' = Remembered(rows)

\* variant for the runs: as if the tails of the other sequences were left
seq_keepTails(s) ==
  /\ pc = "idle" /\ \A t \in SeqId \ {s} : Settled(t)
  /\ cells' = [i \in Cell |-> IF s \in cells[i].seq
                              THEN [cells[i] EXCEPT !.seq = {s}] ELSE EmptyCell]
  /\ used' = used - Cardinality({i \in Cell : s \notin cells[i].seq /\ cells[i].pos >= 0})
  /\ truth' = [t \in SeqId |-> IF t = s THEN truth[t] ELSE <<>>]
  /\ undo' = [t \in SeqId |-> IF t = s THEN undo[t] ELSE 0]
  /\ UNCHANGED <<tail, head, rs_idx, decode, saved>>
  /\ rows' = Remembered(rows)

seq_keep(s) ==
  /\ pc = "idle" /\ \A t \in SeqId \ {s} : Settled(t)
  /\ cells' = [i \in Cell |-> IF s \in cells[i].seq
                              THEN [cells[i] EXCEPT !.seq = {s}] ELSE EmptyCell]
  /\ tail' = [t \in SeqId |-> IF t = s THEN tail[t] ELSE -1]
  /\ used' = used - Cardinality({i \in Cell : s \notin cells[i].seq /\ cells[i].pos >= 0})
  /\ LET other == {i \in Cell : s \notin cells[i].seq}
     IN  head' = IF other # {} /\ Min(other) < head THEN Min(other) ELSE head
  /\ truth' = [t \in SeqId |-> IF t = s THEN truth[t] ELSE <<>>]
  /\ undo' = [t \in SeqId |-> IF t = s THEN undo[t] ELSE 0]
  /\ UNCHANGED <<rs_idx, decode, saved>>
  /\ rows' = Remembered(rows)

-----------------------------------------------------------------------------
(* find_slot.  The sets of a micro-batch are in order; the first id of a set is
   the one whose cell is used.                                                *)

\* ids that come to share the cell of another leave their own
Unshared(m, ub) ==
  LET gone == UNION {ub[k].seqs \ {First(ub[k])} : k \in DOMAIN ub}
  IN  [cells |-> [i \in Cell |-> Leave(m.cells[i], {t \in gone : m.tail[t] = i})],
       tail  |-> [s \in SeqId |-> IF s \in gone THEN -1 ELSE m.tail[s]]]

\* a cell of its own for s: a new sequence gets the next empty one, one that
\* shares its cell moves out of it.  ok is what the assertions there check.
OwnCell(m, s) ==
  LET old   == m.tail[s]
      e     == m.next
      moved == [m.cells EXCEPT
                  ![e].pos = m.cells[old].pos, ![e].src = m.cells[old].src, ![e].seq = {s},
                  ![old].seq = @ \ {s}]
      next  == IF old >= 0 THEN moved ELSE m.cells
  IN  IF old >= 0 /\ m.cells[old].seq = {s} THEN m
      ELSE [cells |-> next, tail |-> [m.tail EXCEPT ![s] = e],
            next |-> FirstEmpty(next, e + 1),
            ok |-> /\ m.ok /\ m.cells[e].seq = {}
                   /\ old >= 0 => s \in m.cells[old].seq]

\* gather and re-order: dst and src change places, except for src0
Swapped(m, dst, src) ==
  [m EXCEPT
     !.cells = [@ EXCEPT ![dst] = m.cells[src], ![src] = m.cells[dst]],
     !.tail = [s \in SeqId |-> IF @[s] = src THEN dst
                               ELSE IF @[s] = dst THEN src ELSE @[s]]]

\* every set gets its cell, one after the other
Owned(before, ub) ==
  LET start == IF before.head > before.used + 2 * Len(ub) THEN 0 ELSE before.head
      alone == Unshared(before, ub)
      own[k \in 0 .. Len(ub)] ==
        IF k = 0
        THEN [cells |-> alone.cells, tail |-> alone.tail,
              next |-> FirstEmpty(alone.cells, start), ok |-> TRUE]
        ELSE OwnCell(own[k - 1], First(ub[k]))
  IN  own[Len(ub)]

\* and goes to its place from min on
Gathered(owned, min, ub) ==
  LET place[k \in 0 .. Len(ub)] ==
        IF k = 0 THEN [cells |-> owned.cells, tail |-> owned.tail]
        ELSE LET m == place[k - 1] IN Swapped(m, min + k - 1, m.tail[First(ub[k])])
  IN  place[Len(ub)]

\* the cells from min on are those of the sets
Filled(cs, min, ub) ==
  [i \in Cell |->
     LET k == i - min + 1
     IN  IF k \in DOMAIN ub THEN [pos |-> ub[k].pos, src |-> cs[i].src, seq |-> ub[k].seqs]
         ELSE cs[i]]
TailsFilled(tl, min, ub) ==
  [s \in SeqId |->
     IF \E k \in DOMAIN ub : s \in ub[k].seqs
     THEN min + (CHOOSE k \in DOMAIN ub : s \in ub[k].seqs) - 1
     ELSE tl[s]]

\* the first cell of a range that nothing is copied from becomes the zeroed state
ZeroRow(cs, range) ==
  LET zeroed == {i \in range : \A j \in Cell : cs[j].src # i}
  IN  IF zeroed = {} THEN -1 ELSE Min(zeroed)

\* the cells, tails and head after find_slot, and the copies the graph has to make
find_slot(before, ub) ==
  LET owned  == Owned(before, ub)
      mine   == {owned.tail[First(ub[k])] : k \in DOMAIN ub}
      min    == Min(mine)
      range  == min .. Max(mine)
      placed == Gathered(owned, min, ub)
      filled == Filled(placed.cells, min, ub)
      rs_z   == ZeroRow(filled, range)
  IN  [cells |-> [i \in Cell |-> IF i \in range THEN [filled[i] EXCEPT !.src = i]
                                 ELSE filled[i]],
       tail |-> TailsFilled(placed.tail, min, ub),
       head |-> min,
       used |-> Cardinality({i \in Cell : filled[i].seq # {}}),
       graph |-> [n |-> Max(mine) - min + 1, rs_z |-> rs_z,
                  src0 |-> [i \in range |->
                              IF filled[i].src < 0 THEN rs_z ELSE filled[i].src]],
       ok |-> owned.ok /\ \A i \in range : filled[i].src < 0 => rs_z >= 0]

-----------------------------------------------------------------------------
(* Decode *)

\* the runs of a batch are of disjoint sets of sequences, in any order
SeqSets == (SUBSET SeqId) \ {{}}
Orders ==
  {f \in UNION {[1 .. n -> SeqSets] : n \in 1 .. NSeq} :
     \A x, y \in DOMAIN f : x # y => f[x] \cap f[y] = {}}

\* what llama_batch_allocr::init admits: sequences that share tokens are at the
\* same place
Admitted(S) == \A s, t \in S : s # t => truth[s] = truth[t] /\ Settled(s)

\* a token of a run says whose it is
Run(S, m, t) == [seqs |-> S, toks |-> [k \in 1 .. m |-> <<Min(S), t>>]]

Decode ==
  /\ pc = "idle"
  /\ \E f \in Orders :
       /\ \A k \in DOMAIN f : Admitted(f[k])
       /\ \E len \in [DOMAIN f -> 1 .. MaxBatch], t \in [DOMAIN f -> Token] :
            /\ FoldLeft(+, 0, len) <= MaxBatch
            /\ \A k \in DOMAIN f : Len(truth[Min(f[k])]) + len[k] <= MaxPos
            /\ left' = [k \in DOMAIN f |-> Run(f[k], len[k], t[k])]
  /\ embd_all' \in BOOLEAN
  /\ pc' = "ubatch"
  /\ UNCHANGED <<meta, rs_idx, rows, graph, ubatch, truth, undo, saved>>

\* what the next micro-batch takes of the runs
Take == IF embd_all THEN split_seq(left) ELSE split_equal(left)

\* and where that ends in the memory
WithPos(runs) ==
  [k \in DOMAIN runs |->
     LET run == runs[k]
     IN  [seqs |-> run.seqs, toks |-> run.toks,
          pos |-> (IF tail[First(run)] < 0 THEN -1 ELSE cells[tail[First(run)]].pos)
                    + Len(run.toks)]]

\* llama_memory_recurrent_context::apply
Apply ==
  /\ pc = "ubatch"
  /\ LET ub == WithPos(Piece(left, Take))
         m  == find_slot(Mem, ub)
     IN  /\ ubatch' = ub
         /\ Becomes(m)
         /\ graph' = m.graph
         /\ pc' = IF m.ok THEN "inputs" ELSE "aborted"
         /\ undo' = [s \in SeqId |->
                       IF m.tail[s] = tail[s] \/ Trusts("moved") THEN undo[s] ELSE 0]
  /\ left' = Rest(left, Take)
  /\ UNCHANGED <<embd_all, rs_idx, rows, truth, saved>>

\* s_copy: the row that cell i is to be filled from
SCopy(i) ==
  [group |-> IF cells[i].seq = {} THEN 0 ELSE rs_idx[Min(cells[i].seq)],
   row |-> graph.src0[i]]
Copied(i) ==
  IF graph.rs_z >= 0 /\ SCopy(i) = [group |-> 0, row |-> graph.rs_z] THEN <<>>
  ELSE rows[SCopy(i).group][SCopy(i).row]

InRange == head .. head + graph.n - 1
Main(k) == head + k - 1
Extra == {i \in InRange : i >= head + Len(ubatch)}

\* the rollback indices are used up when the inputs are set
UsedUp ==
  [s \in SeqId |->
     IF \E i \in InRange : cells[i].seq # {} /\ s = Min(cells[i].seq) THEN 0 ELSE rs_idx[s]]

\* group g gets the state before the last g tokens of the micro-batch
Snapshot(k, g) == Copied(Main(k)) \o SubSeq(ubatch[k].toks, 1, Len(ubatch[k].toks) - g)

NewRows ==
  [g \in Group |-> [i \in Cell |->
     IF \E k \in DOMAIN ubatch : i = Main(k) /\ g < Len(ubatch[k].toks)
     THEN Snapshot(i - head + 1, g)
     ELSE IF g = 0 /\ i \in Extra THEN Copied(i)
     ELSE IF g = 0 /\ i = graph.rs_z THEN <<>>
     ELSE rows[g][i]]]

MinOf(a, b) == IF a < b THEN a ELSE b

\* the tokens before the micro-batch that the caller may take back with it
Reach(s) == IF Trusts("earlier") THEN Len(truth[s]) ELSE 0

Compute ==
  /\ pc = "inputs"
  /\ rs_idx' = UsedUp
  /\ LET part(s) == {k \in DOMAIN ubatch : s \in ubatch[k].seqs}
         toks(s) == ubatch[CHOOSE k \in part(s) : TRUE].toks
     IN  /\ truth' = [s \in SeqId |-> IF part(s) = {} THEN truth[s] ELSE truth[s] \o toks(s)]
         /\ undo' = [s \in SeqId |->
                       IF part(s) = {} THEN undo[s]
                       ELSE IF ubatch[CHOOSE k \in part(s) : TRUE].seqs # {s} THEN 0
                       ELSE MinOf(NRs, Reach(s) + Len(toks(s)) - 1)]
  /\ graph' = <<>> /\ ubatch' = <<>>
  /\ pc' = IF left = <<>> THEN "idle" ELSE "ubatch"
  /\ embd_all' = (embd_all /\ left # <<>>)
  /\ UNCHANGED <<meta, left, saved>>
  /\ rows' = IF left = <<>> THEN Remembered(NewRows) ELSE NewRows

\* The graph fails after the inputs were set: the rows were not written.  The
\* clean-up takes the tokens of the micro-batch back, sequence by sequence, as
\* far as seq_rm accepts it, and the caller gives up the others.
ComputeFails ==
  /\ pc = "inputs"
  /\ LET taken(i) == {k \in DOMAIN ubatch : Main(k) = i}
         n(i)     == Len(ubatch[CHOOSE k \in taken(i) : TRUE].toks)
         back(i)  == taken(i) # {} /\ n(i) <= MinOf(NRs, cells[i].pos)
         dropped  == {s \in SeqId : tail[s] >= 0 /\ taken(tail[s]) # {} /\ ~back(tail[s])}
     IN  /\ cells' = [i \in Cell |->
                        IF back(i) THEN [cells[i] EXCEPT !.pos = @ - n(i)]
                        ELSE Leave(cells[i], dropped)]
         /\ tail' = [s \in SeqId |-> IF s \in dropped THEN -1 ELSE tail[s]]
         /\ used' = used - Cardinality(Empty(cells') \ Empty(cells))
         /\ rs_idx' = [s \in SeqId |->
                         IF tail[s] >= 0 /\ back(tail[s]) /\ s = Min(cells[tail[s]].seq)
                         THEN n(tail[s]) ELSE UsedUp[s]]
         /\ truth' = [s \in SeqId |-> IF s \in dropped THEN <<>> ELSE truth[s]]
  /\ undo' = [s \in SeqId |-> 0]
  /\ graph' = <<>> /\ embd_all' = FALSE /\ ubatch' = <<>> /\ left' = <<>> /\ pc' = "idle"
  /\ UNCHANGED <<head, saved>>
  /\ rows' = Remembered(rows)

-----------------------------------------------------------------------------
(* Saving and restoring a sequence *)

\* variant for the runs: as if the rollback index were not looked at
StateRowLatest(s) == rows[0][tail[s]]

\* the row that holds the state of s: that of its rollback index, if any
StateRow(s) ==
  LET cell == cells[tail[s]]
      idx  == Max({rs_idx[t] : t \in cell.seq})
  IN  IF idx = 0 \/ cell.src < 0 THEN rows[idx][tail[s]] ELSE rows[idx][cell.src]

state_write(s) ==
  /\ pc = "idle" /\ tail[s] >= 0 /\ s \in cells[tail[s]].seq
  /\ saved' = [row |-> StateRow(s), pos |-> cells[tail[s]].pos, truth |-> truth[s]]
  /\ UNCHANGED <<meta, rs_idx, rows, decode, truth, undo>>

\* the sequence is removed, gets a cell as if it had decoded one token, and the
\* row; there are no snapshots, and the cell keeps its row
state_read(s) ==
  /\ pc = "idle" /\ saved # <<>>
  /\ LET m == find_slot(Without(s), <<[seqs |-> {s}, pos |-> saved.pos]>>)
     IN  /\ cells' = [m.cells EXCEPT ![m.head].src = m.head]
         /\ tail' = m.tail /\ head' = m.head /\ used' = m.used
         /\ pc' = IF m.ok THEN "idle" ELSE "aborted"
  /\ rs_idx' = [rs_idx EXCEPT ![s] = 0]
  /\ truth' = [truth EXCEPT ![s] = saved.truth]
  /\ undo' = [undo EXCEPT ![s] = IF Trusts("restored") THEN MinOf(NRs, saved.pos) ELSE 0]
  /\ UNCHANGED <<graph, embd_all, left, ubatch, saved>>
  /\ rows' = Remembered([rows EXCEPT ![0][head'] = saved.row])

-----------------------------------------------------------------------------
Next ==
  \/ Clear
  \/ \E s \in SeqId : seq_rm_whole(s)
  \/ \E s \in SeqId, r \in Group \ {0} : seq_rm_tail(s, r)
  \/ \E s, t \in SeqId : seq_cp(s, t)
  \/ \E s \in SeqId : seq_keep(s)
  \/ \E s \in SeqId : state_write(s)
  \/ \E s \in SeqId : state_read(s)
  \/ Decode \/ Apply \/ Compute

Spec == Init /\ [][Next]_vars

\* with graphs that fail, and with a caller that removes all sequences at once
FailSpec == Init /\ [][Next \/ ComputeFails]_vars
AnySpec == Init /\ [][Next \/ seq_rm_any]_vars

-----------------------------------------------------------------------------
(* Properties *)

\* The state that the next decode of a sequence starts from is that of its own
\* tokens: through moves and copies of cells, rollbacks to a snapshot, shared
\* cells that part, and the zeroed cell.  A new sequence starts from nothing.
Reads(s) ==
  IF tail[s] < 0 \/ cells[tail[s]].src < 0 THEN <<>>
  ELSE rows[rs_idx[Min(cells[tail[s]].seq)]][cells[tail[s]].src]
StateIsHistory ==
  /\ pc = "idle" => \A s \in SeqId : Reads(s) = truth[s]
  /\ pc = "inputs" =>
       \A k \in DOMAIN ubatch : Copied(Main(k)) = truth[First(ubatch[k])]

\* The tails, the sequences of the cells and the number of used cells agree, as
\* the debug check of find_slot asks (llama-memory-recurrent.cpp:525).
TailsAgree ==
  pc \in {"idle", "inputs"} =>
    /\ \A s \in SeqId, i \in Cell : s \in cells[i].seq <=> tail[s] = i
    /\ used = Cardinality({i \in Cell : cells[i].seq # {}})

\* The assertions of find_slot hold: a sequence is in the cell its tail names,
\* there is an empty cell for every sequence that needs one, and a row to zero.
NeverAborts == pc # "aborted"
=============================================================================
