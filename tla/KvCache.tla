------------------------------- MODULE KvCache -------------------------------
(***************************************************************************)
(* The unified KV cache, llama_kv_cache of src/src/llama-kv-cache.cpp, and *)
(* the part of llama_context::decode that drives it.  One caller at a time *)
(* uses a context, so there is no concurrency here: what is hard is the    *)
(* order of calls.  Memory operations (seq_rm, seq_cp, seq_add, ...) edit  *)
(* the metadata at once and leave the tensors to the next decode, which    *)
(*                                                                         *)
(*   update    runs the queued stream copies, then the K-shift             *)
(*   prepare   places every micro-batch, as a rehearsal                    *)
(*   restore   undoes the rehearsal, last micro-batch first                *)
(*   compute   applies and computes the micro-batches one by one           *)
(*                                                                         *)
(* pc says which of these a decode is in, "idle" when the caller may issue *)
(* another operation.                                                      *)
(*                                                                         *)
(* A K row is abstracted to the token it was computed from (named by its   *)
(* first sequence) and the position it is roped at.  want is a history     *)
(* variable: the token the caller put into each cell; job.before is       *)
(* another, the cells and heads before prepare().                          *)
(***************************************************************************)
EXTENDS KvCells, Sequences, FiniteSetsExt, Functions, Subsequences

CONSTANTS NStream,       \* 1 (unified) or NSeq (one stream per sequence)
          SwaType,       \* swa_type: "none", "standard" or "chunked"
          NSwa,          \* n_swa, the attention window
          UBatch,        \* n_ubatch: tokens of a micro-batch
          MaxBatch,      \* bound on the tokens of a batch
          Starts,        \* bound: the positions at which a sequence may begin
          SharedBatch,   \* batches with tokens that belong to several sequences
          AnyOrder,      \* batches whose positions are repeated or decrease
          Ranges,        \* the <<p0, p1>> a caller passes
          Deltas, Divs,  \* the shifts and divisors a caller passes
          MaxShift,      \* bound on the pending shift of a cell
          Ops,           \* the operations the caller uses
          Faults,        \* what may fail: "shift", "compute"
          CallerCleans   \* the caller empties the target before seq_cp

ASSUME ConfigAssumption ==
    /\ NStream \in {1, NSeq}
    /\ NSwa \in Nat \ {0} /\ UBatch \in Nat \ {0} /\ MaxBatch \in Nat
    /\ SharedBatch \in BOOLEAN /\ AnyOrder \in BOOLEAN /\ CallerCleans \in BOOLEAN
    /\ Starts \subseteq Nat
    /\ Ranges \subseteq Int \X Int
    /\ Deltas \subseteq Int \ {0} /\ Divs \subseteq Nat \ {0, 1}
    /\ MaxShift \in Nat

VARIABLES cells,   \* v_cells
          heads,   \* v_heads
          sc,      \* sc_info: queued <<ssrc, sdst>> stream copies
          rows,    \* k_stream: the K rows of each stream
          want,    \* history: the token each cell stands for
          pc,      \* what the context is doing
          job,     \* the decode in progress
          saved    \* the sequence state the caller last saved

vars == <<cells, heads, sc, rows, want, pc, job, saved>>

Stream == 0..(NStream - 1)
NoTok  == -1
NoRow  == [tok |-> NoTok, rot |-> 0]
NoJob  == [ubs |-> <<>>, k |-> 0, placed |-> <<>>, ok |-> TRUE, retried |-> FALSE,
           before |-> <<>>]

seq_to_stream(s) == IF NStream = 1 THEN 0 ELSE s

Init ==
    /\ cells = [st \in Stream |-> EmptyCells]
    /\ heads = [st \in Stream |-> 0]
    /\ sc = <<>>
    /\ rows = [st \in Stream |-> [i \in Cell |-> NoRow]]
    /\ want = [st \in Stream |-> [i \in Cell |-> NoTok]]
    /\ pc = "idle"
    /\ job = NoJob
    /\ saved = <<>>

-----------------------------------------------------------------------------
(* Helpers *)

\* the cells of c with a position in [p0, p1), negative bounds meaning "open"
InRange(c, p0, p1) ==
    {i \in Cell : PosIn(c, i, IF p0 < 0 THEN 0 ELSE p0, IF p1 < 0 THEN MaxPos + 1 ELSE p1)}

SeqInRange(c, s, p0, p1) == SeqHas(c, s) \cap InRange(c, p0, p1)

\* where the search restarts when the operation freed cells below the head
FreedHead(c, d, head) ==
    LET freed == {i \in Cell : ~IsEmpty(c, i) /\ IsEmpty(d, i)}
    IN  IF freed # {} /\ Min(freed) < head THEN Min(freed) ELSE head

\* want of the cells that are empty is forgotten
Known(w, cs) ==
    [st \in Stream |-> [i \in Cell |-> IF IsEmpty(cs[st], i) THEN NoTok ELSE w[st][i]]]

is_masked_swa(p0, p1) ==
    CASE SwaType = "standard" -> p1 - p0 >= NSwa
      [] SwaType = "chunked"  -> p0 < (p1 \div NSwa) * NSwa
      [] OTHER                -> FALSE

\* variants for the runs: the window is not looked at; it is taken one short
CanUseAny(c, i) == IsEmpty(c, i) \/ \E s \in SeqId : c.seq[i] = {s}

CanUseEarly(c, i) ==
    \/ IsEmpty(c, i)
    \/ \E s \in SeqId : c.seq[i] = {s} /\ is_masked_swa(c.pos[i], SeqPosMax(c, s) + 2)

\* a cell find_slot may take: empty, or its one sequence no longer attends to it
CanUse(c, i) ==
    \/ IsEmpty(c, i)
    \/ \E s \in SeqId : /\ c.seq[i] = {s}
                        /\ is_masked_swa(c.pos[i], SeqPosMax(c, s) + 1)

\* f holds the first n usable cells at or after the head, in the order of the
\* (cyclic) search
FirstFit(c, head, n, f) ==
    LET start  == IF head > Cardinality(c.used) + 2 * n THEN 0 ELSE head
        off(i) == (i - start + NCells) % NCells
    IN  /\ \A a \in 1..n : CanUse(c, f[a])
        /\ \A a, b \in 1..n : a < b => off(f[a]) < off(f[b])
        /\ \A i \in Cell : CanUse(c, i) /\ off(i) < off(f[n]) => i \in Range(f)

Slots(c, head, n) == {f \in [1..n -> Cell] : FirstFit(c, head, n, f)}

\* find_slot for each group of the micro-batch; there is no slot unless all fit
Fits(ub) ==
    \A g \in DOMAIN ub.strm :
        Slots(cells[ub.strm[g]], heads[ub.strm[g]], Len(ub.toks[g])) # {}

find_slot(ub) ==
    [g \in DOMAIN ub.strm |->
        CHOOSE f \in Slots(cells[ub.strm[g]], heads[ub.strm[g]], Len(ub.toks[g])) : TRUE]

\* variant for the runs: nothing is purged
ApplyGroupNoPurge(c, f, toks) ==
    Emplace(Rm(c, {i \in Range(f) : ~IsEmpty(c, i)}),
            [i \in Range(f) |-> toks[CHOOSE a \in DOMAIN f : f[a] = i]])

\* one group of apply_ubatch: overwrite the cells of the slot, then purge every
\* position below an overwritten one
ApplyGroup(c, f, toks) ==
    LET over   == {i \in Range(f) : ~IsEmpty(c, i)}
        lost(s) == {i \in over : s \in c.seq[i]}
        at     == [i \in Range(f) |-> toks[CHOOSE a \in DOMAIN f : f[a] = i]]
        d      == Emplace(Rm(c, over), at)
        purge  == [i \in Cell |-> {s \in d.seq[i] :
                      \E j \in lost(s) : d.pos[i] <= c.pos[j]}]
    IN  SeqRm(d, purge)

GroupOf(ub, st) == CHOOSE g \in DOMAIN ub.strm : ub.strm[g] = st

\* variant for the runs: the head skips a cell
ApplyHeadsSkip(ub, sinfo) ==
    [st \in Stream |->
        IF st \in Range(ub.strm)
        THEN LET f == sinfo[GroupOf(ub, st)] IN f[Len(f)] + 2
        ELSE heads[st]]

\* apply_ubatch on the cells and on the heads
ApplyCells(ub, sinfo) ==
    [st \in Stream |->
        IF st \in Range(ub.strm)
        THEN ApplyGroup(cells[st], sinfo[GroupOf(ub, st)], ub.toks[GroupOf(ub, st)])
        ELSE cells[st]]

ApplyHeads(ub, sinfo) ==
    [st \in Stream |->
        IF st \in Range(ub.strm)
        THEN LET f == sinfo[GroupOf(ub, st)] IN f[Len(f)] + 1
        ELSE heads[st]]

\* the rows (or the history) after x(tok) is written for each token of ub
Written(r, ub, sinfo, x(_)) ==
    [st \in Stream |->
        IF st \in Range(ub.strm)
        THEN LET g == GroupOf(ub, st)
             IN  [i \in Cell |-> IF i \in Range(sinfo[g])
                      THEN x(ub.toks[g][CHOOSE a \in DOMAIN sinfo[g] : sinfo[g][a] = i])
                      ELSE r[st][i]]
        ELSE r[st]]

TokOf(t) == Min(t.seq)
RowOf(t) == [tok |-> TokOf(t), rot |-> t.pos]

HasShift == \E st \in Stream : cells[st].hasShift

\* the enumerations of a finite set of integers in increasing order: just one
Increasing(D) ==
    {e \in [1..Cardinality(D) -> D] : \A a, b \in DOMAIN e : a < b => e[a] < e[b]}

-----------------------------------------------------------------------------
(* Memory operations: called between two decodes *)

Idle(op) == pc = "idle" /\ op \in Ops

\* the operation replaces the cells of stream st by d and its head by h
Edit(st, d, h) ==
    /\ cells' = [cells EXCEPT ![st] = d]
    /\ heads' = [heads EXCEPT ![st] = h]
    /\ want' = Known(want, cells')
    /\ UNCHANGED <<sc, rows, pc, job, saved>>

\* clear(data): with data the buffers are zeroed as well
Clear(data) ==
    /\ Idle("clear")
    /\ cells' = [st \in Stream |-> EmptyCells]
    /\ heads' = [st \in Stream |-> 0]
    /\ want' = Known(want, cells')
    /\ rows' = IF data THEN [st \in Stream |-> [i \in Cell |-> NoRow]] ELSE rows
    /\ UNCHANGED <<sc, pc, job, saved>>

\* the cells of the stream of s after seq_rm(s, p0, p1)
SeqRmCells(s, p0, p1) ==
    LET c == cells[seq_to_stream(s)] IN SeqRm(c, Only(SeqInRange(c, s, p0, p1), s))

seq_rm(s, p0, p1) ==
    LET st == seq_to_stream(s)
        d  == SeqRmCells(s, p0, p1)
    IN  /\ Idle("rm")
        /\ Edit(st, d, FreedHead(cells[st], d, heads[st]))

\* seq_rm(-1, p0, p1): every sequence of every stream
seq_rm_any(p0, p1) ==
    /\ Idle("rm_any")
    /\ cells' = [st \in Stream |-> Rm(cells[st], InRange(cells[st], p0, p1))]
    /\ heads' = [st \in Stream |-> FreedHead(cells[st], cells'[st], heads[st])]
    /\ want' = Known(want, cells')
    /\ UNCHANGED <<sc, rows, pc, job, saved>>

\* seq_cp within a stream: the cells are shared
seq_cp(src, dst, p0, p1) ==
    LET st == seq_to_stream(src)
        I  == SeqInRange(cells[st], src, p0, p1)
    IN  /\ Idle("cp") /\ src # dst /\ seq_to_stream(dst) = st
        /\ CallerCleans => I \cap SeqHas(cells[st], dst) = {}
        /\ Edit(st, SeqAdd(cells[st], I, dst), heads[st])

\* variant for the runs: the shift still pending is not handed on
CopiedUnshifted(c, src, dst) ==
    Emplace(EmptyCells, [i \in SeqHas(c, src) |-> [pos |-> c.pos[i], seq |-> {dst}]])

\* the metadata of the target of a copy between streams: pos_set to the
\* unshifted position, seq_add, then pos_add of the shift still pending
CopiedCells(c, src, dst) ==
    LET I  == SeqHas(c, src)
        at == [i \in I |-> [pos |-> c.pos[i] - c.shift[i], seq |-> {dst}]]
    IN  PosAdd(Emplace(EmptyCells, at), {i \in I : c.shift[i] # 0}, c.shift)

\* seq_cp between streams: the whole buffer, copied by the next update
seq_cp_stream(src, dst) ==
    LET s0 == seq_to_stream(src)
        s1 == seq_to_stream(dst)
    IN  /\ Idle("cp") /\ s0 # s1
        /\ Len(sc) < NStream
        /\ \A i \in SeqHas(cells[s0], src) : cells[s0].pos[i] - cells[s0].shift[i] \in Pos
        /\ sc' = Append(sc, <<s0, s1>>)
        /\ cells' = [cells EXCEPT ![s1] = CopiedCells(cells[s0], src, dst)]
        /\ heads' = [heads EXCEPT ![s1] = heads[s0]]
        /\ want' = Known([want EXCEPT ![s1] = want[s0]], cells')
        /\ UNCHANGED <<rows, pc, job, saved>>

seq_keep(s) ==
    LET st == seq_to_stream(s)
        d  == SeqKeep(cells[st], s)
    IN  /\ Idle("keep")
        /\ Edit(st, d, FreedHead(cells[st], d, heads[st]))

seq_add(s, p0, p1, delta) ==
    LET st == seq_to_stream(s)
        c  == cells[st]
        I  == SeqInRange(c, s, p0, p1)
        d  == PosAdd(c, I, [i \in Cell |-> delta])
        freed == {i \in I : IsEmpty(d, i)}
    IN  /\ Idle("add") /\ p0 # p1
        /\ \A i \in I : c.pos[i] + delta <= MaxPos /\ c.shift[i] + delta \in -MaxShift..MaxShift
        /\ Edit(st, d, IF freed = {} THEN 0 ELSE Min(freed))

seq_div(s, p0, p1, div) ==
    LET st == seq_to_stream(s)
        c  == cells[st]
        I  == SeqInRange(c, s, p0, p1)
        d  == PosDiv(c, I, div)
    IN  /\ Idle("div") /\ p0 # p1
        /\ \A i \in I : d.shift[i] \in -MaxShift..MaxShift
        /\ Edit(st, d, heads[st])

-----------------------------------------------------------------------------
(* Saving and restoring one sequence: llama_state_seq_get_data, _set_data *)

\* state_write writes the metadata and the rows as they are at the call
state_write(s) ==
    LET st == seq_to_stream(s)
    IN  /\ Idle("write")
        /\ saved' = [i \in SeqHas(cells[st], s) |->
                        [pos |-> cells[st].pos[i], row |-> rows[st][i], want |-> want[st][i]]]
        /\ UNCHANGED <<cells, heads, sc, rows, want, pc, job>>

\* the saved cells in the order of e, as tokens of s
SavedToks(s, e) == [a \in DOMAIN e |-> [pos |-> saved[e[a]].pos, seq |-> {s}]]

SavedAt(f, e, i) == saved[e[CHOOSE a \in DOMAIN f : f[a] = i]]

\* variant for the runs: the rows go to consecutive cells even if the slot has gaps
SavedRowsDense(r, f, e) ==
    [i \in Cell |-> IF i \in f[1]..(f[1] + Len(e) - 1) THEN saved[e[i - f[1] + 1]].row ELSE r[i]]

\* the rows (and the history) of a stream once the saved ones are in the slot f
SavedRows(r, f, e) == [i \in Cell |-> IF i \in Range(f) THEN SavedAt(f, e, i).row ELSE r[i]]
SavedWant(w, f, e) == [i \in Cell |-> IF i \in Range(f) THEN SavedAt(f, e, i).want ELSE w[i]]

\* state_read removes the sequence, finds a slot for the saved cells and
\* applies them as one micro-batch; without a slot the sequence stays removed
state_read(s) ==
    LET st == seq_to_stream(s)
        d  == SeqRmCells(s, -1, -1)
        h  == FreedHead(cells[st], d, heads[st])
        n  == Cardinality(DOMAIN saved)
        F  == Slots(d, h, n)
    IN  /\ Idle("read") /\ n > 0
        /\ \/ /\ F = {}
              /\ Edit(st, d, h)
           \/ \E f \in F, e \in Increasing(DOMAIN saved) :
              /\ cells' = [cells EXCEPT ![st] = ApplyGroup(d, f, SavedToks(s, e))]
              /\ heads' = [heads EXCEPT ![st] = f[n] + 1]
              /\ rows' = [rows EXCEPT ![st] = SavedRows(@, f, e)]
              /\ want' = Known([want EXCEPT ![st] = SavedWant(@, f, e)], cells')
              /\ UNCHANGED <<sc, pc, job, saved>>

-----------------------------------------------------------------------------
(* The batch of a decode: tokens, each with a position and its sequences.  *)
(* llama_batch_allocr::init admits them in any order, as long as the       *)
(* positions of a sequence have no gap and continue what the cache holds   *)
(* of it, if it holds anything; split_simple (one stream) and split_equal  *)
(* (several) cut the batch into micro-batches.                             *)

NextPos(s) == SeqPosMax(cells[seq_to_stream(s)], s) + 1

Token == [pos : Pos, seq : (SUBSET SeqId) \ {{}}]

\* the places of the tokens of s in b, and their positions
PlacesOf(b, s) == {i \in DOMAIN b : s \in b[i].seq}
PosOf(b, s)    == {b[i].pos : i \in PlacesOf(b, s)}

\* llama_batch_allocr::init, what does not depend on the cache: the positions of
\* a sequence are consecutive.  That they never decrease is meant to be checked
\* as well, but cur_seq_pos is never assigned; without AnyOrder the caller sees
\* to it that they increase.  With several streams no token is shared.
Lists ==
    LET tokens == {t \in Token : \/ SharedBatch /\ NStream = 1
                                 \/ \E s \in SeqId : t.seq = {s}}
    IN  {b \in UNION {[1..n -> tokens] : n \in 1..MaxBatch} :
            \A s \in SeqId :
                /\ PosOf(b, s) # {} => PosOf(b, s) = Min(PosOf(b, s))..Max(PosOf(b, s))
                /\ AnyOrder \/ \A i, k \in PlacesOf(b, s) : i < k => b[i].pos < b[k].pos}

\* what depends on it: a sequence that has a position is continued after its last
\* one, coupled sequences have not diverged
Joins(b) ==
    /\ \A s \in SeqId : PosOf(b, s) # {} =>
          IF NextPos(s) = 0 THEN Min(PosOf(b, s)) \in Starts ELSE Min(PosOf(b, s)) = NextPos(s)
    /\ \A i \in DOMAIN b : \A s, t \in b[i].seq :
          NextPos(s) = NextPos(t) /\ SeqPosMin(cells[0], s) = SeqPosMin(cells[0], t)

\* split_simple: the next UBatch tokens
split_simple(b) ==
    [j \in 1..((Len(b) + UBatch - 1) \div UBatch) |->
        [strm |-> <<0>>,
         toks |-> <<Picked(b, {i \in DOMAIN b : (i - 1) \div UBatch = j - 1})>>]]

\* split_equal with sequential: of the places R that are left, the next
\* micro-batch takes the same number of tokens of the first sequence, of the one
\* with the next id if it turns up later, and so on
Taken(b, R) ==
    LET of(s)    == {i \in R : TokOf(b[i]) = s}
        s0       == TokOf(b[Min(R)])
        joins(s) == \E f \in [s0..s -> R] :
                        \A q, r \in s0..s : TokOf(b[f[q]]) = q /\ (q < r => f[q] < f[r])
        S    == {s \in SeqId : s0 <= s /\ s <= s0 + UBatch /\ joins(s)}
        each == Min({Cardinality(of(s)) : s \in S}
                       \cup {Max({1, UBatch \div Cardinality(S)})})
    IN  UNION {{i \in of(s) : Cardinality({k \in of(s) : k <= i}) <= each} : s \in S}

\* the places that are left after j micro-batches
Left(b) ==
    LET left[j \in 0..Len(b)] ==
            IF j = 0 THEN DOMAIN b
            ELSE IF left[j - 1] = {} THEN {} ELSE left[j - 1] \ Taken(b, left[j - 1])
    IN  left

split_equal(b) ==
    LET left == Left(b)
        seqs(j) == {TokOf(b[i]) : i \in left[j - 1] \ left[j]}
    IN  [j \in 1..Min({j \in DOMAIN left : left[j] = {}}) |->
            [strm |-> [g \in 1..Cardinality(seqs(j)) |-> Min(seqs(j)) + g - 1],
             toks |-> [g \in 1..Cardinality(seqs(j)) |->
                          Picked(b, {i \in DOMAIN b :
                              i \in left[j - 1] \ left[j] /\ TokOf(b[i]) = Min(seqs(j)) + g - 1})]]]

Batches ==
    {IF NStream = 1 THEN split_simple(b) ELSE split_equal(b) : b \in {b \in Lists : Joins(b)}}

\* what init() and the splits guarantee of the micro-batches they hand over
Ubatch  == [strm : Seq(Stream), toks : Seq(Seq(Token))]
Admitted(ubs) ==
    /\ ubs \in Seq(Ubatch) /\ ubs # <<>>
    /\ \A j \in DOMAIN ubs :
         /\ Len(ubs[j].strm) \in 1..NStream /\ IsInjective(ubs[j].strm)
         /\ Len(ubs[j].toks) = Len(ubs[j].strm)
         /\ \A g \in DOMAIN ubs[j].toks : Len(ubs[j].toks[g]) > 0

-----------------------------------------------------------------------------
(* llama_context::decode *)

Decode ==
    /\ Idle("decode")
    /\ \E ubs \in Batches : Admitted(ubs) /\ job' = [NoJob EXCEPT !.ubs = ubs]
    /\ pc' = "update"
    /\ UNCHANGED <<cells, heads, sc, rows, want, saved>>

\* update(): one queued stream copy
CopyStream ==
    /\ pc = "update" /\ sc # <<>>
    /\ rows' = [rows EXCEPT ![Head(sc)[2]] = rows[Head(sc)[1]]]
    /\ sc' = Tail(sc)
    /\ UNCHANGED <<cells, heads, want, pc, job, saved>>

\* prepare() is entered with the cells cs
StartPrepare(cs) ==
    /\ pc' = "prepare"
    /\ job' = [job EXCEPT !.k = 1, !.placed = <<>>, !.before = <<cs, heads>>]

\* update(): the K-shift graph rotates every row by the shift of its cell
KShift ==
    /\ pc = "update" /\ sc = <<>> /\ HasShift
    /\ rows' = [st \in Stream |-> [i \in Cell |->
                  IF IsEmpty(cells[st], i) THEN rows[st][i]
                  ELSE [rows[st][i] EXCEPT !.rot = @ + cells[st].shift[i]]]]
    /\ cells' = [st \in Stream |-> ResetShift(cells[st])]
    /\ StartPrepare(cells')
    /\ UNCHANGED <<heads, sc, want, saved>>

\* update(): the graph could not be allocated, or failed before it rotated a row;
\* decode goes on
KShiftFails ==
    /\ "shift" \in Faults
    /\ pc = "update" /\ sc = <<>> /\ HasShift
    /\ StartPrepare(cells)
    /\ UNCHANGED <<cells, heads, sc, rows, want, saved>>

NoUpdate ==
    /\ pc = "update" /\ sc = <<>> /\ ~HasShift
    /\ StartPrepare(cells)
    /\ UNCHANGED <<cells, heads, sc, rows, want, saved>>

\* prepare(): remember the state of the cells of the slot, apply the micro-batch
PlaceUbatch ==
    /\ pc = "prepare" /\ job.k <= Len(job.ubs)
    /\ LET ub    == job.ubs[job.k]
           sinfo == find_slot(ub)
       IN  /\ Fits(ub)
           /\ job' = [job EXCEPT
                !.k = @ + 1,
                !.placed = Append(@, [idxs  |-> sinfo,
                                      old   |-> [g \in DOMAIN sinfo |->
                                                   Copy(cells[ub.strm[g]], Range(sinfo[g]))],
                                      heads |-> heads])]
           /\ cells' = ApplyCells(ub, sinfo)
           /\ heads' = ApplyHeads(ub, sinfo)
    /\ UNCHANGED <<sc, rows, want, pc, saved>>

\* prepare(): every micro-batch is placed, or the next one finds no slot
StartRestore(ok) ==
    /\ pc' = "restore"
    /\ job' = [job EXCEPT !.ok = ok, !.k = Len(job.placed)]
    /\ UNCHANGED <<cells, heads, sc, rows, want, saved>>

AllPlaced == pc = "prepare" /\ job.k > Len(job.ubs) /\ StartRestore(TRUE)

NoSlot ==
    /\ pc = "prepare" /\ job.k <= Len(job.ubs)
    /\ ~Fits(job.ubs[job.k])
    /\ StartRestore(FALSE)

\* variant for the runs: set() works on a copy of the cells
RestoredInCopy == cells

\* the cells and heads restored by prepare() for micro-batch number job.k; the
\* head of the g-th group comes from entry g - 1 of the remembered heads
RestoredCells ==
    LET ub == job.ubs[job.k]
        p  == job.placed[job.k]
    IN  [st \in Stream |-> IF st \in Range(ub.strm)
                           THEN Set(cells[st], p.old[GroupOf(ub, st)])
                           ELSE cells[st]]

RestoredHeads ==
    LET ub == job.ubs[job.k]
        p  == job.placed[job.k]
    IN  [st \in Stream |-> IF st \in Range(ub.strm)
                           THEN p.heads[GroupOf(ub, st) - 1]
                           ELSE heads[st]]

RestoreUbatch ==
    /\ pc = "restore" /\ job.k > 0
    /\ cells' = RestoredCells
    /\ heads' = RestoredHeads
    /\ job' = [job EXCEPT !.k = @ - 1]
    /\ UNCHANGED <<sc, rows, want, pc, saved>>

\* prepare() returns: compute, try again after another update, or give up
EndPrepare ==
    /\ pc = "restore" /\ job.k = 0
    /\ \/ /\ job.ok
          /\ pc' = "compute"
          /\ job' = [job EXCEPT !.k = 1]
       \/ /\ ~job.ok /\ ~job.retried /\ HasShift
          /\ pc' = "update"
          /\ job' = [job EXCEPT !.retried = TRUE]
       \/ /\ ~job.ok /\ (job.retried \/ ~HasShift)
          /\ pc' = "idle"
          /\ job' = NoJob
    /\ UNCHANGED <<cells, heads, sc, rows, want, saved>>

\* apply() and a successful graph: the rows of the slot are written
ComputeUbatch ==
    /\ pc = "compute"
    /\ LET ub    == job.ubs[job.k]
           sinfo == job.placed[job.k].idxs
       IN  /\ cells' = ApplyCells(ub, sinfo)
           /\ heads' = ApplyHeads(ub, sinfo)
           /\ rows' = Written(rows, ub, sinfo, RowOf)
           /\ want' = Known(Written(want, ub, sinfo, TokOf), cells')
    /\ IF job.k < Len(job.ubs)
       THEN pc' = pc /\ job' = [job EXCEPT !.k = @ + 1]
       ELSE pc' = "idle" /\ job' = NoJob
    /\ UNCHANGED <<sc, saved>>

\* the smallest position of the micro-batch whose token names s first
FirstPos(ub, s) ==
    {t.pos : t \in {t \in UNION {Range(ub.toks[g]) : g \in DOMAIN ub.toks} : TokOf(t) = s}}

\* apply(), then the graph fails or is aborted with the rows written or not:
\* decode removes the positions of the micro-batch and returns
ComputeFails ==
    /\ "compute" \in Faults
    /\ pc = "compute"
    /\ LET ub    == job.ubs[job.k]
           sinfo == job.placed[job.k].idxs
           A     == ApplyCells(ub, sinfo)
           H     == ApplyHeads(ub, sinfo)
           D(st) == [i \in Cell |-> {s \in A[st].seq[i] :
                        /\ seq_to_stream(s) = st
                        /\ FirstPos(ub, s) # {}
                        /\ A[st].pos[i] >= Min(FirstPos(ub, s))}]
       IN  /\ cells' = [st \in Stream |-> SeqRm(A[st], D(st))]
           /\ heads' = [st \in Stream |-> FreedHead(A[st], cells'[st], H[st])]
           /\ \/ rows' = rows
              \/ rows' = Written(rows, ub, sinfo, RowOf)
           /\ want' = Known(Written(want, ub, sinfo, TokOf), cells')
    /\ pc' = "idle" /\ job' = NoJob
    /\ UNCHANGED <<sc, saved>>

-----------------------------------------------------------------------------
Next ==
    \/ \E data \in BOOLEAN : Clear(data)
    \/ \E s \in SeqId, r \in Ranges : seq_rm(s, r[1], r[2])
    \/ \E r \in Ranges : seq_rm_any(r[1], r[2])
    \/ \E s, t \in SeqId, r \in Ranges : seq_cp(s, t, r[1], r[2])
    \/ \E s, t \in SeqId : seq_cp_stream(s, t)
    \/ \E s \in SeqId : seq_keep(s)
    \/ \E s \in SeqId, r \in Ranges, d \in Deltas : seq_add(s, r[1], r[2], d)
    \/ \E s \in SeqId, r \in Ranges, d \in Divs : seq_div(s, r[1], r[2], d)
    \/ \E s \in SeqId : state_write(s)
    \/ \E s \in SeqId : state_read(s)
    \/ Decode
    \/ CopyStream \/ KShift \/ KShiftFails \/ NoUpdate
    \/ PlaceUbatch \/ AllPlaced \/ NoSlot \/ RestoreUbatch \/ EndPrepare
    \/ ComputeUbatch \/ ComputeFails

Spec == Init /\ [][Next]_vars

-----------------------------------------------------------------------------
(* Properties *)

\* Type invariant: the metadata of every stream is well formed, a head may
\* stand one past the last cell, queued copies are between two streams.
TypeOK ==
    /\ cells \in [Stream -> CellsType]
    /\ heads \in [Stream -> 0..NCells]
    /\ sc \in Seq({q \in Stream \X Stream : q[1] # q[2]})
    /\ pc \in {"idle", "update", "prepare", "restore", "compute"}

\* The hand-maintained indexes mirror the cells, whatever the order of calls:
\* used is the set of non-empty cells, and seq_pos[s] counts each position of s
\* exactly as often as it occurs.  find_slot, seq_pos_min, seq_pos_max and the
\* position check of the next batch all trust them.
IndexExact == \A st \in Stream : Indexed(cells[st])

\* A cell is empty exactly when it belongs to no sequence, an empty cell has no
\* pending shift, and a pending shift is announced by has_shift: otherwise
\* update() would skip the K-shift and the row would stay at its old position.
ShiftAnnounced == \A st \in Stream : Shaped(cells[st])

\* Whenever the queued stream copies are done, each non-empty cell holds the row
\* of its own token, roped at the cell's position up to the pending shift.
\* This ties seq_cp, seq_add, state_read, update and the clean-up of a failed
\* decode together.
RowsTrackCells ==
    (pc = "compute" \/ (pc = "idle" /\ sc = <<>>)) =>
        \A st \in Stream, i \in Cell :
            ~IsEmpty(cells[st], i) =>
                /\ rows[st][i].tok = want[st][i]
                /\ rows[st][i].rot + cells[st].shift[i] = cells[st].pos[i]

Positions(c, s) == {c.pos[i] : i \in SeqHas(c, s)}

NoHoles(c, s) ==
    \A p, q \in Positions(c, s) : \A r \in p..q : r \in Positions(c, s)

\* apply_ubatch never opens a gap: a sequence whose positions were consecutive
\* keeps them so, even when its old cells are reused for another sequence (the
\* purge at the end of apply_ubatch).
ApplyKeepsWindow ==
    [][ComputeUbatch =>
        \A s \in SeqId : LET st == seq_to_stream(s)
                         IN  NoHoles(cells[st], s) => NoHoles(cells'[st], s)]_vars

\* All positions between seq_pos_min and seq_pos_max are present while the
\* caller can look: what llama_memory_seq_pos_min documents.
WindowPresent ==
    pc = "idle" => \A s \in SeqId : NoHoles(cells[seq_to_stream(s)], s)

\* s keeps what it has in the cells cs of the streams, and attends to, where it
\* is and with its row
AttendedStay(cs, s) ==
    LET st == seq_to_stream(s)
    IN  \A i \in SeqHas(cs[st], s) :
            \/ is_masked_swa(cs[st].pos[i], NextPos(s))
            \/ /\ s \in cells'[st].seq[i]
               /\ cells'[st].pos[i] = cs[st].pos[i]
               /\ rows'[st][i] = rows[st][i]

\* A decode as a whole, its rehearsal included, never evicts a position a
\* sequence still attends to: what the sequence had when prepare() began is there
\* when prepare() returns, also empty-handed, and after each micro-batch.  Without
\* a window, that is: see v_window_lost.
AttendedSurvive ==
    [][ComputeUbatch \/ EndPrepare => \A s \in SeqId : AttendedStay(job.before[1], s)]_vars

\* Computing a micro-batch never evicts a position a sequence attends to at that
\* moment: find_slot reuses, and apply_ubatch purges, only what is masked.  What
\* the rehearsal purged before is not its business.
ComputeKeepsAttended ==
    [][ComputeUbatch => \A s \in SeqId : AttendedStay(cells, s)]_vars

\* prepare() is a rehearsal: when it is over, the cells and the heads are what
\* they were before it placed the first micro-batch.
RehearsalUndone ==
    (pc = "restore" /\ job.k = 0) => job.before = <<cells, heads>>
=============================================================================
