------------------------------ MODULE SpecDecode ------------------------------
(* One slot of the server that decodes speculatively (update_slots in
   src/tools/server/server-context.cpp, with MTP drafts): a draft is decoded
   together with the last token and verified row by row; what was rejected is
   taken out of the target's memory, or, where the memory cannot do that, a
   checkpoint is restored and the verified part replayed.  The next request
   reuses what its prompt shares with the memory.

   The target is an attention cache alone (rm = "part"), or with a recurrent
   state that cannot be taken back ("full") or by n_rs tokens ("rs", see
   RecurrentMem).  Which token is drafted or sampled is left open: a replay need
   not sample what the first run did, as batches of other shapes round
   differently.  One iteration of update_slots is StartPrompt and AddPrompt, or
   BuildDraft, then Decode, then Sample, Restore or Accept.

   Not modelled: context shift, images, other slots in the batch, a decode in
   several views, strict verification, the prompt cache, a drafter whose own
   memory needs checkpoints, cache reuse by shifting.                         *)
EXTENDS MtpState

CONSTANTS
  Token,
  Kinds,     \* memories of the target: [rm |-> type, n_rs |-> n_rs_seq]
  Prompts,   \* prompts of requests
  NPredict,  \* n_predict
  NDraft,    \* n_max of a draft
  NBatch,    \* n_batch
  NCkpt,     \* n_ctx_checkpoints
  CkptMin,   \* 64: no checkpoint below so many tokens
  CkptGap,   \* 64: nor so close to the last one
  CkptTail,  \* 4: so many tokens before the end of a prompt
  MaxReq,    \* bound: requests
  Trusting   \* what the clients rely on, see Trusts

ASSUME SpecAssumption ==
  /\ NPredict \in Nat \ {0} /\ NDraft \in Nat /\ NBatch \in Nat \ {0}
  /\ NCkpt \in Nat /\ CkptMin \in Nat /\ CkptGap \in Nat /\ CkptTail \in Nat \ {0}
\* a state that can be taken back is one that keeps snapshots
ASSUME KindAssumption ==
  \A k \in Kinds : /\ k.rm \in {"part", "full", "rs"} /\ k.n_rs \in Nat
                   /\ k.rm = "rs" <=> k.n_rs > 0

ASSUME PromptAssumption == Prompts \subseteq Seq(Token) \ {<<>>}

VARIABLES
  kind,     \* the memory of the target
  tgt,      \* what it holds: kv, and of the recurrent state pos, idx and rows
  dft,      \* how many tokens the memory of the drafter holds
  mtp,      \* the state of the drafter
  state,    \* slot.state: "idle", "prompt" or "gen"
  prompt,   \* task->tokens
  toks,     \* slot.prompt.tokens
  ckpts,    \* slot.prompt.checkpoints, oldest first
  sampled,  \* slot.sampled, <<>> when there is none
  draft,    \* spec_draft
  ckpt,     \* spec_ckpt, spec_state
  replay,   \* the livelock guard: spec_replay_pos, _stall and spec_skip_draft
  batch,    \* the tokens to decode
  out,      \* what the target had consumed at each row of the batch
  sent,     \* history: the tokens of the answer
  pc,       \* where update_slots is
  reqs      \* the requests that came

slot   == <<ckpts, draft, ckpt, replay, sampled>>
memory == <<tgt, dft, mtp>>
vars   == <<kind, memory, state, prompt, toks, slot, batch, out, sent, pc, reqs>>

\* The clients avoid a request for which the code reuses too much: a rollback to
\* a snapshot that the last batch did not leave ("snapshot"), a prompt that
\* differs at the last token of a checkpoint ("edge"), and, with a state that
\* cannot be taken back, exactly what is in memory ("exact").
Trusts(what) == what \in Trusting

MinOf(a, b) == IF a < b THEN a ELSE b
MaxOf(a, b) == IF a > b THEN a ELSE b
First(s, n) == SubSeq(s, 1, n)

-----------------------------------------------------------------------------
(* The memory of the target *)

EmptyMem == [kv |-> <<>>, pos |-> -1, idx |-> 0,
             rows |-> [g \in 0 .. kind.n_rs |-> <<>>]]
Recurrent == kind.rm # "part"

\* the recurrent state that the next token starts from
RecState(m) == IF m.pos < 0 THEN <<>> ELSE m.rows[m.idx]

\* llama_memory_seq_rm(id, p0, -1): what it accepts, and what it leaves
CanRemove(m, p0) ==
  ~Recurrent \/ p0 = 0 \/ p0 > m.pos \/ m.pos - (p0 - 1) <= kind.n_rs
Removed(m, p0) ==
  IF p0 = 0 THEN EmptyMem
  ELSE IF ~Recurrent \/ p0 > m.pos THEN [m EXCEPT !.kv = First(@, MinOf(p0, Len(@)))]
  ELSE [m EXCEPT !.kv = First(@, MinOf(p0, Len(@))), !.pos = p0 - 1,
                 !.idx = m.pos - (p0 - 1)]

\* the snapshots kept are those of the last batch
Decoded(m, ts) ==
  LET n == Len(ts)
  IN  [kv |-> m.kv \o ts, pos |-> m.pos + n, idx |-> 0,
       rows |-> [g \in 0 .. kind.n_rs |->
                   IF g < n THEN RecState(m) \o First(ts, n - g) ELSE m.rows[g]]]
Consumed(m, ts, k) == (IF Recurrent THEN RecState(m) ELSE m.kv) \o First(ts, k)

\* seq_pos_min and seq_pos_max
PosMin(m) == IF m.kv = <<>> THEN -1 ELSE IF Recurrent THEN m.pos ELSE 0
PosMax(m) == IF Recurrent THEN MinOf(m.pos, Len(m.kv) - 1) ELSE Len(m.kv) - 1

\* variant for the runs: as if the newest row were saved after a rollback
PartialNewest(m) == <<[pos |-> m.pos, row |-> m.rows[0]]>>

\* update_tgt and load_tgt with PARTIAL_ONLY: the recurrent state alone
Partial(m) == <<[pos |-> m.pos, row |-> RecState(m)]>>
Loaded(m, data) ==
  IF data = <<>> \/ ~Recurrent THEN m
  ELSE [m EXCEPT !.pos = data[1].pos, !.idx = 0, !.rows[0] = data[1].row]

-----------------------------------------------------------------------------
(* The slot *)

NoCkpt == [n |-> 0, pos |-> 0, data |-> <<>>, spec |-> NoState]
NoReplay == [pos |-> -1, stall |-> 0, skip |-> FALSE]

Init ==
  /\ kind \in Kinds
  /\ tgt = EmptyMem /\ dft = 0 /\ mtp = Reset
  /\ state = "idle" /\ prompt = <<>> /\ toks = <<>> /\ ckpts = <<>>
  /\ sampled = <<>> /\ draft = <<>> /\ ckpt = NoCkpt /\ replay = NoReplay
  /\ batch = <<>> /\ out = <<>> /\ sent = <<>>
  /\ pc = "build" /\ reqs = 0

\* release() and reset(): prompt.tokens, its checkpoints and the memory stay
Release ==
  /\ state' = "idle" /\ sampled' = <<>>
  /\ draft' = <<>> /\ ckpt' = NoCkpt /\ replay' = NoReplay
  /\ prompt' = <<>> /\ sent' = <<>>

\* send_error(), release() and prompt_clear()
GiveUp ==
  /\ Release
  /\ toks' = <<>> /\ tgt' = EmptyMem /\ dft' = 0 /\ mtp' = Reset
  /\ batch' = <<>> /\ out' = <<>> /\ pc' = "build"
  /\ UNCHANGED <<kind, ckpts, reqs>>

Abort ==
  /\ pc' = "aborted"
  /\ UNCHANGED <<kind, memory, state, prompt, toks, slot, batch, out, sent, reqs>>

-----------------------------------------------------------------------------
(* A request: what of the memory can be used again *)

CommonPrefix(s, t) ==
  LET same == {n \in 0 .. MinOf(Len(s), Len(t)) : First(s, n) = First(t, n)}
  IN  CHOOSE n \in same : \A k \in same : k <= n

\* the newest checkpoint that satisfies P, or 0
NewestCkpt(at) == IF at = {} THEN 0 ELSE CHOOSE k \in at : \A j \in at : j <= k

\* slot [n, tgt, dft, mtp] after the diverging tail, from n on, is taken out of
\* both memories and of the drafter, or after a checkpoint was restored, or cold
TrailingRollback(s) ==
  LET rm  == CanRemove(s.tgt, s.n)
      cut == IF rm THEN [s EXCEPT !.tgt = Removed(@, s.n), !.dft = MinOf(@, s.n)] ELSE s
      at  == NewestCkpt({k \in DOMAIN ckpts : ckpts[k].pos <= s.n})
  IN  IF rm /\ CanRollBack(s.mtp, s.n - 1)
      THEN [cut EXCEPT !.mtp = RolledBack(@, s.n - 1)]
      ELSE IF at > 0 /\ ckpts[at].spec # NoState
      THEN [cut EXCEPT !.tgt = Loaded(@, ckpts[at].data),
                       !.n = MinOf(MinOf(ckpts[at].pos + 1, Len(toks)), ckpts[at].n),
                       !.mtp = Restored(ckpts[at].spec)]
      ELSE [cut EXCEPT !.tgt = IF at > 0 THEN Loaded(@, ckpts[at].data) ELSE @,
                       !.n = 0, !.mtp = Reset]

\* the state of the memory may lie beyond the tokens of p that are kept
BackToCkpt(s, p) ==
  LET new   == s.n < Len(p)
      thold == MaxOf(0, s.n - (IF new THEN 0 ELSE 1))
      at    == NewestCkpt({k \in DOMAIN ckpts : /\ ckpts[k].pos <= s.n
                                                /\ (ckpts[k].pos < thold \/ ckpts[k].pos = 0)})
  IN  IF s.n = 0 \/ s.n >= Len(toks) \/ PosMin(s.tgt) < thold
      THEN [s EXCEPT !.next = s.n]
      ELSE IF at = 0 THEN [s EXCEPT !.n = 0, !.next = 0]
      ELSE LET next == MinOf(s.n, ckpts[at].pos + 1)
           IN  [s EXCEPT !.tgt = Loaded(@, ckpts[at].data),
                         !.n = MinOf(MinOf(next, Len(toks)), ckpts[at].n), !.next = next]

\* how much of the memory is used, and what it becomes
Reuse(p, cached) ==
  LET lcp == IF cached THEN CommonPrefix(toks, p) ELSE 0
      s   == [n |-> lcp, next |-> lcp, tgt |-> tgt, dft |-> dft, mtp |-> mtp]
  IN  BackToCkpt(IF lcp > 0 /\ lcp < Len(toks) THEN TrailingRollback(s) ELSE s, p)

\* create_checkpoint(): the batch is not decoded yet and not part of it
NewCkpt(n) == [n |-> n, pos |-> PosMax(tgt), data |-> Partial(tgt), spec |-> Saved(mtp)]
WithCkpt(n) ==
  LET kept == IF Len(ckpts) < NCkpt THEN ckpts
              ELSE SubSeq(ckpts, Len(ckpts) - NCkpt + 2, Len(ckpts))
  IN  IF /\ NCkpt > 0 /\ Recurrent /\ PosMin(tgt) >= 0 /\ Len(toks') >= CkptMin
         /\ (ckpts = <<>> \/ n > Last(ckpts).n + CkptGap)
      THEN Append(kept, NewCkpt(n)) ELSE ckpts

\* the tokens of the prompt that go into this batch
AddPrompt ==
  /\ pc = "build" /\ state = "prompt"
  /\ LET n    == Len(toks)
         len  == Len(prompt)
         stop == len - MinOf(NBatch, CkptTail)
         upto == IF NCkpt > 0 /\ Recurrent /\ n < stop THEN stop ELSE len
         end  == MinOf(upto, n + NBatch)
     IN  /\ batch' = SubSeq(prompt, n + 1, end)
         /\ toks' = toks \o batch'
         /\ ckpts' = WithCkpt(n)
  /\ pc' = "decode"
  /\ UNCHANGED <<kind, memory, state, prompt, sampled, draft, ckpt, replay, out, sent, reqs>>

-----------------------------------------------------------------------------
(* Drafting *)

\* get_n_draft_max(), or none after a stalled replay
DraftMax == IF replay.skip THEN 0 ELSE MinOf(NDraft, NPredict - Len(sent) - 1)

NeedsCkpt(n) == kind.rm = "full" \/ (kind.rm = "rs" /\ n > kind.n_rs)

Drafts(max) == UNION {[1 .. n -> Token] : n \in 0 .. max}

\* update_batch(): the last token, and the draft if there is one
Batched(d) ==
  /\ draft' = d
  /\ batch' = sampled \o d
  /\ toks' = toks \o batch'
  /\ pc' = "decode"
  /\ UNCHANGED <<kind, tgt, state, prompt, ckpts, sampled, out, sent, reqs>>

\* a new draft: what it would take to undo it is noted first.  The drafter
\* decodes its own draft too, which is taken out again.
BuildDraft ==
  /\ pc = "build" /\ state = "gen" /\ draft = <<>> /\ DraftMax > 0
  /\ \E d \in Drafts(IF CanDraft(mtp, Len(toks)) /\ dft = Len(toks) THEN DraftMax ELSE 0) :
       /\ ckpt' = [n |-> Len(toks), pos |-> PosMax(tgt), spec |-> Saved(mtp),
                   data |-> IF d # <<>> /\ NeedsCkpt(Len(d)) THEN Partial(tgt) ELSE ckpt.data]
       /\ mtp' = [mtp EXCEPT !.drafted = Len(d)]
       /\ Batched(d)
  /\ dft' = MinOf(dft, PosMax(tgt) + 1)
  /\ UNCHANGED replay

\* the verified part of the last draft again, or no draft
BuildReplay ==
  /\ pc = "build" /\ state = "gen" /\ (draft # <<>> \/ DraftMax <= 0)
  /\ IF draft # <<>> /\ DraftMax > 0 /\ kind.rm = "full" /\ ckpt.data = <<>>
     THEN Abort
     ELSE /\ Batched(draft)
          /\ replay' = [replay EXCEPT !.skip = FALSE]
          /\ UNCHANGED <<dft, mtp, ckpt>>

-----------------------------------------------------------------------------
(* Decoding, and what the drafter sees of it *)

Decode ==
  /\ pc = "decode"
  /\ IF LET p0 == Len(toks) - Len(batch) IN dft # p0 \/ PosMax(tgt) + 1 # p0
     THEN Abort    \* a memory refuses the batch; what follows is not modelled
     ELSE LET at   == Len(tgt.kv)
              hs   == [k \in DOMAIN batch |-> Consumed(tgt, batch, k)]
              done == Len(toks) = Len(prompt) \/ state = "gen"
          IN  /\ tgt' = Decoded(tgt, batch)
              /\ dft' = at + Len(batch)
              /\ mtp' = Observed(mtp, at, hs)
              /\ out' = IF done THEN SubSeq(hs, Len(hs) - Len(draft), Len(hs)) ELSE <<>>
              /\ state' = IF done THEN "gen" ELSE state
              /\ pc' = IF done THEN "sample" ELSE "build"
              /\ batch' = <<>>
              /\ UNCHANGED <<kind, prompt, toks, slot, sent, reqs>>

\* the target fails, and the slot is cleared
DecodeFails == pc = "decode" /\ GiveUp

-----------------------------------------------------------------------------
(* Sampling *)

\* process_token(): the answer goes on with ts, or ends at one of them
Sends(ts) ==
  \/ Release
  \/ /\ Len(sent) + Len(ts) < NPredict
     /\ sent' = sent \o ts /\ sampled' = <<Last(ts)>> /\ draft' = <<>>
     /\ UNCHANGED <<state, prompt, ckpt, replay>>

Sample ==
  /\ pc = "sample" /\ draft = <<>>
  /\ \E t \in Token : Sends(<<t>>)
  /\ pc' = "build" /\ out' = <<>>
  /\ UNCHANGED <<kind, memory, toks, ckpts, batch, reqs>>

\* sample_and_accept_n(): n tokens of the draft are sampled, and then t
Verify(n, t) ==
  /\ pc = "sample" /\ draft # <<>>
  /\ n \in 0 .. Len(draft)
  /\ n < Len(draft) => t # draft[n + 1]
Accepts(n, t) == Append(First(draft, n), t)

\* the memory can take the rest of the draft out itself
CanTakeBack(n) == n = Len(draft) \/ ~NeedsCkpt(Len(draft) - n)

\* variant for the runs: as if the drafter's memory kept the whole draft
AcceptKept(n, t) ==
  /\ Verify(n, t) /\ CanTakeBack(n)
  /\ toks' = First(toks, Len(toks) - Len(draft) + n)
  /\ IF CanRemove(tgt, Len(toks'))
     THEN /\ tgt' = Removed(tgt, Len(toks')) /\ dft' = dft
          /\ mtp' = Accepted(mtp, n)
          /\ Sends(Accepts(n, t))
          /\ pc' = "build" /\ out' = <<>>
          /\ UNCHANGED <<kind, ckpts, batch, reqs>>
     ELSE Abort

\* what was sampled becomes part of the answer, the rest of the draft is taken
\* out of both memories
Accept(n, t) ==
  LET m == Len(toks) - Len(draft) + n
  IN  /\ Verify(n, t) /\ CanTakeBack(n)
      /\ IF CanRemove(tgt, m)
         THEN /\ toks' = First(toks, m)
              /\ tgt' = Removed(tgt, m) /\ dft' = MinOf(dft, m)
              /\ mtp' = Accepted(mtp, n)
              /\ Sends(Accepts(n, t))
              /\ pc' = "build" /\ out' = <<>>
              /\ UNCHANGED <<kind, ckpts, batch, reqs>>
         ELSE Abort

\* variant for the runs: as if every restore were the first one
StallAnew(pos) == 1

\* the livelock guard counts the restores of one checkpoint
Stall(pos) == IF replay.pos = pos THEN replay.stall + 1 ELSE 1

\* The memory goes back to the checkpoint and what was sampled is decoded again
\* as a draft; without a draft, the next token is decoded alone.
Restore(n, t) ==
  LET m     == Loaded(tgt, ckpt.data)
      stall == Stall(ckpt.pos)
  IN  /\ Verify(n, t) /\ ~CanTakeBack(n)
      /\ IF CanRemove(m, ckpt.pos + 1)
         THEN /\ tgt' = Removed(m, ckpt.pos + 1) /\ dft' = MinOf(dft, ckpt.pos + 1)
              /\ toks' = First(toks, ckpt.n)
              /\ mtp' = IF ckpt.spec # NoState THEN Restored(ckpt.spec) ELSE mtp
              /\ draft' = IF stall >= 2 THEN <<>> ELSE Accepts(n, t)
              /\ replay' = IF stall >= 2 THEN [NoReplay EXCEPT !.skip = TRUE]
                           ELSE [replay EXCEPT !.pos = ckpt.pos, !.stall = stall]
              /\ pc' = "build" /\ out' = <<>>
              /\ UNCHANGED <<kind, state, prompt, ckpts, sampled, ckpt, batch, sent, reqs>>
         ELSE Abort

RestoreFails(n, t) == Verify(n, t) /\ ~CanTakeBack(n) /\ GiveUp

-----------------------------------------------------------------------------
(* Requests *)

\* what the clients are trusted with, see Trusting
Careful(p, cached) ==
  LET lcp   == IF cached THEN CommonPrefix(toks, p) ELSE 0
      exact == lcp = Len(p) /\ lcp = Len(toks)
      n     == IF exact THEN lcp - 1 ELSE lcp
      back  == tgt.pos - (n - 1)
  IN  /\ exact /\ kind.rm = "full" => Trusts("exact")
      /\ n > 0 /\ n < Len(toks) /\ back \in 1 .. kind.n_rs =>
           Trusts("snapshot") \/ tgt.rows[back] = First(tgt.kv, n)
      /\ (\E k \in DOMAIN ckpts : ckpts[k].pos = lcp) => Trusts("edge")

\* launch_slot_with_task() and the first visit of update_slots: the memory and
\* the prompt are cut to what is used again
StartPrompt(p, cached) ==
  /\ pc = "build" /\ state = "idle" /\ reqs < MaxReq
  /\ Careful(p, cached)
  /\ LET s == Reuse(p, cached)
         n == IF s.n = Len(p) THEN s.n - 1 ELSE s.n
     IN  IF CanRemove(s.tgt, n)
         THEN /\ tgt' = Removed(s.tgt, n) /\ dft' = MinOf(s.dft, n) /\ mtp' = s.mtp
              /\ toks' = First(toks, n)
              /\ ckpts' = Picked(ckpts, {k \in DOMAIN ckpts : ckpts[k].pos <= s.next})
              /\ state' = "prompt" /\ prompt' = p /\ reqs' = reqs + 1
              /\ UNCHANGED <<kind, sampled, draft, ckpt, replay, batch, out, sent, pc>>
         ELSE Abort

\* the task is cancelled
Cancel ==
  /\ pc = "build" /\ state # "idle"
  /\ Release
  /\ UNCHANGED <<kind, memory, toks, ckpts, batch, out, pc, reqs>>

Step ==
  \/ AddPrompt \/ BuildDraft \/ BuildReplay
  \/ Decode \/ DecodeFails \/ Sample
  \/ \E n \in 0 .. NDraft, t \in Token : Accept(n, t) \/ Restore(n, t) \/ RestoreFails(n, t)

Next == Step \/ Cancel \/ \E p \in Prompts, c \in BOOLEAN : StartPrompt(p, c)

Spec == Init /\ [][Next]_vars
FairSpec == Spec /\ WF_vars(Step)

-----------------------------------------------------------------------------
(* Properties *)

\* Every token of the answer is sampled from what the target computes for the
\* prompt, the answer so far and the draft up to it: a rejected draft, a
\* restored checkpoint, a replay and the reuse of an earlier request leave no
\* trace in the attention cache or in the recurrent state.
SampledFromHistory ==
  pc = "sample" =>
    /\ tgt.kv = prompt \o sent \o draft
    /\ \A k \in DOMAIN out : out[k] = prompt \o sent \o First(draft, k - 1)

\* Between two batches, each row the drafter would use for a position in memory
\* is the one the target computed for the tokens now there, or neutral, whatever
\* was verified, rolled back or restored since.
BoundaryIsHistory ==
  pc = "build" =>
    \A r \in {mtp.pend, mtp.prev} \cup {Newest(mtp.ring, p) : p \in 0 .. Len(tgt.kv) - 1} :
      0 <= r.pos /\ r.pos < Len(tgt.kv) => r.h \in {Zero, First(tgt.kv, r.pos + 1)}

\* The memories of target and drafter never refuse a removal or a batch: they
\* stay as long as slot.prompt says.
NeverAborts == pc # "aborted"

\* A request ends, however often its drafts are rejected: a replay that is
\* restored again at its checkpoint gives way to a plain step.
Finishes == state # "idle" ~> state = "idle"
=============================================================================
