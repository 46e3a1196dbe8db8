------------------------------ MODULE MtpState ------------------------------
(* What the MTP drafter keeps of one sequence between two batches
   (common_speculative_state_draft_mtp in src/common/speculative.cpp, one head).
   The drafter feeds token x at position p together with the target's hidden
   row of position p - 1, so the last row of a batch, the boundary, waits for
   the first token of the next one.

   A hidden row stands for the tokens the target had consumed when it computed
   it; Zero is the neutral row of a boundary that is not known.  A record m has
     pend, prev   pending_h and pending_h_prev, with their positions
     bound        process_boundary: the boundary the last batch was given
     first, rows  verify_h: the rows of the last batch, if it verified a draft
     drafted      last_n_drafted
     ring         the rows of the last positions, newest last                *)
EXTENDS Integers, Sequences, FiniteSets, SequencesExt, Subsequences

CONSTANT RingN   \* RING_N

ASSUME RingAssumption == RingN \in Nat \ {0}

Zero == <<>>
None == [pos |-> -1, h |-> Zero]
Row(p, h) == [pos |-> p, h |-> h]

\* reset_seq_state
Reset == [pend |-> None, prev |-> None, bound |-> None, first |-> -1, rows |-> <<>>,
          drafted |-> 0, ring |-> <<>>]

\* ring_push, for the rows hs of the positions from p on
Pushed(ring, p, hs) ==
  LET all == ring \o [k \in DOMAIN hs |-> Row(p + k - 1, hs[k])]
  IN  SubSeq(all, IF Len(all) > RingN THEN Len(all) - RingN + 1 ELSE 1, Len(all))

\* ring_get: the newest row of a position, or None
Newest(ring, p) ==
  LET at == {k \in DOMAIN ring : ring[k].pos = p}
  IN  IF at = {} THEN None ELSE ring[CHOOSE k \in at : \A j \in at : j <= k]

\* the row that goes with a token at position p: the neutral one at the start
\* of a sequence, and where the positions were never seen
Boundary(m, p) ==
  IF m.pend # None /\ m.pend.pos = p - 1 THEN m.pend
  ELSE IF m.prev # None /\ m.prev.pos = p - 1 THEN m.prev
  ELSE Row(p - 1, Zero)

\* process(): the target has decoded tokens from position p on, with rows hs
Observed(m, p, hs) ==
  LET bound == IF p > 0 THEN Boundary(m, p) ELSE None
      n     == Len(hs)
  IN  [pend |-> Row(p + n - 1, hs[n]),
       prev |-> IF n > 1 THEN Row(p + n - 2, hs[n - 1]) ELSE bound,
       bound |-> bound,
       first |-> IF m.drafted > 0 THEN p ELSE -1,
       rows |-> IF m.drafted > 0 THEN hs ELSE <<>>,
       drafted |-> m.drafted,
       ring |-> Pushed(m.ring, p, hs)]

\* draft() needs the row right before the next token
CanDraft(m, p) == m.pend # None /\ m.pend.pos = p - 1

\* variant for the runs: as if the boundary were the last row decoded
AcceptedLast(m, n) ==
  IF m.rows = <<>> THEN [m EXCEPT !.drafted = 0]
  ELSE [m EXCEPT !.drafted = 0, !.pend = Row(m.first + n, Last(m.rows))]

\* accept(): n tokens of the draft were right, so the boundary is row n
Accepted(m, n) ==
  LET i == IF n < Len(m.rows) THEN n ELSE Len(m.rows) - 1
  IN  IF m.rows = <<>> THEN [m EXCEPT !.drafted = 0]
      ELSE [m EXCEPT !.drafted = 0,
                     !.ring = Pushed(@, m.first, m.rows),
                     !.pend = Row(m.first + i, m.rows[i + 1]),
                     !.prev = IF i = 0 THEN m.bound ELSE Row(m.first + i - 1, m.rows[i])]

\* rollback_state(): the memory now ends at position p
CanRollBack(m, p) == p >= 0 /\ Newest(m.ring, p) # None
RolledBack(m, p) ==
  [Reset EXCEPT !.pend = Newest(m.ring, p),
                !.prev = IF p >= 1 THEN Newest(m.ring, p - 1) ELSE None,
                !.ring = [k \in DOMAIN m.ring |->
                            IF m.ring[k].pos > p THEN None ELSE m.ring[k]]]

\* get_state and set_state; nothing is saved without a boundary
NoState == <<>>
Saved(m) ==
  IF m.pend = None THEN NoState
  ELSE <<[pend |-> m.pend, prev |-> m.prev,
          ring |-> Picked(m.ring, {k \in DOMAIN m.ring : m.ring[k] # None})]>>
Restored(s) ==
  IF s = NoState THEN Reset
  ELSE [Reset EXCEPT !.pend = s[1].pend, !.prev = s[1].prev, !.ring = s[1].ring]
=============================================================================
