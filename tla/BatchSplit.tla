------------------------------ MODULE BatchSplit ------------------------------
(* split_equal and split_seq of llama_batch_allocr (src/src/llama-batch.cpp): a
   batch is cut into micro-batches in which every sequence has the same number
   of tokens, or which are of one sequence each.
   The batch is a list of runs, the tokens of one set of sequences each, no two
   with a sequence in common; there are at most n_ubatch of them.  The tokens of
   a run that were taken are gone from it.

   n_keep_tail > 0 asks that the trailing n_keep_tail tokens of a sequence stay
   in one micro-batch, so that a recurrent memory can take them back.  The memory
   that passes it does so only with rollback, which its architecture lacks.   *)
EXTENDS Integers, Sequences, FiniteSets, FiniteSetsExt, Subsequences

CONSTANTS
  UBatch,       \* n_ubatch
  KeepTail,     \* n_keep_tail
  Sequential    \* take runs of increasing sequence ids only (streams)

ASSUME SplitAssumption ==
  UBatch \in Nat \ {0} /\ KeepTail \in Nat /\ KeepTail < UBatch /\ Sequential \in BOOLEAN

First(run) == Min(run.seqs)

\* the runs that take part, by their places in the batch
Chosen(runs) ==
  LET chosen[k \in 0 .. Len(runs)] ==
        IF k = 0 THEN {}
        ELSE LET c == chosen[k - 1]
             IN  IF Sequential /\ c # {} /\ First(runs[k]) # First(runs[Max(c)]) + 1
                 THEN c ELSE c \cup {k}
  IN  chosen[Len(runs)]

\* as many tokens of each as the shortest has and as fit
Each(runs) ==
  Min({Len(runs[r].toks) : r \in Chosen(runs)}
        \cup {Max({1, UBatch \div Cardinality(Chosen(runs))})})

\* a run that is cut leaves enough for another micro-batch
Finishes(run, n) ==
  \/ KeepTail = 0
  \/ Len(run.toks) = n
  \/ Len(run.toks) >= n + KeepTail

\* the longest prefix of the chosen runs for which that is so
Kept(runs) ==
  {r \in Chosen(runs) :
     \A q \in Chosen(runs) : q <= r => Finishes(runs[q], Each(runs))}

\* the first run by itself, completed if it fits and else cut with its tail left
Alone(run) == IF Len(run.toks) <= UBatch THEN Len(run.toks) ELSE Len(run.toks) - KeepTail

\* how many tokens of each run the next micro-batch takes
split_equal(runs) ==
  [r \in DOMAIN runs |->
     IF r \in Kept(runs) THEN Each(runs)
     ELSE IF Kept(runs) = {} /\ r = 1 THEN Alone(runs[1])
     ELSE 0]

\* of the first run alone, as many as fit
split_seq(runs) ==
  [r \in DOMAIN runs |-> IF r = 1 THEN Min({Len(runs[1].toks), UBatch}) ELSE 0]

\* runs without a token are left out
Filtered(runs) == Picked(runs, {r \in DOMAIN runs : runs[r].toks # <<>>})

\* the micro-batch that takes the first take[r] tokens of every run, and what is left
Piece(runs, take) ==
  Filtered([r \in DOMAIN runs |-> [runs[r] EXCEPT !.toks = SubSeq(@, 1, take[r])]])
Rest(runs, take) ==
  Filtered([r \in DOMAIN runs |-> [runs[r] EXCEPT !.toks = SubSeq(@, take[r] + 1, Len(@))]])
=============================================================================
