------------------------------- MODULE PleRows -------------------------------
(* What the PLE pager promises to its callers (llama-ple-pager.h): a call of
   read_rows gives every requested row of the tensor in the order of the
   request, or fails as a whole.  A byte of the file stands for its content, so
   a row is the function from its bytes to their places in the file.          *)
EXTENDS Naturals, Sequences

CONSTANTS Caller      \* the calls of read_rows, possibly at the same time

VARIABLES
  source,   \* llama_ple_source: where the rows of the tensor are
  rows,     \* rows[c]: the rows call c asks for
  outcome,  \* outcome[c]: "none" until the call returns or throws
  output    \* output[c]: what the call gave back

vars == <<source, rows, outcome, output>>

\* the rows of call c as the tensor holds them
TensorRows(c) ==
  [i \in DOMAIN rows[c] |->
     [b \in 0 .. source.row_bytes - 1 |->
        source.tensor_offset + rows[c][i] * source.row_bytes + b]]

Nothing == <<>>

Init ==
  /\ outcome = [c \in Caller |-> "none"]
  /\ output = [c \in Caller |-> Nothing]

Return(c) ==
  /\ outcome[c] = "none"
  /\ outcome' = [outcome EXCEPT ![c] = "returned"]
  /\ output' = [output EXCEPT ![c] = TensorRows(c)]
  /\ UNCHANGED <<source, rows>>

Throw(c) ==
  /\ outcome[c] = "none"
  /\ outcome' = [outcome EXCEPT ![c] = "failed"]
  /\ UNCHANGED <<source, rows, output>>

Answer(c) == Return(c) \/ Throw(c)
Next == \E c \in Caller : Answer(c)

Spec == Init /\ [][Next]_vars /\ \A c \in Caller : WF_vars(Answer(c))
=============================================================================
