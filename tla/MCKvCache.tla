------------------------------ MODULE MCKvCache ------------------------------
(* Instances of KvCache for TLC: the arguments a caller passes. *)
EXTENDS KvCache

\* everything; a prefix; a tail; a middle part; what tails remain
AllRange    == {<<-1, -1>>}
SomeRanges  == {<<-1, -1>>, <<-1, 1>>, <<1, -1>>, <<1, 2>>}
TailRanges  == {<<-1, -1>>, <<1, -1>>, <<2, -1>>}
EndRanges   == {<<-1, -1>>, <<2, -1>>}

NoDeltas    == {}
ShiftDeltas == {-1, 1}
=============================================================================
