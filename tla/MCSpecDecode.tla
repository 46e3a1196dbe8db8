----------------------------- MODULE MCSpecDecode -----------------------------
(* Instances of SpecDecode for TLC. *)
EXTENDS SpecDecode

CONSTANTS a, b

MCToken == {a, b}
MCKinds == {[rm |-> "part", n_rs |-> 0], [rm |-> "full", n_rs |-> 0],
            [rm |-> "rs", n_rs |-> 1]}
MCPrompts == {<<a, b>>, <<a, b, b>>}
MCParting == {<<a, b, b>>, <<a, a, b>>}
=============================================================================
