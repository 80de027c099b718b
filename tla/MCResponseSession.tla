-------------------------- MODULE MCResponseSession --------------------------
(* Task sequences for ResponseSession: studies of one phase.               *)
EXTENDS ResponseSession, TLC

MCGrid == [i \in 1..2 |-> "grid"]
MCOneTask == <<"grid">>

Symmetry == Permutations(Workers)
=============================================================================
