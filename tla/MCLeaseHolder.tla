--------------------------- MODULE MCLeaseHolder ---------------------------
(***************************************************************************)
(* LeaseHolder for TLC: every task is an instance.                         *)
(***************************************************************************)
EXTENDS LeaseHolder, TLC

MCInstanceOf == [t \in Tasks |-> t]

Symmetry == Permutations(Tasks)
=============================================================================
