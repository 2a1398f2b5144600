-------------------------- MODULE MCApprovalSpend --------------------------
(* Small instances of ApprovalSpend for TLC. *)
EXTENDS ApprovalSpend, TLC

\* Nothing tells one spender, or one ask, from another.
SpendSymmetry == Permutations(Spenders) \cup Permutations(Asks)
=============================================================================
