------------------------------ MODULE MCLedger ------------------------------
(* Values for TLC of the constants of Ledger. *)
EXTENDS Ledger, TLC

MCValue == [cm \in Commitment |-> IF cm = "two" THEN 2 ELSE 1]

\* Nothing tells one pool, or one recipient, from another: with two of each,
\* OtherOf has no choice to make.
Symmetry == Permutations(PoolKey) \cup Permutations(Recipient)
=============================================================================
