------------------------------ MODULE MCKernel ------------------------------
(* Values for TLC of the constants of Kernel. *)
EXTENDS Kernel

MCValue == [cm \in Commitment |-> CASE cm = "nil" -> 0 [] cm = "one" -> 1 [] cm = "two" -> 2]
=============================================================================
