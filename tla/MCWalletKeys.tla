----------------------------- MODULE MCWalletKeys -----------------------------
(***************************************************************************)
(* Two spends, each with the lower digit in one position of its sighash.   *)
(***************************************************************************)
EXTENDS WalletKeys

MCSighash == << <<0, 3>>, <<3, 1>> >>
=============================================================================
