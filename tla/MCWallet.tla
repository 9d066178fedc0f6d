------------------------------- MODULE MCWallet -------------------------------
(***************************************************************************)
(* A wallet that owns a note that pays for one spend, and a smaller one.   *)
(***************************************************************************)
EXTENDS Wallet

MCFirstNotes == <<3, 2>>
=============================================================================
