----------------------------- MODULE MCDelivery -----------------------------
(***************************************************************************)
(* Account 1 is the watched wallet, 2 the operator, 3 somebody else.       *)
(* Notes 1 and 2 are for the watched wallet's addresses 0 and 1, note 3    *)
(* pays the operator.  The tag of note 2 also fits every address 0 and the *)
(* tag of note 3 every address 1.  Some outputs have a commitment that     *)
(* their encrypted note does not open to, so that the chunks of two        *)
(* branches can make a note that is on neither.                            *)
(***************************************************************************)
EXTENDS Delivery

MCPlain ==
  <<[to |-> 1, j |-> 0, v |-> 2, from |-> 1],
    [to |-> 1, j |-> 1, v |-> 2, from |-> 3],
    [to |-> 2, j |-> 0, v |-> 1, from |-> 1]>>

\* The index j of a key pair is the last thing hashed into its seed, and the
\* ephemeral secret of note n is n.
MCTag(ss) ==
  IF ss[1] = "shared" \/ <<ss[2][2][2], ss[3]>> \in {<<0, 2>>, <<1, 3>>} THEN 1 ELSE 0

\* The longest payload the kernel reads has 22 tokens.
signature == [i \in 1 .. 15 |-> i % 3]

proof == <<<<0>>, <<2>>>>
pointer_chunk == [published_level |-> 1, slot_index |-> 0, payload_len |-> 2]

MCMessage ==
  {[kind |-> "ConfigureVerifier", fields |-> <<1, 0, 2, 0, signature>>],
   [kind |-> "ConfigureBridge", fields |-> <<<<2, 0>>, <<0>>>>],
   [kind |-> "Shield", fields |-> <<1, 0, 2, 1, proof, 1, 1, 3, 3>>],
   [kind |-> "Transfer", fields |-> <<1, <<2>>, 0, 3, 2, 1, proof, 3, 2, 2>>],
   [kind |-> "Unshield", fields |-> <<1, <<2, 0>>, 0, 1, <<0>>, 0, proof, <<>>, 1, 2>>],
   [kind |-> "Unshield", fields |-> <<1, <<>>, 0, 1, <<>>, 2, proof, <<1>>, 3, 3>>],
   [kind |-> "DalPointer", fields |-> <<"Shield", <<pointer_chunk>>, 0, 2>>]}
=============================================================================
