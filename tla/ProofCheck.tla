----------------------------- MODULE ProofCheck -----------------------------
(***************************************************************************)
(* The check of a transaction's STARK proof: by the kernel                 *)
(* (verifier/src/lib.rs, DirectProofVerifier) and by the demo ledger       *)
(* (services/tzel/src/lib.rs, LedgerProofVerifier, which runs the          *)
(* reprover).                                                              *)
(*                                                                         *)
(* A proof shows that the bootloader ran some programs and printed an      *)
(* output.  Its bytes are named by the output they prove (<<>>: no bytes). *)
(* Anyone can run a program of his own under the bootloader, and prove it. *)
(***************************************************************************)
EXTENDS Naturals, Sequences

CircuitKind == {"shield", "transfer", "unshield"}

TrustMeBro == [type |-> "TrustMeBro"]
Stark(proof_bytes, output_preimage) ==
  [type |-> "Stark", proof_bytes |-> proof_bytes, output_preimage |-> output_preimage]

\* What the bootloader prints of one run: the number of tasks, the size of
\* the task's part, the program's hash, and the program's outputs, a Cairo
\* array with its length.
Preimage(program, outputs) ==
  <<1, Len(outputs) + 3, program, Len(outputs)>> \o outputs

-----------------------------------------------------------------------------
(***************************************************************************)
(* The output of a proof.                                                  *)
(***************************************************************************)
SingleTask(output) ==
  /\ Len(output) >= 3
  /\ output[1] = 1
  /\ output[2] >= 2
  /\ Len(output) = 1 + output[2]

parse_single_task_output_preimage(output) ==
  [program_hash |-> output[3], public_outputs |-> SubSeq(output, 4, Len(output))]

\* Mutant: whichever program ran.
validate_single_task_program_hash_any(output, expected) == SingleTask(output)

validate_single_task_program_hash(output, expected) ==
  /\ SingleTask(output)
  /\ parse_single_task_output_preimage(output).program_hash = expected

\* An array's length, and the array.
CairoArray(outputs) == outputs # <<>> /\ Head(outputs) = Len(Tail(outputs))

\* Outputs without the bootloader's prefix are taken as they are.
PublicOutputs(output, expected_len) ==
  IF SingleTask(output)
  THEN LET outputs == parse_single_task_output_preimage(output).public_outputs
       IN  CairoArray(outputs) /\ Len(Tail(outputs)) = expected_len
  ELSE Len(output) = expected_len

transition_public_outputs(output) ==
  IF SingleTask(output) THEN Tail(parse_single_task_output_preimage(output).public_outputs)
  ELSE output

-----------------------------------------------------------------------------
(***************************************************************************)
(* A verifier: whether it takes TrustMeBro, whether it verifies proofs,    *)
(* and the hashes of the circuits' programs.                               *)
(***************************************************************************)
expected_program_hash(circuit, hashes) == hashes[circuit]

trust_me_bro_only(hashes) ==
  [allow_trust_me_bro |-> TRUE, verified_mode |-> FALSE, program_hashes |-> hashes]
verified(allow_trust_me_bro, hashes) ==
  [allow_trust_me_bro |-> allow_trust_me_bro, verified_mode |-> TRUE, program_hashes |-> hashes]
from_kernel_config(hashes) == verified(FALSE, hashes)

check_proof_shape(proof, allow_trust_me_bro, verified_mode) ==
  CASE proof.type = "TrustMeBro" -> allow_trust_me_bro
    [] proof.type = "Stark" ->
         verified_mode /\ proof.proof_bytes # <<>> /\ proof.output_preimage # <<>>

validate_stark_circuit(proof, circuit, hashes) ==
  proof.type = "Stark" =>
    validate_single_task_program_hash(proof.output_preimage,
                                      expected_program_hash(circuit, hashes))

\* ProofBundle::verify: a proof verifies for one output only.
bundle_verify(proof_bytes, output_preimage) == proof_bytes = output_preimage

verify_stark_bundle(proof) ==
  proof.type = "Stark" => bundle_verify(proof.proof_bytes, proof.output_preimage)

\* DirectProofVerifier::validate
validate(v, proof, circuit) ==
  /\ check_proof_shape(proof, v.allow_trust_me_bro, v.verified_mode)
  /\ v.verified_mode /\ proof.type = "Stark" =>
       validate_stark_circuit(proof, circuit, v.program_hashes) /\ verify_stark_bundle(proof)

-----------------------------------------------------------------------------
(***************************************************************************)
(* The demo ledger: it takes the hashes of the executables when it starts. *)
(* The reprover is given the circuit's executable for each proof, and      *)
(* hashes it anew.                                                         *)
(***************************************************************************)
\* A program is named by its hash.
compute_program_hash(executable) == executable

load_program_hashes(executables) ==
  [circuit \in CircuitKind |-> compute_program_hash(executables[circuit])]

from_reprove_bin(allow_trust_me_bro, executables) ==
  verified(allow_trust_me_bro, load_program_hashes(executables))

check_proof(v, proof) ==
  CASE proof.type = "TrustMeBro" -> v.allow_trust_me_bro
    [] proof.type = "Stark" ->
         v.verified_mode /\ proof.proof_bytes # <<>> /\ proof.output_preimage # <<>>

verify_bundle_for_program_hash(proof, expected) ==
  /\ validate_single_task_program_hash(proof.output_preimage, expected)
  /\ verify_stark_bundle(proof)

verify_stark_proof(proof, executable) ==
  proof.type = "Stark" =>
    verify_bundle_for_program_hash(proof, compute_program_hash(executable))

\* LedgerProofVerifier::validate
ledger_validate(v, proof, circuit, executables) ==
  /\ check_proof(v, proof)
  /\ v.verified_mode =>
       /\ validate_stark_circuit(proof, circuit, v.program_hashes)
       /\ verify_stark_proof(proof, executables[circuit])
=============================================================================
