---------------------------- MODULE KernelProofs ----------------------------
(***************************************************************************)
(* Proofs about the rollup kernel, for every depth of the tree and every   *)
(* value of the constants.                                                 *)
(*                                                                         *)
(* KernelInv holds of the store after every message: the frontier is that  *)
(* of the notes, each log lists its markers once, accepted roots are roots *)
(* the tree had, outbox and queue are in step, no deposit precedes the     *)
(* configuration, and the fee counter is of this level or stale.           *)
(*                                                                         *)
(* From it the kernel is shown to implement Ledger: an observer who reads  *)
(* the store sees one step of the in-memory ledger per message, or none.   *)
(* What LedgerProofs proves of the ledger then holds of the store.         *)
(***************************************************************************)
EXTENDS Kernel, Induction

\* The tree of the store, as the tree of CommitmentTree.
CT == INSTANCE CommitmentTreeProofs WITH
  leaves <- Leaves(tree.size), branches <- tree.branches, root <- tree.root

-----------------------------------------------------------------------------
(***************************************************************************)
(* The facts of CommitmentTreeProofs, for the operators Kernel uses.       *)
(***************************************************************************)
\* The powers of 2,
LEMMA SamePow2 == Pow2 = CT!Pow2
BY DEF Pow2, CT!Pow2

\* the empty subtrees,
LEMMA SameZeros == zero_hashes = CT!zero_hashes
BY DEF zero_hashes, CT!zero_hashes, hash_merkle, CT!hash_merkle

\* the positions over a leaf,
LEMMA SamePositions == \A x : Positions(x) = CT!Positions(x)
BY DEF Positions, CT!Positions

\* their sides,
LEMMA SameBit == \A x, l : Bit(x, l) = CT!Bit(x, l)
BY SamePositions DEF Bit, CT!Bit

\* the complete tree,
LEMMA SameComplete == \A ls : Complete(ls) = CT!Complete(ls)
BY SamePow2 DEF Complete, CT!Complete, Leaf, CT!Leaf, hash_merkle, CT!hash_merkle

\* its root,
LEMMA SameReference == \A ls : ReferenceRoot(ls) = CT!ReferenceRoot(ls)
BY SameComplete DEF ReferenceRoot, CT!ReferenceRoot

\* the wallet's levels,
LEMMA SameLevels == \A ls : levels(ls) = CT!levels(ls)
BY SameZeros DEF levels, CT!levels, next_level, CT!next_level, NodeOrZero, CT!NodeOrZero,
  hash_merkle, CT!hash_merkle

\* their root,
LEMMA SameRoot == \A ls : tree_root(ls) = CT!tree_root(ls)
BY SameZeros, SameLevels DEF tree_root, CT!tree_root, NodeOrZero, CT!NodeOrZero

\* and the frontier's climb are the same in both modules.
LEMMA SameAppend ==
  \A b, x, cm : simulate_frontier_append(b, x, cm) = CT!simulate_frontier_append(b, x, cm)
BY SameZeros, SameBit DEF simulate_frontier_append, CT!simulate_frontier_append,
  write_branch, CT!write_branch, Write, CT!Write, hash_merkle, CT!hash_merkle

\* The powers of 2, once more.
LEMMA Powers ==
  /\ Pow2[0] = 1
  /\ \A l \in Nat : Pow2[l + 1] = 2 * Pow2[l] /\ Pow2[l] \in Nat \ {0}
<1>1. /\ CT!Pow2[0] = 1
      /\ \A l \in Nat : CT!Pow2[l + 1] = 2 * CT!Pow2[l] /\ CT!Pow2[l] \in Nat \ {0}
  BY KernelAssumption, CircuitsAssumption, CT!Pow2Facts
<1> QED BY <1>1, SamePow2

-----------------------------------------------------------------------------
(***************************************************************************)
(* The proof checks, for every proof and every output.                     *)
(***************************************************************************)
\* A verifier made from the kernel's configuration accepts a proof only if it
\* proves its output, and that output is of one run of the circuit's own
\* program: not TrustMeBro, not another circuit, not several tasks.
THEOREM OnlyTheCircuit ==
  ASSUME NEW hashes, NEW circuit, NEW proof,
         proof.type \in {"TrustMeBro", "Stark"},
         validate(from_kernel_config(hashes), proof, circuit)
  PROVE  /\ proof.type = "Stark"
         /\ proof.proof_bytes = proof.output_preimage
         /\ SingleTask(proof.output_preimage)
         /\ proof.output_preimage[1] = 1
         /\ proof.output_preimage[3] = hashes[circuit]
<1> DEFINE v == from_kernel_config(hashes)
<1>1. v.allow_trust_me_bro = FALSE /\ v.verified_mode = TRUE /\ v.program_hashes = hashes
  BY DEF from_kernel_config, verified
<1>2. check_proof_shape(proof, FALSE, TRUE)
  BY <1>1 DEF validate
<1>3. proof.type = "Stark"
  BY <1>2 DEF check_proof_shape
<1>4. validate_stark_circuit(proof, circuit, hashes) /\ verify_stark_bundle(proof)
  BY <1>1, <1>3 DEF validate
<1>5. validate_single_task_program_hash(proof.output_preimage, hashes[circuit])
  BY <1>3, <1>4 DEF validate_stark_circuit, expected_program_hash
<1> QED
  BY <1>3, <1>4, <1>5 DEF verify_stark_bundle, bundle_verify, validate_single_task_program_hash,
     SingleTask, parse_single_task_output_preimage

\* The kernel and the demo ledger, which check proofs in code of their own,
\* accept the same proofs, as long as the executables on the ledger's disk
\* are those whose hashes it read when it started.
THEOREM SameVerdict ==
  ASSUME NEW executables, NEW circuit \in CircuitKind, NEW proof, NEW allow \in BOOLEAN,
         NEW v, proof.type \in {"TrustMeBro", "Stark"},
         \/ v = from_reprove_bin(allow, executables)
         \/ v = trust_me_bro_only(load_program_hashes(executables))
  PROVE  ledger_validate(v, proof, circuit, executables) <=> validate(v, proof, circuit)
<1> DEFINE hashes == load_program_hashes(executables)
<1>1. v.program_hashes = hashes
  BY DEF from_reprove_bin, verified, trust_me_bro_only
<1>2. hashes[circuit] = compute_program_hash(executables[circuit])
  BY DEF load_program_hashes
<1>3. check_proof(v, proof) <=> check_proof_shape(proof, v.allow_trust_me_bro, v.verified_mode)
  BY DEF check_proof, check_proof_shape
<1>4. validate_stark_circuit(proof, circuit, hashes) /\ proof.type = "Stark"
        => validate_single_task_program_hash(proof.output_preimage, hashes[circuit])
  BY DEF validate_stark_circuit, expected_program_hash
<1>5. CASE proof.type = "TrustMeBro"
  BY <1>1, <1>3, <1>5 DEF ledger_validate, validate, validate_stark_circuit, verify_stark_proof
<1>6. CASE proof.type = "Stark"
  BY <1>1, <1>2, <1>3, <1>4, <1>6 DEF ledger_validate, validate, verify_stark_proof,
     verify_bundle_for_program_hash
<1> QED
  BY <1>5, <1>6

\* What the bootloader prints of one run with two outputs.
LEMMA PreimageOfTwo ==
  ASSUME NEW program, NEW d, NEW p
  PROVE  /\ Preimage(program, <<d, p>>) = <<1, 5, program, 2, d, p>>
         /\ SingleTask(<<1, 5, program, 2, d, p>>)
         /\ transition_public_outputs(<<1, 5, program, 2, d, p>>) = <<d, p>>
<1> DEFINE S == {1, 5, 2, program, d, p}
           head == <<1, 5, program, 2>>
           all == <<1, 5, program, 2, d, p>>
<1>1. /\ Len(<<d, p>>) = 2 /\ <<d, p>> \in Seq(S) /\ <<d, p>>[1] = d /\ <<d, p>>[2] = p
  OBVIOUS
<1>2. /\ head \in Seq(S) /\ Len(head) = 4
      /\ head[1] = 1 /\ head[2] = 5 /\ head[3] = program /\ head[4] = 2
  OBVIOUS
<1>3. /\ all \in Seq(S) /\ Len(all) = 6
      /\ all[1] = 1 /\ all[2] = 5 /\ all[3] = program /\ all[4] = 2 /\ all[5] = d /\ all[6] = p
  OBVIOUS
<1> HIDE DEF S, head, all
<1>4. head \o <<d, p>> = all
  <2>1. /\ head \o <<d, p>> \in Seq(S)
        /\ Len(head \o <<d, p>>) = 6
        /\ \A i \in 1..6 : (head \o <<d, p>>)[i] = IF i <= 4 THEN head[i] ELSE <<d, p>>[i - 4]
    <3>1. PICK rest : rest = <<d, p>>
      OBVIOUS
    <3>2. rest \in Seq(S) /\ Len(rest) = 2 /\ Len(head) + Len(rest) = 6
      BY <1>1, <1>2, <3>1
    <3>3. /\ head \o rest \in Seq(S)
          /\ Len(head \o rest) = Len(head) + Len(rest)
          /\ \A i \in 1..(Len(head) + Len(rest)) :
               (head \o rest)[i] = IF i <= Len(head) THEN head[i] ELSE rest[i - Len(head)]
      BY <1>2, <3>2, ConcatProperties
    <3> QED BY <1>2, <3>1, <3>2, <3>3
  <2>2. \A i \in 1..6 : (head \o <<d, p>>)[i] = all[i]
    <3>1. \A i \in 1..6 : i = 1 \/ i = 2 \/ i = 3 \/ i = 4 \/ i = 5 \/ i = 6
      OBVIOUS
    <3> QED BY <1>1, <1>2, <1>3, <2>1, <3>1
  <2> QED BY <1>3, <2>1, <2>2, SeqEqual
<1>5. Preimage(program, <<d, p>>) = all
  BY <1>1, <1>4 DEF Preimage, head
<1>6. SingleTask(all)
  BY <1>3 DEF SingleTask
<1>7. transition_public_outputs(all) = <<d, p>>
  <2> DEFINE outputs == SubSeq(all, 4, 6)
  <2>1. /\ outputs \in Seq(S) /\ Len(outputs) = 3
        /\ outputs[2] = d /\ outputs[3] = p
    <3>0. \A i \in 4..6 : i \in 1..Len(all)
      BY <1>3
    <3>1. \A i \in 4..6 : all[i] \in S
      BY <1>3, <3>0, ElementOfSeq
    <3>2. /\ outputs \in Seq(S)
          /\ Len(outputs) = IF 4 <= 6 THEN 6 - 4 + 1 ELSE 0
          /\ \A i \in 1..(6 - 4 + 1) : outputs[i] = all[4 + i - 1]
      BY <3>1, SubSeqProperties
    <3>3. outputs[2] = all[4 + 2 - 1] /\ outputs[3] = all[4 + 3 - 1]
      BY <3>2
    <3> HIDE DEF outputs
    <3> QED BY <1>3, <3>2, <3>3
  <2>2. transition_public_outputs(all) = Tail(outputs)
    BY <1>3, <1>6 DEF transition_public_outputs, parse_single_task_output_preimage
  <2> HIDE DEF outputs
  <2>3. outputs # <<>>
    BY <2>1, EmptySeq
  <2>4. /\ Tail(outputs) \in Seq(S) /\ Len(Tail(outputs)) = 2
        /\ Tail(outputs)[1] = d /\ Tail(outputs)[2] = p
    <3>1. /\ Tail(outputs) \in Seq(S)
          /\ Len(Tail(outputs)) = Len(outputs) - 1
          /\ \A i \in 1..Len(Tail(outputs)) : Tail(outputs)[i] = outputs[i + 1]
      BY <2>1, <2>3, HeadTailProperties
    <3>2. Len(Tail(outputs)) = 2 /\ 1 \in 1..2 /\ 2 \in 1..2
      BY <2>1, <3>1
    <3>3. Tail(outputs)[1] = outputs[1 + 1] /\ Tail(outputs)[2] = outputs[2 + 1]
      BY <3>1, <3>2
    <3>4. 1 + 1 = 2 /\ 2 + 1 = 3
      OBVIOUS
    <3> QED BY <2>1, <3>1, <3>2, <3>3, <3>4
  <2>5. \A i \in 1..2 : Tail(outputs)[i] = <<d, p>>[i]
    <3>1. \A i \in 1..2 : i = 1 \/ i = 2
      OBVIOUS
    <3> QED BY <1>1, <2>4, <3>1
  <2>6. Tail(outputs) = <<d, p>>
    BY <1>1, <2>4, <2>5, SeqEqual
  <2> QED BY <2>2, <2>6
<1> QED BY <1>5, <1>6, <1>7 DEF all

\* A proof the kernel takes is the circuit's own, of outputs the circuit can
\* prove, and the kernel reads those outputs back.
LEMMA AcceptedProof ==
  ASSUME NEW circuit \in CircuitKind, NEW d, NEW p, NEW provable \in BOOLEAN,
         NEW foreign \in BOOLEAN, NEW proof \in Proofs(circuit, d, p, provable, foreign),
         validate_transition_proof(proof, circuit)
  PROVE  ~foreign /\ provable /\ verifier # None /\ DomainOf(proof) = d /\ OutputsOf(proof) = p
<1> DEFINE outputs == <<d, p>>
           claimed == Preimage(circuit, outputs)
           own == Preimage("own", outputs)
           two == [claimed EXCEPT ![1] = 2]
<1>1. /\ claimed = <<1, 5, circuit, 2, d, p>> /\ SingleTask(claimed)
      /\ transition_public_outputs(claimed) = <<d, p>>
      /\ own = <<1, 5, "own", 2, d, p>>
  BY PreimageOfTwo
<1>2. claimed[1] = 1 /\ claimed[3] = circuit /\ own[3] = "own" /\ two[1] = 2
  BY <1>1
<1>3. Len(outputs) = 2 /\ ~SingleTask(outputs)
  BY DEF SingleTask
<1> HIDE DEF outputs, claimed, own, two
<1>4. /\ proof \in IF foreign
                   THEN {Stark(own, own), Stark(own, claimed), Stark(two, two), Stark(outputs, outputs)}
                   ELSE {x \in {Stark(claimed, claimed)} : provable}
  BY DEF Proofs, outputs, claimed, own, two
<1>5. \A b, o : Stark(b, o).type = "Stark" /\ Stark(b, o).proof_bytes = b
                  /\ Stark(b, o).output_preimage = o
  BY DEF Stark
<1>6. proof.type = "Stark"
  BY <1>4, <1>5
<1>7. verifier # None /\ validate(from_kernel_config(ProgramHashes), proof, circuit)
  BY DEF validate_transition_proof, read_verifier_config, load_verifier
<1>8. ProgramHashes[circuit] = circuit
  BY DEF ProgramHashes, load_program_hashes, compute_program_hash
<1>9. /\ proof.proof_bytes = proof.output_preimage
      /\ SingleTask(proof.output_preimage)
      /\ proof.output_preimage[1] = 1
      /\ proof.output_preimage[3] = circuit
  BY <1>6, <1>7, <1>8, OnlyTheCircuit
<1>10. circuit # "own"
  BY DEF CircuitKind
<1>11. ~foreign
  <2> SUFFICES ASSUME foreign PROVE FALSE
    OBVIOUS
  <2>1. proof = Stark(own, own) => FALSE
    BY <1>2, <1>5, <1>9, <1>10
  <2>2. proof = Stark(own, claimed) => FALSE
    BY <1>2, <1>5, <1>9, <1>10
  <2>3. proof = Stark(two, two) => FALSE
    BY <1>2, <1>5, <1>9
  <2>4. proof = Stark(outputs, outputs) => FALSE
    BY <1>3, <1>5, <1>9
  <2> QED BY <1>4, <2>1, <2>2, <2>3, <2>4
<1>12. proof = Stark(claimed, claimed) /\ provable
  BY <1>4, <1>11
<1>13. DomainOf(proof) = <<d, p>>[1] /\ OutputsOf(proof) = <<d, p>>[2]
  BY <1>1, <1>5, <1>12 DEF DomainOf, OutputsOf
<1> QED BY <1>7, <1>11, <1>12, <1>13

-----------------------------------------------------------------------------
(***************************************************************************)
(* The fee schedule, as a closed form.                                     *)
(***************************************************************************)
\* The doublings the code makes for the transaction after count others.
FeeStep(count) ==
  LET over == IF count > BasePrivateTxsPerLevel - 1
              THEN count - (BasePrivateTxsPerLevel - 1) ELSE 0
  IN  IF over > MaxDynamicFeeStep THEN MaxDynamicFeeStep ELSE over

\* A higher power is larger.
LEMMA PowersGrow == \A a, b \in Nat : a < b => Pow2[a] < Pow2[b]
<1> SUFFICES ASSUME NEW a \in Nat PROVE \A b \in Nat : a < b => Pow2[a] < Pow2[b]
  OBVIOUS
<1> DEFINE T == {n \in Nat : Pow2[a] < Pow2[a + n + 1]}
<1>1. 0 \in T
  <2>1. a + 0 + 1 = a + 1 /\ Pow2[a + 1] = 2 * Pow2[a] /\ Pow2[a] \in Nat \ {0}
    BY Powers
  <2> QED BY <2>1
<1>2. ASSUME NEW n \in Nat, n \in T PROVE n + 1 \in T
  <2>1. a + n + 1 \in Nat /\ a + (n + 1) + 1 = (a + n + 1) + 1
    OBVIOUS
  <2>2. /\ Pow2[(a + n + 1) + 1] = 2 * Pow2[a + n + 1]
        /\ Pow2[a + n + 1] \in Nat \ {0} /\ Pow2[a] \in Nat
    BY <2>1, Powers
  <2> QED BY <1>2, <2>1, <2>2
<1>3. Nat \subseteq T
  <2> HIDE DEF T
  <2> QED BY <1>1, <1>2, SetInduction
<1>4. ASSUME NEW b \in Nat, a < b PROVE Pow2[a] < Pow2[b]
  <2>1. b - a - 1 \in Nat /\ a + (b - a - 1) + 1 = b
    BY <1>4
  <2> QED BY <1>3, <2>1
<1> QED BY <1>4

\* A smaller multiple of the fee floor is a smaller fee.
LEMMA FeesGrow ==
  ASSUME NEW x \in Nat, NEW y \in Nat
  PROVE  /\ MinTxFee * x \in Nat
         /\ 2 * (MinTxFee * x) = MinTxFee * (2 * x)
         /\ x < y => MinTxFee * x < MinTxFee * y
<1>1. MinTxFee \in Nat \ {0}
  BY CircuitsAssumption
<1>2. \A m \in Nat \ {0} : /\ m * x \in Nat
                          /\ 2 * (m * x) = m * (2 * x)
                          /\ x < y => m * x < m * y
  OBVIOUS
<1> QED BY <1>1, <1>2

\* The clamp to the largest u64 never bites: required_tx_fee is the floor,
\* doubled at most MaxDynamicFeeStep times.
LEMMA RequiredFee ==
  ASSUME NEW count \in Nat
  PROVE  /\ FeeStep(count) \in 0..MaxDynamicFeeStep
         /\ required_tx_fee_for_private_tx_count(count) = MinTxFee * Pow2[FeeStep(count)]
         /\ required_tx_fee_for_private_tx_count(count) \in Nat
         /\ required_tx_fee_for_private_tx_count(count) >= MinTxFee
<1> DEFINE step == FeeStep(count)
           top == MinTxFee * Pow2[MaxDynamicFeeStep]
<1>1. step \in 0..MaxDynamicFeeStep /\ step \in Nat /\ MaxDynamicFeeStep \in Nat
  BY KernelAssumption DEF FeeStep
<1>2. Pow2[step] \in Nat \ {0} /\ Pow2[MaxDynamicFeeStep] \in Nat
  BY <1>1, Powers
<1>3. MinTxFee * Pow2[step] <= top /\ MinTxFee * Pow2[step] \in Nat
  <2>1. CASE step = MaxDynamicFeeStep
    BY <1>2, <2>1, FeesGrow
  <2>2. CASE step < MaxDynamicFeeStep
    <3>1. Pow2[step] < Pow2[MaxDynamicFeeStep]
      BY <1>1, <2>2, PowersGrow
    <3>2. MinTxFee * Pow2[step] < top /\ MinTxFee * Pow2[step] \in Nat /\ top \in Nat
      BY <1>2, <3>1, FeesGrow
    <3> QED BY <3>2
  <2> QED BY <1>1, <2>1, <2>2
<1>4. top <= U64Max /\ U64Max \in Nat /\ top \in Nat
  BY <1>2, KernelAssumption, CircuitsAssumption, FeesGrow
<1>5. ~(MinTxFee * Pow2[step] > U64Max)
  BY <1>3, <1>4
<1>6. required_tx_fee_for_private_tx_count(count) = MinTxFee * Pow2[step]
  BY <1>5 DEF required_tx_fee_for_private_tx_count, FeeStep
<1>7. MinTxFee * Pow2[step] >= MinTxFee
  <2>1. MinTxFee \in Nat
    BY CircuitsAssumption
  <2>2. \A m \in Nat, x \in Nat \ {0} : m * x >= m
    OBVIOUS
  <2> QED BY <1>2, <2>1, <2>2
<1> QED BY <1>1, <1>3, <1>6, <1>7

\* The n-th fee of the schedule is what the kernel asks after n - 1 others.
LEMMA ScheduleFee ==
  ASSUME NEW n \in Nat \ {0}
  PROVE  Schedule(n) = required_tx_fee_for_private_tx_count(n - 1)
<1> DEFINE R(c) == required_tx_fee_for_private_tx_count(c)
           top == MinTxFee * Pow2[MaxDynamicFeeStep]
           Next1(S, i) == IF i <= BasePrivateTxsPerLevel THEN MinTxFee ELSE Doubled(S[i - 1])
           Rec(S) == S = [i \in 1..n |-> Next1(S, i)]
           g == [i \in 1..n |-> R(i - 1)]
<1>6. Schedule(n) = (CHOOSE S : Rec(S))[n]
  BY DEF Schedule
<1>1. /\ BasePrivateTxsPerLevel \in Nat \ {0} /\ MaxDynamicFeeStep \in Nat
      /\ MinTxFee \in Nat /\ MinTxFee * Pow2[0] = MinTxFee
  BY KernelAssumption, CircuitsAssumption, Powers
<1>2. \A i \in 1..n : i <= BasePrivateTxsPerLevel => R(i - 1) = MinTxFee
  <2> SUFFICES ASSUME NEW i \in 1..n, i <= BasePrivateTxsPerLevel PROVE R(i - 1) = MinTxFee
    OBVIOUS
  <2>1. i - 1 \in Nat /\ FeeStep(i - 1) = 0
    BY <1>1 DEF FeeStep
  <2> QED BY <1>1, <2>1, RequiredFee
<1>3. ASSUME NEW i \in 1..n, i > BasePrivateTxsPerLevel
      PROVE  R(i - 1) = Doubled(R(i - 2))
  <2>0. Doubled(R(i - 2)) = IF 2 * R(i - 2) < top THEN 2 * R(i - 2) ELSE top
    BY DEF Doubled
  <2> DEFINE over == i - 1 - BasePrivateTxsPerLevel
  <2>1. i - 1 \in Nat /\ i - 2 \in Nat /\ over \in Nat
    BY <1>1, <1>3
  <2>2. /\ FeeStep(i - 2) = IF over > MaxDynamicFeeStep THEN MaxDynamicFeeStep ELSE over
        /\ FeeStep(i - 1) = IF over + 1 > MaxDynamicFeeStep THEN MaxDynamicFeeStep ELSE over + 1
    BY <1>1, <1>3 DEF FeeStep
  <2>3. /\ R(i - 2) = MinTxFee * Pow2[FeeStep(i - 2)] /\ R(i - 2) \in Nat /\ R(i - 2) >= MinTxFee
        /\ R(i - 1) = MinTxFee * Pow2[FeeStep(i - 1)]
    BY <2>1, RequiredFee
  <2>4. MinTxFee > 0 /\ top \in Nat
    BY <1>1, Powers, FeesGrow, CircuitsAssumption
  <2>5. CASE over >= MaxDynamicFeeStep
    <3>1. FeeStep(i - 2) = MaxDynamicFeeStep /\ FeeStep(i - 1) = MaxDynamicFeeStep
      BY <1>1, <2>1, <2>2, <2>5
    <3>2. R(i - 2) = top /\ R(i - 1) = top /\ ~(2 * top < top)
      BY <1>1, <2>3, <2>4, <3>1
    <3> HIDE DEF R, top
    <3> QED BY <2>0, <3>2
  <2>6. CASE over < MaxDynamicFeeStep
    <3>1. FeeStep(i - 2) = over /\ FeeStep(i - 1) = over + 1
      BY <1>1, <2>1, <2>2, <2>6
    <3>2. Pow2[over + 1] = 2 * Pow2[over] /\ Pow2[over] \in Nat
      BY <2>1, Powers
    <3>3. 2 * R(i - 2) = R(i - 1)
      <4> HIDE DEF R
      <4>1. 2 * (MinTxFee * Pow2[over]) = MinTxFee * (2 * Pow2[over])
        BY <3>2, FeesGrow
      <4> QED BY <2>3, <3>1, <3>2, <4>1
    <3>4. over + 1 < MaxDynamicFeeStep => R(i - 1) < top
      <4> SUFFICES ASSUME over + 1 < MaxDynamicFeeStep PROVE R(i - 1) < top
        OBVIOUS
      <4>1. Pow2[over + 1] < Pow2[MaxDynamicFeeStep]
        BY <1>1, <2>1, PowersGrow
      <4>2. Pow2[over + 1] \in Nat /\ Pow2[MaxDynamicFeeStep] \in Nat
        BY <1>1, <2>1, Powers
      <4> QED BY <2>3, <3>1, <4>1, <4>2, FeesGrow
    <3>5. over + 1 = MaxDynamicFeeStep => R(i - 1) = top
      BY <2>3, <3>1
    <3> HIDE DEF R, top
    <3> QED BY <1>1, <2>0, <2>1, <2>4, <2>6, <3>3, <3>4, <3>5
  <2> QED BY <1>1, <2>1, <2>5, <2>6
<1> HIDE DEF R, top
<1>4. Rec(g)
  <2>1. ASSUME NEW i \in 1..n PROVE g[i] = Next1(g, i)
    <3>1. CASE i <= BasePrivateTxsPerLevel
      <4>1. ~(i > BasePrivateTxsPerLevel) /\ g[i] = MinTxFee
        BY <1>1, <1>2, <3>1
      <4> HIDE DEF g
      <4> QED BY <3>1, <4>1
    <3>2. CASE i > BasePrivateTxsPerLevel
      <4>1. i - 1 \in 1..n /\ i - 1 - 1 = i - 2 /\ ~(i <= BasePrivateTxsPerLevel)
        BY <1>1, <3>2
      <4>2. g[i] = R(i - 1) /\ g[i - 1] = R(i - 2)
        BY <4>1
      <4> HIDE DEF g
      <4> QED BY <1>3, <3>2, <4>1, <4>2
    <3> QED BY <1>1, <3>1, <3>2
  <2> QED BY <2>1
<1>5. Rec(CHOOSE S : Rec(S))
  <2> HIDE DEF Rec, g
  <2> QED BY <1>4
<1>7. PICK S : S = (CHOOSE U : Rec(U))
  OBVIOUS
<1>8. \A i \in 1..n : S[i] = Next1(S, i)
  BY <1>5, <1>7
<1> DEFINE T == {i \in 0..n : i = 0 \/ S[i] = R(i - 1)}
<1>9. 0 \in T
  OBVIOUS
<1>10. ASSUME NEW i \in 0..(n - 1), i \in T PROVE i + 1 \in T
  <2>1. i + 1 \in 1..n /\ i + 1 - 1 = i /\ i + 1 - 2 = i - 1
    OBVIOUS
  <2>2. CASE i + 1 <= BasePrivateTxsPerLevel
    <3>1. ~(i + 1 > BasePrivateTxsPerLevel) /\ R(i + 1 - 1) = MinTxFee
      BY <1>1, <1>2, <2>1, <2>2
    <3>2. S[i + 1] = MinTxFee
      BY <1>8, <2>1, <2>2, <3>1
    <3> QED BY <2>1, <3>1, <3>2
  <2>3. CASE i + 1 > BasePrivateTxsPerLevel
    <3>1. i # 0 /\ ~(i + 1 <= BasePrivateTxsPerLevel)
      BY <1>1, <2>3
    <3>2. S[i] = R(i - 1)
      BY <1>10, <3>1
    <3>3. S[i + 1] = Doubled(S[i])
      BY <1>8, <2>1, <2>3, <3>1
    <3>4. R(i + 1 - 1) = Doubled(R(i + 1 - 2))
      BY <1>3, <2>1, <2>3
    <3> QED BY <2>1, <3>2, <3>3, <3>4
  <2> QED BY <1>1, <2>1, <2>2, <2>3
<1>11. 0..n \subseteq T
  <2> HIDE DEF T
  <2> QED BY <1>9, <1>10, UpTo
<1>12. S[n] = R(n - 1)
  BY <1>11
<1> QED BY <1>6, <1>7, <1>12 DEF R

-----------------------------------------------------------------------------
(***************************************************************************)
(* The logs: markers, index entries and count.                             *)
(***************************************************************************)
LogOK(log) ==
  /\ log.count \in Nat
  /\ DOMAIN log.at = 0..(log.count - 1)
  /\ log.marker = {log.at[i] : i \in DOMAIN log.at}
  /\ IsFiniteSet(log.marker)
  /\ Cardinality(log.marker) = log.count

\* A key that has no marker yet gets one, and the next index.
LEMMA InsertOne ==
  ASSUME NEW log, NEW key, LogOK(log), key \notin log.marker
  PROVE  LET after == LogInsert(log, key)
         IN  /\ LogOK(after)
             /\ after.marker = log.marker \cup {key}
             /\ after.count = log.count + 1
             /\ after.at[log.count] = key
             /\ \A i \in 0..(log.count - 1) : after.at[i] = log.at[i]
             /\ LogInsertNew(log, key) = after
<1> DEFINE after == LogInsert(log, key)
<1>1. /\ after.marker = log.marker \cup {key}
      /\ after.count = log.count + 1
      /\ after.at = Write(log.at, log.count, key)
      /\ LogInsertNew(log, key) = after
  BY DEF LogInsert, LogInsertNew
<1>2. /\ log.count \in Nat
      /\ DOMAIN log.at = 0..(log.count - 1)
      /\ log.marker = {log.at[i] : i \in DOMAIN log.at}
      /\ IsFiniteSet(log.marker)
      /\ Cardinality(log.marker) = log.count
  BY DEF LogOK
<1> HIDE DEF after
<1>3. /\ DOMAIN after.at = DOMAIN log.at \cup {log.count}
      /\ after.at[log.count] = key
      /\ \A i \in DOMAIN log.at : i # log.count => after.at[i] = log.at[i]
  <2>1. PICK at : at = log.at
    OBVIOUS
  <2>2. PICK path : path = log.count
    OBVIOUS
  <2>3. after.at = Write(at, path, key)
    BY <1>1, <2>1, <2>2
  <2>4. /\ DOMAIN Write(at, path, key) = DOMAIN at \cup {path}
        /\ Write(at, path, key)[path] = key
        /\ \A p \in DOMAIN at : p # path => Write(at, path, key)[p] = at[p]
    BY DEF Write
  <2> QED BY <2>1, <2>2, <2>3, <2>4
<1>4. DOMAIN after.at = 0..(after.count - 1)
  BY <1>1, <1>2, <1>3
<1>5. \A i \in 0..(log.count - 1) : after.at[i] = log.at[i]
  BY <1>2, <1>3
<1>6. after.marker = {after.at[i] : i \in DOMAIN after.at}
  <2>1. ASSUME NEW x \in after.marker PROVE \E i \in DOMAIN after.at : x = after.at[i]
    <3>1. CASE x = key
      BY <1>3, <3>1
    <3>2. CASE x \in log.marker
      <4>1. PICK i \in DOMAIN log.at : x = log.at[i]
        BY <1>2, <3>2
      <4> QED BY <1>2, <1>3, <1>5, <4>1
    <3> QED BY <1>1, <2>1, <3>1, <3>2
  <2>2. ASSUME NEW i \in DOMAIN after.at PROVE after.at[i] \in after.marker
    <3>1. CASE i = log.count
      BY <1>1, <1>3, <3>1
    <3>2. CASE i # log.count
      <4>1. i \in DOMAIN log.at
        BY <1>3, <2>2, <3>2
      <4> QED BY <1>1, <1>2, <1>5, <4>1
    <3> QED BY <3>1, <3>2
  <2> QED BY <2>1, <2>2
<1>7. IsFiniteSet(after.marker) /\ Cardinality(after.marker) = after.count
  BY <1>1, <1>2, FS_AddElement
<1>8. LogOK(after)
  <2>1. after.count \in Nat
    BY <1>1, <1>2
  <2> QED BY <1>4, <1>6, <1>7, <2>1, Zenon DEF LogOK
<1> QED BY <1>1, <1>3, <1>5, <1>8 DEF after

\* The logs as the first i keys are inserted without a look at the markers.
IsInserted(log, keys, k, I) ==
  I = [i \in 0..k |-> IF i = 0 THEN log ELSE LogInsert(I[i - 1], keys[i])]

\* There is one for every number of keys.
LEMMA InsertedExists ==
  ASSUME NEW log, NEW keys, NEW k \in Nat
  PROVE  \E I : IsInserted(log, keys, k, I)
<1> DEFINE T == {j \in Nat : \E I : IsInserted(log, keys, j, I)}
<1>1. 0 \in T
  <2>1. IsInserted(log, keys, 0, [i \in 0..0 |-> log])
    BY DEF IsInserted
  <2> QED BY <2>1
<1>2. ASSUME NEW j \in Nat, j \in T PROVE j + 1 \in T
  <2>1. PICK I : IsInserted(log, keys, j, I)
    BY <1>2
  <2> DEFINE M == [i \in 0..(j + 1) |-> IF i <= j THEN I[i] ELSE LogInsert(I[j], keys[j + 1])]
  <2>2. \A i \in 0..j : I[i] = IF i = 0 THEN log ELSE LogInsert(I[i - 1], keys[i])
    BY <2>1 DEF IsInserted
  <2>3. ASSUME NEW i \in 0..(j + 1)
        PROVE  M[i] = IF i = 0 THEN log ELSE LogInsert(M[i - 1], keys[i])
    BY <2>2
  <2>4. IsInserted(log, keys, j + 1, M)
    BY <2>3 DEF IsInserted
  <2> QED BY <2>4
<1>3. Nat \subseteq T
  <2> HIDE DEF T
  <2> QED BY <1>1, <1>2, SetInduction
<1> QED BY <1>3

\* A spend whose nullifiers are new and different leaves a log with just those
\* more, whether it looks at the markers as it goes (transfer) or not
\* (unshield).
LEMMA InsertAll ==
  ASSUME NEW log, NEW S, NEW keys \in Seq(S), LogOK(log),
         \A i \in DOMAIN keys : keys[i] \notin log.marker,
         \A i, j \in DOMAIN keys : i # j => keys[i] # keys[j]
  PROVE  /\ LogOK(commit_nullifiers(log, keys))
         /\ commit_nullifiers(log, keys).marker = log.marker \cup {keys[i] : i \in DOMAIN keys}
         /\ insert_nullifiers(log, keys) = commit_nullifiers(log, keys)
<1> DEFINE n == Len(keys)
           I == CHOOSE J : IsInserted(log, keys, n, J)
           New(J, i) == IF i = 0 THEN log ELSE LogInsertNew(J[i - 1], keys[i])
           IsNew(J) == J = [i \in 0..n |-> New(J, i)]
<1>1. n \in Nat /\ DOMAIN keys = 1..n
  BY LenProperties
<1>2. IsInserted(log, keys, n, I)
  BY <1>1, InsertedExists
<1>3. commit_nullifiers(log, keys) = I[n]
  BY DEF commit_nullifiers, IsInserted
<1>4. insert_nullifiers(log, keys) = (CHOOSE J : IsNew(J))[n]
  BY DEF insert_nullifiers
<1> HIDE DEF I
<1>5. \A i \in 0..n : I[i] = IF i = 0 THEN log ELSE LogInsert(I[i - 1], keys[i])
  BY <1>2 DEF IsInserted
<1> DEFINE Upto(i) == {keys[j] : j \in 1..i}
           T == {i \in 0..n : LogOK(I[i]) /\ I[i].marker = log.marker \cup Upto(i)}
<1>6. 0 \in T
  <2>1. I[0] = log /\ Upto(0) = {}
    BY <1>1, <1>5
  <2> QED BY <1>1, <2>1
<1>7. ASSUME NEW i \in 0..(n - 1), i \in T
      PROVE  /\ i + 1 \in T
             /\ LogInsertNew(I[i], keys[i + 1]) = I[i + 1]
  <2>1. i + 1 \in 1..n /\ i + 1 \in 0..n /\ i + 1 # 0 /\ i + 1 - 1 = i /\ i \in Nat
    BY <1>1
  <2>2. I[i + 1] = LogInsert(I[i], keys[i + 1])
    BY <1>5, <2>1
  <2>3. keys[i + 1] \notin I[i].marker
    <3>1. keys[i + 1] \notin log.marker
      BY <1>1, <2>1
    <3>2. ASSUME NEW j \in 1..i PROVE keys[j] # keys[i + 1]
      BY <1>1, <2>1
    <3> QED BY <1>7, <3>1, <3>2
  <2>4. /\ LogOK(I[i + 1])
        /\ I[i + 1].marker = I[i].marker \cup {keys[i + 1]}
        /\ LogInsertNew(I[i], keys[i + 1]) = I[i + 1]
    BY <1>7, <2>2, <2>3, InsertOne
  <2>5. Upto(i + 1) = Upto(i) \cup {keys[i + 1]}
    <3>1. 1..(i + 1) = 1..i \cup {i + 1}
      BY <2>1
    <3> QED BY <3>1
  <2> QED BY <1>7, <2>1, <2>4, <2>5
<1>8. 0..n \subseteq T
  <2> HIDE DEF T
  <2> QED BY <1>1, <1>6, <1>7, UpTo
<1>9. LogOK(I[n]) /\ I[n].marker = log.marker \cup {keys[i] : i \in DOMAIN keys}
  BY <1>1, <1>8
<1>10. \A i \in 0..(n - 1) : LogInsertNew(I[i], keys[i + 1]) = I[i + 1]
  <2> SUFFICES ASSUME NEW i \in 0..(n - 1) PROVE LogInsertNew(I[i], keys[i + 1]) = I[i + 1]
    OBVIOUS
  <2>1. i \in T
    <3> HIDE DEF T
    <3> QED BY <1>1, <1>8
  <2> HIDE DEF T
  <2> QED BY <1>7, <2>1
<1> HIDE DEF T
<1>11. IsNew(I)
  <2>1. ASSUME NEW i \in 0..n PROVE I[i] = New(I, i)
    <3>1. CASE i = 0
      BY <1>5, <3>1
    <3>2. CASE i # 0
      <4>1. i - 1 \in 0..(n - 1) /\ i - 1 + 1 = i
        BY <1>1, <3>2
      <4> QED BY <1>10, <3>2, <4>1
    <3> QED BY <3>1, <3>2
  <2>2. I = [i \in 0..n |-> I[i]]
    BY <1>2 DEF IsInserted
  <2> HIDE DEF New
  <2> QED BY <2>1, <2>2, Zenon
<1> DEFINE J == CHOOSE K : IsNew(K)
<1>12. IsNew(J)
  <2> HIDE DEF IsNew
  <2> QED BY <1>11
<1> HIDE DEF J
<1>13. \A i \in 0..n : J[i] = New(J, i)
  BY <1>12
<1> DEFINE U == {i \in 0..n : J[i] = I[i]}
<1>14. 0 \in U
  BY <1>1, <1>5, <1>13
<1>15. ASSUME NEW i \in 0..(n - 1), i \in U PROVE i + 1 \in U
  <2>1. i + 1 \in 0..n /\ i + 1 # 0 /\ i + 1 - 1 = i
    BY <1>1
  <2>2. J[i + 1] = LogInsertNew(J[i], keys[i + 1])
    BY <1>13, <2>1
  <2> QED BY <1>10, <1>15, <2>1, <2>2
<1>16. 0..n \subseteq U
  <2> HIDE DEF U
  <2> QED BY <1>1, <1>14, <1>15, UpTo
<1>17. J[n] = I[n]
  BY <1>1, <1>16
<1> QED BY <1>3, <1>4, <1>9, <1>17 DEF J

-----------------------------------------------------------------------------
(***************************************************************************)
(* The tree: the store's frontier and root are those of its notes.         *)
(***************************************************************************)
LeavesOf(t) == [i \in 1..t.size |-> t.note[i - 1].cm]

\* The store's tree: size, notes, root and frontier agree.
TreeOK(t) ==
  /\ t.size \in 0..Capacity
  /\ t.note \in [0..(t.size - 1) -> Note]
  /\ t.root = ReferenceRoot(LeavesOf(t))
  /\ CT!Frontier(LeavesOf(t), t.branches)

\* The notes cms, with ciphertexts enc, follow those of t in u.
Follows(t, u, cms, enc) ==
  /\ u.size = t.size + Len(cms)
  /\ \A i \in 0..(t.size - 1) : u.note[i] = t.note[i]
  /\ \A j \in 1..Len(cms) : u.note[t.size + (j - 1)] = [cm |-> cms[j], enc |-> enc]

\* The leaves are a sequence of commitments.
LEMMA LeavesAreSeq ==
  ASSUME NEW t, t.size \in Nat, t.note \in [0..(t.size - 1) -> Note]
  PROVE  LeavesOf(t) \in Seq(Commitment) /\ Len(LeavesOf(t)) = t.size
<1>1. ASSUME NEW i \in 1..t.size PROVE t.note[i - 1].cm \in Commitment
  <2>1. i - 1 \in 0..(t.size - 1)
    OBVIOUS
  <2>2. t.note[i - 1] \in Note
    BY <2>1
  <2> QED BY <2>2 DEF Note
<1>2. LeavesOf(t) \in [1..t.size -> Commitment]
  BY <1>1 DEF LeavesOf
<1> QED BY <1>2, FunctionIsSeq

\* append_note of one commitment: it succeeds while there is room.
LEMMA AppendOne ==
  ASSUME NEW t, TreeOK(t), t.size < Capacity, NEW cm \in Commitment, NEW enc \in {Sealed, Altered}
  PROVE  \E u : /\ append_note(t, cm, enc) = [ok |-> TRUE, tree |-> u]
                /\ TreeOK(u)
                /\ Follows(t, u, <<cm>>, enc)
<1> DEFINE ls == LeavesOf(t)
           after == simulate_frontier_append(t.branches, t.size, cm)
           note == [cm |-> cm, enc |-> enc]
           u == [size |-> t.size + 1, root |-> after.root, branches |-> after.branches,
                 note |-> Write(t.note, t.size, note)]
<1>1. /\ Depth \in Nat /\ Capacity = Pow2[Depth] /\ Capacity \in Nat
      /\ ZERO \notin Commitment
  BY KernelAssumption, CircuitsAssumption, CapacityAssumption
<1>2. /\ t.size \in 0..Capacity /\ t.size \in Nat
      /\ t.note \in [0..(t.size - 1) -> Note]
      /\ CT!Frontier(ls, t.branches)
  BY <1>1 DEF TreeOK
<1>3. ls \in Seq(Commitment) /\ Len(ls) = t.size
  BY <1>2, LeavesAreSeq
<1> HIDE DEF ls
<1>4. /\ after.ok
      /\ after.root = ReferenceRoot(Append(ls, cm))
      /\ CT!Frontier(Append(ls, cm), after.branches)
  <2>1. /\ CT!simulate_frontier_append(t.branches, Len(ls), cm).ok
        /\ CT!simulate_frontier_append(t.branches, Len(ls), cm).root
             = CT!ReferenceRoot(Append(ls, cm))
        /\ CT!Frontier(Append(ls, cm), CT!simulate_frontier_append(t.branches, Len(ls), cm).branches)
    <3>1. Len(ls) < CT!Pow2[Depth]
      BY <1>1, <1>2, <1>3, SamePow2
    <3> QED BY <1>1, <1>2, <1>3, <3>1, CT!FrontierAppend
  <2> QED BY <1>3, <2>1, SameAppend, SameReference
<1> HIDE DEF after
<1>5. append_note(t, cm, enc) = [ok |-> TRUE, tree |-> u]
  <2>1. ~(t.size >= Capacity)
    BY <1>1, <1>2
  <2> QED BY <1>4, <2>1 DEF append_note, after
<1>6. note \in Note
  BY DEF Note
<1>7. /\ u.size = t.size + 1 /\ u.root = after.root /\ u.branches = after.branches
      /\ u.note = Write(t.note, t.size, note)
  OBVIOUS
<1> HIDE DEF u, note
<1>9. /\ u.note \in [0..(u.size - 1) -> Note]
      /\ u.note[t.size] = note
      /\ \A i \in 0..(t.size - 1) : u.note[i] = t.note[i]
  <2>1. u.note = [p \in 0..t.size |-> IF p = t.size THEN note ELSE t.note[p]]
    <3>1. DOMAIN t.note \cup {t.size} = 0..t.size
      BY <1>2
    <3> QED BY <1>7, <3>1 DEF Write
  <2>2. u.size - 1 = t.size
    BY <1>2, <1>7
  <2>3. \A p \in 0..t.size : p # t.size => p \in 0..(t.size - 1)
    BY <1>2
  <2> QED BY <1>2, <1>6, <2>1, <2>2, <2>3
<1>10. LeavesOf(u) = Append(ls, cm)
  <2>1. LeavesOf(u) \in Seq(Commitment) /\ Len(LeavesOf(u)) = u.size
    BY <1>2, <1>7, <1>9, LeavesAreSeq
  <2>2. /\ Append(ls, cm) \in Seq(Commitment)
        /\ Len(Append(ls, cm)) = u.size
        /\ \A i \in 1..t.size : Append(ls, cm)[i] = ls[i]
        /\ Append(ls, cm)[t.size + 1] = cm
    BY <1>3, <1>7, AppendProperties
  <2>3. ASSUME NEW i \in 1..u.size PROVE LeavesOf(u)[i] = Append(ls, cm)[i]
    <3>1. LeavesOf(u)[i] = u.note[i - 1].cm
      BY DEF LeavesOf
    <3>2. CASE i = t.size + 1
      <4>1. i - 1 = t.size /\ note.cm = cm
        BY <1>2, <3>2 DEF note
      <4> QED BY <1>9, <2>2, <3>1, <3>2, <4>1
    <3>3. CASE i # t.size + 1
      <4>1. i \in 1..t.size /\ i - 1 \in 0..(t.size - 1)
        BY <1>2, <1>7, <3>3
      <4>2. ls[i] = t.note[i - 1].cm
        BY <4>1 DEF ls, LeavesOf
      <4> QED BY <1>9, <2>2, <3>1, <4>1, <4>2
    <3> QED BY <3>2, <3>3
  <2> QED BY <2>1, <2>2, <2>3, SeqEqual
<1>11. TreeOK(u)
  <2>1. u.size \in 0..Capacity
    BY <1>1, <1>2, <1>7
  <2> QED BY <1>4, <1>7, <1>9, <1>10, <2>1 DEF TreeOK
<1>12. Follows(t, u, <<cm>>, enc)
  <2>1. Len(<<cm>>) = 1 /\ <<cm>>[1] = cm
    OBVIOUS
  <2>2. \A j \in 1..Len(<<cm>>) : u.note[t.size + (j - 1)] = [cm |-> <<cm>>[j], enc |-> enc]
    BY <1>2, <1>9, <2>1 DEF note
  <2> QED BY <1>7, <1>9, <2>1, <2>2 DEF Follows
<1> QED BY <1>5, <1>11, <1>12

\* The results of append_note, commitment by commitment.
IsAppended(t, cms, enc, k, A) ==
  A = [i \in 0..k |->
         IF i = 0 THEN [ok |-> TRUE, tree |-> t] ELSE append_next(A[i - 1], cms[i], enc)]

\* There are such results for every number of commitments.
LEMMA AppendedExists ==
  ASSUME NEW t, NEW cms, NEW enc, NEW k \in Nat
  PROVE  \E A : IsAppended(t, cms, enc, k, A)
<1> DEFINE start == [ok |-> TRUE, tree |-> t]
           T == {j \in Nat : \E A : IsAppended(t, cms, enc, j, A)}
<1>1. 0 \in T
  <2>1. IsAppended(t, cms, enc, 0, [i \in 0..0 |-> start])
    BY DEF IsAppended
  <2> QED BY <2>1
<1>2. ASSUME NEW j \in Nat, j \in T PROVE j + 1 \in T
  <2>1. PICK A : IsAppended(t, cms, enc, j, A)
    BY <1>2
  <2> HIDE DEF start
  <2> DEFINE M == [i \in 0..(j + 1) |-> IF i <= j THEN A[i] ELSE append_next(A[j], cms[j + 1], enc)]
  <2>2. \A i \in 0..j : A[i] = IF i = 0 THEN start ELSE append_next(A[i - 1], cms[i], enc)
    BY <2>1 DEF IsAppended, start
  <2>3. ASSUME NEW i \in 0..(j + 1)
        PROVE  M[i] = IF i = 0 THEN start ELSE append_next(M[i - 1], cms[i], enc)
    BY <2>2
  <2>4. IsAppended(t, cms, enc, j + 1, M)
    BY <2>3 DEF IsAppended, start
  <2> QED BY <2>4
<1>3. Nat \subseteq T
  <2> HIDE DEF T
  <2> QED BY <1>1, <1>2, SetInduction
<1> QED BY <1>3

\* The first i commitments of cms are in u, after the notes of t.
Reached(t, cms, enc, i, u) ==
  /\ TreeOK(u)
  /\ u.size = t.size + i
  /\ \A p \in 0..(t.size - 1) : u.note[p] = t.note[p]
  /\ \A j \in 1..i : u.note[t.size + (j - 1)] = [cm |-> cms[j], enc |-> enc]

\* append_note for each output of a transaction: with room for all of them,
\* none fails.
LEMMA AppendAll ==
  ASSUME NEW t, TreeOK(t), NEW cms \in Seq(Commitment), NEW enc \in {Sealed, Altered},
         t.size + Len(cms) <= Capacity
  PROVE  \E u : /\ append_notes(t, cms, enc) = [ok |-> TRUE, tree |-> u]
                /\ TreeOK(u)
                /\ Follows(t, u, cms, enc)
<1> DEFINE n == Len(cms)
           A == CHOOSE B : IsAppended(t, cms, enc, n, B)
           start == [ok |-> TRUE, tree |-> t]
           T == {i \in 0..n : \E u : A[i] = [ok |-> TRUE, tree |-> u] /\ Reached(t, cms, enc, i, u)}
<1>1. n \in Nat /\ Capacity \in Nat /\ t.size \in Nat /\ \A i \in 1..n : cms[i] \in Commitment
  BY CapacityAssumption, LenProperties, ElementOfSeq DEF TreeOK
<1>2. IsAppended(t, cms, enc, n, A)
  BY <1>1, AppendedExists
<1>3. append_notes(t, cms, enc) = A[n]
  BY DEF append_notes, IsAppended
<1> HIDE DEF A, start
<1>4. \A i \in 0..n : A[i] = IF i = 0 THEN start ELSE append_next(A[i - 1], cms[i], enc)
  BY <1>2 DEF IsAppended, start
<1>5. 0 \in T
  <2>1. Reached(t, cms, enc, 0, t)
    BY <1>1 DEF Reached
  <2>2. A[0] = [ok |-> TRUE, tree |-> t]
    <3>1. A[0] = start
      BY <1>1, <1>4
    <3> QED BY <3>1 DEF start
  <2>3. \E u : A[0] = [ok |-> TRUE, tree |-> u] /\ Reached(t, cms, enc, 0, u)
    BY <2>1, <2>2
  <2>4. 0 \in 0..n
    BY <1>1
  <2> QED BY <2>3, <2>4
<1>6. ASSUME NEW i \in 0..(n - 1), i \in T PROVE i + 1 \in T
  <2>1. PICK u : A[i] = [ok |-> TRUE, tree |-> u] /\ Reached(t, cms, enc, i, u)
    BY <1>6
  <2>2. i + 1 \in 1..n /\ i + 1 \in 0..n /\ i + 1 # 0 /\ i + 1 - 1 = i /\ i \in Nat
    BY <1>1
  <2>3. A[i + 1] = append_note(u, cms[i + 1], enc)
    <3>1. A[i + 1] = append_next(A[i], cms[i + 1], enc)
      BY <1>4, <2>2
    <3> QED BY <2>1, <3>1 DEF append_next
  <2>4. /\ TreeOK(u) /\ u.size = t.size + i /\ u.size < Capacity
        /\ \A p \in 0..(t.size - 1) : u.note[p] = t.note[p]
        /\ \A j \in 1..i : u.note[t.size + (j - 1)] = [cm |-> cms[j], enc |-> enc]
    BY <1>1, <2>1, <2>2 DEF Reached
  <2>5. cms[i + 1] \in Commitment
    BY <1>1, <2>2
  <2>6. PICK v : /\ append_note(u, cms[i + 1], enc) = [ok |-> TRUE, tree |-> v]
                 /\ TreeOK(v)
                 /\ Follows(u, v, <<cms[i + 1]>>, enc)
    BY <2>4, <2>5, AppendOne
  <2>7. /\ v.size = u.size + 1
        /\ \A p \in 0..(u.size - 1) : v.note[p] = u.note[p]
        /\ v.note[u.size] = [cm |-> cms[i + 1], enc |-> enc]
    <3>1. Len(<<cms[i + 1]>>) = 1 /\ <<cms[i + 1]>>[1] = cms[i + 1]
      OBVIOUS
    <3>2. u.size + (1 - 1) = u.size /\ 1 \in 1..1
      BY <1>1, <2>2, <2>4
    <3> QED BY <2>6, <3>1, <3>2 DEF Follows
  <2>8. v.size = t.size + (i + 1)
    BY <1>1, <2>2, <2>4, <2>7
  <2>9. \A p \in 0..(t.size - 1) : v.note[p] = t.note[p]
    <3>1. \A p \in 0..(t.size - 1) : p \in 0..(u.size - 1)
      BY <1>1, <2>2, <2>4
    <3> QED BY <2>4, <2>7, <3>1
  <2>10. ASSUME NEW j \in 1..(i + 1)
         PROVE  v.note[t.size + (j - 1)] = [cm |-> cms[j], enc |-> enc]
    <3>1. CASE j = i + 1
      <4>1. t.size + (j - 1) = u.size
        BY <1>1, <2>2, <2>4, <3>1
      <4> QED BY <2>7, <3>1, <4>1
    <3>2. CASE j # i + 1
      <4>1. j \in 1..i /\ t.size + (j - 1) \in 0..(u.size - 1)
        BY <1>1, <2>2, <2>4, <3>2
      <4> QED BY <2>4, <2>7, <4>1
    <3> QED BY <3>1, <3>2
  <2>11. Reached(t, cms, enc, i + 1, v)
    BY <2>6, <2>8, <2>9, <2>10 DEF Reached
  <2> QED BY <2>2, <2>3, <2>6, <2>11
<1>7. 0..n \subseteq T
  <2> HIDE DEF T
  <2> QED BY <1>1, <1>5, <1>6, UpTo
<1>8. PICK u : A[n] = [ok |-> TRUE, tree |-> u] /\ Reached(t, cms, enc, n, u)
  <2>1. n \in T
    <3> HIDE DEF T
    <3> QED BY <1>1, <1>7
  <2> QED BY <2>1
<1>9. TreeOK(u) /\ Follows(t, u, cms, enc)
  BY <1>8 DEF Reached, Follows
<1> QED BY <1>3, <1>8, <1>9

-----------------------------------------------------------------------------
(***************************************************************************)
(* What an applied transaction did: r is the request, u the tree after it. *)
(***************************************************************************)
Applied(level, r, u) ==
  /\ process_input(level)
  /\ verifier # None
  /\ r.fee \in Nat
  /\ r.fee >= read_required_tx_fee(level)
  /\ TreeOK(u)
  /\ tree' = u
  /\ root' = snapshot_root(u)
  /\ auth_domain' = AuthDomain
  /\ note_private_tx_applied(level, r.fee)
  /\ burned' = burned + r.fee
  /\ UNCHANGED <<verifier, ticketer, deposited, anchors>>

\* A shield that is applied, a transfer, and an unshield.
Shielded(level, r, u) ==
  /\ \E k \in PoolKey, cm \in Commitment, producer_cm \in Commitment, fee \in TxFee :
       r = ShieldProof(k, cm, producer_cm, fee)
  /\ ShieldProvable(r)
  /\ prepare_shield(DurableLedgerState(level), r, r, AuthDomain)
  /\ Applied(level, r, u)
  /\ Follows(tree, u, shield_outputs(r), Sealed)
  /\ balance' = debit_deposit(r.pubkey_hash, debit(r))
  /\ applied_shield' = mark_applied_shield(r.client_cm)
  /\ shields' = Append(shields, r.client_cm)
  /\ UNCHANGED <<nullifier, withdrawal, outbox, claims>>

Transferred(level, r, u) ==
  /\ \E o \in Openings(Notes), cm_1, cm_2, cm_3 \in Commitment :
       r = TransferProof(o, <<cm_1, cm_2, cm_3>>) /\ TransferProvable(r, o.sum_in)
  /\ prepare_transfer(DurableLedgerState(level), r, r, AuthDomain)
  /\ Applied(level, r, u)
  /\ Follows(tree, u, transfer_outputs(r), Sealed)
  /\ nullifier' = insert_nullifiers(nullifier, r.nullifiers)
  /\ UNCHANGED <<withdrawal, balance, applied_shield, outbox, shields, claims>>

Unshielded(level, r, u) ==
  /\ \E o \in Openings(Notes), fee \in TxFee, recipient \in Recipient,
        cm_change \in Commitment \cup {ZERO}, cm_fee \in Commitment :
       r = UnshieldProof(o, fee, recipient, cm_change, cm_fee) /\ UnshieldProvable(r, o.sum_in)
  /\ prepare_unshield(DurableLedgerState(level), r, r, AuthDomain)
  /\ Applied(level, r, u)
  /\ Follows(tree, u, unshield_outputs(r), Sealed)
  /\ nullifier' = commit_nullifiers(nullifier, r.nullifiers)
  /\ ticketer # None
  /\ outbox' = Append(outbox, encode_withdrawal_outbox_message(ticketer, WithdrawalRecord(r)))
  /\ withdrawal' = enqueue_withdrawal(WithdrawalRecord(r))
  /\ claims' = Append(claims, Claim(r))
  /\ UNCHANGED <<balance, applied_shield, shields>>

\* What the store answers.
LEMMA StateFacts ==
  ASSUME NEW level
  PROVE  /\ DurableLedgerState(level).auth_domain = AuthDomain
         /\ DurableLedgerState(level).required_tx_fee = read_required_tx_fee(level)
         /\ DurableLedgerState(level).valid_roots =
              {n \in 0..tree.size : tree_root(Leaves(n)) \in ValidRoots.marker}
         /\ DurableLedgerState(level).nullifiers = nullifier.marker
         /\ DurableLedgerState(level).deposit_balances = [k \in PoolKey |-> deposit_balance(k)]
         /\ DurableLedgerState(level).applied_shield_cms = applied_shield
         /\ DurableLedgerState(level).size = tree.size
BY DEF DurableLedgerState

\* A shield that is applied is one of the circuit's proof, and its two notes
\* are appended.
LEMMA ShieldEffect ==
  ASSUME TreeOK(tree), NEW level, ShieldStep(level, DurableLedgerState(level))
  PROVE  \E r, u : Shielded(level, r, u)
<1> DEFINE s == DurableLedgerState(level)
<1>1. PICK foreign \in BOOLEAN, k \in PoolKey, cm \in Commitment, producer_cm \in Commitment,
           fee \in TxFee, d \in Domain :
        LET p == ShieldProof(k, cm, producer_cm, fee)
        IN  \E proof \in Proofs("shield", d, p, ShieldProvable(p), foreign) :
              Shield(level, s, p, proof)
  BY DEF ShieldStep
<1> DEFINE r == ShieldProof(k, cm, producer_cm, fee)
           plan == prepare_durable_shield_commit(r)
<1>2. PICK proof \in Proofs("shield", d, r, ShieldProvable(r), foreign) : Shield(level, s, r, proof)
  BY <1>1
<1> HIDE DEF s
<1>3. /\ process_input(level)
      /\ validate_transition_proof(proof, "shield")
      /\ prepare_shield(s, r, OutputsOf(proof), DomainOf(proof))
      /\ plan.ok
      /\ balance' = debit_deposit(r.pubkey_hash, debit(r))
      /\ applied_shield' = mark_applied_shield(r.client_cm)
      /\ tree' = plan.tree
      /\ root' = snapshot_root(plan.tree)
      /\ auth_domain' = AuthDomain
      /\ note_private_tx_applied(level, r.fee)
      /\ burned' = burned + r.fee
      /\ shields' = Append(shields, r.client_cm)
      /\ UNCHANGED <<verifier, ticketer, nullifier, withdrawal, outbox, deposited, claims, anchors>>
  BY <1>2 DEF Shield
<1>4. /\ ShieldProvable(r) /\ verifier # None
      /\ DomainOf(proof) = d /\ OutputsOf(proof) = r
  <2>1. "shield" \in CircuitKind /\ ShieldProvable(r) \in BOOLEAN
    BY DEF CircuitKind, ShieldProvable
  <2> HIDE DEF r
  <2> QED BY <1>3, <2>1, AcceptedProof
<1>5. /\ r.fee = fee /\ r.client_cm = cm /\ r.producer_cm = producer_cm /\ r.enc = Sealed
      /\ \E x \in PoolKey, y \in Commitment, z \in Commitment, f \in TxFee : r = ShieldProof(x, y, z, f)
  BY DEF ShieldProof
<1> HIDE DEF r
<1>6. prepare_shield(s, r, r, d)
  BY <1>3, <1>4
<1>7. /\ r.fee >= s.required_tx_fee /\ d = s.auth_domain /\ s.size + 2 <= Capacity
  BY <1>6 DEF prepare_shield, bound, ensure_note_capacity
<1>8. r.fee \in Nat /\ r.fee >= read_required_tx_fee(level) /\ d = AuthDomain /\ tree.size + 2 <= Capacity
  <2>1. fee \in Nat
    BY CircuitsAssumption
  <2>2. /\ s.required_tx_fee = read_required_tx_fee(level)
        /\ s.auth_domain = AuthDomain /\ s.size = tree.size
    BY StateFacts DEF s
  <2> QED BY <1>5, <1>7, <2>1, <2>2
<1>9. PICK u : /\ append_notes(tree, shield_outputs(r), Sealed) = [ok |-> TRUE, tree |-> u]
               /\ TreeOK(u)
               /\ Follows(tree, u, shield_outputs(r), Sealed)
  <2>1. shield_outputs(r) \in Seq(Commitment) /\ Len(shield_outputs(r)) = 2
    BY <1>5 DEF shield_outputs
  <2> QED BY <1>8, <2>1, AppendAll
<1>10. plan.tree = u
  BY <1>5, <1>9 DEF prepare_durable_shield_commit, durable_plan
<1> HIDE DEF plan
<1>11. Applied(level, r, u)
  BY <1>3, <1>4, <1>8, <1>9, <1>10 DEF Applied
<1>12. Shielded(level, r, u)
  BY <1>3, <1>4, <1>5, <1>6, <1>8, <1>9, <1>11 DEF Shielded, s
<1> QED BY <1>12

\* A transfer that is applied is one of the circuit's proof; its three notes
\* are appended, none fails, and its inputs are spent.
LEMMA TransferEffect ==
  ASSUME TreeOK(tree), NEW level, TransferStep(level, DurableLedgerState(level))
  PROVE  \E r, u : Transferred(level, r, u)
<1> DEFINE s == DurableLedgerState(level)
<1>1. PICK foreign \in BOOLEAN : \E o \in Opened(foreign), cm_1, cm_2 \in Commitment,
           cm_3 \in Paying(foreign) :
        LET p == TransferProof(o, <<cm_1, cm_2, cm_3>>)
            provable == TransferProvable(p, o.sum_in)
        IN  /\ foreign \/ provable
            /\ \E d \in MadeFor(foreign) :
                 \E proof \in Proofs("transfer", d, p, provable, foreign) :
                   Transfer(level, s, p, proof)
  BY DEF TransferStep
<1>2. PICK o \in Opened(foreign), cm_1 \in Commitment, cm_2 \in Commitment,
           cm_3 \in Paying(foreign) :
        LET p == TransferProof(o, <<cm_1, cm_2, cm_3>>)
            provable == TransferProvable(p, o.sum_in)
        IN  /\ foreign \/ provable
            /\ \E d \in MadeFor(foreign) :
                 \E proof \in Proofs("transfer", d, p, provable, foreign) :
                   Transfer(level, s, p, proof)
  BY <1>1
<1> DEFINE r == TransferProof(o, <<cm_1, cm_2, cm_3>>)
           provable == TransferProvable(r, o.sum_in)
           after == append_notes(tree, transfer_outputs(r), r.enc)
<1>3. PICK d \in MadeFor(foreign) :
        \E proof \in Proofs("transfer", d, r, provable, foreign) : Transfer(level, s, r, proof)
  BY <1>2
<1>4. PICK proof \in Proofs("transfer", d, r, provable, foreign) : Transfer(level, s, r, proof)
  BY <1>3
<1> HIDE DEF s
<1>5. /\ process_input(level)
      /\ validate_transition_proof(proof, "transfer")
      /\ prepare_transfer(s, r, OutputsOf(proof), DomainOf(proof))
      /\ tree' = after.tree
      /\ auth_domain' = AuthDomain
      /\ after.ok => /\ nullifier' = insert_nullifiers(nullifier, r.nullifiers)
                     /\ root' = snapshot_root(after.tree)
                     /\ note_private_tx_applied(level, r.fee)
                     /\ burned' = burned + r.fee
      /\ UNCHANGED <<verifier, ticketer, withdrawal, balance, applied_shield, outbox,
                     deposited, shields, claims, anchors>>
  BY <1>4 DEF Transfer
<1>6. /\ ~foreign /\ provable /\ verifier # None
      /\ DomainOf(proof) = d /\ OutputsOf(proof) = r
  <2>1. "transfer" \in CircuitKind /\ provable \in BOOLEAN
    BY DEF CircuitKind, TransferProvable
  <2> HIDE DEF r, provable
  <2> QED BY <1>5, <2>1, AcceptedProof
<1>7. o \in Openings(Notes) /\ cm_3 \in Commitment
  BY <1>6 DEF Opened, Paying
<1>8. /\ r.cm_1 = cm_1 /\ r.cm_2 = cm_2 /\ r.cm_3 = cm_3 /\ r.enc = Sealed
  BY DEF TransferProof
<1>9. \E x \in Openings(Notes), c_1, c_2, c_3 \in Commitment :
        r = TransferProof(x, <<c_1, c_2, c_3>>) /\ TransferProvable(r, x.sum_in)
  BY <1>6, <1>7
<1>10. r.fee \in Nat
  BY <1>6, CircuitsAssumption DEF TransferProvable, Amount
<1> HIDE DEF r, provable
<1>11. prepare_transfer(s, r, r, d)
  BY <1>5, <1>6
<1>12. /\ r.fee >= s.required_tx_fee /\ d = s.auth_domain /\ s.size + 3 <= Capacity
  BY <1>11 DEF prepare_transfer, bound, ensure_note_capacity
<1>13. r.fee >= read_required_tx_fee(level) /\ d = AuthDomain /\ tree.size + 3 <= Capacity
  <2>2. /\ s.required_tx_fee = read_required_tx_fee(level)
        /\ s.auth_domain = AuthDomain /\ s.size = tree.size
    BY StateFacts DEF s
  <2> QED BY <1>12, <2>2
<1>14. PICK u : /\ append_notes(tree, transfer_outputs(r), Sealed) = [ok |-> TRUE, tree |-> u]
                /\ TreeOK(u)
                /\ Follows(tree, u, transfer_outputs(r), Sealed)
  <2>1. transfer_outputs(r) \in Seq(Commitment) /\ Len(transfer_outputs(r)) = 3
    BY <1>7, <1>8 DEF transfer_outputs
  <2> QED BY <1>13, <2>1, AppendAll
<1>15. after.ok /\ after.tree = u
  BY <1>8, <1>14
<1> HIDE DEF after
<1>16. Applied(level, r, u)
  BY <1>5, <1>6, <1>10, <1>13, <1>14, <1>15 DEF Applied
<1>17. Transferred(level, r, u)
  BY <1>5, <1>9, <1>11, <1>13, <1>14, <1>15, <1>16 DEF Transferred, s
<1> QED BY <1>17

\* An unshield that is applied is one of the circuit's proof; the outbox and
\* the withdrawals get the same record, and the owner's claim is recorded.
LEMMA UnshieldEffect ==
  ASSUME TreeOK(tree), NEW level, UnshieldStep(level, DurableLedgerState(level))
  PROVE  \E r, u : Unshielded(level, r, u)
<1> DEFINE s == DurableLedgerState(level)
<1>1. PICK foreign \in BOOLEAN : \E o \in Opened(foreign), fee \in TxFee,
           recipient \in Recipient, cm_change \in Commitment \cup {ZERO}, cm_fee \in Paying(foreign) :
        LET p == UnshieldProof(o, fee, recipient, cm_change, cm_fee)
            provable == UnshieldProvable(p, o.sum_in)
        IN  /\ foreign \/ provable
            /\ \E d \in MadeFor(foreign) :
                 \E proof \in Proofs("unshield", d, p, provable, foreign) :
                   Unshield(level, s, p, proof)
  BY DEF UnshieldStep
<1>2. PICK o \in Opened(foreign), fee \in TxFee, recipient \in Recipient,
           cm_change \in Commitment \cup {ZERO}, cm_fee \in Paying(foreign) :
        LET p == UnshieldProof(o, fee, recipient, cm_change, cm_fee)
            provable == UnshieldProvable(p, o.sum_in)
        IN  /\ foreign \/ provable
            /\ \E d \in MadeFor(foreign) :
                 \E proof \in Proofs("unshield", d, p, provable, foreign) :
                   Unshield(level, s, p, proof)
  BY <1>1
<1> DEFINE r == UnshieldProof(o, fee, recipient, cm_change, cm_fee)
           provable == UnshieldProvable(r, o.sum_in)
           plan == prepare_durable_unshield_commit(r)
<1>3. PICK d \in MadeFor(foreign) :
        \E proof \in Proofs("unshield", d, r, provable, foreign) : Unshield(level, s, r, proof)
  BY <1>2
<1>4. PICK proof \in Proofs("unshield", d, r, provable, foreign) : Unshield(level, s, r, proof)
  BY <1>3
<1> HIDE DEF s
<1>5. /\ process_input(level)
      /\ validate_transition_proof(proof, "unshield")
      /\ prepare_unshield(s, r, OutputsOf(proof), DomainOf(proof))
      /\ prepare_unshield_outbox(r).ok
      /\ outbox' = Append(outbox, prepare_unshield_outbox(r).message)
      /\ tree' = plan.tree
      /\ nullifier' = commit_nullifiers(nullifier, r.nullifiers)
      /\ withdrawal' = enqueue_withdrawal(WithdrawalRecord(r))
      /\ root' = snapshot_root(plan.tree)
      /\ auth_domain' = AuthDomain
      /\ note_private_tx_applied(level, r.fee)
      /\ burned' = burned + r.fee
      /\ DomainOf(proof) = AuthDomain =>
           claims' = Append(claims, Claim(OutputsOf(proof)))
      /\ UNCHANGED <<verifier, ticketer, balance, applied_shield, deposited, shields, anchors>>
  BY <1>4 DEF Unshield, write_output
<1>6. /\ ~foreign /\ provable /\ verifier # None
      /\ DomainOf(proof) = d /\ OutputsOf(proof) = r
  <2>1. "unshield" \in CircuitKind /\ provable \in BOOLEAN
    BY DEF CircuitKind, UnshieldProvable
  <2> HIDE DEF r, provable
  <2> QED BY <1>5, <2>1, AcceptedProof
<1>7. o \in Openings(Notes) /\ cm_fee \in Commitment
  BY <1>6 DEF Opened, Paying
<1>8. /\ r.cm_change = cm_change /\ r.cm_fee = cm_fee /\ r.enc = Sealed /\ r.fee = fee
  BY DEF UnshieldProof
<1>9. \E x \in Openings(Notes), f \in TxFee, to \in Recipient,
         c_1 \in Commitment \cup {ZERO}, c_2 \in Commitment :
        r = UnshieldProof(x, f, to, c_1, c_2) /\ UnshieldProvable(r, x.sum_in)
  BY <1>6, <1>7
<1>10. r.fee \in Nat
  BY <1>8, CircuitsAssumption
<1> HIDE DEF r, provable
<1>11. prepare_unshield(s, r, r, d)
  BY <1>5, <1>6
<1>12. /\ r.fee >= s.required_tx_fee /\ d = s.auth_domain
       /\ s.size + Len(unshield_outputs(r)) <= Capacity
  BY <1>11 DEF prepare_unshield, bound, ensure_note_capacity
<1>13. /\ r.fee >= read_required_tx_fee(level) /\ d = AuthDomain
       /\ tree.size + Len(unshield_outputs(r)) <= Capacity
  <2>2. /\ s.required_tx_fee = read_required_tx_fee(level)
        /\ s.auth_domain = AuthDomain /\ s.size = tree.size
    BY StateFacts DEF s
  <2> QED BY <1>12, <2>2
<1>14. PICK u : /\ append_notes(tree, unshield_outputs(r), Sealed) = [ok |-> TRUE, tree |-> u]
                /\ TreeOK(u)
                /\ Follows(tree, u, unshield_outputs(r), Sealed)
  <2>1. unshield_outputs(r) \in Seq(Commitment)
    BY <1>7, <1>8 DEF unshield_outputs
  <2> QED BY <1>13, <2>1, AppendAll
<1>15. plan.tree = u
  BY <1>8, <1>14 DEF prepare_durable_unshield_commit, durable_plan
<1> HIDE DEF plan
<1>16. Applied(level, r, u)
  BY <1>5, <1>6, <1>10, <1>13, <1>14, <1>15 DEF Applied
<1>17. /\ ticketer # None
       /\ outbox' = Append(outbox, encode_withdrawal_outbox_message(ticketer, WithdrawalRecord(r)))
  BY <1>5 DEF prepare_unshield_outbox
<1>18. Unshielded(level, r, u)
  BY <1>5, <1>6, <1>9, <1>11, <1>13, <1>14, <1>15, <1>16, <1>17 DEF Unshielded, s
<1> QED BY <1>18

-----------------------------------------------------------------------------
(***************************************************************************)
(* The inductive invariant, part by part.                                  *)
(***************************************************************************)
\* The commitments of the first n notes of t.
Prefix(t, n) == [i \in 1..n |-> t.note[i - 1].cm]

\* The log has t's root, and nothing but roots t had: no more of them than t
\* has had sizes.
RootsOf(log, t) ==
  /\ LogOK(log)
  /\ log.count > 0
  /\ t.root \in log.marker
  /\ log.count <= t.size + 1
  /\ \A h \in log.marker : \E n \in 0..t.size : h = ReferenceRoot(Prefix(t, n))

\* The tree,
TreeInv == TreeOK(tree)

\* the accepted roots, before and after the empty one is written,
RootInv == LogOK(root) /\ RootsOf(ValidRoots, tree)

\* and the spent nullifiers.
NullifierInv == LogOK(nullifier)

\* The withdrawals, each with the outbox message that left before it.
OutboxInv ==
  /\ outbox \in Seq([ticketer : Contract, record : [recipient : Recipient, amount : Amount]])
  /\ withdrawal.count = Len(outbox)
  /\ DOMAIN withdrawal.at = 0..(withdrawal.count - 1)
  /\ \A i \in 1..Len(outbox) : withdrawal.at[i - 1] = outbox[i].record

\* Nothing is credited before both configurations are there, and neither
\* changes once it is.
ConfigInv ==
  /\ auth_domain \in Domain \cup {None}
  /\ verifier \in SignedDomain \cup {None}
  /\ ticketer \in KT1 \cup {None}
  /\ verifier # None => auth_domain = verifier
  /\ anchors # {} => verifier # None /\ ticketer # None
  /\ \A a \in anchors : a.domain = AuthDomain /\ a.ticketer = ticketer
  /\ \A i \in 1..Len(outbox) : outbox[i].ticketer = ticketer /\ ticketer # None

\* The count the store holds is of the current level, or stale.
FeeInv ==
  /\ input_level \in Nat
  /\ fee_level \in 0..input_level
  /\ tx_count \in Nat
  /\ level_fees \in Seq(Nat)
  /\ fee_level = input_level => tx_count = Len(level_fees)
  /\ fee_level # input_level => level_fees = <<>>
  /\ \A n \in 1..Len(level_fees) :
       level_fees[n] >= required_tx_fee_for_private_tx_count(n - 1)

\* Balances, Missing and Drained included, are numbers.
BalanceInv == balance \in [PoolKey -> Int]

\* All of it.
KernelInv ==
  /\ TreeInv
  /\ RootInv
  /\ NullifierInv
  /\ OutboxInv
  /\ ConfigInv
  /\ FeeInv
  /\ BalanceInv

\* The prefix of all the leaves is the leaves.
LEMMA LeavesPrefix == \A t : LeavesOf(t) = Prefix(t, t.size)
BY DEF LeavesOf, Prefix

\* The empty store satisfies it.
LEMMA InitKernel == Init => KernelInv
<1> SUFFICES ASSUME Init PROVE KernelInv
  OBVIOUS
<1>1. /\ tree.size = 0 /\ tree.root = zero_hashes[Depth]
      /\ tree.branches = << >> /\ tree.note = << >>
  BY DEF Init
<1>2. /\ Depth \in Nat /\ Capacity \in Nat /\ ZERO \notin Commitment
  BY KernelAssumption, CircuitsAssumption, CapacityAssumption
<1>3. Leaves(tree.size) = <<>> /\ LeavesOf(tree) = <<>> /\ Prefix(tree, 0) = <<>>
  BY <1>1 DEF Leaves, LeavesOf, Prefix
<1>4. CT!Frontier(<<>>, tree.branches) /\ tree.root = ReferenceRoot(<<>>)
  <2>1. CT!Init
    BY <1>1, <1>3, SameZeros DEF CT!Init
  <2>2. CT!IndInv
    BY <1>2, <2>1, CT!InitInd
  <2> QED BY <1>3, <2>2, SameReference DEF CT!IndInv
<1>5. TreeInv
  <2>1. tree.note \in [0..(tree.size - 1) -> Note]
    BY <1>1
  <2> QED BY <1>1, <1>2, <1>3, <1>4, <2>1 DEF TreeInv, TreeOK
<1>6. LogOK([marker |-> {}, at |-> << >>, count |-> 0])
  <2>1. DOMAIN << >> = 0..(0 - 1)
    OBVIOUS
  <2>2. IsFiniteSet({}) /\ Cardinality({}) = 0
    BY FS_EmptySet
  <2>3. {} = {<< >>[i] : i \in DOMAIN << >>}
    OBVIOUS
  <2> QED BY <2>1, <2>2, <2>3 DEF LogOK
<1>7. RootInv
  <2>1. LogOK(root) /\ root.count = 0 /\ root.marker = {}
    BY <1>6 DEF Init
  <2>2. ValidRoots = LogInsert(root, tree.root)
    BY <2>1 DEF ValidRoots
  <2>3. /\ LogOK(ValidRoots) /\ ValidRoots.marker = {tree.root} /\ ValidRoots.count = 1
    BY <2>1, <2>2, InsertOne
  <2>4. \A h \in ValidRoots.marker : \E n \in 0..tree.size : h = ReferenceRoot(Prefix(tree, n))
    BY <1>1, <1>3, <1>4, <2>3
  <2>5. ValidRoots.count > 0 /\ tree.root \in ValidRoots.marker /\ ValidRoots.count <= tree.size + 1
    BY <1>1, <2>3
  <2> QED BY <2>1, <2>3, <2>4, <2>5 DEF RootInv, RootsOf
<1>8. NullifierInv
  BY <1>6 DEF Init, NullifierInv
<1>9. OutboxInv
  BY DEF Init, OutboxInv
<1>10. ConfigInv
  BY DEF Init, ConfigInv
<1>11. FeeInv
  BY DEF Init, FeeInv
<1>12. BalanceInv
  BY DEF Init, BalanceInv, Missing
<1> QED BY <1>5, <1>7, <1>8, <1>9, <1>10, <1>11, <1>12 DEF KernelInv

-----------------------------------------------------------------------------
\* A message that appends nothing: the first one writes the empty tree's root.
LEMMA QuietRoots ==
  ASSUME RootInv, tree' = tree, root' \in {root, ValidRoots}
  PROVE  RootInv' /\ ValidRoots' = ValidRoots
<1>1. CASE root' = ValidRoots
  <2>1. root'.count > 0 /\ LogOK(root')
    BY <1>1 DEF RootInv, RootsOf
  <2>2. ~(root'.count = 0)
    BY <2>1
  <2>3. ValidRoots' = root'
    BY <2>2 DEF ValidRoots
  <2> QED BY <1>1, <2>1, <2>3 DEF RootInv
<1>2. CASE root' = root
  <2>1. ValidRoots' = ValidRoots
    BY <1>2 DEF ValidRoots
  <2> QED BY <1>2, <2>1 DEF RootInv
<1> QED BY <1>1, <1>2

\* Trees that agree on their first notes agree on those prefixes.
LEMMA PrefixKept ==
  ASSUME NEW t, NEW u, NEW cms, NEW enc, t.size \in Nat, Follows(t, u, cms, enc)
  PROVE  \A n \in 0..t.size : Prefix(u, n) = Prefix(t, n)
<1> SUFFICES ASSUME NEW n \in 0..t.size PROVE Prefix(u, n) = Prefix(t, n)
  OBVIOUS
<1>1. ASSUME NEW i \in 1..n PROVE u.note[i - 1].cm = t.note[i - 1].cm
  <2>1. i - 1 \in 0..(t.size - 1)
    OBVIOUS
  <2> QED BY <2>1 DEF Follows
<1> QED BY <1>1 DEF Prefix

\* A transaction that appends notes adds the root of its last one.
LEMMA AppliedRoots ==
  ASSUME TreeInv, RootInv, NEW u, TreeOK(u), NEW cms, NEW enc, Len(cms) \in Nat \ {0},
         Follows(tree, u, cms, enc), tree' = u, root' = snapshot_root(u)
  PROVE  /\ RootInv'
         /\ ValidRoots' = snapshot_root(u)
<1> DEFINE log == ValidRoots
           after == LogInsertNew(log, u.root)
<1>1. root' = after
  BY DEF snapshot_root
<1>2. /\ LogOK(log) /\ log.count > 0 /\ log.count <= tree.size + 1
      /\ \A h \in log.marker : \E n \in 0..tree.size : h = ReferenceRoot(Prefix(tree, n))
  BY DEF RootInv, RootsOf
<1>3. tree.size \in Nat /\ u.size \in Nat /\ u.size = tree.size + Len(cms) /\ log.count \in Nat
  BY <1>2, CapacityAssumption DEF TreeInv, TreeOK, Follows, LogOK
<1> HIDE DEF log
<1>4. /\ LogOK(after) /\ after.marker = log.marker \cup {u.root}
      /\ after.count \in {log.count, log.count + 1}
  <2>1. CASE u.root \in log.marker
    BY <1>2, <2>1 DEF LogInsertNew
  <2>2. CASE u.root \notin log.marker
    BY <1>2, <2>2, InsertOne
  <2> QED BY <2>1, <2>2
<1> HIDE DEF after
<1>5. after.count > 0 /\ after.count <= u.size + 1 /\ ~(after.count = 0)
  BY <1>2, <1>3, <1>4
<1>6. ASSUME NEW h \in after.marker
      PROVE  \E n \in 0..u.size : h = ReferenceRoot(Prefix(u, n))
  <2>1. CASE h \in log.marker
    <3>1. PICK n \in 0..tree.size : h = ReferenceRoot(Prefix(tree, n))
      BY <1>2, <2>1
    <3>2. Prefix(u, n) = Prefix(tree, n) /\ n \in 0..u.size
      BY <1>3, PrefixKept
    <3> QED BY <3>1, <3>2
  <2>2. CASE h = u.root
    <3>1. u.root = ReferenceRoot(Prefix(u, u.size))
      BY LeavesPrefix DEF TreeOK
    <3> QED BY <1>3, <2>2, <3>1
  <2> QED BY <1>4, <1>6, <2>1, <2>2
<1>7. RootsOf(after, u)
  BY <1>4, <1>5, <1>6 DEF RootsOf
<1>8. ValidRoots' = after
  BY <1>1, <1>5 DEF ValidRoots
<1> QED BY <1>1, <1>4, <1>7, <1>8 DEF RootInv, snapshot_root, after, log

-----------------------------------------------------------------------------
\* A message that is no private transaction pays nothing and counts nothing.
LEMMA QuietFees ==
  ASSUME FeeInv, NEW level, process_input(level), no_private_tx(level)
  PROVE  FeeInv'
<1>1. level \in Nat /\ level >= input_level /\ input_level' = level
  BY KernelAssumption DEF process_input
<1>2. fee_level' = fee_level /\ tx_count' = tx_count
  BY DEF no_private_tx
<1>3. CASE level = input_level
  BY <1>1, <1>2, <1>3 DEF FeeInv, no_private_tx, FeesIn
<1>4. CASE level # input_level
  <2>1. level_fees' = <<>>
    BY <1>4 DEF no_private_tx, FeesIn
  <2>2. fee_level' \in 0..input_level' /\ fee_level' # input_level'
    BY <1>1, <1>2, <1>4 DEF FeeInv
  <2>3. level_fees' \in Seq(Nat) /\ Len(level_fees') = 0
    BY <2>1
  <2> QED BY <1>1, <1>2, <2>1, <2>2, <2>3 DEF FeeInv
<1> QED BY <1>3, <1>4

\* The count the kernel reads is the number of fees paid in the level so far.
LEMMA FeesCounted ==
  ASSUME FeeInv, NEW level \in Nat, level >= input_level
  PROVE  /\ FeesIn(level) \in Seq(Nat)
         /\ current_private_tx_count_in_level(level) = Len(FeesIn(level))
         /\ Len(FeesIn(level)) \in Nat
         /\ \A n \in 1..Len(FeesIn(level)) :
              FeesIn(level)[n] >= required_tx_fee_for_private_tx_count(n - 1)
<1>1. /\ input_level \in Nat /\ fee_level \in 0..input_level /\ tx_count \in Nat
      /\ level_fees \in Seq(Nat)
      /\ fee_level = input_level => tx_count = Len(level_fees)
      /\ fee_level # input_level => level_fees = <<>>
      /\ \A n \in 1..Len(level_fees) :
           level_fees[n] >= required_tx_fee_for_private_tx_count(n - 1)
  BY DEF FeeInv
<1>2. CASE level = input_level
  BY <1>1, <1>2 DEF FeesIn, current_private_tx_count_in_level
<1>3. CASE level # input_level
  <2>1. fee_level # level
    BY <1>1, <1>3
  <2> QED BY <1>3, <2>1 DEF FeesIn, current_private_tx_count_in_level
<1> QED BY <1>2, <1>3

\* A private transaction pays what the kernel asks, and is counted.
LEMMA AppliedFees ==
  ASSUME FeeInv, NEW level, NEW fee \in Nat, process_input(level),
         fee >= read_required_tx_fee(level), note_private_tx_applied(level, fee)
  PROVE  FeeInv'
<1> DEFINE paid == FeesIn(level)
           asked == required_tx_fee_for_private_tx_count(Len(paid))
<1>1. level \in Nat /\ level >= input_level /\ input_level' = level
  BY KernelAssumption DEF process_input
<1>2. /\ paid \in Seq(Nat) /\ Len(paid) \in Nat
      /\ current_private_tx_count_in_level(level) = Len(paid)
      /\ \A n \in 1..Len(paid) : paid[n] >= required_tx_fee_for_private_tx_count(n - 1)
  BY <1>1, FeesCounted
<1>3. fee_level' = level /\ tx_count' = Len(paid) + 1 /\ level_fees' = Append(paid, fee)
  BY <1>2 DEF note_private_tx_applied
<1>4. fee >= asked
  BY <1>2 DEF read_required_tx_fee
<1> HIDE DEF paid, asked
<1>5. /\ level_fees' \in Seq(Nat) /\ Len(level_fees') = Len(paid) + 1
      /\ \A n \in 1..Len(paid) : level_fees'[n] = paid[n]
      /\ level_fees'[Len(paid) + 1] = fee
  BY <1>2, <1>3, AppendProperties
<1>6. ASSUME NEW n \in 1..Len(level_fees')
      PROVE  level_fees'[n] >= required_tx_fee_for_private_tx_count(n - 1)
  <2>1. CASE n = Len(paid) + 1
    <3>1. n - 1 = Len(paid)
      BY <1>2, <2>1
    <3> QED BY <1>4, <1>5, <2>1, <3>1 DEF asked
  <2>2. CASE n # Len(paid) + 1
    <3>1. n \in 1..Len(paid)
      BY <1>2, <1>5, <2>2
    <3> QED BY <1>2, <1>5, <3>1
  <2> QED BY <2>1, <2>2
<1>7. /\ fee_level' \in 0..input_level' /\ fee_level' = input_level'
      /\ tx_count' \in Nat /\ tx_count' = Len(level_fees')
  BY <1>1, <1>2, <1>3, <1>5
<1> QED BY <1>1, <1>5, <1>6, <1>7 DEF FeeInv

-----------------------------------------------------------------------------
\* The auth domain a message is applied under is a domain.
LEMMA DomainInForce ==
  ASSUME ConfigInv
  PROVE  /\ AuthDomain \in Domain /\ AuthDomain # None
         /\ verifier # None => AuthDomain = auth_domain /\ AuthDomain = verifier
         /\ auth_domain' \in {auth_domain, AuthDomain} => AuthDomain' = AuthDomain
BY KernelAssumption DEF ConfigInv, AuthDomain

\* Writing the default domain down changes nothing.
LEMMA QuietConfig ==
  ASSUME ConfigInv, auth_domain' \in {auth_domain, AuthDomain},
         UNCHANGED <<verifier, ticketer, anchors, outbox>>
  PROVE  ConfigInv'
<1>1. /\ AuthDomain \in Domain /\ AuthDomain' = AuthDomain
      /\ verifier # None => AuthDomain = auth_domain
  BY DomainInForce
<1>2. auth_domain' \in Domain \cup {None} /\ (verifier # None => auth_domain' = auth_domain)
  BY <1>1 DEF ConfigInv
<1> QED BY <1>1, <1>2 DEF ConfigInv

\* A configuration the kernel takes is one the admin signed: a signature of
\* one kind of configuration does not pass for the other.
LEMMA SignedConfig ==
  ASSUME NEW signature \in AdminSignature
  PROVE  /\ \A domain : authenticate_verifier_config(domain, signature) => domain \in SignedDomain
         /\ \A contract : authenticate_bridge_config(contract, signature) => contract \in SignedBridge
BY DEF AdminSignature, authenticate_verifier_config, authenticate_bridge_config,
  sign_kernel_verifier_config, sign_kernel_bridge_config, kernel_verifier_config_sighash,
  kernel_bridge_config_sighash, KERNEL_VERIFIER_CONFIG_KEY_INDEX, KERNEL_BRIDGE_CONFIG_KEY_INDEX

\* The parts of the store a message without outputs leaves alone.
LEMMA QuietStore ==
  ASSUME KernelInv, NEW level, process_input(level), no_private_tx(level),
         root' \in {root, ValidRoots}, UNCHANGED <<tree, nullifier, withdrawal, outbox>>
  PROVE  TreeInv' /\ RootInv' /\ NullifierInv' /\ OutboxInv' /\ FeeInv'
<1>1. TreeInv' /\ NullifierInv' /\ OutboxInv'
  BY DEF KernelInv, TreeInv, NullifierInv, OutboxInv
<1>2. RootInv'
  BY QuietRoots DEF KernelInv
<1>3. FeeInv'
  BY QuietFees DEF KernelInv
<1> QED BY <1>1, <1>2, <1>3

\* A message for someone else, or refused.
LEMMA IgnoredOrRefused ==
  ASSUME KernelInv, NEW level, InputIgnored(level) \/ InputRefused(level)
  PROVE  KernelInv'
<1>1. /\ process_input(level) /\ no_private_tx(level)
      /\ root' \in {root, ValidRoots} /\ auth_domain' \in {auth_domain, AuthDomain}
      /\ UNCHANGED <<tree, nullifier, withdrawal, outbox, verifier, ticketer, anchors, balance>>
  BY DEF InputIgnored, InputRefused, ensure_initialized, store
<1>2. TreeInv' /\ RootInv' /\ NullifierInv' /\ OutboxInv' /\ FeeInv'
  BY <1>1, QuietStore
<1>3. ConfigInv'
  BY <1>1, QuietConfig DEF KernelInv
<1>4. BalanceInv'
  BY <1>1 DEF KernelInv, BalanceInv
<1> QED BY <1>2, <1>3, <1>4 DEF KernelInv

\* The verifier's configuration: nothing has been deposited in another domain.
LEMMA VerifierConfigured ==
  ASSUME KernelInv, NEW level, NEW domain \in Domain, NEW signature \in AdminSignature,
         configure_verifier(level, domain, signature)
  PROVE  KernelInv'
<1>1. /\ process_input(level) /\ no_private_tx(level) /\ root' = ValidRoots
      /\ verifier = None /\ auth_domain' = domain /\ verifier' = domain
      /\ authenticate_verifier_config(domain, signature)
      /\ UNCHANGED <<tree, nullifier, withdrawal, outbox, ticketer, anchors, balance>>
  BY DEF configure_verifier
<1>2. TreeInv' /\ RootInv' /\ NullifierInv' /\ OutboxInv' /\ FeeInv'
  BY <1>1, QuietStore
<1>3. ConfigInv'
  <2>1. domain \in SignedDomain
    BY <1>1, SignedConfig
  <2>2. anchors = {}
    BY <1>1 DEF KernelInv, ConfigInv
  <2> QED BY <1>1, <2>1, <2>2 DEF KernelInv, ConfigInv
<1>4. BalanceInv'
  BY <1>1 DEF KernelInv, BalanceInv
<1> QED BY <1>2, <1>3, <1>4 DEF KernelInv

\* The bridge's: nothing has been deposited or withdrawn through another one.
LEMMA BridgeConfigured ==
  ASSUME KernelInv, NEW level, NEW contract \in Contract, NEW signature \in AdminSignature,
         configure_bridge(level, contract, signature)
  PROVE  KernelInv'
<1>1. /\ process_input(level) /\ no_private_tx(level) /\ root' = ValidRoots
      /\ auth_domain' = AuthDomain /\ contract \in KT1 /\ ticketer = None /\ ticketer' = contract
      /\ UNCHANGED <<tree, nullifier, withdrawal, outbox, verifier, anchors, balance>>
  BY DEF configure_bridge, ensure_initialized
<1>2. TreeInv' /\ RootInv' /\ NullifierInv' /\ OutboxInv' /\ FeeInv'
  BY <1>1, QuietStore
<1>3. ConfigInv'
  <2>1. anchors = {} /\ \A i \in 1..Len(outbox) : FALSE
    BY <1>1 DEF KernelInv, ConfigInv
  <2>2. auth_domain' \in Domain /\ (verifier # None => auth_domain' = verifier)
    BY <1>1, DomainInForce DEF KernelInv
  <2> QED BY <1>1, <2>1, <2>2 DEF KernelInv, ConfigInv
<1>4. BalanceInv'
  BY <1>1 DEF KernelInv, BalanceInv
<1> QED BY <1>2, <1>3, <1>4 DEF KernelInv

\* A pool's balance is a number of coins.
LEMMA BalanceIsNat ==
  ASSUME BalanceInv, NEW k \in PoolKey
  PROVE  deposit_balance(k) \in Nat
BY DEF BalanceInv, deposit_balance

\* A deposit is anchored in the configurations of the moment.
LEMMA Deposited ==
  ASSUME KernelInv, NEW level, DepositStep(level)
  PROVE  KernelInv'
<1>1. PICK sender \in Contract, k \in PoolKey \cup {None}, amount \in Amount :
        Deposit(level, sender, k, amount)
  BY DEF DepositStep
<1>2. /\ process_input(level) /\ no_private_tx(level) /\ root' = ValidRoots
      /\ auth_domain' = AuthDomain /\ ticketer # None /\ sender = ticketer /\ verifier # None
      /\ k # None
      /\ balance' = [balance EXCEPT ![k] = deposit_balance(k) + amount]
      /\ anchors' = anchors \cup {[domain |-> AuthDomain, ticketer |-> sender]}
      /\ UNCHANGED <<tree, nullifier, withdrawal, outbox, verifier, ticketer>>
  BY <1>1 DEF Deposit, ensure_initialized, validate_bridge_deposit,
     parse_deposit_recipient_pubkey_hash
<1>3. TreeInv' /\ RootInv' /\ NullifierInv' /\ OutboxInv' /\ FeeInv'
  BY <1>2, QuietStore
<1>4. ConfigInv'
  <2>1. /\ AuthDomain' = AuthDomain /\ AuthDomain \in Domain /\ AuthDomain = verifier
    BY <1>2, DomainInForce DEF KernelInv
  <2>2. \A a \in anchors' : a.domain = AuthDomain' /\ a.ticketer = ticketer'
    BY <1>2, <2>1 DEF KernelInv, ConfigInv
  <2> QED BY <1>2, <2>1, <2>2 DEF KernelInv, ConfigInv
<1>5. BalanceInv'
  <2>1. k \in PoolKey /\ amount \in Nat
    BY <1>2, CircuitsAssumption DEF Amount
  <2>2. deposit_balance(k) + amount \in Int
    BY <2>1, BalanceIsNat DEF KernelInv
  <2> QED BY <1>2, <2>1, <2>2 DEF KernelInv, BalanceInv
<1> QED BY <1>3, <1>4, <1>5 DEF KernelInv

\* What every applied transaction keeps.
LEMMA AppliedStore ==
  ASSUME KernelInv, NEW level, NEW r, NEW u, Applied(level, r, u), NEW cms, NEW enc,
         Len(cms) \in Nat \ {0}, Follows(tree, u, cms, enc)
  PROVE  TreeInv' /\ RootInv' /\ FeeInv' /\ ValidRoots' = snapshot_root(u)
<1>1. TreeInv'
  BY DEF Applied, TreeInv
<1>2. RootInv' /\ ValidRoots' = snapshot_root(u)
  BY AppliedRoots DEF Applied, KernelInv
<1>3. FeeInv'
  BY AppliedFees DEF Applied, KernelInv
<1> QED BY <1>1, <1>2, <1>3

\* A shield: the pool pays the value, the fee and the producer's fee.
LEMMA ShieldKeeps ==
  ASSUME KernelInv, NEW level, NEW r, NEW u, Shielded(level, r, u)
  PROVE  KernelInv'
<1>1. /\ Applied(level, r, u) /\ Follows(tree, u, shield_outputs(r), Sealed)
      /\ balance' = debit_deposit(r.pubkey_hash, debit(r))
      /\ UNCHANGED <<nullifier, withdrawal, outbox>>
  BY DEF Shielded
<1>2. Len(shield_outputs(r)) = 2
  BY DEF shield_outputs
<1>3. TreeInv' /\ RootInv' /\ FeeInv'
  BY <1>1, <1>2, AppliedStore
<1>4. NullifierInv' /\ OutboxInv'
  BY <1>1 DEF KernelInv, NullifierInv, OutboxInv
<1>5. ConfigInv'
  BY <1>1, QuietConfig DEF KernelInv, Applied
<1>6. BalanceInv'
  <2>1. PICK k \in PoolKey, cm \in Commitment, producer_cm \in Commitment, fee \in TxFee :
          r = ShieldProof(k, cm, producer_cm, fee)
    BY DEF Shielded
  <2>2. r.pubkey_hash \in PoolKey /\ debit(r) \in Nat
    <3>1. /\ r.pubkey_hash = k /\ r.v = Value[cm] /\ r.fee = fee /\ r.producer_fee = Value[producer_cm]
      BY <2>1 DEF ShieldProof
    <3>2. Value[cm] \in Nat /\ Value[producer_cm] \in Nat /\ fee \in Nat
      BY CircuitsAssumption
    <3> QED BY <3>1, <3>2 DEF debit
  <2>3. \E left \in Int : balance' = [balance EXCEPT ![r.pubkey_hash] = left]
    <3>1. deposit_balance(r.pubkey_hash) - debit(r) \in Int /\ Drained \in Int
      BY <2>2, BalanceIsNat DEF KernelInv, Drained
    <3> QED BY <1>1, <3>1 DEF debit_deposit
  <2> QED BY <2>2, <2>3 DEF KernelInv, BalanceInv
<1> QED BY <1>3, <1>4, <1>5, <1>6 DEF KernelInv

\* The nullifiers of an opening are a list of positions.
LEMMA OpeningLists ==
  ASSUME NEW o \in Openings(Notes), tree.size \in Nat
  PROVE  o.nullifiers \in Seq(Nat)
<1>1. \A ns, h, nfs : Opening(ns, h, nfs).nullifiers = nfs
  BY DEF Opening
<1>2. CASE \E h \in 1..Len(Notes) : \E nfs \in NullifierLists(h) : o = Opening(Notes, h, nfs)
  <2>1. PICK h \in 1..Len(Notes) : \E nfs \in NullifierLists(h) : o = Opening(Notes, h, nfs)
    BY <1>2
  <2>2. PICK nfs \in NullifierLists(h) : o = Opening(Notes, h, nfs)
    BY <2>1
  <2>3. PICK k \in 1..MaxInputs : nfs \in [1..k -> 1..h]
    BY DEF NullifierLists
  <2>4. k \in Nat /\ 1..h \subseteq Nat
    BY CircuitsAssumption
  <2>5. nfs \in [1..k -> Nat]
    BY <2>3, <2>4
  <2>6. nfs \in Seq(Nat)
    BY <2>4, <2>5, FunctionIsSeq
  <2> QED BY <1>1, <2>2, <2>6
<1>3. CASE \E i \in 1..Len(Notes) : o = Opening(Notes, Forged, <<i>>)
  <2>1. PICK i \in 1..Len(Notes) : o = Opening(Notes, Forged, <<i>>)
    BY <1>3
  <2>2. i \in Nat
    OBVIOUS
  <2>3. <<i>> \in Seq(Nat)
    BY <2>2
  <2> QED BY <1>1, <2>1, <2>3
<1> QED BY <1>2, <1>3 DEF Openings

\* The nullifiers a spend passed the checks with are new and different.
LEMMA SpentLog ==
  ASSUME NullifierInv, NEW level, NEW r, r.nullifiers \in Seq(Nat),
         spendable(DurableLedgerState(level), r)
  PROVE  /\ LogOK(commit_nullifiers(nullifier, r.nullifiers))
         /\ commit_nullifiers(nullifier, r.nullifiers).marker
              = nullifier.marker \cup {r.nullifiers[i] : i \in DOMAIN r.nullifiers}
         /\ insert_nullifiers(nullifier, r.nullifiers) = commit_nullifiers(nullifier, r.nullifiers)
<1>1. /\ \A i \in DOMAIN r.nullifiers : r.nullifiers[i] \notin nullifier.marker
      /\ \A i, j \in DOMAIN r.nullifiers : i # j => r.nullifiers[i] # r.nullifiers[j]
  BY StateFacts DEF spendable
<1>2. PICK keys : keys = r.nullifiers
  OBVIOUS
<1> QED BY <1>1, <1>2, InsertAll DEF NullifierInv

\* A transfer.
LEMMA TransferKeeps ==
  ASSUME KernelInv, NEW level, NEW r, NEW u, Transferred(level, r, u)
  PROVE  KernelInv'
<1>1. /\ Applied(level, r, u) /\ Follows(tree, u, transfer_outputs(r), Sealed)
      /\ nullifier' = insert_nullifiers(nullifier, r.nullifiers)
      /\ UNCHANGED <<withdrawal, balance, outbox>>
  BY DEF Transferred
<1>2. Len(transfer_outputs(r)) = 3
  BY DEF transfer_outputs
<1>3. TreeInv' /\ RootInv' /\ FeeInv'
  BY <1>1, <1>2, AppliedStore
<1>4. OutboxInv' /\ BalanceInv'
  BY <1>1 DEF KernelInv, OutboxInv, BalanceInv
<1>5. ConfigInv'
  BY <1>1, QuietConfig DEF KernelInv, Applied
<1>6. NullifierInv'
  <2>1. PICK o \in Openings(Notes), cm_1 \in Commitment, cm_2 \in Commitment, cm_3 \in Commitment :
          r = TransferProof(o, <<cm_1, cm_2, cm_3>>)
    BY DEF Transferred
  <2>2. tree.size \in Nat
    BY CapacityAssumption DEF KernelInv, TreeInv, TreeOK
  <2>3. r.nullifiers \in Seq(Nat)
    BY <2>1, <2>2, OpeningLists DEF TransferProof
  <2>4. spendable(DurableLedgerState(level), r)
    BY DEF Transferred, prepare_transfer
  <2> QED BY <1>1, <2>3, <2>4, SpentLog DEF KernelInv, NullifierInv
<1> QED BY <1>3, <1>4, <1>5, <1>6 DEF KernelInv

\* The record of an unshield: its recipient is valid and its amount a u64.
LEMMA UnshieldRecord ==
  ASSUME NEW level, NEW r, NEW u, Unshielded(level, r, u)
  PROVE  /\ WithdrawalRecord(r) \in [recipient : Recipient, amount : Amount]
         /\ \E o \in Openings(Notes) : r.nullifiers = o.nullifiers
         /\ Len(unshield_outputs(r)) \in {1, 2}
<1>1. PICK o \in Openings(Notes), fee \in TxFee, recipient \in Recipient,
           cm_change \in Commitment \cup {ZERO}, cm_fee \in Commitment :
        r = UnshieldProof(o, fee, recipient, cm_change, cm_fee) /\ UnshieldProvable(r, o.sum_in)
  BY DEF Unshielded
<1>2. r.recipient = recipient /\ r.nullifiers = o.nullifiers
  BY <1>1 DEF UnshieldProof
<1>3. r.v_pub \in Amount
  BY <1>1 DEF UnshieldProvable
<1>4. Len(unshield_outputs(r)) \in {1, 2}
  BY DEF unshield_outputs
<1> QED BY <1>2, <1>3, <1>4 DEF WithdrawalRecord

\* An unshield: the message that left is the withdrawal that is recorded.
LEMMA UnshieldKeeps ==
  ASSUME KernelInv, NEW level, NEW r, NEW u, Unshielded(level, r, u)
  PROVE  KernelInv'
<1> DEFINE record == WithdrawalRecord(r)
           message == encode_withdrawal_outbox_message(ticketer, record)
           n == Len(outbox)
<1>1. /\ Applied(level, r, u) /\ Follows(tree, u, unshield_outputs(r), Sealed)
      /\ nullifier' = commit_nullifiers(nullifier, r.nullifiers)
      /\ ticketer # None
      /\ outbox' = Append(outbox, message)
      /\ withdrawal' = enqueue_withdrawal(record)
      /\ UNCHANGED balance
  BY DEF Unshielded
<1>2. /\ record \in [recipient : Recipient, amount : Amount]
      /\ Len(unshield_outputs(r)) \in Nat \ {0}
  BY UnshieldRecord
<1>3. TreeInv' /\ RootInv' /\ FeeInv'
  BY <1>1, <1>2, AppliedStore
<1>4. BalanceInv'
  BY <1>1 DEF KernelInv, BalanceInv
<1> HIDE DEF record
<1>5. /\ message \in [ticketer : Contract, record : [recipient : Recipient, amount : Amount]]
      /\ message.ticketer = ticketer /\ message.record = record
  BY <1>1, <1>2, KernelAssumption DEF KernelInv, ConfigInv, encode_withdrawal_outbox_message
<1> HIDE DEF message
<1>6. /\ outbox \in Seq([ticketer : Contract, record : [recipient : Recipient, amount : Amount]])
      /\ n \in Nat /\ withdrawal.count = n
      /\ DOMAIN withdrawal.at = 0..(n - 1)
      /\ \A i \in 1..n : withdrawal.at[i - 1] = outbox[i].record
      /\ \A i \in 1..n : outbox[i].ticketer = ticketer
  BY LenProperties DEF KernelInv, OutboxInv, ConfigInv
<1>7. /\ outbox' \in Seq([ticketer : Contract, record : [recipient : Recipient, amount : Amount]])
      /\ Len(outbox') = n + 1
      /\ \A i \in 1..n : outbox'[i] = outbox[i]
      /\ outbox'[n + 1] = message
  BY <1>1, <1>5, <1>6, AppendProperties
<1>8. /\ withdrawal'.count = n + 1
      /\ DOMAIN withdrawal'.at = 0..n
      /\ withdrawal'.at[n] = record
      /\ \A i \in 0..(n - 1) : withdrawal'.at[i] = withdrawal.at[i]
  <2>1. /\ withdrawal'.count = n + 1
        /\ withdrawal'.at = Write(withdrawal.at, n, record)
    BY <1>1, <1>6 DEF enqueue_withdrawal
  <2>2. withdrawal'.at = [p \in 0..n |-> IF p = n THEN record ELSE withdrawal.at[p]]
    <3>1. DOMAIN withdrawal.at \cup {n} = 0..n
      BY <1>6
    <3> QED BY <2>1, <3>1 DEF Write
  <2> QED BY <1>6, <2>1, <2>2
<1>9. OutboxInv'
  <2>1. ASSUME NEW i \in 1..(n + 1) PROVE withdrawal'.at[i - 1] = outbox'[i].record
    <3>1. CASE i = n + 1
      <4>1. i - 1 = n
        BY <1>6, <3>1
      <4> QED BY <1>5, <1>7, <1>8, <3>1, <4>1
    <3>2. CASE i # n + 1
      <4>1. i \in 1..n /\ i - 1 \in 0..(n - 1)
        BY <1>6, <3>2
      <4> QED BY <1>6, <1>7, <1>8, <4>1
    <3> QED BY <3>1, <3>2
  <2>2. DOMAIN withdrawal'.at = 0..(withdrawal'.count - 1)
    BY <1>6, <1>8
  <2> QED BY <1>7, <1>8, <2>1, <2>2 DEF OutboxInv
<1>10. ConfigInv'
  <2>1. /\ verifier' = verifier /\ ticketer' = ticketer /\ anchors' = anchors
        /\ auth_domain' = AuthDomain
    BY <1>1 DEF Applied
  <2>2. /\ AuthDomain \in Domain /\ AuthDomain' = AuthDomain
        /\ verifier # None => AuthDomain = verifier
    BY <2>1, DomainInForce DEF KernelInv
  <2>3. ASSUME NEW i \in 1..Len(outbox') PROVE outbox'[i].ticketer = ticketer
    <3>1. CASE i = n + 1
      BY <1>5, <1>7, <3>1
    <3>2. CASE i # n + 1
      <4>1. i \in 1..n
        BY <1>6, <1>7, <3>2
      <4> QED BY <1>6, <1>7, <4>1
    <3> QED BY <3>1, <3>2
  <2> QED BY <1>1, <2>1, <2>2, <2>3 DEF KernelInv, ConfigInv
<1>11. NullifierInv'
  <2>1. tree.size \in Nat
    BY CapacityAssumption DEF KernelInv, TreeInv, TreeOK
  <2>2. r.nullifiers \in Seq(Nat)
    BY <2>1, UnshieldRecord, OpeningLists
  <2>3. spendable(DurableLedgerState(level), r)
    BY DEF Unshielded, prepare_unshield
  <2> QED BY <1>1, <2>2, <2>3, SpentLog DEF KernelInv, NullifierInv
<1> QED BY <1>3, <1>4, <1>9, <1>10, <1>11 DEF KernelInv

\* Every message keeps the invariant.
LEMMA StepKernel == KernelInv /\ [Next]_vars => KernelInv'
<1> SUFFICES ASSUME KernelInv, [Next]_vars PROVE KernelInv'
  OBVIOUS
<1>1. CASE UNCHANGED vars
  BY <1>1 DEF vars, KernelInv, TreeInv, RootInv, ValidRoots, NullifierInv, OutboxInv, ConfigInv,
     AuthDomain, FeeInv, BalanceInv
<1>2. CASE Next
  <2>1. PICK level \in {l \in 1..MaxLevel : l >= input_level} :
          \/ InputIgnored(level)
          \/ InputRefused(level)
          \/ \E domain \in Domain, signature \in AdminSignature :
               configure_verifier(level, domain, signature)
          \/ \E contract \in Contract, signature \in AdminSignature :
               configure_bridge(level, contract, signature)
          \/ DepositStep(level)
          \/ \E s \in {DurableLedgerState(level)} :
               ShieldStep(level, s) \/ TransferStep(level, s) \/ UnshieldStep(level, s)
    BY <1>2 DEF Next
  <2>2. CASE InputIgnored(level) \/ InputRefused(level)
    BY <2>2, IgnoredOrRefused
  <2>3. ASSUME NEW domain \in Domain, NEW signature \in AdminSignature,
               configure_verifier(level, domain, signature)
        PROVE  KernelInv'
    BY <2>3, VerifierConfigured
  <2>4. ASSUME NEW contract \in Contract, NEW signature \in AdminSignature,
               configure_bridge(level, contract, signature)
        PROVE  KernelInv'
    BY <2>4, BridgeConfigured
  <2>5. CASE DepositStep(level)
    BY <2>5, Deposited
  <2>6. TreeOK(tree)
    BY DEF KernelInv, TreeInv
  <2>7. CASE ShieldStep(level, DurableLedgerState(level))
    BY <2>6, <2>7, ShieldEffect, ShieldKeeps
  <2>8. CASE TransferStep(level, DurableLedgerState(level))
    BY <2>6, <2>8, TransferEffect, TransferKeeps
  <2>9. CASE UnshieldStep(level, DurableLedgerState(level))
    BY <2>6, <2>9, UnshieldEffect, UnshieldKeeps
  <2> QED BY <2>1, <2>2, <2>3, <2>4, <2>5, <2>7, <2>8, <2>9
<1> QED BY <1>1, <1>2

\* The invariant holds of every run of the kernel.
LEMMA KernelInvariant == Spec => []KernelInv
BY InitKernel, StepKernel, PTL DEF Spec

\* The root the kernel keeps through its frontier is that of the notes anyone
\* reads back, and it is accepted.
THEOREM TreeIsReadable == Spec => []TreeReadable
<1>1. KernelInv => TreeReadable
  <2> SUFFICES ASSUME KernelInv PROVE TreeReadable
    OBVIOUS
  <2>1. TreeOK(tree) /\ tree.root \in ValidRoots.marker
    BY DEF KernelInv, TreeInv, RootInv, RootsOf
  <2>2. LeavesOf(tree) = Leaves(tree.size)
    BY DEF LeavesOf, Leaves
  <2>3. DOMAIN tree.note = 0..(tree.size - 1)
    BY <2>1 DEF TreeOK
  <2> QED BY <2>1, <2>2, <2>3 DEF TreeReadable, TreeOK
<1> QED BY <1>1, KernelInvariant, PTL

\* What the kernel's checks consult is what observers enumerate, each entry
\* once, for the roots and for the nullifiers.
THEOREM LogsMatch == Spec => []MarkersMatchIndexes
<1>1. KernelInv => MarkersMatchIndexes
  BY DEF KernelInv, RootInv, NullifierInv, LogOK, MarkersMatchIndexes
<1> QED BY <1>1, KernelInvariant, PTL

\* L1 is told to pay exactly the recorded withdrawals, in order.
THEOREM OutboxMatches == Spec => []OutboxMatchesQueue
<1>1. KernelInv => OutboxMatchesQueue
  BY DEF KernelInv, OutboxInv, OutboxMatchesQueue, read_ledger
<1> QED BY <1>1, KernelInvariant, PTL

\* No configuration after a deposit changes the domain it was made in, nor the
\* bridge that pays it out.
THEOREM DepositsStayAnchored == Spec => []DepositsAnchored
<1>1. KernelInv => DepositsAnchored
  BY DEF KernelInv, ConfigInv, DepositsAnchored
<1> QED BY <1>1, KernelInvariant, PTL

\* Every private transaction of a level paid its place in the schedule, and
\* the next will be asked for its own.
THEOREM FeesFollowSchedule == Spec => []FeeSchedule
<1>1. KernelInv => FeeSchedule
  <2> SUFFICES ASSUME KernelInv PROVE FeeSchedule
    OBVIOUS
  <2>1. FeeInv /\ input_level \in Nat /\ fee_level \in 0..input_level /\ MaxLevel \in Nat
    BY KernelAssumption DEF KernelInv, FeeInv
  <2>2. ASSUME NEW n \in 1..Len(level_fees) PROVE level_fees[n] >= Schedule(n)
    <3>1. n \in Nat \ {0}
      OBVIOUS
    <3> QED BY <2>1, <3>1, ScheduleFee DEF FeeInv
  <2>3. ASSUME NEW level \in input_level..MaxLevel
        PROVE  read_required_tx_fee(level) = Schedule(Len(FeesIn(level)) + 1)
    <3> DEFINE n == Len(FeesIn(level))
    <3>1. level \in Nat /\ level >= input_level
      BY <2>1
    <3>2. n \in Nat /\ current_private_tx_count_in_level(level) = n
      BY <2>1, <3>1, FeesCounted
    <3> HIDE DEF n
    <3>3. \A m \in Nat \ {0} : Schedule(m) = required_tx_fee_for_private_tx_count(m - 1)
      BY ScheduleFee
    <3>4. ASSUME NEW c \in Nat PROVE Schedule(c + 1) = required_tx_fee_for_private_tx_count(c)
      <4>1. c + 1 \in Nat \ {0} /\ (c + 1) - 1 = c
        OBVIOUS
      <4> QED BY <3>3, <4>1
    <3>5. Schedule(n + 1) = required_tx_fee_for_private_tx_count(n)
      BY <3>2, <3>4
    <3> QED BY <3>2, <3>5 DEF read_required_tx_fee, n
  <2>4. ASSUME NEW head \in input_level..MaxLevel
        PROVE  current_required_tx_fee_at_block(head) = Schedule(1)
    <3>1. input_level # head + 1 /\ 1 \in Nat \ {0} /\ 1 - 1 = 0
      BY <2>1
    <3>2. Schedule(1) = required_tx_fee_for_private_tx_count(1 - 1)
      BY <3>1, ScheduleFee
    <3> QED BY <3>1, <3>2 DEF current_required_tx_fee_at_block
  <2> QED BY <2>2, <2>3, <2>4 DEF FeeSchedule
<1> QED BY <1>1, KernelInvariant, PTL

-----------------------------------------------------------------------------
(***************************************************************************)
(* The kernel implements Ledger.  The operators Ledger and Kernel share    *)
(* are the same in both.                                                   *)
(***************************************************************************)
\* The proofs and what the circuits prove.
LEMMA SameShieldProofs ==
  /\ \A k, cm, producer_cm, fee :
       L!ShieldProof(k, cm, producer_cm, fee) = ShieldProof(k, cm, producer_cm, fee)
  /\ \A p : L!ShieldProvable(p) = ShieldProvable(p)
BY DEF L!ShieldProof, ShieldProof, L!Sealed, Sealed, L!ShieldProvable, ShieldProvable

\* The same of transfers,
LEMMA SameTransferProofs ==
  /\ \A o, cm : L!TransferProof(o, cm) = TransferProof(o, cm)
  /\ \A p, sum_in : L!TransferProvable(p, sum_in) = TransferProvable(p, sum_in)
BY DEF L!TransferProof, TransferProof, L!Remainder, Remainder, L!Forged, Forged, L!Sealed, Sealed,
  L!TransferProvable, TransferProvable, L!Amount, Amount

\* of unshields,
LEMMA SameUnshieldProofs ==
  /\ \A o, fee, recipient, cm_change, cm_fee :
       L!UnshieldProof(o, fee, recipient, cm_change, cm_fee)
         = UnshieldProof(o, fee, recipient, cm_change, cm_fee)
  /\ \A p, sum_in : L!UnshieldProvable(p, sum_in) = UnshieldProvable(p, sum_in)
BY DEF L!UnshieldProof, UnshieldProof, L!Remainder, Remainder, L!Forged, Forged, L!Sealed, Sealed,
  L!ValueOrZero, ValueOrZero, L!UnshieldProvable, UnshieldProvable, L!Amount, Amount

\* The notes a spend opens.
LEMMA OpeningCases ==
  ASSUME NEW ns
  PROVE  /\ \A h \in 1..Len(ns) : \A nfs \in NullifierLists(h) : Opening(ns, h, nfs) \in Openings(ns)
         /\ \A i \in 1..Len(ns) : Opening(ns, Forged, <<i>>) \in Openings(ns)
         /\ \A x \in Openings(ns) :
              \/ \E h \in 1..Len(ns) : \E nfs \in NullifierLists(h) : x = Opening(ns, h, nfs)
              \/ \E i \in 1..Len(ns) : x = Opening(ns, Forged, <<i>>)
<1>1. \A h \in 1..Len(ns) : \A nfs \in NullifierLists(h) : Opening(ns, h, nfs) \in Openings(ns)
  BY SMT DEF Openings
<1>2. \A i \in 1..Len(ns) : Opening(ns, Forged, <<i>>) \in Openings(ns)
  <2> DEFINE G(i) == Opening(ns, Forged, <<i>>)
             T == UNION {{Opening(ns, h, nfs) : nfs \in NullifierLists(h)} : h \in 1..Len(ns)}
  <2>1. Openings(ns) = T \cup {G(i) : i \in 1..Len(ns)}
    BY Zenon DEF Openings
  <2> HIDE DEF G, T
  <2>2. \A i \in 1..Len(ns) : G(i) \in Openings(ns)
    BY <2>1
  <2> QED BY <2>2 DEF G
<1>3. ASSUME NEW x \in Openings(ns)
      PROVE  \/ \E h \in 1..Len(ns) : \E nfs \in NullifierLists(h) : x = Opening(ns, h, nfs)
             \/ \E i \in 1..Len(ns) : x = Opening(ns, Forged, <<i>>)
  <2> DEFINE G(i) == Opening(ns, Forged, <<i>>)
             F(h) == {Opening(ns, h, nfs) : nfs \in NullifierLists(h)}
  <2>1. Openings(ns) = (UNION {F(h) : h \in 1..Len(ns)}) \cup {G(i) : i \in 1..Len(ns)}
    BY Zenon DEF Openings
  <2> HIDE DEF F, G
  <2>2. (\E h \in 1..Len(ns) : x \in F(h)) \/ \E i \in 1..Len(ns) : x = G(i)
    BY <2>1
  <2>3. \A h : x \in F(h) => \E nfs \in NullifierLists(h) : x = Opening(ns, h, nfs)
    BY DEF F
  <2> QED BY <2>2, <2>3 DEF G
<1> QED BY <1>1, <1>2, <1>3

\* The same of Ledger's.
LEMMA LedgerOpenings ==
  ASSUME NEW ns, NEW x \in Openings(ns)
  PROVE  x \in L!Openings(ns)
<1>1. \A f : L!Total(f) = Total(f)
  <2>1. \A f : L!Coins(f) = Coins(f)
    BY DEF L!Coins, Coins
  <2>2. \A S : L!Cardinality(S) = Cardinality(S)
    BY DEF L!Cardinality, Cardinality
  <2>3. \A f : L!Total(f) = L!Cardinality(Coins(f))
    BY <2>1 DEF L!Total
  <2> QED BY <2>2, <2>3 DEF Total
<1>2. \A h, nfs : L!Opening(ns, h, nfs) = Opening(ns, h, nfs)
  BY <1>1 DEF L!Opening, Opening, L!SumIn, SumIn
<1>3. \A n : L!NullifierLists(n) = NullifierLists(n)
  BY DEF L!NullifierLists, NullifierLists
<1>4. L!Forged = Forged
  BY DEF L!Forged, Forged
<1>5. \A h \in 1..Len(ns) : \A nfs \in L!NullifierLists(h) :
        L!Opening(ns, h, nfs) \in L!Openings(ns)
  BY SMT DEF L!Openings
<1>6. \A i \in 1..Len(ns) : L!Opening(ns, L!Forged, <<i>>) \in L!Openings(ns)
  <2> DEFINE G(i) == L!Opening(ns, L!Forged, <<i>>)
             T == UNION {{L!Opening(ns, h, nfs) : nfs \in L!NullifierLists(h)} : h \in 1..Len(ns)}
  <2>1. L!Openings(ns) = T \cup {G(i) : i \in 1..Len(ns)}
    BY Zenon DEF L!Openings
  <2> HIDE DEF G, T
  <2>2. \A i \in 1..Len(ns) : G(i) \in L!Openings(ns)
    BY <2>1
  <2> QED BY <2>2 DEF G
<1>7. CASE \E h \in 1..Len(ns) : \E nfs \in NullifierLists(h) : x = Opening(ns, h, nfs)
  BY <1>2, <1>3, <1>5, <1>7
<1>8. CASE \E i \in 1..Len(ns) : x = Opening(ns, Forged, <<i>>)
  BY <1>2, <1>4, <1>6, <1>8
<1> QED BY <1>7, <1>8, OpeningCases

\* The transitions' checks.
LEMMA SameChecks ==
  /\ \A s, r, p, d : L!prepare_shield(s, r, p, d) = prepare_shield(s, r, p, d)
  /\ \A s, r, p, d : L!prepare_transfer(s, r, p, d) = prepare_transfer(s, r, p, d)
  /\ \A s, r, p, d : L!prepare_unshield(s, r, p, d) = prepare_unshield(s, r, p, d)
BY DEF L!prepare_shield, prepare_shield, L!prepare_transfer, prepare_transfer, L!prepare_unshield,
  prepare_unshield, L!debit, debit, L!bound, bound, L!ensure_note_capacity, ensure_note_capacity,
  L!spendable, spendable, L!unshield_outputs, unshield_outputs, L!Malformed, Malformed

\* Their outputs.
LEMMA SameOutputs ==
  \A r : /\ L!debit(r) = debit(r)
         /\ L!shield_outputs(r) = shield_outputs(r)
         /\ L!transfer_outputs(r) = transfer_outputs(r)
         /\ L!unshield_outputs(r) = unshield_outputs(r)
BY DEF L!debit, debit, L!shield_outputs, shield_outputs, L!transfer_outputs, transfer_outputs,
  L!unshield_outputs, unshield_outputs

\* A request may be relayed as it is.
LEMMA RelayedAsIs ==
  /\ \A p, other, d : p \in L!RelayedShield(p, other, d)
  /\ \A p, other, d : p \in L!RelayedSpend(p, other, d)
BY DEF L!RelayedShield, L!RelayedSpend, L!Relayed
-----------------------------------------------------------------------------
(***************************************************************************)
(* Roots, as numbers of leaves.                                            *)
(***************************************************************************)
\* LeafCount, of any tree.
Count(t, h) == CHOOSE n \in 0..t.size : tree_root(Prefix(t, n)) = h

\* A prefix of the leaves is a sequence of commitments.
LEMMA PrefixIsSeq ==
  ASSUME NEW t, TreeOK(t), NEW n \in 0..t.size
  PROVE  Prefix(t, n) \in Seq(Commitment) /\ Len(Prefix(t, n)) = n
<1>1. t.size \in Nat /\ t.note \in [0..(t.size - 1) -> Note]
  BY CapacityAssumption DEF TreeOK
<1>2. ASSUME NEW i \in 1..n PROVE t.note[i - 1].cm \in Commitment
  <2>1. i - 1 \in 0..(t.size - 1)
    BY <1>1
  <2>2. t.note[i - 1] \in Note
    BY <1>1, <2>1
  <2> QED BY <2>2 DEF Note
<1>3. Prefix(t, n) \in [1..n -> Commitment] /\ n \in Nat
  BY <1>1, <1>2 DEF Prefix
<1> QED BY <1>3, FunctionIsSeq

\* The roots a tree had are as many as its sizes: each counts its leaves.
LEMMA CountOfRoot ==
  ASSUME NEW t, TreeOK(t), NEW n \in 0..t.size
  PROVE  /\ tree_root(Prefix(t, n)) = ReferenceRoot(Prefix(t, n))
         /\ Count(t, ReferenceRoot(Prefix(t, n))) = n
<1>1. /\ Depth \in Nat /\ Capacity = Pow2[Depth] /\ Capacity \in Nat /\ ZERO \notin Commitment
  BY KernelAssumption, CircuitsAssumption, CapacityAssumption
<1>2. t.size \in Nat /\ t.size <= CT!Pow2[Depth]
  BY <1>1, SamePow2 DEF TreeOK
<1>3. ASSUME NEW m \in 0..t.size
      PROVE  tree_root(Prefix(t, m)) = ReferenceRoot(Prefix(t, m))
  <2>1. Prefix(t, m) \in Seq(Commitment)
    BY PrefixIsSeq
  <2>2. CT!tree_root(Prefix(t, m)) = CT!ReferenceRoot(Prefix(t, m))
    BY <1>1, <2>1, CT!WalletRoot, KernelAssumption, CircuitsAssumption
  <2> QED BY <2>2, SameRoot, SameReference
<1>4. ASSUME NEW m \in 0..t.size, ReferenceRoot(Prefix(t, m)) = ReferenceRoot(Prefix(t, n))
      PROVE  m = n
  <2>1. PICK ls : ls = Prefix(t, m)
    OBVIOUS
  <2>2. PICK ms : ms = Prefix(t, n)
    OBVIOUS
  <2>3. ls \in Seq(Commitment) /\ Len(ls) = m /\ ms \in Seq(Commitment) /\ Len(ms) = n
    BY <2>1, <2>2, PrefixIsSeq
  <2>4. CT!ReferenceRoot(ls) = CT!ReferenceRoot(ms)
    BY <1>4, <2>1, <2>2, SameReference
  <2>5. Len(ls) <= CT!Pow2[Depth] /\ Len(ms) <= CT!Pow2[Depth]
    <3>1. CT!Pow2[Depth] \in Nat
      BY <1>1, SamePow2
    <3> QED BY <1>2, <2>3, <3>1
  <2>6. Len(ls) = Len(ms)
    BY <1>1, <2>3, <2>4, <2>5, CT!RootCountsLeaves, KernelAssumption, CircuitsAssumption
  <2> QED BY <2>3, <2>6
<1>5. \A m \in 0..t.size : tree_root(Prefix(t, m)) = ReferenceRoot(Prefix(t, n)) => m = n
  BY <1>3, <1>4
<1>6. tree_root(Prefix(t, n)) = ReferenceRoot(Prefix(t, n))
  BY <1>3
<1> QED BY <1>5, <1>6 DEF Count

\* The accepted roots of a tree.
LEMMA CountsOfLog ==
  ASSUME NEW t, TreeOK(t), NEW log, RootsOf(log, t), NEW h \in log.marker
  PROVE  Count(t, h) \in 0..t.size /\ h = ReferenceRoot(Prefix(t, Count(t, h)))
<1>1. PICK n \in 0..t.size : h = ReferenceRoot(Prefix(t, n))
  BY DEF RootsOf
<1>2. Count(t, h) = n
  BY <1>1, CountOfRoot
<1> QED BY <1>1, <1>2

\* They count the same leaves in a tree that has grown.
LEMMA CountsKept ==
  ASSUME NEW t, TreeOK(t), NEW log, RootsOf(log, t), NEW h \in log.marker,
         NEW u, TreeOK(u), NEW cms, NEW enc, Len(cms) \in Nat, Follows(t, u, cms, enc)
  PROVE  Count(u, h) = Count(t, h)
<1> DEFINE n == Count(t, h)
<1>1. n \in 0..t.size /\ h = ReferenceRoot(Prefix(t, n))
  BY CountsOfLog
<1>2. t.size \in Nat /\ u.size = t.size + Len(cms)
  BY CapacityAssumption DEF TreeOK, Follows
<1> HIDE DEF n
<1>3. Prefix(u, n) = Prefix(t, n) /\ n \in 0..u.size
  BY <1>1, <1>2, PrefixKept
<1>4. Count(u, ReferenceRoot(Prefix(u, n))) = n
  BY <1>3, CountOfRoot
<1> QED BY <1>1, <1>3, <1>4 DEF n

-----------------------------------------------------------------------------
(***************************************************************************)
(* The ledger an observer reads.                                           *)
(***************************************************************************)
\* The accepted roots, oldest first.
History == [i \in 1..ValidRoots.count |-> Count(tree, ValidRoots.at[i - 1])]

\* What the variables of Ledger stand for.
Abstraction ==
  /\ read_ledger.notes = Notes
  /\ read_ledger.nullifiers = nullifier.marker
  /\ {LeafCount(h) : h \in read_ledger.valid_roots} = {Count(tree, h) : h \in ValidRoots.marker}
  /\ [i \in 1..ValidRoots.count |-> LeafCount(ValidRoots.at[i - 1])] = History
  /\ read_ledger.withdrawals = [i \in 1..withdrawal.count |-> withdrawal.at[i - 1]]

\* The indexes list what the markers hold.
LEMMA AbstractState == KernelInv => Abstraction
<1> SUFFICES ASSUME KernelInv PROVE Abstraction
  OBVIOUS
<1>1. \A h : LeafCount(h) = Count(tree, h)
  BY DEF LeafCount, Count, Leaves, Prefix
<1>2. /\ read_ledger.notes = Notes
      /\ read_ledger.nullifiers = {nullifier.at[i] : i \in 0..(nullifier.count - 1)}
      /\ read_ledger.valid_roots = {ValidRoots.at[i] : i \in 0..(ValidRoots.count - 1)}
      /\ read_ledger.withdrawals = [i \in 1..withdrawal.count |-> withdrawal.at[i - 1]]
  BY DEF read_ledger, Notes
<1>3. read_ledger.nullifiers = nullifier.marker
  BY <1>2 DEF KernelInv, NullifierInv, LogOK
<1>4. read_ledger.valid_roots = ValidRoots.marker
  BY <1>2 DEF KernelInv, RootInv, RootsOf, LogOK
<1> QED BY <1>1, <1>2, <1>3, <1>4 DEF Abstraction, History

-----------------------------------------------------------------------------
(***************************************************************************)
(* The steps.                                                              *)
(***************************************************************************)
\* A message that changes nothing an observer reads.
LEMMA QuietStutters ==
  ASSUME ValidRoots' = ValidRoots,
         UNCHANGED <<tree, nullifier, withdrawal, balance, applied_shield,
                     deposited, burned, shields, claims>>
  PROVE  UNCHANGED L!vars
<1>1. read_ledger' = read_ledger
  BY DEF read_ledger
<1>2. \A h : LeafCount(h)' = LeafCount(h)
  BY DEF LeafCount, Leaves
<1>3. [k \in PoolKey |-> deposit_balance(k)]' = [k \in PoolKey |-> deposit_balance(k)]
  BY DEF deposit_balance
<1>4. {LeafCount(h) : h \in read_ledger.valid_roots}' = {LeafCount(h) : h \in read_ledger.valid_roots}
  BY <1>1, <1>2
<1>5. [i \in 1..ValidRoots.count |-> LeafCount(ValidRoots.at[i - 1])]'
        = [i \in 1..ValidRoots.count |-> LeafCount(ValidRoots.at[i - 1])]
  BY <1>2
<1> QED BY <1>1, <1>3, <1>4, <1>5 DEF L!vars

\* A deposit credits a pool.
LEMMA DepositImplements ==
  ASSUME KernelInv, NEW level, DepositStep(level)
  PROVE  L!DepositStep
<1>1. PICK sender \in Contract, k \in PoolKey \cup {None}, amount \in Amount :
        Deposit(level, sender, k, amount)
  BY DEF DepositStep
<1>2. /\ k # None /\ root' = ValidRoots
      /\ deposited + amount <= MaxDeposited
      /\ deposit_balance(k) + amount <= U64Max
      /\ balance' = [balance EXCEPT ![k] = deposit_balance(k) + amount]
      /\ deposited' = deposited + amount
      /\ UNCHANGED <<tree, nullifier, withdrawal, applied_shield, burned, shields, claims>>
  BY <1>1 DEF Deposit, ensure_initialized, validate_bridge_deposit,
     parse_deposit_recipient_pubkey_hash
<1>3. k \in PoolKey /\ amount \in Nat
  BY <1>2, CircuitsAssumption DEF Amount
<1>4. ValidRoots' = ValidRoots
  BY <1>2, QuietRoots DEF KernelInv
<1>5. read_ledger' = read_ledger
  BY <1>2, <1>4 DEF read_ledger
<1>6. \A h : LeafCount(h)' = LeafCount(h)
  BY <1>2 DEF LeafCount, Leaves
<1>7. {LeafCount(h) : h \in read_ledger.valid_roots}' = {LeafCount(h) : h \in read_ledger.valid_roots}
  BY <1>5, <1>6
<1>8. [i \in 1..ValidRoots.count |-> LeafCount(ValidRoots.at[i - 1])]'
        = [i \in 1..ValidRoots.count |-> LeafCount(ValidRoots.at[i - 1])]
  BY <1>4, <1>6
<1>9. [j \in PoolKey |-> deposit_balance(j)]'
        = [[j \in PoolKey |-> deposit_balance(j)] EXCEPT ![k] = @ + amount]
  <2>1. balance \in [PoolKey -> Int] /\ deposit_balance(k) + amount \in Nat
    BY <1>3, BalanceIsNat DEF KernelInv, BalanceInv
  <2>2. ASSUME NEW j \in PoolKey
        PROVE  deposit_balance(j)' = IF j = k THEN deposit_balance(k) + amount ELSE deposit_balance(j)
    <3>1. deposit_balance(j)' = IF balance'[j] < 0 THEN 0 ELSE balance'[j]
      BY DEF deposit_balance
    <3>2. CASE j = k
      <4>1. balance'[j] = deposit_balance(k) + amount
        BY <1>2, <1>3, <2>1, <3>2
      <4> QED BY <2>1, <3>1, <3>2, <4>1
    <3>3. CASE j # k
      <4>1. balance'[j] = balance[j]
        BY <1>2, <1>3, <2>1, <3>3
      <4> QED BY <3>1, <3>3, <4>1 DEF deposit_balance
    <3> QED BY <3>2, <3>3
  <2> QED BY <1>3, <2>2
<1>10. [j \in PoolKey |-> deposit_balance(j)][k] + amount <= U64Max
  BY <1>2, <1>3
<1>11. L!Deposit(k, amount)
  BY <1>2, <1>5, <1>7, <1>8, <1>9, <1>10 DEF L!Deposit
<1> QED BY <1>3, <1>11 DEF L!DepositStep, L!Amount, Amount

\* A function that holds f's values, then g's.
Joins(w, f, g, a, b, S) ==
  /\ f \in [1..a -> S] /\ g \in [1..b -> S] /\ w \in [1..(a + b) -> S]
  /\ \A i \in 1..a : w[i] = f[i]
  /\ \A i \in 1..b : w[a + i] = g[i]

\* It is their concatenation.
LEMMA Joined ==
  \A a, b \in Nat : \A w, f, g, S : Joins(w, f, g, a, b, S) => Len(f) = a /\ w = f \o g
<1> SUFFICES ASSUME NEW a \in Nat, NEW b \in Nat, NEW w, NEW f, NEW g, NEW S, Joins(w, f, g, a, b, S)
             PROVE  Len(f) = a /\ w = f \o g
  OBVIOUS
<1>1. /\ f \in [1..a -> S] /\ g \in [1..b -> S] /\ w \in [1..(a + b) -> S]
      /\ \A i \in 1..a : w[i] = f[i]
      /\ \A i \in 1..b : w[a + i] = g[i]
  BY DEF Joins
<1>2. f \in Seq(S) /\ Len(f) = a /\ g \in Seq(S) /\ Len(g) = b
  BY <1>1, FunctionIsSeq
<1>3. /\ Len(f \o g) = a + b
      /\ f \o g \in Seq(S)
      /\ \A i \in 1..(a + b) : (f \o g)[i] = IF i <= a THEN f[i] ELSE g[i - a]
  <2>1. /\ f \o g \in Seq(S)
        /\ Len(f \o g) = Len(f) + Len(g)
        /\ \A i \in 1..(Len(f) + Len(g)) : (f \o g)[i] = IF i <= Len(f) THEN f[i] ELSE g[i - Len(f)]
    BY <1>2, ConcatProperties
  <2> QED BY <1>2, <2>1
<1>4. ASSUME NEW i \in 1..(a + b) PROVE w[i] = (f \o g)[i]
  <2>1. CASE i <= a
    <3>1. i \in 1..a
      BY <2>1
    <3> QED BY <1>1, <1>3, <2>1, <3>1
  <2>2. CASE ~(i <= a)
    <3>1. PICK j \in 1..b : i = a + j
      <4>1. i - a \in 1..b /\ i = a + (i - a)
        BY <2>2
      <4> QED BY <4>1
    <3>2. i - a = j
      BY <3>1
    <3> QED BY <1>1, <1>3, <2>2, <3>1, <3>2
  <2> QED BY <2>1, <2>2
<1>5. f \o g = [i \in 1..(a + b) |-> (f \o g)[i]]
  <2>1. PICK q : q = f \o g
    OBVIOUS
  <2>2. q \in Seq(S) /\ Len(q) = a + b
    BY <1>3, <2>1
  <2>3. q \in [1..Len(q) -> S]
    BY <2>2, LenProperties
  <2>4. q = [i \in 1..(a + b) |-> q[i]]
    BY <2>2, <2>3
  <2> QED BY <2>1, <2>4
<1>6. w = [i \in 1..(a + b) |-> (f \o g)[i]]
  BY <1>1, <1>4
<1> QED BY <1>2, <1>5, <1>6

\* The outputs of a transaction and its root.
LEMMA AppendImplements ==
  ASSUME KernelInv, KernelInv', Abstraction, Abstraction', NEW cms, NEW enc,
         Len(cms) \in Nat \ {0}, Follows(tree, tree', cms, enc), ValidRoots' = snapshot_root(tree')
  PROVE  L!append_and_snapshot(cms, enc)
<1> DEFINE N == read_ledger.notes
           V == {LeafCount(h) : h \in read_ledger.valid_roots}
           H == [i \in 1..ValidRoots.count |-> LeafCount(ValidRoots.at[i - 1])]
           log == ValidRoots
           c == log.count
           n == tree.size + Len(cms)
           u == tree'
<1>1. TreeOK(tree) /\ TreeOK(u) /\ RootsOf(log, tree)
  BY DEF KernelInv, TreeInv, RootInv
<1>2. /\ tree.size \in Nat /\ n \in Nat /\ u.size = n /\ n > tree.size /\ n <= Capacity
      /\ c \in Nat /\ c <= tree.size + 1 /\ Capacity \in Nat
  BY <1>1, CapacityAssumption DEF TreeOK, RootsOf, LogOK, Follows
<1>3. /\ N = Notes /\ N' = Notes'
      /\ V = {Count(tree, h) : h \in log.marker} /\ V' = {Count(u, h) : h \in log'.marker}
      /\ H = [i \in 1..c |-> Count(tree, log.at[i - 1])]
      /\ H' = [i \in 1..c' |-> Count(u, log'.at[i - 1])]
  BY DEF Abstraction, History
<1>4. \A h \in log.marker : Count(u, h) = Count(tree, h) /\ Count(tree, h) \in 0..tree.size
  BY <1>1, CountsKept, CountsOfLog
<1>5. Count(u, u.root) = n
  <2>1. u.root = ReferenceRoot(Prefix(u, u.size)) /\ u.size \in 0..u.size
    BY <1>1, <1>2, LeavesPrefix DEF TreeOK
  <2>2. Count(u, ReferenceRoot(Prefix(u, u.size))) = u.size
    BY <1>1, <2>1, CountOfRoot
  <2> QED BY <1>2, <2>1, <2>2
<1>6. u.root \notin log.marker
  BY <1>2, <1>4, <1>5
<1>7. /\ log'.marker = log.marker \cup {u.root} /\ c' = c + 1
      /\ log'.at = [i \in DOMAIN log.at \cup {c} |-> IF i = c THEN u.root ELSE log.at[i]]
  BY <1>6 DEF snapshot_root, LogInsertNew, LogInsert, Write
<1>8. DOMAIN log.at = 0..(c - 1) /\ \A i \in 0..(c - 1) : log.at[i] \in log.marker
  BY <1>1 DEF RootsOf, LogOK
<1>9. V' = V \cup {n} /\ n \notin V
  <2>1. n \notin V
    BY <1>2, <1>3, <1>4
  <2>2. \A h \in log'.marker : Count(u, h) = IF h = u.root THEN n ELSE Count(tree, h)
    BY <1>4, <1>5, <1>6, <1>7
  <2>3. PICK S : S = log.marker
    OBVIOUS
  <2>4. PICK T : T = log'.marker
    OBVIOUS
  <2>5. T = S \cup {u.root} /\ V = {Count(tree, h) : h \in S} /\ V' = {Count(u, h) : h \in T}
    BY <1>3, <1>7, <2>3, <2>4
  <2>6. /\ \A h \in S : Count(u, h) = Count(tree, h)
        /\ Count(u, u.root) = n
    BY <1>4, <1>5, <2>3
  <2>7. \A x : x \in V' <=> x \in V \/ x = n
    BY <2>5, <2>6
  <2> QED BY <2>1, <2>7
<1>10. H \in Seq(Nat) /\ Len(H) = c
  <2>1. ASSUME NEW i \in 1..c PROVE Count(tree, log.at[i - 1]) \in Nat
    <3>1. i - 1 \in 0..(c - 1)
      BY <1>2
    <3> QED BY <1>2, <1>4, <1>8, <3>1
  <2>2. H \in [1..c -> Nat]
    BY <1>3, <2>1
  <2> QED BY <1>2, <2>2, FunctionIsSeq
<1>11. H' = Append(H, n)
  <2>1. /\ Append(H, n) \in Seq(Nat) /\ Len(Append(H, n)) = c + 1 /\ Append(H, n)[c + 1] = n
        /\ \A i \in 1..c : Append(H, n)[i] = H[i]
    BY <1>2, <1>10, AppendProperties
  <2>2. ASSUME NEW i \in 1..(c + 1) PROVE Count(u, log'.at[i - 1]) = Append(H, n)[i]
    <3>1. CASE i = c + 1
      <4>1. i - 1 = c
        BY <1>2, <3>1
      <4>2. log'.at[i - 1] = u.root
        BY <1>7, <4>1
      <4> QED BY <1>5, <2>1, <3>1, <4>2
    <3>2. CASE i # c + 1
      <4>1. i \in 1..c /\ i - 1 \in 0..(c - 1) /\ i - 1 # c
        BY <1>2, <3>2
      <4>2. log'.at[i - 1] = log.at[i - 1]
        BY <1>7, <1>8, <4>1
      <4> QED BY <1>3, <1>4, <1>8, <2>1, <4>1, <4>2
    <3> QED BY <3>1, <3>2
  <2>3. H' = [i \in 1..(c + 1) |-> Append(H, n)[i]]
    BY <1>3, <1>7, <2>2
  <2>4. Append(H, n) = [i \in 1..(c + 1) |-> Append(H, n)[i]]
    BY <1>2, <2>1
  <2> QED BY <2>3, <2>4
<1>12. /\ Len(N) = tree.size
       /\ N' = N \o [i \in 1..Len(cms) |-> [cm |-> cms[i], enc |-> enc]]
  <2> DEFINE M == [i \in 1..Len(cms) |-> [cm |-> cms[i], enc |-> enc]]
  <2>1. N = [i \in 1..tree.size |-> tree.note[i - 1]] /\ N' = [i \in 1..n |-> u.note[i - 1]]
    BY <1>2, <1>3 DEF Notes
  <2>2. /\ N = [i \in 1..tree.size |-> N[i]] /\ M = [i \in 1..Len(cms) |-> M[i]]
        /\ N' = [i \in 1..n |-> N'[i]]
    BY <2>1
  <2>3. ASSUME NEW i \in 1..tree.size PROVE N'[i] = N[i]
    <3>1. i - 1 \in 0..(tree.size - 1) /\ i \in 1..n
      BY <1>2
    <3> QED BY <2>1, <3>1 DEF Follows
  <2>4. ASSUME NEW j \in 1..Len(cms) PROVE N'[tree.size + j] = M[j]
    <3>1. tree.size + j \in 1..n /\ (tree.size + j) - 1 = tree.size + (j - 1)
      BY <1>2
    <3>2. u.note[tree.size + (j - 1)] = [cm |-> cms[j], enc |-> enc]
      BY DEF Follows
    <3> QED BY <2>1, <3>1, <3>2
  <2>5. PICK f : f = N
    OBVIOUS
  <2>6. PICK g : g = M
    OBVIOUS
  <2>7. PICK w : w = N'
    OBVIOUS
  <2>8. PICK a \in Nat : a = tree.size
    BY <1>2
  <2>9. PICK b \in Nat : b = Len(cms)
    OBVIOUS
  <2> HIDE DEF N, M, u
  <2>10. f = [i \in 1..a |-> f[i]] /\ g = [i \in 1..b |-> g[i]] /\ w = [i \in 1..(a + b) |-> w[i]]
    BY <2>2, <2>5, <2>6, <2>7, <2>8, <2>9
  <2>11. PICK T : T = {f[i] : i \in 1..a} \cup {g[i] : i \in 1..b} \cup {w[i] : i \in 1..(a + b)}
    OBVIOUS
  <2>12. f \in [1..a -> T] /\ g \in [1..b -> T] /\ w \in [1..(a + b) -> T]
    BY <2>10, <2>11
  <2>13. (\A i \in 1..a : w[i] = f[i]) /\ \A i \in 1..b : w[a + i] = g[i]
    BY <2>3, <2>4, <2>5, <2>6, <2>7, <2>8, <2>9
  <2>14. Joins(w, f, g, a, b, T)
    BY <2>12, <2>13 DEF Joins
  <2>15. Len(f) = a /\ w = f \o g
    BY <2>14, Joined
  <2> QED BY <2>5, <2>6, <2>7, <2>8, <2>15 DEF M
<1>13. c + 1 <= Capacity + 1 /\ Len(Append(H, n)) = c + 1 /\ Append(H, n) \in Seq(Nat)
  BY <1>2, <1>10, AppendProperties
<1>14. n = Len(N) + Len(cms)
  BY <1>12
<1> HIDE DEF N, V, H, n, c
<1>15. PICK q : q = Append(H, n)
  OBVIOUS
<1> DEFINE excess == IF Len(q) > Capacity + 1 THEN Len(q) - (Capacity + 1) ELSE 0
<1>16. excess = 0
  BY <1>2, <1>13, <1>15
<1>17. SubSeq(q, excess + 1, Len(q)) = q
  <2>1. q \in Seq(Nat)
    BY <1>13, <1>15
  <2>2. SubSeq(q, 1, Len(q)) = q
    BY <2>1
  <2>3. excess + 1 = 1
    BY <1>16
  <2> QED BY <2>2, <2>3
<1>18. (V \cup {n}) \ {q[i] : i \in 1..excess} = V \cup {n}
  <2>1. 1..excess = {}
    BY <1>16
  <2> QED BY <2>1
<1>19. PICK x : x = excess
  OBVIOUS
<1> HIDE DEF excess
<1>20. /\ x = IF Len(Append(H, Len(N) + Len(cms))) > Capacity + 1
              THEN Len(Append(H, Len(N) + Len(cms))) - (Capacity + 1) ELSE 0
       /\ N' = N \o [i \in 1..Len(cms) |-> [cm |-> cms[i], enc |-> enc]]
       /\ ~(Len(N) + Len(cms) \in V)
       /\ H' = SubSeq(Append(H, Len(N) + Len(cms)), x + 1, Len(Append(H, Len(N) + Len(cms))))
       /\ V' = (V \cup {Len(N) + Len(cms)})
                 \ {Append(H, Len(N) + Len(cms))[i] : i \in 1..x}
  <2>1. x = IF Len(q) > Capacity + 1 THEN Len(q) - (Capacity + 1) ELSE 0
    BY <1>19 DEF excess
  <2>2. q = Append(H, Len(N) + Len(cms))
    BY <1>14, <1>15
  <2>3. /\ H' = SubSeq(q, x + 1, Len(q))
        /\ V' = (V \cup {n}) \ {q[i] : i \in 1..x}
    BY <1>9, <1>11, <1>15, <1>17, <1>18, <1>19
  <2> QED BY <1>9, <1>12, <1>14, <2>1, <2>2, <2>3
<1> QED BY Zenon, <1>20 DEF L!append_and_snapshot, N, V, H

\* The roots the kernel takes are those of the ledger.
LEMMA SameRoots ==
  ASSUME KernelInv
  PROVE  {n \in 0..tree.size : tree_root(Leaves(n)) \in ValidRoots.marker}
           = {Count(tree, h) : h \in ValidRoots.marker}
<1>1. TreeOK(tree) /\ RootsOf(ValidRoots, tree)
  BY DEF KernelInv, TreeInv, RootInv
<1>2. \A n : Leaves(n) = Prefix(tree, n)
  BY DEF Leaves, Prefix
<1>3. ASSUME NEW n \in 0..tree.size, tree_root(Leaves(n)) \in ValidRoots.marker
      PROVE  \E h \in ValidRoots.marker : n = Count(tree, h)
  BY <1>1, <1>2, <1>3, CountOfRoot
<1>4. ASSUME NEW h \in ValidRoots.marker
      PROVE  Count(tree, h) \in 0..tree.size /\ tree_root(Leaves(Count(tree, h))) = h
  <2>1. PICK n \in 0..tree.size : h = ReferenceRoot(Prefix(tree, n)) /\ n = Count(tree, h)
    BY <1>1, CountsOfLog
  <2>2. tree_root(Prefix(tree, n)) = h
    BY <1>1, <2>1, CountOfRoot
  <2> QED BY <1>2, <2>1, <2>2
<1> QED BY <1>3, <1>4

\* The two states answer alike, but for the fee, which the kernel's may ask
\* more of.
LEMMA SameState ==
  ASSUME KernelInv, Abstraction, NEW level
  PROVE  \E s, t :
           /\ s = DurableLedgerState(level) /\ t = L!LedgerState
           /\ s.auth_domain = AuthDomain /\ t.auth_domain = Here
           /\ t.required_tx_fee = MinTxFee
           /\ s.required_tx_fee \in Nat /\ s.required_tx_fee >= MinTxFee
           /\ t.valid_roots = s.valid_roots
           /\ t.nullifiers = s.nullifiers
           /\ t.deposit_balances = s.deposit_balances
           /\ t.applied_shield_cms = s.applied_shield_cms
           /\ t.size = s.size
<1>1. /\ L!LedgerState.auth_domain = Here
      /\ L!LedgerState.required_tx_fee = MinTxFee
      /\ L!LedgerState.valid_roots = {LeafCount(h) : h \in read_ledger.valid_roots}
      /\ L!LedgerState.nullifiers = read_ledger.nullifiers
      /\ L!LedgerState.deposit_balances = [k \in PoolKey |-> deposit_balance(k)]
      /\ L!LedgerState.applied_shield_cms = applied_shield
      /\ L!LedgerState.size = Len(read_ledger.notes)
  BY DEF L!LedgerState
<1>2. Len(read_ledger.notes) = tree.size
  <2>1. tree.size \in Nat
    BY CapacityAssumption DEF KernelInv, TreeInv, TreeOK
  <2>2. PICK N : N = Notes
    OBVIOUS
  <2>3. PICK S : S = {N[i] : i \in 1..tree.size}
    OBVIOUS
  <2>4. N \in [1..tree.size -> S]
    BY <2>2, <2>3 DEF Notes
  <2>5. Len(N) = tree.size
    BY <2>1, <2>4, FunctionIsSeq
  <2> QED BY <2>2, <2>5 DEF Abstraction
<1>3. read_required_tx_fee(level) \in Nat /\ read_required_tx_fee(level) >= MinTxFee
  <2>1. current_private_tx_count_in_level(level) \in Nat
    BY DEF current_private_tx_count_in_level, KernelInv, FeeInv
  <2> QED BY <2>1, RequiredFee DEF read_required_tx_fee
<1>4. PICK s : s = DurableLedgerState(level)
  OBVIOUS
<1>5. PICK t : t = L!LedgerState
  OBVIOUS
<1>6. /\ s.auth_domain = AuthDomain /\ t.auth_domain = Here
      /\ t.required_tx_fee = MinTxFee
      /\ s.required_tx_fee \in Nat /\ s.required_tx_fee >= MinTxFee
      /\ t.nullifiers = s.nullifiers
      /\ t.deposit_balances = s.deposit_balances
      /\ t.applied_shield_cms = s.applied_shield_cms
      /\ t.size = s.size
  BY <1>1, <1>2, <1>3, <1>4, <1>5, StateFacts DEF Abstraction
<1>7. t.valid_roots = s.valid_roots
  <2>1. t.valid_roots = {Count(tree, h) : h \in ValidRoots.marker}
    BY <1>1, <1>5 DEF Abstraction
  <2> QED BY <1>4, <2>1, SameRoots, StateFacts
<1> QED BY Zenon, <1>4, <1>5, <1>6, <1>7

\* This deployment's domain is in force once its verifier is configured.
LEMMA HereInForce ==
  ASSUME SignedDomain \subseteq {Here}, KernelInv, verifier # None
  PROVE  AuthDomain = Here
BY DomainInForce DEF KernelInv, ConfigInv

\* A shield.
LEMMA ShieldImplements ==
  ASSUME SignedDomain \subseteq {Here}, KernelInv, KernelInv', Abstraction, Abstraction',
         NEW level, NEW r, NEW u, Shielded(level, r, u)
  PROVE  L!ShieldStep
<1>1. PICK k \in PoolKey, cm \in Commitment, producer_cm \in Commitment, fee \in TxFee :
        r = ShieldProof(k, cm, producer_cm, fee)
  BY DEF Shielded
<1>2. /\ ShieldProvable(r)
      /\ prepare_shield(DurableLedgerState(level), r, r, AuthDomain)
      /\ Applied(level, r, u)
      /\ Follows(tree, u, shield_outputs(r), Sealed)
      /\ balance' = debit_deposit(r.pubkey_hash, debit(r))
      /\ applied_shield' = mark_applied_shield(r.client_cm)
      /\ shields' = Append(shields, r.client_cm)
      /\ UNCHANGED <<nullifier, withdrawal, outbox, claims>>
  BY DEF Shielded
<1>3. /\ verifier # None /\ r.fee \in Nat /\ tree' = u /\ burned' = burned + r.fee
      /\ UNCHANGED deposited
  BY <1>2 DEF Applied
<1>4. AuthDomain = Here /\ Here \in Domain
  BY <1>3, HereInForce, CircuitsAssumption
<1>5. /\ r.pubkey_hash = k /\ r.enc = Sealed /\ debit(r) \in Nat
  <2>1. /\ r.pubkey_hash = k /\ r.v = Value[cm] /\ r.fee = fee /\ r.producer_fee = Value[producer_cm]
        /\ r.enc = Sealed
    BY <1>1 DEF ShieldProof
  <2>2. Value[cm] \in Nat /\ Value[producer_cm] \in Nat /\ fee \in Nat
    BY CircuitsAssumption
  <2> QED BY <2>1, <2>2 DEF debit
<1>6. L!prepare_shield(L!LedgerState, r, r, Here)
  <2>1. prepare_shield(L!LedgerState, r, r, Here)
    BY <1>2, <1>3, <1>4, SameState, CircuitsAssumption DEF prepare_shield, bound, ensure_note_capacity
  <2> QED BY <2>1, SameChecks
<1>7. [j \in PoolKey |-> deposit_balance(j)]'
        = [[j \in PoolKey |-> deposit_balance(j)] EXCEPT ![r.pubkey_hash] = @ - L!debit(r)]
  <2>1. balance \in [PoolKey -> Int] /\ deposit_balance(k) \in Nat
    BY BalanceIsNat DEF KernelInv, BalanceInv
  <2>2. PICK left \in Nat : left = deposit_balance(k) - debit(r)
    <3>1. deposit_balance(k) >= debit(r)
      BY <1>2, <1>5, StateFacts DEF prepare_shield
    <3> QED BY <1>5, <2>1, <3>1
  <2>3. balance' = [balance EXCEPT ![k] = IF left = 0 THEN Drained ELSE left]
    BY <1>2, <1>5, <2>2 DEF debit_deposit
  <2>4. ASSUME NEW j \in PoolKey
        PROVE  deposit_balance(j)' = IF j = k THEN left ELSE deposit_balance(j)
    <3>1. deposit_balance(j)' = IF balance'[j] < 0 THEN 0 ELSE balance'[j]
      BY DEF deposit_balance
    <3>2. CASE j = k
      <4>1. balance'[j] = IF left = 0 THEN Drained ELSE left
        BY <2>1, <2>3, <3>2
      <4> QED BY <3>1, <3>2, <4>1 DEF Drained
    <3>3. CASE j # k
      <4>1. balance'[j] = balance[j]
        BY <2>1, <2>3, <3>3
      <4> QED BY <3>1, <3>3, <4>1 DEF deposit_balance
    <3> QED BY <3>2, <3>3
  <2>5. L!debit(r) = debit(r)
    BY SameOutputs
  <2> QED BY <1>5, <2>2, <2>4, <2>5
<1>8. L!append_and_snapshot(L!shield_outputs(r), r.enc)
  <2>1. Len(shield_outputs(r)) \in Nat \ {0}
    BY DEF shield_outputs
  <2>2. ValidRoots' = snapshot_root(u)
    BY <1>2, <2>1, AppliedStore
  <2>3. L!append_and_snapshot(shield_outputs(r), Sealed)
    BY <1>2, <1>3, <2>1, <2>2, AppendImplements
  <2> QED BY <1>5, <2>3, SameOutputs
<1>9. UNCHANGED <<read_ledger.nullifiers, read_ledger.withdrawals>>
  BY <1>2 DEF Abstraction
<1>10. L!commit_prepared_shield(r)
  BY <1>2, <1>7, <1>8, <1>9 DEF L!commit_prepared_shield, mark_applied_shield
<1>11. L!Shield(r, r, Here)
  BY <1>2, <1>3, <1>6, <1>10 DEF L!Shield
<1>12. r = L!ShieldProof(k, cm, producer_cm, fee) /\ L!ShieldProvable(r)
  BY <1>1, <1>2, SameShieldProofs
<1>13. r \in L!RelayedShield(r, L!OtherShield(r), Here)
  BY RelayedAsIs
<1> QED BY <1>4, <1>11, <1>12, <1>13 DEF L!ShieldStep

\* A transfer.
LEMMA TransferImplements ==
  ASSUME SignedDomain \subseteq {Here}, KernelInv, KernelInv', Abstraction, Abstraction',
         NEW level, NEW r, NEW u, Transferred(level, r, u)
  PROVE  L!TransferStep
<1>1. PICK o \in Openings(Notes), cm_1 \in Commitment, cm_2 \in Commitment, cm_3 \in Commitment :
        r = TransferProof(o, <<cm_1, cm_2, cm_3>>) /\ TransferProvable(r, o.sum_in)
  BY DEF Transferred
<1>2. /\ prepare_transfer(DurableLedgerState(level), r, r, AuthDomain)
      /\ Applied(level, r, u)
      /\ Follows(tree, u, transfer_outputs(r), Sealed)
      /\ nullifier' = insert_nullifiers(nullifier, r.nullifiers)
      /\ UNCHANGED <<withdrawal, balance, applied_shield, outbox, shields, claims>>
  BY DEF Transferred
<1>3. /\ verifier # None /\ r.fee \in Nat /\ tree' = u /\ burned' = burned + r.fee
      /\ UNCHANGED deposited
  BY <1>2 DEF Applied
<1>4. AuthDomain = Here /\ Here \in Domain
  BY <1>3, HereInForce, CircuitsAssumption
<1>5. r.enc = Sealed /\ r.nullifiers = o.nullifiers
  BY <1>1 DEF TransferProof
<1>6. L!prepare_transfer(L!LedgerState, r, r, Here)
  <2>1. prepare_transfer(L!LedgerState, r, r, Here)
    BY <1>2, <1>3, <1>4, SameState, CircuitsAssumption
       DEF prepare_transfer, bound, spendable, ensure_note_capacity
  <2> QED BY <2>1, SameChecks
<1>7. L!append_and_snapshot(L!transfer_outputs(r), r.enc)
  <2>1. Len(transfer_outputs(r)) \in Nat \ {0}
    BY DEF transfer_outputs
  <2>2. ValidRoots' = snapshot_root(u)
    BY <1>2, <2>1, AppliedStore
  <2>3. L!append_and_snapshot(transfer_outputs(r), Sealed)
    BY <1>2, <1>3, <2>1, <2>2, AppendImplements
  <2> QED BY <1>5, <2>3, SameOutputs
<1>8. L!insert_nullifiers(r)
  <2>1. tree.size \in Nat
    BY CapacityAssumption DEF KernelInv, TreeInv, TreeOK
  <2>2. r.nullifiers \in Seq(Nat)
    BY <1>5, <2>1, OpeningLists
  <2>3. spendable(DurableLedgerState(level), r)
    BY <1>2 DEF prepare_transfer
  <2>4. nullifier'.marker = nullifier.marker \cup {r.nullifiers[i] : i \in DOMAIN r.nullifiers}
    BY <1>2, <2>2, <2>3, SpentLog DEF KernelInv
  <2> QED BY <2>4 DEF L!insert_nullifiers, Abstraction
<1>9. UNCHANGED <<[k \in PoolKey |-> deposit_balance(k)], read_ledger.withdrawals>>
  BY <1>2 DEF Abstraction, deposit_balance
<1>10. L!Transfer(r, r, Here)
  BY <1>2, <1>3, <1>6, <1>7, <1>8, <1>9 DEF L!Transfer
<1>11. o \in L!Openings(read_ledger.notes)
  BY LedgerOpenings DEF Abstraction
<1>12. PICK cm \in [1..3 -> Commitment] : cm = <<cm_1, cm_2, cm_3>>
  <2>1. <<cm_1, cm_2, cm_3>> \in Seq(Commitment) /\ Len(<<cm_1, cm_2, cm_3>>) = 3
    OBVIOUS
  <2>2. \A cm \in Seq(Commitment) : Len(cm) = 3 => cm \in [1..3 -> Commitment]
    BY LenProperties
  <2> QED BY <2>1, <2>2
<1>13. r = L!TransferProof(o, cm) /\ L!TransferProvable(r, o.sum_in)
  BY <1>1, <1>12, SameTransferProofs
<1>14. r \in L!RelayedSpend(r, L!OtherTransfer(r, Len(read_ledger.notes)), Here)
  BY RelayedAsIs
<1> QED BY <1>4, <1>10, <1>11, <1>12, <1>13, <1>14 DEF L!TransferStep

\* An unshield.
LEMMA UnshieldImplements ==
  ASSUME SignedDomain \subseteq {Here}, KernelInv, KernelInv', Abstraction, Abstraction',
         NEW level, NEW r, NEW u, Unshielded(level, r, u)
  PROVE  L!UnshieldStep
<1>1. PICK o \in Openings(Notes), fee \in TxFee, recipient \in Recipient,
           cm_change \in Commitment \cup {ZERO}, cm_fee \in Commitment :
        r = UnshieldProof(o, fee, recipient, cm_change, cm_fee) /\ UnshieldProvable(r, o.sum_in)
  BY DEF Unshielded
<1>2. /\ prepare_unshield(DurableLedgerState(level), r, r, AuthDomain)
      /\ Applied(level, r, u)
      /\ Follows(tree, u, unshield_outputs(r), Sealed)
      /\ nullifier' = commit_nullifiers(nullifier, r.nullifiers)
      /\ withdrawal' = enqueue_withdrawal(WithdrawalRecord(r))
      /\ claims' = Append(claims, Claim(r))
      /\ UNCHANGED <<balance, applied_shield, shields>>
  BY DEF Unshielded
<1>3. /\ verifier # None /\ r.fee \in Nat /\ tree' = u /\ burned' = burned + r.fee
      /\ UNCHANGED deposited
  BY <1>2 DEF Applied
<1>4. AuthDomain = Here /\ Here \in Domain
  BY <1>3, HereInForce, CircuitsAssumption
<1>5. r.enc = Sealed /\ r.nullifiers = o.nullifiers
  BY <1>1 DEF UnshieldProof
<1>6. L!prepare_unshield(L!LedgerState, r, r, Here)
  <2>1. prepare_unshield(L!LedgerState, r, r, Here)
    BY <1>2, <1>3, <1>4, SameState, CircuitsAssumption
       DEF prepare_unshield, bound, spendable, ensure_note_capacity
  <2> QED BY <2>1, SameChecks
<1>7. L!append_and_snapshot(L!unshield_outputs(r), r.enc)
  <2>1. Len(unshield_outputs(r)) \in Nat \ {0}
    BY DEF unshield_outputs
  <2>2. ValidRoots' = snapshot_root(u)
    BY <1>2, <2>1, AppliedStore
  <2>3. L!append_and_snapshot(unshield_outputs(r), Sealed)
    BY <1>2, <1>3, <2>1, <2>2, AppendImplements
  <2> QED BY <1>5, <2>3, SameOutputs
<1>8. L!insert_nullifiers(r)
  <2>1. tree.size \in Nat
    BY CapacityAssumption DEF KernelInv, TreeInv, TreeOK
  <2>2. r.nullifiers \in Seq(Nat)
    BY <1>5, <2>1, OpeningLists
  <2>3. spendable(DurableLedgerState(level), r)
    BY <1>2 DEF prepare_unshield
  <2>4. nullifier'.marker = nullifier.marker \cup {r.nullifiers[i] : i \in DOMAIN r.nullifiers}
    BY <1>2, <2>2, <2>3, SpentLog DEF KernelInv
  <2> QED BY <2>4 DEF L!insert_nullifiers, Abstraction
<1>9. read_ledger.withdrawals'
        = Append(read_ledger.withdrawals, [recipient |-> r.recipient, amount |-> r.v_pub])
  <2> DEFINE record == WithdrawalRecord(r)
             n == withdrawal.count
             W == [i \in 1..n |-> withdrawal.at[i - 1]]
  <2>1. n \in Nat /\ DOMAIN withdrawal.at = 0..(n - 1)
    BY LenProperties DEF KernelInv, OutboxInv
  <2>2. /\ withdrawal'.count = n + 1
        /\ withdrawal'.at = [i \in DOMAIN withdrawal.at \cup {n} |->
                               IF i = n THEN record ELSE withdrawal.at[i]]
    BY <1>2 DEF enqueue_withdrawal, Write
  <2>3. PICK q : q = W
    OBVIOUS
  <2>4. PICK S : S = {q[i] : i \in 1..n} \cup {record}
    OBVIOUS
  <2>5. q \in [1..n -> S]
    BY <2>3, <2>4
  <2>6. q \in Seq(S) /\ Len(q) = n
    BY <2>1, <2>5, FunctionIsSeq
  <2>7. /\ Append(q, record) \in Seq(S) /\ Len(Append(q, record)) = n + 1
        /\ Append(q, record)[n + 1] = record
        /\ \A i \in 1..n : Append(q, record)[i] = q[i]
    BY <2>4, <2>6, AppendProperties
  <2>8. ASSUME NEW i \in 1..(n + 1) PROVE withdrawal'.at[i - 1] = Append(q, record)[i]
    <3>1. CASE i = n + 1
      <4>1. i - 1 = n
        BY <2>1, <3>1
      <4> QED BY <2>2, <2>7, <3>1, <4>1
    <3>2. CASE i # n + 1
      <4>1. i \in 1..n /\ i - 1 \in 0..(n - 1) /\ i - 1 # n
        BY <2>1, <3>2
      <4>2. withdrawal'.at[i - 1] = withdrawal.at[i - 1]
        BY <2>1, <2>2, <4>1
      <4> QED BY <2>3, <2>7, <4>1, <4>2
    <3> QED BY <3>1, <3>2
  <2>9. [i \in 1..withdrawal'.count |-> withdrawal'.at[i - 1]]
          = [i \in 1..(n + 1) |-> Append(q, record)[i]]
    BY <2>2, <2>8
  <2>10. PICK x : x = Append(q, record)
    OBVIOUS
  <2>11. x = [i \in 1..(n + 1) |-> x[i]]
    <3>1. x \in Seq(S) /\ Len(x) = n + 1
      BY <2>7, <2>10
    <3>2. x \in [1..(n + 1) -> S]
      BY <3>1, LenProperties
    <3> QED BY <3>2
  <2>12. [i \in 1..withdrawal'.count |-> withdrawal'.at[i - 1]] = Append(W, record)
    BY <2>3, <2>9, <2>10, <2>11
  <2> HIDE DEF record
  <2>13. read_ledger.withdrawals' = Append(read_ledger.withdrawals, record)
    BY <2>12 DEF Abstraction
  <2> QED BY <2>13 DEF record, WithdrawalRecord
<1>10. UNCHANGED [k \in PoolKey |-> deposit_balance(k)]
  BY <1>2 DEF deposit_balance
<1>11. L!commit_prepared_unshield(r)
  BY <1>2, <1>7, <1>8, <1>9, <1>10 DEF L!commit_prepared_unshield
<1>12. L!Unshield(r, r, Here)
  <2>1. L!Claim(r) = Claim(r)
    BY DEF L!Claim, Claim
  <2> QED BY <1>2, <1>3, <1>6, <1>11, <2>1 DEF L!Unshield
<1>13. o \in L!Openings(read_ledger.notes)
  BY LedgerOpenings DEF Abstraction
<1>14. r = L!UnshieldProof(o, fee, recipient, cm_change, cm_fee) /\ L!UnshieldProvable(r, o.sum_in)
  BY <1>1, SameUnshieldProofs
<1>15. r \in L!RelayedSpend(r, L!OtherUnshield(r, Len(read_ledger.notes)), Here)
  BY RelayedAsIs
<1> QED BY <1>4, <1>12, <1>13, <1>14, <1>15 DEF L!UnshieldStep

\* Every message is a step of the ledger, or none.
LEMMA StepImplements ==
  ASSUME SignedDomain \subseteq {Here}, KernelInv, KernelInv', Abstraction, Abstraction', [Next]_vars
  PROVE  [L!Next]_(L!vars)
<1>1. CASE UNCHANGED vars
  <2>1. ValidRoots' = ValidRoots
    BY <1>1 DEF vars, ValidRoots
  <2>2. UNCHANGED L!vars
    BY <1>1, <2>1, QuietStutters DEF vars
  <2> QED BY <2>2
<1>2. CASE Next
  <2>1. PICK level \in {l \in 1..MaxLevel : l >= input_level} :
          \/ InputIgnored(level)
          \/ InputRefused(level)
          \/ \E domain \in Domain, signature \in AdminSignature :
               configure_verifier(level, domain, signature)
          \/ \E contract \in Contract, signature \in AdminSignature :
               configure_bridge(level, contract, signature)
          \/ DepositStep(level)
          \/ \E s \in {DurableLedgerState(level)} :
               ShieldStep(level, s) \/ TransferStep(level, s) \/ UnshieldStep(level, s)
    BY <1>2 DEF Next
  <2>2. ASSUME root' \in {root, ValidRoots},
               UNCHANGED <<tree, nullifier, withdrawal, balance, applied_shield,
                           deposited, burned, shields, claims>>
        PROVE  UNCHANGED L!vars
    BY <2>2, QuietRoots, QuietStutters DEF KernelInv
  <2>3. CASE InputIgnored(level) \/ InputRefused(level)
    BY <2>2, <2>3 DEF InputIgnored, InputRefused, ensure_initialized, store
  <2>4. ASSUME NEW domain \in Domain, NEW signature \in AdminSignature,
               configure_verifier(level, domain, signature)
        PROVE  UNCHANGED L!vars
    BY <2>2, <2>4 DEF configure_verifier
  <2>5. ASSUME NEW contract \in Contract, NEW signature \in AdminSignature,
               configure_bridge(level, contract, signature)
        PROVE  UNCHANGED L!vars
    BY <2>2, <2>5 DEF configure_bridge, ensure_initialized
  <2>6. CASE DepositStep(level)
    BY <2>6, DepositImplements DEF L!Next
  <2>7. TreeOK(tree)
    BY DEF KernelInv, TreeInv
  <2>8. CASE ShieldStep(level, DurableLedgerState(level))
    BY <2>7, <2>8, ShieldEffect, ShieldImplements DEF L!Next
  <2>9. CASE TransferStep(level, DurableLedgerState(level))
    BY <2>7, <2>9, TransferEffect, TransferImplements DEF L!Next
  <2>10. CASE UnshieldStep(level, DurableLedgerState(level))
    BY <2>7, <2>10, UnshieldEffect, UnshieldImplements DEF L!Next
  <2> QED BY <2>1, <2>3, <2>4, <2>5, <2>6, <2>8, <2>9, <2>10
<1> QED BY <1>1, <1>2

\* The empty store is the ledger's initial state.
LEMMA InitImplements == Init => L!Init
<1> SUFFICES ASSUME Init PROVE L!Init
  OBVIOUS
<1>1. KernelInv /\ Abstraction
  BY InitKernel, AbstractState
<1>2. /\ tree.size = 0 /\ nullifier.marker = {} /\ withdrawal.count = 0
      /\ balance = [k \in PoolKey |-> Missing]
      /\ applied_shield = {} /\ deposited = 0 /\ burned = 0 /\ shields = <<>> /\ claims = <<>>
      /\ root.count = 0 /\ root.marker = {} /\ root.at = << >>
  BY DEF Init
<1>3. ValidRoots = LogInsert(root, tree.root)
  BY <1>2 DEF ValidRoots
<1>4. /\ ValidRoots.marker = {tree.root} /\ ValidRoots.count = 1
      /\ ValidRoots.at = [i \in DOMAIN << >> \cup {0} |-> IF i = 0 THEN tree.root ELSE << >>[i]]
  BY <1>2, <1>3 DEF LogInsert, Write
<1>5. ValidRoots.at[0] = tree.root
  BY <1>4
<1>6. Count(tree, tree.root) = 0
  <2>1. TreeOK(tree) /\ RootsOf(ValidRoots, tree) /\ tree.root \in ValidRoots.marker
    BY <1>1, <1>4 DEF KernelInv, TreeInv, RootInv
  <2>2. Count(tree, tree.root) \in 0..tree.size
    BY <2>1, CountsOfLog
  <2> QED BY <1>2, <2>2
<1>7. read_ledger.notes = <<>> /\ read_ledger.withdrawals = <<>> /\ read_ledger.nullifiers = {}
  BY <1>1, <1>2 DEF Abstraction, Notes
<1>8. {LeafCount(h) : h \in read_ledger.valid_roots} = {0}
  BY <1>1, <1>4, <1>6 DEF Abstraction
<1>9. [i \in 1..ValidRoots.count |-> LeafCount(ValidRoots.at[i - 1])] = <<0>>
  <2>1. \A i \in 1..1 : i - 1 = 0
    OBVIOUS
  <2>2. History = [i \in 1..1 |-> 0]
    BY <1>4, <1>5, <1>6, <2>1 DEF History
  <2> QED BY <1>1, <2>2 DEF Abstraction
<1>10. [k \in PoolKey |-> deposit_balance(k)] = [k \in PoolKey |-> 0]
  BY <1>2 DEF deposit_balance, Missing
<1> QED BY <1>2, <1>7, <1>8, <1>9, <1>10 DEF L!Init

\* The kernel implements the ledger: for every behaviour of the kernel, what
\* an observer reads from the durable store (read_ledger) takes exactly the
\* steps of apply_deposit, apply_shield, apply_transfer and apply_unshield over
\* the in-memory ledger, whatever else the inbox brings, provided the admin
\* signs a verifier configuration for this deployment's domain only.
THEOREM ImplementsTheLedger ==
  ASSUME SignedDomain \subseteq {Here}
  PROVE  Spec => ImplementsLedger
<1>1. Init => L!Init
  BY InitImplements
<1>2. KernelInv => Abstraction
  BY AbstractState
<1>3. KernelInv /\ KernelInv' /\ Abstraction /\ Abstraction' /\ [Next]_vars => [L!Next]_(L!vars)
  BY StepImplements
<1> QED BY <1>1, <1>2, <1>3, KernelInvariant, PTL DEF Spec, ImplementsLedger, L!Spec

-----------------------------------------------------------------------------
(***************************************************************************)
(* What is proved of the ledger holds of the kernel's store.  L and LP are *)
(* the same instance of Ledger; LP has its proofs.                         *)
(***************************************************************************)
LP == INSTANCE LedgerProofs WITH
  notes <- read_ledger.notes,
  nullifiers <- read_ledger.nullifiers,
  valid_roots <- {LeafCount(h) : h \in read_ledger.valid_roots},
  root_history <- [i \in 1..ValidRoots.count |-> LeafCount(ValidRoots.at[i - 1])],
  deposit_balances <- [k \in PoolKey |-> deposit_balance(k)],
  applied_shield_cms <- applied_shield,
  withdrawals <- read_ledger.withdrawals,
  MaxValidRoots <- Capacity + 1

\* The sums,
LEMMA BothTotal == \A f : L!Total(f) = LP!Total(f)
<1>1. \A f : L!Coins(f) = LP!Coins(f)
  BY DEF L!Coins, LP!Coins
<1>2. \A S : L!Cardinality(S) = LP!Cardinality(S)
  BY DEF L!Cardinality, LP!Cardinality
<1>3. \A f : L!Total(f) = L!Cardinality(LP!Coins(f))
  BY <1>1 DEF L!Total
<1> QED BY <1>2, <1>3 DEF LP!Total

\* the openings,
LEMMA BothOpenings == \A ns : L!Openings(ns) = LP!Openings(ns)
<1>1. \A ns, h, nfs : L!Opening(ns, h, nfs) = LP!Opening(ns, h, nfs)
  BY BothTotal DEF L!Opening, LP!Opening, L!SumIn, LP!SumIn
<1>2. \A n : L!NullifierLists(n) = LP!NullifierLists(n)
  BY DEF L!NullifierLists, LP!NullifierLists
<1>3. L!Forged = LP!Forged
  BY DEF L!Forged, LP!Forged
<1>4. ASSUME NEW ns PROVE L!Openings(ns) = LP!Openings(ns)
  <2> DEFINE F(h) == {L!Opening(ns, h, nfs) : nfs \in L!NullifierLists(h)}
             G(i) == L!Opening(ns, L!Forged, <<i>>)
             E(h) == {LP!Opening(ns, h, nfs) : nfs \in LP!NullifierLists(h)}
             H(i) == LP!Opening(ns, LP!Forged, <<i>>)
  <2>1. L!Openings(ns) = (UNION {F(h) : h \in 1..Len(ns)}) \cup {G(i) : i \in 1..Len(ns)}
    BY Zenon DEF L!Openings
  <2>2. LP!Openings(ns) = (UNION {E(h) : h \in 1..Len(ns)}) \cup {H(i) : i \in 1..Len(ns)}
    BY Zenon DEF LP!Openings
  <2>3. \A h : E(h) = F(h) /\ H(h) = G(h)
    BY <1>1, <1>2, <1>3
  <2> HIDE DEF E, F, G, H
  <2> QED BY <2>1, <2>2, <2>3
<1> QED BY <1>4

\* the proofs,
LEMMA BothProofs ==
  /\ \A k, cm, producer_cm, fee :
       L!ShieldProof(k, cm, producer_cm, fee) = LP!ShieldProof(k, cm, producer_cm, fee)
  /\ \A p : L!ShieldProvable(p) = LP!ShieldProvable(p)
  /\ \A o, cm : L!TransferProof(o, cm) = LP!TransferProof(o, cm)
  /\ \A p, sum_in : L!TransferProvable(p, sum_in) = LP!TransferProvable(p, sum_in)
  /\ \A o, fee, recipient, cm_change, cm_fee :
       L!UnshieldProof(o, fee, recipient, cm_change, cm_fee)
         = LP!UnshieldProof(o, fee, recipient, cm_change, cm_fee)
  /\ \A p, sum_in : L!UnshieldProvable(p, sum_in) = LP!UnshieldProvable(p, sum_in)
BY DEF L!ShieldProof, LP!ShieldProof, L!ShieldProvable, LP!ShieldProvable, L!TransferProof,
  LP!TransferProof, L!TransferProvable, LP!TransferProvable, L!UnshieldProof, LP!UnshieldProof,
  L!UnshieldProvable, LP!UnshieldProvable, L!Remainder, LP!Remainder, L!ValueOrZero, LP!ValueOrZero,
  L!Sealed, LP!Sealed, L!Forged, LP!Forged, L!Amount, LP!Amount

\* how they are relayed,
LEMMA BothRelayed ==
  /\ \A p, d : L!RelayedShield(p, L!OtherShield(p), d) = LP!RelayedShield(p, LP!OtherShield(p), d)
  /\ \A p, n, d : L!RelayedSpend(p, L!OtherTransfer(p, n), d) = LP!RelayedSpend(p, LP!OtherTransfer(p, n), d)
  /\ \A p, n, d : L!RelayedSpend(p, L!OtherUnshield(p, n), d) = LP!RelayedSpend(p, LP!OtherUnshield(p, n), d)
<1>1. \A p, other : L!Relayed(p, other) = LP!Relayed(p, other)
  BY DEF L!Relayed, LP!Relayed
<1>2. /\ \A x, S : L!OtherOf(x, S) = LP!OtherOf(x, S)
      /\ \A x : L!Bump(x) = LP!Bump(x) /\ L!OtherCm(x) = LP!OtherCm(x)
      /\ L!Altered = LP!Altered /\ L!Forged = LP!Forged
  BY DEF L!OtherOf, LP!OtherOf, L!Bump, LP!Bump, L!OtherCm, LP!OtherCm, L!Altered, LP!Altered,
     L!Forged, LP!Forged
<1>3. \A nfs, n : L!OtherInput(nfs, n) = LP!OtherInput(nfs, n)
  BY <1>2 DEF L!OtherInput, LP!OtherInput
<1>4. \A p : L!OtherShield(p) = LP!OtherShield(p)
  BY <1>2 DEF L!OtherShield, LP!OtherShield
<1>5. \A p, n : /\ L!OtherTransfer(p, n) = LP!OtherTransfer(p, n)
                /\ L!OtherUnshield(p, n) = LP!OtherUnshield(p, n)
  BY <1>2, <1>3 DEF L!OtherTransfer, LP!OtherTransfer, L!OtherUnshield, LP!OtherUnshield
<1>6. \A p, other, d : L!RelayedShield(p, other, d) = LP!RelayedShield(p, other, d)
  BY <1>1 DEF L!RelayedShield, LP!RelayedShield
<1>7. \A p, other, d : L!RelayedSpend(p, other, d) = LP!RelayedSpend(p, other, d)
  BY <1>1, <1>2 DEF L!RelayedSpend, LP!RelayedSpend
<1> QED BY <1>4, <1>5, <1>6, <1>7

\* the checks,
LEMMA BothChecks ==
  /\ L!LedgerState = LP!LedgerState
  /\ \A s, r, p, d : L!prepare_shield(s, r, p, d) = LP!prepare_shield(s, r, p, d)
  /\ \A s, r, p, d : L!prepare_transfer(s, r, p, d) = LP!prepare_transfer(s, r, p, d)
  /\ \A s, r, p, d : L!prepare_unshield(s, r, p, d) = LP!prepare_unshield(s, r, p, d)
BY DEF L!LedgerState, LP!LedgerState, L!prepare_shield, LP!prepare_shield, L!prepare_transfer,
  LP!prepare_transfer, L!prepare_unshield, LP!prepare_unshield, L!debit, LP!debit, L!bound, LP!bound,
  L!ensure_note_capacity, LP!ensure_note_capacity, L!spendable, LP!spendable, L!unshield_outputs,
  LP!unshield_outputs, L!Malformed, LP!Malformed

\* the commits,
LEMMA BothCommits ==
  /\ \A r : L!commit_prepared_shield(r) => LP!commit_prepared_shield(r)
  /\ \A r : L!commit_prepared_unshield(r) => LP!commit_prepared_unshield(r)
  /\ \A cms, enc : L!append_and_snapshot(cms, enc) => LP!append_and_snapshot(cms, enc)
  /\ \A r : L!insert_nullifiers(r) => LP!insert_nullifiers(r)
<1>1. \A cms, enc : L!append_and_snapshot(cms, enc) => LP!append_and_snapshot(cms, enc)
  BY DEF L!append_and_snapshot, LP!append_and_snapshot
<1>2. \A r : L!insert_nullifiers(r) => LP!insert_nullifiers(r)
  BY DEF L!insert_nullifiers, LP!insert_nullifiers
<1>3. \A r : L!commit_prepared_shield(r) => LP!commit_prepared_shield(r)
  BY <1>1 DEF L!commit_prepared_shield, LP!commit_prepared_shield, L!debit, LP!debit,
     L!shield_outputs, LP!shield_outputs
<1>4. \A r : L!commit_prepared_unshield(r) => LP!commit_prepared_unshield(r)
  BY <1>1, <1>2 DEF L!commit_prepared_unshield, LP!commit_prepared_unshield,
     L!unshield_outputs, LP!unshield_outputs
<1> QED BY <1>1, <1>2, <1>3, <1>4

\* and so the steps.
LEMMA BothNext == L!Next => LP!Next
<1>1. L!DepositStep => LP!DepositStep
  BY DEF L!DepositStep, LP!DepositStep, L!Deposit, LP!Deposit, L!Amount, LP!Amount
<1>2. \A r, p, d : L!Shield(r, p, d) => LP!Shield(r, p, d)
  BY BothChecks, BothCommits DEF L!Shield, LP!Shield
<1>3. \A r, p, d : L!Transfer(r, p, d) => LP!Transfer(r, p, d)
  BY BothChecks, BothCommits DEF L!Transfer, LP!Transfer, L!transfer_outputs, LP!transfer_outputs
<1>4. \A r, p, d : L!Unshield(r, p, d) => LP!Unshield(r, p, d)
  BY BothChecks, BothCommits DEF L!Unshield, LP!Unshield, L!Claim, LP!Claim
<1>5. L!ShieldStep => LP!ShieldStep
  BY <1>2, BothProofs, BothRelayed DEF L!ShieldStep, LP!ShieldStep
<1>6. L!TransferStep => LP!TransferStep
  BY <1>3, BothProofs, BothRelayed, BothOpenings DEF L!TransferStep, LP!TransferStep
<1>7. L!UnshieldStep => LP!UnshieldStep
  BY <1>4, BothProofs, BothRelayed, BothOpenings DEF L!UnshieldStep, LP!UnshieldStep
<1> QED BY <1>1, <1>5, <1>6, <1>7 DEF L!Next, LP!Next

\* The assumptions of Ledger hold of the kernel's constants.
LEMMA LedgerConstants ==
  /\ U64Max \in Nat
  /\ Value \in [Commitment -> 0..U64Max]
  /\ ZERO \notin Commitment
  /\ Here \in Domain
  /\ MaxInputs \in Nat \ {0}
  /\ MinTxFee \in 1..U64Max
  /\ TxFee \subseteq 0..U64Max
  /\ LP!IsFiniteSet(PoolKey) /\ LP!IsFiniteSet(Commitment)
  /\ Capacity \in Nat
  /\ Capacity + 1 \in Nat \ {0}
  /\ MaxDeposited \in Nat
<1>1. \A S : IsFiniteSet(S) => LP!IsFiniteSet(S)
  BY DEF IsFiniteSet, LP!IsFiniteSet
<1> QED BY <1>1, CircuitsAssumption, CapacityAssumption, KernelAssumption

\* The kernel keeps what the ledger promises of the store an observer reads:
\* the coins deposited are those in pools, unspent notes, the withdrawal queue
\* and burned fees; the withdrawals queued for L1 are the owners' own; no
\* shield is applied twice; every note can be recovered by its owner; and the
\* accepted roots are those of the tree.
THEOREM KernelKeepsLedger ==
  ASSUME SignedDomain \subseteq {Here}
  PROVE  Spec => [](/\ L!Conservation
                    /\ L!WithdrawalsAsSigned
                    /\ L!ShieldOnce
                    /\ L!NotesRecoverable
                    /\ L!RootWindow)
<1> DEFINE Kept == /\ L!Conservation
                   /\ L!WithdrawalsAsSigned
                   /\ L!ShieldOnce
                   /\ L!NotesRecoverable
                   /\ L!RootWindow
<1>1. L!Init => LP!IndInv
  <2>1. L!Init => LP!Init
    BY DEF L!Init, LP!Init
  <2>2. LP!Init => LP!IndInv
    BY LedgerConstants, LP!InitInv
  <2> QED BY <2>1, <2>2
<1>2. LP!IndInv /\ [L!Next]_(L!vars) => LP!IndInv'
  <2>1. [L!Next]_(L!vars) => [LP!Next]_(LP!vars)
    <3>1. L!vars' = L!vars => LP!vars' = LP!vars
      BY DEF L!vars, LP!vars
    <3> QED BY <3>1, BothNext
  <2>2. LP!IndInv /\ [LP!Next]_(LP!vars) => LP!IndInv'
    BY LedgerConstants, LP!StepInv
  <2> QED BY <2>1, <2>2
<1>3. LP!IndInv => Kept
  <2> SUFFICES ASSUME LP!IndInv PROVE Kept
    OBVIOUS
  <2>1. /\ LP!Conservation /\ LP!WithdrawalsAsSigned /\ LP!ShieldOnce /\ LP!NotesRecoverable
        /\ LP!RootWindow
    BY DEF LP!IndInv, LP!Safe
  <2>2. L!Conservation
    BY <2>1, BothTotal DEF L!Conservation, LP!Conservation, L!ValuesAt, LP!ValuesAt,
       L!Unspent, LP!Unspent, L!Withdrawn, LP!Withdrawn
  <2>3. L!WithdrawalsAsSigned /\ L!ShieldOnce /\ L!NotesRecoverable
    BY <2>1 DEF L!WithdrawalsAsSigned, LP!WithdrawalsAsSigned, L!ShieldOnce, LP!ShieldOnce,
       L!NotesRecoverable, LP!NotesRecoverable, L!Sealed, LP!Sealed
  <2>4. L!RootWindow
    BY <2>1 DEF L!RootWindow, LP!RootWindow, L!Root, LP!Root
  <2> QED BY <2>1, <2>2, <2>3, <2>4
<1>4. Spec => L!Init /\ [][L!Next]_(L!vars)
  BY ImplementsTheLedger DEF ImplementsLedger, L!Spec
<1> HIDE DEF Kept
<1>5. Spec => []Kept
  BY <1>1, <1>2, <1>3, <1>4, PTL
<1> QED BY <1>5 DEF Kept
=============================================================================
