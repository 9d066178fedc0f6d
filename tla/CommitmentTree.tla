--------------------------- MODULE CommitmentTree ---------------------------
(***************************************************************************)
(* One append-only tree kept twice: as the leaves a wallet replays and as  *)
(* the frontier the kernel stores.                                         *)
(***************************************************************************)
EXTENDS Merkle

CONSTANT Commitment

ASSUME TreeAssumption == Depth \in Nat /\ ZERO \notin Commitment

VARIABLES
  leaves,     \* MerkleTree::leaves
  branches,   \* the kernel's frontier
  root        \* the kernel's tree root

vars == <<leaves, branches, root>>

Init ==
  /\ leaves = <<>>
  /\ branches = << >>
  /\ root = zero_hashes[Depth]

\* MerkleTree::append next to the kernel's append.
AppendLeaf(cm) ==
  LET after == simulate_frontier_append(branches, Len(leaves), cm)
  IN  /\ Len(leaves) < Pow2[Depth]
      /\ after.ok
      /\ leaves' = Append(leaves, cm)
      /\ branches' = after.branches
      /\ root' = after.root

Next == \E cm \in Commitment : AppendLeaf(cm)

Spec == Init /\ [][Next]_vars

-----------------------------------------------------------------------------
\* The kernel's root, kept with one node per level, and the wallet's, rebuilt
\* from all the leaves, are both the root of the complete tree: a witness a
\* wallet builds is against a root the kernel knows.
RootsAgree ==
  /\ tree_root(leaves) = ReferenceRoot(leaves)
  /\ root = ReferenceRoot(leaves)

\* The path of every leaf verifies in the circuit.
PathsVerify ==
  \A i \in 0..(Len(leaves) - 1) :
    verify(leaves[i + 1], root, auth_path(leaves, i), i)

\* A path that verifies proves its leaf at one index only, an index of the
\* tree: a second index for the same leaf would be a second nullifier.
OneIndexPerPath ==
  \A i \in 0..(Len(leaves) - 1), index \in 0..(Pow2[Depth + 1] - 1), cm \in Commitment :
    verify(cm, root, auth_path(leaves, i), index) =>
      index < Pow2[Depth] /\ Leaf(leaves, index) = cm

\* The frontier never misses a live left node: until 2^Depth leaves are in,
\* no append fails, which the kernel could not undo halfway through a transfer.
FrontierLive ==
  /\ assert_frontier_matches_tree_size(branches, Len(leaves))
  /\ Len(leaves) < Pow2[Depth] =>
       \A cm \in Commitment : simulate_frontier_append(branches, Len(leaves), cm).ok
=============================================================================
