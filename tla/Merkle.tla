------------------------------- MODULE Merkle -------------------------------
(***************************************************************************)
(* The commitment tree as the code computes it, three times over:          *)
(*   - MerkleTree of core/src/lib.rs rebuilds every level from the leaves  *)
(*     (wallet witnesses, in-memory ledger);                               *)
(*   - the kernel keeps one left node per level, the frontier, and folds   *)
(*     each new leaf into it (tezos/rollup-kernel/src/lib.rs);             *)
(*   - the circuits recompute a root from a leaf and its siblings          *)
(*     (cairo/src/merkle.cairo).                                           *)
(* The hash is collision-free: a node is the pair of its children.         *)
(***************************************************************************)
EXTENDS Integers, Sequences

CONSTANTS
  Depth,   \* levels above the leaves (DEPTH, 48 in the code)
  ZERO     \* the empty leaf

hash_merkle(left, right) == <<left, right>>

\* The store once value is written at path.
Write(at, path, value) ==
  [p \in DOMAIN at \cup {path} |-> IF p = path THEN value ELSE at[p]]

\* The root of an empty subtree, per level.
zero_hashes[l \in 0..Depth] ==
  IF l = 0 THEN ZERO ELSE hash_merkle(zero_hashes[l - 1], zero_hashes[l - 1])

\* 1 << l
Pow2[l \in Nat] == IF l = 0 THEN 1 ELSE 2 * Pow2[l - 1]

\* The position, in each level, of the node over leaf index (both 0-based):
\* every loop up the tree halves the index.
Positions(index) ==
  LET P[l \in 0..Depth] == IF l = 0 THEN index ELSE P[l - 1] \div 2
  IN  P

\* Is the node at level l a right child?
Bit(index, l) == Positions(index)[l] % 2

-----------------------------------------------------------------------------
(***************************************************************************)
(* MerkleTree (core).                                                      *)
(***************************************************************************)
NodeOrZero(level, i, d) == IF i <= Len(level) THEN level[i] ELSE zero_hashes[d]

\* One round of compute_level: a level's nodes in pairs, the last one with a
\* zero hash if it is alone; an empty level still has one parent.
next_level(level, d) ==
  [i \in 1..(IF level = <<>> THEN 1 ELSE (Len(level) + 1) \div 2) |->
     hash_merkle(NodeOrZero(level, 2 * i - 1, d), NodeOrZero(level, 2 * i, d))]

levels(leaves) ==
  LET L[d \in 0..Depth] ==
        IF d = 0 THEN leaves ELSE next_level(L[d - 1], d - 1)
  IN  L

tree_root(leaves) == NodeOrZero(levels(leaves)[Depth], 1, Depth)

\* Mutant: the sibling is always the node to the right.
auth_path_right_sibling(leaves, index) ==
  LET L == levels(leaves)
  IN  [d \in 1..Depth |-> NodeOrZero(L[d - 1], Positions(index)[d - 1] + 2, d - 1)]

\* The siblings on the way from leaf index (0-based) to the root.
auth_path(leaves, index) ==
  LET L == levels(leaves)
      sibling(i) == IF i % 2 = 0 THEN i + 1 ELSE i - 1
  IN  [d \in 1..Depth |-> NodeOrZero(L[d - 1], sibling(Positions(index)[d - 1]) + 1, d - 1)]

-----------------------------------------------------------------------------
(***************************************************************************)
(* merkle::verify (circuits).                                              *)
(***************************************************************************)
RootFrom(leaf, siblings, path_indices) ==
  LET W[d \in 0..Depth] ==
        IF d = 0 THEN leaf
        ELSE IF Bit(path_indices, d - 1) = 1
             THEN hash_merkle(siblings[d], W[d - 1])
             ELSE hash_merkle(W[d - 1], siblings[d])
  IN  W[Depth]

\* Mutant: indices beyond the tree are not refused.
verify_any_index(leaf, root, siblings, path_indices) ==
  /\ Len(siblings) = Depth
  /\ RootFrom(leaf, siblings, path_indices) = root

verify(leaf, root, siblings, path_indices) ==
  /\ Len(siblings) = Depth
  /\ Positions(path_indices)[Depth] = 0
  /\ RootFrom(leaf, siblings, path_indices) = root

-----------------------------------------------------------------------------
(***************************************************************************)
(* The kernel's frontier: level -> the left node waiting for its sibling.  *)
(* A level never written has no entry.                                     *)
(***************************************************************************)
\* Every level where the next leaf will be combined with a left node has one.
assert_frontier_matches_tree_size(branches, size) ==
  \A l \in 0..(Depth - 1) : Bit(size, l) = 1 => l \in DOMAIN branches

\* Mutants: a left node is stored only once per level, or not at level 0.
write_branch_once(branches, l, node) ==
  IF l \in DOMAIN branches THEN branches ELSE Write(branches, l, node)
write_branch_above_leaves(branches, l, node) ==
  IF l = 0 THEN branches ELSE Write(branches, l, node)

write_branch(branches, l, node) == Write(branches, l, node)

\* Fold leaf cm at position index into the frontier: the new branches and the
\* new root, or not ok, with the branches written so far, when a live left
\* node is missing.  append_note runs the same loop on the store.
simulate_frontier_append(branches, index, cm) ==
  LET Climb[l \in 0..Depth] ==
        IF l = 0 THEN [ok |-> TRUE, root |-> cm, branches |-> branches]
        ELSE LET at == Climb[l - 1]
                 b == at.branches
             IN  CASE ~at.ok -> at
                   [] at.ok /\ Bit(index, l - 1) = 0 ->
                        [at EXCEPT !.branches = write_branch(b, l - 1, at.root),
                                   !.root = hash_merkle(@, zero_hashes[l - 1])]
                   [] at.ok /\ Bit(index, l - 1) = 1 /\ l - 1 \in DOMAIN b ->
                        [at EXCEPT !.root = hash_merkle(b[l - 1], @)]
                   [] OTHER -> [at EXCEPT !.ok = FALSE]
  IN  Climb[Depth]

-----------------------------------------------------------------------------
(***************************************************************************)
(* Reference: the complete binary tree of 2^Depth leaves, empty ones ZERO. *)
(***************************************************************************)
Leaf(leaves, i) == IF i < Len(leaves) THEN leaves[i + 1] ELSE ZERO

\* Its levels, from the leaves up.
Complete(leaves) ==
  LET N[l \in 0..Depth] ==
        IF l = 0 THEN [i \in 0..(Pow2[Depth] - 1) |-> Leaf(leaves, i)]
        ELSE [i \in 0..(Pow2[Depth - l] - 1) |->
                hash_merkle(N[l - 1][2 * i], N[l - 1][2 * i + 1])]
  IN  N

ReferenceRoot(leaves) == Complete(leaves)[Depth][0]
=============================================================================
