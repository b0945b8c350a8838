-------------------------------- MODULE Merkle --------------------------------
(***************************************************************************)
(* The Merkle trees of src/tc_ledger/ledger.py: over the captured lines of *)
(* an export, and over evidence ids.                                       *)
(*                                                                         *)
(* A digest is any 32-byte value.  Committed are the digests of trees that *)
(* honest exports have; Span tells the lines under them.  That SHA-256 is  *)
(* collision resistant means for a verifier that a committed digest comes  *)
(* out of a hash only if the one preimage known for it went in.  Nothing   *)
(* is assumed of other digests, nor that a tree of those lines has a       *)
(* committed digest.                                                       *)
(***************************************************************************)
EXTENDS Naturals, Sequences

CONSTANTS
    Lines,                \* what a line of an export may be, as bytes
    Digests,
    EmptyDigest,          \* SHA-256 of nothing: the root of an empty export
    export_leaf_hash(_),  \* SHA-256 of 0x00 and a line
    node_hash(_, _),      \* SHA-256 of 0x01 and two digests
    Committed,
    Span,
    Exports,              \* the exports a trusted root may be of
    MaxSize               \* bound: the tree sizes a proof may claim

ASSUME HashAssumption ==
    /\ Committed \subseteq Digests
    /\ Span \in [Committed -> Seq(Lines)]
    /\ EmptyDigest \in Committed /\ Span[EmptyDigest] = << >>
    /\ \A x \in Lines : /\ export_leaf_hash(x) \in Digests
                        /\ export_leaf_hash(x) \in Committed => Span[export_leaf_hash(x)] = <<x>>
    /\ \A l, r \in Digests :
          /\ node_hash(l, r) \in Digests
          /\ node_hash(l, r) \in Committed =>
                /\ l \in Committed /\ r \in Committed
                /\ Span[node_hash(l, r)] = Span[l] \o Span[r]
                /\ \A x, y \in Digests : node_hash(x, y) = node_hash(l, r) => x = l /\ y = r

ASSUME ExportsAssumption == Exports \subseteq Seq(Lines) /\ MaxSize \in Nat

-----------------------------------------------------------------------------
(* The tree, level by level *)

\* Nodes are paired; an odd one at the end is promoted.
next_level(level) ==
    [i \in 1..((Len(level) + 1) \div 2) |->
        IF 2 * i > Len(level) THEN level[2 * i - 1]
                              ELSE node_hash(level[2 * i - 1], level[2 * i])]

\* Levels are built until one is a single node.
top_level ==
    LET top[level \in Seq(Digests)] == IF Len(level) <= 1 THEN level ELSE top[next_level(level)]
    IN  top

root_of(leaves) == IF leaves = << >> THEN EmptyDigest ELSE top_level[leaves][1]

_export_leaves(raw_lines) == [i \in DOMAIN raw_lines |-> export_leaf_hash(raw_lines[i])]

export_merkle_root(raw_lines) == root_of(_export_leaves(raw_lines))

-----------------------------------------------------------------------------
(* Inclusion *)

\* A climb begins at a leaf and is at a node: <<level, index>>, index counting from 0.
\* Its sibling, none if the node is promoted.
Sibling(level, i) ==
    IF i % 2 = 1 THEN << [sibling |-> level[i], position |-> "left"] >>
    ELSE IF i + 1 < Len(level) THEN << [sibling |-> level[i + 2], position |-> "right"] >>
    ELSE << >>

path_above ==
    LET path[at \in Seq(Digests) \X Nat] ==
            IF Len(at[1]) <= 1 THEN << >>
            ELSE Sibling(at[1], at[2]) \o path[<<next_level(at[1]), at[2] \div 2>>]
    IN  path

\* The audit path of a leaf, bottom up.
export_merkle_proof(raw_lines, index) == path_above[<<_export_leaves(raw_lines), index>>]

\* From the shape alone, a node is <<size of its level, index>>.
SideOf(size, i) == IF i % 2 = 1 THEN << "left" >>
                   ELSE IF i + 1 < size THEN << "right" >> ELSE << >>

sides_above ==
    LET sides[at \in Nat \X Nat] ==
            IF at[1] <= 1 THEN << >>
            ELSE SideOf(at[1], at[2]) \o sides[<<(at[1] + 1) \div 2, at[2] \div 2>>]
    IN  sides

\* Mutant: the index is not carried up with the level.
directions_at_leaf(tree_size, leaf_index) ==
    sides_above[<<tree_size, leaf_index % 2>>]

\* The sides of the siblings on the way up from a leaf.
expected_proof_directions(tree_size, leaf_index) == sides_above[<<tree_size, leaf_index>>]

-----------------------------------------------------------------------------
(* Consistency, RFC 6962 *)

\* The largest power of two below n, for n > 1.
split_point ==
    LET split[n \in Nat] == IF n <= 2 THEN 1 ELSE 2 * split[(n + 1) \div 2]
    IN  split

\* A part of a tree: <<its leaves, how many of them the old tree has, whether the
\* verifier knows the root of those>>.
Parts == {at \in Seq(Digests) \X Nat \X BOOLEAN : at[2] \in 1..Len(at[1])}

FirstHalf(leaves)  == SubSeq(leaves, 1, split_point[Len(leaves)])
SecondHalf(leaves) == SubSeq(leaves, split_point[Len(leaves)] + 1, Len(leaves))

_subproof ==
    LET f[at \in Parts] ==
            LET k == split_point[Len(at[1])]
            IN  IF at[2] = Len(at[1])
                THEN IF at[3] THEN << >> ELSE << root_of(at[1]) >>
                ELSE IF at[2] <= k
                THEN f[<<FirstHalf(at[1]), at[2], at[3]>>] \o << root_of(SecondHalf(at[1])) >>
                ELSE f[<<SecondHalf(at[1]), at[2] - k, FALSE>>] \o << root_of(FirstHalf(at[1])) >>
    IN  f

consistency_proof(m, raw_lines) ==
    IF m \in {0, Len(raw_lines)} THEN << >>
    ELSE _subproof[<<_export_leaves(raw_lines), m, TRUE>>]
=============================================================================
