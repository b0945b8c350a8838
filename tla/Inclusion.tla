------------------------------ MODULE Inclusion ------------------------------
(***************************************************************************)
(* Verification of inclusion proofs (ledger.py): what                      *)
(* verify_export_inclusion_proof makes of a line, a claimed position and   *)
(* an audit path that anybody may have made up, when the caller trusts a   *)
(* root.  The path is chosen node by node, as the loop reads it.           *)
(*                                                                         *)
(* WholeExport tells the caller apart who has the export itself            *)
(* (verify_inclusion_proof_artifact) from one who has only the root.       *)
(***************************************************************************)
EXTENDS Merkle

VARIABLES
    export,       \* the export the trusted root is of
    line,         \* raw_line_bytes
    index,        \* leaf_index
    size,         \* tree_size
    wholeExport,  \* BOOLEAN
    honestPath,   \* BOOLEAN: whether build_inclusion_proof_artifact made the proof
    inclusion,    \* "shape", "path", "valid" or "invalid"
    sides,        \* the directions still to come
    current       \* the digest recomputed so far

claimed == <<export, line, index, size, wholeExport, honestPath>>
inclusionVars == <<claimed, inclusion, sides, current>>

root == export_merkle_root(export)

positions == 0..(size - 1)

\* build_inclusion_proof_artifact: the line is the one at its place.
InclusionInit ==
    /\ export \in Exports \ {<< >>}
    /\ wholeExport \in BOOLEAN
    /\ honestPath \in BOOLEAN
    /\ size \in IF honestPath THEN {Len(export)} ELSE 1..MaxSize
    /\ index \in positions
    /\ line \in IF honestPath THEN {export[index + 1]} ELSE Lines
    /\ inclusion = "shape"
    /\ sides = << >>
    /\ current = EmptyDigest

\* verify_inclusion_proof_artifact takes the line at the claimed place itself.
FitsExport == wholeExport => /\ size = Len(export)
                             /\ line = export[index + 1]

Shape == /\ inclusion = "shape"
         /\ IF FitsExport
            THEN /\ inclusion' = "path"
                 /\ sides' = expected_proof_directions(size, index)
                 /\ current' = export_leaf_hash(line)
            ELSE /\ inclusion' = "invalid"
                 /\ UNCHANGED <<sides, current>>
         /\ UNCHANGED claimed

HashIn(node) == IF Head(sides) = "left" THEN node_hash(node, current)
                                        ELSE node_hash(current, node)

\* The path an honest prover built, and its next node.
HonestPath == export_merkle_proof(export, index)
HonestNext == HonestPath[Len(HonestPath) - Len(sides) + 1]
PathFits == [i \in DOMAIN HonestPath |-> HonestPath[i].position]
               = expected_proof_directions(size, index)

Step(node) == /\ inclusion = "path" /\ sides # << >>
              /\ honestPath => PathFits /\ node = HonestNext.sibling
              /\ current' = HashIn(node)
              /\ sides' = Tail(sides)
              /\ UNCHANGED <<claimed, inclusion>>

\* Mutant: the recomputed digest is not compared with the trusted root.
TrustsLeaf == current \in Digests

ReachesRoot == current = root

CompareRoot == /\ inclusion = "path" /\ sides = << >>
               /\ inclusion' = IF ReachesRoot THEN "valid" ELSE "invalid"
               /\ UNCHANGED <<claimed, sides, current>>

\* The path is not of the length, or its siblings not on the sides, expected.
WrongPath == /\ inclusion = "path"
             /\ honestPath => ~PathFits
             /\ inclusion' = "invalid"
             /\ UNCHANGED <<claimed, sides, current>>

InclusionNext == Shape \/ (\E node \in Digests : Step(node)) \/ CompareRoot \/ WrongPath

InclusionSpec == InclusionInit /\ [][InclusionNext]_inclusionVars

-----------------------------------------------------------------------------
(* Properties *)

\* Types of the state; a proof never gets past the index check with an index beyond its tree.
InclusionTypeOK ==
    /\ export \in Exports
    /\ line \in Lines
    /\ index \in Nat /\ size \in Nat /\ index < size
    /\ wholeExport \in BOOLEAN
    /\ honestPath \in BOOLEAN
    /\ inclusion \in {"shape", "path", "valid", "invalid"}
    /\ sides \in Seq({"left", "right"})
    /\ current \in Digests

Among(x, lines) == \E i \in DOMAIN lines : lines[i] = x

\* A proof that is valid under a trusted root is of a line of that export, whatever
\* position, tree size and path it claims; and where the tree size is known to be that of
\* the export, of the line at the claimed index, not merely of one somewhere.
Included == inclusion = "valid" /\ root \in Committed =>
                /\ Among(line, Span[root])
                /\ size = Len(export) => line = export[index + 1]

\* A proof that was built from the export is accepted, whichever line it is of.
InclusionComplete == honestPath => inclusion # "invalid"
=============================================================================
