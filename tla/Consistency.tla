----------------------------- MODULE Consistency -----------------------------
(***************************************************************************)
(* Verification of consistency proofs (ledger.py): what                    *)
(* verify_consistency_proof_artifact makes of two roots the caller trusts, *)
(* of two tree sizes that the artifact claims and of a proof anybody may   *)
(* have made up.  The proof is chosen node by node, as the loop reads it.  *)
(*                                                                         *)
(* The code shifts two indices through the levels of the trees; what is    *)
(* left of them, fn_index and sn_index, are the variables fi and si.       *)
(***************************************************************************)
EXTENDS Merkle

VARIABLES
    old, new,     \* the exports the two roots are of
    m, n,         \* old_tree_size, new_tree_size
    sizesGiven,   \* BOOLEAN: the caller passed both expected tree sizes
    honestProof,  \* BOOLEAN: whether build_consistency_proof_artifact made the artifact
    consistency,  \* "sizes", "path", "valid" or "invalid"
    read,         \* how many proof nodes have been read
    fn, sn,       \* the old and the new root recomputed so far
    fi, si        \* fn_index, sn_index

given == <<old, new, m, n, sizesGiven, honestProof>>
consistencyVars == <<given, consistency, read, fn, sn, fi, si>>

old_root == export_merkle_root(old)
new_root == export_merkle_root(new)
Proof == consistency_proof(m, new)

\* build_consistency_proof_artifact: the old export is checked to be a prefix.
IsBuilt == /\ m = Len(old) /\ n = Len(new)
           /\ m <= n
           /\ \A i \in 1..m : new[i] = old[i]

\* The checks of verify_consistency_proof_artifact on the sizes.
SizesMatch == sizesGiven => m = Len(old) /\ n = Len(new)

ConsistencyInit ==
    /\ old \in Exports /\ new \in Exports
    /\ m \in 0..MaxSize /\ n \in 0..MaxSize
    /\ sizesGiven \in BOOLEAN
    /\ honestProof \in BOOLEAN
    /\ honestProof => IsBuilt
    /\ consistency = "sizes"
    /\ read = 0
    /\ fn = EmptyDigest /\ sn = EmptyDigest
    /\ fi = 0 /\ si = 0

IsPowerOfTwo ==
    LET one_bit[k \in Nat] == IF k <= 1 THEN k = 1 ELSE k % 2 = 0 /\ one_bit[k \div 2]
    IN  one_bit

\* Both indices go up a level while the first is odd.
StripOdd ==
    LET strip[at \in Nat \X Nat] ==
            IF at[1] % 2 = 1 THEN strip[<<at[1] \div 2, at[2] \div 2>>] ELSE at
    IN  strip

\* Both indices go up a level while the first is even and not yet 0.
StripEven ==
    LET strip[at \in Nat \X Nat] ==
            IF at[1] % 2 = 0 /\ at[1] # 0 THEN strip[<<at[1] \div 2, at[2] \div 2>>] ELSE at
    IN  strip

\* Proofs that need no node: equal trees, and the empty tree.
Trivial == IF m = n THEN old_root = new_root ELSE m = 0 /\ old_root = EmptyDigest

\* m = n or m = 0: no proof node is allowed.
Equal == /\ consistency = "sizes"
         /\ SizesMatch /\ m <= n /\ m \in {0, n}
         /\ consistency' = IF Trivial THEN "valid" ELSE "invalid"
         /\ UNCHANGED <<given, read, fn, sn, fi, si>>

\* Mutant: the indices are confused.
IndicesSwapped == StripOdd[<<n - 1, m - 1>>]

Indices == StripOdd[<<m - 1, n - 1>>]

\* The old root starts both when its tree is a perfect one, else the first node does.
Begin(node) == /\ consistency = "sizes"
               /\ SizesMatch /\ m <= n /\ m \notin {0, n}
               /\ IF IsPowerOfTwo[m]
                  THEN fn' = old_root /\ sn' = old_root /\ read' = 0
                  ELSE /\ honestProof => node = Proof[1]
                       /\ fn' = node /\ sn' = node /\ read' = 1
               /\ fi' = Indices[1] /\ si' = Indices[2]
               /\ consistency' = "path"
               /\ UNCHANGED given

\* The node is on the left of both trees, or a sibling only the new one has.
JoinsBoth == fi % 2 = 1 \/ fi = si

Read(node) ==
    /\ consistency = "path"
    /\ si # 0
    /\ honestProof => read < Len(Proof) /\ node = Proof[read + 1]
    /\ read' = read + 1
    /\ IF JoinsBoth
       THEN /\ fn' = node_hash(node, fn)
            /\ sn' = node_hash(node, sn)
            /\ LET at == StripEven[<<fi, si>>]
               IN  fi' = at[1] \div 2 /\ si' = at[2] \div 2
       ELSE /\ fn' = fn
            /\ sn' = node_hash(sn, node)
            /\ fi' = fi \div 2 /\ si' = si \div 2
    /\ UNCHANGED <<given, consistency>>

\* Mutant: the recomputed old root is not compared with the trusted one.
ReachesNewRoot == sn = new_root /\ si = 0

ReachesBoth == fn = old_root /\ sn = new_root /\ si = 0

\* The proof ends: anywhere if it was made up, with its last node if it was built.
\* One with no node at all has been refused before.
CompareRoots ==
    /\ consistency = "path"
    /\ honestProof => read = Len(Proof)
    /\ consistency' = IF ReachesBoth /\ read > 0 THEN "valid" ELSE "invalid"
    /\ UNCHANGED <<given, read, fn, sn, fi, si>>

\* Claimed sizes that contradict each other or the caller, too many nodes.
Refuse == /\ \/ consistency = "sizes" /\ (~SizesMatch \/ m > n)
             \/ consistency = "sizes" /\ m \in {0, n} /\ ~honestProof
             \/ consistency = "path" /\ si = 0 /\ ~honestProof
          /\ consistency' = "invalid"
          /\ UNCHANGED <<given, read, fn, sn, fi, si>>

ConsistencyNext == Equal \/ (\E node \in Digests : Begin(node) \/ Read(node)) \/ CompareRoots \/ Refuse

ConsistencySpec == ConsistencyInit /\ [][ConsistencyNext]_consistencyVars

-----------------------------------------------------------------------------
(* Properties *)

\* Types of the state; the old tree's index never passes the new tree's, on any level.
ConsistencyTypeOK ==
    /\ old \in Exports /\ new \in Exports
    /\ m \in Nat /\ n \in Nat
    /\ sizesGiven \in BOOLEAN
    /\ honestProof \in BOOLEAN
    /\ consistency \in {"sizes", "path", "valid", "invalid"}
    /\ read \in Nat
    /\ fn \in Digests /\ sn \in Digests
    /\ fi \in Nat /\ si \in Nat /\ fi <= si

Extends(s, t) == Len(s) <= Len(t) /\ \A i \in 1..Len(s) : t[i] = s[i]

\* A valid proof between two trusted roots shows that the new export extends the
\* old one, line by line, whatever sizes the artifact claims and whatever its proof is.
Extension == consistency = "valid" /\ old_root \in Committed /\ new_root \in Committed
             => Extends(Span[old_root], Span[new_root])

\* A proof that build_consistency_proof_artifact made is accepted, for every
\* pair of an export and an extension of it.
ConsistencyComplete == honestProof => consistency # "invalid"
=============================================================================
