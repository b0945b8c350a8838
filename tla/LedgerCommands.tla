---- MODULE LedgerCommands ----
(***************************************************************************)
(* The commands of ledger.py side by side.  Each runs in a process of its  *)
(* own and none touches the state of another.                              *)
(***************************************************************************)
EXTENDS Inclusion, Consistency, Commitment

CommandsSpec == InclusionSpec /\ ConsistencySpec /\ CommitSpec

\* Types of the state of the three commands; on no level of the trees of a consistency
\* proof does the index of the old one pass that of the new one.
TypesOK == InclusionTypeOK /\ ConsistencyTypeOK /\ CommitTypeOK

\* The commands accept what build_inclusion_proof_artifact and
\* build_consistency_proof_artifact make.
HonestAccepted == InclusionComplete /\ ConsistencyComplete
====
