---- MODULE Evidence ----
(***************************************************************************)
(* What is made of a deal afterwards: the verification of its settlement,  *)
(* with the bundle it is kept in, beside the reading of its transcript.    *)
(* They share no state.                                                    *)
(***************************************************************************)
EXTENDS Bundle, Transcript

EvidenceSpec == BundleSpec /\ ReadSpec

\* Types of the state of the four components.
TypesOK == EvmTypeOK /\ CrossTypeOK /\ BundleTypeOK /\ ReadTypeOK
====
