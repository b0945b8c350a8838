---- MODULE LiveIndexer ----
(***************************************************************************)
(* The indexer's scan, and the threads of the server that calls it, which  *)
(* to the server is a value with a time (IndexerServer).                   *)
(***************************************************************************)
EXTENDS Indexer, IndexerServer

LiveIndexerSpec == ScanSpec /\ ServerSpec

\* Types of the state of the scan and of the server; totals are of what was fetched.
TypesOK == IndexerTypeOK /\ CountsAgree /\ ServerTypeOK
====
