---------------------------- MODULE MCTwinImport ----------------------------
(***************************************************************************)
(* The import of purchases that look alike, with the prior as the matcher  *)
(* computes it.                                                            *)
(***************************************************************************)
EXTENDS TwinImport

\* 6 log2(n), to the nearest sixth of a bit.
MCPrior == <<0, 6, 10, 12, 14, 16>>
=============================================================================
