-------------------------- MODULE MCPrefetchAdapter --------------------------
(***************************************************************************)
(* Instances of PrefetchAdapter for TLC.                                   *)
(***************************************************************************)
EXTENDS PrefetchAdapter

\* The caller writes one of the blocks, whichever it is.
OneKey == {CHOOSE k \in Key : TRUE}
=============================================================================
