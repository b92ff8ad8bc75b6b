--------------------------- MODULE MCStagingThreads ---------------------------
(***************************************************************************)
(* Instances of StagingThreads for TLC.                                    *)
(***************************************************************************)
EXTENDS StagingThreads

\* Block ids are interchangeable.
Symmetry == Permutations(Blocks)
=============================================================================
