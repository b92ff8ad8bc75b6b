--------------------------- MODULE MCNvmeProtocol ---------------------------
(***************************************************************************)
(* Instances of NvmeProtocol for TLC.                                      *)
(***************************************************************************)
EXTENDS NvmeProtocol

ThreePages == {1, 2, 3}

\* A batch whose items can be read, and one whose first cannot.
Lists == {<<1, 2>>, <<3, 1>>}
=============================================================================
