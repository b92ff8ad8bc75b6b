------------------------- MODULE MCInferenceBackend -------------------------
(***************************************************************************)
(* Instances of InferenceBackend for TLC.                                  *)
(***************************************************************************)
EXTENDS InferenceBackend

\* One block, and two in a row.
OneAndTwo == {<<"a">>, <<"a", "b">>}
=============================================================================
