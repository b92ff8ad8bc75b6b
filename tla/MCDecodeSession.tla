--------------------------- MODULE MCDecodeSession ---------------------------
(***************************************************************************)
(* Instances of DecodeSession for TLC.                                     *)
(***************************************************************************)
EXTENDS DecodeSession

\* k_val = max(1, ceil(n * top_k_pct / 100)) with top_k_pct = 50
HalfOf == <<1, 1, 2>>

\* Every configuration; the pipelined order does not ask the adapter for its own.
AllModes == {m \in Mode : m.order = "async" => m.pool}

=============================================================================
