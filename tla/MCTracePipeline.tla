--------------------------- MODULE MCTracePipeline ---------------------------
(***************************************************************************)
(* TracePipeline on a model of two layers and two heads.  A context of 10*)
(* tokens has 5 blocks a head: the first holds the sink, the last the      *)
(* window, the three between them are on the SSD, so a layer has six       *)
(* candidates and two winners.  At 5 tokens the last block is padded and a *)
(* layer has two candidates, of which 40 % is none but for the minimum of*)
(* one; at 2 tokens everything is in DRAM.  The experiments are configured *)
(* for three layers, one more than P1's trace has, as the standard         *)
(* ablations are for more layers than the canonical trace has.             *)
(***************************************************************************)
EXTENDS TracePipeline
MCSynth == [sinks |-> 1, middle |-> 1, window |-> 1, grow |-> 1, base |-> 2]

Config(backend, percent, pages, prefetch) ==
    [backend |-> backend, percent |-> percent, pages |-> pages, prefetch |-> prefetch]

\* the standard ablations, then a dense prefetch, blocks of two pages, and the
\* mock storage
MCExperiments ==
    StandardAblations(50) \cup
    { Config("tensor_aware", 100, 2, TRUE), Config("mock", 100, 1, TRUE) }
=============================================================================
