------------------------------ MODULE MCModelRun ------------------------------
(***************************************************************************)
(* ModelRun on models of two layers, of which the hybrid ones have one     *)
(* with attention.  A prompt of 3 tokens stays in DRAM; 6 tokens make two  *)
(* blocks, the last half empty; 8 make three, of which the oldest leaves a *)
(* sliding window of 6 while two tokens are decoded.  Four models          *)
(* are onboarded, one under the key of a built-in entry and one under an   *)
(* alias of another; a fifth is named without its vendor.                  *)
(***************************************************************************)
EXTENDS ModelRun

MCHub ==
    [id \in {"Qwen/Qwen3-8B", "Qwen/Qwen2.5-0.5B", "Qwen/Qwen3.5-9B", "google/gemma-2-2b",
             "Qwen/Qwen2-1.5B",
             "openaccess-ai-collective/tiny-mistral", "mistralai/Mistral-7B-v0.1",
             "ai21labs/AI21-Jamba-1.5-Mini", "state-spaces/mamba-130m-hf"} |->
       CASE id = "Qwen/Qwen3-8B" -> [type |-> "qwen3", windowed |-> FALSE, normed |-> TRUE]
         [] id \in {"Qwen/Qwen2.5-0.5B", "Qwen/Qwen2-1.5B"} ->
              [type |-> "qwen2", windowed |-> FALSE, normed |-> FALSE]
         [] id = "Qwen/Qwen3.5-9B" -> [type |-> "qwen3_5", windowed |-> FALSE, normed |-> TRUE]
         [] id = "google/gemma-2-2b" -> [type |-> "gemma2", windowed |-> FALSE, normed |-> FALSE]
         [] id = "ai21labs/AI21-Jamba-1.5-Mini" ->
              [type |-> "jamba", windowed |-> FALSE, normed |-> FALSE]
         [] id = "state-spaces/mamba-130m-hf" ->
              [type |-> "mamba", windowed |-> FALSE, normed |-> FALSE]
         [] OTHER -> [type |-> "mistral", windowed |-> TRUE, normed |-> FALSE]]

MCVendor == [name \in {"Qwen2-1.5B", "mistral-7b-instruct"} |->
               IF name = "Qwen2-1.5B" THEN "Qwen/Qwen2-1.5B" ELSE "mistralai/mistral-7b-instruct"]

MCOnboarded == { <<"Qwen/Qwen2.5-0.5B", "qwen2.5-0.5b">>,
                 <<"mistralai/Mistral-7B-v0.1", "my-mistral-7b">>,
                 <<"google/gemma-2-2b", "gemma-2-2b">>,
                 <<"Qwen/Qwen3.5-9B", "qwen3.5">> }
=============================================================================
