------------------------------- MODULE ModelRun -------------------------------
(***************************************************************************)
(* The two ways a model is run.  run_aissd_decode: its adapter, which the  *)
(* registry knows, makes a state provider and patches the forward of its   *)
(* attention layers, the prompt is run and offloaded, and then each token  *)
(* goes through the layers, each of which asks the provider for its state. *)
(* run_baseline_decode keeps everything in the model's own cache.  Models  *)
(* run one after the other on one storage; onboarding precedes them.       *)
(***************************************************************************)
EXTENDS ModelRegistry, StateProvider

CONSTANTS Layers,           \* bound: layers of a model
          AttentionLayers,  \* those with attention in a hybrid model
          Names,            \* names a run is asked for
          Onboarded,        \* bound: <<id, key>> that are onboarded
          Prompts, Steps,   \* bounds: tokens of a prompt, tokens decoded after the first
          Percents,         \* top_k_pct
          MaxRuns           \* bound

ASSUME ModelAssumption ==
    /\ IsFiniteSet(Layers) /\ Layers \subseteq Nat /\ AttentionLayers \subseteq Layers
    /\ Prompts \subseteq Nat \ {0} /\ Percents \subseteq Nat /\ {Steps, MaxRuns} \subseteq Nat

VARIABLES phase,     \* "idle", "wrapped", "decode" or, for the baseline, "dense"
          run,       \* the runs so far, and the number of this one
          model,     \* id of the model that is loaded
          provider,  \* the state provider, its top_k_pct, and if decoding normalises
          patched,   \* the layers whose forward is replaced
          layerData, \* layer -> sinks, window and candidates
          resident,  \* the layers whose state the hybrid provider keeps in DRAM
          native,    \* layer -> tokens in the model's own KV cache
          turn,      \* layers run in this decode
          prompt,    \* tokens of the prompt
          active,    \* what attention was last given, and for which layer
          store      \* the storage: <<layer, block>> -> page

runVars == <<phase, run, model, provider, patched, layerData, resident, native, turn, prompt,
             active, store>>
vars == <<registryVars, runVars>>

Hybrid(id) == Hub[id].type \in {"jamba", "qwen3_5"}
SelfAttn(id) == IF Hybrid(id) THEN AttentionLayers ELSE Layers
Attention == Ascending(IF phase = "dense" THEN SelfAttn(model) ELSE DOMAIN layerData)
NoProvider == [kind |-> "none", percent |-> 0, normed |-> FALSE]
NoState == /\ provider' = NoProvider /\ patched' = {} /\ layerData' = None
           /\ resident' = {} /\ native' = None /\ active' = [layer |-> -1, tokens |-> <<>>]

Init == /\ RegistryInit
        /\ phase = "idle" /\ run = 0 /\ model = "none" /\ provider = NoProvider
        /\ patched = {} /\ layerData = None /\ resident = {} /\ native = None
        /\ turn = 0 /\ prompt = 0 /\ store = None
        /\ active = [layer |-> -1, tokens |-> <<>>]

Onboard == /\ phase = "idle" /\ run = 0
           /\ \E o \in Onboarded : Register(o[1], o[2]) \/ CrashInSave
           /\ UNCHANGED runVars

NewProcess == phase = "idle" /\ run = 0 /\ Restart /\ UNCHANGED runVars

(* What an adapter does to a model: the state provider it creates, the     *)
(* layers whose forward it replaces, and whether that forward applies the  *)
(* q_norm and k_norm a layer may have.  Each forward runs the original one *)
(* for more than one token; for one it appends the token, then asks the    *)
(* provider for what attention is given.                                   *)
QwenAdapter    == [kind |-> "transformer", layers |-> Layers, normed |-> TRUE]
MistralAdapter(entry) ==
    [kind |-> IF entry.windowed THEN "sliding" ELSE "transformer", layers |-> Layers,
     normed |-> FALSE]
JambaAdapter(id)  == [kind |-> "hybrid", layers |-> SelfAttn(id), normed |-> FALSE]
Qwen35Adapter(id) == [kind |-> "hybrid", layers |-> SelfAttn(id), normed |-> TRUE]

(* Without an adapter the run takes an AISSDKVManager and patches the      *)
(* layers itself.                                                          *)
GenericWrap == [kind |-> "transformer", layers |-> Layers, normed |-> TRUE]

AdapterOf(entry, id) ==
    LET name == GetAdapter(entry)
    IN  CASE name = "Qwen"    -> QwenAdapter
          [] name = "Mistral" -> MistralAdapter(entry)
          [] name = "Jamba"   -> JambaAdapter(id)
          [] name = "Qwen35"  -> Qwen35Adapter(id)
          [] name = "none"    -> GenericWrap

(* The demo refuses what the registry calls unsupported.                   *)
Accepted(name) == Detect(name).level # "UNSUPPORTED"

(* Its worker loads the model the registry has under the name.             *)
Load(name) == /\ phase = "idle" /\ run < MaxRuns /\ run' = run + 1
              /\ Accepted(name)
              /\ Detect(name).id \in DOMAIN Hub
              /\ model' = Detect(name).id

(* The run looks the adapter up again, under the id of the model.          *)
StartRun(name, percent) ==
    LET entry   == Detect(Detect(name).id)
        adapter == AdapterOf(entry, Detect(name).id)
    IN  /\ Load(name)
        /\ phase' = "wrapped"
        /\ provider' = [kind |-> adapter.kind, percent |-> percent, normed |-> adapter.normed]
        /\ patched' = adapter.layers
        /\ UNCHANGED <<layerData, resident, native, turn, prompt, active, store, registryVars>>

(* The layers whose keys and values the provider takes over.               *)
Mine == IF provider.kind = "hybrid" THEN SelfAttn(model) ELSE Layers

(* The prompt runs through the original forwards; the provider then keeps  *)
(* and writes its part and, if it is the hybrid one, holds on to the cache *)
(* of the model with the keys and values of its layers emptied.            *)
Prefill(n) ==
    /\ phase = "wrapped"
    /\ phase' = "decode" /\ turn' = 0 /\ prompt' = n
    /\ layerData' = [l \in Mine |-> LayerData(run, n)]
    /\ store' = WriteBlocks(store, Writes(run, n, Ascending(Mine)))
    /\ resident' = Layers \ Mine
    /\ native' = IF provider.kind = "hybrid"
                 THEN [l \in Layers |-> IF l \in Mine THEN <<>> ELSE Tokens(run, 0, n)]
                 ELSE None
    /\ UNCHANGED <<run, model, provider, patched, active, registryVars>>

(* The patched forward of the next layer: the new token joins the window,  *)
(* then the provider is asked.  Other layers use the model's own cache.    *)
DecodeLayer ==
    LET layer == Attention[(turn % Len(Attention)) + 1]
        ld    == AppendNewToken(layerData[layer], <<run, layerData[layer].total>>)
    IN  /\ phase = "decode" /\ turn < Steps * Len(Attention)
        /\ \E got \in SelectAndFetch(provider.kind, ld, provider.percent,
                                   PagesOf(store, layer)) :
              /\ layerData' = [layerData EXCEPT ![layer] = got.ld]
              /\ active' = [layer |-> layer, tokens |-> got.active]
        /\ turn' = turn + 1
        /\ UNCHANGED <<phase, run, model, provider, patched, resident, native, prompt, store,
                       registryVars>>

(* restore(), in the finally clause; the provider goes with the call.      *)
RestoreForwards == phase' = "idle" /\ NoState

(* run_baseline_decode                                                     *)
StartDense(name, n) ==
    /\ Load(name)
    /\ phase' = "dense" /\ turn' = 0 /\ prompt' = n
    /\ native' = [l \in Layers |-> Tokens(run', 0, n)]
    /\ UNCHANGED <<provider, patched, layerData, resident, active, store, registryVars>>

DenseLayer ==
    LET layer == Attention[(turn % Len(Attention)) + 1]
    IN  /\ phase = "dense" /\ turn < Steps * Len(Attention)
        /\ native' = [native EXCEPT ![layer] = Append(@, <<run, Len(@)>>)]
        /\ active' = [layer |-> layer, tokens |-> native'[layer]]
        /\ turn' = turn + 1
        /\ UNCHANGED <<phase, run, model, provider, patched, layerData, resident, prompt, store,
                       registryVars>>

Finish == /\ phase \in {"decode", "dense"} /\ turn = Steps * Len(Attention)
          /\ RestoreForwards
          /\ UNCHANGED <<run, model, turn, prompt, store, registryVars>>

(* A write or a read of the storage raises: the blocks written before it   *)
(* stay.                                                                   *)
PrefillFails ==
    LET writes == Writes(run, prompt', Ascending(Mine))
    IN  /\ phase = "wrapped"
        /\ prompt' \in Prompts
        /\ \E j \in 0..(Len(writes) - 1) : store' = WriteBlocks(store, SubSeq(writes, 1, j))
        /\ RestoreForwards
        /\ UNCHANGED <<run, model, turn, registryVars>>

DecodeFails == /\ phase = "decode" /\ turn < Steps * Len(Attention)
               /\ RestoreForwards
               /\ UNCHANGED <<run, model, turn, prompt, store, registryVars>>

Next == \/ Onboard \/ NewProcess
        \/ \E name \in Names, percent \in Percents : StartRun(name, percent)
        \/ \E name \in Names, n \in Prompts : StartDense(name, n)
        \/ \E n \in Prompts : Prefill(n)
        \/ DecodeLayer \/ DenseLayer \/ Finish \/ PrefillFails \/ DecodeFails

Spec == Init /\ [][Next]_vars

-----------------------------------------------------------------------------
(* Properties                                                              *)

(* What is kept of a layer: sinks, window and the blocks that are listed,  *)
(* without their padding, as they are on the storage.                      *)
Stored(l, c) == Range(SubSeq(store[<<l, c.bid>>], 1, c.actual))
Held(l) == Range(layerData[l].sink) \cup Range(layerData[l].recent)
             \cup UNION {Stored(l, c) : c \in layerData[l].candidates}

(* The type of every variable.                                             *)
TypeOK ==
    /\ phase \in {"idle", "wrapped", "decode", "dense"} /\ run \in 0..MaxRuns
    /\ model \in DOMAIN Hub \cup {"none"} /\ turn \in Nat
    /\ provider \in [kind : {"transformer", "sliding", "hybrid"}, percent : Percents,
                     normed : BOOLEAN] \cup {NoProvider}
    /\ patched \cup resident \subseteq Layers
    /\ prompt \in Prompts \cup {0}
    /\ DOMAIN layerData \subseteq Layers
    /\ \A l \in DOMAIN layerData : Len(layerData[l].recent) <= RecentTokens
    /\ \A k \in DOMAIN store : Len(store[k]) = TokensPerBlock
    /\ \A e \in {ListModels[k] : k \in DOMAIN ListModels} : e.level \in Level

(* What attention is given for a token (transformer_kv.py:208-372,         *)
(* sliding_window_kv.py:60-86): tokens of this run in the order of the     *)
(* text, none twice, no padding, from the sinks to the token itself; a     *)
(* block with all its tokens or none; no block that ends before the        *)
(* sliding window; at 100 % without one, everything that is kept; and in   *)
(* a baseline run every token there is (aissd_inference.py:477-480).       *)
ActiveExact ==
    /\ phase = "dense" /\ turn > 0 =>
          active.tokens = Tokens(run, 0, prompt + 1 + (turn - 1) \div Len(Attention))
    /\ active.layer \in DOMAIN layerData =>
          LET ld == layerData[active.layer]
              t  == active.tokens
          IN  /\ \A i \in 1..Len(t) : t[i][1] = run
              /\ \A i, j \in 1..Len(t) : i < j => t[i][2] < t[j][2]
              /\ t[Len(t)] = <<run, ld.total - 1>>
              /\ Range(ld.sink) \subseteq Range(t)
              /\ \A c \in ld.candidates :
                   LET block == Stored(active.layer, c)
                   IN  /\ block \subseteq Range(t) \/ block \cap Range(t) = {}
                       /\ provider.kind = "sliding" /\ block \subseteq Range(t) =>
                             \E x \in block : x[2] >= ld.total - SlidingWindow
              /\ provider.percent >= 100 /\ provider.kind # "sliding" =>
                   Range(t) = Held(active.layer)

(* Every layer's state has one owner and every token of a prompt one place *)
(* (transformer_kv.py:119-199, hybrid_state.py:134-158, model_adapter.py:  *)
(* 143-146): a patched layer has its sinks, blocks and window and nothing  *)
(* left in the model's cache, another is resident; all that the window     *)
(* has not slid over is kept once; the layers move abreast; and no forward *)
(* stays patched after a run, also one that failed, so that a baseline run *)
(* after it is one.                                                        *)
StateHasOneOwner ==
    /\ phase \in {"idle", "dense"} => patched = {}
    /\ phase = "decode" =>
        /\ DOMAIN layerData = patched /\ resident = Layers \ patched
        /\ provider.kind = "hybrid" => \A l \in Layers : native[l] = <<>> <=> l \in patched
        /\ \A l \in patched :
             LET ld == layerData[l]
                 slid == IF Splits(prompt) THEN (prompt - RecentTokens)..(ld.total - 1)
                                           ELSE prompt..(ld.total - 1)
             IN  /\ {<<run, p>> : p \in 0..(ld.total - 1) \ slid} \subseteq Held(l)
                 /\ <<run, ld.total - 1>> \in Held(l)
                 /\ Cardinality(Held(l)) = Len(ld.sink) + Len(ld.recent)
                       + MapThenSumSet(LAMBDA c : c.actual, ld.candidates)
                 /\ \A m \in patched : ld.total - layerData[m].total \in -1..1

(* The KV manager keeps a "Host DRAM Recent Window (last 16 tokens)"       *)
(* (aissd_inference.py:372): the last tokens of a layer are in DRAM.       *)
(* False: a short prompt starts with an empty window (transformer_kv.py:   *)
(* 156-161), which slides one token out for each that comes (:201-206).    *)
WindowKept ==
    phase = "decode" => \A l \in patched :
        LET ld == layerData[l]
        IN  \A p \in Max({0, ld.total - RecentTokens})..(ld.total - 1) :
                <<run, p>> \in Range(ld.sink) \cup Range(ld.recent)

(* The QwenAdapter calls itself the "Adapter for Qwen-family models        *)
(* (Qwen2, Qwen2.5, Qwen3)" (model_adapter.py:61): the keys a model has    *)
(* normalised in its prompt are normalised when it decodes.  But the run   *)
(* finds no adapter for the type qwen3 of the model's configuration and    *)
(* falls back to the MistralAdapter.                                       *)
KeysNormalised == phase = "decode" /\ Hub[model].normed => provider.normed
=============================================================================
