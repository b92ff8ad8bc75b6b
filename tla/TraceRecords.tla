----------------------------- MODULE TraceRecords -----------------------------
(***************************************************************************)
(* The KV access traces: what the three generators write and how the two   *)
(* readers take a line.  A line is a record whose fields are the keys of   *)
(* the JSON object; a key that is absent is a field outside its DOMAIN.    *)
(* Sizes are in 4096-byte pages: the 16 tokens of a head fill one page of*)
(* keys and one of values.                                                 *)
(***************************************************************************)
EXTENDS TensorMapper, Sequences, SequencesExt

CONSTANTS Layers, Heads,              \* of the model P1 runs
          SinkTokens, WindowTokens,   \* KVBlockAdapter
          TopkPercent,                \* of the trace P1 writes
          ConfigLayers, ConfigHeads,  \* ExperimentConfig, of its synthetic trace
          Synth                       \* sizes of P3's synthetic candidates

ASSUME TraceAssumption ==
    /\ {Layers, Heads, WindowTokens, ConfigLayers, ConfigHeads} \subseteq Nat \ {0}
    /\ {SinkTokens, TopkPercent} \subseteq Nat
    /\ Synth \in [sinks : Nat, middle : Nat, window : Nat, grow : Nat, base : Nat]

KeyPages == 1
BlockPages == 2

Share(n, percent) == (n * percent) \div 100

BlocksOf(tokens) == (tokens + TokensPerBlock - 1) \div TokensPerBlock

(* Mutant: a block is recent by its first token.                           *)
TierByStart(first, last, tokens) ==
    IF first < SinkTokens \/ first > tokens - WindowTokens THEN "DRAM" ELSE "SSD"

Tier(first, last, tokens) ==
    IF first < SinkTokens \/ last > tokens - WindowTokens THEN "DRAM" ELSE "SSD"

(* KVBlockAdapter.blockize_layer: the heads in turn, and the blocks of one *)
(* head in token order; the last is padded, and judged by its real tokens. *)
BlockizeLayer(layer, tokens, offset) ==
    [i \in 1..(Heads * BlocksOf(tokens)) |->
        LET first == ((i - 1) % BlocksOf(tokens)) * TokensPerBlock
        IN  [block_id |-> offset + i - 1, layer_id |-> layer,
             kv_head_start |-> (i - 1) \div BlocksOf(tokens),
             token_start |-> first, token_count |-> TokensPerBlock,
             storage_tier |-> Tier(first, Min({first + TokensPerBlock, tokens}), tokens)]]

(* blockize_all_layers: ids run on from layer to layer.                    *)
LayerBlocks(layer, tokens) ==
    BlockizeLayer(layer, tokens, layer * Heads * BlocksOf(tokens))

InTier(blocks, tier) ==
    FoldLeft(LAMBDA acc, b : IF b.storage_tier = tier THEN Append(acc, b) ELSE acc, <<>>, blocks)
IdsOf(blocks) == [i \in 1..Len(blocks) |-> blocks[i].block_id]

-----------------------------------------------------------------------------
(* P1: RealKVTraceGenerator                                                *)

BlockEvent(b, op, step, sub, pages, cands, selected) ==
    [step |-> step, layer_id |-> b.layer_id, head_id |-> b.kv_head_start, operation |-> op,
     block_id |-> b.block_id, token_start |-> b.token_start,
     token_end |-> b.token_start + b.token_count, sub_page |-> sub, byte_size |-> pages,
     tier |-> b.storage_tier, candidate_blocks |-> cands, selected_blocks |-> selected]

PrefillEvents(tokens) ==
    LET Layer(l) == LET blocks == LayerBlocks(l, tokens)
                    IN  [i \in 1..Len(blocks) |->
                           BlockEvent(blocks[i], "PREFILL_WRITE", 0, "BOTH", BlockPages,
                                      <<>>, <<blocks[i].block_id>>)]
    IN  FlattenSeq([l \in 1..Layers |-> Layer(l - 1)])

(* Mutant: a small share is none.                                          *)
TopkCountFloor(candidates) == Share(candidates, TopkPercent)

TopkCount(candidates) ==
    IF candidates = 0 THEN 0 ELSE Max({1, Share(candidates, TopkPercent)})

FilterEvent(layer, step, cands, winners) ==
    [step |-> step, layer_id |-> layer, head_id |-> 0, operation |-> "TOPK_FILTER",
     block_id |-> cands[1], token_start |-> 0, token_end |-> 0, sub_page |-> "KEY",
     byte_size |-> Len(cands) * KeyPages, tier |-> "SSD",
     candidate_blocks |-> cands, selected_blocks |-> winners]

FetchEvents(layer, step, ssd, winners) ==
    [i \in 1..Len(winners) |->
       BlockEvent(CHOOSE b \in Range(ssd) : b.block_id = winners[i], "TOPK_FETCH", step,
                  "VALUE", KeyPages, IdsOf(ssd), winners)]

(* What one layer logs in one decode step: the hits in DRAM, the scan of   *)
(* the key pages and the fetch of the winners' value pages.                *)
DecodeEvents(layer, step, tokens, winners) ==
    LET blocks == LayerBlocks(layer, tokens)
        dram   == InTier(blocks, "DRAM")
        ssd    == InTier(blocks, "SSD")
    IN  [i \in 1..Len(dram) |->
           BlockEvent(dram[i], "DECODE_READ", step, "BOTH", BlockPages, <<>>,
                      <<dram[i].block_id>>)]
        \o (IF ssd = <<>> THEN <<>>
            ELSE <<FilterEvent(layer, step, IdsOf(ssd), winners)>>
                 \o FetchEvents(layer, step, ssd, winners))

(* event_id counts the lines from 0.                                       *)
WithId(line, id) ==
    [key \in {"event_id"} \cup DOMAIN line |-> IF key = "event_id" THEN id ELSE line[key]]
Numbered(lines, from) == [i \in 1..Len(lines) |-> WithId(lines[i], from + i - 1)]

(* What the manifest beside the trace says of it; steps tokens were made.*)
Manifest(prompt, steps, events) ==
    [num_layers |-> Layers, num_kv_heads |-> Heads, tokens_per_block |-> TokensPerBlock,
     key_page_bytes |-> KeyPages, value_page_bytes |-> KeyPages,
     logical_block_bytes |-> BlockPages, total_tokens |-> prompt + steps,
     total_steps |-> steps, total_events |-> events]

-----------------------------------------------------------------------------
(* P2: StorageTraceReplayer.synthesize_trace.  It writes every block once*)
(* under the number of its line, then reads under a number it works out.   *)
SynthesizeWrites(tokens) ==
    [i \in 1..(Layers * Heads * BlocksOf(tokens)) |->
        [operation |-> "PREFILL_WRITE", layer_id |-> (i - 1) \div (Heads * BlocksOf(tokens)),
         head_id |-> ((i - 1) \div BlocksOf(tokens)) % Heads,
         token_start |-> ((i - 1) % BlocksOf(tokens)) * TokensPerBlock,
         block_id |-> i - 1, byte_size |-> BlockPages, sub_page |-> "BOTH"]]

SynthesizeReads(tokens, steps) ==
    [i \in 1..(steps * Layers * Heads) |->
        LET step  == (i - 1) \div (Layers * Heads)
            layer == ((i - 1) \div Heads) % Layers
            head  == (i - 1) % Heads
            token == (step * TokensPerBlock + head * 2 * TokensPerBlock) % tokens
        IN  [operation |-> "DECODE_READ", layer_id |-> layer, head_id |-> head,
             token_start |-> token,
             block_id |-> (layer * Heads + head) * BlocksPerHead + token \div TokensPerBlock,
             byte_size |-> BlockPages, sub_page |-> "BOTH"]]

SynthesizeTrace(tokens, steps) ==
    Numbered(SynthesizeWrites(tokens) \o SynthesizeReads(tokens, steps), 0)

-----------------------------------------------------------------------------
(* sorted(list(...)) of distinct numbers: every one after those below it.  *)
Ascending(S) ==
    [i \in 1..Cardinality(S) |-> CHOOSE x \in S : Cardinality({y \in S : y < x}) = i - 1]

(* P3: SyntheticTraceGenerator.  Line i is one layer of one step and names *)
(* the blocks attention would want: sinks, some of the middle, the recent. *)
SyntheticCandidates(step, layer, total) ==
    LET blocks == Min({total, (step + 1) * Synth.grow + Synth.base})
        recent == Max({0, blocks - Synth.window})
        offset == IF recent > Synth.sinks THEN (layer * 3) % (recent - Synth.sinks) ELSE 0
        middle == (Synth.sinks + offset)..(Min({recent, Synth.sinks + offset + Synth.middle}) - 1)
    IN  Ascending((0..(Min({Synth.sinks, total}) - 1)) \cup middle \cup recent..(blocks - 1))

SyntheticTrace(tokens, steps) ==
    [i \in 1..(steps * ConfigLayers) |->
        LET ids == SyntheticCandidates((i - 1) \div ConfigLayers, (i - 1) % ConfigLayers,
                                       tokens \div TokensPerBlock)
        IN  [seq_id |-> i - 1, step_id |-> (i - 1) \div ConfigLayers,
             layer_id |-> (i - 1) % ConfigLayers, head_id |-> 0, operation |-> "KV_TOPK",
             block_ids |-> ids, byte_offset |-> 0, byte_length |-> Len(ids)]]

-----------------------------------------------------------------------------
(* The readers                                                             *)

Has(e, key) == key \in DOMAIN e
Get(e, key, default) == IF Has(e, key) THEN e[key] ELSE default

(* CanonicalTraceRecord.from_dict: P1's key, or P3's, or a default.        *)
FromDict(e) ==
    LET block == IF Has(e, "block_id") THEN e.block_id
                 ELSE IF Get(e, "block_ids", <<>>) # <<>> THEN e.block_ids[1] ELSE 0
        sub   == Get(e, "sub_page", "BOTH")
    IN  [event_id |-> IF Has(e, "event_id") THEN e.event_id ELSE e.seq_id,
         step |-> IF Has(e, "step") THEN e.step ELSE Get(e, "step_id", 0),
         layer_id |-> Get(e, "layer_id", 0), head_id |-> Get(e, "head_id", 0),
         operation |-> e.operation, block_id |-> block,
         token_start |-> Get(e, "token_start", block * TokensPerBlock), sub_page |-> sub,
         byte_size |-> IF Has(e, "byte_size") THEN e.byte_size
                       ELSE Get(e, "byte_length", IF sub = "BOTH" THEN BlockPages ELSE KeyPages),
         tier |-> Get(e, "tier", "SSD"),
         candidate_blocks |-> Get(e, "candidate_blocks", <<>>),
         selected_blocks |-> Get(e, "selected_blocks", <<>>)]

(* CanonicalTraceRecord.block_ids                                          *)
BlockIds(r) == IF r.selected_blocks # <<>> THEN r.selected_blocks
               ELSE IF r.candidate_blocks # <<>> THEN r.candidate_blocks
               ELSE <<r.block_id>>

(* CanonicalTraceRecord.is_write and is_read; an eviction is neither.      *)
IsCanonicalWrite(r) == r.operation \in {"PREFILL_WRITE", "KV_WRITE"}
IsCanonicalRead(r) ==
    r.operation \in {"DECODE_READ", "TOPK_FETCH", "TOPK_FILTER", "KV_READ", "KV_TOPK"}

(* The header that is the first line of P3's own traces.                   *)
SyntheticHeader == [num_layers |-> ConfigLayers, num_heads |-> ConfigHeads]

(* TraceReader takes the model's size from a manifest beside the file, or*)
(* from the header.                                                        *)
HeaderOf(manifest) ==
    [num_layers |-> manifest.num_layers, num_heads |-> manifest.num_kv_heads]

(* TraceReader._validate_record for every record of a file, in its order.*)
ReaderAccepts(trace, header) ==
    \A i \in 1..Len(trace) :
        LET r == FromDict(trace[i])
        IN  /\ i > 1 => r.event_id > FromDict(trace[i - 1]).event_id
            /\ r.event_id > -1
            /\ r.layer_id \in 0..(header.num_layers - 1) /\ r.head_id \in 0..(header.num_heads - 1)
            /\ r.byte_size > 0 /\ r.block_id >= 0

(* StorageTraceReplayer.validate_record: what is refused, and what is kept *)
ValidOperations ==
    {"PREFILL_WRITE", "DECODE_READ", "TOPK_FILTER", "TOPK_FETCH", "WRITE", "READ"}

ReplayerAccepts(e) ==
    /\ e.operation \in ValidOperations
    /\ Get(e, "layer_id", -1) >= 0 /\ Get(e, "head_id", -1) >= 0
    /\ Get(e, "byte_size", 0) > 0
    /\ Has(e, "token_start") \/ Has(e, "block_id")

ValidatedRecord(e) ==
    [event_id |-> e.event_id, operation |-> e.operation, layer_id |-> e.layer_id,
     head_id |-> e.head_id, token_start |-> Get(e, "token_start", 0),
     block_id |-> IF Has(e, "block_id") THEN e.block_id ELSE e.token_start \div TokensPerBlock,
     byte_size |-> e.byte_size, sub_page |-> Get(e, "sub_page", "BOTH")]

(* scripts/validate_real_trace.py: what validate_trace asserts of the      *)
(* manifest; its numbers are those of the canonical trace,                 *)
ScriptAcceptsManifest(manifest, tokens, events) ==
    /\ manifest.num_layers = Layers /\ manifest.num_kv_heads = Heads
    /\ manifest.tokens_per_block = TokensPerBlock
    /\ manifest.key_page_bytes = KeyPages /\ manifest.value_page_bytes = KeyPages
    /\ manifest.logical_block_bytes = BlockPages
    /\ manifest.total_tokens = tokens /\ manifest.total_events = events

(* and of each line of a trace of P1, and then of the record read back.    *)
ScriptAccepts(trace) ==
    \A i \in 1..Len(trace) :
        LET e == trace[i]
        IN  /\ e.event_id = i - 1
            /\ CASE e.operation = "PREFILL_WRITE" ->
                       /\ e.step = 0 /\ e.sub_page = "BOTH" /\ e.byte_size = BlockPages
                       /\ e.head_id \in 0..(Heads - 1)
                       /\ e.selected_blocks = <<e.block_id>>
                 [] e.operation = "DECODE_READ" ->
                       /\ e.step >= 1 /\ e.tier = "DRAM"
                       /\ e.sub_page = "BOTH" /\ e.byte_size = BlockPages
                 [] e.operation = "TOPK_FILTER" ->
                       /\ e.step >= 1 /\ e.tier = "SSD" /\ e.sub_page = "KEY"
                       /\ e.candidate_blocks # <<>> /\ e.selected_blocks # <<>>
                       /\ e.byte_size = Len(e.candidate_blocks) * KeyPages
                 [] e.operation = "TOPK_FETCH" ->
                       /\ e.step >= 1 /\ e.tier = "SSD" /\ e.sub_page = "VALUE"
                       /\ e.byte_size = KeyPages
                       /\ e.block_id \in Range(e.selected_blocks)
                 [] OTHER -> FALSE
            /\ \A key \in {"event_id", "step", "operation", "byte_size"} :
                   FromDict(e)[key] = e[key]

-----------------------------------------------------------------------------
(* P1: TopKEvaluator.evaluate_query.  It keeps blocks of a sequence in     *)
(* DRAM by their numbers, the sinks' also when the sequence is shorter.    *)
HostBlocks(n) ==
    (0..((SinkTokens + TokensPerBlock - 1) \div TokensPerBlock - 1))
        \cup (Max({0, n - WindowTokens}) \div TokensPerBlock)..(BlocksOf(n) - 1)

SsdCandidates(n) == (0..(BlocksOf(n) - 1)) \ HostBlocks(n)

QueryCount(candidates, percent) ==
    IF candidates = 0 THEN 0 ELSE Max({1, (candidates * percent + 99) \div 100})

(* What the query attends to when the blocks in selected score best, and   *)
(* what it moves: whole blocks, padding included.                          *)
EvaluateQuery(n, selected) ==
    LET active == HostBlocks(n) \cup selected
    IN  [active |-> active,
         tokens |-> UNION {(b * TokensPerBlock)..(Min({(b + 1) * TokensPerBlock, n}) - 1) :
                             b \in active},
         pages  |-> (Cardinality(HostBlocks(n)) + Cardinality(selected)) * Heads * BlockPages]

IsWrite(r) == r.operation \in {"PREFILL_WRITE", "WRITE"}
=============================================================================
