---------------------------- MODULE TracePipeline ----------------------------
(***************************************************************************)
(* A KV access trace from the program that writes it to the programs that*)
(* read it.  P1 writes a trace of a model's run, P2 synthesises one when   *)
(* it finds no file, P3 generates its own; P3's ExperimentRunner and P2's*)
(* StorageTraceReplayer each read one, record by record, as often as there *)
(* are ablations to run.  Every program is one thread and the trace file   *)
(* is finished before it is read.                                          *)
(***************************************************************************)
EXTENDS TraceStorage

CONSTANTS Prompts,      \* bound: tokens of a prompt
          Steps,        \* bound: tokens that are generated
          Experiments,  \* bound: the ExperimentConfigs that are run; pages is block_size
          QueueDepth,
          StudyChannels, StudyDepths   \* of the placement study's sweeps

VARIABLES source,   \* who writes the trace: "p1", "p2" or "p3"
          tokens,   \* tokens of context the trace is about
          trace,    \* the lines written so far
          turn,     \* decode layers P1 has logged
          stage,    \* "prefill", "decode", "written", "running", "replaying", "rejected"
          job,      \* what is being run on the trace
          cursor,   \* records read by the job
          st,       \* the experiment's backend and prefetcher
          replay    \* the replayer's counters

vars == <<source, tokens, trace, turn, stage, job, cursor, st, replay>>

ASSUME PipelineAssumption ==
    /\ Prompts \subseteq Nat \ {0}
    /\ {Steps, QueueDepth} \subseteq Nat \ {0}

ASSUME ExperimentAssumption ==
    Experiments \subseteq [backend : {"none", "mock", "conventional", "tensor_aware"},
                           percent : Nat, pages : Nat \ {0}, prefetch : BOOLEAN]

(* Each depth of the sweep is a multiple of the one before.                *)
ASSUME StudyAssumption ==
    /\ StudyChannels \subseteq Nat \ {0} /\ StudyDepths \subseteq Nat \ {0}
    /\ \A a, b \in StudyDepths : a <= b => b % a = 0

Replays == [mode : {"conventional", "tensor_aware"}]
NoJob == [mode |-> "none"]

NewStorage(kind) == [be |-> NewBackend(kind), pf |-> NewPrefetcher]
NewReplay == [loads |-> NoCounters, read |-> 0, written |-> 0, key |-> 0, value |-> 0,
              combined |-> 0, queue |-> <<>>, batches |-> 0, service |-> 0]

(* RealLLMEngine.run_inference: the KV cache is taken after the last step, *)
(* and the token that step makes is never run through the model.           *)
CachedTokens(prompt) == prompt + Steps - 1

Init == /\ source \in {"p1", "p2", "p3"}
        /\ tokens \in {CachedTokens(p) : p \in Prompts}
        /\ trace = <<>> /\ turn = 0 /\ stage = "prefill"
        /\ job = NoJob /\ cursor = 0
        /\ st = NewStorage("mock") /\ replay = NewReplay

TraceManifest == Manifest(tokens - Steps + 1, Steps, Len(trace))

Written(lines) == trace' = trace \o Numbered(lines, Len(trace))
Idle == UNCHANGED <<source, tokens, job, cursor, st, replay>>

-----------------------------------------------------------------------------
(* Writing the trace                                                       *)

Prefill == /\ source = "p1" /\ stage = "prefill"
           /\ Written(PrefillEvents(tokens))
           /\ stage' = "decode"
           /\ Idle /\ UNCHANGED turn

(* The orders in which k of the candidates may win.  The scores come from*)
(* random queries, and the kernel returns each block once.                 *)
Winners(ids, k) ==
    {w \in [1..k -> Range(ids)] : \A i, j \in 1..k : w[i] = w[j] => i = j}

DecodeLayer ==
    LET layer == turn % Layers
        step  == turn \div Layers + 1
        ids   == IdsOf(InTier(LayerBlocks(layer, tokens), "SSD"))
    IN  /\ source = "p1" /\ stage = "decode" /\ turn < Steps * Layers
        /\ \E winners \in Winners(ids, TopkCount(Len(ids))) :
               Written(DecodeEvents(layer, step, tokens, winners))
        /\ turn' = turn + 1
        /\ UNCHANGED stage /\ Idle

Serialize == /\ source = "p1" /\ stage = "decode" /\ turn = Steps * Layers
             /\ stage' = "written"
             /\ Idle /\ UNCHANGED <<trace, turn>>

Synthesize == /\ source \in {"p2", "p3"} /\ stage = "prefill"
              /\ trace' = IF source = "p2" THEN SynthesizeTrace(tokens, Steps)
                                           ELSE SyntheticTrace(tokens, Steps)
              /\ stage' = "written"
              /\ Idle /\ UNCHANGED turn

-----------------------------------------------------------------------------
(* P3: ExperimentRunner.run_experiment                                     *)

(* run_standard_ablations: dense in DRAM, dense from the storage, then     *)
(* top-k with one change after the other.                                  *)
StandardAblations(percent) ==
    LET Ablation(backend, share, prefetch) ==
          [backend |-> backend, percent |-> share, pages |-> 1, prefetch |-> prefetch]
    IN  { Ablation("none", 100, FALSE), Ablation("conventional", 100, FALSE),
          Ablation("conventional", percent, FALSE), Ablation("tensor_aware", percent, FALSE),
          Ablation("tensor_aware", percent, TRUE) }

(* The dense baseline keeps everything in DRAM: it reports without looking *)
(* at the trace, one that any other experiment rejects included.           *)
StartBaseline(config) ==
    /\ stage = "written" /\ source # "p2" /\ config.backend = "none"
    /\ stage' = "running" /\ job' = config
    /\ cursor' = Len(trace)
    /\ st' = NewStorage("none") /\ replay' = NewReplay
    /\ UNCHANGED <<source, tokens, trace, turn>>

(* load_all reads the whole file first, and the first bad record stops the *)
(* run.  P2's synthetic trace is never in a file.                          *)
StartExperiment(config) ==
    /\ stage = "written" /\ source # "p2" /\ config.backend # "none"
    /\ stage' = IF ReaderAccepts(trace, IF source = "p1" THEN HeaderOf(TraceManifest)
                                                         ELSE SyntheticHeader)
                THEN "running" ELSE "rejected"
    /\ job' = config /\ cursor' = 0 /\ st' = NewStorage(config.backend)
    /\ replay' = NewReplay
    /\ UNCHANGED <<source, tokens, trace, turn>>

Needed(ids, percent) ==
    IF percent >= 100 THEN ids
    ELSE SubSeq(ids, 1, Max({1, Share(Len(ids), percent)}))

(* The next layer is prefetched with the ids this one wants, then this one *)
(* is read; without a prefetcher the storage is read directly.             *)
ExperimentRecord ==
    /\ stage = "running" /\ cursor < Len(trace)
    /\ LET rec  == FromDict(trace[cursor + 1])
           ids  == Needed(BlockIds(rec), job.percent)
           next == (rec.layer_id + 1) % ConfigLayers
       IN  st' = IF job.prefetch
                 THEN AccessBlocks(PrefetchBlocks(st, ids, next, job.pages),
                                   ids, rec.layer_id, job.pages)
                 ELSE [st EXCEPT !.be = SubmitBatch(@, ids, rec.layer_id, job.pages)]
    /\ cursor' = cursor + 1
    /\ UNCHANGED <<source, tokens, trace, turn, stage, job, replay>>

-----------------------------------------------------------------------------
(* P2: StorageTraceReplayer                                                *)

(* load_trace validates the whole file first.  When that fails             *)
(* discover_or_synthesize_trace falls back to a synthetic trace, which is*)
(* the source "p2"; the validation script lets the error through.          *)
StartReplay(config) ==
    /\ stage = "written"
    /\ stage' = IF \A i \in 1..Len(trace) : ReplayerAccepts(trace[i])
                THEN "replaying" ELSE "rejected"
    /\ job' = config /\ cursor' = 0 /\ replay' = NewReplay /\ st' = NewStorage("mock")
    /\ UNCHANGED <<source, tokens, trace, turn>>

PlaceOf(rec, mode, loads) ==
    NandPhysical(mode, rec.layer_id, rec.head_id,
                 TokenBlockIdx(rec.token_start, rec.block_id), loads)

(* process_batch: a batch takes as many page times as its busiest channel*)
(* has reads, and is dropped.                                              *)
MaxLoad(queue) ==
    Max({0} \cup {Cardinality({i \in 1..Len(queue) : queue[i] = ch}) : ch \in Range(queue)})

Flush(r) == [r EXCEPT !.queue = <<>>, !.batches = @ + 1, !.service = @ + MaxLoad(r.queue)]

(* Mutant: the batch is sent one read too late.                            *)
EnqueueLate(r, rec, ch) ==
    LET s == IF IsWrite(rec) THEN r ELSE [r EXCEPT !.queue = Append(@, ch)]
    IN  IF Len(s.queue) > QueueDepth THEN Flush(s) ELSE s

Enqueue(r, rec, ch) ==
    LET s == IF IsWrite(rec) THEN r ELSE [r EXCEPT !.queue = Append(@, ch)]
    IN  IF Len(s.queue) >= QueueDepth THEN Flush(s) ELSE s

Account(r, rec, ch) ==
    [r EXCEPT !.read = @ + (IF IsWrite(rec) THEN 0 ELSE rec.byte_size),
              !.written = @ + (IF IsWrite(rec) THEN rec.byte_size ELSE 0),
              !.key = @ + (IF rec.sub_page = "KEY" THEN rec.byte_size ELSE 0),
              !.value = @ + (IF rec.sub_page = "VALUE" THEN rec.byte_size ELSE 0),
              !.combined = @ + (IF rec.sub_page = "BOTH" THEN rec.byte_size ELSE 0),
              !.loads = CountOn(@, ch, 1)]

ReplayRecord ==
    /\ stage = "replaying" /\ cursor < Len(trace)
    /\ LET rec == ValidatedRecord(trace[cursor + 1])
           ch  == PlaceOf(rec, job.mode, replay.loads).channel
       IN  replay' = Enqueue(Account(replay, rec, ch), rec, ch)
    /\ cursor' = cursor + 1
    /\ UNCHANGED <<source, tokens, trace, turn, stage, job, st>>

-----------------------------------------------------------------------------
(* The report is made, or the error is raised; the next job of the         *)
(* ablation starts from new counters.                                      *)
Finish == /\ stage' = "written" /\ job' = NoJob
          /\ UNCHANGED <<source, tokens, trace, turn, cursor, st>>

ReportExperiment == /\ stage = "running" /\ cursor = Len(trace)
                    /\ Finish /\ UNCHANGED replay

(* The reads that are left make a last, smaller batch.                     *)
ReportReplay == /\ stage = "replaying" /\ cursor = Len(trace)
                /\ replay' = IF replay.queue # <<>> THEN Flush(replay) ELSE replay
                /\ Finish

Reject == /\ stage = "rejected"
          /\ Finish /\ UNCHANGED replay

Next == \/ Prefill \/ DecodeLayer \/ Serialize \/ Synthesize
        \/ \E config \in Experiments : StartBaseline(config) \/ StartExperiment(config)
        \/ \E config \in Replays : StartReplay(config)
        \/ ExperimentRecord \/ ReportExperiment \/ ReplayRecord \/ ReportReplay \/ Reject

Spec == Init /\ [][Next]_vars

-----------------------------------------------------------------------------
(* P2's placement study, run_full_phase3_evaluation, on a loaded trace.    *)

(* Time in half microseconds: of a batch, and of the flash timing profiles *)
(* a page, tR and bus together.                                            *)
PcieOverhead == 20
PageTime == 60
TimingProfiles == {35, PageTime, 110}

Policies == {"conventional", "head_only", "naive_block_rr", "tensor_aware"}

(* The mapping is written out again, with two policies more.               *)
PolicyChannel(policy, rec, channels) ==
    LET b == IF rec.token_start > 0 THEN rec.token_start \div TokensPerBlock
             ELSE rec.block_id % BlocksPerHead
    IN  CASE policy = "conventional"   -> 0
          [] policy = "naive_block_rr" -> rec.block_id % channels
          [] policy = "head_only"      -> rec.head_id % channels
          [] policy = "tensor_aware"   ->
               (rec.layer_id + rec.head_id + b + b \div channels) % channels

(* evaluate_policy_placement as far as the end of its loop ...             *)
PlaceRecords(records, policy, channels, depth) ==
    FoldLeft(LAMBDA acc, rec :
               LET ch == PolicyChannel(policy, rec, channels)
                   s  == Account(acc, rec, ch)
                   q  == IF IsWrite(rec) THEN s.queue ELSE Append(s.queue, ch)
               IN  IF Len(q) >= depth THEN Flush([s EXCEPT !.queue = q])
                                      ELSE [s EXCEPT !.queue = q],
             [NewReplay EXCEPT !.loads = [ch \in 0..(channels - 1) |-> 0]], records)

(* ... and with its last batch.                                            *)
EvaluatePlacement(records, policy, channels, depth) ==
    LET r == PlaceRecords(records, policy, channels, depth)
    IN  IF r.queue # <<>> THEN Flush(r) ELSE r

ServiceTime(report, page) == report.batches * PcieOverhead + report.service * page

(* The two FTLs side by side.                                              *)
Compared(records, channels, depth) ==
    [conv |-> EvaluatePlacement(records, "conventional", channels, depth),
     ta   |-> EvaluatePlacement(records, "tensor_aware", channels, depth)]

PolicyAblation(records) ==
    [policy \in Policies |-> EvaluatePlacement(records, policy, Channels, QueueDepth)]
ChannelScaling(records) == [c \in StudyChannels |-> Compared(records, c, QueueDepth)]
DepthScaling(records) == [d \in StudyDepths |-> Compared(records, Channels, d)]

(* Mutant: the scans are nobody's phase.                                   *)
PhasesNoScan == {"PREFILL_WRITE", "DECODE_READ", "TOPK_FETCH"}

Phases == {"PREFILL_WRITE", "DECODE_READ", "TOPK_FILTER", "TOPK_FETCH"}
OfPhase(records, phase) ==
    FoldLeft(LAMBDA acc, r : IF r.operation = phase THEN Append(acc, r) ELSE acc, <<>>, records)
PhaseResults(records) ==
    [phase \in Phases |-> Compared(OfPhase(records, phase), Channels, QueueDepth)]

-----------------------------------------------------------------------------
(* Properties                                                              *)

PagesOn(loads) == FoldFunction(+, 0, loads)
Done(n) == SubSeq(trace, 1, n)
Logged == source = "p1" /\ stage \in {"decode", "written"}

(* The type of every variable; a job's records are those of a whole trace*)
(* and the replayer's queue never reaches its depth (replayer.py:309-314). *)
TypeOK ==
    /\ source \in {"p1", "p2", "p3"} /\ tokens \in Nat
    /\ stage \in {"prefill", "decode", "written", "running", "replaying", "rejected"}
    /\ job \in Experiments \cup Replays \cup {NoJob}
    /\ turn \in 0..(Steps * Layers) /\ cursor \in 0..Len(trace)
    /\ Len(replay.queue) < QueueDepth
    /\ Range(replay.queue) \subseteq 0..(Channels - 1)
    /\ \A e \in Range(st.pf.staged) : e.key \in (0..(ConfigLayers - 1)) \X Nat
    /\ Cardinality(Keys(st.pf.staged)) = Len(st.pf.staged)

(* A trace of P1 passes its validation script, numbers without a gap,      *)
(* writes in step 0 only, DRAM blocks read whole, SSD blocks scanned by    *)
(* their keys and fetched by their values (validate_real_trace.py:92-156). *)
(* Beyond that script: a block is written before it is used and is in the*)
(* same tier ever after, a scan covers the SSD blocks of its layer, and    *)
(* only scanned blocks are fetched (trace_generator.py:93-199).  What the*)
(* manifest says of tokens, layers and steps is what the lines add up to,*)
(* and replayer and schema take the same lines for writes and for reads.   *)
ValidTrace ==
    Logged =>
        /\ ScriptAccepts(trace)
        /\ ScriptAcceptsManifest(TraceManifest, tokens + 1, Len(trace))
        /\ LET Pages(op) == FoldLeft(LAMBDA sum, e :
                                IF e.operation = op THEN sum + e.byte_size ELSE sum, 0, trace)
           IN  Pages("PREFILL_WRITE") =
                 TraceManifest.num_layers * TraceManifest.num_kv_heads
                   * BlocksOf(TraceManifest.total_tokens - 1) * TraceManifest.logical_block_bytes
        /\ stage = "written" =>
             Max({e.step : e \in Range(trace)}) = TraceManifest.total_steps
        /\ \A e \in Range(trace) :
             LET r == FromDict(e)
             IN  /\ IsWrite(ValidatedRecord(e)) <=> IsCanonicalWrite(r)
                 /\ IsCanonicalWrite(r) <=> ~IsCanonicalRead(r)
        /\ \A i \in 1..Len(trace) :
             LET e == trace[i]
             IN  /\ e.operation # "PREFILL_WRITE" =>
                       \E w \in 1..(i - 1) : /\ trace[w].operation = "PREFILL_WRITE"
                                             /\ trace[w].block_id = e.block_id
                                             /\ trace[w].layer_id = e.layer_id
                                             /\ trace[w].tier = e.tier
                 /\ Range(e.selected_blocks) \subseteq
                       Range(e.candidate_blocks) \cup {e.block_id}
                 /\ e.operation = "TOPK_FILTER" =>
                       Range(e.candidate_blocks) =
                         {trace[w].block_id : w \in {x \in 1..(i - 1) :
                            /\ trace[x].operation = "PREFILL_WRITE"
                            /\ trace[x].layer_id = e.layer_id /\ trace[x].tier = "SSD"}}

(* The blocks with the sinks and the window stay in DRAM: the writer judges*)
(* a block by its tokens (block_adapter.py:118-128), the quality study by*)
(* block numbers (topk_evaluator.py:88-92), and both must mean the same,   *)
(* the padded last block included.  A query of the study attends to the    *)
(* tokens of just these blocks and of those that win, to every token at a*)
(* budget of 100 %, and what it moves holds them (lines 138-196).          *)
TiersAgree ==
    Logged =>
        LET writes == {e \in Range(trace) : e.operation = "PREFILL_WRITE"}
            number == Cardinality(SsdCandidates(tokens))
        IN  /\ \A e \in writes :
                 e.tier = "DRAM" <=> e.token_start \div TokensPerBlock \in HostBlocks(tokens)
            /\ \A percent \in {TopkPercent, 100} :
                 \A top \in kSubset(QueryCount(number, percent), SsdCandidates(tokens)) :
                   LET query == EvaluateQuery(tokens, top)
                       used  == {e \in writes : \/ e.tier = "DRAM"
                                                \/ e.token_start \div TokensPerBlock \in top}
                   IN  /\ query.tokens = UNION {e.token_start..(Min({e.token_end, tokens}) - 1) :
                                                  e \in used}
                       /\ percent = 100 => query.tokens = 0..(tokens - 1)
                       /\ Cardinality(query.tokens) * Heads * BlockPages
                              <= query.pages * TokensPerBlock

(* A replay finds what a trace wrote: a record that reads a block is sent*)
(* to the channel and die its write went to (replayer.py:293-303), and the *)
(* placement study counts the same load on each channel, the same batches*)
(* and the same queue.  The first part needs contexts of BlocksPerHead     *)
(* blocks a head, as the canonical trace has 44.                           *)
PlacementAgrees ==
    stage = "replaying" =>
        LET records == [i \in 1..cursor |-> ValidatedRecord(trace[i])]
            Place(i) == LET p == PlaceOf(records[i], job.mode, NoCounters)
                        IN  <<p.channel, p.die>>
        IN  /\ BlocksOf(tokens) = BlocksPerHead =>
                 \A i, j \in 1..cursor :
                    (IsWrite(records[i]) /\ records[i].block_id = records[j].block_id)
                        => Place(i) = Place(j)
            /\ PlaceRecords(records, job.mode, Channels, QueueDepth) = replay

(* What the study concludes from a trace of P1                             *)
(* (phase3_real_trace_eval.py:206-320): the conventional FTL is the worst*)
(* policy and no better for more channels, a deeper queue never costs more *)
(* time, whatever the flash timing; no policy changes what is read and     *)
(* written; the phases add up to the trace; and no time it divides by is   *)
(* zero (lines 213, 226, 240, 262, 311).                                   *)
StudyIsFair ==
    (stage = "replaying" /\ source = "p1" /\ cursor = Len(trace)
       /\ job.mode = "conventional") =>
        LET records  == [i \in 1..cursor |-> ValidatedRecord(trace[i])]
            policies == PolicyAblation(records)
            scaling  == ChannelScaling(records)
            depths   == DepthScaling(records)
            phases   == PhaseResults(records)
            conv     == policies["conventional"]
            ta       == policies["tensor_aware"]
            InPhases(field) == FoldFunction(+, 0, [p \in DOMAIN phases |-> phases[p].ta[field]])
            OnChannel(ch)   == FoldFunction(+, 0, [p \in DOMAIN phases |-> phases[p].ta.loads[ch]])
        IN  /\ \A policy \in Policies, page \in TimingProfiles :
                 /\ ServiceTime(policies[policy], page) \in 1..ServiceTime(conv, page)
                 /\ [policies[policy] EXCEPT !.loads = conv.loads, !.service = conv.service]
                       = conv
                 /\ PagesOn(policies[policy].loads) = Len(trace)
            /\ \A c \in StudyChannels :
                 /\ scaling[c].conv.service = conv.service
                 /\ scaling[c].ta.service \in 1..conv.service
            /\ \A a, b \in StudyDepths : a <= b =>
                 /\ ServiceTime(depths[b].ta, PageTime) <= ServiceTime(depths[a].ta, PageTime)
                 /\ ServiceTime(depths[b].conv, PageTime) <= ServiceTime(depths[a].conv, PageTime)
            /\ \A field \in {"read", "written", "key", "value", "combined"} :
                 InPhases(field) = ta[field]
            /\ \A ch \in 0..(Channels - 1) : OnChannel(ch) = ta.loads[ch]

(* No free reads (v2_prefetcher.py:5): every block an experiment uses is   *)
(* counted once by the storage, as a prefetch or as a miss; every prefetch *)
(* is useful or counted useless; the report's pages are those that were    *)
(* read, on the channels and in the sub-pages they were read from.         *)
NoFreeReads ==
    stage = "running" =>
        /\ job.prefetch => st.be.reads = st.pf.requests + st.pf.misses
        /\ st.pf.requests = st.pf.useful + UselessPrefetches(st.pf)
        /\ st.pf.extra = job.pages * st.pf.useless
        /\ st.be.pages = job.pages * st.be.reads
        /\ st.be.kind # "mock" => /\ PagesOn(st.be.channels) = st.be.pages
                                  /\ st.be.key + st.be.value = st.be.pages
                                  /\ st.be.combined = 2 * st.be.value

(* Room is made block by block before the batch is inserted                *)
(* (v2_prefetcher.py:85-90, 102-118), so the buffer may pass its capacity, *)
(* but only by the rest of one batch.                                      *)
LargestBatch == Max({0} \cup {Len(BlockIds(FromDict(trace[i]))) : i \in 1..Len(trace)})
StagedBound == Len(st.pf.staged) <= Capacity - 1 + Max({1, LargestBatch})
=============================================================================
