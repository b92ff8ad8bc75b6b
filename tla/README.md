# AI-SSD: a verification project

AI-SSD keeps the key/value (KV) cache of a transformer on an SSD and fetches, for each
layer, only the blocks that attention needs. Its code is in three parts that were
written by three people and meet at narrow interfaces:

- **P1** (`person1_kv_engine`): which tokens are blocks, which blocks attention reads,
  what stays in RAM;
- **P2** (`person2_ssd`): where a block lies: the live storage backend on a file or on an
  NVMe device in a virtual machine, and a flash simulator;
- **P3** (`person3_system`): the prefetcher between them, and the integration.

This directory holds TLA+ models of the parts whose errors tests hardly reach, the TLC
configurations that check them, and TLAPS proofs of the most important results.
`PROJECT.json` has the same information as tables: components, runs, mutants, the map
from definitions to source lines, findings, hazards and theorems.

    tlc -workers 2 -config adapter.cfg MCPrefetchAdapter.tla    # a run
    tlapm SessionProofs.tla                                           # a proof

## 1. Inventory

| component | state | operations | concurrency and failure |
|---|---|---|---|
| live prefetch adapter (`inference_adapter.py`) | LRU staging buffer, futures, thread pool, counters | `prefetch` (sync, async), the demand reads, `write_block`, `evict_block`, `reset_stats`, `close` | pool threads fill what the decode thread reads; backend errors surface in futures |
| decode path (`transformer_kv.py`, `aissd_inference.py`) | phase, layer, winners of Top-K | prefill offload, select, read, predict | runs the adapter in three orders; the adapter outlives a prompt |
| live backend (`inference_backend.py`) | log offset, metadata table, descriptor | `write_block`, page/block/batch reads, `compute_topk_filter`, `evict_block`, `close` | read by pool threads without a lock while the decode thread writes; I/O errors |
| NVMe client and guest daemon (`nvme_client.py`, `nvme_guest_daemon.c`) | socket, process handle; accepted connection, device, page cache | the calls of the client; the opcodes of the daemon | timeouts, reconnects, media errors, death of the guest |
| flash simulator (`ftl/`, `nand/`, `storage_model/`, `kv_allocator/`) | mapping table, reverse map, counters, page states | `store_block`, `allocate`, `estimate_read_latency`, `reset` | sequential; capacity and wrap-around |
| tensor mapper (`tensor_mapping.py`) | none | coordinate to channel, die and logical address | arithmetic at boundaries; three copies of it in the code |
| tiered KV manager (`tiering/`), mock and physical SSD | blocks in RAM, blocks on flash, controller DRAM | prefill, append, fetch, evict, prefetch, in-storage Top-K | sequential; long call sequences; capacity |
| state providers and model runs (`adapters/`, `aissd_inference.py`) | sinks, candidates and window of each layer; patched forwards; the model's own cache | wrap, prefill, append, select the active tokens, restore | run after run on one storage; a run that raises half way |
| model registry (`registry.py`) | built-in and custom entries, `custom_models.json` | detect, register, load, look the adapter up | the process dies while it saves; two names for one model |
| trace prefetchers, predictor (`v2_prefetcher.py`, `prefetcher.py`) | staged buffer | prefetch, access | sequential; capacity |
| P3 storage backends (`person3_system/storage`) | counters by channel; thread pool, file | read, write, batch, async | pool threads (not used by the experiments) |
| traces (`trace_generator.py`, `synthetic_generator.py`, `replayer.py`, `trace.py`) | a trace file and its manifest | generate, validate, read, replay | three writers and three readers that must agree |
| experiments and placement study (`runner.py`, `phase3_real_trace_eval.py`) | counters of one job | ablations, sweeps, reports | none; job after job on one trace |
| Top-K kernels (daemon, C kernel, Python) | none | choose the best k candidates | ties, padding |
| integration and API (`orchestrator.py`, `ai_ssd.py`) | counters; the wiring of the parts above | KV_PREFETCH, KV_EVICT, mode switch, the simulated pipeline | calls reach the SSD past the KV manager |
| dashboards, evaluators, baselines, benchmarks | counters | reports | none of its own |

How they interact: the decode path calls the adapter, and the adapter calls the backend
from the decode thread and from its pool; the backend calls the NVMe client, which holds
a lock around each call; the client talks to the daemon over one TCP connection. The
simulator side is separate: the tiered manager stores blocks through the physical
adapter, which allocates pages in the flash simulator; the adapter calls back a listener
on every access, and the listener fills the speculative prefetcher's buffer. The gateway
and the pipeline of the orchestrator use the same adapter and the same prefetcher. The
mock SSD has the same interface as the physical adapter and stands in for it in P1's
tests. A third side has no store at all: P1 logs a trace of a model's run (P2 and P3
synthesise one when they have none), and P3's experiments, P2's replayer and P2's
placement study read it. The registry says which adapter runs a model, and the adapter
makes the state provider that decides what of a layer's cache goes to storage.

What is hard in it, and so what the properties are about: a staged entry is filled by another
thread, perhaps after it was evicted and staged again; on a backend without batch reads the
pool threads re-enter the adapter without a lock; the staging buffer is a cache without
invalidation; a batch is submitted before its entries exist; a worker may fail and its error
is kept; close does not wait; the backend is read while it is written; a reply on the stream
does not say what it answers, so that one request that raises leaves all later ones with the
replies of others; a machine may die with unflushed writes, and a flush reports success
whatever the device said; a full flash device stops an eviction or a mode switch half way;
blocks are erased behind the manager that lists them; programs that never meet compute a
block's tier and its place each on their own; a model is looked up twice, under different
names; a run that fails leaves its patches to a `finally`. `PROJECT.json` lists each at its
line, with the properties about it.

## 2. The modules

| module | models | of |
|---|---|---|
| `PrefetchAdapter` | the staging buffer, prefetch, pool, reads | `RealInferencePrefetchAdapter` |
| `StagingThreads` | buffer, entry objects, futures and `read_block`, access by access, when pool threads re-enter the adapter | `RealInferencePrefetchAdapter` on a backend without batch reads |
| `DecodeSession` | prefill and decode on top of it (EXTENDS it) | `run_aissd_decode`, `TransformerKVStateProvider`, `NextLayerPredictor` |
| `BlockStore` | the abstract promise: a store without a cache | - |
| `InferenceBackend` | the append-only store and its concurrent readers | `RealInferenceStorageBackend` |
| `NvmeProtocol` | client, connections, daemon, device | `QemuNvmeClient`, `nvme_guest_daemon.c` |
| `FlashSimulator` | page allocation, mapping tables, page states | `ftl/`, `nand/`, `io_model.py`, `kv_allocator/` |
| `PhysicalAdapter` | payloads, controller DRAM, mode switch (EXTENDS `FlashSimulator`) | `PhysicalTensorAwareStorageAdapter` |
| `SpeculativePrefetcher` | the LRU buffer of staged keys, the predictor | `prefetcher.py`, `predictor.py` |
| `TieredKV` | the tiered manager and its wiring (EXTENDS both) | `TieredKVManager`, `KVBlockPool`, `SystemOrchestrator`, `AISSDSystem` |
| `MockSSD` | the abstract promise of a device: stored, cached, answered | `MockSSDController`, `KVStorageInterface` |
| `ModelRegistry` | entries, the file, lookup and onboarding | `registry.py`, `descriptor.py`, `add_model.py` |
| `StateProvider` | blocks, window, selection | `TransformerKVStateProvider`, `SlidingWindowKVStateProvider`, `AISSDBlockStorageBackend` |
| `ModelRun` | runs of models, with AI-SSD and dense (EXTENDS both) | `run_aissd_decode`, `run_baseline_decode`, the adapters, `demo_inference.py` |
| `TensorMapper` | channels, dies, logical addresses | `DeterministicTensorMapper` |
| `TraceRecords` | the lines of a trace, its writers' and readers' rules (EXTENDS `TensorMapper`) | `trace_generator.py`, `synthetic_generator.py`, `trace.py`, `trace_reader.py`, `validate_real_trace.py`, `topk_evaluator.py` |
| `TraceStorage` | backend and staging buffer of an experiment | `analytical_backend.py`, `mock_backend.py`, `V2Prefetcher` |
| `TracePipeline` | writing a trace and every job on it (EXTENDS both) | `run_p1_pipeline.py`, `ExperimentRunner`, `StorageTraceReplayer`, `phase3_real_trace_eval.py` |
| `MC...` | bounds and symmetry for TLC | - |
| `PrefetchAdapterProofs` | proofs about `PrefetchAdapter` | - |
| `SessionProofs` | proofs about `DecodeSession` (EXTENDS the adapter's) | - |
| `NvmeProofs` | proofs about `NvmeProtocol` | - |
| `BackendProofs` | proofs about `InferenceBackend` | - |
| `TieredProofs` | proofs about `TieredKV`, `PhysicalAdapter`, `FlashSimulator` and `MockSSD` | - |
| `TraceProofs` | proofs about `TracePipeline`, `TraceStorage`, `TraceRecords` and `TensorMapper` | - |
| `ModelRunProofs` | proofs about `ModelRun` and its registry | - |
| `SequenceLemmas` | facts about sequences and sums that several sets of proofs use | - |

Definitions keep the source's names. An operator written just before another one and
announced as "Mutant" is a plausible bug in the latter; `PROJECT.json` names, for each
property, the mutant that must break it.

### PrefetchAdapter

`lru` and `entry` are `_staging_buffer` (order and `StagedInferenceBlock`s), `future` and
`queue` the executor's futures and work queue, `store` the backend, `call` the adapter
method that the caller is inside, `result` what the current read has returned so far,
`stats` the counters. A block's tensors are the number of the write they come from, 0
for the zeros of an absent block.

The backend here has batch reads, as the pipeline's live one does. A pool thread then
calls the backend and touches nothing of the adapter but its future
(`inference_adapter.py:213-236`), so what the caller does between two accesses to futures is
one step. An asynchronous `prefetch` is `PrefetchSubmit` (submit to the pool) and
`PrefetchInsert` (put placeholders in the buffer); a read is `BeginRead`, one `ReadHit`
(awaiting the entry's future), `ReadPoisoned` or `ReadMiss` per block, and `ReadReturn` or
`ReadFails`. A worker is `WorkerTake`, one `WorkerFetch` per block and `WorkerFinish` or
`WorkerFail`.

Left out: shapes, bytes and timings, `head_id` and `token_start`; `_block_payloads` (a
mock used when there is no backend); `_block_meta`, the geometry cache (it is read under
a key, "shape", that some of its writers do not set; no property depends on it).

### StagingThreads

On a backend without batch reads (P3's `StorageBackend`s; the adapter makes one when it is
given none) a pool thread fetches each block through the adapter's own `read_block`
(`inference_adapter.py:237-242`), beside the caller and without a lock. Nothing is atomic there
but an access to a shared object, and a step of this module is one: a membership test, a
lookup, `move_to_end` or `popitem` of the OrderedDict, a read of `entry.future`, an
assignment to an entry. `thread[t].at` is where a thread is in `read_block` and
`_resolve_entry`. The entry objects have identities (`entry` lists all that were ever made,
`buffer` those that are staged), because a thread keeps the one that it looked up
(`held`) while it waits for the future, and the buffer may drop it and get another of the same
key meanwhile. So the model has what follows in the code: `_resolve_entry` fills the entry
that is staged now and not the one that is held; a hit on an entry without data is
answered with zeros; a key that has gone raises `KeyError` between the test and the access;
a future that another thread has set to None raises `AttributeError` when it is read again;
eviction wakes no one who waits. A worker's outcome goes into the result of its own
batch, and from there to whoever awaits it.

Left out: writes (every block is stored from the start, so zeros are never right), the
counters, layers (a batch is of one).

### DecodeSession and BlockStore

A session is a prefill (`PrefillWrite` for each history block, then the reset of
`StartDecode`) and a decode, layer by layer: `EnterLayer` lets Top-K pick any of its
candidates, and `Plan` gives the order of reads and prefetch in the three branches of
`select_and_fetch_active_state`. `NextPrompt` starts over with the same adapter, the same
backend and the same block ids. `BlockStore` has a store and the result of a read, and no
cache: it is what attention may assume. `ImplementsBlockStore` says that a session is a
`BlockStore`, under the mapping that forgets everything but `store` and `result`.

### InferenceBackend

`log` and `end` are the backing file or device and `_file_offset`, `table` is `_storage`. A
page is one cell: all blocks of a model have one size (the provider pads them), and a
cell holds which write, and which of its two pages, it came from. A call is split at
every access to shared state: `write_block` into its two `pwrite`s (or one device
transfer) and `Publish`; a read into `Lookup`, `Pread`, or for batches on a device
`Lookup`s, `Fetch` and `Unpack`, which looks each block up again. `held` is a history
variable: the writes each block came from while a call ran.

The decode thread writes, evicts, closes and reads; a pool thread only calls
`read_block_batch`, as the adapter's workers do. I/O may raise at any point; a transfer
that raises may have written nothing, the first page or both.

On a device, a request that raises may also leave its reply on the client's connection
(`nvme_client.py:141`, `159`, `185`, `247`; run `nvme_late` shows how), and the backend never replaces
the client. From then on the connection is `spoiled`, and a request takes the reply of an
earlier one. A read returns with other bytes than it asked for (`ReadAstray`); a write is
reported done before the device has done it (`TransferAstray` puts it into `late`,
`Arrive` carries it out or refuses it) and is entered in the table all the same. Two history
variables record what went by a reply of its own: `astray` of a call, `sure` of an extent. Which
bytes a call that is `astray` has got is left open, any being possible, and no property says
anything of them: what the properties promise of a device, they promise of replies that
were the request's own, and a block may be listed that is not stored (`ListedIsStored`, false). A
file has no such requests, and there they hold of every call.

Left out: short writes (`os.pwrite`'s result is ignored), reuse of a closed descriptor's
number by another file, the tensor mapper's addresses and the counters, which no read
depends on.

### NvmeProtocol

A connection is a pair of sequences of cells (header, item header, Top-K winner, one
page of data); receiving n bytes takes the next cell whatever it is, so a stream out of
step delivers headers as data. A page's content is the number of the call that wrote
it. The client's lock allows one call at a time, so a call is a request (`Ask`), the
receiving steps, and a return, an exception, a `Timeout` or a `Reset`. The daemon serves
one connection after the other, the oldest first. `Crash` loses the guest's page cache,
all but what was flushed or written back; closing a connection may lose what the daemon
has not read. Pages in `BadPages` fail to read and to write; those in `WornPages` take a write
into the page cache and refuse it when the cache is written out, at a flush or at the
daemon's end. The daemon looks at neither result: `fdatasync`'s return is dropped and
the answer is status 0 (`nvme_guest_daemon.c:534`). A refused `connect()` (`DialRefused`, `Refused`)
raises after it has closed the old socket and leaves that in `self.sock`
(`nvme_client.py:110-119`); only `start_qemu` dials while a socket is there, and the backend's
constructor calls it before anyone else has the client, so that what meets the closed
socket is the next dial and `stop_qemu`, which fails to send on it and goes on. That QEMU's forwarder
accepts before the daemon listens is a dial whose ping has no answer in time, hence the
same step. Left out: data that happens
to look like a header, scores (a winner carries the content it was scored from), `top_k`
greater than one.

### TieredKV and what it is built from

`pool` is the `KVBlockPool` (block ids are indices, shared by all layers), `dev` the
physical adapter with its simulator, `buf` the speculative prefetcher. `length`, the tokens
each layer was given, and `erased`, the keys `KV_EVICT` removed while only the SSD had them,
are history variables. A mode switch replaces the simulator object, so simulator, adapter
and prefetcher are record values with operators on them and only `TieredKV` has variables.
The stack has one thread and each call is one step. A call that raises keeps what it did
before: `OffloadBlock` and `Replace` stop changing anything once the allocator raises, as
the loops of the code are left there.

The token at position i stands for its key and value rows, and a payload's size is its
number of tokens. The actions assume of the callers what every caller in the repository
does: layers are treated in order, one prefill each with the same prompt, then one token
each (`Turn`); requests name blocks of the layer they are for; the window has at least
one token (with none, a last block that is cold while it still has room would go to the
SSD and take the next token as its only data).

`ImplementsMockSSD` says that this device, with its modes, its translation layers and its
full flash, is a `MockSSD` to the host: each call is one of the mock's, under the mapping
that forgets simulator and order. `MockSSD` is stated by what a call may do to `store`,
`cached`, `used` and `reply`, not by how; a step of `TieredKV` that stores several blocks is
one `StoreKV` of them.

A read's price is `BatchReadTime`, the load of its busiest channel. Left out: the queues and
clocks of buses and dies and all counters (KV_READ and KV_WRITE of the gateway change nothing
else; KV_WRITE acknowledges a block it does not store); erase and invalidate of pages, which
nothing calls; the growth of the buffer's capacity at the start of `run_simulation`; scores
and attention arithmetic, so that Top-K may answer any blocks of the layer that the SSD
stores.

### ModelRegistry, StateProvider and ModelRun

`file` is `custom_models.json` with a flag for a file that does not parse, `known` the
`KNOWN_MODELS` of the process, `kept` the registrations that were completed. A save is split
at the truncation (`CrashInSave`). A run is `StartRun` (detect, accept, look the adapter up
again under the model's own id, wrap), `Prefill`, one `DecodeLayer` per layer and token, and
`Finish`, or `PrefillFails` after any number of the prompt's writes and `DecodeFails`;
`StartDense` and `DenseLayer` are the baseline. `layerData` is the provider's `layers_data`,
`native` the model's own KV cache, `patched` the layers whose forward is replaced, `resident`
the recurrent layers that the hybrid provider keeps. A token is its run and its position, so
that a token of an earlier prompt, or in the wrong place, can be told. Which of the candidates
score best is chosen freely, in any order. In the models of the run, hybrid ones have one
attention layer and one recurrent one. A name goes through the whole alias table (`Alias`,
`registry.py:267-273`), then the lookups: the entries, then the `Hub`, which is external, then
the hub again with a vendor's prefix (`Vendor`). Left out: weights and arithmetic, the
contents of a recurrent state, upper and lower case in names.

A prompt no longer than sinks and window is handled, by the code and by the model: all of it
goes to the sinks, the window starts empty, and no block is cut. (`DEEP_DIVE.md:96`
expects prompts under 20 tokens to raise a shape mismatch. They do not; section 4
says what they lose instead.)

### TensorMapper, TraceRecords, TraceStorage and TracePipeline

A line of a trace is a record with the keys of its JSON object; sizes count pages of 4096
bytes. `source` says who writes it: P1 in `Prefill`, one `DecodeLayer` per layer and step and
`Serialize`; P2 and P3 at once (`Synthesize`). Jobs then run on the finished trace, one
after the other: P3's experiments (`StartExperiment`, `ExperimentRecord`, `ReportExperiment`;
the dense baseline reads nothing and is `StartBaseline`) and P2's replay (`StartReplay`,
`ReplayRecord`, `ReportReplay`); a trace that the job's reader does not accept is rejected, as
the code raises. Backend and prefetcher of an experiment are record values. The placement
study is a set of operators on the records of a replay, for it has no state of its own.
P1's winners are any of the candidates in any order. Left out: latencies other than the
study's service times, reports and plots, and reading or writing the file line by line (a
crash in the middle leaves a shorter file and an old manifest, which reader and replayer
take without comparing them; only `validate_real_trace.py` does).

## 3. The runs

| run | instance | shows |
|---|---|---|
| `adapter` | 2 blocks of which one is written, capacity 1, batches of 2, 1 worker, 2 futures, I/O may raise, `close` | each read returns or raises, each future settles, although workers fail and the pool shuts down; the futures its entries wait for cover them, no hit lacks data, and the report accounts for every prefetch |
| `threads` | 3 blocks, capacity 2, batches of 2, 2 workers, 2 fetches, 4 entries, 2 reads, every access a step | no entry stops waiting without its data, no thread waits for a fetch without its block, the caller's own hits are sound, although threads hold entries the buffer has dropped |
| `session` | 2 layers of 3 blocks, capacity 2, prefetches of up to 2, 2 workers, 2 futures, two prompts, all modes | the buffer keeps to its true bound, blocks are evicted and fetched again by another batch while an earlier fetch runs, and still a decode over the adapter implements a plain block store |
| `nvme` | 3 pages, one bad and one worn, 3 calls, 2 connections, 1 crash | the stream stays in step, results are true, no abandoned write lands on a newer one, calls end |
| `backend` | 2 keys, 1 worker, 4 cells, 2 writes, file and device, connections in and out of step | no read tears a block or shows what was not there, beside a writer and through failing I/O |
| `tiered` | 2 layers, blocks of 2 tokens, prompts of 3 and 7, 8 tokens, 3 pages on 3 channels, 3 tokens of controller DRAM, 3 calls | tokens are neither lost nor doubled, a decode step can always attend, every read has its price and the device is the mock's, whatever is evicted, fetched, erased or remapped and wherever the flash fills up |
| `trace` | 2 layers, 2 heads, blocks of 2 tokens, contexts of 2, 5 and 10 tokens, 1 step, all three sources; the standard ablations and two more experiments; queue depth 3, studies with 1, 2 and 4 channels and depths | writers and readers of a trace agree: on what is valid, which blocks are in DRAM, where a block lies, what an experiment reads and what the study compares |
| `models` | models of 4 architectures under 10 names, 2 layers, prompts of 3, 6 and 8 tokens, 3 decode steps, budgets of 40 and 100 %, 4 models to onboard (one under an alias), 2 runs | attention is given the tokens it should, state has one owner, nothing of a failed run stays, the registry answers as it was told |
| `adapter_stale` | 2 blocks, capacity 2, versions up to 2 | violated: a block rewritten while staged is served in its old version |
| `threads_selfwait` | as `threads`, 1 block, capacity 1, fair threads | violated: a worker waits for its own future |
| `nvme_late` | as `nvme` | violated: a read takes the late reply of the read that timed out |
| `models_qwen3` | as `models` | violated: a Qwen3 run by its id decodes without the norms its prefill applied |

Why the bounds are enough. In the adapter two blocks with capacity 1 let two batches overlap
on a block, and a block be evicted and staged again by another batch while the first still
runs; `session` gets there too, by way of mispredicted blocks that the LRU drops, and fills
its buffer up to the bound (capacity 2 and prefetches of 2 make 3), which with two blocks in
all could not be passed. In `threads` a third block makes the buffer of two
overflow, and two fetches and four entries let a block be evicted and
staged again while a thread holds its first entry, and the second fetch fill the second entry;
two workers let one wait for the other. Two prompts are what a stale entry needs to outlive
its data. In the backend two writes let a block be evicted and stored again during one read,
or one be late while the next is made; four cells hold both, and a store that is full is one
reason among others for which a write raises, which it may do at any page. On the device one
crash with three calls places it before, inside and after a write and its flush, of a page
that is good, bad or worn; two connections let an abandoned request be served after a newer
one. The flash of `tiered` has three pages: a prompt of 7 tokens makes two or three cold
blocks a layer, so the fourth exhausts the conventional layer in the middle of an offload, a
switch with four stored blocks fails half way, and on the striped layer a channel wraps at its
second page. Three calls besides the tokens allow a block to be fetched back, offloaded again
and erased, or cached, evicted and cached again; the DRAM has room for one block, so its limit
is met. `PagesOwned` speaks of devices whose counters have not wrapped; the states beyond are
explored too, under the other invariants.

The contexts of `trace` have one, three and five blocks a head: all in DRAM; a padded last
block and a Top-K share below one; and as many blocks as the placement's stride
(`BlocksPerHead`), with more candidates than the staging buffer holds. Three configured layers
over a trace of two let a prefetch name a layer the trace does not have. A queue of 3 over
traces whose length is no multiple of it leaves a last, smaller batch. In `models` a prompt
of 3 tokens stays in DRAM, 6 make a half-empty last block and 8 a block that leaves the
sliding window while two tokens are decoded; two runs are what a stale block, a patch that
stays or a second owner needs, and a registration may come before, between or after
restarts. Of the names, two are aliases, and one is found only with a vendor's prefix.

`CHECK_DEADLOCK FALSE` stands where the system may stop: after `close`, at the end of a
decode, and when a bound (`MaxStaged`, `MaxVersion`, `MaxCalls`, `MaxWrites`...) is used up.
`MaxDemand` and `MaxStaged` keep the counters, and with them the state space, finite.

Liveness is checked under weak fairness of what a thread does once it runs: the caller
inside a call (`Continue`), a worker taking a batch when one is queued (`WorkerTake`), and
each worker's next step. Nothing is assumed of the caller's starting a call. The
executor's threads are operating-system threads that wait only for the events the model
has, so the assumption is that a runnable thread runs. In `nvme` only the client's steps
inside a call are fair: it has a timeout on every wait, and the guest may stay silent.

## 4. What the runs found

Each finding has a run in which TLC finds the counterexample; `PROJECT.json` quotes the
text that says otherwise.

- `adapter_stale`: `write_block` does not touch the staged copy. The decode path resets the
  adapter between prefill and decode and writes nothing in between, which is why
  `session` holds.
- `threads_selfwait`: on a backend without `read_block_batch` the worker's read finds the
  placeholder with the worker's own future. (The live backend of the pipeline has batch reads.)
- `nvme_late`: a timeout leaves the connection open, and replies are not matched with
  requests.
- `models_qwen3`: `run_aissd_decode` looks the adapter up under the model's id, which is no
  key of the registry; the type `qwen3` has no adapter class, and the fallback by family is
  the `MistralAdapter`, whose forward leaves out `q_norm` and `k_norm`. The prefill, through the
  model's own forward, applied them. Under its key `qwen3-8b` the demo accepts the model with
  another adapter than the one that then runs it.

Six more statements of the repository are false of the code. Each is a definition that no
run lists, and added to the configuration named TLC refutes it; the invariants of the passing
run say what does hold.

| definition | in | said at | what happens |
|---|---|---|---|
| `ReadsGetTheBlock` | `threads` | `tests/test_inference_prefetch_adapter.py:14` | a worker that waits in `read_block` keeps the entry that it looked up; evicted and prefetched again meanwhile, the block has another entry, which is the one that gets the data; the worker's hit is answered with zeros, and these go to the buffer with its batch |
| `ReadsDoNotRaise` | `threads` | the same | the caller evicts or resolves an entry between two accesses of a worker, and then gets the worker's exception for a block that is stored |
| `FlushIsDurable` | `nvme` | `nvme_client.py:352` | the daemon drops `fdatasync`'s result, where the error of a buffered write is reported, and answers that all is well |
| `ListedIsStored` | `backend` | `inference_backend.py:9` | after a request that timed out the connection is out of step; `write()` returns on the earlier reply, and the block is entered although its own write is refused |
| `OnboardedFound` | `models` | `add_model.py:298` | four names are replaced by built-in keys before anything is looked up, and the onboarding may register a model under one of them |
| `WindowKept` | `models` | `aissd_inference.py:372` | a prompt of at most sinks + window tokens leaves the window empty (`transformer_kv.py:204`), and from then on it holds one token: all but the last generated token are forgotten |

What else the modelling showed, and the models have as it is:

- `prefetch` calls `_ensure_buffer_capacity` for each block of a batch before it inserts any,
  so a buffer of capacity c grows to c - 1 + the largest batch (`StagingBound`, proved); the
  trace prefetcher has the same shape (`StagedBound`).
- Block ids are unique over all layers and the predictor keeps them when it goes to the
  next layer, so the speculative prefetcher stages keys that no block has. Nothing is served
  from that buffer; what is lost is the prefetch.
- `evict_kv` of both SSDs does not give back the bytes of a cached block
  (`mock_ssd.py:173`), so controller DRAM is used up by blocks that are gone.
- A model onboarded under a built-in key is that model until the next restart, when the
  built-in entry hides it (`RegistryAnswers`); a crash while one model is saved loses all
  that were saved before.
- A dense experiment on a synthetic trace reads as few blocks as the record names winners
  (`trace.py:134`), so that it costs what the Top-K one does.

The striped layer's counters wrap without a capacity check, and then two blocks have one
page. `person2_ssd/tests/test_m2_channel_stress.py:217` calls the mapping "100% bijective with zero
mapping collisions"; `PagesOwned` says up to where that holds.

Two divergences have no run because no property of a model is about them: `DEEP_DIVE.md`
says that the daemon opens the device with `O_SYNC`, and it opens it `O_RDWR` (the model has
the page cache that follows from it); `DEEP_DIVE.md` says that consumed blocks leave the
staging buffer, and they stay until they are evicted.

## 5. What is proved

All theorems hold for every value of the constants under the named assumptions of the
modules (`AdapterAssumption`, `SessionAssumption`, `BackendAssumption`, `ProtocolAssumption`,
`GeometryAssumption`, `PolicyAssumption`, `PromptAssumption`, `DramAssumption`, `BufferAssumption`,
`TraceAssumption`, `CapacityAssumption`, `PipelineAssumption`, `ExperimentAssumption`,
`ProviderAssumption`, `ModelAssumption`, `BoundAssumption`): sets of layers,
blocks and threads of any size, any capacity, batch size, geometry and length of a run.
`BoundAssumption` is about the bound of the model: no prompt is longer than `MaxTokens`.

**The adapter** (`PrefetchAdapterProofs`). `TypeCorrect` is by induction. `StagingBounded`
needs `Room`, which says that while a batch is being submitted the buffer has the room that
eviction made: the bound alone is not inductive, since the insertion step relies on an
eviction in an earlier step. The other three come from one inductive invariant, `SoundAlways`:
`IndexOK` (a helper: the order and the entries, which the model keeps apart, are one
OrderedDict), `Covered` (the future of an entry is one whose batch has its block), `Pending`
and `Complete` (what a batch has read, and has left to read, make up the batch) and `Filled`
(an entry without a live future has data). From it follow `EntriesCovered` and
`HitsNeverEmpty`: a hit never falls back to zeros, though the entry it hits was inserted
before its data existed, may have been evicted and inserted again meanwhile, and is filled by
another thread. `BalanceAlways` is about the counters: the unread blocks in the buffer are
counted by `Account`, and each step moves as many between the buffer and the counters as it
takes from the other (an entry listed once is counted once, `CountListing` and `CountApart`).
All this is about backends with batch reads; on others the workers are not bound by it, as
section 4 says, and what then still holds (`FetchesDeliver`, `CallerHitsFilled`) is model-checked only.

**The decode session** (`SessionProofs`). `SessionOnAdapter`: each step of the session is a step
of the adapter or leaves it alone, so the adapter's theorems are theorems of the
session too. `StagingFreshAlways` (what is staged is what the backend holds) is not inductive:
a fetch that the earlier prompt submitted may still run, and obtain tensors that the next
prefill overwrites. The strengthening is `Steady`: every fetch that an entry of the buffer or a
pending insertion holds has obtained what the backend holds now (`HeldFresh`; the late
fetches are harmless because the reset took every entry that held them), only an
insertion holds a future, no call is open during prefill, and the backend holds the last
write of each block (`Between`). `StagedStableAlways`: what an entry has
been filled with, no later completion replaces.
`SessionImplementsBlockStore` is the refinement: a write of prefill is the store's `Write`, a hit
answers one block, the return of a read answers those it missed, and everything else
is a stutter. So decoding through prefetching, eviction and a thread pool is decoding
from a plain store, for every order of the three steps and every number of workers.

**The NVMe transport** (`NvmeProofs`). `TypesHold` includes where a refused `connect()` can
leave the client: the socket it holds is closed only while `start_qemu` is dialling.
`NoLateWriteHolds` needs `WritesInOrder`: on every open connection the writes on their way are
newer than what the device holds, and over all connections they are in the order in which they
were written (`Ordered`; connections are served oldest first). A write that the client gave up
therefore cannot land after one that came later. `InStepHolds` (the client never takes a reply
to one request for the reply to another) and `TruthfulHolds` (what it wrote is what the guest
holds, what it read is the present content, and after a `flush()` nothing is in the page cache
alone but what the device refused, for a flush that failed is answered like one that did not)
are inductive only together with `Current`: the connection in use is `Quiet`, `Waits` for the
whole request that was sent, or is `Answered`: what is left of the reply, cell by cell, is
about the pages that the call has left to read and about their present content. A request of
several cells that is cut by a timeout, and a reply half of which has been read, are the cases
that neither property alone says anything about.

**The backend** (`BackendProofs`). The store's log below its end does not stay as it is: on
a connection out of step the end passes cells that a late write still fills. The inductive
invariant `Inv` rests on `Safe`: a cell below the end and below every write on its way. Every
extent in the table or in a reader's hands is `Fit`: if the reply to its write was its own
(`Told`; on a file that is every entry), its two pages are there, in safe cells (`Placed`), and
if not, the connection is out of step, and stays so. Of each call it says that it has the
`Shape` of its step, what a write has put at the end of the log (`Put2`; a transfer with a
reply of its own found nothing on its way), and what a two-step read has so far (`Partial`). A
step writes no safe cell and leaves it safe (`Kept`), so a step of the writer, or a write that
arrives late, keeps every other thread's call good, although that thread may hold extents the
table has forgotten. `BackendTypeCorrect` and `PagesStayIntact` follow. A second invariant,
`AllHeard`, adds the history: whatever a call has looked up is a write that the table named
during the call, and what it answers from a reply of its own is that write's pages.
`ReadsReturnOneWrite` and `TopKScoresOwnKeys` follow: reads without a lock are never torn and never
show a write that raised. Of calls that went by another's reply nothing is proved; there
is nothing true to say of what they return.

**The tiered stack** (`TieredProofs`), from the flash up to the host.

*Flash.* `StoreKeepsSound`: for every geometry, every block and both placement modes, storing a
block keeps the translation tables inverse and every mapped page holding its block; `NewIsSound`
is the start. `Consistent` is not inductive: `Program` passes over a page that is not free, so
the page must be new. `Allotted` is the reason that it is: every programmed page came from a
count the allocator has passed. In the conventional layer no two counts give one location
(`LinearInjective`), since page, block, plane, die and channel are its digits and the channel
is not reduced; in the striped one page and block spell out the channel's counter as long as
that has not wrapped (`Unwrapped`). `LinearOnDevice` says that the conventional layer leaves the
device only after the last page.

*Loops.* Offloading, `prefetch_kv`, `set_mode`, the predictor and `run_simulation` are folds. Each
is unrolled once into a function of the turn (`OffloadTurns`, `CacheTurns`...), over which the
proofs go by set induction; `OnlyIn`, which is a recursive function, is unrolled the same way.

*Adapter.* `AdapterGood` is kept by every call: the simulator's tables are sound, the insertion
order lists exactly the store, payloads are not empty, the controller caches stored blocks
within its DRAM. `PagesAlwaysOwned` is part of it, so it holds through mode switches that raise half way.

*Pool.* `PoolAlwaysGood` is the induction, with `IInv` = `PoolGood` and `AdapterGood`. That no token is
lost (`EveryTokenHeld`) is not inductive: an append to a last block that had left RAM would lose
the block's tokens. `PoolGood` says why that never happens. The blocks of a layer tile its
tokens, all full but the last (`Tiles`), and a block that is not in RAM, or that the SSD has, is
past the sinks and the window (`Past`), so it ends at least one token before the layer does and
is not the last. It also says that a block on the SSD holds its own tokens, which a block that
was fetched back and offloaded again needs, and that all the SSD has are blocks of the pool.
`TiersHoldEveryToken` joins the tiles to the whole layer, `AttentionAlwaysPossible` finds for each token
of sinks and window the block around it, which is in RAM because it is not past, and
concludes that everything on the SSD is a full block, hence of one shape.

*Cost of reads.* `ReadsAlwaysCharged` needs a second invariant, `CInv`: each stored block has a page
in the simulator unless that is exhausted, what the striped layer has placed lies where block,
head and layer say (so the bytes do not depend on the order of the stores), and pinned blocks
are sinks. Two blocks of one stripe are then on channels of their own (`ChannelsShare`), and no
channel reads more pages than the scan has stripes. The theorem is limited to pools of at most
`2^IdBits` blocks. `make_global_block_id` (`physical_adapter.py:27-29`) calls the id unique but
masks the block to 16 bits; past that two blocks of a layer share an id and a page, and what a
read costs no longer says anything about the block.

*RAM.* `RamAlwaysBounded` goes along the tiles of a layer. After an append or a prefill each of its
blocks is cold, a sink or reaches into the window (`AddedHot`); `Room(t, n)` is how many of the first
`t` of `n` tokens can be in such blocks, and grows with each tile by at least the tile
(`RoomGrows`), so that the whole layer stays below `RamLimit` (`RoomInAll`). Blocks fetched back
count too: an append offloads them again, since they are in RAM, not pinned and not hot.

*Staging.* `TieredTypesAlways` needs a third invariant, `TInv`: what KV_EVICT erased are blocks of the
pool, and the prefetcher's buffer is `BufferGood`. A staged key has one place, because
`stage_blocks` takes it out before it goes to the recent end (`RestagedIs`), and
`check_staging` counts each block of a request at most once, so that hits and misses never pass
the requests. `PrefetchNeverCascades` follows each call into the buffer: what is new there is of
the layer that was predicted, since the listener does not follow prefetches (`BufferStep`).

*Host.* `TiersImplementMockSSD` is the refinement: a call that adds tokens is one `StoreKV` of the
blocks it stored (none is changed, since a block stored again is the same), a fetch is `LoadKV`,
Top-K returns as many stored blocks as it says, each once, prefetches and the simulated
pipeline are one `PrefetchKV` of what they cached, and a mode switch is nothing to the host.
The sum that the DRAM is charged is a fold over a set; that it does not depend on the order
in which the loop cached them is `SumsAny`. `MockCacheWithin` is proved of the mock controller alone
(what it has cached is stored, and it never charges more than its DRAM), and
`CacheAlwaysWithin` carries it over to the adapter by the refinement.

**The model registry** (`ModelRunProofs`). `RegistryAnswersAlways` follows from `Remembered`: the process
knows built-in entries and what was onboarded, the file has all that was onboarded, and
every entry that can be in either is refused exactly if no adapter class runs it. Nothing is
assumed of the keys: a name is an alias of itself or of a built-in key (`AliasKnown`), so an
onboarded key answers with a model that was onboarded or is built in. That it is the model
onboarded under this very key is false for aliases (`OnboardedFound`).

**The runs** (`ModelRunProofs`). `TypesAlways`, `ActiveAlways` and `OwnerAlways` have one inductive
invariant, `RunInv`; TLC checked it over the states of run `models` first. `ActiveExact` alone is not
inductive: that attention gets the right tokens depends on pages that a prompt wrote long before, in
a storage that keeps those of every earlier run, also of one that failed in between. `Decoding` says
what each layer is instead. While the text has n tokens of prompt and the layer has seen t, its sinks,
candidates and window are `LayerAt(r, n, t)`, a function of the two numbers; t is n and the turns the
layer has had (`Seen`: the layers take turns, `TurnsGoRound`); and each block of the prompt is on
the storage (`OnStorage`), as this run wrote it. `Baseline` says the same of the model's own cache in
a dense run, and `AtRest` that nothing of a run is there in the next. Three arguments carry it:
- *Cutting.* `BlocksTile`, `BlocksMeet` and `CutInOrder`: for every length of the prompt the sinks,
  the blocks and the window follow each other without a gap or an overlap, the last block being
  shorter. With the padding cut off (`PageIs`) what is joined is the text (`ReassembledIs`),
  whichever blocks won and in whatever order they were scored: the sort by id is what orders it.
- *Writing.* What a fold of writes leaves is the last page written to each block, else the old
  one (`WritesLeave`), so that the blocks of a prompt are its own (`PromptWrites`) over whatever was
  there. A prompt that fails leaves some pages of two runs, all of them whole (`PromptFails`).
- *Counting.* `KeptCounted`: the tokens kept are as many as the provider's lists hold, which is
  that none is kept twice.

Left open is the loss that the model shows: a window of a prompt that never split holds one token,
so what `StateHasOneOwner` says is kept excludes what the window has slid over since; that nothing
of the window is lost is `WindowKept`, and false.

**Traces** (`TraceProofs`). *Tensor mapper.* For every geometry: `ChannelInRange` and
`LbaInRange` say that the channel and the logical address it computes are on the device, and
`StripeSpreads` that the blocks of one stripe of a head (as many consecutive blocks as there
are channels) are on channels of their own, which is what the striping is for. They rest on
the division theorem and on `ProductBound` (mixed-radix numbers stay below the product of
their radices).

*Pipeline.* `NoReadIsFree`, `BufferPassesByBatch` and `TraceTypesHold` hold for every model,
prompt, device and set of experiments. None of them is inductive: what an experiment reads
depends on lines that were written long before. `TraceInv` says two things more. `GoodStorage`
is the experiment's books: each prefetch was useful, was counted useless or waits unread in
the buffer, whose keys are all different, and each page read is on a channel and in a
sub-page. `IsTrace` is what keeps the books right: **every line any of the three generators
writes names some block ids, all of them different**. With an id twice in one record,
`prefetch_blocks` would ask for it twice (it looks only at what is already staged,
`v2_prefetcher.py:80-100`) and stage it once, and one request would be neither useful nor
useless; no reader checks this (`trace_reader.py:78-111`), so it is the writers that owe it.
P1's ids of a line are a scan's winners (`WinnersAre`, `DecodeIs`) or one block; the synthetic
lines are read as the one id `from_dict` keeps (`SynthIs`, `KvIs`). A batch is then no longer
than the longest line (`BatchIs`), and since room is made for each of its blocks before any is
inserted, the buffer can pass its capacity by the rest of that batch only (`ChosenKeeps`). For
the replayer the invariant keeps that what `load_trace` accepted has numbers to be placed by,
and a queue that is sent when it is full. A trace of P3 it never accepts.

*What a trace says.* `PlacementAlwaysAgrees`, `TiersAlwaysAgree` and `TracesAlwaysValid`
compare lines that were written at different times, or a whole trace with what another
component makes of it, so none is inductive. Their invariant is `LogInv`, next to `TraceInv`:
- `Log`: once P1 has prefilled, the first lines of its trace are one write of each block of
  each head, in some order, and every line after them is a decode line of some layer and step over
  those blocks. `Stepped` and `Complete` count the turns of the layers, so that the last step has left a
  line when the trace is done. Numbers, sums of bytes, tiers, scans and fetches of `ValidTrace` follow
  from it: a line that reads a block finds its write before it because all writes come first, and a
  scan covers the SSD because its candidates and the tier of a write are computed from the same
  blocks. The sum over the writes is counted along the folds (`TotalGrows`).
- `Homes`: in contexts of `BlocksPerHead` blocks a head, the layer, head and block number that a line
  is placed by are functions of its block id, in all three generators (`Sits`). A read and the write
  of its block then get one channel and die, though the read may name the block by its id only
  and the write by its first token. In shorter contexts this is false, which is why
  `PlacementAgrees` has that condition.
- `Counted`: after each record the replayer's counters are those of the study's loop over the records
  so far; the two are written separately in the code, one with a queue object and one inline.

`TiersAlwaysAgree` is arithmetic about every length of a context: the writer decides by tokens
(the window from `tokens - window`), the study by block numbers, and the last block may be
padding in part.

What the study concludes (`StudyAlwaysFair`) compares folds over one trace. Each of them is followed
record by record, for any number of channels and any depth of the queue:

- `RunsOn` is what one run keeps: a load for every record (`Total(v.loads) = i`), a queue shorter than
  the depth, at least one page time for each batch, and a batch or a queue as soon as something was
  read. So no time of a whole trace is zero: P1's last step has left a line, and that is no write.
- `Alike` is any policy beside the conventional FTL: the same bytes, the same batches and queues of one
  length, and a service time no larger, the busiest channel of a batch having no more reads than the
  batch (`LoadIs`) and just as many when all go to channel 0 (`LoadOfOne`). Used both ways round
  it says that channels do nothing for the conventional FTL.
- `Deeper` is a queue that is a whole number of times as deep. The obvious statement, that its service
  time is no larger after each record, is not inductive: the deep queue holds reads that
  the shallow one has paid for. What is inductive counts by channel (`Behind`): for every channel, the
  reads of it that wait in the deep queue and the time the deep run has spent are no more than the
  two of the shallow run. It needs the deep batch to end with a shallow one (`EndTogether`), which is
  why `StudyAssumption` asks that the depths divide one another; those of the sweep do.
- `PhasesSum` is the four phases beside the whole: a record adds to one phase what it adds to
  the whole (`PartGrows`), so that the totals over the phases (`Total`) grow alike. Times do not add
  up so, each phase having a last batch of its own, and nothing is claimed of them.

Only model-checked: liveness (`ReadReturns`, `FetchSettles`, `CallEnds`), since fairness is out of the
prover's reach, and the invariants of `threads` (`FetchesDeliver`, `CallerHitsFilled`). Conversely `SessionTypeOK` is
proved and in no run. Every other invariant and action property of a passing run is proved.

## 6. Not modelled, and the plan

In this order, the most important first.

1. **Top-K**: the sorted insertion of the daemon and of the C kernel against the definition
   of the k best, with ties and padding; the running maximum and sum of the online softmax
   stay out, being real arithmetic.
2. **Pool of the P3 backends**: `async_read` with its callback, and `file_backend.py`, whose
   offsets leave the layer out; only tests and a benchmark use them.
3. **`cache_manager`**: the paged cache with its eviction policies, which only tests use.
4. **Composition**: the live adapter over `InferenceBackend` instead of its abstract `store`, so
   that a fetch is torn, late and stale all at once.

Not planned: the dashboard, benchmarks, quality evaluators and one-shot scripts are I/O,
measurement and formatting of one sequential run; vectorised kernels and bus timing are
arithmetic without control. Of the hazards in `PROJECT.json`, two have no property: lost
increments of counters that two threads share on a backend without batch reads
(`inference_adapter.py:612`; `StagingThreads` leaves the counters out, on which nothing
depends), and the dense experiment on a synthetic trace, of which nothing says what it
should read. Three are covered within limits that `PROJECT.json` states beside them:
`PlacementAgrees` is about contexts of `BlocksPerHead` blocks a head, outside of which the modules'
geometries do differ; `RegistryAnswers` treats the loss of all entries in a crash during a save as
what the code does; `StateHasOneOwner` excludes what a window has slid over, which is
`WindowKept`'s subject.
