----------------------------- MODULE StateProvider -----------------------------
(***************************************************************************)
(* The state providers: what of a layer's KV cache stays in DRAM, what     *)
(* goes to the storage, and what attention is given for a new token.  A    *)
(* token is the run it belongs to and its position; a page is a sequence   *)
(* of tokens, and keys and values go the same ways.                        *)
(***************************************************************************)
EXTENDS Integers, FiniteSets, FiniteSetsExt, SequencesExt

CONSTANTS SinkTokens, RecentTokens, TokensPerBlock,
          SlidingWindow     \* config.sliding_window of the models that have one

ASSUME ProviderAssumption ==
    /\ {RecentTokens, TokensPerBlock, SlidingWindow} \subseteq Nat \ {0}
    /\ SinkTokens \in Nat

Pad == <<0, -1>>            \* the zeros a last block is filled up with

(* sorted(...) of layers.                                                  *)
Ascending(S) ==
    CHOOSE s \in [1..Cardinality(S) -> S] : \A i, j \in DOMAIN s : i < j => s[i] < s[j]

Tokens(run, from, to) == [i \in 1..(to - from) |-> <<run, from + i - 1>>]

(* The prompt is longer than what DRAM keeps.                              *)
Splits(n) == n > SinkTokens + RecentTokens

HistoryBlocks(n) ==
    IF Splits(n)
    THEN (n - SinkTokens - RecentTokens + TokensPerBlock - 1) \div TokensPerBlock
    ELSE 0

(* The tokens a block really holds.                                        *)
ActualTokens(n, bid) ==
    Min({TokensPerBlock, n - RecentTokens - SinkTokens - bid * TokensPerBlock})

Block(run, n, bid) ==
    LET first == SinkTokens + bid * TokensPerBlock
    IN  [i \in 1..TokensPerBlock |->
           IF i <= ActualTokens(n, bid) THEN <<run, first + i - 1>> ELSE Pad]

(* init_from_prefill for one layer: its sinks and its recent window, and   *)
(* the blocks in between as candidates.  A short prompt is all sink.       *)
LayerData(run, n) ==
    [sink |-> Tokens(run, 0, IF Splits(n) THEN SinkTokens ELSE n),
     recent |-> IF Splits(n) THEN Tokens(run, n - RecentTokens, n) ELSE <<>>,
     candidates |-> {[bid |-> b, actual |-> ActualTokens(n, b)] : b \in 0..(HistoryBlocks(n) - 1)},
     total |-> n]

(* The writes init_from_prefill makes, layer by layer.                     *)
Writes(run, n, layers) ==
    FlattenSeq([i \in 1..Len(layers) |->
        [b \in 1..HistoryBlocks(n) |->
            [at |-> <<layers[i], b - 1>>, page |-> Block(run, n, b - 1)]]])

(* AISSDBlockStorageBackend: a dictionary; write_block replaces a block.   *)
WriteBlock(store, w) ==
    [k \in DOMAIN store \cup {w.at} |-> IF k = w.at THEN w.page ELSE store[k]]

WriteBlocks(store, writes) == FoldLeft(WriteBlock, store, writes)

(* Mutant: the oldest token of the window is not let go.                   *)
AppendNewTokenKeeping(ld, token) == [ld EXCEPT !.recent = Append(@, token), !.total = @ + 1]

(* append_new_token: the window slides by one.                             *)
AppendNewToken(ld, token) ==
    [ld EXCEPT !.recent = (IF @ = <<>> THEN @ ELSE Tail(@)) \o <<token>>, !.total = @ + 1]

KVal(candidates, percent) == Max({1, (Cardinality(candidates) * percent + 99) \div 100})

(* The pages of a layer, by block id.                                      *)
PagesOf(store, layer) ==
    [bid \in {k[2] : k \in {j \in DOMAIN store : j[1] = layer}} |-> store[<<layer, bid>>]]

(* What the scores may make of the candidates: the best k in any order.    *)
TopBlocks(candidates, k) ==
    {top \in [1..k -> candidates] : \A i, j \in 1..k : top[i] = top[j] => i = j}

ById(blocks) ==
    CHOOSE s \in [1..Cardinality(blocks) -> blocks] :
        \A i, j \in DOMAIN s : i < j => s[i].bid < s[j].bid

(* The pages of a sequence of blocks, without their padding.               *)
Joined(blocks, pages) ==
    FlattenSeq([i \in 1..Len(blocks) |-> SubSeq(pages[blocks[i].bid], 1, blocks[i].actual)])

(* Mutant: the winners stay in the order of their scores.                  *)
ReassembledByScore(ld, top, pages) == ld.sink \o Joined(top, pages) \o ld.recent

(* The winners in the order of their ids, without padding, between the     *)
(* sinks and the window.                                                   *)
Reassembled(ld, top, pages) ==
    ld.sink \o Joined(ById(Range(top)), pages) \o ld.recent

(* SlidingWindowKVStateProvider: candidates that reach into the window.    *)
InWindow(ld) ==
    IF ld.total <= SlidingWindow THEN ld.candidates
    ELSE {c \in ld.candidates :
            SinkTokens + c.bid * TokensPerBlock + c.actual > ld.total - SlidingWindow}

(* Mutant: the filtered list stays with the layer.                         *)
SelectAndFetchFiltered(kind, ld, percent, pages) ==
    LET cands == IF kind = "sliding" THEN InWindow(ld) ELSE ld.candidates
        tops  == IF cands = {} THEN {<<>>} ELSE TopBlocks(cands, KVal(cands, percent))
    IN  {[ld |-> [ld EXCEPT !.candidates = cands], active |-> Reassembled(ld, top, pages)]
           : top \in tops}

(* select_and_fetch_active_state: the layer as it leaves it, and what      *)
(* attention may be given.                                                 *)
SelectAndFetch(kind, ld, percent, pages) ==
    LET cands == IF kind = "sliding" THEN InWindow(ld) ELSE ld.candidates
        tops  == IF cands = {} THEN {<<>>} ELSE TopBlocks(cands, KVal(cands, percent))
    IN  {[ld |-> ld, active |-> Reassembled(ld, top, pages)] : top \in tops}
=============================================================================
