----------------------------- MODULE TensorMapper -----------------------------
(***************************************************************************)
(* DeterministicTensorMapper: where a KV block (layer, head, token block)*)
(* is put in the flash.  Three readers of a trace share it: P2's replayer, *)
(* P2's placement study (which writes the formula out again) and P3's      *)
(* analytical backend.  The operators are the mapper's methods; the        *)
(* mapper keeps no state.                                                  *)
(***************************************************************************)
EXTENDS Integers

CONSTANTS Channels, Dies, Planes,           \* geometry of the device
          BlocksPerPlane, PagesPerBlock,
          BlocksPerHead,                    \* TensorCoordinate.blocks_per_head
          TokensPerBlock,
          MapperHeads, MapperBlocks         \* num_heads and blocks_per_head of the mapper

ASSUME GeometryAssumption ==
    \A n \in {Channels, Dies, Planes, BlocksPerPlane, PagesPerBlock, BlocksPerHead,
              TokensPerBlock, MapperHeads, MapperBlocks} : n \in Nat \ {0}

(* Mutant: the position in the block id is forgotten.                      *)
TokenBlockIdxByToken(token, block) == token \div TokensPerBlock

(* TensorCoordinate.token_block_idx.  A token index above zero decides;    *)
(* token 0 is also the default, so the block id is asked then.             *)
TokenBlockIdx(token, block) ==
    IF token > 0 THEN token \div TokensPerBlock ELSE block % BlocksPerHead

StripedChannel(layer, head, b) == (layer + head + b + b \div Channels) % Channels

StripedDie(layer, head, b) == (layer + head \div Channels + b \div Channels) % Dies

(* tensor_to_nand_physical: counters[c] is the number of accesses channel*)
(* c has had, which is what picks the page; the backends pass none.        *)
NandPhysical(mode, layer, head, b, counters) ==
    LET ch    == IF mode = "conventional" THEN 0 ELSE StripedChannel(layer, head, b)
    IN  [channel |-> ch,
         die     |-> IF mode = "conventional" THEN 0 ELSE StripedDie(layer, head, b),
         plane   |-> IF mode = "conventional" THEN 0
                     ELSE (b \div (Channels * Dies)) % Planes,
         block   |-> (counters[ch] \div PagesPerBlock) % BlocksPerPlane,
         page    |-> counters[ch] % PagesPerBlock]

(* tensor_to_lba: in turn over the heads, or in a stripe unit of the       *)
(* block's channel and die.  The offset in a unit is a remainder, so two   *)
(* blocks may have one address; the callers only record it.                *)
DeviceBlocks == Channels * Dies * Planes * BlocksPerPlane * PagesPerBlock
StripeUnit == DeviceBlocks \div (Channels * Dies)
HeadOffset(layer, head, b) == (layer * MapperHeads + head) * MapperBlocks + b

Lba(mode, layer, head, b) ==
    IF mode = "conventional" THEN HeadOffset(layer, head, b) % DeviceBlocks
    ELSE (StripedChannel(layer, head, b) * Dies + StripedDie(layer, head, b)) * StripeUnit
           + (HeadOffset(layer, head, b) % StripeUnit)

NoCounters == [c \in 0..(Channels - 1) |-> 0]
CountOn(counters, ch, n) == [counters EXCEPT ![ch] = @ + n]
=============================================================================
