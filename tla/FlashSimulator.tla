--------------------------- MODULE FlashSimulator ---------------------------
(***************************************************************************)
(* The flash behind the tiered cache (person2_ssd): a translation layer    *)
(* gives every stored block a page, and the simulator programs that page.*)
(* A simulator is a value, for switching the placement mode throws the old *)
(* one away.  A read takes as long as the busiest channel of its batch, in *)
(* page times; the queues of buses and dies, which no one reads, and the   *)
(* constants of the latencies are left out.                                *)
(***************************************************************************)
EXTENDS Integers, FiniteSets, FiniteSetsExt, Functions

CONSTANTS Channels, Dies, Planes, Blocks, Pages   \* the geometry of the device

ASSUME GeometryAssumption == 
    \A n \in {Channels, Dies, Planes, Blocks, Pages} : n \in Nat \ {0}

Modes == {"conventional", "tensor_aware"}

Location == [ch : 0..(Channels - 1), die : 0..(Dies - 1), pl : 0..(Planes - 1),
             blk : 0..(Blocks - 1), pg : 0..(Pages - 1)]

TotalPages   == Channels * Dies * Planes * Blocks * Pages
ChannelPages == Blocks * Pages   \* the positions one striping counter tells apart

(* A table without, and with, an entry.                                    *)
Drop(f, x) == Restrict(f, DOMAIN f \ {x})
Put(f, x, v) == [y \in DOMAIN f \cup {x} |-> IF y = x THEN v ELSE f[y]]

(* map and rev are the two translation tables, page the programmed pages   *)
(* with the block each holds; a page that is absent is FREE.               *)
NewSimulator(mode) ==
    [mode |-> mode, map |-> <<>>, rev |-> <<>>, page |-> <<>>,
     linear |-> 0, perChannel |-> [c \in 0..(Channels - 1) |-> 0]]

(* ConventionalFTL.allocate: the n-th page of the device.                  *)
LinearLocation(n) ==
    LET blk == n \div Pages
        pl  == blk \div Blocks
        die == pl \div Planes
    IN  [pg |-> n % Pages, blk |-> blk % Blocks, pl |-> pl % Planes,
         die |-> die % Dies, ch |-> die \div Dies]

(* TensorAwareFTL.allocate: channel, die and plane follow the block's      *)
(* coordinates, page and erase block the counter of the channel.           *)
StripedLocation(sim, b) ==
    LET idx == b.start \div b.count
        ch  == (b.head + idx + idx \div Channels) % Channels
        n   == sim.perChannel[ch]
    IN  [ch |-> ch, pg |-> n % Pages, blk |-> (n \div Pages) % Blocks,
         die |-> (b.layer + b.head \div Channels + idx \div Channels) % Dies,
         pl  |-> (idx \div (Channels * Dies)) % Planes]

(* The conventional layer raises when its counter has run over the device. *)
Exhausted(sim) == sim.mode = "conventional" /\ sim.linear >= TotalPages

Allocated(sim, b) ==
    IF sim.mode = "conventional" THEN LinearLocation(sim.linear) ELSE StripedLocation(sim, b)

(* Mutant: the reverse entry of the old page stays.                        *)
RecordMappingKeepsOld(sim, g, loc) ==
    [sim EXCEPT !.map = Put(@, g, loc), !.rev = Put(@, loc, g)]

(* BaseFTL._record_mapping                                                 *)
RecordMapping(sim, g, loc) ==
    LET rev == IF g \in DOMAIN sim.map THEN Drop(sim.rev, sim.map[g]) ELSE sim.rev
    IN  [sim EXCEPT !.map = Put(@, g, loc), !.rev = Put(rev, loc, g)]

Advance(sim, loc) ==
    IF sim.mode = "conventional" THEN [sim EXCEPT !.linear = @ + 1]
                                 ELSE [sim EXCEPT !.perChannel[loc.ch] = @ + 1]

(* A page is programmed only when it is FREE; nothing invalidates the page *)
(* the block had before.                                                   *)
Program(sim, g, loc) ==
    IF loc \in DOMAIN sim.page THEN sim ELSE [sim EXCEPT !.page = Put(@, loc, g)]

(* StorageSimulator.store_block, unless the allocator raises.              *)
StoreBlock(sim, b) ==
    LET loc == Allocated(sim, b)
    IN  Program(RecordMapping(Advance(sim, loc), b.gid, loc), b.gid, loc)

(* LatencyModel._get_channel_loads of the pages of a batch of blocks; a    *)
(* block that has no page is passed over.                                  *)
ChannelLoads(sim, gids) ==
    [c \in 0..(Channels - 1) |->
        Cardinality({g \in gids \cap DOMAIN sim.map : sim.map[g].ch = c})]

(* estimate_read_latency in page times: channels work side by side and     *)
(* each serves its pages one after the other.                              *)
BatchReadTime(sim, gids) == Max(Range(ChannelLoads(sim, gids)))

-----------------------------------------------------------------------------
(* No channel has handed out more pages than its counter tells apart.      *)
Unwrapped(sim) ==
    sim.mode = "tensor_aware" => \A c \in DOMAIN sim.perChannel : sim.perChannel[c] <= ChannelPages

(* The two tables are inverse to each other and every mapped page holds    *)
(* the block that is mapped to it.                                         *)
Consistent(sim) ==
    /\ \A g \in DOMAIN sim.map :
         /\ sim.map[g] \in DOMAIN sim.rev \cap DOMAIN sim.page
         /\ sim.rev[sim.map[g]] = g
         /\ sim.page[sim.map[g]] = g
    /\ \A loc \in DOMAIN sim.rev :
         sim.rev[loc] \in DOMAIN sim.map /\ sim.map[sim.rev[loc]] = loc
=============================================================================
