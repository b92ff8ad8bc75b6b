---------------------------- MODULE TieredProofs ----------------------------
(***************************************************************************)
(* The tiered stack loses no token, can always attend, and is for its host *)
(* the mock SSD controller, for every policy, geometry and number of       *)
(* layers.                                                                 *)
(*                                                                         *)
(* The proofs go up the stack. Flash: storing a block never gives two      *)
(* blocks the same page, which rests on the page being new; the            *)
(* conventional layer owes that to the mixed-radix digits of its counter,  *)
(* the striped one to each channel's counter as long as it has not         *)
(* wrapped. Folds: what each loop of the code does, turn by turn. Adapter: *)
(* what every call keeps of its tables (AdapterGood). Pool: the blocks of  *)
(* a layer tile its tokens, and a block that has left RAM is past the      *)
(* window (PoolGood). Mock: each call of the stack is one of the mock      *)
(* controller, with the DRAM it charges.                                   *)
(***************************************************************************)
EXTENDS TieredKV, SequenceLemmas, FiniteSetTheorems, TLAPS

-----------------------------------------------------------------------------
(***************************************************************************)
(* The flash simulator.                                                    *)
(***************************************************************************)

(* del table[x]: the entry goes and the others stay.                       *)
LEMMA DropIs ==
    ASSUME NEW f, NEW x
    PROVE  /\ DOMAIN Drop(f, x) = DOMAIN f \ {x}
           /\ \A y \in DOMAIN f \ {x} : Drop(f, x)[y] = f[y]
BY DEF Drop, Restrict

(* Quotient and remainder, as // and % of the layers give them for naturals.*)
LEMMA Divided ==
    ASSUME NEW a \in Nat, NEW n \in Nat \ {0}
    PROVE  /\ a \div n \in Nat /\ a % n \in 0..(n - 1)
           /\ a = n * (a \div n) + (a % n)
BY Z3

(* A quotient is below m when its dividend is below m times the divisor.   *)
LEMMA DivBelow ==
    ASSUME NEW a \in Nat, NEW n \in Nat \ {0}, NEW m \in Nat, a < m * n
    PROVE  a \div n < m
<1> DEFINE q == a \div n
<1>1. q \in Nat /\ n * q <= a
    BY Divided
<1>2. SUFFICES ASSUME q >= m PROVE FALSE
    BY <1>1
<1>3. n * q >= n * m
    BY <1>1, <1>2, Z3
<1>4. n * m = m * n
    BY Z3
<1>5. n * q \in Nat /\ n * m \in Nat
    BY <1>1, Z3
<1> QED BY <1>1, <1>3, <1>4, <1>5, Z3

-----------------------------------------------------------------------------
(* ConventionalFTL.allocate stays on the device until its counter has      *)
(* passed the last page (then it raises).                                  *)
THEOREM LinearOnDevice ==
    ASSUME NEW n \in Nat, n < TotalPages
    PROVE  LinearLocation(n) \in Location
<1> DEFINE blk == n \div Pages
           pl  == blk \div Blocks
           die == pl \div Planes
           ch  == die \div Dies
<1>1. blk \in Nat /\ pl \in Nat /\ die \in Nat /\ ch \in Nat
    BY Divided, GeometryAssumption
<1>2. ch < Channels
    <2>1. \A u, v \in Nat : u * v \in Nat
        BY Z3
    <2>2. Channels * Dies \in Nat /\ Channels * Dies * Planes \in Nat
          /\ Channels * Dies * Planes * Blocks \in Nat
        BY <2>1, GeometryAssumption
    <2>3. blk < Channels * Dies * Planes * Blocks
        BY <2>2, DivBelow, GeometryAssumption DEF TotalPages
    <2>4. pl < Channels * Dies * Planes
        BY <1>1, <2>2, <2>3, DivBelow, GeometryAssumption
    <2>5. die < Channels * Dies
        BY <1>1, <2>2, <2>4, DivBelow, GeometryAssumption
    <2> QED BY <1>1, <2>5, DivBelow, GeometryAssumption
<1>3. n % Pages \in 0..(Pages - 1) /\ blk % Blocks \in 0..(Blocks - 1)
      /\ pl % Planes \in 0..(Planes - 1) /\ die % Dies \in 0..(Dies - 1)
    BY <1>1, Divided, GeometryAssumption
<1>4. LinearLocation(n) = [pg |-> n % Pages, blk |-> blk % Blocks, pl |-> pl % Planes,
                           die |-> die % Dies, ch |-> ch]
    BY DEF LinearLocation
<1>5. ch \in 0..(Channels - 1)
    BY <1>1, <1>2, GeometryAssumption
<1> HIDE DEF blk, pl, die, ch
<1> QED BY <1>3, <1>4, <1>5 DEF Location

(* Quotient and remainder together tell numbers apart.                     *)
LEMMA SameQuotient ==
    ASSUME NEW n \in Nat \ {0}, NEW a \in Nat, NEW b \in Nat,
           a \div n = b \div n, a % n = b % n
    PROVE  a = b
BY Divided

(* ConventionalFTL.allocate: two counts never give one location, for page, *)
(* block, plane, die and channel are the digits of the count and the       *)
(* channel, the last of them, is not reduced.                              *)
LEMMA LinearInjective ==
    ASSUME NEW m \in Nat, NEW n \in Nat, LinearLocation(m) = LinearLocation(n)
    PROVE  m = n
<1> DEFINE blk(x) == x \div Pages
           pl(x)  == blk(x) \div Blocks
           die(x) == pl(x) \div Planes
           ch(x)  == die(x) \div Dies
<1>1. \A x \in Nat : blk(x) \in Nat /\ pl(x) \in Nat /\ die(x) \in Nat
    BY Divided, GeometryAssumption
<1>2. \A x : LinearLocation(x) = [pg |-> x % Pages, blk |-> blk(x) % Blocks,
                                  pl |-> pl(x) % Planes, die |-> die(x) % Dies, ch |-> ch(x)]
    BY DEF LinearLocation
<1>3. /\ m % Pages = n % Pages
      /\ blk(m) % Blocks = blk(n) % Blocks
      /\ pl(m) % Planes = pl(n) % Planes
      /\ die(m) % Dies = die(n) % Dies
      /\ ch(m) = ch(n)
    <2> HIDE DEF blk, pl, die, ch
    <2>1. LinearLocation(m).pg = LinearLocation(n).pg
          /\ LinearLocation(m).blk = LinearLocation(n).blk
          /\ LinearLocation(m).pl = LinearLocation(n).pl
          /\ LinearLocation(m).die = LinearLocation(n).die
          /\ LinearLocation(m).ch = LinearLocation(n).ch
        OBVIOUS
    <2> QED BY <1>2, <2>1
<1>4. die(m) = die(n)
    BY <1>1, <1>3, SameQuotient, GeometryAssumption
<1>5. pl(m) = pl(n)
    BY <1>1, <1>3, <1>4, SameQuotient, GeometryAssumption
<1>6. blk(m) = blk(n)
    BY <1>1, <1>3, <1>5, SameQuotient, GeometryAssumption
<1> QED BY <1>3, <1>6, SameQuotient, GeometryAssumption

-----------------------------------------------------------------------------
(* Consistent, of the three tables alone.                                  *)
TablesAgree(map, rev, page) ==
    /\ \A g \in DOMAIN map :
         map[g] \in DOMAIN rev \cap DOMAIN page /\ rev[map[g]] = g /\ page[map[g]] = g
    /\ \A loc \in DOMAIN rev : rev[loc] \in DOMAIN map /\ map[rev[loc]] = loc

(* BaseFTL._record_mapping with a page nobody has: dropping the reverse    *)
(* entry of the block's old page, then entering the new one, keeps the     *)
(* tables inverse.                                                         *)
LEMMA EntryKeepsAgreement ==
    ASSUME NEW map, NEW rev, NEW page, NEW g, NEW loc,
           TablesAgree(map, rev, page), loc \notin DOMAIN page,
           NEW old, old = IF g \in DOMAIN map THEN Drop(rev, map[g]) ELSE rev
    PROVE  TablesAgree(Put(map, g, loc), Put(old, loc, g), Put(page, loc, g))
<1> DEFINE map2 == Put(map, g, loc)
           rev2 == Put(old, loc, g)
           page2 == Put(page, loc, g)
<1>1. DOMAIN map2 = DOMAIN map \cup {g} /\ map2[g] = loc
      /\ \A x \in DOMAIN map \ {g} : map2[x] = map[x]
    BY DEF Put
<1>2. DOMAIN rev2 = DOMAIN old \cup {loc} /\ rev2[loc] = g
      /\ \A l \in DOMAIN old \ {loc} : rev2[l] = old[l]
    BY DEF Put
<1>3. DOMAIN page2 = DOMAIN page \cup {loc} /\ page2[loc] = g
      /\ \A l \in DOMAIN page \ {loc} : page2[l] = page[l]
    BY DEF Put
<1>4. /\ DOMAIN old = {l \in DOMAIN rev : rev[l] # g}
      /\ \A l \in DOMAIN old : old[l] = rev[l]
    <2>1. CASE g \in DOMAIN map
        <3>1. DOMAIN old = DOMAIN rev \ {map[g]} /\ \A l \in DOMAIN old : old[l] = rev[l]
            BY <2>1, DropIs
        <3> QED BY <2>1, <3>1 DEF TablesAgree
    <2>2. CASE g \notin DOMAIN map
        BY <2>2 DEF TablesAgree
    <2> QED BY <2>1, <2>2
<1> HIDE DEF map2, rev2, page2
<1>5. ASSUME NEW x \in DOMAIN map2
      PROVE  map2[x] \in DOMAIN rev2 \cap DOMAIN page2 /\ rev2[map2[x]] = x /\ page2[map2[x]] = x
    <2>1. CASE x = g
        BY <2>1, <1>1, <1>2, <1>3
    <2>2. CASE x # g
        <3>1. x \in DOMAIN map /\ map2[x] = map[x]
            BY <1>1, <1>5, <2>2
        <3>2. map[x] \in DOMAIN old /\ map[x] \in DOMAIN page /\ map[x] # loc
              /\ old[map[x]] = x /\ page[map[x]] = x
            BY <1>4, <2>2, <3>1 DEF TablesAgree
        <3> QED BY <1>2, <1>3, <3>1, <3>2
    <2> QED BY <2>1, <2>2
<1>6. ASSUME NEW l \in DOMAIN rev2
      PROVE  rev2[l] \in DOMAIN map2 /\ map2[rev2[l]] = l
    <2>1. CASE l = loc
        BY <2>1, <1>1, <1>2
    <2>2. CASE l # loc
        <3>1. l \in DOMAIN rev /\ rev2[l] = rev[l] /\ rev[l] # g
            BY <1>2, <1>4, <1>6, <2>2
        <3> QED BY <1>1, <3>1 DEF TablesAgree
    <2> QED BY <2>1, <2>2
<1>7. TablesAgree(map2, rev2, page2)
    BY <1>5, <1>6 DEF TablesAgree
<1> QED BY <1>7 DEF map2, rev2, page2

-----------------------------------------------------------------------------
(* The fields of a simulator that have a type of their own.                *)
IsSimulator(sim) ==
    sim \in [mode : Modes, map : {sim.map}, rev : {sim.rev}, page : {sim.page},
            linear : Nat, perChannel : [0..(Channels - 1) -> Nat]]

(* What store_block is given.                                              *)
IsDescriptor(b) ==
    b.head \in Nat /\ b.layer \in Nat /\ b.start \in Nat /\ b.count \in Nat \ {0}

(* Which of its channel's positions a location stands for.                 *)
Position(loc) == loc.blk * Pages + loc.pg

(* Every programmed page came from a count the allocator has passed.       *)
Allotted(sim) ==
    \A loc \in DOMAIN sim.page :
      IF sim.mode = "conventional"
      THEN \E n \in 0..(sim.linear - 1) : loc = LinearLocation(n)
      ELSE loc.ch \in 0..(Channels - 1) /\ Position(loc) \in 0..(sim.perChannel[loc.ch] - 1)

(* The inductive property: what PagesOwned says of a simulator, and why.   *)
Sound(sim) == Unwrapped(sim) => Allotted(sim) /\ Consistent(sim)

(* TensorAwareFTL.allocate: the channel is one of the device's, and until  *)
(* the channel's counter wraps, page and erase block of the location spell *)
(* out the counter.                                                        *)
LEMMA Striped ==
    ASSUME NEW sim, NEW b, IsSimulator(sim), IsDescriptor(b)
    PROVE  /\ StripedLocation(sim, b).ch \in 0..(Channels - 1)
           /\ sim.perChannel[StripedLocation(sim, b).ch] < ChannelPages
              => Position(StripedLocation(sim, b)) = sim.perChannel[StripedLocation(sim, b).ch]
<1> DEFINE idx == b.start \div b.count
           ch  == (b.head + idx + (idx \div Channels)) % Channels
           n   == sim.perChannel[ch]
<1>1. StripedLocation(sim, b).ch = ch
      /\ StripedLocation(sim, b).pg = n % Pages
      /\ StripedLocation(sim, b).blk = (n \div Pages) % Blocks
    BY DEF StripedLocation
<1>2. idx \in Nat /\ idx \div Channels \in Nat
    BY Divided, GeometryAssumption DEF IsDescriptor
<1>3. b.head + idx + (idx \div Channels) \in Nat
    BY <1>2 DEF IsDescriptor
<1>4. ch \in 0..(Channels - 1)
    BY <1>3, Divided, GeometryAssumption
<1> HIDE DEF ch, idx
<1>5. n \in Nat
    BY <1>4 DEF IsSimulator
<1> HIDE DEF n
<1>6. ASSUME n < ChannelPages
      PROVE  ((n \div Pages) % Blocks) * Pages + (n % Pages) = n
    <2> DEFINE q == n \div Pages
               r == n % Pages
    <2>1. q \in Nat /\ r \in 0..(Pages - 1) /\ n = Pages * q + r
        BY <1>5, Divided, GeometryAssumption
    <2>2. q < Blocks
        BY <1>5, <1>6, DivBelow, GeometryAssumption DEF ChannelPages
    <2> HIDE DEF q, r
    <2>3. q % Blocks = q
        <3>1. Blocks \in Nat \ {0}
            BY GeometryAssumption
        <3> DEFINE d == q \div Blocks
                   m == q % Blocks
        <3>2. d \in Nat /\ m \in 0..(Blocks - 1) /\ q = Blocks * d + m
            BY <2>1, <3>1, Divided
        <3>3. q < 1 * Blocks
            BY <2>2, <3>1
        <3>4. d < 1
            BY <2>1, <3>1, <3>3, DivBelow
        <3> HIDE DEF d, m
        <3>5. d = 0
            BY <3>2, <3>4
        <3>6. q = Blocks * 0 + m
            BY <3>2, <3>5
        <3>7. q = m
            BY <3>1, <3>2, <3>6
        <3> QED BY <3>7 DEF m
    <2>4. q * Pages = Pages * q
        BY <2>1, GeometryAssumption, Z3
    <2>5. q * Pages + r = n
        BY <2>1, <2>4
    <2>6. (q % Blocks) * Pages + r = n
        BY <2>3, <2>5
    <2> QED BY <2>6 DEF q, r
<1>7. n < ChannelPages => Position(StripedLocation(sim, b)) = n
    BY <1>1, <1>6 DEF Position
<1> QED BY <1>1, <1>4, <1>7 DEF n

(* StorageSimulator.store_block, field by field of the simulator.          *)
LEMMA Stored ==
    ASSUME NEW sim, NEW b, IsSimulator(sim), IsDescriptor(b),
           NEW loc, loc = Allocated(sim, b),
           NEW after, after = StoreBlock(sim, b)
    PROVE  /\ IsSimulator(after)
           /\ after.mode = sim.mode
           /\ after.map = Put(sim.map, b.gid, loc)
           /\ after.rev = Put(IF b.gid \in DOMAIN sim.map THEN Drop(sim.rev, sim.map[b.gid])
                              ELSE sim.rev, loc, b.gid)
           /\ after.page = IF loc \in DOMAIN sim.page THEN sim.page
                           ELSE Put(sim.page, loc, b.gid)
           /\ after.linear = IF sim.mode = "conventional" THEN sim.linear + 1 ELSE sim.linear
           /\ after.perChannel = IF sim.mode = "conventional" THEN sim.perChannel
                                 ELSE [sim.perChannel EXCEPT ![loc.ch] = @ + 1]
<1> DEFINE s1 == Advance(sim, loc)
           s2 == RecordMapping(s1, b.gid, loc)
           lin == IF sim.mode = "conventional" THEN sim.linear + 1 ELSE sim.linear
           per == IF sim.mode = "conventional" THEN sim.perChannel
                  ELSE [sim.perChannel EXCEPT ![loc.ch] = @ + 1]
           rev == IF b.gid \in DOMAIN sim.map THEN Drop(sim.rev, sim.map[b.gid]) ELSE sim.rev
           map2 == Put(sim.map, b.gid, loc)
           rev2 == Put(rev, loc, b.gid)
           page2 == IF loc \in DOMAIN sim.page THEN sim.page ELSE Put(sim.page, loc, b.gid)
<1>1. s1 = [mode |-> sim.mode, map |-> sim.map, rev |-> sim.rev, page |-> sim.page,
            linear |-> lin, perChannel |-> per]
    BY DEF Advance, IsSimulator
<1>2. lin \in Nat /\ per \in [0..(Channels - 1) -> Nat]
    <2>1. CASE sim.mode = "conventional"
        BY <2>1 DEF IsSimulator
    <2>2. CASE sim.mode # "conventional"
        <3>1. loc.ch \in 0..(Channels - 1)
            BY <2>2, Striped DEF Allocated
        <3>2. sim.perChannel \in [0..(Channels - 1) -> Nat] /\ sim.linear \in Nat
            BY DEF IsSimulator
        <3>3. \A f \in [0..(Channels - 1) -> Nat], c \in 0..(Channels - 1) :
                [f EXCEPT ![c] = @ + 1] \in [0..(Channels - 1) -> Nat]
            OBVIOUS
        <3>4. [sim.perChannel EXCEPT ![loc.ch] = @ + 1] \in [0..(Channels - 1) -> Nat]
            BY <3>1, <3>2, <3>3
        <3> QED BY <2>2, <3>2, <3>4
    <2> HIDE DEF lin, per
    <2> QED BY <2>1, <2>2
<1> HIDE DEF s1, lin, per
<1>3. s2 = [mode |-> sim.mode, map |-> map2, rev |-> rev2, page |-> sim.page,
            linear |-> lin, perChannel |-> per]
    <2>1. s1.map = sim.map /\ s1.rev = sim.rev
        BY <1>1
    <2>2. s2 = [s1 EXCEPT !.map = map2, !.rev = rev2]
        <3>1. Put(s1.map, b.gid, loc) = map2
            BY <2>1
        <3>2. (IF b.gid \in DOMAIN s1.map THEN Drop(s1.rev, s1.map[b.gid]) ELSE s1.rev) = rev
            BY <2>1
        <3> HIDE DEF map2, rev
        <3>3. s2 = [s1 EXCEPT !.map = Put(s1.map, b.gid, loc), !.rev = Put(rev, loc, b.gid)]
            BY <3>2, Zenon DEF RecordMapping
        <3> QED BY <3>1, <3>3
    <2> HIDE DEF s2, map2, rev2
    <2>3. s1 \in [mode : Modes, map : {sim.map, map2}, rev : {sim.rev, rev2}, page : {sim.page},
                  linear : Nat, perChannel : [0..(Channels - 1) -> Nat]]
        BY <1>1, <1>2 DEF IsSimulator
    <2> QED BY <1>1, <2>2, <2>3
<1> HIDE DEF s2, map2, rev2
<1>4. after = Program(s2, b.gid, loc)
    BY DEF StoreBlock, s1, s2
<1>5. after = [mode |-> sim.mode, map |-> map2, rev |-> rev2, page |-> page2,
               linear |-> lin, perChannel |-> per]
    <2>1. s2.page = sim.page
        BY <1>3
    <2>2. after = IF loc \in DOMAIN sim.page THEN s2 ELSE [s2 EXCEPT !.page = page2]
        BY <1>4, <2>1 DEF Program
    <2> HIDE DEF page2
    <2>3. s2 \in [mode : Modes, map : {map2}, rev : {rev2}, page : {sim.page, page2},
                  linear : Nat, perChannel : [0..(Channels - 1) -> Nat]]
        BY <1>2, <1>3 DEF IsSimulator
    <2>4. loc \in DOMAIN sim.page => page2 = sim.page
        BY DEF page2
    <2> QED BY <1>3, <2>2, <2>3, <2>4
<1> HIDE DEF page2
<1> QED BY <1>2, <1>5 DEF IsSimulator, lin, per, map2, rev2, page2

(* The page an allocation returns has not been programmed before: the      *)
(* counters only grow, and the location determines the count it was made   *)
(* from.                                                                   *)
LEMMA FreshPage ==
    ASSUME NEW sim, NEW b, IsSimulator(sim), IsDescriptor(b), ~Exhausted(sim),
           Allotted(sim), NEW loc, loc = Allocated(sim, b),
           sim.mode = "tensor_aware" => sim.perChannel[loc.ch] < ChannelPages
    PROVE  loc \notin DOMAIN sim.page
<1>1. CASE sim.mode = "conventional"
    <2>1. \A n \in 0..(sim.linear - 1) : LinearLocation(n) # LinearLocation(sim.linear)
        BY LinearInjective DEF IsSimulator
    <2> QED BY <1>1, <2>1 DEF Allotted, Allocated
<1>2. CASE sim.mode = "tensor_aware"
    <2>1. loc = StripedLocation(sim, b)
        BY <1>2 DEF Allocated
    <2>2. Position(loc) = sim.perChannel[loc.ch]
        BY <1>2, <2>1, Striped
    <2>3. sim.perChannel[loc.ch] \in Nat
        BY <2>1, Striped DEF IsSimulator
    <2> QED BY <1>2, <2>2, <2>3 DEF Allotted
<1> QED BY <1>1, <1>2 DEF IsSimulator, Modes

(* A new simulator, as __init__ and set_mode make it, is sound.            *)
THEOREM NewIsSound ==
    ASSUME NEW mode \in Modes
    PROVE  IsSimulator(NewSimulator(mode)) /\ Sound(NewSimulator(mode))
<1> DEFINE sim == NewSimulator(mode)
<1>1. DOMAIN sim.page = {} /\ DOMAIN sim.map = {} /\ DOMAIN sim.rev = {}
    BY DEF NewSimulator
<1>2. Sound(sim)
    BY <1>1 DEF Sound, Allotted, Consistent
<1> QED BY <1>2 DEF IsSimulator, NewSimulator

(* store_block keeps the tables inverse and every mapped page holding its  *)
(* block (PagesOwned of the tiered stack), for every geometry, every block *)
(* and in both placement modes: also for a block that is stored again,     *)
(* whose old page is forgotten and stays programmed.                       *)
THEOREM StoreKeepsSound ==
    ASSUME NEW sim, NEW b, IsSimulator(sim), IsDescriptor(b), ~Exhausted(sim), Sound(sim)
    PROVE  IsSimulator(StoreBlock(sim, b)) /\ Sound(StoreBlock(sim, b))
<1> DEFINE loc   == Allocated(sim, b)
           after == StoreBlock(sim, b)
           old   == IF b.gid \in DOMAIN sim.map THEN Drop(sim.rev, sim.map[b.gid])
                    ELSE sim.rev
<1>1. /\ IsSimulator(after)
      /\ after.mode = sim.mode
      /\ after.map = Put(sim.map, b.gid, loc)
      /\ after.rev = Put(old, loc, b.gid)
      /\ after.page = IF loc \in DOMAIN sim.page THEN sim.page ELSE Put(sim.page, loc, b.gid)
      /\ after.linear = IF sim.mode = "conventional" THEN sim.linear + 1 ELSE sim.linear
      /\ after.perChannel = IF sim.mode = "conventional" THEN sim.perChannel
                            ELSE [sim.perChannel EXCEPT ![loc.ch] = @ + 1]
    BY Stored
<1>2. sim.mode # "conventional"
      => /\ loc.ch \in 0..(Channels - 1)
         /\ sim.perChannel[loc.ch] < ChannelPages => Position(loc) = sim.perChannel[loc.ch]
    BY Striped DEF Allocated
<1>3. sim.mode = "conventional" => loc = LinearLocation(sim.linear)
    BY DEF Allocated
<1>4. sim.linear \in Nat /\ sim.perChannel \in [0..(Channels - 1) -> Nat]
      /\ sim.mode \in {"conventional", "tensor_aware"} /\ ChannelPages \in Int
    <2>1. ChannelPages \in Int
        BY GeometryAssumption DEF ChannelPages
    <2> QED BY <2>1 DEF IsSimulator, Modes
<1> HIDE DEF after
<1> SUFFICES ASSUME Unwrapped(after) PROVE Allotted(after) /\ Consistent(after)
    BY <1>1 DEF Sound, after
<1>5. Unwrapped(sim)
      /\ (sim.mode = "tensor_aware" => sim.perChannel[loc.ch] < ChannelPages)
    <2> SUFFICES ASSUME sim.mode = "tensor_aware"
                 PROVE  /\ \A c \in DOMAIN sim.perChannel : sim.perChannel[c] <= ChannelPages
                        /\ sim.perChannel[loc.ch] < ChannelPages
        BY DEF Unwrapped
    <2> HIDE DEF loc
    <2>1. \A c \in 0..(Channels - 1) : after.perChannel[c] <= ChannelPages
        BY <1>1, <1>2, <1>4 DEF Unwrapped
    <2>2. \A c \in 0..(Channels - 1) :
            after.perChannel[c] = IF c = loc.ch THEN sim.perChannel[c] + 1 ELSE sim.perChannel[c]
        BY <1>1, <1>4
    <2>3. \A c \in 0..(Channels - 1) : sim.perChannel[c] \in Nat
        BY <1>4
    <2>4. loc.ch \in 0..(Channels - 1)
        BY <1>2
    <2>5. sim.perChannel[loc.ch] < ChannelPages
        <3>1. sim.perChannel[loc.ch] + 1 <= ChannelPages
            BY <2>1, <2>2, <2>4
        <3> QED BY <1>4, <2>3, <2>4, <3>1
    <2>6. ASSUME NEW c \in 0..(Channels - 1) PROVE sim.perChannel[c] <= ChannelPages
        <3>1. CASE c = loc.ch
            BY <1>4, <2>3, <2>5, <3>1
        <3>2. CASE c # loc.ch
            BY <2>1, <2>2, <3>2
        <3> QED BY <3>1, <3>2
    <2>7. DOMAIN sim.perChannel = 0..(Channels - 1)
        BY <1>4
    <2> QED BY <2>5, <2>6, <2>7
<1>6. Allotted(sim) /\ Consistent(sim)
    BY <1>5 DEF Sound
<1>7. loc \notin DOMAIN sim.page
    BY <1>5, <1>6, FreshPage
<1>8. after.page = Put(sim.page, loc, b.gid)
    BY <1>1, <1>7
<1> HIDE DEF loc
<1>9. Consistent(after)
    <2>1. TablesAgree(sim.map, sim.rev, sim.page)
        BY <1>6 DEF Consistent, TablesAgree
    <2>2. TablesAgree(after.map, after.rev, after.page)
        BY <1>1, <1>7, <1>8, <2>1, EntryKeepsAgreement
    <2> QED BY <2>2 DEF Consistent, TablesAgree
<1>10. Allotted(after)
    <2> SUFFICES ASSUME NEW l \in DOMAIN after.page
                 PROVE  IF after.mode = "conventional"
                        THEN \E n \in 0..(after.linear - 1) : l = LinearLocation(n)
                        ELSE /\ l.ch \in 0..(Channels - 1)
                             /\ Position(l) \in 0..(after.perChannel[l.ch] - 1)
        BY DEF Allotted
    <2>1. l = loc \/ l \in DOMAIN sim.page
        BY <1>8 DEF Put
    <2>2. CASE sim.mode = "conventional"
        <3>1. CASE l = loc
            BY <1>1, <1>3, <1>4, <2>2, <3>1
        <3>2. CASE l \in DOMAIN sim.page
            BY <1>1, <1>4, <1>6, <2>2, <3>2 DEF Allotted
        <3> QED BY <2>1, <3>1, <3>2
    <2>3. CASE sim.mode = "tensor_aware"
        <3>1. CASE l = loc
            <4>1. /\ loc.ch \in 0..(Channels - 1)
                  /\ Position(loc) = sim.perChannel[loc.ch]
                BY <1>2, <1>5, <2>3
            <4>2. sim.perChannel[loc.ch] \in Nat
                BY <1>4, <4>1
            <4>3. after.perChannel[loc.ch] = sim.perChannel[loc.ch] + 1
                BY <1>1, <1>4, <2>3, <4>1
            <4>4. Position(loc) \in 0..(after.perChannel[loc.ch] - 1)
                BY <4>1, <4>2, <4>3
            <4> QED BY <1>1, <2>3, <3>1, <4>1, <4>4
        <3>2. CASE l \in DOMAIN sim.page
            <4>1. l.ch \in 0..(Channels - 1) /\ Position(l) \in 0..(sim.perChannel[l.ch] - 1)
                BY <1>6, <2>3, <3>2 DEF Allotted
            <4>2. after.perChannel[l.ch] = sim.perChannel[l.ch]
                  \/ after.perChannel[l.ch] = sim.perChannel[l.ch] + 1
                BY <1>1, <1>4, <2>3, <4>1
            <4>3. sim.perChannel[l.ch] \in Nat
                BY <1>4, <4>1
            <4> QED BY <1>1, <2>3, <4>1, <4>2, <4>3
        <3> QED BY <2>1, <3>1, <3>2
    <2> QED BY <1>4, <2>2, <2>3
<1> QED BY <1>9, <1>10

-----------------------------------------------------------------------------
(***************************************************************************)
(* Folds.                                                                  *)
(***************************************************************************)

\* One turn of each loop of the code that is a fold in the model: v is what the loop has
\* made so far, x the element it is at and p what the loop is called with.
Turned(loop, p, v, x) ==
  CASE loop = "offload"  -> OffloadBlock(v, x)
    [] loop = "count"    -> v + p[x + 1].count
    [] loop = "replace"  -> Replace(v, x)
    [] loop = "cache"    -> CacheBlock(v, <<p, x>>)
    [] loop = "predict"  -> IF Contains(v, x) THEN v ELSE Append(v, x)
    [] loop = "simulate" -> SimulateLayer(v, x, p)
    [] loop = "stage"    -> StageBlock(v, <<p, x>>)

\* What MapThenFoldSet computes, for every subset of the indices below n.
Iterates(h, loop, p, base, seq, n) ==
  h = [s \in SUBSET (1..n) |->
         IF s = {} THEN base ELSE Turned(loop, p, h[s \ {Max(s)}], seq[Max(s)])]

\* The loop, turn by turn.
Turns(f, loop, p, base, seq) ==
  /\ f[0] = base
  /\ \A i \in 1..Len(seq) : f[i] = Turned(loop, p, f[i - 1], seq[i])

\* Every loop has such a table.
LEMMA IteratesExist ==
  ASSUME NEW loop, NEW p, NEW base, NEW seq, NEW N \in Nat
  PROVE  \E h : Iterates(h, loop, p, base, seq, N)
<1>. DEFINE X == {n \in Nat : \E h : Iterates(h, loop, p, base, seq, n)}
<1>1. 0 \in X
  <2>1. Iterates([s \in SUBSET (1..0) |-> base], loop, p, base, seq, 0)
    <3>1. \A s \in SUBSET (1..0) : s = {}
      OBVIOUS
    <3> QED BY <3>1, Zenon DEF Iterates
  <2> QED BY <2>1
<1>2. ASSUME NEW n \in Nat, n \in X PROVE n + 1 \in X
  <2>1. PICK h : Iterates(h, loop, p, base, seq, n)
    BY <1>2
  <2>. DEFINE m == n + 1
              g == [s \in SUBSET (1..m) |->
                      IF s = {} THEN base
                      ELSE IF m \in s THEN Turned(loop, p, h[s \ {m}], seq[m])
                      ELSE h[s]]
  <2>2. /\ m \in Nat /\ \A s \in SUBSET (1..m) : s \subseteq Nat /\ \A x \in s : x <= m
        /\ \A s \in SUBSET (1..m) : m \notin s => s \in SUBSET (1..n)
        /\ \A s \in SUBSET (1..m) : s \ {m} \in SUBSET (1..n)
        /\ \A s \in SUBSET (1..n) : s \in SUBSET (1..m) /\ m \notin s
    OBVIOUS
  <2>. HIDE DEF m
  <2>3. \A s \in SUBSET (1..n) :
           h[s] = IF s = {} THEN base ELSE Turned(loop, p, h[s \ {Max(s)}], seq[Max(s)])
    BY <2>1, Zenon DEF Iterates
  <2>4. \A s \in SUBSET (1..n) : g[s] = h[s]
    <3>1. h[{}] = base
      BY <2>3
    <3> QED BY <2>2, <3>1
  <2>5. ASSUME NEW s \in SUBSET (1..m)
        PROVE  g[s] = IF s = {} THEN base ELSE Turned(loop, p, g[s \ {Max(s)}], seq[Max(s)])
    <3>1. CASE s = {}
      BY <3>1
    <3>2. CASE m \in s
      <4>1. Max(s) = m
        BY <2>2, <3>2, MaxIs
      <4>2. g[s \ {m}] = h[s \ {m}]
        BY <2>2, <2>4
      <4>3. g[s] = Turned(loop, p, h[s \ {m}], seq[m])
        BY <3>2
      <4>. HIDE DEF g
      <4> QED BY <3>2, <4>1, <4>2, <4>3
    <3>3. CASE s # {} /\ m \notin s
      <4>1. s \in SUBSET (1..n) /\ s \ {Max(s)} \in SUBSET (1..n)
        BY <2>2, <3>3
      <4>. HIDE DEF g
      <4> QED BY <2>3, <2>4, <3>3, <4>1
    <3> QED BY <3>1, <3>2, <3>3
  <2>6. Iterates(g, loop, p, base, seq, m)
    <3>1. g = [s \in SUBSET (1..m) |-> g[s]]
      BY Zenon
    <3>. HIDE DEF g
    <3> QED BY <2>5, <3>1, Zenon DEF Iterates
  <2> QED BY <2>6 DEF m
<1>3. Nat \subseteq X
  <2>. HIDE DEF X
  <2> QED BY <1>1, <1>2, SetInduction
<1> QED BY <1>3

\* The table gives the loop turn by turn.
LEMMA IteratesTurn ==
  ASSUME NEW loop, NEW p, NEW base, NEW S, NEW seq \in Seq(S), NEW h,
         Iterates(h, loop, p, base, seq, Len(seq))
  PROVE  Turns([i \in 0..Len(seq) |-> h[1..i]], loop, p, base, seq)
<1>. DEFINE N == Len(seq)
            f == [i \in 0..N |-> h[1..i]]
<1>1. N \in Nat
  BY LenProperties
<1>. HIDE DEF N
<1>2. \A s \in SUBSET (1..N) :
         h[s] = IF s = {} THEN base ELSE Turned(loop, p, h[s \ {Max(s)}], seq[Max(s)])
  BY Zenon DEF Iterates, N
<1>3. f[0] = base
  <2>1. 1..0 = {} /\ 0 \in 0..N
    BY <1>1
  <2> QED BY <1>2, <2>1
<1>4. ASSUME NEW i \in 1..N PROVE f[i] = Turned(loop, p, f[i - 1], seq[i])
  <2>1. /\ 1..i \in SUBSET (1..N) /\ i \in 1..i /\ 1..i \subseteq Nat /\ \A x \in 1..i : x <= i
        /\ (1..i) \ {i} = 1..(i - 1) /\ i \in 0..N /\ i - 1 \in 0..N
    BY <1>1
  <2>2. Max(1..i) = i
    BY <2>1, MaxIs
  <2>3. h[1..i] = Turned(loop, p, h[1..(i - 1)], seq[i])
    BY <1>2, <2>1, <2>2
  <2> QED BY <2>1, <2>3
<1> QED BY <1>3, <1>4 DEF Turns, N

\* The eviction loops of prefill_sequence and append_token, turn by turn.
LEMMA OffloadTurns ==
  ASSUME NEW S, NEW seq \in Seq(S), NEW base
  PROVE  \E f : /\ Turns(f, "offload", 0, base, seq)
                /\ FoldLeft(OffloadBlock, base, seq) = f[Len(seq)]
<1>. DEFINE Eq(h) == h = [s \in SUBSET (1..Len(seq)) |->
                     IF s = {} THEN base ELSE OffloadBlock(h[s \ {Max(s)}], seq[Max(s)])]
            it == CHOOSE h : Eq(h)
<1>1. \A h : Eq(h) <=> Iterates(h, "offload", 0, base, seq, Len(seq))
  BY DEF Iterates, Turned
<1>2. Len(seq) \in Nat /\ DOMAIN seq = 1..Len(seq)
  BY LenProperties
<1>3. Eq(it)
  BY <1>1, <1>2, IteratesExist
<1>4. FoldLeft(OffloadBlock, base, seq) = it[1..Len(seq)]
  BY <1>2 DEF FoldLeft, MapThenFoldSet
<1>. HIDE DEF it
<1>5. Turns([i \in 0..Len(seq) |-> it[1..i]], "offload", 0, base, seq)
  BY <1>1, <1>3, IteratesTurn
<1>6. [i \in 0..Len(seq) |-> it[1..i]][Len(seq)] = it[1..Len(seq)]
  BY <1>2
<1> QED BY <1>4, <1>5, <1>6

\* The sum of num_tokens over the blocks of a layer, turn by turn.
LEMMA CountTurns ==
  ASSUME NEW S, NEW seq \in Seq(S), NEW blocks, NEW base, base = 0
  PROVE  \E f : /\ Turns(f, "count", blocks, base, seq)
                /\ Counted(blocks, seq) = f[Len(seq)]
<1>. DEFINE Eq(h) == h = [s \in SUBSET (1..Len(seq)) |->
                     IF s = {} THEN base ELSE h[s \ {Max(s)}] + blocks[seq[Max(s)] + 1].count]
            it == CHOOSE h : Eq(h)
<1>1. \A h : Eq(h) <=> Iterates(h, "count", blocks, base, seq, Len(seq))
  BY DEF Iterates, Turned
<1>2. Len(seq) \in Nat /\ DOMAIN seq = 1..Len(seq)
  BY LenProperties
<1>3. Eq(it)
  BY <1>1, <1>2, IteratesExist
<1>4. Counted(blocks, seq) = it[1..Len(seq)]
  BY <1>2 DEF FoldLeft, MapThenFoldSet, Counted
<1>. HIDE DEF it
<1>5. Turns([i \in 0..Len(seq) |-> it[1..i]], "count", blocks, base, seq)
  BY <1>1, <1>3, IteratesTurn, SMTT(30)
<1>6. [i \in 0..Len(seq) |-> it[1..i]][Len(seq)] = it[1..Len(seq)]
  BY <1>2
<1> QED BY <1>4, <1>5, <1>6

\* The loop of set_mode over the stored blocks.
LEMMA ReplaceTurns ==
  ASSUME NEW S, NEW seq \in Seq(S), NEW base
  PROVE  \E f : /\ Turns(f, "replace", 0, base, seq)
                /\ FoldLeft(Replace, base, seq) = f[Len(seq)]
<1>. DEFINE Eq(h) == h = [s \in SUBSET (1..Len(seq)) |->
                     IF s = {} THEN base ELSE Replace(h[s \ {Max(s)}], seq[Max(s)])]
            it == CHOOSE h : Eq(h)
<1>1. \A h : Eq(h) <=> Iterates(h, "replace", 0, base, seq, Len(seq))
  BY DEF Iterates, Turned
<1>2. Len(seq) \in Nat /\ DOMAIN seq = 1..Len(seq)
  BY LenProperties
<1>3. Eq(it)
  BY <1>1, <1>2, IteratesExist
<1>4. FoldLeft(Replace, base, seq) = it[1..Len(seq)]
  BY <1>2 DEF FoldLeft, MapThenFoldSet
<1>. HIDE DEF it
<1>5. Turns([i \in 0..Len(seq) |-> it[1..i]], "replace", 0, base, seq)
  BY <1>1, <1>3, IteratesTurn
<1>6. [i \in 0..Len(seq) |-> it[1..i]][Len(seq)] = it[1..Len(seq)]
  BY <1>2
<1> QED BY <1>4, <1>5, <1>6

\* The loop of prefetch_kv over the asked blocks.
LEMMA CacheTurns ==
  ASSUME NEW S, NEW seq \in Seq(S), NEW base, NEW layer
  PROVE  \E f : /\ Turns(f, "cache", layer, base, seq)
                /\ PrefetchKV(base, layer, seq) = f[Len(seq)]
<1>. DEFINE Eq(h) == h = [s \in SUBSET (1..Len(seq)) |->
                     IF s = {} THEN base ELSE CacheBlock(h[s \ {Max(s)}], <<layer, seq[Max(s)]>>)]
            it == CHOOSE h : Eq(h)
<1>1. \A h : Eq(h) <=> Iterates(h, "cache", layer, base, seq, Len(seq))
  BY DEF Iterates, Turned
<1>2. Len(seq) \in Nat /\ DOMAIN seq = 1..Len(seq)
  BY LenProperties
<1>3. Eq(it)
  BY <1>1, <1>2, IteratesExist
<1>4. PrefetchKV(base, layer, seq) = it[1..Len(seq)]
  BY <1>2 DEF FoldLeft, MapThenFoldSet, PrefetchKV
<1>. HIDE DEF it
<1>5. Turns([i \in 0..Len(seq) |-> it[1..i]], "cache", layer, base, seq)
  BY <1>1, <1>3, IteratesTurn
<1>6. [i \in 0..Len(seq) |-> it[1..i]][Len(seq)] = it[1..Len(seq)]
  BY <1>2
<1> QED BY <1>4, <1>5, <1>6

\* The loop of stage_blocks.
LEMMA StageTurns ==
  ASSUME NEW S, NEW seq \in Seq(S), NEW base, NEW layer
  PROVE  \E f : /\ Turns(f, "stage", layer, base, seq)
                /\ StageBlocks(base, layer, seq) = f[Len(seq)]
<1>. DEFINE Eq(h) == h = [s \in SUBSET (1..Len(seq)) |->
                     IF s = {} THEN base ELSE StageBlock(h[s \ {Max(s)}], <<layer, seq[Max(s)]>>)]
            it == CHOOSE h : Eq(h)
<1>1. \A h : Eq(h) <=> Iterates(h, "stage", layer, base, seq, Len(seq))
  BY DEF Iterates, Turned
<1>2. Len(seq) \in Nat /\ DOMAIN seq = 1..Len(seq)
  BY LenProperties
<1>3. Eq(it)
  BY <1>1, <1>2, IteratesExist
<1>4. StageBlocks(base, layer, seq) = it[1..Len(seq)]
  BY <1>2 DEF FoldLeft, MapThenFoldSet, StageBlocks
<1>. HIDE DEF it
<1>5. Turns([i \in 0..Len(seq) |-> it[1..i]], "stage", layer, base, seq)
  BY <1>1, <1>3, IteratesTurn
<1>6. [i \in 0..Len(seq) |-> it[1..i]][Len(seq)] = it[1..Len(seq)]
  BY <1>2
<1> QED BY <1>4, <1>5, <1>6

\* The loop in which the predictor collects block ids.
LEMMA PredictTurns ==
  ASSUME NEW S, NEW seq \in Seq(S), NEW base, base = <<>>
  PROVE  \E f : /\ Turns(f, "predict", 0, base, seq)
                /\ Predicted(seq) = f[Len(seq)]
<1>. DEFINE Eq(h) == h = [s \in SUBSET (1..Len(seq)) |->
                     IF s = {} THEN base
                     ELSE IF Contains(h[s \ {Max(s)}], seq[Max(s)]) THEN h[s \ {Max(s)}]
                     ELSE Append(h[s \ {Max(s)}], seq[Max(s)])]
            it == CHOOSE h : Eq(h)
<1>1. \A h : Eq(h) <=> Iterates(h, "predict", 0, base, seq, Len(seq))
  BY DEF Iterates, Turned
<1>2. Len(seq) \in Nat /\ DOMAIN seq = 1..Len(seq)
  BY LenProperties
<1>3. Eq(it)
  BY <1>1, <1>2, IteratesExist
<1>4. Predicted(seq) = it[1..Len(seq)]
  BY <1>2 DEF FoldLeft, MapThenFoldSet, Predicted
<1>. HIDE DEF it
<1>5. Turns([i \in 0..Len(seq) |-> it[1..i]], "predict", 0, base, seq)
  BY <1>1, <1>3, IteratesTurn
<1>6. [i \in 0..Len(seq) |-> it[1..i]][Len(seq)] = it[1..Len(seq)]
  BY <1>2
<1> QED BY <1>4, <1>5, <1>6

\* The loop of run_simulation over the layers.
LEMMA SimulateTurns ==
  ASSUME NEW S, NEW seq \in Seq(S), NEW base, NEW ids
  PROVE  \E f : /\ Turns(f, "simulate", ids, base, seq)
                /\ SimulateLayers(base, seq, ids) = f[Len(seq)]
<1>. DEFINE Eq(h) == h = [s \in SUBSET (1..Len(seq)) |->
                     IF s = {} THEN base ELSE SimulateLayer(h[s \ {Max(s)}], seq[Max(s)], ids)]
            it == CHOOSE h : Eq(h)
<1>1. \A h : Eq(h) <=> Iterates(h, "simulate", ids, base, seq, Len(seq))
  BY DEF Iterates, Turned
<1>2. Len(seq) \in Nat /\ DOMAIN seq = 1..Len(seq)
  BY LenProperties
<1>3. Eq(it)
  BY <1>1, <1>2, IteratesExist
<1>4. SimulateLayers(base, seq, ids) = it[1..Len(seq)]
  BY <1>2 DEF FoldLeft, MapThenFoldSet, SimulateLayers
<1>. HIDE DEF it
<1>5. Turns([i \in 0..Len(seq) |-> it[1..i]], "simulate", ids, base, seq)
  BY <1>1, <1>3, IteratesTurn
<1>6. [i \in 0..Len(seq) |-> it[1..i]][Len(seq)] = it[1..Len(seq)]
  BY <1>2
<1> QED BY <1>4, <1>5, <1>6

-----------------------------------------------------------------------------
(***************************************************************************)
(* Sequences, and the positions of tokens and of blocks.                   *)
(***************************************************************************)

\* Induction on a set of sequences: one that has the empty sequence and, with every
\* sequence, those with one element more.
LEMMA SeqInduction ==
  ASSUME NEW S, NEW X, <<>> \in X, \A s \in Seq(S) : \A x \in S : s \in X => Append(s, x) \in X
  PROVE  Seq(S) \subseteq X
<1>. DEFINE Y == {n \in Nat : \A s \in Seq(S) : Len(s) = n => s \in X}
<1>1. 0 \in Y
  BY EmptySeq
<1>2. ASSUME NEW n \in Nat, n \in Y PROVE n + 1 \in Y
  <2> SUFFICES ASSUME NEW s \in Seq(S), Len(s) = n + 1 PROVE s \in X
    OBVIOUS
  <2>. DEFINE front == SubSeq(s, 1, n)
  <2>1. s # <<>>
    BY EmptySeq
  <2>2. front \in Seq(S) /\ Len(front) = n /\ \A i \in 1..n : front[i] = s[i]
    <3>1. 1 \in 1..(Len(s) + 1) /\ n \in 0..Len(s) /\ 1 <= n + 1
      OBVIOUS
    <3> QED BY <3>1, SubSeqProperties
  <2>3. s[n + 1] \in S
    BY ElementOfSeq
  <2>. HIDE DEF front
  <2>4. PICK t \in Seq(S) : t = Append(front, s[n + 1])
    BY <2>2, <2>3, AppendProperties
  <2>5. Len(t) = n + 1 /\ t[n + 1] = s[n + 1] /\ \A i \in 1..n : t[i] = front[i]
    BY <2>2, <2>3, <2>4, AppendProperties
  <2>6. \A i \in 1..Len(s) : t[i] = s[i]
    BY <2>2, <2>5
  <2>7. s = t
    BY <2>5, <2>6, SeqEqual
  <2>8. front \in X
    BY <1>2, <2>2
  <2> QED BY <2>2, <2>3, <2>4, <2>7, <2>8
<1>3. Nat \subseteq Y
  <2>. HIDE DEF Y
  <2> QED BY <1>1, <1>2, SetInduction
<1> QED BY <1>3, LenProperties

-----------------------------------------------------------------------------
\* What OnlyIn has kept of the first elements of a sequence.
Keeps(f, seq, set) ==
  /\ f[0] = <<>>
  /\ \A n \in 1..Len(seq) : f[n] = IF seq[n] \in set THEN Append(f[n - 1], seq[n]) ELSE f[n - 1]

\* The same as the recursive function that OnlyIn is defined by.
KeptUpTo(f, seq, set, m) ==
  f = [n \in 0..m |->
         IF n = 0 THEN <<>>
         ELSE IF seq[n] \in set THEN Append(f[n - 1], seq[n]) ELSE f[n - 1]]

\* There is one answer to that, and OnlyIn gives the last of it.
LEMMA OnlyInKeeps ==
  ASSUME NEW S, NEW seq \in Seq(S), NEW set
  PROVE  \E f \in [0..Len(seq) -> Seq(S)] :
           Keeps(f, seq, set) /\ OnlyIn(seq, set) = f[Len(seq)]
<1>. DEFINE N == Len(seq)
            X == {m \in Nat : m <= N => \E f \in [0..m -> Seq(S)] : KeptUpTo(f, seq, set, m)}
<1>1. N \in Nat /\ \A n \in 1..N : seq[n] \in S
  BY LenProperties, ElementOfSeq
<1>2. OnlyIn(seq, set) = (CHOOSE f : KeptUpTo(f, seq, set, N))[N]
  BY DEF OnlyIn, KeptUpTo, N
<1>. HIDE DEF N
<1>3. 0 \in X
  <2>1. [n \in 0..0 |-> <<>>] \in [0..0 -> Seq(S)] 
    OBVIOUS
  <2>2. KeptUpTo([n \in 0..0 |-> <<>>], seq, set, 0)
    BY DEF KeptUpTo
  <2> QED BY <2>1, <2>2
<1>4. ASSUME NEW m \in Nat, m \in X PROVE m + 1 \in X
  <2> SUFFICES ASSUME m + 1 <= N
               PROVE  \E f \in [0..(m + 1) -> Seq(S)] : KeptUpTo(f, seq, set, m + 1)
    OBVIOUS
  <2>1. PICK f \in [0..m -> Seq(S)] : KeptUpTo(f, seq, set, m)
    BY <1>1, <1>4
  <2>. DEFINE last == IF seq[m + 1] \in set THEN Append(f[m], seq[m + 1]) ELSE f[m]
              g == [n \in 0..(m + 1) |-> IF n = m + 1 THEN last ELSE f[n]]
  <2>2. f[m] \in Seq(S) /\ seq[m + 1] \in S
    BY <1>1, <2>1
  <2>3. last \in Seq(S)
    BY <2>2, AppendProperties
  <2>4. \A n \in 0..m : /\ g[n] = f[n]
                        /\ f[n] = IF n = 0 THEN <<>>
                                  ELSE IF seq[n] \in set THEN Append(f[n - 1], seq[n])
                                  ELSE f[n - 1]
    <3>. HIDE DEF last
    <3>1. \A n \in 0..m : n \in 0..(m + 1) /\ n # m + 1
      OBVIOUS
    <3>2. \A n \in 0..m : f[n] = IF n = 0 THEN <<>>
                                  ELSE IF seq[n] \in set THEN Append(f[n - 1], seq[n])
                                  ELSE f[n - 1]
      BY <2>1, Zenon DEF KeptUpTo
    <3> QED BY <3>1, <3>2
  <2>5. g \in [0..(m + 1) -> Seq(S)]
    <3>. HIDE DEF last
    <3> QED BY <2>1, <2>3
  <2>6. g[m + 1] = last
    OBVIOUS
  <2>7. ASSUME NEW n \in 0..(m + 1)
        PROVE  g[n] = IF n = 0 THEN <<>>
                      ELSE IF seq[n] \in set THEN Append(g[n - 1], seq[n]) ELSE g[n - 1]
    <3>1. CASE n = m + 1
      <4>1. n # 0 /\ n - 1 = m /\ m \in 0..m
        BY <3>1
      <4>2. g[m] = f[m]
        BY <2>4, <4>1
      <4>. HIDE DEF g
      <4> QED BY <2>6, <3>1, <4>1, <4>2
    <3>2. CASE n # m + 1
      <4>1. n \in 0..m /\ (n # 0 => n - 1 \in 0..m)
        BY <3>2
      <4>. HIDE DEF g, last
      <4> QED BY <2>4, <4>1
    <3> QED BY <3>1, <3>2
  <2>8. KeptUpTo(g, seq, set, m + 1)
    <3>1. g = [n \in 0..(m + 1) |-> g[n]]
      BY Zenon
    <3>. HIDE DEF g
    <3> QED BY <2>7, <3>1, Zenon DEF KeptUpTo
  <2>. HIDE DEF g
  <2> QED BY <2>5, <2>8
<1>5. PICK f \in [0..N -> Seq(S)] : KeptUpTo(f, seq, set, N)
  <2>1. Nat \subseteq X
    <3>. HIDE DEF X
    <3> QED BY <1>3, <1>4, SetInduction
  <2> QED BY <1>1, <2>1
<1>. DEFINE h == CHOOSE h : KeptUpTo(h, seq, set, N)
<1>6. KeptUpTo(h, seq, set, N)
  BY <1>5, Zenon
<1>. HIDE DEF h
<1>7. \A n \in 0..N : h[n] = IF n = 0 THEN <<>>
                    ELSE IF seq[n] \in set THEN Append(h[n - 1], seq[n]) ELSE h[n - 1]
  BY <1>6, Zenon DEF KeptUpTo
<1>8. h \in [0..N -> Seq(S)]
  <2>. DEFINE Y == {n \in Nat : n <= N => h[n] \in Seq(S)}
  <2>1. 0 \in Y
    <3>1. 0 \in 0..N /\ <<>> \in Seq(S)
      BY <1>1, EmptySeq
    <3> QED BY <1>7, <3>1
  <2>2. ASSUME NEW n \in Nat, n \in Y PROVE n + 1 \in Y
    <3> SUFFICES ASSUME n + 1 <= N PROVE h[n + 1] \in Seq(S)
      OBVIOUS
    <3>1. n + 1 \in 0..N /\ n + 1 # 0 /\ (n + 1) - 1 = n /\ h[n] \in Seq(S) /\ seq[n + 1] \in S
      BY <1>1, <2>2
    <3>2. h[n + 1] = IF seq[n + 1] \in set THEN Append(h[n], seq[n + 1]) ELSE h[n]
      BY <1>7, <3>1
    <3> QED BY <3>1, <3>2, AppendProperties
  <2>3. Nat \subseteq Y
    <3>. HIDE DEF Y
    <3> QED BY <2>1, <2>2, SetInduction
  <2>4. \A n \in 0..N : h[n] \in Seq(S)
    BY <1>1, <2>3
  <2>5. h = [n \in 0..N |-> h[n]]
    BY <1>6, Zenon DEF KeptUpTo
  <2> QED BY <2>4, <2>5
<1>9. Keeps(h, seq, set)
  <2>1. 0 \in 0..N /\ \A n \in 1..N : n \in 0..N /\ n # 0
    BY <1>1
  <2> QED BY <1>7, <2>1 DEF Keeps, N
<1> QED BY <1>2, <1>8, <1>9 DEF N, h

\* OnlyIn gives a sequence.
LEMMA OnlyInAppend ==
  ASSUME NEW S, NEW set
  PROVE  /\ OnlyIn(<<>>, set) = <<>>
         /\ \A seq \in Seq(S) : OnlyIn(seq, set) \in Seq(S)
<1>1. OnlyIn(<<>>, set) = <<>>
  <2>1. PICK e \in Seq(S) : e = <<>> /\ Len(e) = 0
    BY EmptySeq
  <2>2. PICK f \in [0..Len(e) -> Seq(S)] : Keeps(f, e, set) /\ OnlyIn(e, set) = f[Len(e)]
    BY OnlyInKeeps
  <2> QED BY <2>1, <2>2 DEF Keeps
<1>2. ASSUME NEW seq \in Seq(S) PROVE OnlyIn(seq, set) \in Seq(S)
  <2>1. PICK f \in [0..Len(seq) -> Seq(S)] :
           Keeps(f, seq, set) /\ OnlyIn(seq, set) = f[Len(seq)]
    BY OnlyInKeeps
  <2> QED BY <2>1, LenProperties
<1> QED BY <1>1, <1>2

\* What OnlyIn does with one element more.
LEMMA OnlyInNext ==
  ASSUME NEW S, NEW set, NEW seq \in Seq(S), NEW x \in S
  PROVE  OnlyIn(Append(seq, x), set) =
           IF x \in set THEN Append(OnlyIn(seq, set), x) ELSE OnlyIn(seq, set)
<1>. DEFINE N == Len(seq)
<1>1. PICK t \in Seq(S) : t = Append(seq, x)
  BY AppendProperties
<1>2. N \in Nat /\ Len(t) = N + 1 /\ t[N + 1] = x /\ \A i \in 1..N : t[i] = seq[i]
  BY <1>1, LenProperties, AppendProperties
<1>3. PICK f \in [0..N -> Seq(S)] : Keeps(f, seq, set) /\ OnlyIn(seq, set) = f[N]
  BY OnlyInKeeps
<1>4. PICK g \in [0..Len(t) -> Seq(S)] : Keeps(g, t, set) /\ OnlyIn(t, set) = g[Len(t)]
  BY OnlyInKeeps
<1>5. f[0] = <<>> /\ g[0] = <<>>
  BY <1>3, <1>4 DEF Keeps
<1>6. \A i \in 1..N : f[i] = IF seq[i] \in set THEN Append(f[i - 1], seq[i]) ELSE f[i - 1]
  BY <1>3, Zenon DEF Keeps
<1>7. \A i \in 1..Len(t) : g[i] = IF t[i] \in set THEN Append(g[i - 1], t[i]) ELSE g[i - 1]
  BY <1>4, Zenon DEF Keeps
<1>. HIDE DEF N
<1>. DEFINE X == {i \in Nat : i <= N => f[i] = g[i]}
<1>8. Nat \subseteq X
  <2>1. 0 \in X
    BY <1>5
  <2>2. ASSUME NEW i \in Nat, i \in X PROVE i + 1 \in X
    <3> SUFFICES ASSUME i + 1 <= N PROVE f[i + 1] = g[i + 1]
      OBVIOUS
    <3>1. i + 1 \in 1..N /\ i + 1 \in 1..Len(t) /\ (i + 1) - 1 = i /\ f[i] = g[i]
      <4>1. i + 1 \in 1..N /\ (i + 1) - 1 = i /\ i <= N
        BY <1>2
      <4>2. i + 1 \in 1..Len(t)
        BY <1>2, <4>1
      <4> QED BY <2>2, <4>1, <4>2
    <3>2. f[i + 1] = IF seq[i + 1] \in set THEN Append(f[i], seq[i + 1]) ELSE f[i]
      BY <1>6, <3>1
    <3>3. g[i + 1] = IF t[i + 1] \in set THEN Append(g[i], t[i + 1]) ELSE g[i]
      BY <1>7, <3>1
    <3> QED BY <1>2, <3>1, <3>2, <3>3
  <2>. HIDE DEF X
  <2> QED BY <2>1, <2>2, SetInduction
<1>9. N + 1 \in 1..Len(t) /\ (N + 1) - 1 = N /\ f[N] = g[N]
  BY <1>2, <1>8
<1>10. g[N + 1] = IF x \in set THEN Append(g[N], x) ELSE g[N]
  BY <1>2, <1>7, <1>9
<1> QED BY <1>1, <1>2, <1>3, <1>4, <1>9, <1>10

\* Two sequences are equal that have one length and the same elements.
LEMMA SameSeq ==
  ASSUME NEW S, NEW s \in Seq(S), NEW t \in Seq(S), Len(s) = Len(t),
         \A i \in 1..Len(s) : s[i] = t[i]
  PROVE  s = t
BY SeqEqual

\* A loop over range(first, first + n).
LEMMA PositionsAre ==
  ASSUME NEW a \in Nat, NEW n \in Nat
  PROVE  /\ Positions(a, n) \in Seq(Nat)
         /\ Len(Positions(a, n)) = n
         /\ \A i \in 1..n : Positions(a, n)[i] = a + i - 1
<1>1. \A i \in 1..n : a + i - 1 \in Nat
  OBVIOUS
<1>2. Positions(a, n) \in [1..n -> Nat]
  BY <1>1 DEF Positions
<1>3. \A f \in [1..n -> Nat] : f \in Seq(Nat) /\ Len(f) = n
  OBVIOUS
<1>4. \A i \in 1..n : Positions(a, n)[i] = a + i - 1
  BY DEF Positions
<1> QED BY <1>2, <1>3, <1>4

\* One position more.
LEMMA PositionsGrow ==
  ASSUME NEW a \in Nat, NEW n \in Nat
  PROVE  /\ Positions(a, 0) = <<>>
         /\ Positions(a, n + 1) = Append(Positions(a, n), a + n)
<1>1. Positions(a, 0) = <<>>
  BY PositionsAre, EmptySeq
<1>2. Positions(a, n + 1) = Append(Positions(a, n), a + n)
  <2>1. PICK s \in Seq(Nat) : s = Positions(a, n) /\ Len(s) = n
        /\ \A i \in 1..n : s[i] = a + i - 1
    BY PositionsAre
  <2>2. PICK t \in Seq(Nat) : /\ t = Positions(a, n + 1) /\ Len(t) = n + 1
                              /\ \A i \in 1..(n + 1) : t[i] = a + i - 1
    BY PositionsAre
  <2>3. a + n \in Nat
    OBVIOUS
  <2>4. PICK u \in Seq(Nat) : u = Append(s, a + n)
    BY <2>3, AppendProperties
  <2>5. Len(u) = n + 1 /\ u[n + 1] = a + n /\ \A i \in 1..n : u[i] = s[i]
    BY <2>1, <2>3, <2>4, AppendProperties
  <2>6. \A i \in 1..Len(t) : t[i] = u[i]
    BY <2>1, <2>2, <2>5
  <2>7. t = u
    BY <2>2, <2>5, <2>6, SameSeq
  <2> QED BY <2>1, <2>2, <2>4, <2>7
<1> QED BY <1>1, <1>2

\* Positions that follow each other.
LEMMA PositionsJoin ==
  ASSUME NEW a \in Nat, NEW m \in Nat, NEW k \in Nat
  PROVE  Positions(a, m) \o Positions(a + m, k) = Positions(a, m + k)
<1>1. PICK s \in Seq(Nat) : s = Positions(a, m) /\ Len(s) = m /\ \A i \in 1..m : s[i] = a + i - 1
  BY PositionsAre
<1>2. a + m \in Nat /\ m + k \in Nat
  OBVIOUS
<1>3. PICK t \in Seq(Nat) : /\ t = Positions(a + m, k) /\ Len(t) = k
                            /\ \A i \in 1..k : t[i] = a + m + i - 1
  BY <1>2, PositionsAre
<1>4. PICK u \in Seq(Nat) : /\ u = Positions(a, m + k) /\ Len(u) = m + k
                            /\ \A i \in 1..(m + k) : u[i] = a + i - 1
  BY <1>2, PositionsAre
<1>5. PICK v \in Seq(Nat) : v = s \o t
  BY ConcatProperties
<1>6. Len(v) = m + k /\ \A i \in 1..(m + k) : v[i] = IF i <= m THEN s[i] ELSE t[i - m]
  BY <1>1, <1>3, <1>5, ConcatProperties
<1>7. ASSUME NEW i \in 1..Len(v) PROVE v[i] = u[i]
  <2>1. i \in 1..(m + k) /\ u[i] = a + i - 1 /\ v[i] = IF i <= m THEN s[i] ELSE t[i - m]
    BY <1>4, <1>6, <1>7
  <2>2. CASE i <= m
    BY <1>1, <2>1, <2>2
  <2>3. CASE ~(i <= m)
    <3>1. i - m \in 1..k
      BY <2>1, <2>3
    <3> QED BY <1>3, <2>1, <2>3, <3>1
  <2> QED BY <2>2, <2>3
<1>8. u = v
  BY <1>4, <1>6, <1>7, SameSeq
<1> QED BY <1>1, <1>3, <1>4, <1>5, <1>8

\* Appending to a concatenation appends to its second part.
LEMMA AppendJoin ==
  ASSUME NEW S, NEW p \in Seq(S), NEW q \in Seq(S), NEW y \in S
  PROVE  p \o Append(q, y) = Append(p \o q, y)
<1>1. PICK c \in Seq(S) : c = p \o q
  BY ConcatProperties
<1>2. Len(c) = Len(p) + Len(q) /\ \A i \in 1..Len(c) : c[i] = IF i <= Len(p) THEN p[i]
      ELSE q[i - Len(p)]
  BY <1>1, ConcatProperties
<1>3. PICK d \in Seq(S) : d = Append(q, y)
  BY AppendProperties
<1>4. Len(d) = Len(q) + 1 /\ d[Len(q) + 1] = y /\ \A i \in 1..Len(q) : d[i] = q[i]
  BY <1>3, AppendProperties
<1>5. PICK l \in Seq(S) : l = Append(c, y)
  BY AppendProperties
<1>6. Len(l) = Len(c) + 1 /\ l[Len(c) + 1] = y /\ \A i \in 1..Len(c) : l[i] = c[i]
  BY <1>5, AppendProperties
<1>7. PICK r \in Seq(S) : r = p \o d
  BY ConcatProperties
<1>8. Len(r) = Len(p) + Len(d) /\ \A i \in 1..Len(r) : r[i] = IF i <= Len(p) THEN p[i]
      ELSE d[i - Len(p)]
  BY <1>7, ConcatProperties
<1>9. Len(p) \in Nat /\ Len(q) \in Nat
  BY LenProperties
<1>10. ASSUME NEW i \in 1..Len(l) PROVE l[i] = r[i]
  <2>1. i \in 1..Len(r)
    BY <1>2, <1>4, <1>6, <1>8, <1>9
  <2>2. CASE i <= Len(p)
    <3>1. i \in 1..Len(c)
      BY <1>2, <1>9, <2>2
    <3> QED BY <1>2, <1>6, <1>8, <2>1, <2>2, <3>1
  <2>3. CASE ~(i <= Len(p)) /\ i <= Len(c)
    <3>1. i \in 1..Len(c) /\ i - Len(p) \in 1..Len(q)
      BY <1>2, <1>9, <2>3
    <3> QED BY <1>2, <1>4, <1>6, <1>8, <2>1, <2>3, <3>1
  <2>4. CASE ~(i <= Len(c))
    <3>1. i = Len(c) + 1 /\ i - Len(p) = Len(q) + 1 /\ ~(i <= Len(p))
      BY <1>2, <1>6, <1>9, <2>4
    <3> QED BY <1>4, <1>6, <1>8, <2>1, <3>1
  <2> QED BY <2>2, <2>3, <2>4
<1>11. l = r
  BY <1>2, <1>4, <1>6, <1>8, <1>9, <1>10, SameSeq, SMTT(30)
<1> QED BY <1>1, <1>3, <1>5, <1>7, <1>11

-----------------------------------------------------------------------------
\* x is an element of the sequence.
Among(x, seq) == \E i \in 1..Len(seq) : seq[i] = x

\* The numbers of the sequence rise.
Rising(seq) == \A i, j \in 1..Len(seq) : i < j => seq[i] < seq[j]

\* The elements of a sequence with one more.
LEMMA AmongAppend ==
  ASSUME NEW S, NEW seq \in Seq(S), NEW x \in S
  PROVE  /\ \A y : ~Among(y, <<>>)
         /\ \A y : Among(y, Append(seq, x)) <=> y = x \/ Among(y, seq)
<1>1. \A y : ~Among(y, <<>>)
  BY EmptySeq DEF Among
<1>2. PICK t \in Seq(S) : t = Append(seq, x)
  BY AppendProperties
<1>3. Len(t) = Len(seq) + 1 /\ t[Len(seq) + 1] = x /\ \A i \in 1..Len(seq) : t[i] = seq[i]
  BY <1>2, AppendProperties
<1>4. Len(seq) \in Nat
  BY LenProperties
<1>5. ASSUME NEW y, Among(y, t) PROVE y = x \/ Among(y, seq)
  <2>1. PICK i \in 1..Len(t) : t[i] = y
    BY <1>5 DEF Among
  <2>2. i = Len(seq) + 1 \/ i \in 1..Len(seq)
    BY <1>3, <1>4
  <2> QED BY <1>3, <2>1, <2>2 DEF Among
<1>6. ASSUME NEW y, y = x \/ Among(y, seq) PROVE Among(y, t)
  <2>1. Len(seq) + 1 \in 1..Len(t) /\ \A i \in 1..Len(seq) : i \in 1..Len(t)
    BY <1>3, <1>4
  <2> QED BY <1>3, <1>6, <2>1 DEF Among
<1> QED BY <1>1, <1>2, <1>5, <1>6

\* OnlyIn depends on its set only at the elements of the sequence.
LEMMA OnlyInSame ==
  ASSUME NEW S, NEW A, NEW B, NEW s \in Seq(S), \A x : Among(x, s) => (x \in A <=> x \in B)
  PROVE  OnlyIn(s, A) = OnlyIn(s, B)
<1>. DEFINE X == {t \in Seq(S) : (\A x : Among(x, t) => (x \in A <=> x \in B))
                                   => OnlyIn(t, A) = OnlyIn(t, B)}
<1>1. <<>> \in X
  BY OnlyInAppend, EmptySeq
<1>2. ASSUME NEW t \in Seq(S), NEW y \in S, t \in X PROVE Append(t, y) \in X
  <2>1. Append(t, y) \in Seq(S)
    BY AppendProperties
  <2> SUFFICES ASSUME \A x : Among(x, Append(t, y)) => (x \in A <=> x \in B)
               PROVE  OnlyIn(Append(t, y), A) = OnlyIn(Append(t, y), B)
    BY <2>1
  <2>2. (y \in A <=> y \in B) /\ \A x : Among(x, t) => (x \in A <=> x \in B)
    <3>1. \A x : Among(x, Append(t, y)) <=> x = y \/ Among(x, t)
      BY AmongAppend
    <3> QED BY <3>1
  <2>3. OnlyIn(t, A) = OnlyIn(t, B)
    BY <1>2, <2>2
  <2>4. /\ OnlyIn(Append(t, y), A) = IF y \in A THEN Append(OnlyIn(t, A), y) ELSE OnlyIn(t, A)
        /\ OnlyIn(Append(t, y), B) = IF y \in B THEN Append(OnlyIn(t, B), y) ELSE OnlyIn(t, B)
    BY OnlyInNext
  <2> QED BY <2>2, <2>3, <2>4
<1>3. Seq(S) \subseteq X
  <2>. HIDE DEF X
  <2> QED BY <1>1, <1>2, SeqInduction
<1> QED BY <1>3

\* OnlyIn keeps the elements that are in its set.
LEMMA OnlyInAmong ==
  ASSUME NEW S, NEW A, NEW s \in Seq(S)
  PROVE  /\ OnlyIn(s, A) \in Seq(S)
         /\ \A x : Among(x, OnlyIn(s, A)) <=> x \in A /\ Among(x, s)
<1>. DEFINE X == {t \in Seq(S) : \A x : Among(x, OnlyIn(t, A)) <=> x \in A /\ Among(x, t)}
<1>1. <<>> \in X
  <2>1. \A x : ~Among(x, <<>>)
    BY EmptySeq DEF Among
  <2> QED BY <2>1, OnlyInAppend, EmptySeq
<1>2. ASSUME NEW t \in Seq(S), NEW y \in S, t \in X PROVE Append(t, y) \in X
  <2>1. Append(t, y) \in Seq(S) /\ OnlyIn(t, A) \in Seq(S)
    BY AppendProperties, OnlyInAppend
  <2>2. OnlyIn(Append(t, y), A) = IF y \in A THEN Append(OnlyIn(t, A), y) ELSE OnlyIn(t, A)
    BY OnlyInNext
  <2>3. \A x : Among(x, Append(t, y)) <=> x = y \/ Among(x, t)
    BY AmongAppend
  <2>4. \A x : Among(x, Append(OnlyIn(t, A), y)) <=> x = y \/ Among(x, OnlyIn(t, A))
    BY <2>1, AmongAppend
  <2>5. \A x : Among(x, OnlyIn(t, A)) <=> x \in A /\ Among(x, t)
    BY <1>2
  <2>6. \A x : Among(x, OnlyIn(Append(t, y), A)) <=> x \in A /\ Among(x, Append(t, y))
    <3>1. CASE y \in A
      BY <2>2, <2>3, <2>4, <2>5, <3>1
    <3>2. CASE y \notin A
      BY <2>2, <2>3, <2>5, <3>2
    <3> QED BY <3>1, <3>2
  <2> QED BY <2>1, <2>6
<1>3. Seq(S) \subseteq X
  <2>. HIDE DEF X
  <2> QED BY <1>1, <1>2, SeqInduction
<1> QED BY <1>3, OnlyInAppend

\* OnlyIn keeps the order.
LEMMA OnlyInRises ==
  ASSUME NEW A, NEW s \in Seq(Nat), Rising(s)
  PROVE  Rising(OnlyIn(s, A))
<1>. DEFINE X == {t \in Seq(Nat) : Rising(t) => Rising(OnlyIn(t, A))}
<1>1. <<>> \in X
  BY OnlyInAppend, EmptySeq
<1>2. ASSUME NEW t \in Seq(Nat), NEW y \in Nat, t \in X PROVE Append(t, y) \in X
  <2>1. PICK u \in Seq(Nat) : u = Append(t, y)
    BY AppendProperties
  <2>2. Len(u) = Len(t) + 1 /\ u[Len(t) + 1] = y /\ (\A i \in 1..Len(t) : u[i] = t[i])
        /\ Len(t) \in Nat
    BY <2>1, AppendProperties, LenProperties
  <2> SUFFICES ASSUME Rising(u) PROVE Rising(OnlyIn(Append(t, y), A))
    BY <2>1
  <2>3. Rising(t) /\ \A x : Among(x, t) => x < y
    <3>1. \A i \in 1..Len(t) : i \in 1..Len(u) /\ Len(t) + 1 \in 1..Len(u) /\ i < Len(t) + 1
      BY <2>2
    <3>2. Rising(t)
      BY <2>2, <3>1 DEF Rising
    <3>3. \A i \in 1..Len(t) : t[i] < y
      <4>1. \A i \in 1..Len(t) : u[i] < u[Len(t) + 1]
        BY <3>1 DEF Rising
      <4> QED BY <2>2, <4>1
    <3> QED BY <3>2, <3>3 DEF Among
  <2>4. PICK k \in Seq(Nat) : k = OnlyIn(t, A)
    BY OnlyInAppend
  <2>5. Rising(k) /\ \A x : Among(x, k) => x < y
    BY <1>2, <2>3, <2>4, OnlyInAmong
  <2>6. PICK v \in Seq(Nat) : v = Append(k, y)
    BY AppendProperties
  <2>7. Len(v) = Len(k) + 1 /\ v[Len(k) + 1] = y /\ (\A i \in 1..Len(k) : v[i] = k[i])
        /\ Len(k) \in Nat
    BY <2>6, AppendProperties, LenProperties
  <2>8. \A i \in 1..Len(k) : k[i] < y
    BY <2>5 DEF Among
  <2>9. Rising(v)
    <3>1. ASSUME NEW i \in 1..Len(v), NEW j \in 1..Len(v), i < j PROVE v[i] < v[j]
      <4>1. i \in 1..Len(k) /\ v[i] = k[i]
        BY <2>7, <3>1, SMTT(30)
      <4>2. CASE j = Len(k) + 1
        BY <2>7, <2>8, <4>1, <4>2
      <4>3. CASE j # Len(k) + 1
        <5>1. j \in 1..Len(k) /\ v[j] = k[j]
          BY <2>7, <4>3
        <5> QED BY <2>5, <3>1, <4>1, <5>1 DEF Rising
      <4> QED BY <4>2, <4>3
    <3> QED BY <3>1 DEF Rising
  <2>10. OnlyIn(Append(t, y), A) = IF y \in A THEN v ELSE k
    BY <2>4, <2>6, OnlyInNext
  <2> QED BY <2>5, <2>9, <2>10
<1>3. Seq(Nat) \subseteq X
  <2>. HIDE DEF X
  <2> QED BY <1>1, <1>2, SeqInduction
<1> QED BY <1>3

-----------------------------------------------------------------------------
LEMMA PositionsRise ==
  ASSUME NEW n \in Nat
  PROVE  Rising(Positions(0, n)) /\ \A x : Among(x, Positions(0, n)) <=> x \in 0..(n - 1)
<1>1. Len(Positions(0, n)) = n /\ \A i \in 1..n : Positions(0, n)[i] = i - 1
  BY PositionsAre
<1>2. Rising(Positions(0, n))
  BY <1>1 DEF Rising
<1>3. ASSUME NEW x \in 0..(n - 1) PROVE Among(x, Positions(0, n))
  <2>1. x + 1 \in 1..n /\ (x + 1) - 1 = x
    OBVIOUS
  <2> QED BY <1>1, <2>1 DEF Among
<1>4. \A x : Among(x, Positions(0, n)) => x \in 0..(n - 1)
  BY <1>1 DEF Among
<1> QED BY <1>2, <1>3, <1>4

\* get_layer_blocks: the layer's blocks, by ascending id.
LEMMA LayerBlocksAre ==
  ASSUME NEW S, NEW blocks \in Seq(S), NEW layer
  PROVE  /\ LayerBlocks(blocks, layer) \in Seq(Nat)
         /\ Rising(LayerBlocks(blocks, layer))
         /\ \A id : Among(id, LayerBlocks(blocks, layer))
                      <=> id \in 0..(Len(blocks) - 1) /\ blocks[id + 1].layer = layer
<1>1. Len(blocks) \in Nat
  BY LenProperties
<1>2. Positions(0, Len(blocks)) \in Seq(Nat)
  BY <1>1, PositionsAre
<1>. DEFINE A == {id \in 0..(Len(blocks) - 1) : blocks[id + 1].layer = layer}
<1>3. LayerBlocks(blocks, layer) = OnlyIn(Positions(0, Len(blocks)), A)
  BY DEF LayerBlocks
<1>4. \A id : id \in A <=> id \in 0..(Len(blocks) - 1) /\ blocks[id + 1].layer = layer
  OBVIOUS
<1>. HIDE DEF A
<1>5. LayerBlocks(blocks, layer) \in Seq(Nat)
      /\ \A id : Among(id, LayerBlocks(blocks, layer)) <=> id \in A
            /\ Among(id, Positions(0, Len(blocks)))
  BY <1>2, <1>3, OnlyInAmong
<1>6. Rising(LayerBlocks(blocks, layer))
  BY <1>1, <1>2, <1>3, OnlyInRises, PositionsRise
<1> QED BY <1>1, <1>4, <1>5, <1>6, PositionsRise

\* It depends on the layers of the blocks alone.
LEMMA LayerBlocksSame ==
  ASSUME NEW a, NEW b, Len(a) = Len(b), NEW layer,
         \A id \in 0..(Len(a) - 1) : a[id + 1].layer = b[id + 1].layer
  PROVE  LayerBlocks(a, layer) = LayerBlocks(b, layer)
<1>1. {id \in 0..(Len(a) - 1) : a[id + 1].layer = layer}
        = {id \in 0..(Len(b) - 1) : b[id + 1].layer = layer}
  OBVIOUS
<1> QED BY <1>1 DEF LayerBlocks

\* Blocks that are added for a layer come after its others, and leave the other layers alone.
LEMMA LayerBlocksJoin ==
  ASSUME NEW S, NEW a \in Seq(S), NEW t \in Seq(S), NEW layer,
         \A i \in 1..Len(t) : t[i].layer = layer
  PROVE  /\ LayerBlocks(a \o t, layer) = LayerBlocks(a, layer) \o Positions(Len(a), Len(t))
         /\ \A m : m # layer => LayerBlocks(a \o t, m) = LayerBlocks(a, m)
<1>. DEFINE n == Len(a)
            k == Len(t)
            both == a \o t
            Of(m) == {id \in 0..(n - 1) : a[id + 1].layer = m}
            All(m) == {id \in 0..(n + k - 1) : both[id + 1].layer = m}
            Joined(m, j) == IF m = layer THEN LayerBlocks(a, m) \o Positions(n, j)
                            ELSE LayerBlocks(a, m)
<1>1. n \in Nat /\ k \in Nat /\ Len(both) = n + k
      /\ \A i \in 1..(n + k) : both[i] = IF i <= n THEN a[i] ELSE t[i - n]
  BY LenProperties, ConcatProperties
<1>2. \A m : LayerBlocks(both, m) = OnlyIn(Positions(0, n + k), All(m))
             /\ LayerBlocks(a, m) = OnlyIn(Positions(0, n), Of(m))
  <2>1. \A m : LayerBlocks(a, m) = OnlyIn(Positions(0, n), Of(m))
    BY DEF LayerBlocks
  <2>2. \A m : LayerBlocks(both, m) = OnlyIn(Positions(0, Len(both)),
                   {id \in 0..(Len(both) - 1) : both[id + 1].layer = m})
    BY DEF LayerBlocks
  <2>3. Len(both) = n + k
    BY <1>1
  <2>4. \A m : LayerBlocks(both, m) = OnlyIn(Positions(0, n + k),
                   {id \in 0..((n + k) - 1) : both[id + 1].layer = m})
    <3>. HIDE DEF both, n, k
    <3> QED BY <2>2, <2>3
  <2> QED BY <2>1, <2>4
<1>3. \A m : \A id \in 0..(n - 1) : id \in All(m) <=> id \in Of(m)
  <2> SUFFICES ASSUME NEW m, NEW id \in 0..(n - 1) PROVE id \in All(m) <=> id \in Of(m)
    OBVIOUS
  <2>1. id + 1 \in 1..(n + k) /\ id + 1 <= n /\ id \in 0..(n + k - 1)
    BY <1>1
  <2>2. both[id + 1] = a[id + 1]
    BY <1>1, <2>1
  <2> QED BY <2>1, <2>2
<1>4. \A m : \A id \in n..(n + k - 1) : id \in All(m) <=> m = layer
  <2> SUFFICES ASSUME NEW m, NEW id \in n..(n + k - 1) PROVE id \in All(m) <=> m = layer
    OBVIOUS
  <2>1. id + 1 \in 1..(n + k) /\ ~(id + 1 <= n) /\ id \in 0..(n + k - 1) /\ (id + 1) - n \in 1..k
    BY <1>1
  <2>2. both[id + 1] = t[(id + 1) - n]
    BY <1>1, <2>1
  <2>3. t[(id + 1) - n].layer = layer
    BY <2>1
  <2> QED BY <2>1, <2>2, <2>3
<1>. HIDE DEF n, k, both, Of, All
<1>5. \A m : OnlyIn(Positions(0, n), All(m)) = LayerBlocks(a, m)
  <2> SUFFICES ASSUME NEW m PROVE OnlyIn(Positions(0, n), All(m)) = OnlyIn(Positions(0, n), Of(m))
    BY <1>2
  <2>1. \A x : Among(x, Positions(0, n)) => (x \in All(m) <=> x \in Of(m))
    BY <1>1, <1>3, PositionsRise
  <2>2. Positions(0, n) \in Seq(Nat)
    BY <1>1, PositionsAre
  <2> QED BY <2>1, <2>2, OnlyInSame
<1>. DEFINE X(m) == {j \in Nat : j <= k => OnlyIn(Positions(0, n + j), All(m)) =
                        IF m = layer THEN LayerBlocks(a, m) \o Positions(n, j)
                              ELSE LayerBlocks(a, m)}
<1>6. ASSUME NEW m PROVE Nat \subseteq X(m)
  <2>0. LayerBlocks(a, m) \in Seq(Nat)
    BY LayerBlocksAre
  <2>1. 0 \in X(m)
    <3>1. n + 0 = n /\ Positions(n, 0) = <<>>
      <4>1. \A a0 \in Nat : Positions(a0, 0) = <<>>
        BY PositionsGrow
      <4> QED BY <1>1, <4>1
    <3>2. LayerBlocks(a, m) \o <<>> = LayerBlocks(a, m)
      BY <2>0, ConcatEmptySeq
    <3> QED BY <1>5, <3>1, <3>2
  <2>2. ASSUME NEW j \in Nat, j \in X(m) PROVE j + 1 \in X(m)
    <3> SUFFICES ASSUME j + 1 <= k
                 PROVE  OnlyIn(Positions(0, n + (j + 1)), All(m)) = Joined(m, j + 1)
      OBVIOUS
    <3>1. OnlyIn(Positions(0, n + j), All(m)) =
                          IF m = layer THEN LayerBlocks(a, m) \o Positions(n, j)
                                ELSE LayerBlocks(a, m)
      BY <1>1, <2>2
    <3>2. n + j \in Nat /\ n + j \in n..(n + k - 1) /\ n + (j + 1) = (n + j) + 1
          /\ 0 + (n + j) = n + j
      BY <1>1
    <3>3. Positions(0, n + (j + 1)) = Append(Positions(0, n + j), n + j)
      BY <3>2, PositionsGrow
    <3>4. Positions(0, n + j) \in Seq(Nat)
      BY <3>2, PositionsAre
    <3>5. OnlyIn(Positions(0, n + (j + 1)), All(m)) =
             IF m = layer THEN Append(OnlyIn(Positions(0, n + j), All(m)), n + j)
             ELSE OnlyIn(Positions(0, n + j), All(m))
      <4>1. OnlyIn(Append(Positions(0, n + j), n + j), All(m)) =
               IF n + j \in All(m) THEN Append(OnlyIn(Positions(0, n + j), All(m)), n + j)
               ELSE OnlyIn(Positions(0, n + j), All(m))
        <5>1. PICK q \in Seq(Nat), y \in Nat : q = Positions(0, n + j) /\ y = n + j
          BY <3>2, <3>4
        <5>2. OnlyIn(Append(q, y), All(m)) =
                 IF y \in All(m) THEN Append(OnlyIn(q, All(m)), y) ELSE OnlyIn(q, All(m))
          BY OnlyInNext
        <5> QED BY <5>1, <5>2
      <4>2. n + j \in All(m) <=> m = layer
        BY <1>4, <3>2
      <4> QED BY <3>3, <4>1, <4>2
    <3>6. Append(LayerBlocks(a, m) \o Positions(n, j), n + j) = LayerBlocks(a, m) \o
            Positions(n, j + 1)
      <4>1. Positions(n, j + 1) = Append(Positions(n, j), n + j) /\ Positions(n, j) \in Seq(Nat)
        BY <1>1, PositionsGrow, PositionsAre
      <4>2. Append(LayerBlocks(a, m) \o Positions(n, j), n + j) = LayerBlocks(a, m) \o
              Append(Positions(n, j), n + j)
        <5>1. PICK q \in Seq(Nat), y \in Nat, p \in Seq(Nat) :
                 q = Positions(n, j) /\ y = n + j /\ p = LayerBlocks(a, m)
          BY <2>0, <3>2, <4>1
        <5>2. p \o Append(q, y) = Append(p \o q, y)
          BY AppendJoin
        <5> QED BY <5>1, <5>2
      <4> QED BY <4>1, <4>2
    <3> QED BY <3>1, <3>5, <3>6
  <2>. HIDE DEF X
  <2> QED BY <2>1, <2>2, SetInduction
<1>7. ASSUME NEW m PROVE LayerBlocks(both, m) = Joined(m, k)
  <2>1. k \in X(m)
    BY <1>1, <1>6
  <2>2. k <= k
    BY <1>1
  <2> QED BY <1>2, <2>1, <2>2
<1>8. LayerBlocks(both, layer) = LayerBlocks(a, layer) \o Positions(n, k)
  BY <1>7
<1>9. \A m : m # layer => LayerBlocks(both, m) = LayerBlocks(a, m)
  BY <1>7
<1> QED BY <1>8, <1>9 DEF both, n, k

-----------------------------------------------------------------------------
(***************************************************************************)
(* The adapter.                                                            *)
(***************************************************************************)

Keys == Nat \X Nat

\* What the adapter is made of.
IsAdapter(d) ==
  d \in [sim : {d.sim}, store : {d.store}, order : {d.order}, cached : {d.cached}, used : Nat]

\* What every call of the adapter keeps: the tables of its simulator are sound, the order
\* of the store lists the store, the store holds payloads, and the controller caches
\* stored blocks within its DRAM.
AdapterGood(d) ==
  /\ IsAdapter(d)
  /\ IsSimulator(d.sim) /\ Sound(d.sim)
  /\ d.order \in Seq(Keys)
  /\ \A key : Among(key, d.order) <=> key \in DOMAIN d.store
  /\ d.store = [key \in DOMAIN d.store |-> d.store[key]]
  /\ \A key \in DOMAIN d.store : d.store[key] \in Seq(Nat) /\ Len(d.store[key]) # 0
  /\ d.cached \subseteq DOMAIN d.store
  /\ d.used <= DramCapacity

\* A dictionary after an assignment.
LEMMA PutIs ==
  ASSUME NEW f, NEW x, NEW v
  PROVE  /\ DOMAIN Put(f, x, v) = DOMAIN f \cup {x}
         /\ Put(f, x, v)[x] = v
         /\ \A y \in DOMAIN f : y # x => Put(f, x, v)[y] = f[y]
         /\ Put(f, x, v) = [y \in DOMAIN Put(f, x, v) |-> Put(f, x, v)[y]]
BY DEF Put

\* Layers are numbers.
LEMMA LayersAre == \A l \in Layers : l \in Nat
BY PolicyAssumption, FS_CardinalityType

\* The descriptor of a payload is what the simulator expects.
LEMMA DescriptorIs ==
  ASSUME NEW key \in Keys, NEW data \in Seq(Nat), Len(data) # 0
  PROVE  IsDescriptor(Descriptor(key, data)) /\ Descriptor(key, data).gid = Gid(key)
<1>1. key[1] \in Nat /\ key[2] \in Nat /\ Len(data) \in Nat
  BY LenProperties DEF Keys
<1>2. key[2] * Len(data) \in Nat
  <2>1. \A u, v \in Nat : u * v \in Nat
    BY Z3
  <2> QED BY <1>1, <2>1
<1> QED BY <1>1, <1>2 DEF Descriptor, IsDescriptor

\* store_kv keeps all that, and stores the payload.
LEMMA StoreKVKeeps ==
  ASSUME NEW d, AdapterGood(d), ~Exhausted(d.sim), NEW key \in Keys,
         NEW data \in Seq(Nat), Len(data) # 0, NEW e, e = StoreKV(d, key, data)
  PROVE  /\ AdapterGood(e)
         /\ e.sim = StoreBlock(d.sim, Descriptor(key, data))
         /\ e.store = Put(d.store, key, data)
         /\ e.cached = d.cached
         /\ e.used = d.used
<1>. DEFINE sim2   == StoreBlock(d.sim, Descriptor(key, data))
            store2 == Put(d.store, key, data)
            order2 == IF key \in DOMAIN d.store THEN d.order ELSE Append(d.order, key)
<1>1. IsSimulator(sim2) /\ Sound(sim2)
  BY DescriptorIs, StoreKeepsSound DEF AdapterGood
<1>2. e = [d EXCEPT !.sim = sim2, !.store = store2, !.order = order2]
  BY DEF StoreKV
<1>3. order2 \in Seq(Keys) /\ \A k : Among(k, order2) <=> k = key \/ k \in DOMAIN d.store
  <2>1. CASE key \in DOMAIN d.store
    BY <2>1 DEF AdapterGood
  <2>2. CASE key \notin DOMAIN d.store
    <3>1. order2 = Append(d.order, key) /\ d.order \in Seq(Keys)
      BY <2>2 DEF AdapterGood
    <3>2. Append(d.order, key) \in Seq(Keys)
      BY <3>1, AppendProperties
    <3>3. \A k : Among(k, Append(d.order, key)) <=> k = key \/ Among(k, d.order)
      BY <3>1, AmongAppend
    <3> QED BY <3>1, <3>2, <3>3 DEF AdapterGood
  <2> QED BY <2>1, <2>2
<1>4. /\ DOMAIN store2 = DOMAIN d.store \cup {key} /\ store2[key] = data
      /\ \A k \in DOMAIN d.store : k # key => store2[k] = d.store[k]
      /\ store2 = [k \in DOMAIN store2 |-> store2[k]]
  BY DEF Put
<1>. HIDE DEF sim2, store2, order2
<1>5. /\ IsAdapter(e) /\ e.sim = sim2 /\ e.store = store2 /\ e.order = order2
      /\ e.cached = d.cached /\ e.used = d.used
  <2>1. d \in [sim : {d.sim, sim2}, store : {d.store, store2}, order : {d.order, order2},
               cached : {d.cached}, used : Nat]
    BY DEF AdapterGood, IsAdapter
  <2>2. /\ e \in [sim : {d.sim, sim2}, store : {d.store, store2}, order : {d.order, order2},
                  cached : {d.cached}, used : Nat]
        /\ e.sim = sim2 /\ e.store = store2 /\ e.order = order2
        /\ e.cached = d.cached /\ e.used = d.used
    BY <1>2, <2>1
  <2> QED BY <2>2 DEF IsAdapter
<1>6. \A k \in DOMAIN e.store : e.store[k] \in Seq(Nat) /\ Len(e.store[k]) # 0
  BY <1>4, <1>5 DEF AdapterGood
<1>7. AdapterGood(e)
  BY <1>1, <1>3, <1>4, <1>5, <1>6 DEF AdapterGood
<1> QED BY <1>5, <1>7 DEF sim2, store2

\* One block of prefetch_kv.
LEMMA CacheBlockKeeps ==
  ASSUME NEW d, AdapterGood(d), NEW key, NEW e, e = CacheBlock(d, key), DramCapacity \in Nat
  PROVE  /\ AdapterGood(e)
         /\ e.sim = d.sim /\ e.store = d.store /\ e.order = d.order
         /\ \/ e = d
            \/ /\ key \in DOMAIN d.store \ d.cached
               /\ e.cached = d.cached \cup {key}
               /\ e.used = d.used + Len(d.store[key])
<1>1. CASE e = d
  BY <1>1
<1>2. CASE e # d
  <2>1. /\ key \in DOMAIN d.store \ d.cached /\ d.used + Len(d.store[key]) <= DramCapacity
        /\ e = [d EXCEPT !.cached = d.cached \cup {key}, !.used = d.used + Len(d.store[key])]
    BY <1>2 DEF CacheBlock
  <2>2. d.used \in Nat /\ Len(d.store[key]) \in Nat
    BY <2>1, LenProperties DEF AdapterGood, IsAdapter
  <2>3. d.used + Len(d.store[key]) \in Nat
    BY <2>2
  <2>4. d \in [sim : {d.sim}, store : {d.store}, order : {d.order},
               cached : {d.cached, d.cached \cup {key}}, used : Nat]
    BY DEF AdapterGood, IsAdapter
  <2>5. /\ e \in [sim : {d.sim}, store : {d.store}, order : {d.order},
                  cached : {d.cached, d.cached \cup {key}}, used : Nat]
        /\ e.sim = d.sim /\ e.store = d.store /\ e.order = d.order
        /\ e.cached = d.cached \cup {key} /\ e.used = d.used + Len(d.store[key])
    BY <2>1, <2>3, <2>4
  <2>6. IsAdapter(e)
    BY <2>5 DEF IsAdapter
  <2>7. AdapterGood(e)
    BY <2>1, <2>5, <2>6 DEF AdapterGood
  <2> QED BY <2>1, <2>5, <2>7
<1> QED BY <1>1, <1>2

\* One block of set_mode.
LEMMA ReplaceKeeps ==
  ASSUME NEW d, AdapterGood(d), NEW key, key \in DOMAIN d.store, NEW e, e = Replace(d, key)
  PROVE  /\ AdapterGood(e)
         /\ e.store = d.store /\ e.order = d.order /\ e.cached = d.cached /\ e.used = d.used
         /\ IF Exhausted(d.sim) THEN e.sim = d.sim
            ELSE e.sim = StoreBlock(d.sim, Descriptor(key, d.store[key]))
<1>1. CASE Exhausted(d.sim)
  BY <1>1 DEF Replace
<1>2. CASE ~Exhausted(d.sim)
  <2>. DEFINE sim2 == StoreBlock(d.sim, Descriptor(key, d.store[key]))
  <2>1. key \in Keys
    <3>1. PICK i \in 1..Len(d.order) : d.order[i] = key
      BY DEF AdapterGood, Among
    <3> QED BY <3>1, ElementOfSeq DEF AdapterGood
  <2>2. d.store[key] \in Seq(Nat) /\ Len(d.store[key]) # 0
    BY DEF AdapterGood
  <2>3. IsSimulator(sim2) /\ Sound(sim2)
    BY <1>2, <2>1, <2>2, DescriptorIs, StoreKeepsSound DEF AdapterGood
  <2>4. e = [d EXCEPT !.sim = sim2]
    BY <1>2 DEF Replace
  <2>. HIDE DEF sim2
  <2>5. d \in [sim : {d.sim, sim2}, store : {d.store}, order : {d.order},
               cached : {d.cached}, used : Nat]
    BY DEF AdapterGood, IsAdapter
  <2>6. /\ e \in [sim : {d.sim, sim2}, store : {d.store}, order : {d.order},
                  cached : {d.cached}, used : Nat]
        /\ e.sim = sim2 /\ e.store = d.store /\ e.order = d.order
        /\ e.cached = d.cached /\ e.used = d.used
    BY <2>4, <2>5
  <2>7. IsAdapter(e)
    BY <2>6 DEF IsAdapter
  <2>8. AdapterGood(e)
    BY <2>3, <2>6, <2>7 DEF AdapterGood
  <2> QED BY <1>2, <2>6, <2>8 DEF sim2
<1> QED BY <1>1, <1>2

\* evict_kv
LEMMA EvictKVKeeps ==
  ASSUME NEW d, AdapterGood(d), NEW key, key \in DOMAIN d.store, NEW e, e = EvictKV(d, key)
  PROVE  /\ AdapterGood(e)
         /\ e.sim = d.sim
         /\ DOMAIN e.store = DOMAIN d.store \ {key}
         /\ \A k \in DOMAIN d.store \ {key} : e.store[k] = d.store[k]
         /\ e.cached = d.cached \ {key} /\ e.used = d.used
<1>. DEFINE store2 == Drop(d.store, key)
            order2 == OnlyIn(d.order, DOMAIN d.store \ {key})
            cached2 == d.cached \ {key}
<1>1. e = [d EXCEPT !.store = store2, !.order = order2, !.cached = cached2]
  BY DEF EvictKV
<1>2. order2 \in Seq(Keys) /\ \A k : Among(k, order2) <=> k \in DOMAIN d.store \ {key}
  BY OnlyInAmong DEF AdapterGood
<1>3. /\ DOMAIN store2 = DOMAIN d.store \ {key}
      /\ \A k \in DOMAIN d.store \ {key} : store2[k] = d.store[k]
      /\ store2 = [k \in DOMAIN store2 |-> store2[k]]
  BY DEF Drop, Restrict
<1>5. cached2 \subseteq DOMAIN store2
  BY <1>3 DEF AdapterGood
<1>6. cached2 = d.cached \ {key}
  OBVIOUS
<1>. HIDE DEF store2, order2, cached2
<1>7. d \in [sim : {d.sim}, store : {d.store, store2}, order : {d.order, order2},
             cached : {d.cached, cached2}, used : Nat]
  BY DEF AdapterGood, IsAdapter
<1>8. /\ e \in [sim : {d.sim}, store : {d.store, store2}, order : {d.order, order2},
                cached : {d.cached, cached2}, used : Nat]
      /\ e.sim = d.sim /\ e.store = store2 /\ e.order = order2
      /\ e.cached = cached2 /\ e.used = d.used
  BY <1>1, <1>7
<1>9. IsAdapter(e)
  BY <1>8 DEF IsAdapter
<1>10. AdapterGood(e)
  BY <1>2, <1>3, <1>5, <1>8, <1>9 DEF AdapterGood
<1> QED BY <1>3, <1>6, <1>8, <1>10

\* A new simulator in the adapter.
LEMMA NewSimulatorKeeps ==
  ASSUME NEW d, AdapterGood(d), NEW mode \in Modes,
         NEW e, e = [d EXCEPT !.sim = NewSimulator(mode)]
  PROVE  /\ AdapterGood(e)
         /\ e.store = d.store /\ e.order = d.order /\ e.cached = d.cached /\ e.used = d.used
<1>. DEFINE sim2 == NewSimulator(mode)
<1>1. IsSimulator(sim2) /\ Sound(sim2)
  BY NewIsSound
<1>. HIDE DEF sim2
<1>2. d \in [sim : {d.sim, sim2}, store : {d.store}, order : {d.order},
             cached : {d.cached}, used : Nat]
  BY DEF AdapterGood, IsAdapter
<1>3. e = [d EXCEPT !.sim = sim2]
  BY DEF sim2
<1>4. /\ e \in [sim : {d.sim, sim2}, store : {d.store}, order : {d.order},
                cached : {d.cached}, used : Nat]
      /\ e.sim = sim2 /\ e.store = d.store /\ e.order = d.order
      /\ e.cached = d.cached /\ e.used = d.used
  BY <1>2, <1>3
<1>5. IsAdapter(e)
  BY <1>4 DEF IsAdapter
<1>6. AdapterGood(e)
  BY <1>1, <1>4, <1>5 DEF AdapterGood
<1> QED BY <1>4, <1>6

\* set_mode
LEMMA SetModeKeeps ==
  ASSUME NEW d, AdapterGood(d), NEW mode \in Modes, NEW e, e = SetMode(d, mode)
  PROVE  /\ AdapterGood(e)
         /\ e.store = d.store /\ e.cached = d.cached /\ e.used = d.used
<1>1. PICK base : base = [d EXCEPT !.sim = NewSimulator(mode)]
  OBVIOUS
<1>2. /\ AdapterGood(base)
      /\ base.store = d.store /\ base.order = d.order
      /\ base.cached = d.cached /\ base.used = d.used
  BY <1>1, NewSimulatorKeeps
<1>3. PICK seq \in Seq(Keys) : seq = d.order
  BY DEF AdapterGood
<1>4. PICK f : Turns(f, "replace", 0, base, seq) /\ FoldLeft(Replace, base, seq) = f[Len(seq)]
  BY ReplaceTurns
<1>5. e = f[Len(seq)]
  BY <1>1, <1>3, <1>4 DEF SetMode
<1>. DEFINE X == {i \in Nat : i <= Len(seq) =>
                    /\ AdapterGood(f[i])
                    /\ f[i].store = d.store /\ f[i].cached = d.cached /\ f[i].used = d.used}
<1>6. 0 \in X
  BY <1>2, <1>4 DEF Turns
<1>7. ASSUME NEW i \in Nat, i \in X PROVE i + 1 \in X
  <2> SUFFICES ASSUME i + 1 <= Len(seq)
               PROVE  /\ AdapterGood(f[i + 1])
                      /\ f[i + 1].store = d.store /\ f[i + 1].cached = d.cached
                      /\ f[i + 1].used = d.used
    OBVIOUS
  <2>1. i + 1 \in 1..Len(seq) /\ (i + 1) - 1 = i /\ i <= Len(seq)
    BY LenProperties
  <2>2. /\ AdapterGood(f[i])
        /\ f[i].store = d.store /\ f[i].cached = d.cached /\ f[i].used = d.used
    BY <1>7, <2>1
  <2>3. f[i + 1] = Replace(f[i], seq[i + 1])
    <3>1. f[i + 1] = Turned("replace", 0, f[(i + 1) - 1], seq[i + 1])
      BY <1>4, <2>1 DEF Turns
    <3> QED BY <2>1, <3>1 DEF Turned
  <2>4. seq[i + 1] \in DOMAIN f[i].store
    <3>1. Among(seq[i + 1], d.order)
      BY <1>3, <2>1 DEF Among
    <3> QED BY <2>2, <3>1 DEF AdapterGood
  <2>. HIDE DEF X
  <2> QED BY <2>2, <2>3, <2>4, ReplaceKeeps
<1>8. Nat \subseteq X
  <2>. HIDE DEF X
  <2> QED BY <1>6, <1>7, SetInduction
<1>9. Len(seq) \in Nat /\ Len(seq) <= Len(seq)
  BY LenProperties
<1> QED BY <1>5, <1>8, <1>9

\* prefetch_kv
LEMMA PrefetchKVKeeps ==
  ASSUME NEW d, AdapterGood(d), DramCapacity \in Nat, NEW layer, NEW S, NEW ids \in Seq(S),
         NEW e, e = PrefetchKV(d, layer, ids)
  PROVE  AdapterGood(e) /\ e.store = d.store /\ e.sim = d.sim
<1>1. PICK f : Turns(f, "cache", layer, d, ids) /\ PrefetchKV(d, layer, ids) = f[Len(ids)]
  BY CacheTurns
<1>. DEFINE X == {i \in Nat : i <= Len(ids) =>
                    AdapterGood(f[i]) /\ f[i].store = d.store /\ f[i].sim = d.sim}
<1>2. 0 \in X
  BY <1>1 DEF Turns
<1>3. ASSUME NEW i \in Nat, i \in X PROVE i + 1 \in X
  <2> SUFFICES ASSUME i + 1 <= Len(ids)
               PROVE  AdapterGood(f[i + 1]) /\ f[i + 1].store = d.store /\ f[i + 1].sim = d.sim
    OBVIOUS
  <2>1. i + 1 \in 1..Len(ids) /\ (i + 1) - 1 = i /\ i <= Len(ids)
    BY LenProperties
  <2>2. AdapterGood(f[i]) /\ f[i].store = d.store /\ f[i].sim = d.sim
    BY <1>3, <2>1
  <2>3. f[i + 1] = CacheBlock(f[i], <<layer, ids[i + 1]>>)
    <3>1. f[i + 1] = Turned("cache", layer, f[(i + 1) - 1], ids[i + 1])
      BY <1>1, <2>1 DEF Turns
    <3> QED BY <2>1, <3>1 DEF Turned
  <2>. HIDE DEF X
  <2> QED BY <2>2, <2>3, CacheBlockKeeps
<1>4. Nat \subseteq X
  <2>. HIDE DEF X
  <2> QED BY <1>2, <1>3, SetInduction
<1>5. Len(ids) \in Nat /\ Len(ids) <= Len(ids)
  BY LenProperties
<1> QED BY <1>1, <1>4, <1>5

\* predict_next_layer_blocks gives a list of ids.
LEMMA PredictedIs ==
  ASSUME NEW S, NEW ids \in Seq(S)
  PROVE  Predicted(ids) \in Seq(S)
<1>1. PICK base \in Seq(S) : base = <<>>
  BY EmptySeq
<1>2. PICK f : Turns(f, "predict", 0, base, ids) /\ Predicted(ids) = f[Len(ids)]
  BY <1>1, PredictTurns
<1>. DEFINE X == {i \in Nat : i <= Len(ids) => f[i] \in Seq(S)}
<1>3. 0 \in X
  BY <1>2 DEF Turns
<1>4. ASSUME NEW i \in Nat, i \in X PROVE i + 1 \in X
  <2> SUFFICES ASSUME i + 1 <= Len(ids) PROVE f[i + 1] \in Seq(S)
    OBVIOUS
  <2>1. i + 1 \in 1..Len(ids) /\ (i + 1) - 1 = i /\ i <= Len(ids) /\ ids[i + 1] \in S
    BY LenProperties, ElementOfSeq
  <2>2. f[i] \in Seq(S)
    BY <1>4, <2>1
  <2>3. f[i + 1] = IF Contains(f[i], ids[i + 1]) THEN f[i] ELSE Append(f[i], ids[i + 1])
    <3>1. f[i + 1] = Turned("predict", 0, f[(i + 1) - 1], ids[i + 1])
      BY <1>2, <2>1 DEF Turns
    <3> QED BY <2>1, <3>1 DEF Turned
  <2> QED BY <2>1, <2>2, <2>3, AppendProperties
<1>5. Nat \subseteq X
  <2>. HIDE DEF X
  <2> QED BY <1>3, <1>4, SetInduction
<1>6. Len(ids) \in Nat /\ Len(ids) <= Len(ids)
  BY LenProperties
<1> QED BY <1>2, <1>5, <1>6

\* The pipeline of run_simulation reaches the adapter through prefetch_kv only.
LEMMA SimulationKeeps ==
  ASSUME NEW d, AdapterGood(d), DramCapacity \in Nat, NEW S, NEW layers \in Seq(S),
         NEW T, NEW ids \in Seq(T), NEW base, base.dev = d,
         NEW e, e = SimulateLayers(base, layers, ids)
  PROVE  AdapterGood(e.dev) /\ e.dev.store = d.store /\ e.dev.sim = d.sim
<1>1. PICK f : /\ Turns(f, "simulate", ids, base, layers)
               /\ SimulateLayers(base, layers, ids) = f[Len(layers)]
  BY SimulateTurns
<1>. DEFINE X == {i \in Nat : i <= Len(layers) =>
                    AdapterGood(f[i].dev) /\ f[i].dev.store = d.store /\ f[i].dev.sim = d.sim}
<1>2. 0 \in X
  BY <1>1 DEF Turns
<1>3. ASSUME NEW i \in Nat, i \in X PROVE i + 1 \in X
  <2> SUFFICES ASSUME i + 1 <= Len(layers)
               PROVE  /\ AdapterGood(f[i + 1].dev)
                      /\ f[i + 1].dev.store = d.store /\ f[i + 1].dev.sim = d.sim
    OBVIOUS
  <2>1. i + 1 \in 1..Len(layers) /\ (i + 1) - 1 = i /\ i <= Len(layers)
    BY LenProperties
  <2>2. AdapterGood(f[i].dev) /\ f[i].dev.store = d.store /\ f[i].dev.sim = d.sim
    BY <1>3, <2>1
  <2>3. f[i + 1] = SimulateLayer(f[i], layers[i + 1], ids)
    <3>1. f[i + 1] = Turned("simulate", ids, f[(i + 1) - 1], layers[i + 1])
      BY <1>1, <2>1 DEF Turns
    <3> QED BY <2>1, <3>1 DEF Turned
  <2>4. f[i + 1].dev = PrefetchKV(f[i].dev, PredictedLayer(layers[i + 1]), Predicted(ids))
    BY <2>3 DEF SimulateLayer
  <2>5. Predicted(ids) \in Seq(T)
    BY PredictedIs
  <2>. HIDE DEF X
  <2> QED BY <2>2, <2>4, <2>5, PrefetchKVKeeps
<1>4. Nat \subseteq X
  <2>. HIDE DEF X
  <2> QED BY <1>2, <1>3, SetInduction
<1>5. Len(layers) \in Nat /\ Len(layers) <= Len(layers)
  BY LenProperties
<1> QED BY <1>1, <1>4, <1>5

-----------------------------------------------------------------------------
(***************************************************************************)
(* The pool.                                                               *)
(***************************************************************************)

\* The block has left the sinks and the window of a layer of n tokens.
Past(b, n) == b.start >= SinkTokens /\ b.start + b.count + WindowTokens <= n

\* The blocks of a layer, in their order, cut n tokens into full blocks and a last one.
Tiles(blocks, ids, n) ==
  /\ ids = <<>> => n = 0
  /\ \A i \in 1..Len(ids) :
       /\ blocks[ids[i] + 1].start =
            IF i = 1 THEN 0 ELSE blocks[ids[i - 1] + 1].start + TokensPerBlock
       /\ i < Len(ids) => blocks[ids[i] + 1].count = TokensPerBlock
       /\ i = Len(ids) => blocks[ids[i] + 1].start + blocks[ids[i] + 1].count = n

\* Where the tokens of a block are, and that it left RAM only when it was past.
Kept(b, key, n, store, gone) ==
  /\ b.ram => b.data = Positions(b.start, b.count)
  /\ ~b.ram => b.data = <<>> /\ Past(b, n) /\ key \in DOMAIN store \cup gone
  /\ key \in DOMAIN store => Past(b, n) /\ store[key] = Positions(b.start, b.count)

\* The key of the i-th block of the pool.
KeyAt(blocks, i) == <<blocks[i].layer, i - 1>>

\* The inductive invariant of the pool.
PoolGood(blocks, len, store, gone) ==
  /\ blocks \in Seq(Block)
  /\ len \in [Layers -> Nat]
  /\ \A l \in Layers : Tiles(blocks, LayerBlocks(blocks, l), len[l])
  /\ \A i \in 1..Len(blocks) :
       Kept(blocks[i], KeyAt(blocks, i), len[blocks[i].layer], store, gone)
  /\ \A key \in DOMAIN store : \E i \in 1..Len(blocks) : key = KeyAt(blocks, i)

IInv == PoolGood(pool, length, dev.store, erased) /\ AdapterGood(dev)

\* Pools that differ only in what is in RAM.
Alike(a, b) ==
  /\ Len(a) = Len(b)
  /\ \A i \in 1..Len(a) : a[i].layer = b[i].layer /\ a[i].start = b[i].start
        /\ a[i].count = b[i].count

\* b differs from a in the k-th block at most.
SameBut(a, b, k) == \A i \in 1..Len(a) : i # k => b[i] = a[i]

\* What stores do to the adapter, as the host sees it: no stored block is changed.
StoresMore(d, e) ==
  /\ DOMAIN d.store \subseteq DOMAIN e.store
  /\ \A key \in DOMAIN d.store : e.store[key] = d.store[key]
  /\ e.cached = d.cached /\ e.used = d.used

\* A block of the pool that is changed, but not its place in the layer.
LEMMA BlockChanged ==
  ASSUME NEW blocks \in Seq(Block), NEW k \in 1..Len(blocks), NEW c \in Block,
         c.layer = blocks[k].layer, c.start = blocks[k].start, c.count = blocks[k].count
  PROVE  /\ [blocks EXCEPT ![k] = c] \in Seq(Block)
         /\ Alike(blocks, [blocks EXCEPT ![k] = c])
         /\ [blocks EXCEPT ![k] = c][k] = c
         /\ \A i \in 1..Len(blocks) : i # k => [blocks EXCEPT ![k] = c][i] = blocks[i]
<1>1. PICK n2 : n2 = [blocks EXCEPT ![k] = c]
  OBVIOUS
<1>2. /\ n2 \in Seq(Block) /\ Len(n2) = Len(blocks)
      /\ \A i \in 1..Len(blocks) : n2[i] = IF i = k THEN c ELSE blocks[i]
  BY <1>1, ExceptSeq
<1>3. ASSUME NEW i \in 1..Len(blocks)
      PROVE  /\ blocks[i].layer = n2[i].layer /\ blocks[i].start = n2[i].start
             /\ blocks[i].count = n2[i].count
  BY <1>2
<1>4. Alike(blocks, n2)
  BY <1>2, <1>3 DEF Alike
<1> QED BY <1>1, <1>2, <1>4

\* How the tokens are cut into blocks does not depend on what is in RAM.
LEMMA TilesSame ==
  ASSUME NEW S, NEW a \in Seq(S), NEW b \in Seq(S), Alike(a, b), NEW l, NEW n,
         Tiles(a, LayerBlocks(a, l), n)
  PROVE  LayerBlocks(b, l) = LayerBlocks(a, l) /\ Tiles(b, LayerBlocks(b, l), n)
<1>1. Len(a) = Len(b) /\ Len(a) \in Nat
  BY LenProperties DEF Alike
<1>2. LayerBlocks(b, l) = LayerBlocks(a, l)
  <2>1. ASSUME NEW id \in 0..(Len(a) - 1) PROVE a[id + 1].layer = b[id + 1].layer
    <3>1. id + 1 \in 1..Len(a)
      BY <1>1
    <3> QED BY <3>1 DEF Alike
  <2> QED BY <1>1, <2>1, LayerBlocksSame
<1>3. PICK ids \in Seq(Nat) : ids = LayerBlocks(a, l)
  BY LayerBlocksAre
<1>4. \A i \in 1..Len(ids) : ids[i] + 1 \in 1..Len(a)
  <2>1. ASSUME NEW i \in 1..Len(ids) PROVE ids[i] + 1 \in 1..Len(a)
    <3>1. Among(ids[i], ids)
      BY DEF Among
    <3>2. ids[i] \in 0..(Len(a) - 1)
      BY <1>3, <3>1, LayerBlocksAre
    <3> QED BY <1>1, <3>2
  <2> QED BY <2>1
<1>5. \A i \in 1..Len(ids) : /\ a[ids[i] + 1].start = b[ids[i] + 1].start
                             /\ a[ids[i] + 1].count = b[ids[i] + 1].count
  BY <1>4 DEF Alike
<1>6. ASSUME NEW i \in 1..Len(ids)
      PROVE  /\ b[ids[i] + 1].start =
                  IF i = 1 THEN 0 ELSE b[ids[i - 1] + 1].start + TokensPerBlock
             /\ i < Len(ids) => b[ids[i] + 1].count = TokensPerBlock
             /\ i = Len(ids) => b[ids[i] + 1].start + b[ids[i] + 1].count = n
  <2>1. /\ a[ids[i] + 1].start =
             IF i = 1 THEN 0 ELSE a[ids[i - 1] + 1].start + TokensPerBlock
        /\ i < Len(ids) => a[ids[i] + 1].count = TokensPerBlock
        /\ i = Len(ids) => a[ids[i] + 1].start + a[ids[i] + 1].count = n
    BY <1>3 DEF Tiles
  <2>2. Len(ids) \in Nat
    BY LenProperties
  <2>3. i # 1 => i - 1 \in 1..Len(ids)
    BY <2>2
  <2> QED BY <1>5, <2>1, <2>3
<1>7. Tiles(b, ids, n)
  <2>1. ids = <<>> => n = 0
    BY <1>3 DEF Tiles
  <2> QED BY <1>6, <2>1 DEF Tiles
<1> QED BY <1>2, <1>3, <1>7

\* One block goes to the SSD.
LEMMA OffloadBlockKeeps ==
  ASSUME NEW st, NEW len, NEW gone,
         PoolGood(st.pool, len, st.dev.store, gone), AdapterGood(st.dev),
         NEW id \in Nat, id < Len(st.pool), st.pool[id + 1].ram,
         Past(st.pool[id + 1], len[st.pool[id + 1].layer]),
         NEW e, e = OffloadBlock(st, id)
  PROVE  /\ PoolGood(e.pool, len, e.dev.store, gone)
         /\ AdapterGood(e.dev)
         /\ Alike(st.pool, e.pool)
         /\ SameBut(st.pool, e.pool, id + 1)
         /\ StoresMore(st.dev, e.dev)
<1>1. CASE Exhausted(st.dev.sim)
  BY <1>1 DEF OffloadBlock, Alike, StoresMore, SameBut
<1>2. CASE ~Exhausted(st.dev.sim)
  <2>1. PICK blocks \in Seq(Block) : blocks = st.pool
    BY DEF PoolGood
  <2>2. PICK d : d = st.dev
    OBVIOUS
  <2>. DEFINE k == id + 1
  <2>3. k \in 1..Len(blocks) /\ Len(blocks) \in Nat
    BY <2>1, LenProperties
  <2>4. PICK b \in Block : b = blocks[k]
    BY <2>3, ElementOfSeq
  <2>5. PICK key \in Keys : key = <<b.layer, id>>
    <3>1. b.layer \in Nat
      BY <2>4, LayersAre DEF Block
    <3> QED BY <3>1 DEF Keys
  <2>6. KeyAt(blocks, k) = key
    BY <2>4, <2>5 DEF KeyAt
  <2>7. /\ blocks \in Seq(Block) /\ len \in [Layers -> Nat]
        /\ \A l \in Layers : Tiles(blocks, LayerBlocks(blocks, l), len[l])
        /\ \A i \in 1..Len(blocks) :
             Kept(blocks[i], KeyAt(blocks, i), len[blocks[i].layer], d.store, gone)
        /\ \A x \in DOMAIN d.store : \E i \in 1..Len(blocks) : x = KeyAt(blocks, i)
    BY <2>1, <2>2 DEF PoolGood
  <2>8. b.ram /\ Past(b, len[b.layer]) /\ b.data = Positions(b.start, b.count)
    <3>1. b.ram /\ Past(b, len[b.layer])
      BY <2>1, <2>4
    <3>2. Kept(b, key, len[b.layer], d.store, gone)
      BY <2>3, <2>4, <2>6, <2>7
    <3> QED BY <3>1, <3>2 DEF Kept
  <2>9. b.data \in Seq(Nat) /\ Len(b.data) # 0
    <3>1. b.start \in Nat /\ b.count \in 1..TokensPerBlock /\ b.data \in Seq(Nat)
      BY <2>4 DEF Block
    <3>2. b.count \in Nat /\ b.count # 0
      BY <3>1
    <3>3. Len(Positions(b.start, b.count)) = b.count
      BY <3>1, <3>2, PositionsAre
    <3> QED BY <2>8, <3>1, <3>2, <3>3
  <2>10. /\ e.pool = [blocks EXCEPT ![k].ram = FALSE, ![k].data = <<>>]
         /\ e.dev = StoreKV(d, key, b.data)
    <3>1. e = [pool |-> [st.pool EXCEPT ![id + 1].ram = FALSE, ![id + 1].data = <<>>],
               dev  |-> StoreKV(st.dev, <<st.pool[id + 1].layer, id>>, st.pool[id + 1].data)]
      BY <1>2, Zenon DEF OffloadBlock
    <3>2. e.pool = [st.pool EXCEPT ![id + 1].ram = FALSE, ![id + 1].data = <<>>]
          /\ e.dev = StoreKV(st.dev, <<st.pool[id + 1].layer, id>>, st.pool[id + 1].data)
      BY <3>1
    <3> QED BY <2>1, <2>2, <2>4, <2>5, <3>2
  <2>11. PICK new, e2 : new = e.pool /\ e2 = e.dev
    OBVIOUS
  <2>12. /\ new \in Seq(Block) /\ Alike(blocks, new)
         /\ new[k].ram = FALSE /\ new[k].data = <<>>
         /\ \A i \in 1..Len(blocks) : i # k => new[i] = blocks[i]
    <3>1. PICK v \in BOOLEAN, none \in Seq(Nat) : v = FALSE /\ none = <<>>
      BY EmptySeq
    <3>7. PICK c : c = [[b EXCEPT !.ram = v] EXCEPT !.data = none]
      OBVIOUS
    <3>2. /\ c \in Block /\ c.ram = v /\ c.data = none
          /\ c.layer = b.layer /\ c.start = b.start /\ c.count = b.count
      BY <3>7 DEF Block
    <3>3. new = [blocks EXCEPT ![k] = c]
      BY <2>3, <2>4, <2>10, <2>11, <3>1, <3>7
    <3>. HIDE DEF k
    <3>5. c.layer = blocks[k].layer /\ c.start = blocks[k].start /\ c.count = blocks[k].count
      BY <2>4, <3>2
    <3>4. /\ new \in Seq(Block) /\ Alike(blocks, new) /\ new[k] = c
          /\ \A i \in 1..Len(blocks) : i # k => new[i] = blocks[i]
      <4>1. k \in 1..Len(blocks) /\ c \in Block
        BY <2>3, <3>2
      <4>2. [blocks EXCEPT ![k] = c] \in Seq(Block)
        BY <3>5, <4>1, BlockChanged
      <4>3. Alike(blocks, [blocks EXCEPT ![k] = c])
        BY <3>5, <4>1, BlockChanged
      <4>4. [blocks EXCEPT ![k] = c][k] = c
        BY <3>5, <4>1, BlockChanged
      <4>5. \A i \in 1..Len(blocks) : i # k => [blocks EXCEPT ![k] = c][i] = blocks[i]
        BY <3>5, <4>1, BlockChanged
      <4> QED BY <3>3, <4>2, <4>3, <4>4, <4>5
    <3> QED BY <3>1, <3>2, <3>4
  <2>13. /\ AdapterGood(e2) /\ e2.store = Put(d.store, key, b.data)
         /\ e2.cached = d.cached /\ e2.used = d.used
    BY <1>2, <2>2, <2>9, <2>10, <2>11, StoreKVKeeps
  <2>14. /\ DOMAIN e2.store = DOMAIN d.store \cup {key} /\ e2.store[key] = b.data
         /\ \A y \in DOMAIN d.store : y # key => e2.store[y] = d.store[y]
    <3>1. PICK s2 : s2 = Put(d.store, key, b.data)
      OBVIOUS
    <3>2. /\ DOMAIN s2 = DOMAIN d.store \cup {key} /\ s2[key] = b.data
          /\ \A y \in DOMAIN d.store : y # key => s2[y] = d.store[y]
      BY <3>1 DEF Put
    <3> QED BY <2>13, <3>1, <3>2
  <2>. HIDE DEF k
  <2>15. \A l \in Layers : Tiles(new, LayerBlocks(new, l), len[l])
    BY <2>7, <2>12, TilesSame
  <2>16. \A i \in 1..Len(blocks) : KeyAt(new, i) = KeyAt(blocks, i)
        /\ new[i].layer = blocks[i].layer
    BY <2>12 DEF Alike, KeyAt
  <2>17. Len(new) = Len(blocks) /\ new[k].layer = b.layer /\ new[k].start = b.start
         /\ new[k].count = b.count
    BY <2>3, <2>4, <2>12 DEF Alike
  <2>18. ASSUME NEW i \in 1..Len(blocks)
         PROVE  Kept(new[i], KeyAt(new, i), len[new[i].layer], e2.store, gone)
    <3>1. CASE i = k
      <4>1. KeyAt(new, i) = key /\ len[new[i].layer] = len[b.layer]
        BY <2>6, <2>16, <2>17, <3>1
      <4>2. Past(new[k], len[b.layer])
        BY <2>8, <2>17 DEF Past
      <4> QED BY <2>8, <2>12, <2>14, <2>17, <3>1, <4>1, <4>2 DEF Kept
    <3>2. CASE i # k
      <4>1. new[i] = blocks[i] /\ KeyAt(new, i) = KeyAt(blocks, i)
        BY <2>12, <2>16, <3>2
      <4>2. KeyAt(blocks, i) # key
        BY <2>3, <2>6, <3>2 DEF KeyAt
      <4>3. Kept(blocks[i], KeyAt(blocks, i), len[blocks[i].layer], d.store, gone)
        BY <2>7
      <4> QED BY <2>14, <4>1, <4>2, <4>3 DEF Kept
    <3> QED BY <3>1, <3>2
  <2>19. \A x \in DOMAIN e2.store : \E i \in 1..Len(new) : x = KeyAt(new, i)
    BY <2>3, <2>6, <2>7, <2>14, <2>16, <2>17
  <2>20. PoolGood(new, len, e2.store, gone)
    BY <2>7, <2>12, <2>15, <2>17, <2>18, <2>19 DEF PoolGood
  <2>21. StoresMore(d, e2)
    <3>1. key \in DOMAIN d.store => d.store[key] = b.data
      <4>1. Kept(b, key, len[b.layer], d.store, gone)
        BY <2>3, <2>4, <2>6, <2>7
      <4> QED BY <2>8, <4>1 DEF Kept
    <3> QED BY <2>13, <2>14, <3>1 DEF StoresMore
  <2> QED BY <2>1, <2>2, <2>11, <2>12, <2>13, <2>20, <2>21 DEF k, SameBut
<1> QED BY <1>1, <1>2

-----------------------------------------------------------------------------
(***************************************************************************)
(* The pages of the store.                                                 *)
(***************************************************************************)

\* The channel the striped layer gives a block of the first head.
ChannelOf(id) == (id + (id \div Channels)) % Channels

\* A mapped page lies on the device and, in the striped layer, on the channel of a block
\* with that global id whose number is below n.
LaidAt(sim, n, g) ==
  /\ sim.map[g] \in Location
  /\ \E key \in Keys : /\ key[2] < n /\ Gid(key) = g
                       /\ sim.mode = "tensor_aware" => sim.map[g].ch = ChannelOf(key[2])

Laid(sim, n) == \A g \in DOMAIN sim.map : LaidAt(sim, n, g)

\* Every payload has a page in the simulator, unless that is full.
HasPages(d) == Exhausted(d.sim) \/ \A key \in DOMAIN d.store : Gid(key) \in DOMAIN d.sim.map

\* The numbers of stored blocks are below n.
Below(d, n) == \A key \in DOMAIN d.store : key \in Keys /\ key[2] < n

Costs(d, n) == Laid(d.sim, n) /\ HasPages(d) /\ Below(d, n)

\* Where TensorAwareFTL.allocate puts the block of a descriptor.
LEMMA StripeIs ==
  ASSUME NEW sim, IsSimulator(sim), NEW key \in Keys, NEW data \in Seq(Nat), Len(data) # 0,
         NEW loc, loc = StripedLocation(sim, Descriptor(key, data))
  PROVE  loc \in Location /\ loc.ch = ChannelOf(key[2])
<1>1. PICK b : b = Descriptor(key, data)
  OBVIOUS
<1>2. /\ IsDescriptor(b) /\ b.head = 0 /\ b.layer = key[1] /\ b.count = Len(data)
      /\ b.start = key[2] * Len(data)
  <2>1. IsDescriptor(b)
    BY <1>1, DescriptorIs
  <2> QED BY <1>1, <2>1 DEF Descriptor
<1>3. PICK id \in Nat, c \in Nat \ {0} : id = key[2] /\ c = Len(data)
  BY LenProperties DEF Keys
<1>4. (id * c) \div c = id
  <2>1. \A u, v \in Nat : v # 0 => (u * v) \div v = u
    <3> SUFFICES ASSUME NEW u \in Nat, NEW v \in Nat \ {0} PROVE (u * v) \div v = u
      OBVIOUS
    <3>1. u * v \in Nat
      BY Z3
    <3>2. PICK q \in Nat : q = (u * v) \div v
      BY <3>1, Divided
    <3>3. PICK r \in 0..(v - 1) : r = (u * v) % v
      BY <3>1, Divided
    <3>4. u * v = v * q + r
      BY <3>1, <3>2, <3>3, Divided
    <3>5. v * (u - q) = r
      BY <3>4, Z3
    <3>6. u - q <= 0
      <4> SUFFICES ASSUME u - q >= 1 PROVE FALSE
        OBVIOUS
      <4>1. v * (u - q) >= v * 1
        BY Z3
      <4> QED BY <3>5, <4>1
    <3>7. u - q >= 0
      <4> SUFFICES ASSUME u - q <= -1 PROVE FALSE
        OBVIOUS
      <4>1. v * (u - q) <= v * (-1)
        BY Z3
      <4> QED BY <3>5, <4>1
    <3> QED BY <3>2, <3>6, <3>7
  <2> QED BY <2>1
<1>5. b.start \div b.count = id
  BY <1>2, <1>3, <1>4
<1>6. PICK k \in Nat : k = id \div Channels
  BY Divided, GeometryAssumption
<1>7. PICK n : n = sim.perChannel[(b.head + (b.start \div b.count)
                                    + ((b.start \div b.count) \div Channels)) % Channels]
  OBVIOUS
<1>8. ChannelOf(id) \in 0..(Channels - 1)
  <2>1. id + k \in Nat
    OBVIOUS
  <2> QED BY <1>6, <2>1, Divided, GeometryAssumption DEF ChannelOf
<1>9. b.head + (b.start \div b.count) + ((b.start \div b.count) \div Channels) = id + k
  <2>1. b.head + (b.start \div b.count) + ((b.start \div b.count) \div Channels) = 0 + id + k
    BY <1>2, <1>5, <1>6
  <2> QED BY <2>1
<1>10. n \in Nat
  BY <1>6, <1>7, <1>8, <1>9 DEF IsSimulator, ChannelOf
<1>11. /\ loc.ch = ChannelOf(id) /\ loc.pg = n % Pages /\ loc.blk = (n \div Pages) % Blocks
       /\ loc.die = (b.layer + b.head \div Channels + id \div Channels) % Dies
       /\ loc.pl = (id \div (Channels * Dies)) % Planes
       /\ loc = [ch |-> loc.ch, pg |-> loc.pg, blk |-> loc.blk, die |-> loc.die, pl |-> loc.pl]
  <2>1. loc = [ch |-> ChannelOf(id), pg |-> n % Pages, blk |-> (n \div Pages) % Blocks,
               die |-> (b.layer + b.head \div Channels + id \div Channels) % Dies,
               pl  |-> (id \div (Channels * Dies)) % Planes]
    <3>1. PICK w : w = (b.head + (b.start \div b.count)
                          + ((b.start \div b.count) \div Channels)) % Channels
      OBVIOUS
    <3>2. w = ChannelOf(id)
      BY <1>6, <1>9, <3>1 DEF ChannelOf
    <3>3. loc = [ch |-> w, pg |-> n % Pages, blk |-> (n \div Pages) % Blocks,
                 die |-> (b.layer + b.head \div Channels + (b.start \div b.count) \div Channels)
                            % Dies,
                 pl  |-> ((b.start \div b.count) \div (Channels * Dies)) % Planes]
      BY <1>1, <1>7, <3>1, Zenon DEF StripedLocation
    <3> QED BY <1>5, <3>2, <3>3
  <2> QED BY <2>1
<1>12. loc.pg \in 0..(Pages - 1)
  BY <1>10, <1>11, Divided, GeometryAssumption
<1>13. loc.blk \in 0..(Blocks - 1)
  <2>1. n \div Pages \in Nat
    BY <1>10, Divided, GeometryAssumption
  <2> QED BY <1>11, <2>1, Divided, GeometryAssumption
<1>14. loc.die \in 0..(Dies - 1)
  <2>1. b.layer \in Nat /\ b.head \div Channels \in Nat /\ id \div Channels \in Nat
    <3>1. b.layer \in Nat /\ b.head \in Nat
      BY <1>2 DEF IsDescriptor
    <3> QED BY <1>6, <3>1, Divided, GeometryAssumption
  <2>2. b.layer + b.head \div Channels + id \div Channels \in Nat
    BY <2>1
  <2> QED BY <1>11, <2>2, Divided, GeometryAssumption
<1>15. loc.pl \in 0..(Planes - 1)
  <2>1. Channels * Dies \in Nat \ {0}
    <3>1. \A u, v \in Nat \ {0} : u * v \in Nat \ {0}
      BY Z3
    <3> QED BY <3>1, GeometryAssumption
  <2>2. id \div (Channels * Dies) \in Nat
    BY <2>1, Divided
  <2> QED BY <1>11, <2>2, Divided, GeometryAssumption
<1>16. loc \in Location
  BY <1>8, <1>11, <1>12, <1>13, <1>14, <1>15 DEF Location
<1> QED BY <1>3, <1>11, <1>16

\* The forward table after store_block.
LEMMA StoredMap ==
  ASSUME NEW sim, NEW b, IsSimulator(sim), IsDescriptor(b),
         NEW loc, loc = Allocated(sim, b), NEW after, after = StoreBlock(sim, b)
  PROVE  after.mode = sim.mode /\ after.map = Put(sim.map, b.gid, loc)
<1>1. /\ IsSimulator(after)
      /\ after.mode = sim.mode
      /\ after.map = Put(sim.map, b.gid, loc)
      /\ after.rev = Put(IF b.gid \in DOMAIN sim.map THEN Drop(sim.rev, sim.map[b.gid])
                         ELSE sim.rev, loc, b.gid)
      /\ after.page = IF loc \in DOMAIN sim.page THEN sim.page ELSE Put(sim.page, loc, b.gid)
      /\ after.linear = IF sim.mode = "conventional" THEN sim.linear + 1 ELSE sim.linear
      /\ after.perChannel = IF sim.mode = "conventional" THEN sim.perChannel
                            ELSE [sim.perChannel EXCEPT ![loc.ch] = @ + 1]
  BY Stored
<1> QED BY <1>1

\* store_block gives the block a page on the device.
LEMMA StoreLays ==
  ASSUME NEW sim, IsSimulator(sim), ~Exhausted(sim), NEW n \in Nat, Laid(sim, n),
         NEW key \in Keys, key[2] < n, NEW data \in Seq(Nat), Len(data) # 0,
         NEW after, after = StoreBlock(sim, Descriptor(key, data))
  PROVE  /\ Laid(after, n)
         /\ DOMAIN after.map = DOMAIN sim.map \cup {Gid(key)}
<1>1. PICK b : b = Descriptor(key, data) /\ IsDescriptor(b) /\ b.gid = Gid(key)
  BY DescriptorIs
<1>2. PICK loc : loc = Allocated(sim, b)
  OBVIOUS
<1>3. after.mode = sim.mode /\ after.map = Put(sim.map, b.gid, loc)
  <2>1. after = StoreBlock(sim, b)
    BY <1>1
  <2>2. after.mode = sim.mode
    BY <1>1, <1>2, <2>1, StoredMap
  <2>3. after.map = Put(sim.map, b.gid, loc)
    BY <1>1, <1>2, <2>1, StoredMap
  <2> QED BY <2>2, <2>3
<1>4. /\ DOMAIN after.map = DOMAIN sim.map \cup {Gid(key)} /\ after.map[Gid(key)] = loc
      /\ \A g \in DOMAIN sim.map : g # Gid(key) => after.map[g] = sim.map[g]
  BY <1>1, <1>3 DEF Put
<1>5. loc \in Location /\ (sim.mode = "tensor_aware" => loc.ch = ChannelOf(key[2]))
  <2>1. CASE sim.mode = "conventional"
    <3>1. sim.linear \in Nat /\ sim.linear < TotalPages
      <4>1. TotalPages \in Nat
        <5>1. \A u, v \in Nat : u * v \in Nat
          BY Z3
        <5> QED BY <5>1, GeometryAssumption DEF TotalPages
      <4> QED BY <2>1, <4>1 DEF Exhausted, IsSimulator
    <3>2. loc = LinearLocation(sim.linear)
      BY <1>2, <2>1 DEF Allocated
    <3> QED BY <2>1, <3>1, <3>2, LinearOnDevice
  <2>2. CASE sim.mode # "conventional"
    BY <1>1, <1>2, <2>2, StripeIs DEF Allocated
  <2> QED BY <2>1, <2>2
<1>6. ASSUME NEW g \in DOMAIN after.map PROVE LaidAt(after, n, g)
  <2>1. CASE g = Gid(key)
    BY <1>3, <1>4, <1>5, <2>1 DEF LaidAt
  <2>2. CASE g # Gid(key)
    <3>1. LaidAt(sim, n, g) /\ after.map[g] = sim.map[g]
      BY <1>4, <2>2 DEF Laid
    <3> QED BY <1>3, <3>1 DEF LaidAt
  <2> QED BY <2>1, <2>2
<1> QED BY <1>4, <1>6 DEF Laid

\* store_kv
LEMMA StoreKVCosts ==
  ASSUME NEW d, AdapterGood(d), ~Exhausted(d.sim), NEW n \in Nat, Costs(d, n),
         NEW key \in Keys, key[2] < n, NEW data \in Seq(Nat), Len(data) # 0,
         NEW e, e = StoreKV(d, key, data)
  PROVE  Costs(e, n)
<1>1. e.sim = StoreBlock(d.sim, Descriptor(key, data)) /\ e.store = Put(d.store, key, data)
  BY StoreKVKeeps
<1>2. Laid(e.sim, n) /\ DOMAIN e.sim.map = DOMAIN d.sim.map \cup {Gid(key)}
  BY <1>1, StoreLays DEF Costs, AdapterGood
<1>3. DOMAIN e.store = DOMAIN d.store \cup {key}
  BY <1>1 DEF Put
<1>4. \A x \in DOMAIN e.store : Gid(x) \in DOMAIN e.sim.map
  BY <1>2, <1>3 DEF Costs, HasPages
<1> QED BY <1>2, <1>3, <1>4 DEF Costs, HasPages, Below

\* One turn of set_mode: the new simulator has the blocks that were given to it, unless it
\* ran full.
LEMMA ReplaceCosts ==
  ASSUME NEW d, AdapterGood(d), NEW n \in Nat, Laid(d.sim, n), Below(d, n),
         NEW key \in DOMAIN d.store, NEW e, e = Replace(d, key)
  PROVE  /\ Laid(e.sim, n) /\ Below(e, n)
         /\ Exhausted(d.sim) => Exhausted(e.sim)
         /\ Exhausted(d.sim) \/ DOMAIN e.sim.map = DOMAIN d.sim.map \cup {Gid(key)}
<1>1. /\ e.store = d.store
      /\ IF Exhausted(d.sim) THEN e.sim = d.sim
         ELSE e.sim = StoreBlock(d.sim, Descriptor(key, d.store[key]))
  BY ReplaceKeeps
<1>2. CASE Exhausted(d.sim)
  BY <1>1, <1>2 DEF Below
<1>3. CASE ~Exhausted(d.sim)
  <2>1. PICK data \in Seq(Nat) : data = d.store[key] /\ Len(data) # 0
    BY DEF AdapterGood
  <2>2. key \in Keys /\ key[2] < n
    BY DEF Below
  <2>3. Laid(e.sim, n) /\ DOMAIN e.sim.map = DOMAIN d.sim.map \cup {Gid(key)}
    BY <1>1, <1>3, <2>1, <2>2, StoreLays DEF AdapterGood
  <2> QED BY <1>1, <1>3, <2>3 DEF Below
<1> QED BY <1>2, <1>3

\* set_mode: afterwards the new simulator has every block, or it ran full.
LEMMA SetModeCosts ==
  ASSUME NEW d, AdapterGood(d), NEW mode \in Modes, NEW n \in Nat, Below(d, n),
         NEW e, e = SetMode(d, mode)
  PROVE  Costs(e, n)
<1>1. PICK base : base = [d EXCEPT !.sim = NewSimulator(mode)]
  OBVIOUS
<1>2. AdapterGood(base) /\ base.store = d.store /\ base.order = d.order
  BY <1>1, NewSimulatorKeeps
<1>3. base.sim = NewSimulator(mode)
  <2>1. d \in [sim : {d.sim}, store : {d.store}, order : {d.order}, cached : {d.cached}, used : Nat]
    BY DEF AdapterGood, IsAdapter
  <2> QED BY <1>1, <2>1
<1>4. Laid(base.sim, n) /\ Below(base, n)
  <2>1. DOMAIN base.sim.map = {}
    BY <1>3 DEF NewSimulator
  <2> QED BY <1>2, <2>1 DEF Laid, Below
<1>5. PICK seq \in Seq(Keys) : seq = d.order
  BY DEF AdapterGood
<1>6. PICK f : Turns(f, "replace", 0, base, seq) /\ FoldLeft(Replace, base, seq) = f[Len(seq)]
  BY ReplaceTurns
<1>7. e = f[Len(seq)]
  BY <1>1, <1>5, <1>6 DEF SetMode
<1>. DEFINE X == {i \in Nat : i <= Len(seq) =>
                    /\ AdapterGood(f[i]) /\ f[i].store = d.store
                    /\ Laid(f[i].sim, n) /\ Below(f[i], n)
                    /\ \/ Exhausted(f[i].sim)
                       \/ \A j \in 1..i : Gid(seq[j]) \in DOMAIN f[i].sim.map}
<1>8. 0 \in X
  <2>1. f[0] = base
    BY <1>6 DEF Turns
  <2>2. \A j \in 1..0 : FALSE
    OBVIOUS
  <2> QED BY <1>2, <1>4, <2>1, <2>2
<1>9. ASSUME NEW i \in Nat, i \in X PROVE i + 1 \in X
  <2> SUFFICES ASSUME i + 1 <= Len(seq)
               PROVE  /\ AdapterGood(f[i + 1]) /\ f[i + 1].store = d.store
                      /\ Laid(f[i + 1].sim, n) /\ Below(f[i + 1], n)
                      /\ \/ Exhausted(f[i + 1].sim)
                         \/ \A j \in 1..(i + 1) : Gid(seq[j]) \in DOMAIN f[i + 1].sim.map
    OBVIOUS
  <2>1. i + 1 \in 1..Len(seq) /\ (i + 1) - 1 = i /\ i <= Len(seq)
        /\ \A j \in 1..(i + 1) : j = i + 1 \/ j \in 1..i
    BY LenProperties
  <2>2. PICK a, b, key : a = f[i] /\ b = f[i + 1] /\ key = seq[i + 1]
    OBVIOUS
  <2>3. /\ AdapterGood(a) /\ a.store = d.store /\ Laid(a.sim, n) /\ Below(a, n)
        /\ Exhausted(a.sim) \/ \A j \in 1..i : Gid(seq[j]) \in DOMAIN a.sim.map
    BY <1>9, <2>1, <2>2
  <2>4. b = Replace(a, key)
    <3>1. f[i + 1] = Turned("replace", 0, f[(i + 1) - 1], seq[i + 1])
      BY <1>6, <2>1 DEF Turns
    <3> QED BY <2>1, <2>2, <3>1 DEF Turned
  <2>5. key \in DOMAIN a.store
    <3>1. Among(key, d.order)
      BY <1>5, <2>1, <2>2 DEF Among
    <3> QED BY <2>3, <3>1 DEF AdapterGood
  <2>. HIDE DEF X
  <2>6. AdapterGood(b) /\ b.store = d.store
    BY <2>3, <2>4, <2>5, ReplaceKeeps
  <2>7. /\ Laid(b.sim, n) /\ Below(b, n)
        /\ Exhausted(a.sim) => Exhausted(b.sim)
        /\ Exhausted(a.sim) \/ DOMAIN b.sim.map = DOMAIN a.sim.map \cup {Gid(key)}
    BY <2>3, <2>4, <2>5, ReplaceCosts
  <2>8. Exhausted(b.sim) \/ \A j \in 1..(i + 1) : Gid(seq[j]) \in DOMAIN b.sim.map
    BY <2>1, <2>2, <2>3, <2>7
  <2> QED BY <2>2, <2>6, <2>7, <2>8
<1>10. Nat \subseteq X
  <2>. HIDE DEF X
  <2> QED BY <1>8, <1>9, SetInduction
<1>11. Len(seq) \in Nat /\ Len(seq) <= Len(seq)
  BY LenProperties
<1>12. /\ AdapterGood(e) /\ e.store = d.store /\ Laid(e.sim, n) /\ Below(e, n)
       /\ Exhausted(e.sim) \/ \A j \in 1..Len(seq) : Gid(seq[j]) \in DOMAIN e.sim.map
  BY <1>7, <1>10, <1>11
<1>13. HasPages(e)
  <2>1. \A key \in DOMAIN e.store : \E j \in 1..Len(seq) : seq[j] = key
    BY <1>5, <1>12 DEF AdapterGood, Among
  <2> QED BY <1>12, <2>1 DEF HasPages
<1> QED BY <1>12, <1>13 DEF Costs

\* Calls that leave the simulator alone and store nothing.
LEMMA SameSimCosts ==
  ASSUME NEW d, NEW n \in Nat, NEW m \in Nat, n <= m, Costs(d, n), NEW e, e.sim = d.sim,
         DOMAIN e.store \subseteq DOMAIN d.store
  PROVE  Costs(e, m)
<1>1. ASSUME NEW key \in Keys, key[2] < n PROVE key[2] < m
  BY <1>1 DEF Keys
<1>2. ASSUME NEW g \in DOMAIN e.sim.map PROVE LaidAt(e.sim, m, g)
  <2>1. LaidAt(d.sim, n, g)
    BY DEF Costs, Laid
  <2> QED BY <1>1, <2>1 DEF LaidAt
<1>3. Below(e, m)
  BY <1>1 DEF Costs, Below
<1> QED BY <1>2, <1>3 DEF Costs, Laid, HasPages

\* A pinned block begins in the sinks.
Pinned(blocks) == \A i \in 1..Len(blocks) : blocks[i].pinned => blocks[i].start < SinkTokens

\* What else turns of the eviction loop keep.
Evicts(st, e) ==
  /\ Len(e.pool) = Len(st.pool)
  /\ Pinned(st.pool) => Pinned(e.pool)
  /\ \A n \in Nat : Len(st.pool) <= n /\ Costs(st.dev, n) => Costs(e.dev, n)
  /\ Exhausted(st.dev.sim) => Exhausted(e.dev.sim)

\* It is kept through several turns,
LEMMA EvictsTrans ==
  ASSUME NEW a, NEW b, NEW c, Evicts(a, b), Evicts(b, c)
  PROVE  Evicts(a, c)
BY DEF Evicts

\* and by one turn, after which the block is not in RAM unless the device is full.
LEMMA OffloadBlockEvicts ==
  ASSUME NEW st, NEW len, NEW gone,
         PoolGood(st.pool, len, st.dev.store, gone), AdapterGood(st.dev),
         NEW id \in Nat, id < Len(st.pool), st.pool[id + 1].ram,
         NEW e, e = OffloadBlock(st, id)
  PROVE  Evicts(st, e) /\ (~Exhausted(e.dev.sim) => ~e.pool[id + 1].ram)
<1>1. CASE Exhausted(st.dev.sim)
  <2>1. e = st
    BY <1>1 DEF OffloadBlock
  <2> QED BY <1>1, <2>1 DEF Evicts
<1>2. CASE ~Exhausted(st.dev.sim)
  <2>1. PICK blocks \in Seq(Block) : blocks = st.pool
    BY DEF PoolGood
  <2>2. PICK d : d = st.dev
    OBVIOUS
  <2>3. PICK k \in 1..Len(blocks) : k = id + 1 /\ k - 1 = id
    BY <2>1, LenProperties
  <2>4. PICK b \in Block : b = blocks[k]
    BY <2>3, ElementOfSeq
  <2>5. PICK key \in Keys : key = <<b.layer, id>>
    <3>1. b.layer \in Nat
      BY <2>4, LayersAre DEF Block
    <3> QED BY <3>1 DEF Keys
  <2>6. b.data \in Seq(Nat) /\ Len(b.data) # 0
    <3>1. b.start \in Nat /\ b.count \in 1..TokensPerBlock /\ b.data \in Seq(Nat)
      BY <2>4 DEF Block
    <3>2. b.count \in Nat /\ b.count # 0
      BY <3>1
    <3>3. Len(Positions(b.start, b.count)) = b.count
      BY <3>1, <3>2, PositionsAre
    <3>4. Kept(b, KeyAt(blocks, k), len[b.layer], d.store, gone)
      BY <2>1, <2>2, <2>3, <2>4 DEF PoolGood
    <3>5. b.data = Positions(b.start, b.count)
      BY <2>1, <2>3, <2>4, <3>4 DEF Kept
    <3> QED BY <3>1, <3>2, <3>3, <3>5
  <2>7. /\ e.pool = [blocks EXCEPT ![k].ram = FALSE, ![k].data = <<>>]
        /\ e.dev = StoreKV(d, key, b.data)
    <3>1. e = [pool |-> [st.pool EXCEPT ![id + 1].ram = FALSE, ![id + 1].data = <<>>],
               dev  |-> StoreKV(st.dev, <<st.pool[id + 1].layer, id>>, st.pool[id + 1].data)]
      BY <1>2, Zenon DEF OffloadBlock
    <3>2. e.pool = [st.pool EXCEPT ![id + 1].ram = FALSE, ![id + 1].data = <<>>]
          /\ e.dev = StoreKV(st.dev, <<st.pool[id + 1].layer, id>>, st.pool[id + 1].data)
      BY <3>1
    <3> QED BY <2>1, <2>2, <2>3, <2>4, <2>5, <3>2
  <2>8. PICK v \in BOOLEAN, none \in Seq(Nat) : v = FALSE /\ none = <<>>
    BY EmptySeq
  <2>9. PICK c : c = [[b EXCEPT !.ram = v] EXCEPT !.data = none]
    OBVIOUS
  <2>10. c.ram = FALSE /\ c.pinned = b.pinned /\ c.start = b.start
    BY <2>8, <2>9 DEF Block
  <2>11. e.pool = [blocks EXCEPT ![k] = c]
    BY <2>3, <2>4, <2>7, <2>8, <2>9
  <2>12. Len(e.pool) = Len(blocks) /\ \A i \in 1..Len(blocks) :
           e.pool[i] = IF i = k THEN c ELSE blocks[i]
    BY <2>11
  <2>13. ~e.pool[id + 1].ram
    BY <2>3, <2>10, <2>12
  <2>14. Pinned(blocks) => Pinned(e.pool)
    BY <2>4, <2>10, <2>12 DEF Pinned
  <2>15. ASSUME NEW n \in Nat, Len(blocks) <= n, Costs(d, n) PROVE Costs(e.dev, n)
    <3>1. key[2] < n
      BY <2>1, <2>5, <2>15, LenProperties
    <3>2. AdapterGood(d) /\ ~Exhausted(d.sim)
      BY <1>2, <2>2
    <3> QED BY <2>6, <2>7, <2>15, <3>1, <3>2, StoreKVCosts
  <2> QED BY <1>2, <2>1, <2>2, <2>12, <2>13, <2>14, <2>15 DEF Evicts
<1> QED BY <1>1, <1>2

-----------------------------------------------------------------------------
(***************************************************************************)
(* The eviction loop and the tiles of a layer.                             *)
(***************************************************************************)

\* Pools stay alike through several turns of the eviction loop,
LEMMA AlikeTrans ==
  ASSUME NEW a, NEW b, NEW c, Alike(a, b), Alike(b, c)
  PROVE  Alike(a, c)
BY DEF Alike

\* and no stored block is changed through several turns.
LEMMA StoresMoreTrans ==
  ASSUME NEW a, NEW b, NEW c, StoresMore(a, b), StoresMore(b, c)
  PROVE  StoresMore(a, c)
BY DEF StoresMore

\* The first i blocks that the eviction loop was given have left RAM, unless the device is
\* full, and blocks that it was not given are as they were.
Cleared(s, blocks, ids, i) ==
  /\ \A j \in 1..Len(ids) : j <= i /\ ~Exhausted(s.dev.sim) => ~s.pool[ids[j] + 1].ram
  /\ \A k \in 0..(Len(blocks) - 1) : ~Among(k, ids) => s.pool[k + 1] = blocks[k + 1]

\* The place of a number below another.
LEMMA PlaceBelow ==
  ASSUME NEW x \in Nat, NEW n \in Nat, NEW id \in Nat, x < n, x < id
  PROVE  x + 1 \in 1..n /\ x + 1 # id + 1
OBVIOUS

\* One turn more.
LEMMA ClearedMore ==
  ASSUME NEW blocks \in Seq(Block), NEW ids \in Seq(Nat), Rising(ids),
         NEW i \in Nat, i + 1 \in 1..Len(ids), NEW id, id = ids[i + 1],
         \A j \in 1..Len(ids) : ids[j] < Len(blocks),
         NEW a, NEW b, Cleared(a, blocks, ids, i), Len(a.pool) = Len(blocks),
         SameBut(a.pool, b.pool, id + 1),
         Exhausted(a.dev.sim) => Exhausted(b.dev.sim),
         ~Exhausted(b.dev.sim) => ~b.pool[id + 1].ram
  PROVE  Cleared(b, blocks, ids, i + 1)
<1>1. Len(ids) \in Nat /\ Len(blocks) \in Nat /\ \A j \in 1..Len(ids) : ids[j] \in Nat
  BY LenProperties, ElementOfSeq
<1>2. ASSUME NEW j \in 1..Len(ids), j <= i + 1, ~Exhausted(b.dev.sim)
      PROVE  ~b.pool[ids[j] + 1].ram
  <2>1. CASE j = i + 1
    BY <1>2, <2>1
  <2>2. CASE j # i + 1
    <3>1. j <= i /\ j < i + 1
      BY <1>1, <1>2, <2>2
    <3>2. ids[j] < id /\ id \in Nat
      BY <1>1, <3>1 DEF Rising
    <3>5. PICK x \in Nat, n \in Nat : x = ids[j] /\ n = Len(a.pool) /\ x < n /\ x < id
      BY <1>1, <3>2
    <3>6. x + 1 \in 1..n /\ x + 1 # id + 1
      BY <3>2, <3>5, PlaceBelow
    <3>3. ids[j] + 1 \in 1..Len(a.pool) /\ ids[j] + 1 # id + 1
      BY <3>5, <3>6
    <3>4. ~a.pool[ids[j] + 1].ram
      BY <1>2, <3>1 DEF Cleared
    <3> QED BY <3>3, <3>4 DEF SameBut
  <2> QED BY <2>1, <2>2
<1>3. ASSUME NEW k \in 0..(Len(blocks) - 1), ~Among(k, ids) PROVE b.pool[k + 1] = blocks[k + 1]
  <2>1. k # id
    BY <1>3 DEF Among
  <2>2. k + 1 \in 1..Len(a.pool) /\ k + 1 # id + 1
    BY <1>1, <2>1
  <2>3. a.pool[k + 1] = blocks[k + 1]
    BY <1>3 DEF Cleared
  <2> QED BY <2>2, <2>3 DEF SameBut
<1> QED BY <1>2, <1>3 DEF Cleared

\* The eviction loop: every block that it is given is in RAM when its turn comes, since the
\* blocks before it are others.
LEMMA OffloadKeeps ==
  ASSUME NEW blocks, NEW d, NEW len, NEW gone,
         PoolGood(blocks, len, d.store, gone), AdapterGood(d),
         NEW ids \in Seq(Nat), Rising(ids),
         \A j \in 1..Len(ids) : /\ ids[j] < Len(blocks) /\ blocks[ids[j] + 1].ram
                                /\ Past(blocks[ids[j] + 1], len[blocks[ids[j] + 1].layer]),
         NEW base, base.pool = blocks, base.dev = d,
         NEW e, e = FoldLeft(OffloadBlock, base, ids)
  PROVE  /\ PoolGood(e.pool, len, e.dev.store, gone)
         /\ AdapterGood(e.dev)
         /\ Alike(blocks, e.pool)
         /\ StoresMore(d, e.dev)
         /\ Evicts(base, e)
         /\ Cleared(e, blocks, ids, Len(ids))
<1>1. PICK f : /\ Turns(f, "offload", 0, base, ids)
               /\ FoldLeft(OffloadBlock, base, ids) = f[Len(ids)]
  BY OffloadTurns
<1>. DEFINE X == {i \in Nat : i <= Len(ids) =>
                    /\ PoolGood(f[i].pool, len, f[i].dev.store, gone)
                    /\ AdapterGood(f[i].dev)
                    /\ Alike(blocks, f[i].pool)
                    /\ StoresMore(d, f[i].dev)
                    /\ \A j \in 1..Len(ids) : j > i => f[i].pool[ids[j] + 1] = blocks[ids[j] + 1]
                    /\ Evicts(base, f[i])
                    /\ Cleared(f[i], blocks, ids, i)}
<1>2. Len(ids) \in Nat /\ Len(blocks) \in Nat
  BY LenProperties DEF PoolGood
<1>3. 0 \in X
  <2>1. f[0] = base
    BY <1>1 DEF Turns
  <2>2. Alike(blocks, blocks) /\ StoresMore(d, d)
    BY DEF Alike, StoresMore
  <2>3. Evicts(base, base)
    BY DEF Evicts
  <2>4. Cleared(base, blocks, ids, 0)
    BY <1>2 DEF Cleared
  <2> QED BY <2>1, <2>2, <2>3, <2>4
<1>4. ASSUME NEW i \in Nat, i \in X PROVE i + 1 \in X
  <2> SUFFICES ASSUME i + 1 <= Len(ids)
               PROVE  /\ PoolGood(f[i + 1].pool, len, f[i + 1].dev.store, gone)
                      /\ AdapterGood(f[i + 1].dev)
                      /\ Alike(blocks, f[i + 1].pool)
                      /\ StoresMore(d, f[i + 1].dev)
                      /\ \A j \in 1..Len(ids) : j > i + 1 =>
                           f[i + 1].pool[ids[j] + 1] = blocks[ids[j] + 1]
                      /\ Evicts(base, f[i + 1])
                      /\ Cleared(f[i + 1], blocks, ids, i + 1)
    OBVIOUS
  <2>1. i + 1 \in 1..Len(ids) /\ (i + 1) - 1 = i /\ i <= Len(ids) /\ i + 1 > i
    BY <1>2
  <2>2. /\ PoolGood(f[i].pool, len, f[i].dev.store, gone)
        /\ AdapterGood(f[i].dev)
        /\ Alike(blocks, f[i].pool)
        /\ StoresMore(d, f[i].dev)
        /\ \A j \in 1..Len(ids) : j > i => f[i].pool[ids[j] + 1] = blocks[ids[j] + 1]
        /\ Evicts(base, f[i])
        /\ Cleared(f[i], blocks, ids, i)
    BY <1>4, <2>1
  <2>3. PICK id \in Nat : id = ids[i + 1]
    BY <2>1, ElementOfSeq
  <2>4. f[i + 1] = OffloadBlock(f[i], id)
    <3>1. f[i + 1] = Turned("offload", 0, f[(i + 1) - 1], ids[i + 1])
      BY <1>1, <2>1 DEF Turns
    <3> QED BY <2>1, <2>3, <3>1 DEF Turned
  <2>. HIDE DEF X
  <2>5. /\ id < Len(blocks) /\ blocks[id + 1].ram
        /\ Past(blocks[id + 1], len[blocks[id + 1].layer])
    BY <2>1, <2>3
  <2>6. f[i].pool[id + 1] = blocks[id + 1] /\ Len(f[i].pool) = Len(blocks)
    <3>1. f[i].pool[ids[i + 1] + 1] = blocks[ids[i + 1] + 1]
      BY <2>1, <2>2
    <3> QED BY <2>2, <2>3, <3>1 DEF Alike
  <2>7. /\ PoolGood(f[i + 1].pool, len, f[i + 1].dev.store, gone)
        /\ AdapterGood(f[i + 1].dev)
        /\ Alike(f[i].pool, f[i + 1].pool)
        /\ \A k \in 1..Len(f[i].pool) : k # id + 1 => f[i + 1].pool[k] = f[i].pool[k]
        /\ StoresMore(f[i].dev, f[i + 1].dev)
        /\ Evicts(f[i], f[i + 1])
        /\ ~Exhausted(f[i + 1].dev.sim) => ~f[i + 1].pool[id + 1].ram
    <3>1. PICK st, e2 : st = f[i] /\ e2 = f[i + 1]
      OBVIOUS
    <3>2. /\ PoolGood(st.pool, len, st.dev.store, gone) /\ AdapterGood(st.dev)
          /\ id < Len(st.pool) /\ st.pool[id + 1].ram
          /\ Past(st.pool[id + 1], len[st.pool[id + 1].layer])
          /\ e2 = OffloadBlock(st, id)
      BY <2>2, <2>4, <2>5, <2>6, <3>1
    <3>3. /\ PoolGood(e2.pool, len, e2.dev.store, gone)
          /\ AdapterGood(e2.dev)
          /\ Alike(st.pool, e2.pool)
          /\ SameBut(st.pool, e2.pool, id + 1)
          /\ StoresMore(st.dev, e2.dev)
          /\ Evicts(st, e2)
          /\ ~Exhausted(e2.dev.sim) => ~e2.pool[id + 1].ram
      <4>1. PoolGood(e2.pool, len, e2.dev.store, gone)
        BY <3>2, OffloadBlockKeeps
      <4>2. AdapterGood(e2.dev)
        BY <3>2, OffloadBlockKeeps
      <4>3. Alike(st.pool, e2.pool)
        BY <3>2, OffloadBlockKeeps
      <4>4. SameBut(st.pool, e2.pool, id + 1)
        BY <3>2, OffloadBlockKeeps
      <4>5. StoresMore(st.dev, e2.dev)
        BY <3>2, OffloadBlockKeeps
      <4>6. Evicts(st, e2) /\ (~Exhausted(e2.dev.sim) => ~e2.pool[id + 1].ram)
        BY <3>2, OffloadBlockEvicts
      <4> QED BY <4>1, <4>2, <4>3, <4>4, <4>5, <4>6
    <3> QED BY <3>1, <3>3 DEF SameBut
  <2>8. Alike(blocks, f[i + 1].pool) /\ StoresMore(d, f[i + 1].dev)
    BY <2>2, <2>7, AlikeTrans, StoresMoreTrans
  <2>9. ASSUME NEW j \in 1..Len(ids), j > i + 1
        PROVE  f[i + 1].pool[ids[j] + 1] = blocks[ids[j] + 1]
    <3>1. ids[i + 1] < ids[j] /\ ids[j] \in Nat
      BY <2>1, <2>9, ElementOfSeq DEF Rising
    <3>2. ids[j] < Len(blocks) /\ j > i
      BY <2>1, <2>9
    <3>3. ids[j] + 1 \in 1..Len(f[i].pool) /\ ids[j] + 1 # id + 1
      BY <1>2, <2>3, <2>6, <3>1, <3>2
    <3>4. f[i].pool[ids[j] + 1] = blocks[ids[j] + 1]
      BY <2>2, <3>2
    <3> QED BY <2>7, <3>3, <3>4
  <2>10. Evicts(base, f[i + 1])
    BY <2>2, <2>7, EvictsTrans
  <2>11. Cleared(f[i + 1], blocks, ids, i + 1)
    <3>1. PICK a, b : a = f[i] /\ b = f[i + 1]
      OBVIOUS
    <3>2. Len(a.pool) = Len(blocks) /\ blocks \in Seq(Block)
      BY <2>6, <3>1 DEF PoolGood
    <3>3. SameBut(a.pool, b.pool, id + 1)
      BY <2>7, <3>1 DEF SameBut
    <3>4. Cleared(a, blocks, ids, i)
      BY <2>2, <3>1
    <3>5. /\ Exhausted(a.dev.sim) => Exhausted(b.dev.sim)
          /\ ~Exhausted(b.dev.sim) => ~b.pool[id + 1].ram
      BY <2>7, <3>1 DEF Evicts
    <3>6. \A j \in 1..Len(ids) : ids[j] < Len(blocks)
      OBVIOUS
    <3> QED BY <2>1, <2>3, <3>1, <3>2, <3>3, <3>4, <3>5, <3>6, ClearedMore
  <2> QED BY <2>7, <2>8, <2>9, <2>10, <2>11
<1>5. Nat \subseteq X
  <2>. HIDE DEF X
  <2> QED BY <1>3, <1>4, SetInduction
<1>6. Len(ids) <= Len(ids)
  BY <1>2
<1> QED BY <1>1, <1>2, <1>5, <1>6

\* Max({0, x})
LEMMA MaxWithZero ==
  ASSUME NEW x \in Int
  PROVE  Max({0, x}) = IF x >= 0 THEN x ELSE 0
<1>. DEFINE m == IF x >= 0 THEN x ELSE 0
            S == {0, x}
<1>1. m \in S /\ \A y \in S : m >= y
  OBVIOUS
<1>2. PICK y \in S : y = Max(S) /\ \A z \in S : y >= z
  BY <1>1 DEF Max
<1>3. y = m
  BY <1>1, <1>2
<1> QED BY <1>2, <1>3

\* The tokens of a prompt's block.
LEMMA MinOfTwo ==
  ASSUME NEW x \in Int, NEW y \in Int
  PROVE  Min({x, y}) = IF x <= y THEN x ELSE y
<1>. DEFINE m == IF x <= y THEN x ELSE y
            S == {x, y}
<1>1. m \in S /\ \A z \in S : m <= z
  OBVIOUS
<1>2. PICK z \in S : z = Min(S) /\ \A w \in S : z <= w
  BY <1>1 DEF Min
<1>3. z = m
  BY <1>1, <1>2
<1> QED BY <1>2, <1>3

\* HotColdClassifier: what is not hot is past.
LEMMA ColdIsPast ==
  ASSUME NEW b, b.start \in Nat, b.count \in Nat \ {0}, NEW n \in Nat, ~IsHot(b, n)
  PROVE  Past(b, n)
<1>1. WindowTokens \in Nat /\ SinkTokens \in Nat
  BY PolicyAssumption
<1>2. Max({0, n - WindowTokens}) = IF n - WindowTokens >= 0 THEN n - WindowTokens ELSE 0
  <2>1. n - WindowTokens \in Int
    BY <1>1
  <2> QED BY <2>1, MaxWithZero
<1>3. ~(b.start < SinkTokens) /\ ~(b.start + b.count > Max({0, n - WindowTokens}))
  BY DEF IsHot
<1> QED BY <1>1, <1>2, <1>3 DEF Past

-----------------------------------------------------------------------------
\* What Tiles says of the i-th block of a layer.
TileAt(blocks, ids, i, l, n) ==
  /\ ids[i] \in Nat /\ ids[i] < Len(blocks)
  /\ blocks[ids[i] + 1] \in Block /\ blocks[ids[i] + 1].layer = l
  /\ i = 1 => blocks[ids[i] + 1].start = 0
  /\ i # 1 => blocks[ids[i] + 1].start = blocks[ids[i - 1] + 1].start + TokensPerBlock
  /\ i < Len(ids) => blocks[ids[i] + 1].count = TokensPerBlock
  /\ i = Len(ids) => blocks[ids[i] + 1].start + blocks[ids[i] + 1].count = n

\* The blocks of a layer begin where the code says, one by one.
LEMMA TilesAre ==
  ASSUME NEW blocks \in Seq(Block), NEW l, NEW n \in Nat, NEW ids,
         ids = LayerBlocks(blocks, l), Tiles(blocks, ids, n)
  PROVE  /\ ids \in Seq(Nat) /\ Len(ids) \in Nat
         /\ (ids = <<>>) <=> (n = 0)
         /\ \A i \in 1..Len(ids) : TileAt(blocks, ids, i, l, n)
<1>1. /\ ids \in Seq(Nat) /\ Len(ids) \in Nat /\ Len(blocks) \in Nat
      /\ \A id : Among(id, ids) <=> id \in 0..(Len(blocks) - 1) /\ blocks[id + 1].layer = l
  BY LayerBlocksAre, LenProperties
<1>2. ASSUME NEW i \in 1..Len(ids)
      PROVE  /\ ids[i] \in Nat /\ ids[i] < Len(blocks)
             /\ blocks[ids[i] + 1] \in Block /\ blocks[ids[i] + 1].layer = l
  <2>1. Among(ids[i], ids)
    BY DEF Among
  <2>2. ids[i] \in 0..(Len(blocks) - 1) /\ blocks[ids[i] + 1].layer = l
    BY <1>1, <2>1
  <2>3. ids[i] + 1 \in 1..Len(blocks)
    BY <1>1, <2>2
  <2>4. blocks[ids[i] + 1] \in Block
    BY <2>3, ElementOfSeq
  <2> QED BY <1>1, <2>2, <2>4
<1>3. ASSUME ids # <<>> PROVE n # 0
  <2>1. Len(ids) # 0
    BY <1>1, <1>3, EmptySeq
  <2>2. Len(ids) \in 1..Len(ids)
    BY <1>1, <2>1
  <2>3. blocks[ids[Len(ids)] + 1].start + blocks[ids[Len(ids)] + 1].count = n
    BY <2>2 DEF Tiles
  <2>4. blocks[ids[Len(ids)] + 1] \in Block
    BY <1>2, <2>2
  <2>5. /\ blocks[ids[Len(ids)] + 1].start \in Nat
        /\ blocks[ids[Len(ids)] + 1].count \in 1..TokensPerBlock
    BY <2>4 DEF Block
  <2> QED BY <2>3, <2>5
<1>4. (ids = <<>>) => (n = 0)
  BY DEF Tiles
<1>5. ASSUME NEW i \in 1..Len(ids) PROVE TileAt(blocks, ids, i, l, n)
  <2>1. /\ blocks[ids[i] + 1].start =
             IF i = 1 THEN 0 ELSE blocks[ids[i - 1] + 1].start + TokensPerBlock
        /\ i < Len(ids) => blocks[ids[i] + 1].count = TokensPerBlock
        /\ i = Len(ids) => blocks[ids[i] + 1].start + blocks[ids[i] + 1].count = n
    BY DEF Tiles
  <2> QED BY <1>2, <2>1 DEF TileAt
<1> QED BY <1>1, <1>3, <1>4, <1>5

\* append_token counts the tokens of the layer.
LEMMA CountedIs ==
  ASSUME NEW blocks \in Seq(Block), NEW l, NEW n \in Nat,
         Tiles(blocks, LayerBlocks(blocks, l), n)
  PROVE  Counted(blocks, LayerBlocks(blocks, l)) = n
<1>1. PICK ids \in Seq(Nat) : ids = LayerBlocks(blocks, l)
  BY LayerBlocksAre
<1>2. /\ Len(ids) \in Nat /\ ((ids = <<>>) <=> (n = 0))
      /\ \A i \in 1..Len(ids) : TileAt(blocks, ids, i, l, n)
  BY <1>1, TilesAre
<1>3. PICK zero : zero = 0
  OBVIOUS
<1>4. PICK f : Turns(f, "count", blocks, zero, ids) /\ Counted(blocks, ids) = f[Len(ids)]
  BY <1>3, CountTurns
<1>. DEFINE End(i) == IF i = 0 THEN 0 ELSE blocks[ids[i] + 1].start + blocks[ids[i] + 1].count
            X == {i \in Nat : i <= Len(ids) => f[i] = End(i)}
<1>5. 0 \in X
  BY <1>3, <1>4 DEF Turns
<1>6. ASSUME NEW i \in Nat, i \in X PROVE i + 1 \in X
  <2> SUFFICES ASSUME i + 1 <= Len(ids) PROVE f[i + 1] = End(i + 1)
    OBVIOUS
  <2>1. i + 1 \in 1..Len(ids) /\ (i + 1) - 1 = i /\ i <= Len(ids) /\ i < Len(ids)
        /\ (i # 0 => i \in 1..Len(ids)) /\ (i + 1 = 1 <=> i = 0) /\ i + 1 # 0
    BY <1>2
  <2>2. f[i] = End(i)
    BY <1>6, <2>1
  <2>3. f[i + 1] = f[i] + blocks[ids[i + 1] + 1].count
    <3>1. f[i + 1] = Turned("count", blocks, f[(i + 1) - 1], ids[i + 1])
      BY <1>4, <2>1 DEF Turns
    <3> QED BY <2>1, <3>1 DEF Turned
  <2>4. TileAt(blocks, ids, i + 1, l, n) /\ (i # 0 => TileAt(blocks, ids, i, l, n))
    BY <1>2, <2>1
  <2>5. i # 0 => blocks[ids[i] + 1].count = TokensPerBlock
    BY <2>1, <2>4 DEF TileAt
  <2>6. blocks[ids[i + 1] + 1].start = f[i]
    <3>1. CASE i = 0
      BY <2>1, <2>2, <2>4, <3>1 DEF TileAt
    <3>2. CASE i # 0
      <4>1. blocks[ids[i + 1] + 1].start = blocks[ids[i] + 1].start + TokensPerBlock
        BY <2>1, <2>4, <3>2 DEF TileAt
      <4> QED BY <2>2, <2>5, <3>2, <4>1
    <3> QED BY <3>1, <3>2
  <2> QED BY <2>1, <2>3, <2>6
<1>7. Nat \subseteq X
  <2>. HIDE DEF X
  <2> QED BY <1>5, <1>6, SetInduction
<1>8. f[Len(ids)] = End(Len(ids))
  <2>1. Len(ids) <= Len(ids)
    BY <1>2
  <2> QED BY <1>2, <1>7, <2>1
<1>9. End(Len(ids)) = n
  <2>1. CASE Len(ids) = 0
    BY <1>1, <1>2, <2>1, EmptySeq
  <2>2. CASE Len(ids) # 0
    <3>1. Len(ids) \in 1..Len(ids)
      BY <1>2, <2>2
    <3>2. TileAt(blocks, ids, Len(ids), l, n)
      BY <1>2, <3>1
    <3> QED BY <2>2, <3>2 DEF TileAt
  <2> QED BY <2>1, <2>2
<1> QED BY <1>1, <1>4, <1>8, <1>9

\* Multiples of the size of a block.
LEMMA Multiples ==
  ASSUME NEW t \in Nat \ {0}
  PROVE  /\ \A u \in Nat : u * t \in Nat /\ u * t = t * u /\ (u + 1) * t = u * t + t
         /\ \A u, v \in Nat : u <= v => u * t <= v * t
<1>1. \A u \in Nat : u * t \in Nat /\ u * t = t * u /\ (u + 1) * t = u * t + t
  BY Z3
<1>2. \A u, v \in Nat : u <= v => u * t <= v * t
  BY Z3
<1> QED BY <1>1, <1>2

\* How prefill_sequence cuts n tokens into k blocks.
LEMMA Cut ==
  ASSUME NEW n \in Nat, NEW t \in Nat \ {0}, NEW k, k = (n + t - 1) \div t
  PROVE  /\ k \in Nat /\ (n = 0 => k = 0) /\ (k = 0 => n = 0)
         /\ \A i \in 1..k : /\ (i - 1) * t \in Nat /\ (i - 1) * t < n
                            /\ i < k => (i - 1) * t + t <= n
                            /\ i = k => n <= (i - 1) * t + t
                            /\ i # 1 => (i - 1) * t = ((i - 1) - 1) * t + t
         /\ (1 - 1) * t = 0
<1>. DEFINE r == (n + t - 1) % t
<1>1. n + t - 1 \in Nat
  OBVIOUS
<1>2. k \in Nat /\ r \in 0..(t - 1) /\ n + t - 1 = t * k + r
  BY <1>1, Divided
<1>. HIDE DEF r
<1>3. /\ \A u \in Nat : u * t \in Nat /\ u * t = t * u /\ (u + 1) * t = u * t + t
      /\ \A u, v \in Nat : u <= v => u * t <= v * t
  BY Multiples
<1>4. 0 * t = 0
  BY Z3
<1>5. PICK kt \in Nat : kt = k * t /\ kt = t * k
  BY <1>2, <1>3
<1>6. n <= kt /\ kt <= n + t - 1
  BY <1>2, <1>5
<1>7. n = 0 => k = 0
  <2> SUFFICES ASSUME n = 0, k # 0 PROVE FALSE
    OBVIOUS
  <2>1. 1 * t <= k * t /\ 1 * t = 0 * t + t
    BY <1>2, <1>3
  <2> QED BY <1>4, <1>5, <1>6, <2>1
<1>8. k = 0 => n = 0
  <2> SUFFICES ASSUME k = 0 PROVE n = 0
    OBVIOUS
  <2>1. kt = 0
    BY <1>4, <1>5
  <2> QED BY <1>6, <2>1
<1>9. ASSUME NEW i \in 1..k
      PROVE  /\ (i - 1) * t \in Nat /\ (i - 1) * t < n
             /\ i < k => (i - 1) * t + t <= n
             /\ i = k => n <= (i - 1) * t + t
             /\ i # 1 => (i - 1) * t = ((i - 1) - 1) * t + t
  <2>1. i \in Nat /\ i - 1 \in Nat /\ i <= k /\ (i - 1) + 1 = i
    BY <1>2
  <2>2. PICK a \in Nat, b \in Nat : a = (i - 1) * t /\ b = i * t
    BY <1>3, <2>1
  <2>3. b = a + t
    <3>1. ((i - 1) + 1) * t = (i - 1) * t + t
      BY <1>3, <2>1
    <3> QED BY <2>1, <2>2, <3>1
  <2>4. b <= kt
    BY <1>2, <1>3, <1>5, <2>1, <2>2
  <2>5. a < n
    BY <1>6, <2>3, <2>4
  <2>6. i < k => b <= n
    <3> SUFFICES ASSUME i < k PROVE b <= n
      OBVIOUS
    <3>1. i + 1 <= k /\ i + 1 \in Nat
      BY <1>2, <2>1
    <3>2. (i + 1) * t <= k * t
      BY <1>2, <1>3, <3>1
    <3>3. (i + 1) * t = i * t + t
      BY <1>3, <2>1
    <3>4. b + t <= kt
      BY <1>5, <2>2, <3>2, <3>3
    <3> QED BY <1>6, <3>4
  <2>7. i = k => n <= b
    BY <1>5, <1>6, <2>2
  <2>8. i # 1 => (i - 1) * t = ((i - 1) - 1) * t + t
    <3> SUFFICES ASSUME i # 1 PROVE (i - 1) * t = ((i - 1) - 1) * t + t
      OBVIOUS
    <3>1. (i - 1) - 1 \in Nat /\ ((i - 1) - 1) + 1 = i - 1
      BY <2>1
    <3>2. (((i - 1) - 1) + 1) * t = ((i - 1) - 1) * t + t
      BY <1>3, <3>1
    <3> QED BY <3>1, <3>2
  <2> QED BY <2>2, <2>3, <2>5, <2>6, <2>7, <2>8
<1>10. (1 - 1) * t = 0
  BY <1>4
<1> QED BY <1>2, <1>7, <1>8, <1>9, <1>10

\* Tiles depends on places and sizes alone.
LEMMA TilesKept ==
  ASSUME NEW a, NEW b, NEW ids, NEW n, Len(ids) \in Nat, Tiles(a, ids, n),
         \A i \in 1..Len(ids) : /\ a[ids[i] + 1].start = b[ids[i] + 1].start
                                /\ a[ids[i] + 1].count = b[ids[i] + 1].count
  PROVE  Tiles(b, ids, n)
<1>1. ASSUME NEW i \in 1..Len(ids)
      PROVE  /\ b[ids[i] + 1].start =
                  IF i = 1 THEN 0 ELSE b[ids[i - 1] + 1].start + TokensPerBlock
             /\ i < Len(ids) => b[ids[i] + 1].count = TokensPerBlock
             /\ i = Len(ids) => b[ids[i] + 1].start + b[ids[i] + 1].count = n
  <2>1. /\ a[ids[i] + 1].start =
             IF i = 1 THEN 0 ELSE a[ids[i - 1] + 1].start + TokensPerBlock
        /\ i < Len(ids) => a[ids[i] + 1].count = TokensPerBlock
        /\ i = Len(ids) => a[ids[i] + 1].start + a[ids[i] + 1].count = n
    BY DEF Tiles
  <2>2. i # 1 => i - 1 \in 1..Len(ids)
    OBVIOUS
  <2> QED BY <2>1, <2>2
<1>2. ids = <<>> => n = 0
  BY DEF Tiles
<1> QED BY <1>1, <1>2 DEF Tiles

\* Blocks that continue a layer of n tokens to n2.
Continues(tail, n, n2) ==
  /\ tail = <<>> => n2 = n
  /\ \A i \in 1..Len(tail) :
       /\ i = 1 => tail[i].start = n
       /\ i # 1 => tail[i].start = tail[i - 1].start + TokensPerBlock
       /\ i < Len(tail) => tail[i].count = TokensPerBlock
       /\ i = Len(tail) => tail[i].start + tail[i].count = n2

\* The layer has no block with room for another token.
IsFull(blocks, ids) == ids # <<>> => blocks[ids[Len(ids)] + 1].count = TokensPerBlock

\* New blocks behind the full ones of a layer.
LEMMA TilesJoin ==
  ASSUME NEW blocks \in Seq(Block), NEW l \in Layers, NEW n \in Nat, NEW n2 \in Nat,
         NEW tail \in Seq(Block), \A i \in 1..Len(tail) : tail[i].layer = l,
         NEW ids, ids = LayerBlocks(blocks, l),
         Tiles(blocks, ids, n), IsFull(blocks, ids), Continues(tail, n, n2),
         NEW both, both = blocks \o tail
  PROVE  Tiles(both, LayerBlocks(both, l), n2)
<1>1. /\ ids \in Seq(Nat) /\ Len(ids) \in Nat /\ ((ids = <<>>) <=> (n = 0))
      /\ \A i \in 1..Len(ids) : TileAt(blocks, ids, i, l, n)
  BY TilesAre
<1>2. Len(blocks) \in Nat /\ Len(tail) \in Nat
  BY LenProperties
<1>3. PICK more \in Seq(Nat) : /\ more = Positions(Len(blocks), Len(tail))
                               /\ Len(more) = Len(tail)
                               /\ \A i \in 1..Len(tail) : more[i] = Len(blocks) + i - 1
  BY <1>2, PositionsAre
<1>4. PICK all \in Seq(Nat) : all = ids \o more
  BY <1>1, ConcatProperties
<1>5. /\ Len(all) = Len(ids) + Len(tail)
      /\ \A i \in 1..Len(all) : all[i] = IF i <= Len(ids) THEN ids[i] ELSE more[i - Len(ids)]
  <2>1. ids \in Seq(Nat)
    BY <1>1
  <2>2. /\ Len(ids \o more) = Len(ids) + Len(more)
        /\ \A i \in 1..(Len(ids) + Len(more)) :
             (ids \o more)[i] = IF i <= Len(ids) THEN ids[i] ELSE more[i - Len(ids)]
    BY <2>1, ConcatProperties
  <2>3. /\ Len(all) = Len(ids) + Len(more)
        /\ \A i \in 1..(Len(ids) + Len(more)) :
             all[i] = IF i <= Len(ids) THEN ids[i] ELSE more[i - Len(ids)]
    BY <1>4, <2>2
  <2> QED BY <1>3, <2>3
<1>6. LayerBlocks(both, l) = all
  BY <1>3, <1>4, LayerBlocksJoin
<1>7. /\ Len(both) = Len(blocks) + Len(tail)
      /\ \A i \in 1..Len(both) : both[i] = IF i <= Len(blocks) THEN blocks[i]
            ELSE tail[i - Len(blocks)]
  BY ConcatProperties
<1>8. ASSUME NEW i \in 1..Len(ids) PROVE all[i] = ids[i] /\ both[all[i] + 1] = blocks[ids[i] + 1]
  <2>1. i \in 1..Len(all) /\ i <= Len(ids)
    BY <1>1, <1>2, <1>5
  <2>2. ids[i] + 1 \in 1..Len(both) /\ ids[i] + 1 <= Len(blocks)
    <3>1. ids[i] \in Nat /\ ids[i] < Len(blocks)
      BY <1>1 DEF TileAt
    <3> QED BY <1>2, <1>7, <3>1
  <2> QED BY <1>5, <1>7, <2>1, <2>2
<1>9. ASSUME NEW i \in 1..Len(tail)
      PROVE  both[all[Len(ids) + i] + 1] = tail[i]
  <2>1. Len(ids) + i \in 1..Len(all) /\ ~(Len(ids) + i <= Len(ids))
        /\ (Len(ids) + i) - Len(ids) = i
    BY <1>1, <1>2, <1>5, SMTT(30)
  <2>2. all[Len(ids) + i] = Len(blocks) + i - 1
    BY <1>3, <1>5, <2>1
  <2>3. all[Len(ids) + i] + 1 = Len(blocks) + i
    BY <1>2, <2>2
  <2>4. Len(blocks) + i \in 1..Len(both) /\ ~(Len(blocks) + i <= Len(blocks))
        /\ (Len(blocks) + i) - Len(blocks) = i
    BY <1>2, <1>7
  <2> QED BY <1>7, <2>3, <2>4
<1>10. Len(ids) # 0 => both[all[Len(ids)] + 1].start + TokensPerBlock = n
  <2> SUFFICES ASSUME Len(ids) # 0 PROVE both[all[Len(ids)] + 1].start + TokensPerBlock = n
    OBVIOUS
  <2>1. Len(ids) \in 1..Len(ids)
    BY <1>1
  <2>2. TileAt(blocks, ids, Len(ids), l, n)
    BY <1>1, <2>1
  <2>3. blocks[ids[Len(ids)] + 1].count = TokensPerBlock
    BY <1>1, <2>1, EmptySeq DEF IsFull
  <2> QED BY <1>8, <2>1, <2>2, <2>3 DEF TileAt
<1>11. ASSUME NEW i \in 1..Len(all)
       PROVE  /\ both[all[i] + 1].start =
                   IF i = 1 THEN 0 ELSE both[all[i - 1] + 1].start + TokensPerBlock
              /\ i < Len(all) => both[all[i] + 1].count = TokensPerBlock
              /\ i = Len(all) => both[all[i] + 1].start + both[all[i] + 1].count = n2
  <2>1. CASE i <= Len(ids)
    <3>1. i \in 1..Len(ids) /\ (i # 1 => i - 1 \in 1..Len(ids))
      BY <1>1, <2>1
    <3>2. TileAt(blocks, ids, i, l, n) /\ both[all[i] + 1] = blocks[ids[i] + 1]
      BY <1>1, <1>8, <3>1
    <3>3. both[all[i] + 1].start = IF i = 1 THEN 0
          ELSE both[all[i - 1] + 1].start + TokensPerBlock
      <4>1. i # 1 => both[all[i - 1] + 1] = blocks[ids[i - 1] + 1]
        BY <1>8, <3>1
      <4> QED BY <3>2, <4>1 DEF TileAt
    <3>4. i < Len(all) => both[all[i] + 1].count = TokensPerBlock
      <4>1. CASE i < Len(ids)
        BY <3>2, <4>1 DEF TileAt
      <4>2. CASE ~(i < Len(ids))
        <5>1. i = Len(ids) /\ ids # <<>>
          BY <1>1, <2>1, <3>1, <4>2, EmptySeq
        <5> QED BY <3>2, <5>1 DEF IsFull
      <4> QED BY <4>1, <4>2
    <3>5. i = Len(all) => both[all[i] + 1].start + both[all[i] + 1].count = n2
      <4> SUFFICES ASSUME i = Len(all) PROVE both[all[i] + 1].start + both[all[i] + 1].count = n2
        OBVIOUS
      <4>1. Len(tail) = 0 /\ i = Len(ids)
        BY <1>1, <1>2, <1>5, <2>1
      <4>2. n2 = n
        BY <4>1, EmptySeq DEF Continues
      <4> QED BY <3>2, <4>1, <4>2 DEF TileAt
    <3> QED BY <3>3, <3>4, <3>5
  <2>2. CASE ~(i <= Len(ids))
    <3>1. PICK j \in 1..Len(tail) : i = Len(ids) + j
      <4>1. i - Len(ids) \in 1..Len(tail) /\ i = Len(ids) + (i - Len(ids))
        BY <1>1, <1>2, <1>5, <2>2
      <4> QED BY <4>1
    <3>2. both[all[i] + 1] = tail[j]
      BY <1>9, <3>1
    <3>3. /\ j = 1 => tail[j].start = n
          /\ j # 1 => tail[j].start = tail[j - 1].start + TokensPerBlock
          /\ j < Len(tail) => tail[j].count = TokensPerBlock
          /\ j = Len(tail) => tail[j].start + tail[j].count = n2
      BY DEF Continues
    <3>4. (i < Len(all) <=> j < Len(tail)) /\ (i = Len(all) <=> j = Len(tail))
      <4>1. Len(all) = Len(ids) + Len(tail) /\ Len(ids) \in Nat /\ Len(tail) \in Nat
        BY <1>1, <1>2, <1>5
      <4>2. i < Len(all) => j < Len(tail)
        BY <3>1, <4>1
      <4>3. j < Len(tail) => i < Len(all)
        BY <3>1, <4>1
      <4>4. i = Len(all) => j = Len(tail)
        BY <3>1, <4>1
      <4>5. j = Len(tail) => i = Len(all)
        BY <3>1, <4>1
      <4> QED BY <4>2, <4>3, <4>4, <4>5
    <3>5. both[all[i] + 1].start = IF i = 1 THEN 0
          ELSE both[all[i - 1] + 1].start + TokensPerBlock
      <4>1. CASE j # 1
        <5>1. j - 1 \in 1..Len(tail) /\ i - 1 = Len(ids) + (j - 1) /\ i # 1
          BY <1>1, <1>2, <3>1, <4>1, SMTT(30)
        <5>2. both[all[Len(ids) + (j - 1)] + 1] = tail[j - 1]
          BY <1>9, <5>1
        <5> QED BY <3>2, <3>3, <4>1, <5>1, <5>2
      <4>2. CASE j = 1 /\ Len(ids) # 0
        <5>1. i - 1 = Len(ids) /\ i # 1
          BY <1>1, <3>1, <4>2
        <5> QED BY <1>10, <3>2, <3>3, <4>2, <5>1
      <4>3. CASE j = 1 /\ Len(ids) = 0
        <5>1. i = 1 /\ n = 0
          BY <1>1, <3>1, <4>3, EmptySeq
        <5> QED BY <3>2, <3>3, <4>3, <5>1
      <4> QED BY <4>1, <4>2, <4>3
    <3> QED BY <3>2, <3>3, <3>4, <3>5
  <2> QED BY <2>1, <2>2
<1>12. all = <<>> => n2 = 0
  <2> SUFFICES ASSUME all = <<>> PROVE n2 = 0
    OBVIOUS
  <2>1. Len(ids) = 0 /\ Len(tail) = 0
    BY <1>1, <1>2, <1>5, EmptySeq
  <2> QED BY <1>1, <2>1, EmptySeq DEF Continues
<1>13. Tiles(both, all, n2)
  BY <1>11, <1>12 DEF Tiles
<1> QED BY <1>6, <1>13

\* More tokens leave a block past that was past.
LEMMA StaysPast ==
  ASSUME NEW b, b.start \in Nat, b.count \in Nat, NEW n \in Nat, NEW m \in Nat, n <= m, Past(b, n)
  PROVE  Past(b, m)
BY PolicyAssumption DEF Past

\* A block keeps its tokens when the layer grows.
LEMMA KeptLater ==
  ASSUME NEW b, b.start \in Nat, b.count \in Nat, NEW key, NEW n \in Nat, NEW m \in Nat, n <= m,
         NEW store, NEW gone, Kept(b, key, n, store, gone)
  PROVE  Kept(b, key, m, store, gone)
BY StaysPast DEF Kept

\* New blocks at the end of the pool, in RAM, continue a layer.
LEMMA PoolJoin ==
  ASSUME NEW blocks, NEW len, NEW store, NEW gone, PoolGood(blocks, len, store, gone),
         NEW l \in Layers, IsFull(blocks, LayerBlocks(blocks, l)),
         NEW tail \in Seq(Block),
         \A i \in 1..Len(tail) : /\ tail[i].layer = l /\ tail[i].ram
                                 /\ tail[i].data = Positions(tail[i].start, tail[i].count),
         NEW m \in Nat, len[l] <= m, Continues(tail, len[l], m),
         NEW len2, len2 = [len EXCEPT ![l] = m],
         NEW both, both = blocks \o tail
  PROVE  PoolGood(both, len2, store, gone)
<1>1. /\ blocks \in Seq(Block) /\ len \in [Layers -> Nat]
      /\ \A x \in Layers : Tiles(blocks, LayerBlocks(blocks, x), len[x])
      /\ \A i \in 1..Len(blocks) :
           Kept(blocks[i], KeyAt(blocks, i), len[blocks[i].layer], store, gone)
      /\ \A key \in DOMAIN store : \E i \in 1..Len(blocks) : key = KeyAt(blocks, i)
  BY DEF PoolGood
<1>2. len2 \in [Layers -> Nat] /\ len2[l] = m /\ \A x \in Layers : x # l => len2[x] = len[x]
  BY <1>1
<1>3. Len(blocks) \in Nat /\ Len(tail) \in Nat
  BY <1>1, LenProperties
<1>4. /\ both \in Seq(Block) /\ Len(both) = Len(blocks) + Len(tail)
      /\ \A i \in 1..(Len(blocks) + Len(tail)) :
           both[i] = IF i <= Len(blocks) THEN blocks[i] ELSE tail[i - Len(blocks)]
  BY <1>1, ConcatProperties
<1>5. \A i \in 1..Len(blocks) : both[i] = blocks[i] /\ KeyAt(both, i) = KeyAt(blocks, i)
  BY <1>3, <1>4 DEF KeyAt
<1>6. ASSUME NEW x \in Layers PROVE Tiles(both, LayerBlocks(both, x), len2[x])
  <2>1. CASE x = l
    <3>1. Tiles(both, LayerBlocks(both, l), m)
      BY <1>1, TilesJoin
    <3> QED BY <1>2, <2>1, <3>1
  <2>2. CASE x # l
    <3>1. LayerBlocks(both, x) = LayerBlocks(blocks, x)
      <4>1. \A i \in 1..Len(tail) : tail[i].layer = l
        OBVIOUS
      <4>2. blocks \in Seq(Block) /\ tail \in Seq(Block)
        BY <1>1
      <4>3. \A y : y # l => LayerBlocks(blocks \o tail, y) = LayerBlocks(blocks, y)
        BY <4>1, <4>2, LayerBlocksJoin
      <4>4. LayerBlocks(blocks \o tail, x) = LayerBlocks(blocks, x)
        BY <2>2, <4>3
      <4> QED BY <4>4
    <3>2. PICK ids : ids = LayerBlocks(blocks, x)
      OBVIOUS
    <3>3. Tiles(blocks, ids, len[x]) /\ len[x] \in Nat
      BY <1>1, <3>2
    <3>4. Len(ids) \in Nat /\ \A i \in 1..Len(ids) : TileAt(blocks, ids, i, x, len[x])
      BY <1>1, <3>2, <3>3, TilesAre
    <3>5. ASSUME NEW i \in 1..Len(ids)
          PROVE  /\ blocks[ids[i] + 1].start = both[ids[i] + 1].start
                 /\ blocks[ids[i] + 1].count = both[ids[i] + 1].count
      <4>1. ids[i] \in Nat /\ ids[i] < Len(blocks)
        BY <3>4 DEF TileAt
      <4>2. ids[i] + 1 \in 1..Len(blocks)
        BY <1>3, <4>1
      <4> QED BY <1>5, <4>2
    <3>6. Tiles(both, ids, len[x])
      BY <3>3, <3>4, <3>5, TilesKept
    <3> QED BY <1>2, <2>2, <3>1, <3>2, <3>6
  <2> QED BY <2>1, <2>2
<1>7. ASSUME NEW i \in 1..Len(both)
      PROVE  Kept(both[i], KeyAt(both, i), len2[both[i].layer], store, gone)
  <2>1. CASE i <= Len(blocks)
    <3>1. i \in 1..Len(blocks)
      BY <1>3, <1>4, <2>1
    <3>2. PICK b \in Block : b = blocks[i]
      BY <1>1, <3>1, ElementOfSeq
    <3>3. b.start \in Nat /\ b.count \in Nat /\ b.layer \in Layers
      BY <3>2 DEF Block
    <3>4. len[b.layer] \in Nat /\ len2[b.layer] \in Nat /\ len[b.layer] <= len2[b.layer]
      BY <1>1, <1>2, <3>3
    <3>5. Kept(b, KeyAt(blocks, i), len[b.layer], store, gone)
      BY <1>1, <3>1, <3>2
    <3>6. Kept(b, KeyAt(blocks, i), len2[b.layer], store, gone)
      BY <3>3, <3>4, <3>5, KeptLater
    <3> QED BY <1>5, <3>1, <3>2, <3>6
  <2>2. CASE ~(i <= Len(blocks))
    <3>1. i - Len(blocks) \in 1..Len(tail)
      BY <1>3, <1>4, <2>2
    <3>2. both[i] = tail[i - Len(blocks)]
      BY <1>3, <1>4, <2>2
    <3>3. both[i].ram /\ both[i].data = Positions(both[i].start, both[i].count)
      BY <3>1, <3>2
    <3>4. KeyAt(both, i) \notin DOMAIN store
      <4> SUFFICES ASSUME NEW j \in 1..Len(blocks), KeyAt(both, i) = KeyAt(blocks, j) PROVE FALSE
        BY <1>1
      <4>1. i - 1 = j - 1
        BY DEF KeyAt
      <4> QED BY <1>3, <2>2, <4>1
    <3> QED BY <3>3, <3>4 DEF Kept
  <2> QED BY <2>1, <2>2
<1>8. \A key \in DOMAIN store : \E i \in 1..Len(both) : key = KeyAt(both, i)
  <2> SUFFICES ASSUME NEW key \in DOMAIN store
               PROVE  \E i \in 1..Len(both) : key = KeyAt(both, i)
    OBVIOUS
  <2>1. PICK i \in 1..Len(blocks) : key = KeyAt(blocks, i)
    BY <1>1
  <2>2. i \in 1..Len(both) /\ key = KeyAt(both, i)
    BY <1>3, <1>4, <1>5, <2>1
  <2> QED BY <2>2
<1> QED BY <1>2, <1>4, <1>6, <1>7, <1>8 DEF PoolGood

\* A token joins the last block of a layer.
LEMMA PoolExtend ==
  ASSUME NEW blocks, NEW len, NEW store, NEW gone, PoolGood(blocks, len, store, gone),
         NEW l \in Layers, NEW ids, ids = LayerBlocks(blocks, l), ids # <<>>,
         NEW k, k = ids[Len(ids)] + 1, blocks[k].count < TokensPerBlock,
         NEW c \in Block, c.layer = blocks[k].layer, c.start = blocks[k].start,
         c.count = blocks[k].count + 1, c.ram = blocks[k].ram,
         c.data = Append(blocks[k].data, len[l]),
         NEW len2, len2 = [len EXCEPT ![l] = len[l] + 1],
         NEW new, new = [blocks EXCEPT ![k] = c]
  PROVE  PoolGood(new, len2, store, gone)
<1>1. /\ blocks \in Seq(Block) /\ len \in [Layers -> Nat]
      /\ \A x \in Layers : Tiles(blocks, LayerBlocks(blocks, x), len[x])
      /\ \A i \in 1..Len(blocks) :
           Kept(blocks[i], KeyAt(blocks, i), len[blocks[i].layer], store, gone)
      /\ \A key \in DOMAIN store : \E i \in 1..Len(blocks) : key = KeyAt(blocks, i)
  BY DEF PoolGood
<1>2. PICK n \in Nat : n = len[l]
  BY <1>1
<1>3. len2 \in [Layers -> Nat] /\ len2[l] = n + 1 /\ \A x \in Layers : x # l => len2[x] = len[x]
  BY <1>1, <1>2
<1>4. /\ ids \in Seq(Nat) /\ Len(ids) \in Nat /\ \A i \in 1..Len(ids) :
        TileAt(blocks, ids, i, l, n)
  BY <1>1, <1>2, TilesAre
<1>5. Len(blocks) \in Nat /\ Len(ids) # 0 /\ Len(ids) \in 1..Len(ids)
  BY <1>1, <1>4, EmptySeq, LenProperties
<1>6. TileAt(blocks, ids, Len(ids), l, n)
  BY <1>4, <1>5
<1>7. k \in 1..Len(blocks) /\ blocks[k] \in Block /\ blocks[k].layer = l
      /\ blocks[k].start + blocks[k].count = n
  BY <1>5, <1>6 DEF TileAt
<1>8. new \in Seq(Block) /\ Len(new) = Len(blocks) /\ new[k] = c
      /\ \A i \in 1..Len(blocks) : i # k => new[i] = blocks[i]
  <2>1. [blocks EXCEPT ![k] = c] \in Seq(Block)
    BY <1>1, <1>7, ExceptSeq
  <2>2. Len([blocks EXCEPT ![k] = c]) = Len(blocks)
    BY <1>1, <1>7, ExceptSeq
  <2>3. \A i \in 1..Len(blocks) : [blocks EXCEPT ![k] = c][i] = IF i = k THEN c ELSE blocks[i]
    BY <1>1, <1>7, ExceptSeq
  <2> QED BY <1>7, <2>1, <2>2, <2>3
<1>9. \A i \in 1..Len(blocks) : KeyAt(new, i) = KeyAt(blocks, i) /\ new[i].layer = blocks[i].layer
                                /\ new[i].start = blocks[i].start
  BY <1>8 DEF KeyAt
<1>10. \A x : LayerBlocks(new, x) = LayerBlocks(blocks, x)
  <2> SUFFICES ASSUME NEW x PROVE LayerBlocks(blocks, x) = LayerBlocks(new, x)
    OBVIOUS
  <2>1. ASSUME NEW id \in 0..(Len(blocks) - 1) PROVE blocks[id + 1].layer = new[id + 1].layer
    <3>1. id + 1 \in 1..Len(blocks)
      BY <1>5
    <3> QED BY <1>9, <3>1
  <2>2. Len(blocks) = Len(new)
    BY <1>8
  <2>3. \A id \in 0..(Len(blocks) - 1) : blocks[id + 1].layer = new[id + 1].layer
    BY <2>1
  <2> HIDE <1>8
  <2>4. ASSUME NEW a, NEW b, Len(a) = Len(b),
               \A id \in 0..(Len(a) - 1) : a[id + 1].layer = b[id + 1].layer
        PROVE  LayerBlocks(a, x) = LayerBlocks(b, x)
    BY <2>4, LayerBlocksSame
  <2> QED BY ONLY <2>2, <2>3, <2>4
<1>11. ASSUME NEW x \in Layers PROVE Tiles(new, LayerBlocks(new, x), len2[x])
  <2>1. CASE x # l
    <3>1. PICK is : is = LayerBlocks(blocks, x)
      OBVIOUS
    <3>2. Tiles(blocks, is, len[x]) /\ len[x] \in Nat
      BY <1>1, <3>1
    <3>3. Len(is) \in Nat /\ \A i \in 1..Len(is) : TileAt(blocks, is, i, x, len[x])
      BY <1>1, <3>1, <3>2, TilesAre
    <3>4. ASSUME NEW i \in 1..Len(is)
          PROVE  /\ blocks[is[i] + 1].start = new[is[i] + 1].start
                 /\ blocks[is[i] + 1].count = new[is[i] + 1].count
      <4>1. is[i] \in Nat /\ is[i] < Len(blocks) /\ blocks[is[i] + 1].layer = x
        BY <3>3 DEF TileAt
      <4>2. is[i] + 1 \in 1..Len(blocks) /\ is[i] + 1 # k
        BY <1>5, <1>7, <2>1, <4>1
      <4> QED BY <1>8, <4>2
    <3>5. Tiles(new, is, len[x])
      BY <3>2, <3>3, <3>4, TilesKept
    <3> QED BY <1>3, <1>10, <2>1, <3>1, <3>5
  <2>2. CASE x = l
    <3>1. ASSUME NEW i \in 1..Len(ids)
          PROVE  /\ new[ids[i] + 1].start =
                      IF i = 1 THEN 0 ELSE new[ids[i - 1] + 1].start + TokensPerBlock
                 /\ i < Len(ids) => new[ids[i] + 1].count = TokensPerBlock
                 /\ i = Len(ids) => new[ids[i] + 1].start + new[ids[i] + 1].count = n + 1
      <4>1. TileAt(blocks, ids, i, l, n) /\ (i # 1 => TileAt(blocks, ids, i - 1, l, n))
        <5>1. i # 1 => i - 1 \in 1..Len(ids)
          BY <1>4
        <5> QED BY <1>4, <5>1
      <4>2. ids[i] + 1 \in 1..Len(blocks) /\ (i # 1 => ids[i - 1] + 1 \in 1..Len(blocks))
        BY <1>5, <4>1, SMTT(30) DEF TileAt
      <4>3. new[ids[i] + 1].start =
              IF i = 1 THEN 0 ELSE new[ids[i - 1] + 1].start + TokensPerBlock
        BY <1>9, <4>1, <4>2 DEF TileAt
      <4>4. i < Len(ids) => new[ids[i] + 1].count = TokensPerBlock
        <5> SUFFICES ASSUME i < Len(ids) PROVE new[ids[i] + 1].count = TokensPerBlock
          OBVIOUS
        <5>1. ids[i] < ids[Len(ids)] /\ ids[i] \in Nat /\ ids[Len(ids)] \in Nat
          <6>1. Rising(ids)
            BY <1>1, LayerBlocksAre
          <6>2. ids[i] < ids[Len(ids)]
            BY <1>5, <6>1 DEF Rising
          <6> QED BY <1>6, <4>1, <6>2 DEF TileAt
        <5>2. ids[i] + 1 # k
          BY <5>1
        <5> QED BY <1>8, <4>1, <4>2, <5>2 DEF TileAt
      <4>5. i = Len(ids) => new[ids[i] + 1].start + new[ids[i] + 1].count = n + 1
        <5>1. c.start + c.count = n + 1
          <6>1. PICK s \in Nat, q \in Nat : s = blocks[k].start /\ q = blocks[k].count
            BY <1>7 DEF Block
          <6>2. s + q = n /\ c.start = s /\ c.count = q + 1
            BY <1>7, <6>1
          <6> QED BY <6>2
        <5> QED BY <1>8, <5>1
      <4> QED BY <4>3, <4>4, <4>5
    <3>2. Tiles(new, ids, n + 1)
      BY <3>1 DEF Tiles
    <3> QED BY <1>3, <1>10, <2>2, <3>2
  <2> QED BY <2>1, <2>2
<1>12. ASSUME NEW i \in 1..Len(blocks)
       PROVE  Kept(new[i], KeyAt(new, i), len2[new[i].layer], store, gone)
  <2>1. CASE i # k
    <3>1. PICK b \in Block : b = blocks[i]
      BY <1>1, ElementOfSeq
    <3>2. b.start \in Nat /\ b.count \in Nat /\ b.layer \in Layers
      BY <3>1, SMTT(30) DEF Block
    <3>3. len[b.layer] \in Nat /\ len2[b.layer] \in Nat /\ len[b.layer] <= len2[b.layer]
      BY <1>1, <1>2, <1>3, <3>2
    <3>4. Kept(b, KeyAt(blocks, i), len[b.layer], store, gone)
      BY <1>1, <3>1
    <3>5. Kept(b, KeyAt(blocks, i), len2[b.layer], store, gone)
      BY <3>2, <3>3, <3>4, KeptLater
    <3> QED BY <1>8, <1>9, <2>1, <3>1, <3>5
  <2>2. CASE i = k
    <3>1. Kept(blocks[k], KeyAt(blocks, k), n, store, gone)
      BY <1>1, <1>2, <1>7
    <3>2. PICK s \in Nat, q \in Nat : s = blocks[k].start /\ q = blocks[k].count
      BY <1>7 DEF Block
    <3>3. ~Past(blocks[k], n)
      <4>1. WindowTokens \in Nat \ {0}
        BY PolicyAssumption
      <4> QED BY <1>7, <3>2, <4>1 DEF Past
    <3>4. blocks[k].ram /\ blocks[k].data = Positions(s, q)
          /\ KeyAt(blocks, k) \notin DOMAIN store
      <4>1. blocks[k].ram
        BY <3>1, <3>3 DEF Kept
      <4>2. KeyAt(blocks, k) \notin DOMAIN store
        BY <3>1, <3>3 DEF Kept
      <4> QED BY <3>1, <3>2, <4>1, <4>2 DEF Kept
    <3>5. c.data = Positions(c.start, c.count)
      <4>1. Positions(s, q + 1) = Append(Positions(s, q), s + q)
        BY PositionsGrow
      <4>2. s + q = len[l]
        BY <1>2, <1>7, <3>2
      <4> QED BY <3>2, <3>4, <4>1, <4>2
    <3>6. new[i] = c /\ KeyAt(new, i) = KeyAt(blocks, k) /\ c.ram
      BY <1>7, <1>8, <1>9, <2>2, <3>4
    <3> QED BY <3>4, <3>5, <3>6 DEF Kept
  <2> QED BY <2>1, <2>2
<1>13. \A key \in DOMAIN store : \E i \in 1..Len(new) : key = KeyAt(new, i)
  BY <1>1, <1>8, <1>9
<1> QED BY <1>3, <1>8, <1>11, <1>12, <1>13 DEF PoolGood

\* create_block followed by pinning it.
LEMMA BlockPinned ==
  ASSUME NEW b \in Block, NEW v \in BOOLEAN
  PROVE  /\ [b EXCEPT !.pinned = v] \in Block
         /\ [b EXCEPT !.pinned = v].layer = b.layer
         /\ [b EXCEPT !.pinned = v].start = b.start
         /\ [b EXCEPT !.pinned = v].count = b.count
         /\ [b EXCEPT !.pinned = v].ram = b.ram
         /\ [b EXCEPT !.pinned = v].data = b.data
         /\ [b EXCEPT !.pinned = v].pinned = v
<1>1. [b EXCEPT !.pinned = v]
        \in [layer : {b.layer}, start : {b.start}, count : {b.count}, ram : {b.ram},
             pinned : {v}, data : {b.data}]
  BY DEF Block
<1> QED BY <1>1 DEF Block

\* What prefill_sequence cuts a prompt into.
LEMMA PrefillIs ==
  ASSUME NEW l \in Layers, NEW n \in Nat, NEW tail, tail = PrefillBlocks(l, n)
  PROVE  /\ tail \in Seq(Block)
         /\ \A i \in 1..Len(tail) : /\ tail[i].layer = l /\ tail[i].ram
                                    /\ tail[i].data = Positions(tail[i].start, tail[i].count)
         /\ Continues(tail, 0, n)
         /\ Pinned(tail)
<1>1. PICK t \in Nat \ {0} : t = TokensPerBlock
  BY PolicyAssumption
<1>2. PICK k : k = (n + t - 1) \div t
  OBVIOUS
<1>3. /\ k \in Nat /\ (k = 0 => n = 0)
      /\ \A i \in 1..k : /\ (i - 1) * t \in Nat /\ (i - 1) * t < n
                         /\ i < k => (i - 1) * t + t <= n
                         /\ i = k => n <= (i - 1) * t + t
                         /\ i # 1 => (i - 1) * t = ((i - 1) - 1) * t + t
      /\ (1 - 1) * t = 0
  <2>1. k \in Nat /\ (k = 0 => n = 0)
    BY <1>2, Cut
  <2>2. \A i \in 1..k : (i - 1) * t \in Nat /\ (i - 1) * t < n
    <3>1. \A i \in 1..k : (i - 1) * t \in Nat
      BY <1>2, Cut
    <3>2. \A i \in 1..k : (i - 1) * t < n
      BY <1>2, Cut
    <3> QED BY <3>1, <3>2
  <2>3. \A i \in 1..k : i < k => (i - 1) * t + t <= n
    BY <1>2, Cut
  <2>4. \A i \in 1..k : i = k => n <= (i - 1) * t + t
    BY <1>2, Cut
  <2>5. \A i \in 1..k : i # 1 => (i - 1) * t = ((i - 1) - 1) * t + t
    BY <1>2, Cut
  <2>6. (1 - 1) * t = 0
    BY <1>2, Cut
  <2> QED BY <2>1, <2>2, <2>3, <2>4, <2>5, <2>6
<1>. DEFINE First(i) == (i - 1) * t
            Size(i)  == Min({t, n - First(i)})
<1>4. ASSUME NEW i \in 1..k
      PROVE  /\ First(i) \in Nat /\ Size(i) \in 1..t
             /\ i < k => Size(i) = t
             /\ i = k => First(i) + Size(i) = n
  <2>1. PICK a \in Nat : a = First(i)
    BY <1>3
  <2>2. a < n /\ (i < k => a + t <= n) /\ (i = k => n <= a + t)
    BY <1>3, <2>1
  <2>3. n - a \in Int /\ t \in Int
    OBVIOUS
  <2>4. Min({t, n - a}) = IF t <= n - a THEN t ELSE n - a
    BY <2>3, MinOfTwo
  <2> QED BY <2>1, <2>2, <2>4
<1>5. \A i \in 1..k : First(i) \in Nat /\ Size(i) \in 1..t
  BY <1>4
<1>6. \A i \in 1..k : (i < k => Size(i) = t) /\ (i = k => First(i) + Size(i) = n)
  BY <1>4
<1>7. \A i \in 1..k : i # 1 => First(i) = First(i - 1) + t
  BY <1>3
<1>8. First(1) = 0
  BY <1>3
<1>9. tail = [i \in 1..k |-> [KVBlock(l, First(i), Positions(First(i), Size(i)))
                                 EXCEPT !.pinned = First(i) < SinkTokens]]
  BY <1>1, <1>2 DEF PrefillBlocks
<1>. HIDE DEF First, Size
<1>10. ASSUME NEW i \in 1..k
       PROVE  /\ tail[i] \in Block /\ tail[i].layer = l /\ tail[i].ram
              /\ tail[i].start = First(i) /\ tail[i].count = Size(i)
              /\ tail[i].data = Positions(First(i), Size(i))
              /\ tail[i].pinned => tail[i].start < SinkTokens
  <2>1. PICK a \in Nat, m \in 1..t : a = First(i) /\ m = Size(i)
    BY <1>5
  <2>2. PICK data \in Seq(Nat) : data = Positions(a, m) /\ Len(data) = m
    <3>1. m \in Nat
      OBVIOUS
    <3>2. Positions(a, m) \in Seq(Nat) /\ Len(Positions(a, m)) = m
      BY <3>1, PositionsAre
    <3> QED BY <3>2
  <2>3. PICK b : b = KVBlock(l, a, data)
    OBVIOUS
  <2>4. b = [layer |-> l, start |-> a, count |-> m, ram |-> TRUE, data |-> data,
             pinned |-> FALSE]
    BY <2>2, <2>3 DEF KVBlock
  <2>5. b \in Block /\ b.layer = l /\ b.start = a /\ b.count = m /\ b.ram /\ b.data = data
    BY <1>1, <2>4 DEF Block
  <2>6. tail[i] = [b EXCEPT !.pinned = a < SinkTokens]
    BY <1>9, <2>1, <2>2, <2>3
  <2>7. (a < SinkTokens) \in BOOLEAN
    OBVIOUS
  <2>8. PICK v \in BOOLEAN : tail[i] = [b EXCEPT !.pinned = v] /\ (v <=> a < SinkTokens)
    BY <2>6, <2>7
  <2>9. /\ tail[i] \in Block
        /\ tail[i].layer = l /\ tail[i].start = a /\ tail[i].count = m /\ tail[i].ram
        /\ tail[i].data = data /\ tail[i].pinned = v
    <3>1. PICK c : c = [b EXCEPT !.pinned = v]
      OBVIOUS
    <3>2. /\ c \in Block /\ c.layer = b.layer /\ c.start = b.start /\ c.count = b.count
          /\ c.ram = b.ram /\ c.data = b.data /\ c.pinned = v
      BY <2>5, <3>1, BlockPinned
    <3> QED BY <2>5, <2>8, <3>1, <3>2
  <2> QED BY <2>1, <2>2, <2>8, <2>9
<1>11. tail \in Seq(Block) /\ Len(tail) = k
  <2>1. \A i \in 1..k : tail[i] \in Block
    BY <1>10
  <2>2. tail = [i \in 1..k |-> tail[i]]
    BY <1>9
  <2> QED BY <1>3, <2>1, <2>2
<1>12. \A i \in 1..Len(tail) : /\ tail[i].layer = l /\ tail[i].ram
                               /\ tail[i].data = Positions(tail[i].start, tail[i].count)
  BY <1>10, <1>11
<1>13. Continues(tail, 0, n)
  <2>1. tail = <<>> => n = 0
    BY <1>3, <1>11, EmptySeq
  <2>2. ASSUME NEW i \in 1..Len(tail)
        PROVE  /\ i = 1 => tail[i].start = 0
               /\ i # 1 => tail[i].start = tail[i - 1].start + TokensPerBlock
               /\ i < Len(tail) => tail[i].count = TokensPerBlock
               /\ i = Len(tail) => tail[i].start + tail[i].count = n
    <3>1. i \in 1..k /\ tail[i].start = First(i) /\ tail[i].count = Size(i)
      BY <1>10, <1>11
    <3>2. i # 1 => i - 1 \in 1..k /\ tail[i - 1].start = First(i - 1)
      <4>1. i # 1 => i - 1 \in 1..k
        BY <1>3, <3>1
      <4> QED BY <1>10, <4>1
    <3>3. i # 1 => tail[i].start = tail[i - 1].start + TokensPerBlock
      BY <1>1, <1>7, <3>1, <3>2
    <3>4. i = 1 => tail[i].start = 0
      BY <1>8, <3>1
    <3> QED BY <1>1, <1>6, <1>11, <3>1, <3>3, <3>4
  <2> QED BY <2>1, <2>2 DEF Continues
<1>14. Pinned(tail)
  BY <1>10, <1>11 DEF Pinned
<1> QED BY <1>11, <1>12, <1>13, <1>14

\* What the eviction of the blocks of a layer that are in cut leaves behind.
Leaves(blocks, d, pool2, dev2, l, cut) ==
  /\ Len(pool2) = Len(blocks)
  /\ Pinned(blocks) => Pinned(pool2)
  /\ \A n \in Nat : Len(blocks) <= n /\ Costs(d, n) => Costs(dev2, n)
  /\ \A id \in 0..(Len(blocks) - 1) : blocks[id + 1].layer = l =>
       IF id \in cut THEN ~Exhausted(dev2.sim) => ~pool2[id + 1].ram
                     ELSE pool2[id + 1] = blocks[id + 1]

\* Offload of blocks of a layer that are in RAM and past.
LEMMA OffloadLayer ==
  ASSUME NEW blocks, NEW len, NEW gone, PoolGood(blocks, len, dev.store, gone), AdapterGood(dev),
         NEW l, NEW ids, ids = LayerBlocks(blocks, l), NEW cut,
         \A id \in cut : id \in 0..(Len(blocks) - 1) =>
             blocks[id + 1].ram /\ Past(blocks[id + 1], len[blocks[id + 1].layer]),
         NEW e, e = Offload(blocks, OnlyIn(ids, cut))
  PROVE  /\ PoolGood(e.pool, len, e.dev.store, gone)
         /\ AdapterGood(e.dev)
         /\ Alike(blocks, e.pool)
         /\ StoresMore(dev, e.dev)
         /\ Leaves(blocks, dev, e.pool, e.dev, l, cut)
<1>1. blocks \in Seq(Block)
  BY DEF PoolGood
<1>2. /\ ids \in Seq(Nat) /\ Rising(ids)
      /\ \A id : Among(id, ids) <=> id \in 0..(Len(blocks) - 1) /\ blocks[id + 1].layer = l
  BY <1>1, LayerBlocksAre
<1>3. PICK cold : cold = OnlyIn(ids, cut)
  OBVIOUS
<1>4. cold \in Seq(Nat) /\ Rising(cold)
  BY <1>2, <1>3, OnlyInAmong, OnlyInRises
<1>5. \A x : Among(x, cold) <=> x \in cut /\ Among(x, ids)
  BY <1>2, <1>3, OnlyInAmong
<1>6. ASSUME NEW j \in 1..Len(cold)
      PROVE  /\ cold[j] < Len(blocks) /\ blocks[cold[j] + 1].ram
             /\ Past(blocks[cold[j] + 1], len[blocks[cold[j] + 1].layer])
  <2>1. Among(cold[j], cold)
    BY DEF Among
  <2>2. cold[j] \in cut /\ cold[j] \in 0..(Len(blocks) - 1)
    BY <1>2, <1>5, <2>1
  <2>3. Len(blocks) \in Nat
    BY <1>1, LenProperties
  <2> QED BY <2>2, <2>3
<1>7. PICK base : base = [pool |-> blocks, dev |-> dev]
  OBVIOUS
<1>8. base.pool = blocks /\ base.dev = dev
  BY <1>7
<1>9. e = FoldLeft(OffloadBlock, base, cold)
  BY <1>3, <1>7 DEF Offload
<1>10. /\ PoolGood(e.pool, len, e.dev.store, gone)
       /\ AdapterGood(e.dev)
       /\ Alike(blocks, e.pool)
       /\ StoresMore(dev, e.dev)
       /\ Evicts(base, e)
       /\ Cleared(e, blocks, cold, Len(cold))
  BY <1>4, <1>6, <1>8, <1>9, OffloadKeeps
<1>11. ASSUME NEW id \in 0..(Len(blocks) - 1), blocks[id + 1].layer = l
       PROVE  IF id \in cut THEN ~Exhausted(e.dev.sim) => ~e.pool[id + 1].ram
                            ELSE e.pool[id + 1] = blocks[id + 1]
  <2>1. Among(id, ids)
    BY <1>2, <1>11
  <2>2. CASE id \in cut
    <3>1. PICK j \in 1..Len(cold) : cold[j] = id
      BY <1>5, <2>1, <2>2 DEF Among
    <3>2. j <= Len(cold)
      BY <1>4, LenProperties
    <3>3. ~Exhausted(e.dev.sim) => ~e.pool[cold[j] + 1].ram
      BY <1>10, <3>2 DEF Cleared
    <3> QED BY <2>2, <3>1, <3>3
  <2>3. CASE id \notin cut
    <3>1. ~Among(id, cold)
      BY <1>5, <2>3
    <3>2. e.pool[id + 1] = blocks[id + 1]
      BY <1>10, <3>1 DEF Cleared
    <3> QED BY <2>3, <3>2
  <2> QED BY <2>2, <2>3
<1>12. Leaves(blocks, dev, e.pool, e.dev, l, cut)
  <2>1. PICK d, e2 : d = dev /\ e2 = e
    OBVIOUS
  <2>2. /\ Len(e2.pool) = Len(blocks)
        /\ Pinned(blocks) => Pinned(e2.pool)
        /\ \A n \in Nat : Len(blocks) <= n /\ Costs(d, n) => Costs(e2.dev, n)
    BY <1>8, <1>10, <2>1 DEF Evicts
  <2>3. Leaves(blocks, d, e2.pool, e2.dev, l, cut)
    BY <1>11, <2>1, <2>2 DEF Leaves
  <2> QED BY <2>1, <2>3
<1> QED BY <1>10, <1>12

\* What prefill_sequence and append_token do: blocks is the pool with the tokens added, and
\* of those of the layer the ones in cut leave RAM; one that stays there is hot or pinned.
Adds(l, m, blocks, len2, cut) ==
  /\ l \in Layers /\ m \in Nat /\ len2 = [length EXCEPT ![l] = m]
  /\ PoolGood(blocks, len2, dev.store, erased)
  /\ \A id \in cut : id \in 0..(Len(blocks) - 1) =>
       blocks[id + 1].ram /\ Past(blocks[id + 1], len2[blocks[id + 1].layer])
  /\ LET after == Offload(blocks, OnlyIn(LayerBlocks(blocks, l), cut))
     IN  pool' = after.pool /\ dev' = after.dev
  /\ length' = len2 /\ erased' = erased
  /\ Len(pool) <= Len(blocks)
  /\ \A i \in 1..Len(pool) : blocks[i].layer = pool[i].layer
  /\ Pinned(pool) => Pinned(blocks)
  /\ \A id \in 0..(Len(blocks) - 1) :
       blocks[id + 1].layer = l /\ blocks[id + 1].ram /\ id \notin cut =>
         IsHot(blocks[id + 1], m) \/ blocks[id + 1].pinned

\* What such a call leaves once the blocks that are cold are on the SSD.
LEMMA AddedInv ==
  ASSUME IInv, NEW l, NEW m, NEW blocks, NEW len2, NEW cut, Adds(l, m, blocks, len2, cut)
  PROVE  /\ IInv'
         /\ Alike(blocks, pool')
         /\ StoresMore(dev, dev')
         /\ erased' = erased
         /\ Leaves(blocks, dev, pool', dev', l, cut)
<1>1. AdapterGood(dev)
  BY DEF IInv
<1>2. PICK ids : ids = LayerBlocks(blocks, l)
  OBVIOUS
<1>3. PICK e : e = Offload(blocks, OnlyIn(ids, cut))
  OBVIOUS
<1>4. pool' = e.pool /\ dev' = e.dev
  BY <1>2, <1>3 DEF Adds
<1>5. /\ PoolGood(e.pool, len2, e.dev.store, erased)
      /\ AdapterGood(e.dev)
      /\ Alike(blocks, e.pool)
      /\ StoresMore(dev, e.dev)
      /\ Leaves(blocks, dev, e.pool, e.dev, l, cut)
  <2>1. PoolGood(blocks, len2, dev.store, erased)
    BY DEF Adds
  <2>2. \A id \in cut : id \in 0..(Len(blocks) - 1) =>
          blocks[id + 1].ram /\ Past(blocks[id + 1], len2[blocks[id + 1].layer])
    BY DEF Adds
  <2> QED BY <1>1, <1>2, <1>3, <2>1, <2>2, OffloadLayer
<1>6. length' = len2 /\ erased' = erased
  BY DEF Adds
<1> QED BY <1>4, <1>5, <1>6 DEF IInv

\* A layer without tokens has no blocks.
LEMMA NoBlocksYet ==
  ASSUME NEW blocks, NEW len, NEW store, NEW gone, PoolGood(blocks, len, store, gone),
         NEW l \in Layers, len[l] = 0
  PROVE  LayerBlocks(blocks, l) = <<>>
<1>1. PICK n \in Nat : n = len[l]
  BY DEF PoolGood
<1>2. PICK ids : ids = LayerBlocks(blocks, l)
  OBVIOUS
<1>3. blocks \in Seq(Block) /\ Tiles(blocks, ids, n)
  BY <1>1, <1>2 DEF PoolGood
<1>4. (ids = <<>>) <=> (n = 0)
  BY <1>2, <1>3, TilesAre
<1> QED BY <1>1, <1>2, <1>4

\* A block of the pool that a layer's tokens have left behind, whatever the layer.
LEMMA ColdBlocks ==
  ASSUME NEW blocks, NEW len, NEW store, NEW gone, PoolGood(blocks, len, store, gone),
         NEW id \in 0..(Len(blocks) - 1), NEW n, n = len[blocks[id + 1].layer],
         ~IsHot(blocks[id + 1], n)
  PROVE  Past(blocks[id + 1], n)
<1>1. blocks \in Seq(Block) /\ Len(blocks) \in Nat
  BY LenProperties DEF PoolGood
<1>2. id + 1 \in 1..Len(blocks)
  BY <1>1
<1>3. PICK b \in Block : b = blocks[id + 1]
  BY <1>1, <1>2, ElementOfSeq
<1>4. b.start \in Nat /\ b.count \in Nat \ {0} /\ b.layer \in Layers
  BY <1>3 DEF Block
<1>5. n \in Nat
  BY <1>3, <1>4 DEF PoolGood
<1>6. Past(b, n)
  BY <1>3, <1>4, <1>5, ColdIsPast
<1> QED BY <1>3, <1>6

\* prefill_sequence
LEMMA PrefillAdds ==
  ASSUME IInv, NEW l \in Layers, NEW n \in PromptLengths, PrefillSequence(l, n)
  PROVE  \E blocks, len2, cut : Adds(l, n, blocks, len2, cut)
<1>1. n \in Nat
  BY PromptAssumption
<1>2. /\ PoolGood(pool, length, dev.store, erased)
      /\ length[l] = 0
  BY DEF IInv, PrefillSequence
<1>3. length' = [length EXCEPT ![l] = n] /\ erased' = erased
  BY DEF PrefillSequence
<1>4. PICK tail : tail = PrefillBlocks(l, n)
  OBVIOUS
<1>5. tail \in Seq(Block)
  BY <1>1, <1>4, PrefillIs
<1>6. \A i \in 1..Len(tail) : /\ tail[i].layer = l /\ tail[i].ram
                              /\ tail[i].data = Positions(tail[i].start, tail[i].count)
  BY <1>1, <1>4, PrefillIs
<1>7. Continues(tail, length[l], n)
  <2>1. Continues(tail, 0, n)
    BY <1>1, <1>4, PrefillIs
  <2> QED BY <1>2, <2>1
<1>8. PICK blocks, len2 : blocks = pool \o tail /\ len2 = [length EXCEPT ![l] = n]
  OBVIOUS
<1>9. PoolGood(blocks, len2, dev.store, erased)
  <2>1. LayerBlocks(pool, l) = <<>>
    BY <1>2, NoBlocksYet
  <2>2. IsFull(pool, LayerBlocks(pool, l))
    BY <2>1 DEF IsFull
  <2>3. length[l] <= n
    BY <1>1, <1>2
  <2> QED BY <1>1, <1>2, <1>5, <1>6, <1>7, <1>8, <2>2, <2>3, PoolJoin
<1>. DEFINE ids == LayerBlocks(blocks, l)
            cut == {id \in ToSet(ids) : ~IsHot(blocks[id + 1], n)}
<1>10. /\ Len(blocks) \in Nat /\ Len(pool) \in Nat /\ Len(blocks) = Len(pool) + Len(tail)
       /\ \A i \in 1..Len(blocks) : i > Len(pool) => blocks[i] = tail[i - Len(pool)]
       /\ blocks \in Seq(Block)
  BY <1>2, <1>5, <1>8, ConcatProperties, LenProperties DEF PoolGood
<1>11. \A id : Among(id, ids) <=> id \in 0..(Len(blocks) - 1) /\ blocks[id + 1].layer = l
  BY <1>10, LayerBlocksAre
<1>12. ASSUME NEW id \in cut, id \in 0..(Len(blocks) - 1)
       PROVE  blocks[id + 1].ram /\ Past(blocks[id + 1], len2[blocks[id + 1].layer])
  <2>1. blocks[id + 1].layer = l
    <3>1. Among(id, ids)
      BY <1>12 DEF Among, ToSet
    <3> QED BY <1>11, <3>1
  <2>2. len2[blocks[id + 1].layer] = n
    BY <1>2, <1>8, <2>1 DEF PoolGood
  <2>3. Past(blocks[id + 1], n)
    <3>1. ~IsHot(blocks[id + 1], n)
      OBVIOUS
    <3> QED BY <1>9, <1>12, <2>2, <3>1, ColdBlocks
  <2>4. ~(id < Len(pool))
    <3> SUFFICES ASSUME id < Len(pool) PROVE FALSE
      OBVIOUS
    <3>1. pool \in Seq(Block)
      BY <1>2 DEF PoolGood
    <3>2. id \in 0..(Len(pool) - 1) /\ blocks[id + 1] = pool[id + 1]
      BY <1>5, <1>8, <1>10, <1>12, <3>1, ConcatProperties
    <3>3. Among(id, LayerBlocks(pool, l))
      BY <2>1, <3>1, <3>2, LayerBlocksAre
    <3>4. LayerBlocks(pool, l) = <<>>
      BY <1>2, NoBlocksYet
    <3> QED BY <3>3, <3>4, EmptySeq DEF Among
  <2>5. PICK i \in 1..Len(blocks) : i = id + 1
    BY <1>10, <1>12
  <2>6. i > Len(pool)
    BY <1>10, <1>12, <2>4, <2>5
  <2>7. i - Len(pool) \in 1..Len(tail)
    <3>1. Len(tail) \in Nat
      BY <1>5, LenProperties
    <3> QED BY <1>10, <2>6, <3>1
  <2>8. blocks[id + 1].ram
    <3>1. blocks[i] = tail[i - Len(pool)]
      BY <1>10, <2>6
    <3>2. tail[i - Len(pool)].ram
      BY <1>6, <2>7
    <3> QED BY <2>5, <3>1, <3>2
  <2> QED BY <2>2, <2>3, <2>8
<1>13. LET after == Offload(blocks, OnlyIn(LayerBlocks(blocks, l), cut))
       IN  pool' = after.pool /\ dev' = after.dev
  BY <1>4, <1>8 DEF PrefillSequence
<1>16. ASSUME NEW id \in 0..(Len(blocks) - 1), blocks[id + 1].layer = l, blocks[id + 1].ram,
              id \notin cut
       PROVE  IsHot(blocks[id + 1], n) \/ blocks[id + 1].pinned
  <2>1. id \in ToSet(ids)
    <3>1. Among(id, ids)
      BY <1>11, <1>16
    <3> QED BY <3>1 DEF Among, ToSet
  <2> QED BY <1>16, <2>1
<1>. HIDE DEF cut
<1>14. length' = len2
  BY <1>3, <1>8
<1>15. \A id \in cut : id \in 0..(Len(blocks) - 1) =>
         blocks[id + 1].ram /\ Past(blocks[id + 1], len2[blocks[id + 1].layer])
  BY <1>12
<1>17. Len(pool) <= Len(blocks)
  <2>1. Len(tail) \in Nat
    BY <1>5, LenProperties
  <2> QED BY <1>10, <2>1
<1>18. ASSUME Pinned(pool) PROVE Pinned(blocks)
  <2> SUFFICES ASSUME NEW i \in 1..Len(blocks), blocks[i].pinned
               PROVE  blocks[i].start < SinkTokens
    BY DEF Pinned
  <2>1. CASE i > Len(pool)
    <3>1. i - Len(pool) \in 1..Len(tail)
      <4>1. Len(tail) \in Nat
        BY <1>5, LenProperties
      <4> QED BY <1>10, <2>1, <4>1
    <3>2. blocks[i] = tail[i - Len(pool)]
      BY <1>10, <2>1
    <3>3. Pinned(tail)
      BY <1>1, <1>4, PrefillIs
    <3> QED BY <3>1, <3>2, <3>3 DEF Pinned
  <2>2. CASE ~(i > Len(pool))
    <3>1. i \in 1..Len(pool)
      BY <1>10, <2>2
    <3>2. pool \in Seq(Block)
      BY <1>2 DEF PoolGood
    <3>3. blocks[i] = pool[i]
      BY <1>5, <1>8, <3>1, <3>2, ConcatProperties
    <3> QED BY <1>18, <3>1, <3>3 DEF Pinned
  <2> QED BY <2>1, <2>2
<1>19. \A i \in 1..Len(pool) : blocks[i].layer = pool[i].layer
  <2>1. pool \in Seq(Block)
    BY <1>2 DEF PoolGood
  <2> QED BY <1>5, <1>8, <2>1, ConcatProperties
<1>20. Adds(l, n, blocks, len2, cut)
  BY <1>1, <1>3, <1>8, <1>9, <1>13, <1>14, <1>15, <1>16, <1>17, <1>18, <1>19 DEF Adds
<1> QED BY <1>20

LEMMA PrefillInv ==
  ASSUME IInv, NEW l \in Layers, NEW n \in PromptLengths, PrefillSequence(l, n)
  PROVE  IInv' /\ StoresMore(dev, dev') /\ erased' = erased
BY PrefillAdds, AddedInv

\* The pool with the token that append_token adds.
LEMMA WithTokenIs ==
  ASSUME PoolGood(pool, length, dev.store, erased), NEW l \in Layers,
         NEW n \in Nat, n = length[l],
         NEW len2, len2 = [length EXCEPT ![l] = n + 1],
         NEW blocks, blocks = WithToken(l)
  PROVE  /\ PoolGood(blocks, len2, dev.store, erased)
         /\ Len(pool) <= Len(blocks)
         /\ \A i \in 1..Len(pool) : blocks[i].layer = pool[i].layer
         /\ Pinned(pool) => Pinned(blocks)
<1>1. /\ pool \in Seq(Block) /\ length \in [Layers -> Nat] /\ Len(pool) \in Nat
      /\ Tiles(pool, LayerBlocks(pool, l), n)
  BY LenProperties DEF PoolGood
<1>2. PICK ids : ids = LayerBlocks(pool, l)
  OBVIOUS
<1>3. /\ ids \in Seq(Nat) /\ Len(ids) \in Nat
      /\ \A i \in 1..Len(ids) : TileAt(pool, ids, i, l, n)
  BY <1>1, <1>2, TilesAre
<1>4. Counted(pool, ids) = n
  BY <1>1, <1>2, CountedIs
<1>5. ASSUME ids # <<>>
      PROVE  /\ Last(ids) = ids[Len(ids)] /\ Last(ids) + 1 \in 1..Len(pool)
             /\ pool[Last(ids) + 1] \in Block
  <2>1. Len(ids) \in 1..Len(ids)
    <3>1. Len(ids) # 0
      BY <1>3, <1>5, EmptySeq
    <3> QED BY <1>3, <3>1
  <2>2. TileAt(pool, ids, Len(ids), l, n)
    BY <1>3, <2>1
  <2>3. Last(ids) = ids[Len(ids)]
    BY DEF Last
  <2> QED BY <1>1, <2>2, <2>3 DEF TileAt
<1>6. CASE ids # <<>> /\ pool[Last(ids) + 1].count < TokensPerBlock
  <2>1. PICK k \in 1..Len(pool) : k = Last(ids) + 1 /\ k = ids[Len(ids)] + 1
    BY <1>5, <1>6
  <2>2. PICK b \in Block : b = pool[k]
    BY <1>5, <1>6, <2>1
  <2>3. PICK m \in 1..TokensPerBlock : m = b.count + 1
    <3>1. b.count \in 1..TokensPerBlock /\ b.count < TokensPerBlock
      BY <1>6, <2>1, <2>2 DEF Block
    <3>2. TokensPerBlock \in Nat
      BY PolicyAssumption
    <3> QED BY <3>1, <3>2
  <2>8. PICK data \in Seq(Nat) : data = b.data \o <<n>> /\ data = Append(b.data, n)
    <3>1. b.data \in Seq(Nat)
      BY <2>2 DEF Block
    <3>2. PICK s \in Seq(Nat) : s = b.data
      BY <3>1
    <3>3. s \o <<n>> \in Seq(Nat) /\ s \o <<n>> = Append(s, n)
      OBVIOUS
    <3> QED BY <3>2, <3>3
  <2>4. PICK c \in Block :
          /\ c = [[b EXCEPT !.count = m] EXCEPT !.data = data]
          /\ c.count = m /\ c.data = data
          /\ c.layer = b.layer /\ c.start = b.start /\ c.ram = b.ram
          /\ c.pinned = b.pinned
    <3>1. PICK c : c = [[b EXCEPT !.count = m] EXCEPT !.data = data]
      OBVIOUS
    <3>2. /\ c \in Block /\ c.count = m /\ c.data = data
          /\ c.layer = b.layer /\ c.start = b.start /\ c.ram = b.ram
          /\ c.pinned = b.pinned
      BY <3>1 DEF Block
    <3> QED BY <3>1, <3>2, Zenon
  <2>5. blocks = [pool EXCEPT ![k] = c]
    <3>1. blocks = [pool EXCEPT ![Last(ids) + 1].count = pool[Last(ids) + 1].count + 1,
                                ![Last(ids) + 1].data = pool[Last(ids) + 1].data \o <<length[l]>>]
      BY <1>2, <1>6, Zenon DEF WithToken
    <3>2. blocks = [pool EXCEPT ![k].count = m, ![k].data = data]
      BY <2>1, <2>2, <2>3, <2>8, <3>1
    <3> QED BY <2>2, <2>4, <3>2
  <2>6. len2 = [length EXCEPT ![l] = length[l] + 1]
    OBVIOUS
  <2>7. pool[k].count < TokensPerBlock /\ ids # <<>>
    BY <1>6, <2>1
  <2>9. /\ c.layer = pool[k].layer /\ c.start = pool[k].start /\ c.count = pool[k].count + 1
        /\ c.ram = pool[k].ram /\ c.data = Append(pool[k].data, length[l])
    BY <2>2, <2>3, <2>4, <2>8
  <2>10. PoolGood([pool EXCEPT ![k] = c], len2, dev.store, erased)
    <3>1. PICK k2 : k2 = k
      OBVIOUS
    <3>2. k2 = ids[Len(ids)] + 1 /\ pool[k2].count < TokensPerBlock /\ ids # <<>>
      BY <2>1, <2>7, <3>1
    <3>3. /\ c.layer = pool[k2].layer /\ c.start = pool[k2].start
          /\ c.count = pool[k2].count + 1
          /\ c.ram = pool[k2].ram /\ c.data = Append(pool[k2].data, length[l])
      BY <2>9, <3>1
    <3>4. PICK len3, new : len3 = [length EXCEPT ![l] = length[l] + 1]
          /\ new = [pool EXCEPT ![k2] = c]
      OBVIOUS
    <3>5. PoolGood(new, len3, dev.store, erased)
      BY <1>2, <3>2, <3>3, <3>4, PoolExtend
    <3> QED BY <2>6, <3>1, <3>4, <3>5
  <2>11. /\ Len(blocks) = Len(pool)
         /\ \A i \in 1..Len(pool) : blocks[i] = IF i = k THEN c ELSE pool[i]
    <3>1. blocks = [pool EXCEPT ![k] = c] /\ pool \in Seq(Block)
      BY <1>1, <2>5
    <3> QED BY <3>1
  <2>12. ASSUME Pinned(pool) PROVE Pinned(blocks)
    BY <2>2, <2>4, <2>11, <2>12 DEF Pinned
  <2>13. Len(pool) <= Len(blocks) /\ \A i \in 1..Len(pool) : blocks[i].layer = pool[i].layer
    BY <1>1, <2>9, <2>11
  <2> QED BY <2>5, <2>10, <2>12, <2>13
<1>7. CASE ~(ids # <<>> /\ pool[Last(ids) + 1].count < TokensPerBlock)
  <2>1. PICK x : x = KVBlock(l, n, <<n>>)
    OBVIOUS
  <2>2. blocks = Append(pool, x)
    <3>1. n = Counted(pool, LayerBlocks(pool, l))
      BY <1>2, <1>4
    <3> QED BY <1>2, <1>7, <2>1, <3>1 DEF WithToken
  <2>3. <<n>> \in Seq(Nat) /\ Len(<<n>>) = 1 /\ <<n>> = Positions(n, 1)
    <3>3. PICK one \in Nat : one = 1
      OBVIOUS
    <3>4. /\ Positions(n, one) \in Seq(Nat) /\ Len(Positions(n, one)) = one
          /\ \A i \in 1..one : Positions(n, one)[i] = n + i - 1
      BY PositionsAre
    <3>1. Positions(n, 1) \in Seq(Nat) /\ Len(Positions(n, 1)) = 1 /\ Positions(n, 1)[1] = n
      BY <3>3, <3>4
    <3>2. PICK p \in Seq(Nat) : p = Positions(n, 1) /\ Len(p) = 1 /\ p[1] = n
      BY <3>1
    <3> QED BY <3>2
  <2>4. x = [layer |-> l, start |-> n, count |-> 1, ram |-> TRUE, data |-> <<n>>,
             pinned |-> FALSE]
    BY <2>1, <2>3 DEF KVBlock
  <2>5. /\ x \in Block /\ x.layer = l /\ x.start = n /\ x.count = 1 /\ x.ram
        /\ x.data = Positions(x.start, x.count)
    <3>1. 1 \in 1..TokensPerBlock
      BY PolicyAssumption
    <3> QED BY <2>3, <2>4, <3>1 DEF Block
  <2>6. PICK tail \in Seq(Block) : tail = <<x>> /\ Len(tail) = 1 /\ tail[1] = x
    <3>1. <<x>> \in Seq(Block) /\ Len(<<x>>) = 1 /\ <<x>>[1] = x
      BY <2>5
    <3> QED BY <3>1
  <2>7. blocks = pool \o tail
    <3>1. pool \o <<x>> = Append(pool, x)
      BY <1>1, <2>5
    <3> QED BY <2>2, <2>6, <3>1
  <2>8. \A i \in 1..Len(tail) : /\ tail[i].layer = l /\ tail[i].ram
                                /\ tail[i].data = Positions(tail[i].start, tail[i].count)
    BY <2>5, <2>6
  <2>9. PICK m \in Nat : m = n + 1
    OBVIOUS
  <2>10. Continues(tail, length[l], m)
    <3>1. tail # <<>>
      BY <2>6, EmptySeq
    <3> QED BY <2>5, <2>6, <2>9, <3>1 DEF Continues
  <2>11. IsFull(pool, LayerBlocks(pool, l))
    <3> SUFFICES ASSUME ids # <<>> PROVE pool[ids[Len(ids)] + 1].count = TokensPerBlock
      BY <1>2 DEF IsFull
    <3>1. pool[Last(ids) + 1].count \in 1..TokensPerBlock
      BY <1>5 DEF Block
    <3>2. ~(pool[Last(ids) + 1].count < TokensPerBlock)
      BY <1>7
    <3>3. TokensPerBlock \in Nat
      BY PolicyAssumption
    <3> QED BY <1>5, <3>1, <3>2, <3>3
  <2>12. length[l] <= m /\ len2 = [length EXCEPT ![l] = m]
    BY <2>9
  <2>13. PoolGood(pool \o tail, len2, dev.store, erased)
    <3>1. PICK len3, both : len3 = [length EXCEPT ![l] = m] /\ both = pool \o tail
      OBVIOUS
    <3>2. PoolGood(both, len3, dev.store, erased)
      BY <2>8, <2>10, <2>11, <2>12, <3>1, PoolJoin
    <3> QED BY <2>12, <3>1, <3>2
  <2>14. /\ Len(blocks) = Len(pool) + 1
         /\ \A i \in 1..Len(blocks) : IF i = Len(pool) + 1 THEN blocks[i] = x
                                                         ELSE blocks[i] = pool[i]
    <3>1. blocks = Append(pool, x) /\ pool \in Seq(Block) /\ x \in Block
      BY <1>1, <2>2, <2>5
    <3> QED BY <3>1, AppendProperties
  <2>15. x.pinned = FALSE
    BY <2>4
  <2>16. ASSUME Pinned(pool) PROVE Pinned(blocks)
    <3> SUFFICES ASSUME NEW i \in 1..Len(blocks), blocks[i].pinned
                 PROVE  blocks[i].start < SinkTokens
      BY DEF Pinned
    <3>1. i # Len(pool) + 1
      BY <2>14, <2>15
    <3>2. i \in 1..Len(pool) /\ blocks[i] = pool[i]
      BY <1>1, <2>14, <3>1
    <3> QED BY <2>16, <3>2 DEF Pinned
  <2>17. Len(pool) <= Len(blocks) /\ \A i \in 1..Len(pool) : blocks[i].layer = pool[i].layer
    BY <1>1, <2>14
  <2> QED BY <2>7, <2>13, <2>16, <2>17
<1> QED BY <1>6, <1>7

\* append_token
LEMMA AppendAdds ==
  ASSUME IInv, NEW l \in Layers, AppendToken(l)
  PROVE  \E m, blocks, len2, cut : Adds(l, m, blocks, len2, cut)
<1>1. PoolGood(pool, length, dev.store, erased)
  BY DEF IInv
<1>2. PICK n \in Nat : n = length[l]
  BY <1>1 DEF PoolGood
<1>3. PICK m \in Nat : m = n + 1
  OBVIOUS
<1>4. PICK len2, blocks : len2 = [length EXCEPT ![l] = n + 1] /\ blocks = WithToken(l)
  OBVIOUS
<1>5. /\ PoolGood(blocks, len2, dev.store, erased)
      /\ Len(pool) <= Len(blocks)
      /\ \A i \in 1..Len(pool) : blocks[i].layer = pool[i].layer
      /\ Pinned(pool) => Pinned(blocks)
  BY <1>1, <1>2, <1>4, WithTokenIs, ZenonT(30)
<1>6. length' = len2 /\ erased' = erased /\ len2[l] = m
  BY <1>1, <1>2, <1>3, <1>4 DEF AppendToken, PoolGood
<1>7. PICK ids : ids = LayerBlocks(blocks, l)
  OBVIOUS
<1>8. Counted(blocks, ids) = m
  <2>1. blocks \in Seq(Block) /\ Tiles(blocks, ids, m)
    BY <1>5, <1>6, <1>7 DEF PoolGood
  <2> QED BY <1>7, <2>1, CountedIs
<1>. DEFINE cut == {id \in ToSet(ids) : /\ blocks[id + 1].ram /\ ~blocks[id + 1].pinned
                                        /\ ~IsHot(blocks[id + 1], m)}
<1>9. LET after == Offload(blocks, OnlyIn(ids, cut)) IN pool' = after.pool /\ dev' = after.dev
  BY <1>4, <1>7, <1>8 DEF AppendToken
<1>10. blocks \in Seq(Block)
  BY <1>5 DEF PoolGood
<1>11. \A id : Among(id, ids) <=> id \in 0..(Len(blocks) - 1) /\ blocks[id + 1].layer = l
  BY <1>7, <1>10, LayerBlocksAre
<1>12. ASSUME NEW id \in cut, id \in 0..(Len(blocks) - 1)
       PROVE  blocks[id + 1].ram /\ Past(blocks[id + 1], len2[blocks[id + 1].layer])
  <2>1. blocks[id + 1].layer = l
    <3>1. Among(id, ids)
      BY <1>12 DEF Among, ToSet
    <3> QED BY <1>11, <3>1
  <2>2. m = len2[blocks[id + 1].layer]
    BY <1>6, <2>1
  <2>3. ~IsHot(blocks[id + 1], m) /\ blocks[id + 1].ram
    OBVIOUS
  <2>4. Past(blocks[id + 1], m)
    BY <1>5, <1>12, <2>2, <2>3, ColdBlocks
  <2> QED BY <2>2, <2>3, <2>4
<1>15. ASSUME NEW id \in 0..(Len(blocks) - 1), blocks[id + 1].layer = l, blocks[id + 1].ram,
              id \notin cut
       PROVE  IsHot(blocks[id + 1], m) \/ blocks[id + 1].pinned
  <2>1. id \in ToSet(ids)
    <3>1. Among(id, ids)
      BY <1>11, <1>15
    <3> QED BY <3>1 DEF Among, ToSet
  <2> QED BY <1>15, <2>1
<1>. HIDE DEF cut
<1>13. LET after == Offload(blocks, OnlyIn(LayerBlocks(blocks, l), cut))
       IN  pool' = after.pool /\ dev' = after.dev
  BY <1>7, <1>9
<1>14. \A id \in cut : id \in 0..(Len(blocks) - 1) =>
         blocks[id + 1].ram /\ Past(blocks[id + 1], len2[blocks[id + 1].layer])
  BY <1>12
<1>16. len2 = [length EXCEPT ![l] = m]
  BY <1>3, <1>4
<1>17. Adds(l, m, blocks, len2, cut)
  BY <1>3, <1>5, <1>6, <1>13, <1>14, <1>15, <1>16 DEF Adds
<1> QED BY <1>17

LEMMA AppendInv ==
  ASSUME IInv, NEW l \in Layers, AppendToken(l)
  PROVE  IInv' /\ StoresMore(dev, dev') /\ erased' = erased
BY AppendAdds, AddedInv

\* An orchestrator that has just been wired.
LEMMA InitInv == ASSUME Init PROVE IInv
<1>1. pool = <<>> /\ length = [l \in Layers |-> 0] /\ erased = {}
  BY DEF Init
<1>2. PICK mode \in Modes : dev = NewAdapter(mode)
  BY DEF Init
<1>3. /\ dev.sim = NewSimulator(mode) /\ dev.store = <<>> /\ dev.order = <<>>
      /\ dev.cached = {} /\ dev.used = 0
  BY <1>2 DEF NewAdapter
<1>4. AdapterGood(dev)
  <2>1. IsAdapter(dev)
    BY <1>2 DEF NewAdapter, IsAdapter
  <2>2. IsSimulator(dev.sim) /\ Sound(dev.sim)
    BY <1>3, NewIsSound
  <2>3. dev.store = [key \in DOMAIN dev.store |-> dev.store[key]] /\ DOMAIN dev.store = {}
    BY <1>3
  <2>4. dev.order \in Seq(Keys) /\ \A key : ~Among(key, dev.order)
    BY <1>3, EmptySeq DEF Among
  <2>5. dev.used <= DramCapacity
    BY <1>3, DramAssumption
  <2> QED BY <1>3, <2>1, <2>2, <2>3, <2>4, <2>5 DEF AdapterGood
<1>5. PoolGood(pool, length, dev.store, erased)
  <2>1. pool \in Seq(Block) /\ Len(pool) = 0
    BY <1>1, EmptySeq
  <2>2. ASSUME NEW l \in Layers PROVE Tiles(pool, LayerBlocks(pool, l), length[l])
    <3>1. PICK ids : ids = LayerBlocks(pool, l)
      OBVIOUS
    <3>2. ids \in Seq(Nat) /\ \A id : ~Among(id, ids)
      <4>1. /\ ids \in Seq(Nat)
            /\ \A id : Among(id, ids) <=> id \in 0..(Len(pool) - 1) /\ pool[id + 1].layer = l
        <5>1. PICK p \in Seq(Block) : p = pool
          BY <2>1
        <5>2. /\ LayerBlocks(p, l) \in Seq(Nat)
              /\ \A id : Among(id, LayerBlocks(p, l))
                           <=> id \in 0..(Len(p) - 1) /\ p[id + 1].layer = l
          BY LayerBlocksAre, Zenon
        <5> QED BY <3>1, <5>1, <5>2
      <4>2. \A id : ~(id \in 0..(Len(pool) - 1))
        BY <2>1
      <4> QED BY <4>1, <4>2
    <3>3. \A i \in 1..Len(ids) : FALSE
      BY <3>2 DEF Among
    <3>4. length[l] = 0
      BY <1>1
    <3> QED BY <3>1, <3>3, <3>4 DEF Tiles
  <2>3. length \in [Layers -> Nat]
    BY <1>1
  <2>4. DOMAIN dev.store = {}
    BY <1>3
  <2> QED BY <2>1, <2>2, <2>3, <2>4 DEF PoolGood
<1> QED BY <1>4, <1>5 DEF IInv

\* fetch_cold_block
LEMMA FetchInv ==
  ASSUME IInv, NEW id \in Ids, FetchColdBlock(id)
  PROVE  IInv' /\ dev' = dev /\ erased' = erased
<1>1. /\ pool \in Seq(Block) /\ length \in [Layers -> Nat] /\ Len(pool) \in Nat
      /\ \A l \in Layers : Tiles(pool, LayerBlocks(pool, l), length[l])
      /\ \A i \in 1..Len(pool) :
           Kept(pool[i], KeyAt(pool, i), length[pool[i].layer], dev.store, erased)
      /\ \A key \in DOMAIN dev.store : \E i \in 1..Len(pool) : key = KeyAt(pool, i)
      /\ AdapterGood(dev)
  BY LenProperties DEF IInv, PoolGood
<1>2. PICK k \in 1..Len(pool) : k = id + 1
  BY <1>1 DEF Ids
<1>3. PICK b \in Block : b = pool[k]
  BY <1>1, ElementOfSeq
<1>4. PICK key : key = KeyAt(pool, k) /\ key = <<pool[id + 1].layer, id>>
  <2>1. k - 1 = id
    BY <1>1, <1>2 DEF Ids
  <2>2. KeyAt(pool, k) = <<pool[id + 1].layer, id>>
    BY <1>2, <2>1 DEF KeyAt
  <2> QED BY <2>2
<1>5. /\ dev' = dev /\ erased' = erased /\ length' = length
      /\ key \in DOMAIN dev.store
      /\ pool' = [pool EXCEPT ![id + 1].ram = TRUE, ![id + 1].data = dev.store[key]]
  BY <1>4 DEF FetchColdBlock, LoadKV
<1>6. /\ Kept(b, key, length[b.layer], dev.store, erased)
      /\ dev.store[key] = Positions(b.start, b.count) /\ Past(b, length[b.layer])
  BY <1>1, <1>3, <1>4, <1>5 DEF Kept
<1>7. PICK data \in Seq(Nat) : data = dev.store[key]
  BY <1>1, <1>5 DEF AdapterGood
<1>8. PICK c \in Block :
        /\ c = [[b EXCEPT !.ram = TRUE] EXCEPT !.data = data]
        /\ c.ram = TRUE /\ c.data = data
        /\ c.layer = b.layer /\ c.start = b.start /\ c.count = b.count
  <2>1. PICK v \in BOOLEAN : v = TRUE
    OBVIOUS
  <2>2. PICK c : c = [[b EXCEPT !.ram = v] EXCEPT !.data = data]
    OBVIOUS
  <2>3. /\ c \in Block /\ c.ram = v /\ c.data = data
        /\ c.layer = b.layer /\ c.start = b.start /\ c.count = b.count
    BY <2>2 DEF Block
  <2> QED BY <2>1, <2>2, <2>3
<1>9. pool' = [pool EXCEPT ![k] = c]
  BY <1>2, <1>3, <1>5, <1>7, <1>8
<1>10. c.layer = pool[k].layer /\ c.start = pool[k].start /\ c.count = pool[k].count
  BY <1>3, <1>8
<1>11. PICK new : new = [pool EXCEPT ![k] = c]
  OBVIOUS
<1>12. /\ new \in Seq(Block) /\ Alike(pool, new) /\ new[k] = c
       /\ \A i \in 1..Len(pool) : i # k => new[i] = pool[i]
  <2>1. [pool EXCEPT ![k] = c] \in Seq(Block)
    BY <1>1, <1>10, BlockChanged
  <2>2. Alike(pool, [pool EXCEPT ![k] = c])
    BY <1>1, <1>10, BlockChanged
  <2>3. [pool EXCEPT ![k] = c][k] = c
    BY <1>1, <1>10, BlockChanged
  <2>4. \A i \in 1..Len(pool) : i # k => [pool EXCEPT ![k] = c][i] = pool[i]
    BY <1>1, <1>10, BlockChanged
  <2> QED BY <1>11, <2>1, <2>2, <2>3, <2>4
<1>13. Len(new) = Len(pool) /\ \A i \in 1..Len(pool) : KeyAt(new, i) = KeyAt(pool, i)
                                                       /\ new[i].layer = pool[i].layer
  BY <1>12 DEF Alike, KeyAt
<1>14. PoolGood(new, length, dev.store, erased)
  <2>1. ASSUME NEW l \in Layers PROVE Tiles(new, LayerBlocks(new, l), length[l])
    BY <1>1, <1>12, TilesSame
  <2>2. ASSUME NEW i \in 1..Len(new)
        PROVE  Kept(new[i], KeyAt(new, i), length[new[i].layer], dev.store, erased)
    <3>1. CASE i = k
      <4>1. Kept(c, key, length[b.layer], dev.store, erased)
        <5>1. Past(c, length[b.layer])
          BY <1>6, <1>8 DEF Past
        <5> QED BY <1>6, <1>7, <1>8, <5>1 DEF Kept
      <4> QED BY <1>4, <1>8, <1>12, <1>13, <3>1, <4>1
    <3>2. CASE i # k
      BY <1>1, <1>12, <1>13, <3>2
    <3> QED BY <3>1, <3>2
  <2>3. \A x \in DOMAIN dev.store : \E i \in 1..Len(new) : x = KeyAt(new, i)
    BY <1>1, <1>13
  <2> QED BY <1>1, <1>12, <2>1, <2>2, <2>3 DEF PoolGood
<1> QED BY <1>1, <1>5, <1>9, <1>11, <1>14 DEF IInv

\* KV_EVICT, past the manager
LEMMA EvictInv ==
  ASSUME IInv, NEW id \in Ids, KVEvict(id)
  PROVE  IInv'
<1>1. /\ pool \in Seq(Block) /\ length \in [Layers -> Nat] /\ Len(pool) \in Nat
      /\ \A l \in Layers : Tiles(pool, LayerBlocks(pool, l), length[l])
      /\ \A i \in 1..Len(pool) :
           Kept(pool[i], KeyAt(pool, i), length[pool[i].layer], dev.store, erased)
      /\ \A x \in DOMAIN dev.store : \E i \in 1..Len(pool) : x = KeyAt(pool, i)
      /\ AdapterGood(dev)
  BY LenProperties DEF IInv, PoolGood
<1>2. PICK k \in 1..Len(pool) : k = id + 1
  BY <1>1 DEF Ids
<1>3. PICK key : key = KeyAt(pool, k) /\ key = <<pool[id + 1].layer, id>>
  <2>1. k - 1 = id
    BY <1>1, <1>2 DEF Ids
  <2>2. KeyAt(pool, k) = <<pool[id + 1].layer, id>>
    BY <1>2, <2>1 DEF KeyAt
  <2> QED BY <2>2
<1>4. /\ pool' = pool /\ length' = length /\ dev' = EvictKV(dev, key)
      /\ key \in DOMAIN dev.store
      /\ erased' = IF pool[k].ram THEN erased ELSE erased \cup {key}
  BY <1>2, <1>3 DEF KVEvict
<1>5. PICK d, e, gone2 : d = dev /\ e = EvictKV(d, key) /\ gone2 = erased'
  OBVIOUS
<1>6. AdapterGood(d) /\ key \in DOMAIN d.store /\ dev' = e
  BY <1>1, <1>4, <1>5
<1>7. AdapterGood(e)
  BY <1>5, <1>6, EvictKVKeeps
<1>8. /\ DOMAIN e.store = DOMAIN d.store \ {key}
      /\ \A x \in DOMAIN e.store : e.store[x] = d.store[x]
  <2>1. DOMAIN e.store = DOMAIN d.store \ {key}
    BY <1>5, <1>6, EvictKVKeeps
  <2>2. \A x \in DOMAIN d.store \ {key} : e.store[x] = d.store[x]
    BY <1>5, <1>6, EvictKVKeeps
  <2> QED BY <2>1, <2>2
<1>9. ASSUME NEW i \in 1..Len(pool)
      PROVE  Kept(pool[i], KeyAt(pool, i), length[pool[i].layer], e.store, gone2)
  <2>1. Kept(pool[i], KeyAt(pool, i), length[pool[i].layer], d.store, erased)
    BY <1>1, <1>5
  <2>2. KeyAt(pool, i) = key => i = k
    <3> SUFFICES ASSUME KeyAt(pool, i) = key PROVE i = k
      OBVIOUS
    <3>1. i - 1 = k - 1
      BY <1>3 DEF KeyAt
    <3> QED BY <1>1, <3>1
  <2>3. erased \subseteq gone2 /\ (~pool[k].ram => key \in gone2)
    BY <1>4, <1>5
  <2> QED BY <1>8, <2>1, <2>2, <2>3 DEF Kept
<1>10. \A x \in DOMAIN e.store : \E i \in 1..Len(pool) : x = KeyAt(pool, i)
  BY <1>1, <1>5, <1>8
<1>11. PoolGood(pool, length, e.store, gone2)
  BY <1>1, <1>9, <1>10 DEF PoolGood
<1> QED BY <1>4, <1>5, <1>6, <1>7, <1>11 DEF IInv

\* Calls that leave the pool and the store alone.
LEMMA SameStoreInv ==
  ASSUME IInv, AdapterGood(dev)', dev'.store = dev.store,
         pool' = pool, length' = length, erased' = erased
  PROVE  IInv'
BY DEF IInv

\* set_mode, also when it raises half way
LEMMA SwitchInv ==
  ASSUME IInv, NEW mode \in Modes, SwitchMode(mode)
  PROVE  IInv' /\ dev'.store = dev.store /\ dev'.cached = dev.cached /\ dev'.used = dev.used
<1>1. PICK d, e : d = dev /\ e = SetMode(d, mode)
  OBVIOUS
<1>2. AdapterGood(d) /\ dev' = e
  BY <1>1 DEF IInv, SwitchMode
<1>3. AdapterGood(e) /\ e.store = d.store /\ e.cached = d.cached /\ e.used = d.used
  BY <1>1, <1>2, SetModeKeeps
<1>4. pool' = pool /\ length' = length /\ erased' = erased
  BY DEF SwitchMode
<1> QED BY <1>1, <1>2, <1>3, <1>4, SameStoreInv

\* What the gateway is asked for: one block of the layer, or two in their order.
LEMMA RequestIs ==
  ASSUME NEW l, NEW ids \in LayerRequests(l)
  PROVE  ids \in Seq(Ids)
<1>1. PICK X : X = {id \in Ids : pool[id + 1].layer = l}
  OBVIOUS
<1>2. ids \in {<<i>> : i \in X} \/ ids \in X \X X
  BY <1>1 DEF LayerRequests
<1>3. CASE ids \in {<<i>> : i \in X}
  <2>1. PICK i \in X : ids = <<i>>
    BY <1>3
  <2>2. i \in Ids
    BY <1>1
  <2> QED BY <2>1, <2>2
<1>4. CASE ids \in X \X X
  <2>1. PICK i \in X, j \in X : ids = <<i, j>>
    BY <1>4
  <2>2. i \in Ids /\ j \in Ids
    BY <1>1
  <2> QED BY <2>1, <2>2
<1> QED BY <1>2, <1>3, <1>4

\* KV_PREFETCH
LEMMA PrefetchInv ==
  ASSUME IInv, NEW l \in Layers, NEW ids \in LayerRequests(l), KVPrefetch(l, ids)
  PROVE  IInv' /\ dev'.store = dev.store /\ dev'.sim = dev.sim
<1>1. PICK d, e : d = dev /\ e = PrefetchKV(d, l, ids)
  OBVIOUS
<1>2. AdapterGood(d) /\ dev' = e
  BY <1>1 DEF IInv, KVPrefetch
<1>3. ids \in Seq(Ids)
  BY RequestIs
<1>4. DramCapacity \in Nat
  BY DramAssumption
<1>5. AdapterGood(e) /\ e.store = d.store /\ e.sim = d.sim
  BY <1>1, <1>2, <1>3, <1>4, PrefetchKVKeeps
<1>6. pool' = pool /\ length' = length /\ erased' = erased
  BY DEF KVPrefetch
<1> QED BY <1>1, <1>2, <1>5, <1>6, SameStoreInv

\* The blocks and the layers that run_simulation walks.
LEMMA SimulationArguments ==
  ASSUME NEW n \in Nat
  PROVE  Positions(0, n) \in Seq(Nat) /\ Positions(0, Cardinality(Layers)) \in Seq(Nat)
<1>1. Cardinality(Layers) \in Nat
  BY PolicyAssumption, FS_CardinalityType
<1>2. PICK z \in Nat, c \in Nat : z = 0 /\ c = Cardinality(Layers)
  BY <1>1
<1>3. Positions(z, n) \in Seq(Nat) /\ Positions(z, c) \in Seq(Nat)
  BY PositionsAre
<1> QED BY <1>2, <1>3

\* run_simulation
LEMMA SimulationInv ==
  ASSUME IInv, NEW n \in Nat, RunSimulation(n)
  PROVE  IInv' /\ dev'.store = dev.store /\ dev'.sim = dev.sim
<1>1. PICK d, base, ids, layers :
        /\ d = dev /\ base = [buf |-> EmptyBuffer, dev |-> dev]
        /\ ids = Positions(0, n) /\ layers = Positions(0, Cardinality(Layers))
  OBVIOUS
<1>2. PICK e : e = SimulateLayers(base, layers, ids)
  OBVIOUS
<1>3. AdapterGood(d) /\ dev' = e.dev /\ base.dev = d
  BY <1>1, <1>2 DEF IInv, RunSimulation
<1>4. ids \in Seq(Nat) /\ layers \in Seq(Nat)
  BY <1>1, SimulationArguments
<1>5. DramCapacity \in Nat
  BY DramAssumption
<1>6. AdapterGood(e.dev) /\ e.dev.store = d.store /\ e.dev.sim = d.sim
  BY <1>2, <1>3, <1>4, <1>5, SimulationKeeps
<1>7. pool' = pool /\ length' = length /\ erased' = erased
  BY DEF RunSimulation
<1> QED BY <1>1, <1>3, <1>6, <1>7, SameStoreInv

\* Every step of the stack.
LEMMA IInvStep == IInv /\ [Next]_vars => IInv'
<1> SUFFICES ASSUME IInv, [Next]_vars PROVE IInv'
  OBVIOUS
<1>1. CASE \E l \in Layers, n \in PromptLengths : PrefillSequence(l, n)
  BY <1>1, PrefillInv
<1>2. CASE \E l \in Layers : AppendToken(l)
  BY <1>2, AppendInv
<1>3. CASE \E id \in Ids : FetchColdBlock(id)
  BY <1>3, FetchInv
<1>4. CASE \E l \in Layers, k \in 1..2 : DecodeAttention(l, k)
  <2>1. pool' = pool /\ length' = length /\ dev' = dev /\ erased' = erased
    BY <1>4 DEF DecodeAttention
  <2> QED BY <2>1 DEF IInv
<1>5. CASE \E l \in Layers : \E ids \in LayerRequests(l) : KVPrefetch(l, ids)
  BY <1>5, PrefetchInv
<1>6. CASE \E l \in Layers : KVTopK(l, LayerBlocks(pool, l))
  <2>1. pool' = pool /\ length' = length /\ dev' = dev /\ erased' = erased
    BY <1>6 DEF KVTopK
  <2> QED BY <2>1 DEF IInv
<1>7. CASE \E id \in Ids : KVEvict(id)
  BY <1>7, EvictInv
<1>8. CASE \E mode \in Modes : SwitchMode(mode)
  BY <1>8, SwitchInv
<1>9. CASE \E n \in 1..2 : RunSimulation(n)
  BY <1>9, SimulationInv
<1>10. CASE UNCHANGED vars
  BY <1>10 DEF IInv, vars
<1> QED BY <1>1, <1>2, <1>3, <1>4, <1>5, <1>6, <1>7, <1>8, <1>9, <1>10 DEF Next

\* Whatever the callers do with the tiered cache and the adapter behind it
\* (tiered_kv_manager.py:27-137, physical_adapter.py:105-394), the blocks of each layer tile
\* its tokens, a block that left RAM is past the window and on the SSD or erased by the
\* gateway, and the adapter's tables fit each other.
THEOREM PoolAlwaysGood == Spec => []IInv
<1>1. Init => IInv
  BY InitInv
<1> QED BY <1>1, IInvStep, PTL DEF Spec

-----------------------------------------------------------------------------
(***************************************************************************)
(* What the invariant says.                                                *)
(***************************************************************************)

\* What the invariant says of a layer.
LEMMA LayerIs ==
  ASSUME IInv, NEW l \in Layers
  PROVE  /\ pool \in Seq(Block) /\ Len(pool) \in Nat /\ length[l] \in Nat
         /\ LayerBlocks(pool, l) \in Seq(Nat) /\ Len(LayerBlocks(pool, l)) \in Nat
         /\ (LayerBlocks(pool, l) = <<>>) <=> (length[l] = 0)
         /\ \A i \in 1..Len(LayerBlocks(pool, l)) :
              TileAt(pool, LayerBlocks(pool, l), i, l, length[l])
         /\ \A id : Among(id, LayerBlocks(pool, l))
                      <=> id \in 0..(Len(pool) - 1) /\ pool[id + 1].layer = l
<1>1. /\ pool \in Seq(Block) /\ length \in [Layers -> Nat]
      /\ Tiles(pool, LayerBlocks(pool, l), length[l])
  BY DEF IInv, PoolGood
<1>5. LayerBlocks(pool, l) \in Seq(Nat)
  BY <1>1, LayerBlocksAre
<1>2. PICK blocks \in Seq(Block), n \in Nat, ids \in Seq(Nat) :
        blocks = pool /\ n = length[l] /\ ids = LayerBlocks(blocks, l)
  BY <1>1, <1>5
<1>3. /\ ids \in Seq(Nat) /\ Len(ids) \in Nat
      /\ (ids = <<>>) <=> (n = 0)
      /\ \A i \in 1..Len(ids) : TileAt(blocks, ids, i, l, n)
  BY <1>1, <1>2, TilesAre
<1>4. \A id : Among(id, LayerBlocks(blocks, l))
                <=> id \in 0..(Len(blocks) - 1) /\ blocks[id + 1].layer = l
  BY LayerBlocksAre, Zenon
<1> QED BY <1>2, <1>3, <1>4, LenProperties

\* Where the tokens of a block are.
LEMMA HeldIs ==
  ASSUME IInv, NEW id \in Ids
  PROVE  Held(id) = Positions(pool[id + 1].start, pool[id + 1].count)
<1>1. id + 1 \in 1..Len(pool) /\ (id + 1) - 1 = id
  BY LenProperties DEF IInv, PoolGood, Ids
<1>2. PICK k \in 1..Len(pool) : k = id + 1 /\ k - 1 = id
  BY <1>1
<1>3. KeyAt(pool, k) = <<pool[k].layer, id>>
  BY <1>2 DEF KeyAt
<1>4. PICK b, key : b = pool[k] /\ key = <<b.layer, id>>
  OBVIOUS
<1>5. Kept(b, key, length[b.layer], dev.store, erased)
  BY <1>3, <1>4 DEF IInv, PoolGood
<1>6. Held(id) = CASE b.ram                                   -> b.data
                   [] ~b.ram /\ key \in DOMAIN dev.store      -> dev.store[key]
                   [] ~b.ram /\ key \in erased \ DOMAIN dev.store -> Positions(b.start, b.count)
                   [] OTHER                                   -> <<>>
  BY <1>2, <1>4 DEF Held
<1> QED BY <1>2, <1>4, <1>5, <1>6 DEF Kept

\* The tokens of the blocks of a layer, joined.
LEMMA LayerHeld ==
  ASSUME IInv, NEW l \in Layers, NEW ids, ids = LayerBlocks(pool, l),
         NEW seqs, seqs = [i \in DOMAIN ids |-> Held(ids[i])]
  PROVE  FlattenSeq(seqs) = Positions(0, length[l])
<1>1. PICK n \in Nat, N \in Nat : n = length[l] /\ N = Len(ids)
  BY LayerIs
<1>2. /\ ids \in Seq(Nat) /\ (ids = <<>>) <=> (n = 0)
      /\ \A i \in 1..N : TileAt(pool, ids, i, l, n)
  <2>1. ids \in Seq(Nat)
    BY LayerIs
  <2>2. (ids = <<>>) <=> (n = 0)
    BY <1>1, LayerIs
  <2>3. \A i \in 1..N : TileAt(pool, ids, i, l, n)
    BY <1>1, LayerIs
  <2> QED BY <2>1, <2>2, <2>3
<1>. DEFINE Start(i) == pool[ids[i] + 1].start
            Count(i) == pool[ids[i] + 1].count
<1>3. ASSUME NEW i \in 1..N
      PROVE  /\ Start(i) \in Nat /\ Count(i) \in Nat
             /\ i = 1 => Start(i) = 0
             /\ i # 1 => Start(i) = Start(i - 1) + TokensPerBlock
             /\ i < N => Count(i) = TokensPerBlock
             /\ i = N => Start(i) + Count(i) = n
             /\ seqs[i] = Positions(Start(i), Count(i))
  <2>1. TileAt(pool, ids, i, l, n)
    BY <1>2
  <2>2. Start(i) \in Nat /\ Count(i) \in Nat
    <3>1. pool[ids[i] + 1] \in Block
      BY <2>1 DEF TileAt
    <3> QED BY <3>1 DEF Block
  <2>3. ids[i] \in Ids
    <3>1. Len(pool) \in Nat
      BY LayerIs
    <3> QED BY <2>1, <3>1 DEF TileAt, Ids
  <2>4. seqs[i] = Held(ids[i])
    BY <1>1, <1>2
  <2>5. seqs[i] = Positions(Start(i), Count(i))
    BY <2>3, <2>4, HeldIs
  <2>6. /\ i = 1 => Start(i) = 0
        /\ i # 1 => Start(i) = Start(i - 1) + TokensPerBlock
        /\ i < N => Count(i) = TokensPerBlock
        /\ i = N => Start(i) + Count(i) = n
    BY <1>1, <2>1 DEF TileAt
  <2> QED BY <2>2, <2>5, <2>6
<1>4. seqs \in Seq(Seq(Nat)) /\ Len(seqs) = N
  <2>1. ASSUME NEW i \in 1..N PROVE seqs[i] \in Seq(Nat)
    <3>1. PICK s \in Nat, c \in Nat : s = Start(i) /\ c = Count(i)
      BY <1>3
    <3>2. Positions(s, c) \in Seq(Nat)
      BY PositionsAre
    <3> QED BY <1>3, <3>1, <3>2
  <2>2. seqs = [i \in 1..N |-> seqs[i]]
    BY <1>1, <1>2
  <2> QED BY <2>1, <2>2
<1>. HIDE DEF Start, Count
<1>5. CASE N = 0
  <2>1. seqs = <<>> /\ n = 0
    BY <1>1, <1>2, <1>4, <1>5, EmptySeq
  <2>2. FlattenSeq(<<>>) = <<>>
    BY <1>4, FlattenFirst
  <2>3. Positions(0, 0) = <<>>
    <3>1. PICK z \in Nat : z = 0
      OBVIOUS
    <3>2. Positions(z, 0) = <<>>
      BY PositionsGrow
    <3> QED BY <3>1, <3>2
  <2> QED BY <1>1, <2>1, <2>2, <2>3
<1>6. CASE N # 0
  <2>1. seqs # <<>>
    BY <1>4, <1>6, EmptySeq
  <2>2. PICK f \in [1..N -> Seq(Nat)] : Joins(f, seqs, N) /\ FlattenSeq(seqs) = f[N]
    BY <1>4, <2>1, FlattenJoins
  <2>. DEFINE X == {i \in Nat : i + 1 \in 1..N =>
                      f[i + 1] = Positions(0, Start(i + 1) + Count(i + 1))}
  <2>3. 0 \in X
    <3>1. 1 \in 1..N
      BY <1>6
    <3>2. f[1] = seqs[1]
      BY <2>2, <3>1, JoinsAt
    <3>3. seqs[1] = Positions(Start(1), Count(1)) /\ Start(1) = 0 /\ Count(1) \in Nat
      BY <1>3, <3>1
    <3> QED BY <3>2, <3>3
  <2>4. ASSUME NEW i \in Nat, i \in X PROVE i + 1 \in X
    <3>1. PICK j \in Nat, k \in Nat : j = i + 1 /\ k = j + 1
      OBVIOUS
    <3> SUFFICES ASSUME k \in 1..N PROVE f[k] = Positions(0, Start(k) + Count(k))
      BY <3>1
    <3>2. j \in 1..N /\ k - 1 = j /\ k # 1 /\ j < N
      BY <3>1
    <3>3. f[j] = Positions(0, Start(j) + Count(j))
      BY <2>4, <3>1, <3>2
    <3>4. f[k] = f[j] \o seqs[k]
      <4>1. IF k = 1 THEN f[k] = seqs[1] ELSE f[k] = f[k - 1] \o seqs[k]
        <5>1. f[k] = IF k = 1 THEN seqs[1] ELSE f[k - 1] \o seqs[k]
          BY <2>2, Zenon DEF Joins
        <5> QED BY <5>1, Zenon
      <4> QED BY <3>2, <4>1
    <3>5. PICK s \in Nat, c \in Nat, t \in Nat, e \in Nat :
            s = Start(j) /\ c = Count(j) /\ t = Start(k) /\ e = Count(k)
      BY <1>3, <3>2
    <3>6. t = s + c
      BY <1>3, <3>2, <3>5
    <3>7. PICK z \in Nat, m \in Nat : z = 0 /\ m = s + c
      OBVIOUS
    <3>8. Positions(z, m) \o Positions(z + m, e) = Positions(z, m + e)
      BY PositionsJoin
    <3>9. z + m = t
      BY <3>6, <3>7
    <3>10. seqs[k] = Positions(t, e)
      BY <1>3, <3>5
    <3> QED BY <3>3, <3>4, <3>5, <3>6, <3>7, <3>8, <3>9, <3>10
  <2>. HIDE DEF X
  <2>5. Nat \subseteq X
    BY <2>3, <2>4, SetInduction
  <2>6. f[N] = Positions(0, Start(N) + Count(N))
    <3>1. PICK i \in Nat : i + 1 = N
      BY <1>6
    <3>2. i \in X
      BY <2>5
    <3>3. i + 1 \in 1..N
      BY <3>1
    <3> QED BY <3>1, <3>2, <3>3 DEF X
  <2>7. Start(N) + Count(N) = n
    <3>1. N \in 1..N
      BY <1>6
    <3>2. \A i \in 1..N : i = N => Start(i) + Count(i) = n
      BY <1>3
    <3> QED BY <3>1, <3>2
  <2> QED BY <1>1, <2>2, <2>6, <2>7
<1> QED BY <1>5, <1>6

\* Joined in their order, the tokens of the blocks are the tokens of the layer.
LEMMA TokensHeld == ASSUME IInv PROVE EveryTokenHeld
<1> SUFFICES ASSUME NEW l \in Layers
             PROVE  FlattenSeq([i \in DOMAIN LayerBlocks(pool, l) |->
                                   Held(LayerBlocks(pool, l)[i])])
                      = Positions(0, length[l])
  BY DEF EveryTokenHeld
<1>1. PICK ids : ids = LayerBlocks(pool, l)
  OBVIOUS
<1>2. PICK seqs : seqs = [i \in DOMAIN ids |-> Held(ids[i])]
  OBVIOUS
<1>3. FlattenSeq(seqs) = Positions(0, length[l])
  BY <1>1, <1>2, LayerHeld
<1> QED BY <1>1, <1>2, <1>3

\* Some block of a layer has the token.
LEMMA TokenHasBlock ==
  ASSUME IInv, NEW l \in Layers, NEW t \in Nat, t < length[l]
  PROVE  \E id \in Ids : /\ pool[id + 1] \in Block /\ pool[id + 1].layer = l
                         /\ pool[id + 1].start <= t
                         /\ t < pool[id + 1].start + pool[id + 1].count
<1>1. PICK n \in Nat, ids \in Seq(Nat) : n = length[l] /\ ids = LayerBlocks(pool, l)
  BY LayerIs
<1>2. PICK N \in Nat : N = Len(ids)
  BY <1>1, LayerIs
<1>3. \A i \in 1..N : TileAt(pool, ids, i, l, n)
  BY <1>1, <1>2, LayerIs
<1>4. N # 0
  <2>1. ids \in Seq(Nat) /\ (ids = <<>> <=> n = 0)
    BY <1>1, LayerIs
  <2> QED BY <1>1, <1>2, <2>1, EmptySeq
<1>. DEFINE Start(i) == pool[ids[i] + 1].start
            Count(i) == pool[ids[i] + 1].count
            X == {i \in Nat : i + 1 \in 1..N /\ t < Start(i + 1) + Count(i + 1) =>
                    \E j \in 1..N : Start(j) <= t /\ t < Start(j) + Count(j)}
<1>5. ASSUME NEW i \in 1..N
      PROVE  /\ ids[i] \in Ids /\ pool[ids[i] + 1] \in Block /\ pool[ids[i] + 1].layer = l
             /\ Start(i) \in Nat /\ Count(i) \in Nat
             /\ i = 1 => Start(i) = 0
             /\ i # 1 => Start(i) = Start(i - 1) + TokensPerBlock
             /\ i < N => Count(i) = TokensPerBlock
             /\ i = N => Start(i) + Count(i) = n
  <2>1. TileAt(pool, ids, i, l, n) /\ Len(pool) \in Nat
    BY <1>3, LayerIs
  <2>2. pool[ids[i] + 1] \in Block
    BY <2>1 DEF TileAt
  <2>3. Start(i) \in Nat /\ Count(i) \in Nat
    BY <2>2 DEF Block
  <2> QED BY <1>2, <2>1, <2>2, <2>3 DEF TileAt, Ids
<1>. HIDE DEF Start, Count
<1>6. 0 \in X
  BY <1>5
<1>7. ASSUME NEW i \in Nat, i \in X PROVE i + 1 \in X
  <2>1. PICK j \in Nat, k \in Nat : j = i + 1 /\ k = j + 1
    OBVIOUS
  <2> SUFFICES ASSUME k \in 1..N, t < Start(k) + Count(k)
               PROVE  \E x \in 1..N : Start(x) <= t /\ t < Start(x) + Count(x)
    BY <2>1
  <2>2. j \in 1..N /\ k - 1 = j /\ k # 1 /\ j < N
    BY <2>1
  <2>3. Start(k) = Start(j) + Count(j) /\ Start(k) \in Nat
    BY <1>5, <2>2
  <2>4. CASE Start(k) <= t
    BY <2>4
  <2>5. CASE ~(Start(k) <= t)
    <3>1. t < Start(j) + Count(j)
      BY <2>3, <2>5
    <3> QED BY <1>7, <2>1, <2>2, <3>1
  <2> QED BY <2>4, <2>5
<1>. HIDE DEF X
<1>8. Nat \subseteq X
  BY <1>6, <1>7, SetInduction
<1>9. PICK j \in 1..N : Start(j) <= t /\ t < Start(j) + Count(j)
  <2>1. PICK i \in Nat : i + 1 = N /\ i \in X
    BY <1>4, <1>8
  <2>2. N \in 1..N
    BY <1>4
  <2>3. Start(N) + Count(N) = n
    BY <1>5, <2>2
  <2> QED BY <1>1, <2>1, <2>2, <2>3 DEF X
<1>10. ids[j] \in Ids /\ pool[ids[j] + 1] \in Block /\ pool[ids[j] + 1].layer = l
  BY <1>5
<1> QED BY <1>9, <1>10 DEF Start, Count

\* A token of the sinks or of the window is in a block that has never left RAM.
LEMMA WindowHeld == ASSUME IInv PROVE WindowResident
<1> SUFFICES ASSUME NEW l \in Layers, NEW t \in 0..(length[l] - 1),
                    t < SinkTokens \/ t >= length[l] - WindowTokens
             PROVE  \E id \in Ids : pool[id + 1].layer = l /\ t \in ToSet(pool[id + 1].data)
  BY DEF WindowResident
<1>1. PICK n \in Nat : n = length[l]
  BY LayerIs
<1>2. t \in Nat /\ t < n
  BY <1>1
<1>3. PICK id \in Ids : /\ pool[id + 1] \in Block /\ pool[id + 1].layer = l
                        /\ pool[id + 1].start <= t
                        /\ t < pool[id + 1].start + pool[id + 1].count
  BY <1>1, <1>2, TokenHasBlock
<1>4. PICK b \in Block : b = pool[id + 1]
  BY <1>3
<1>5. PICK s \in Nat, c \in Nat : s = b.start /\ c = b.count
  BY <1>4 DEF Block
<1>6. s <= t /\ t < s + c
  BY <1>3, <1>4, <1>5
<1>7. ~Past(b, n)
  <2>1. SinkTokens \in Nat /\ WindowTokens \in Nat
    BY PolicyAssumption
  <2> QED BY <1>1, <1>2, <1>5, <1>6, <2>1 DEF Past
<1>8. id + 1 \in 1..Len(pool)
  BY LenProperties DEF IInv, PoolGood, Ids
<1>9. Kept(b, KeyAt(pool, id + 1), n, dev.store, erased)
  BY <1>1, <1>3, <1>4, <1>8 DEF IInv, PoolGood
<1>10. b.data = Positions(s, c)
  BY <1>5, <1>7, <1>9 DEF Kept
<1>11. t \in ToSet(b.data)
  <2>1. PICK d \in Seq(Nat) : /\ d = Positions(s, c) /\ Len(d) = c
                              /\ \A i \in 1..c : d[i] = s + i - 1
    BY PositionsAre
  <2>2. PICK i \in 1..c : i = t - s + 1
    BY <1>2, <1>6
  <2>3. d[i] = t /\ i \in DOMAIN d
    <3>1. d[i] = s + i - 1
      BY <2>1
    <3> QED BY <1>2, <2>1, <2>2, <3>1
  <2> QED BY <1>10, <2>1, <2>3 DEF ToSet
<1> QED BY <1>3, <1>4, <1>11

\* A block on the SSD is full: it is not the last of its layer.
LEMMA StoredIsFull ==
  ASSUME IInv, NEW x \in DOMAIN dev.store
  PROVE  Len(dev.store[x]) = TokensPerBlock
<1>1. PICK k \in 1..Len(pool) : x = KeyAt(pool, k)
  BY DEF IInv, PoolGood
<1>2. PICK b \in Block : b = pool[k]
  BY ElementOfSeq DEF IInv, PoolGood
<1>3. PICK l \in Layers, s \in Nat, c \in Nat : l = b.layer /\ s = b.start /\ c = b.count
  BY <1>2 DEF Block
<1>4. PICK n \in Nat, ids \in Seq(Nat) : n = length[l] /\ ids = LayerBlocks(pool, l)
  BY LayerIs
<1>5. Kept(b, x, n, dev.store, erased)
  BY <1>1, <1>2, <1>3, <1>4 DEF IInv, PoolGood
<1>6. Past(b, n) /\ dev.store[x] = Positions(s, c)
  BY <1>3, <1>5 DEF Kept
<1>7. PICK id \in Nat : id + 1 = k /\ id \in 0..(Len(pool) - 1)
  <2>1. Len(pool) \in Nat
    BY <1>3, LayerIs
  <2> QED BY <2>1
<1>8. Among(id, ids)
  BY <1>2, <1>3, <1>4, <1>7, LayerIs
<1>9. PICK j \in 1..Len(ids) : ids[j] = id
  BY <1>8 DEF Among
<1>10. TileAt(pool, ids, j, l, n)
  BY <1>4, LayerIs
<1>11. j # Len(ids)
  <2>1. WindowTokens \in Nat \ {0}
    BY PolicyAssumption
  <2>2. j = Len(ids) => s + c = n
    BY <1>2, <1>3, <1>7, <1>9, <1>10 DEF TileAt
  <2>3. s + c + WindowTokens <= n
    BY <1>3, <1>6 DEF Past
  <2> QED BY <2>1, <2>2, <2>3
<1>12. c = TokensPerBlock
  <2>1. Len(ids) \in Nat
    BY <1>4, LayerIs
  <2> QED BY <1>2, <1>3, <1>7, <1>9, <1>10, <1>11, <2>1 DEF TileAt
<1> QED BY <1>6, <1>12, PositionsAre

\* Both together: the window is in RAM, and what is on the SSD has one shape.
LEMMA Attends == ASSUME IInv PROVE AttentionPossible
<1>1. StoredBlocksAlike
  BY StoredIsFull DEF StoredBlocksAlike
<1> QED BY <1>1, WindowHeld DEF AttentionPossible

\* The tables of the simulator are sound in every state of the adapter.
LEMMA PagesKept == ASSUME IInv PROVE PagesOwned
BY DEF IInv, AdapterGood, Sound, PagesOwned

\* prefill_sequence, append_token and fetch_cold_block (tiered_kv_manager.py:27-137) lose,
\* double or misplace no token, also when the device runs full between two of them.
THEOREM TiersHoldEveryToken == Spec => []EveryTokenHeld
BY PoolAlwaysGood, TokensHeld, PTL

\* compute_decode_attention (instorage_pruner.py:32-106) always finds its sinks and its
\* window in RAM, and np.stack over the cold blocks of a layer never meets two shapes.
THEOREM AttentionAlwaysPossible == Spec => []AttentionPossible
BY PoolAlwaysGood, Attends, PTL

\* The simulator's forward and reverse tables stay inverse, and a mapped page holds its
\* block, through all stores, repeated stores and mode switches of the adapter.
THEOREM PagesAlwaysOwned == Spec => []PagesOwned
BY PoolAlwaysGood, PagesKept, PTL

-----------------------------------------------------------------------------
(***************************************************************************)
(* The mock controller.                                                    *)
(***************************************************************************)

\* What the controller's DRAM is charged for a stored block.
Sizes(store) == [key \in DOMAIN store |-> Len(store[key])]

\* h sums the sizes of the blocks that e has cached since d, and e is charged for them.
ChargedBy(h, d, e) ==
  /\ h \in [SUBSET (e.cached \ d.cached) -> Nat]
  /\ Sums(h, Sizes(d.store), e.cached \ d.cached)
  /\ e.used = d.used + h[e.cached \ d.cached]

\* From d to e the controller has cached stored blocks, and charged each once.
Charged(d, e) ==
  /\ e.store = d.store
  /\ d.cached \subseteq e.cached
  /\ IsFiniteSet(e.cached \ d.cached)
  /\ \E h : ChargedBy(h, d, e)

\* Payloads have sizes.
LEMMA SizesAre ==
  ASSUME NEW d, AdapterGood(d)
  PROVE  \A key \in DOMAIN d.store : Sizes(d.store)[key] = Len(d.store[key])
                                     /\ Sizes(d.store)[key] \in Nat
BY LenProperties DEF AdapterGood, Sizes

\* Nothing cached, nothing charged.
LEMMA ChargedSame ==
  ASSUME NEW d, AdapterGood(d)
  PROVE  Charged(d, d)
<1>1. PICK A : A = d.cached \ d.cached /\ A = {}
  OBVIOUS
<1>2. IsFiniteSet(A)
  BY <1>1, FS_EmptySet
<1>3. PICK w : w = Sizes(d.store)
  OBVIOUS
<1>4. PICK h \in [SUBSET A -> Nat] : Sums(h, w, A)
  BY <1>1, <1>2, SumsExist
<1>5. h[A] = 0
  <2>1. AnyOrder(h, w, A)
    BY <1>1, <1>2, <1>4, SumsAny
  <2> QED BY <1>1, <2>1 DEF AnyOrder
<1>6. d.used = d.used + 0
  BY DEF AdapterGood, IsAdapter
<1>7. ChargedBy(h, d, d)
  BY <1>1, <1>3, <1>4, <1>5, <1>6 DEF ChargedBy
<1> QED BY <1>1, <1>2, <1>7 DEF Charged

\* One block more.
LEMMA ChargedMore ==
  ASSUME NEW d, AdapterGood(d), NEW e, AdapterGood(e), Charged(d, e),
         NEW key \in DOMAIN e.store, key \notin e.cached,
         NEW f, f.store = e.store, f.cached = e.cached \cup {key},
         f.used = e.used + Len(e.store[key])
  PROVE  Charged(d, f)
<1>1. PICK A, B, w : /\ A = f.cached \ d.cached /\ B = e.cached \ d.cached
                     /\ w = Sizes(d.store)
  OBVIOUS
<1>2. e.store = d.store /\ d.cached \subseteq e.cached /\ IsFiniteSet(B)
  BY <1>1 DEF Charged
<1>3. PICK h : ChargedBy(h, d, e)
  BY DEF Charged
<1>4. h \in [SUBSET B -> Nat] /\ Sums(h, w, B) /\ e.used = d.used + h[B]
  BY <1>1, <1>3 DEF ChargedBy
<1>5. A = B \cup {key} /\ key \notin B /\ B \in SUBSET A /\ A \ {key} = B
  BY <1>1, <1>2
<1>6. IsFiniteSet(A)
  BY <1>2, <1>5, FS_AddElement
<1>7. A \subseteq DOMAIN d.store
  BY <1>1, <1>2 DEF AdapterGood
<1>8. \A x \in A : w[x] \in Nat
  BY <1>1, <1>7, SizesAre
<1>9. w[key] = Len(e.store[key])
  BY <1>1, <1>2, SizesAre
<1>10. PICK g \in [SUBSET A -> Nat] : Sums(g, w, A)
  BY <1>6, <1>8, SumsExist
<1>11. g[B] = h[B]
  <2>1. B \in SUBSET A /\ \A x \in B : w[x] \in Nat
    BY <1>5, <1>8
  <2>2. IsSum(g, w, A) /\ IsSum(h, w, B)
    BY <1>4, <1>8, <1>10, <2>1 DEF IsSum
  <2> QED BY <1>6, <2>1, <2>2, SumsAgree
<1>12. g[A] = w[key] + g[B]
  <2>1. AnyOrder(g, w, A)
    BY <1>6, <1>8, <1>10, SumsAny
  <2>2. A \in SUBSET A /\ key \in A
    BY <1>5
  <2>3. g[A] = w[key] + g[A \ {key}]
    BY <2>1, <2>2 DEF AnyOrder
  <2> QED BY <1>5, <2>3
<1>13. f.used = d.used + g[A]
  <2>1. PICK u \in Nat, p \in Nat, q \in Nat : u = d.used /\ p = w[key] /\ q = h[B]
    <3>1. d.used \in Nat
      BY DEF AdapterGood, IsAdapter
    <3>2. w[key] \in Nat
      BY <1>5, <1>8
    <3>3. h[B] \in Nat
      BY <1>4
    <3> QED BY <3>1, <3>2, <3>3
  <2>2. f.used = (u + q) + p /\ g[A] = p + q
    BY <1>4, <1>9, <1>11, <1>12, <2>1
  <2> QED BY <2>1, <2>2
<1>14. ChargedBy(g, d, f)
  BY <1>1, <1>10, <1>13 DEF ChargedBy
<1> QED BY <1>1, <1>2, <1>6, <1>14 DEF Charged

\* prefetch_kv
LEMMA PrefetchKVCharges ==
  ASSUME NEW b, AdapterGood(b), NEW d, AdapterGood(d), Charged(b, d), DramCapacity \in Nat,
         NEW layer, NEW S, NEW ids \in Seq(S),
         NEW e, e = PrefetchKV(d, layer, ids)
  PROVE  AdapterGood(e) /\ Charged(b, e)
<1>1. PICK f : Turns(f, "cache", layer, d, ids) /\ PrefetchKV(d, layer, ids) = f[Len(ids)]
  BY CacheTurns
<1>. DEFINE X == {i \in Nat : i <= Len(ids) => AdapterGood(f[i]) /\ Charged(b, f[i])}
<1>2. 0 \in X
  BY <1>1 DEF Turns
<1>3. ASSUME NEW i \in Nat, i \in X PROVE i + 1 \in X
  <2> SUFFICES ASSUME i + 1 <= Len(ids)
               PROVE  AdapterGood(f[i + 1]) /\ Charged(b, f[i + 1])
    OBVIOUS
  <2>1. i + 1 \in 1..Len(ids) /\ (i + 1) - 1 = i /\ i <= Len(ids)
    BY LenProperties
  <2>2. AdapterGood(f[i]) /\ Charged(b, f[i])
    BY <1>3, <2>1
  <2>3. PICK key, c, n : key = <<layer, ids[i + 1]>> /\ c = f[i] /\ n = f[i + 1]
    OBVIOUS
  <2>4. n = CacheBlock(c, key)
    <3>1. f[i + 1] = Turned("cache", layer, f[(i + 1) - 1], ids[i + 1])
      BY <1>1, <2>1 DEF Turns
    <3> QED BY <2>1, <2>3, <3>1 DEF Turned
  <2>. HIDE DEF X
  <2>5. /\ AdapterGood(n) /\ n.store = c.store
        /\ \/ n = c
           \/ /\ key \in DOMAIN c.store \ c.cached
              /\ n.cached = c.cached \cup {key}
              /\ n.used = c.used + Len(c.store[key])
    BY <2>2, <2>3, <2>4, CacheBlockKeeps
  <2>6. Charged(b, n)
    <3>1. CASE n = c
      BY <2>2, <2>3, <3>1
    <3>2. CASE n # c
      <4>1. /\ key \in DOMAIN c.store /\ key \notin c.cached
            /\ n.cached = c.cached \cup {key} /\ n.used = c.used + Len(c.store[key])
        BY <2>5, <3>2
      <4>2. AdapterGood(c) /\ Charged(b, c)
        BY <2>2, <2>3
      <4> QED BY <2>5, <4>1, <4>2, ChargedMore
    <3> QED BY <3>1, <3>2
  <2> QED BY <2>3, <2>5, <2>6
<1>4. Nat \subseteq X
  <2>. HIDE DEF X
  <2> QED BY <1>2, <1>3, SetInduction
<1>5. Len(ids) \in Nat /\ Len(ids) <= Len(ids)
  BY LenProperties
<1> QED BY <1>1, <1>4, <1>5

\* run_simulation
LEMMA SimulationCharges ==
  ASSUME NEW d, AdapterGood(d), DramCapacity \in Nat, NEW S, NEW layers \in Seq(S),
         NEW T, NEW ids \in Seq(T), NEW base, base.dev = d,
         NEW e, e = SimulateLayers(base, layers, ids)
  PROVE  Charged(d, e.dev)
<1>1. PICK f : /\ Turns(f, "simulate", ids, base, layers)
               /\ SimulateLayers(base, layers, ids) = f[Len(layers)]
  BY SimulateTurns
<1>. DEFINE X == {i \in Nat : i <= Len(layers) => AdapterGood(f[i].dev) /\ Charged(d, f[i].dev)}
<1>2. 0 \in X
  BY <1>1, ChargedSame DEF Turns
<1>3. ASSUME NEW i \in Nat, i \in X PROVE i + 1 \in X
  <2> SUFFICES ASSUME i + 1 <= Len(layers)
               PROVE  AdapterGood(f[i + 1].dev) /\ Charged(d, f[i + 1].dev)
    OBVIOUS
  <2>1. i + 1 \in 1..Len(layers) /\ (i + 1) - 1 = i /\ i <= Len(layers)
    BY LenProperties
  <2>2. AdapterGood(f[i].dev) /\ Charged(d, f[i].dev)
    BY <1>3, <2>1
  <2>3. f[i + 1] = SimulateLayer(f[i], layers[i + 1], ids)
    <3>1. f[i + 1] = Turned("simulate", ids, f[(i + 1) - 1], layers[i + 1])
      BY <1>1, <2>1 DEF Turns
    <3> QED BY <2>1, <3>1 DEF Turned
  <2>4. f[i + 1].dev = PrefetchKV(f[i].dev, PredictedLayer(layers[i + 1]), Predicted(ids))
    BY <2>3 DEF SimulateLayer
  <2>5. Predicted(ids) \in Seq(T)
    BY PredictedIs
  <2>. HIDE DEF X
  <2> QED BY <2>2, <2>4, <2>5, PrefetchKVCharges
<1>4. Nat \subseteq X
  <2>. HIDE DEF X
  <2> QED BY <1>2, <1>3, SetInduction
<1>5. Len(layers) \in Nat /\ Len(layers) <= Len(layers)
  BY LenProperties
<1> QED BY <1>1, <1>4, <1>5

\* Stores of a call that adds tokens: no block is changed and none is lost.
LEMMA StoresAreMock ==
  ASSUME StoresMore(dev, dev'), reply' = NoReply
  PROVE  Mock!Next
<1>. DEFINE keys == {key \in DOMAIN dev'.store :
                       key \notin DOMAIN dev.store \/ dev'.store[key] # dev.store[key]}
<1>1. /\ DOMAIN dev.store \subseteq DOMAIN dev'.store
      /\ \A key \in DOMAIN dev.store : dev'.store[key] = dev.store[key]
      /\ dev'.cached = dev.cached /\ dev'.used = dev.used
  BY DEF StoresMore
<1>2. DOMAIN dev'.store = DOMAIN dev.store \cup keys
  BY <1>1
<1>3. \A key \in DOMAIN dev.store \ keys : dev'.store[key] = dev.store[key]
  BY <1>1
<1>4. Mock!StoreKV(keys)
  BY <1>1, <1>2, <1>3 DEF Mock!StoreKV, Mock!Nothing, NoReply
<1> QED BY <1>4 DEF Mock!Next

\* A call that changes nothing the host sees.
LEMMA NoCallIsMock ==
  ASSUME dev'.store = dev.store, dev'.cached = dev.cached, dev'.used = dev.used,
         reply' = NoReply
  PROVE  Mock!Next
<1>1. Mock!NoCall
  BY DEF Mock!NoCall, Mock!Nothing, NoReply
<1> QED BY <1>1 DEF Mock!Next

\* What the controller is charged for stored blocks.
LEMMA ChargeIs ==
  ASSUME NEW keys, IsFiniteSet(keys), keys \subseteq DOMAIN dev.store,
         NEW h, Sums(h, Sizes(dev.store), keys)
  PROVE  Mock!Charge(keys) = h[keys]
<1>. DEFINE Eq(g) == g = [s \in SUBSET keys |-> IF s = {} THEN 0
                                       ELSE Len(dev.store[One(s)]) + g[s \ {One(s)}]]
            it == CHOOSE g : Eq(g)
<1>1. Mock!Charge(keys) = it[keys]
  BY DEF Mock!Charge, Mock!Size, Mock!MapThenSumSet, Mock!MapThenFoldSet, One
<1>2. \A s \in SUBSET keys : s # {} => Sizes(dev.store)[One(s)] = Len(dev.store[One(s)])
  BY OneIn DEF Sizes
<1>3. \A g : Eq(g) <=> Sums(g, Sizes(dev.store), keys)
  BY <1>2 DEF Sums
<1>4. Eq(h)
  BY <1>3
<1>5. Eq(it)
  BY <1>4
<1>6. Sums(it, Sizes(dev.store), keys)
  BY <1>3, <1>5
<1>. HIDE DEF it
<1> QED BY <1>1, <1>6, SumsUnique

\* Prefetches of a call.
LEMMA PrefetchIsMock ==
  ASSUME AdapterGood(dev), Charged(dev, dev'), AdapterGood(dev'), reply' = NoReply
  PROVE  Mock!Next
<1>1. PICK d, e, keys : d = dev /\ e = dev' /\ keys = e.cached \ d.cached
  OBVIOUS
<1>2. /\ e.store = d.store /\ d.cached \subseteq e.cached /\ IsFiniteSet(keys)
      /\ AdapterGood(d) /\ AdapterGood(e)
  BY <1>1 DEF Charged
<1>3. PICK h : ChargedBy(h, d, e)
  BY <1>1 DEF Charged
<1>4. Sums(h, Sizes(d.store), keys) /\ e.used = d.used + h[keys]
  BY <1>1, <1>3 DEF ChargedBy
<1>5. keys \subseteq DOMAIN d.store \ d.cached
  BY <1>1, <1>2 DEF AdapterGood
<1>6. e.cached = d.cached \cup keys
  BY <1>1, <1>2
<1>7. Mock!Charge(keys) = h[keys]
  BY <1>1, <1>2, <1>4, <1>5, ChargeIs
<1>8. e.used <= DramCapacity
  BY <1>2 DEF AdapterGood
<1>9. CASE keys = {}
  <2>1. h[keys] = 0
    <3>1. {} \in SUBSET keys
      OBVIOUS
    <3> QED BY <1>4, <1>9, <3>1 DEF Sums
  <2>2. d.used \in Nat
    BY <1>2 DEF AdapterGood, IsAdapter
  <2>3. e.used = d.used
    BY <1>4, <2>1, <2>2
  <2>4. e.cached = d.cached
    BY <1>6, <1>9
  <2> QED BY <1>1, <1>2, <2>3, <2>4, NoCallIsMock
<1>10. CASE keys # {}
  <2>1. Mock!PrefetchKV(keys)
    BY <1>1, <1>2, <1>4, <1>5, <1>6, <1>7, <1>8, <1>10 DEF Mock!PrefetchKV, Mock!Nothing, NoReply
  <2>2. Mock!PrefetchKV(dev'.cached \ dev.cached)
    BY <1>1, <2>1
  <2> QED BY <2>2 DEF Mock!Next
<1> QED BY <1>9, <1>10

\* Finitely many blocks are stored.
LEMMA StoreFinite ==
  ASSUME NEW d, AdapterGood(d)
  PROVE  IsFiniteSet(DOMAIN d.store)
<1>1. d.order \in Seq(Keys) /\ Len(d.order) \in Nat
  BY LenProperties DEF AdapterGood
<1>2. PICK n \in Nat : n = Len(d.order)
  BY <1>1
<1>3. PICK f : f = [i \in 1..n |-> d.order[i]]
  OBVIOUS
<1>4. \A i \in 1..n : d.order[i] \in DOMAIN d.store
  BY <1>2 DEF AdapterGood, Among
<1>5. \A key \in DOMAIN d.store : \E i \in 1..n : f[i] = key
  BY <1>2, <1>3 DEF AdapterGood, Among
<1>6. f \in Surjection(1..n, DOMAIN d.store)
  BY <1>3, <1>4, <1>5 DEF Surjection
<1>7. IsFiniteSet(1..n)
  BY FS_Interval
<1> QED BY <1>6, <1>7, FS_Surjection

\* Blocks that a Top-K scores.
ScoredOf(store, layer) == {key[2] : key \in {x \in DOMAIN store : x[1] = layer}}

\* So finitely many blocks are scored.
LEMMA ScoredFinite ==
  ASSUME NEW d, AdapterGood(d), NEW layer
  PROVE  IsFiniteSet(ScoredOf(d.store, layer))
<1>1. PICK K : K = {x \in DOMAIN d.store : x[1] = layer}
  OBVIOUS
<1>2. IsFiniteSet(K)
  BY <1>1, StoreFinite, FS_Subset
<1>3. PICK f : f = [key \in K |-> key[2]]
  OBVIOUS
<1>4. f \in Surjection(K, ScoredOf(d.store, layer))
  BY <1>1, <1>3 DEF Surjection, ScoredOf
<1> QED BY <1>2, <1>4, FS_Surjection

\* The k best: some of the scored blocks, each once.
LEMMA TopIs ==
  ASSUME NEW d, AdapterGood(d), NEW layer, NEW k, NEW r, r \in TopKAnswers(d, layer, k)
  PROVE  /\ r \in Seq(ScoredOf(d.store, layer))
         /\ Len(r) \in Nat
         /\ Len(r) <= Cardinality(ScoredOf(d.store, layer))
         /\ \A i \in DOMAIN r : r[i] \in ScoredOf(d.store, layer)
         /\ \A i, j \in DOMAIN r : r[i] = r[j] => i = j
         /\ Len(r) = 0 => r = <<>>
         /\ Len(r) # 0 => ScoredOf(d.store, layer) # {}
<1>1. PICK S : S = ScoredOf(d.store, layer)
  OBVIOUS
<1>2. IsFiniteSet(S)
  BY <1>1, ScoredFinite
<1>3. PICK top \in SUBSET S : r \in SetToSeqs(top)
  BY <1>1 DEF TopKAnswers, kSubset, ScoredOf
<1>4. IsFiniteSet(top) /\ Cardinality(top) <= Cardinality(S)
  BY <1>2, FS_Subset
<1>5. PICK c \in Nat : c = Cardinality(top)
  BY <1>4, FS_CardinalityType
<1>6. r \in [1..c -> top] /\ \A i, j \in 1..c : i # j => r[i] # r[j]
  BY <1>3, <1>5 DEF SetToSeqs
<1>7. r \in Seq(top)
  BY <1>6
<1>8. DOMAIN r = 1..c
  BY <1>6
<1>9. Len(r) = c
  BY <1>7, <1>8, LenProperties
<1>10. c = 0 => r = <<>>
  BY <1>7, <1>9, EmptySeq
<1>11. c # 0 => S # {}
  <2>1. c # 0 => 1 \in 1..c
    OBVIOUS
  <2> QED BY <1>6, <2>1
<1>12. \A i \in DOMAIN r : r[i] \in S
  BY <1>6, <1>8
<1>13. \A i, j \in DOMAIN r : r[i] = r[j] => i = j
  BY <1>6, <1>8
<1>14. r \in Seq(S)
  BY <1>7, SeqMonotonic
<1> QED BY <1>1, <1>4, <1>5, <1>9, <1>10, <1>11, <1>12, <1>13, <1>14

\* in_storage_topk_attention answers as the mock controller does.
LEMMA TopKIsMock ==
  ASSUME AdapterGood(dev), dev' = dev, NEW layer, NEW k, reply' \in TopKAnswers(dev, layer, k)
  PROVE  Mock!Next
<1>1. PICK d, r : d = dev /\ r = reply'
  OBVIOUS
<1>2. AdapterGood(d) /\ r \in TopKAnswers(d, layer, k)
  BY <1>1
<1>3. PICK S : S = ScoredOf(d.store, layer)
  OBVIOUS
<1>4. /\ Len(r) \in Nat /\ Len(r) <= Cardinality(S)
      /\ \A i \in DOMAIN r : r[i] \in S
      /\ \A i, j \in DOMAIN r : r[i] = r[j] => i = j
      /\ Len(r) = 0 => r = <<>>
      /\ Len(r) # 0 => S # {}
  BY <1>2, <1>3, TopIs
<1>5. PICK n \in Nat : n = Len(r)
  BY <1>4
<1>6. PICK C \in Nat : C = Cardinality(S)
  BY <1>2, <1>3, ScoredFinite, FS_CardinalityType
<1>7. CASE n = 0
  <2>1. reply' = NoReply
    BY <1>1, <1>4, <1>5, <1>7 DEF NoReply
  <2> QED BY <2>1, NoCallIsMock
<1>8. CASE n # 0
  <2>1. n \in 1..Len(reply')
    BY <1>1, <1>5, <1>8
  <2>2. layer \in {key[1] : key \in DOMAIN dev.store}
    BY <1>1, <1>3, <1>4, <1>5, <1>8 DEF ScoredOf
  <2>3. Mock!Scored(layer) = S
    BY <1>1, <1>3 DEF Mock!Scored, ScoredOf
  <2>4. Mock!Min({n, C}) = n
    <3>1. n <= C
      BY <1>4, <1>5, <1>6
    <3>2. n \in {n, C} /\ \A y \in {n, C} : n <= y
      BY <3>1
    <3>3. PICK x \in {n, C} : x = Mock!Min({n, C}) /\ \A y \in {n, C} : x <= y
      BY <3>2 DEF Mock!Min
    <3> QED BY <3>1, <3>3
  <2>9. Mock!Cardinality(S) = Cardinality(S)
    BY Zenon DEF Mock!Cardinality, Cardinality
  <2>5. Len(reply') = Mock!Min({n, Mock!Cardinality(Mock!Scored(layer))})
    BY <1>1, <1>5, <1>6, <2>3, <2>4, <2>9
  <2>6. Mock!ToSet(reply') \subseteq Mock!Scored(layer) /\ Mock!IsInjective(reply')
    BY <1>1, <1>4, <2>3 DEF Mock!ToSet, Mock!IsInjective
  <2>7. Mock!InStorageTopK(layer, n)
    BY <2>5, <2>6 DEF Mock!InStorageTopK
  <2> QED BY <2>1, <2>2, <2>7 DEF Mock!Next
<1> QED BY <1>7, <1>8

\* KV_EVICT
LEMMA EvictIsMock ==
  ASSUME IInv, NEW id \in Ids, KVEvict(id)
  PROVE  Mock!Next
<1>1. PICK key : key = <<pool[id + 1].layer, id>>
  OBVIOUS
<1>2. key \in DOMAIN dev.store /\ dev' = EvictKV(dev, key) /\ reply' = NoReply
  BY <1>1 DEF KVEvict
<1>3. PICK d, e : d = dev /\ e = EvictKV(d, key)
  OBVIOUS
<1>4. AdapterGood(d) /\ key \in DOMAIN d.store /\ dev' = e
  BY <1>2, <1>3 DEF IInv
<1>5. /\ AdapterGood(e)
      /\ DOMAIN e.store = DOMAIN d.store \ {key}
      /\ \A k \in DOMAIN d.store \ {key} : e.store[k] = d.store[k]
      /\ e.cached = d.cached \ {key} /\ e.used = d.used
  <2>1. AdapterGood(e)
    BY <1>3, <1>4, EvictKVKeeps
  <2>2. DOMAIN e.store = DOMAIN d.store \ {key}
    BY <1>3, <1>4, EvictKVKeeps
  <2>3. \A k \in DOMAIN d.store \ {key} : e.store[k] = d.store[k]
    BY <1>3, <1>4, EvictKVKeeps
  <2>4. e.cached = d.cached \ {key} /\ e.used = d.used
    BY <1>3, <1>4, EvictKVKeeps
  <2> QED BY <2>1, <2>2, <2>3, <2>4
<1>6. e.store = Mock!Restrict(d.store, DOMAIN d.store \ {key})
  <2>1. e.store = [k \in DOMAIN e.store |-> e.store[k]]
    BY <1>5 DEF AdapterGood
  <2>2. e.store = [k \in DOMAIN d.store \ {key} |-> d.store[k]]
    BY <1>5, <2>1
  <2> QED BY <2>2 DEF Mock!Restrict
<1>7. Mock!EvictKV(key)
  BY <1>2, <1>3, <1>4, <1>5, <1>6 DEF Mock!EvictKV, Mock!Nothing, NoReply
<1> QED BY <1>2, <1>7 DEF Mock!Next

\* KV_PREFETCH
LEMMA KVPrefetchIsMock ==
  ASSUME IInv, NEW l \in Layers, NEW ids \in LayerRequests(l), KVPrefetch(l, ids)
  PROVE  Mock!Next
<1>1. PICK d, e : d = dev /\ e = PrefetchKV(d, l, ids)
  OBVIOUS
<1>2. AdapterGood(d) /\ dev' = e /\ reply' = NoReply
  BY <1>1 DEF IInv, KVPrefetch
<1>3. ids \in Seq(Ids)
  BY RequestIs
<1>4. DramCapacity \in Nat
  BY DramAssumption
<1>5. Charged(d, d)
  BY <1>2, ChargedSame
<1>6. AdapterGood(e) /\ Charged(d, e)
  BY <1>1, <1>2, <1>3, <1>4, <1>5, PrefetchKVCharges
<1>7. AdapterGood(dev) /\ Charged(dev, dev') /\ AdapterGood(dev')
  BY <1>1, <1>2, <1>6
<1> QED BY <1>2, <1>7, PrefetchIsMock

\* run_simulation
LEMMA SimulationIsMock ==
  ASSUME IInv, NEW n \in Nat, RunSimulation(n)
  PROVE  Mock!Next
<1>1. PICK d, base, ids, layers :
        /\ d = dev /\ base = [buf |-> EmptyBuffer, dev |-> dev]
        /\ ids = Positions(0, n) /\ layers = Positions(0, Cardinality(Layers))
  OBVIOUS
<1>2. PICK e : e = SimulateLayers(base, layers, ids)
  OBVIOUS
<1>3. AdapterGood(d) /\ dev' = e.dev /\ base.dev = d /\ reply' = NoReply
  BY <1>1, <1>2 DEF IInv, RunSimulation
<1>4. ids \in Seq(Nat) /\ layers \in Seq(Nat)
  BY <1>1, SimulationArguments
<1>5. DramCapacity \in Nat
  BY DramAssumption
<1>6. Charged(d, e.dev)
  BY <1>2, <1>3, <1>4, <1>5, SimulationCharges
<1>7. AdapterGood(e.dev)
  BY <1>2, <1>3, <1>4, <1>5, SimulationKeeps
<1>8. AdapterGood(dev) /\ Charged(dev, dev') /\ AdapterGood(dev')
  BY <1>1, <1>3, <1>6, <1>7
<1> QED BY <1>3, <1>8, PrefetchIsMock

\* Every step of the stack is a step of the mock controller or a stutter.
LEMMA MockStep ==
  ASSUME IInv, [Next]_vars
  PROVE  [Mock!Next]_<<dev.store, dev.cached, dev.used, reply>>
<1>1. CASE \E l \in Layers, n \in PromptLengths : PrefillSequence(l, n)
  <2>1. PICK l \in Layers, n \in PromptLengths : PrefillSequence(l, n)
    BY <1>1
  <2>2. StoresMore(dev, dev')
    BY <2>1, PrefillInv
  <2> QED BY <2>1, <2>2, StoresAreMock DEF PrefillSequence
<1>2. CASE \E l \in Layers : AppendToken(l)
  <2>1. PICK l \in Layers : AppendToken(l)
    BY <1>2
  <2>2. StoresMore(dev, dev')
    BY <2>1, AppendInv
  <2> QED BY <2>1, <2>2, StoresAreMock DEF AppendToken
<1>3. CASE \E id \in Ids : FetchColdBlock(id)
  <2>1. PICK id \in Ids : FetchColdBlock(id)
    BY <1>3
  <2>2. PICK key : key = <<pool[id + 1].layer, id>>
    OBVIOUS
  <2>3. key \in DOMAIN dev.store /\ reply' = dev.store[key] /\ dev' = dev
    BY <2>1, <2>2 DEF FetchColdBlock, LoadKV
  <2>4. Mock!LoadKV(key)
    BY <2>3 DEF Mock!LoadKV
  <2> QED BY <2>3, <2>4 DEF Mock!Next
<1>4. CASE \E l \in Layers, k \in 1..2 : DecodeAttention(l, k)
  <2>1. PICK l \in Layers, k \in 1..2 : DecodeAttention(l, k)
    BY <1>4
  <2>2. reply' \in TopKAnswers(dev, l, k) /\ dev' = dev
    BY <2>1 DEF DecodeAttention
  <2>3. AdapterGood(dev)
    BY DEF IInv
  <2> QED BY <2>2, <2>3, TopKIsMock
<1>5. CASE \E l \in Layers : \E ids \in LayerRequests(l) : KVPrefetch(l, ids)
  BY <1>5, KVPrefetchIsMock
<1>6. CASE \E l \in Layers : KVTopK(l, LayerBlocks(pool, l))
  <2>1. dev' = dev /\ reply' = NoReply
    BY <1>6 DEF KVTopK
  <2> QED BY <2>1, NoCallIsMock
<1>7. CASE \E id \in Ids : KVEvict(id)
  BY <1>7, EvictIsMock
<1>8. CASE \E mode \in Modes : SwitchMode(mode)
  <2>1. PICK mode \in Modes : SwitchMode(mode)
    BY <1>8
  <2>2. dev'.store = dev.store /\ dev'.cached = dev.cached /\ dev'.used = dev.used
    BY <2>1, SwitchInv
  <2>3. reply' = NoReply
    BY <2>1 DEF SwitchMode
  <2> QED BY <2>2, <2>3, NoCallIsMock
<1>9. CASE \E n \in 1..2 : RunSimulation(n)
  BY <1>9, SimulationIsMock
<1>10. CASE UNCHANGED vars
  BY <1>10 DEF vars
<1> QED BY <1>1, <1>2, <1>3, <1>4, <1>5, <1>6, <1>7, <1>8, <1>9, <1>10 DEF Next

\* Whatever the flash layer does, the host sees the mock SSD controller.
THEOREM TiersImplementMockSSD == Spec => ImplementsMockSSD
<1>1. Init => Mock!Init
  <2> SUFFICES ASSUME Init PROVE Mock!Init
    OBVIOUS
  <2>1. PICK mode \in Modes : dev = NewAdapter(mode)
    BY DEF Init
  <2>2. reply = <<>>
    BY DEF Init, NoReply
  <2> QED BY <2>1, <2>2 DEF NewAdapter, Mock!Init, Mock!Nothing
<1>2. Spec => [][Mock!Next]_<<dev.store, dev.cached, dev.used, reply>>
  BY PoolAlwaysGood, MockStep, PTL DEF Spec
<1> QED
  BY <1>1, <1>2, PTL DEF Spec, ImplementsMockSSD, Mock!Spec, Mock!vars

-----------------------------------------------------------------------------
(***************************************************************************)
(* What reads cost.                                                        *)
(***************************************************************************)

\* What every call of the stack keeps beside IInv: the pages of the stored blocks, and that
\* the pinned blocks are sinks.
CInv == Costs(dev, Len(pool)) /\ Pinned(pool)

\* The store has blocks of the pool only.
LEMMA PoolBelow ==
  ASSUME IInv
  PROVE  Below(dev, Len(pool)) /\ Len(pool) \in Nat
<1>1. pool \in Seq(Block) /\ Len(pool) \in Nat
  BY LenProperties DEF IInv, PoolGood
<1>2. ASSUME NEW key \in DOMAIN dev.store PROVE key \in Keys /\ key[2] < Len(pool)
  <2>1. PICK i \in 1..Len(pool) : key = KeyAt(pool, i)
    BY DEF IInv, PoolGood
  <2>2. i - 1 \in Nat /\ i - 1 < Len(pool) /\ key[2] = i - 1
    BY <1>1, <2>1 DEF KeyAt
  <2>3. pool[i] \in Block
    BY <1>1, <2>1, ElementOfSeq
  <2>4. pool[i].layer \in Nat
    BY <2>3, LayersAre DEF Block
  <2> QED BY <2>1, <2>2, <2>4 DEF KeyAt, Keys
<1> QED BY <1>1, <1>2 DEF Below

LEMMA InitCosts == ASSUME Init PROVE CInv
<1>1. PICK mode \in Modes : dev = NewAdapter(mode)
  BY DEF Init
<1>2. pool = <<>> /\ Len(pool) = 0
  BY EmptySeq DEF Init
<1>3. DOMAIN dev.store = {} /\ DOMAIN dev.sim.map = {}
  BY <1>1 DEF NewAdapter, NewSimulator
<1> QED BY <1>2, <1>3 DEF CInv, Costs, Laid, HasPages, Below, Pinned

\* prefill_sequence and append_token
LEMMA AddedCosts ==
  ASSUME IInv, CInv, NEW l, NEW m, NEW blocks, NEW len2, NEW cut, Adds(l, m, blocks, len2, cut)
  PROVE  CInv'
<1>1. PICK d, e, new : d = dev /\ e = dev' /\ new = pool'
  OBVIOUS
<1>2. Leaves(blocks, d, new, e, l, cut)
  BY <1>1, AddedInv
<1>3. Len(pool) \in Nat /\ Len(blocks) \in Nat /\ Len(pool) <= Len(blocks)
  <2>1. blocks \in Seq(Block)
    BY DEF Adds, PoolGood
  <2> QED BY <2>1, PoolBelow, LenProperties DEF Adds
<1>4. Costs(d, Len(blocks))
  <2>1. DOMAIN d.store \subseteq DOMAIN d.store /\ Costs(d, Len(pool))
    BY <1>1 DEF CInv
  <2> QED BY <1>3, <2>1, SameSimCosts
<1>5. Costs(e, Len(new)) /\ Len(new) = Len(blocks)
  BY <1>2, <1>3, <1>4 DEF Leaves
<1>6. Pinned(new)
  BY <1>2 DEF CInv, Adds, Leaves
<1> QED BY <1>1, <1>5, <1>6 DEF CInv

\* Calls that keep the simulator and the pool, and store nothing.
LEMMA SameCosts ==
  ASSUME IInv, CInv, NEW new, pool' = new, Len(new) = Len(pool), Pinned(new),
         dev'.sim = dev.sim, DOMAIN dev'.store \subseteq DOMAIN dev.store
  PROVE  CInv'
<1>1. PICK d, e : d = dev /\ e = dev'
  OBVIOUS
<1>2. PICK n \in Nat : n = Len(pool)
  BY PoolBelow
<1>3. Costs(e, n)
  <2>1. n <= n /\ Costs(d, n)
    BY <1>1, <1>2 DEF CInv
  <2> QED BY <1>1, <2>1, SameSimCosts
<1> QED BY <1>1, <1>2, <1>3 DEF CInv

\* fetch_cold_block
LEMMA FetchCosts ==
  ASSUME IInv, CInv, NEW id \in Ids, FetchColdBlock(id)
  PROVE  CInv'
<1>1. pool \in Seq(Block) /\ Len(pool) \in Nat
  BY PoolBelow DEF IInv, PoolGood
<1>2. PICK k \in 1..Len(pool) : k = id + 1
  BY <1>1 DEF Ids
<1>3. PICK b \in Block : b = pool[k]
  BY <1>1, ElementOfSeq
<1>4. PICK v, data : v = TRUE /\ data = reply'
  OBVIOUS
<1>5. PICK c : c = [[b EXCEPT !.ram = v] EXCEPT !.data = data]
  OBVIOUS
<1>6. c.pinned = b.pinned /\ c.start = b.start
  BY <1>5 DEF Block
<1>7. PICK new : new = [pool EXCEPT ![k] = c]
  OBVIOUS
<1>8. pool' = new /\ dev' = dev
  <2>1. pool' = [pool EXCEPT ![id + 1].ram = TRUE, ![id + 1].data = reply'] /\ dev' = dev
    BY DEF FetchColdBlock
  <2>2. pool' = [pool EXCEPT ![k].ram = v, ![k].data = data]
    BY <1>2, <1>4, <2>1
  <2> QED BY <1>3, <1>5, <1>7, <2>1, <2>2
<1>9. Len(new) = Len(pool) /\ \A i \in 1..Len(pool) : new[i] = IF i = k THEN c ELSE pool[i]
  BY <1>1, <1>7
<1>10. Pinned(new)
  BY <1>3, <1>6, <1>9 DEF CInv, Pinned
<1> QED BY <1>8, <1>9, <1>10, SameCosts

\* KV_EVICT
LEMMA EvictCosts ==
  ASSUME IInv, CInv, NEW id \in Ids, KVEvict(id)
  PROVE  CInv'
<1>1. PICK key : key = <<pool[id + 1].layer, id>>
  OBVIOUS
<1>2. PICK d, e : d = dev /\ e = EvictKV(d, key)
  OBVIOUS
<1>3. dev' = e /\ pool' = pool /\ key \in DOMAIN d.store /\ AdapterGood(d)
  BY <1>1, <1>2 DEF KVEvict, IInv
<1>4. e.sim = d.sim /\ DOMAIN e.store = DOMAIN d.store \ {key}
  BY <1>2, <1>3, EvictKVKeeps
<1>5. Pinned(pool) /\ DOMAIN e.store \subseteq DOMAIN d.store
  BY <1>4 DEF CInv
<1> QED BY <1>2, <1>3, <1>4, <1>5, SameCosts

\* set_mode
LEMMA SwitchCosts ==
  ASSUME IInv, CInv, NEW mode \in Modes, SwitchMode(mode)
  PROVE  CInv'
<1>1. PICK d, e, n : d = dev /\ e = SetMode(d, mode) /\ n = Len(pool)
  OBVIOUS
<1>2. dev' = e /\ pool' = pool /\ AdapterGood(d)
  BY <1>1 DEF SwitchMode, IInv
<1>3. Below(d, n) /\ n \in Nat
  BY <1>1, PoolBelow
<1>4. Costs(e, n)
  BY <1>1, <1>2, <1>3, SetModeCosts
<1> QED BY <1>1, <1>2, <1>4 DEF CInv

\* They hold through every step of the stack.
LEMMA CostsStep == IInv /\ CInv /\ [Next]_vars => CInv'
<1> SUFFICES ASSUME IInv, CInv, [Next]_vars PROVE CInv'
  OBVIOUS
<1>. DEFINE Quiet == pool' = pool /\ dev'.sim = dev.sim /\ dev'.store = dev.store
<1>1. CASE \E l \in Layers, n \in PromptLengths : PrefillSequence(l, n)
  BY <1>1, PrefillAdds, AddedCosts
<1>2. CASE \E l \in Layers : AppendToken(l)
  BY <1>2, AppendAdds, AddedCosts
<1>3. CASE \E id \in Ids : FetchColdBlock(id)
  BY <1>3, FetchCosts
<1>4. CASE \E l \in Layers, k \in 1..2 : DecodeAttention(l, k)
  <2>1. Quiet
    BY <1>4 DEF DecodeAttention
  <2> QED BY <2>1, SameCosts DEF CInv
<1>5. CASE \E l \in Layers : \E ids \in LayerRequests(l) : KVPrefetch(l, ids)
  <2>1. Quiet
    BY <1>5, PrefetchInv DEF KVPrefetch
  <2> QED BY <2>1, SameCosts DEF CInv
<1>6. CASE \E l \in Layers : KVTopK(l, LayerBlocks(pool, l))
  <2>1. Quiet
    BY <1>6 DEF KVTopK
  <2> QED BY <2>1, SameCosts DEF CInv
<1>7. CASE \E id \in Ids : KVEvict(id)
  BY <1>7, EvictCosts
<1>8. CASE \E mode \in Modes : SwitchMode(mode)
  BY <1>8, SwitchCosts
<1>9. CASE \E n \in 1..2 : RunSimulation(n)
  <2>1. Quiet
    BY <1>9, SimulationInv DEF RunSimulation
  <2> QED BY <2>1, SameCosts DEF CInv
<1>10. CASE UNCHANGED vars
  <2>1. Quiet
    BY <1>10 DEF vars
  <2> QED BY <2>1, SameCosts DEF CInv
<1> QED BY <1>1, <1>2, <1>3, <1>4, <1>5, <1>6, <1>7, <1>8, <1>9, <1>10 DEF Next

\* The number of block ids that a global id tells apart.
LEMMA IdsTold == 2^IdBits \in Nat \ {0}
<1>1. IdBits \in Nat
  BY DramAssumption
<1>2. PICK S : S = 1..IdBits
  OBVIOUS
<1>3. IsFiniteSet(S) /\ Cardinality(S) = IdBits
  <2>1. 1 \in Int /\ IdBits \in Int
    BY <1>1
  <2>2. /\ IsFiniteSet(1..IdBits)
        /\ Cardinality(1..IdBits) = IF 1 > IdBits THEN 0 ELSE IdBits - 1 + 1
    BY <2>1, FS_Interval
  <2> QED BY <1>1, <1>2, <2>2
<1>4. /\ IsFiniteSet(SUBSET S)
      /\ Cardinality(SUBSET S) = 2^IdBits
  BY <1>3, FS_SUBSET
<1>5. Cardinality(SUBSET S) \in Nat
  BY <1>4, FS_CardinalityType
<1>6. Cardinality(SUBSET S) # 0
  <2>1. {} \in SUBSET S
    OBVIOUS
  <2>2. SUBSET S # {}
    BY <2>1
  <2> QED BY <1>4, <2>2, FS_EmptySet
<1> QED BY <1>4, <1>5, <1>6

\* Below that number, blocks have global ids of their own.
LEMMA GidTells ==
  ASSUME NEW x \in Keys, NEW y \in Keys, x[2] < 2^IdBits, y[2] < 2^IdBits, Gid(x) = Gid(y)
  PROVE  x = y
<1>1. PICK p \in Nat \ {0} : p = 2^IdBits
  BY IdsTold
<1>2. PICK a \in Nat, b \in Nat : x = <<a, b>>
  BY DEF Keys
<1>3. PICK c \in Nat, d \in Nat : y = <<c, d>>
  BY DEF Keys
<1>4. b < p /\ d < p
  BY <1>1, <1>2, <1>3
<1>5. b % p = b /\ d % p = d
  BY <1>4
<1>6. a * p + b = c * p + d
  BY <1>1, <1>2, <1>3, <1>5 DEF Gid
<1>7. (a - c) * p = d - b /\ d - b < p /\ b - d < p
  <2>1. (a - c) * p = a * p - c * p
    BY Z3
  <2>2. a * p \in Nat /\ c * p \in Nat
    BY Z3
  <2> QED BY <1>4, <1>6, <2>1, <2>2
<1>8. a - c <= 0
  <2> SUFFICES ASSUME a - c >= 1 PROVE FALSE
    OBVIOUS
  <2>1. (a - c) * p >= 1 * p
    BY Z3
  <2> QED BY <1>7, <2>1
<1>9. a - c >= 0
  <2> SUFFICES ASSUME a - c <= -1 PROVE FALSE
    OBVIOUS
  <2>1. (a - c) * p <= (-1) * p
    BY Z3
  <2> QED BY <1>7, <2>1
<1>10. a = c
  BY <1>8, <1>9
<1>11. b = d
  BY <1>6, <1>10
<1> QED BY <1>2, <1>3, <1>10, <1>11

\* The blocks of a stripe lie on channels of their own.
LEMMA StripeSpreads ==
  ASSUME NEW i \in Nat, NEW j \in Nat, i \div Channels = j \div Channels,
         ChannelOf(i) = ChannelOf(j)
  PROVE  i = j
<1>1. PICK c \in Nat \ {0} : c = Channels
  BY GeometryAssumption
<1>2. PICK s \in Nat : s = i \div c
  BY <1>1, Divided
<1>3. s = j \div c
  BY <1>1, <1>2
<1>4. PICK r \in 0..(c - 1) : r = i % c
  BY <1>1, Divided
<1>5. PICK t \in 0..(c - 1) : t = j % c
  BY <1>1, Divided
<1>6. i = c * s + r /\ j = c * s + t
  BY <1>2, <1>3, <1>4, <1>5, Divided
<1>7. (i + s) % c = (j + s) % c
  BY <1>1, <1>2, <1>3 DEF ChannelOf
<1>8. PICK u \in Nat, v \in Nat : u = i + s /\ v = j + s
  OBVIOUS
<1>9. PICK a \in Nat, b \in Nat : u = c * a + (u % c) /\ v = c * b + (v % c)
  <2>1. u \div c \in Nat /\ v \div c \in Nat
    BY Divided
  <2>2. u = c * (u \div c) + (u % c) /\ v = c * (v \div c) + (v % c)
    BY Divided
  <2> QED BY <2>1, <2>2
<1>10. u - v = r - t /\ u - v = c * a - c * b
  <2>1. c * a \in Nat /\ c * b \in Nat /\ c * s \in Nat
    BY Z3
  <2>2. PICK w \in Nat : w = u % c /\ w = v % c
    <3>1. u % c \in Nat
      BY Divided
    <3> QED BY <1>7, <1>8, <3>1
  <2>3. PICK ca \in Nat, cb \in Nat, cs \in Nat : ca = c * a /\ cb = c * b /\ cs = c * s
    BY <2>1
  <2>4. u = ca + w /\ v = cb + w
    BY <1>9, <2>2, <2>3
  <2>5. u = cs + r + s /\ v = cs + t + s
    BY <1>6, <1>8, <2>3
  <2> QED BY <2>3, <2>4, <2>5
<1>11. c * (a - b) = r - t
  <2>1. c * (a - b) = c * a - c * b
    BY Z3
  <2> QED BY <1>10, <2>1
<1>12. r - t < c /\ t - r < c
  OBVIOUS
<1>13. a - b <= 0
  <2> SUFFICES ASSUME a - b >= 1 PROVE FALSE
    OBVIOUS
  <2>1. c * (a - b) >= c * 1
    BY Z3
  <2> QED BY <1>11, <1>12, <2>1
<1>14. a - b >= 0
  <2> SUFFICES ASSUME a - b <= -1 PROVE FALSE
    OBVIOUS
  <2>1. c * (a - b) <= c * (-1)
    BY Z3
  <2> QED BY <1>11, <1>12, <2>1
<1>15. a = b
  BY <1>13, <1>14
<1>16. r = t
  <2>1. c * (a - b) = 0
    BY <1>15
  <2> QED BY <1>11, <2>1
<1> QED BY <1>6, <1>16

\* The maximum of a bounded set.
LEMMA MaxBounded ==
  ASSUME NEW S, S \subseteq Nat, NEW s \in S, NEW N \in Nat, \A x \in S : x <= N
  PROVE  Max(S) <= N
<1>. DEFINE Top(n) == (\A x \in S : x <= n) => \E m \in S : \A x \in S : x <= m
            X == {n \in Nat : Top(n)}
<1>1. 0 \in X
  <2> SUFFICES ASSUME \A x \in S : x <= 0 PROVE \E m \in S : \A x \in S : x <= m
    OBVIOUS
  <2>1. \A x \in S : x <= s
    OBVIOUS
  <2> QED BY <2>1
<1>2. ASSUME NEW n \in Nat, n \in X PROVE n + 1 \in X
  <2> SUFFICES ASSUME \A x \in S : x <= n + 1 PROVE \E m \in S : \A x \in S : x <= m
    OBVIOUS
  <2>1. CASE n + 1 \in S
    BY <2>1
  <2>2. CASE n + 1 \notin S
    <3>1. \A x \in S : x <= n
      BY <2>2
    <3> QED BY <1>2, <3>1
  <2> QED BY <2>1, <2>2
<1>3. Nat \subseteq X
  <2>. HIDE DEF X
  <2> QED BY <1>1, <1>2, SetInduction
<1>4. PICK m \in S : \A x \in S : x <= m
  BY <1>3
<1>5. Max(S) = m
  BY <1>4, MaxIs
<1> QED BY <1>4, <1>5

\* The stripes that blocks are in, their global ids, and the pages of a batch on a channel.
StripesOf(scan) == {key[2] \div Channels : key \in scan}
GidsOf(scan) == {Gid(key) : key \in scan}
OnChannel(sim, gids, c) == {g \in gids \cap DOMAIN sim.map : sim.map[g].ch = c}

\* On the striped layer no channel has two of the blocks of a stripe.
LEMMA ChannelsShare ==
  ASSUME NEW d, AdapterGood(d), d.sim.mode = "tensor_aware",
         NEW n \in Nat, n <= 2^IdBits, Costs(d, n),
         NEW l \in Layers, NEW scan, scan = ScannedFromFlash(d, l), NEW c,
         NEW G, G = OnChannel(d.sim, GidsOf(scan), c),
         NEW T, T = StripesOf(scan)
  PROVE  Cardinality(G) <= Cardinality(T)
<1>0. /\ T = {key[2] \div Channels : key \in scan}
      /\ G = {g \in {Gid(key) : key \in scan} \cap DOMAIN d.sim.map : d.sim.map[g].ch = c}
  BY DEF StripesOf, GidsOf, OnChannel
<1>1. /\ scan \subseteq DOMAIN d.store
      /\ \A key \in scan : key \in Keys /\ key[1] = l /\ key[2] \in Nat /\ key[2] < n
  BY DEF ScannedFromFlash, Costs, Below, Keys
<1>2. IsFiniteSet(T)
  <2>1. IsFiniteSet(scan)
    BY <1>1, StoreFinite, FS_Subset
  <2>2. PICK f : f = [key \in scan |-> key[2] \div Channels]
    OBVIOUS
  <2>3. f \in Surjection(scan, T)
    BY <1>0, <2>2 DEF Surjection
  <2> QED BY <2>1, <2>3, FS_Surjection
<1>. DEFINE Of(g) == CHOOSE key \in scan : Gid(key) = g
<1>3. ASSUME NEW g \in G
      PROVE  Of(g) \in scan /\ Gid(Of(g)) = g /\ ChannelOf(Of(g)[2]) = c
  <2>1. PICK k \in scan : k = Of(g) /\ Gid(k) = g
    BY <1>0
  <2>2. LaidAt(d.sim, n, g) /\ d.sim.map[g].ch = c
    BY <1>0 DEF Costs, Laid
  <2>3. PICK x \in Keys : x[2] < n /\ Gid(x) = g /\ d.sim.map[g].ch = ChannelOf(x[2])
    BY <2>2 DEF LaidAt
  <2>4. x = k
    <3>1. k \in Keys /\ k[2] \in Nat /\ k[2] < n /\ x[2] \in Nat
      BY <1>1, <2>1 DEF Keys
    <3>2. 2^IdBits \in Nat
      BY IdsTold
    <3>3. k[2] < 2^IdBits /\ x[2] < 2^IdBits
      BY <2>3, <3>1, <3>2
    <3> QED BY <2>1, <2>3, <3>1, <3>3, GidTells
  <2> QED BY <2>1, <2>2, <2>3, <2>4
<1>. HIDE DEF Of
<1>4. PICK f : f = [g \in G |-> Of(g)[2] \div Channels]
  OBVIOUS
<1>5. f \in [G -> T]
  BY <1>3, <1>4, <1>0
<1>6. ASSUME NEW g \in G, NEW h \in G, f[g] = f[h] PROVE g = h
  <2>1. PICK x \in scan : x = Of(g) /\ Gid(x) = g /\ ChannelOf(x[2]) = c
    BY <1>3
  <2>2. PICK y \in scan : y = Of(h) /\ Gid(y) = h /\ ChannelOf(y[2]) = c
    BY <1>3
  <2>3. x[2] \div Channels = y[2] \div Channels
    BY <1>4, <1>6, <2>1, <2>2
  <2>4. x[2] = y[2]
    BY <1>1, <2>1, <2>2, <2>3, StripeSpreads
  <2>5. x = y
    <3>1. x \in Keys /\ y \in Keys /\ x[1] = y[1]
      BY <1>1
    <3> QED BY <2>4, <3>1 DEF Keys
  <2> QED BY <2>1, <2>2, <2>5
<1>7. f \in Injection(G, T)
  BY <1>5, <1>6 DEF Injection, IsInjective
<1> QED BY <1>2, <1>7, FS_Injection

\* So a scan takes no longer than the stripes it touches.
LEMMA ScanTakes ==
  ASSUME NEW d, AdapterGood(d), d.sim.mode = "tensor_aware",
         NEW n \in Nat, n <= 2^IdBits, Costs(d, n),
         NEW l \in Layers, NEW scan, scan = ScannedFromFlash(d, l),
         NEW T, T = StripesOf(scan), NEW gids, gids = GidsOf(scan)
  PROVE  BatchReadTime(d.sim, gids) <= Cardinality(T)
<1>1. IsFiniteSet(scan)
  <2>1. scan \subseteq DOMAIN d.store
    BY DEF ScannedFromFlash
  <2> QED BY <2>1, StoreFinite, FS_Subset
<1>2. IsFiniteSet(T) /\ IsFiniteSet(gids)
  <2>1. PICK f, h : f = [key \in scan |-> key[2] \div Channels] /\ h = [key \in scan |-> Gid(key)]
    OBVIOUS
  <2>2. f \in Surjection(scan, T) /\ h \in Surjection(scan, gids)
    BY <2>1 DEF Surjection, StripesOf, GidsOf
  <2>3. IsFiniteSet(T)
    BY <1>1, <2>2, FS_Surjection
  <2>4. IsFiniteSet(gids)
    BY <1>1, <2>2, FS_Surjection
  <2> QED BY <2>3, <2>4
<1>3. PICK N \in Nat : N = Cardinality(T)
  BY <1>2, FS_CardinalityType
<1>4. PICK loads : loads = ChannelLoads(d.sim, gids)
  OBVIOUS
<1>5. DOMAIN loads = 0..(Channels - 1) /\ 0 \in DOMAIN loads
  BY <1>4, GeometryAssumption DEF ChannelLoads
<1>6. ASSUME NEW c \in DOMAIN loads PROVE loads[c] \in Nat /\ loads[c] <= N
  <2>1. PICK G : G = OnChannel(d.sim, gids, c)
    OBVIOUS
  <2>2. loads[c] = Cardinality(G)
    BY <1>4, <1>5, <2>1 DEF ChannelLoads, OnChannel
  <2>3. Cardinality(G) \in Nat
    <3>1. IsFiniteSet(G)
      BY <1>2, <2>1, FS_Subset DEF OnChannel
    <3> QED BY <3>1, FS_CardinalityType
  <2>4. Cardinality(G) <= Cardinality(T)
    BY <2>1, ChannelsShare
  <2> QED BY <1>3, <2>2, <2>3, <2>4
<1>7. PICK S : S = Range(loads)
  OBVIOUS
<1>8. /\ S \subseteq Nat /\ loads[0] \in S /\ \A x \in S : x <= N
  BY <1>5, <1>6, <1>7 DEF Range
<1>9. Max(S) <= N
  BY <1>8, MaxBounded
<1> QED BY <1>3, <1>4, <1>7, <1>9 DEF BatchReadTime

\* What the invariants say of reads.
LEMMA ReadsAreCharged ==
  ASSUME IInv, CInv, Len(pool) <= 2^IdBits
  PROVE  ReadsCharged
<1>1. PICK d, n : d = dev /\ n = Len(pool) /\ n \in Nat
  BY PoolBelow
<1>2. AdapterGood(d) /\ Costs(d, n) /\ n <= 2^IdBits
  BY <1>1 DEF IInv, CInv
<1>3. \A key \in DOMAIN d.store : Gid(key) \in DOMAIN d.sim.map \/ Exhausted(d.sim)
  BY <1>2 DEF Costs, HasPages
<1>4. ASSUME d.sim.mode = "tensor_aware", NEW l \in Layers
      PROVE  BatchReadTime(d.sim, {Gid(key) : key \in ScannedFromFlash(d, l)})
               <= Cardinality({key[2] \div Channels : key \in ScannedFromFlash(d, l)})
  <2>1. PICK scan, T, gids : /\ scan = ScannedFromFlash(d, l)
                             /\ T = StripesOf(scan) /\ gids = GidsOf(scan)
    OBVIOUS
  <2>2. BatchReadTime(d.sim, gids) <= Cardinality(T)
    BY <1>1, <1>2, <1>4, <2>1, ScanTakes
  <2> QED BY <2>1, <2>2 DEF StripesOf, GidsOf
<1> QED BY <1>1, <1>3, <1>4 DEF ReadsCharged

\* Reads of the flash are charged (tensor_aware.py:20-26): every stored block has a page
\* unless the device is full, and on the striped layer a scan takes no longer than the
\* stripes it touches, whatever was stored again, switched or erased in between.  Its
\* hypothesis is what makes the "unique" global id of physical_adapter.py:27-29 unique: past
\* 2^16 blocks, ids that differ by that many share a page, which has one channel.
THEOREM ReadsAlwaysCharged == Spec => [](Len(pool) <= 2^IdBits => ReadsCharged)
<1>1. Init => IInv /\ CInv
  BY InitInv, InitCosts
<1>2. IInv /\ [Next]_vars => IInv'
  BY IInvStep
<1>3. IInv /\ CInv /\ [Next]_vars => CInv'
  BY CostsStep
<1>4. IInv /\ CInv => (Len(pool) <= 2^IdBits => ReadsCharged)
  BY ReadsAreCharged
<1> QED BY <1>1, <1>2, <1>3, <1>4, PTL DEF Spec

-----------------------------------------------------------------------------
(***************************************************************************)
(* What stays in RAM.                                                      *)
(***************************************************************************)

\* Where the sinks end when blocks are not cut, and where a block may begin that the window
\* of n tokens reaches into.
SinkRoom == ((SinkTokens + TokensPerBlock - 1) \div TokensPerBlock) * TokensPerBlock
Edge(n) == IF n - WindowTokens + 1 - TokensPerBlock >= 0
           THEN n - WindowTokens + 1 - TokensPerBlock ELSE 0

\* How many of the first t of n tokens may be in RAM.
Room(t, n) == (IF t <= SinkRoom THEN t ELSE SinkRoom) + (IF t >= Edge(n) THEN t - Edge(n) ELSE 0)

\* A block of the sinks ends with them.
LEMMA SinkRoomIs ==
  /\ SinkRoom \in Nat
  /\ \A j \in Nat : j * TokensPerBlock < SinkTokens =>
       j * TokensPerBlock + TokensPerBlock <= SinkRoom
<1>1. PICK t \in Nat \ {0}, s \in Nat : t = TokensPerBlock /\ s = SinkTokens
  BY PolicyAssumption
<1>2. PICK k : k = (s + t - 1) \div t
  OBVIOUS
<1>3. /\ k \in Nat
      /\ s + t - 1 = t * k + ((s + t - 1) % t) /\ (s + t - 1) % t \in 0..(t - 1)
  <2>1. s + t - 1 \in Nat
    OBVIOUS
  <2> QED BY <1>2, <2>1, Divided
<1>4. /\ \A u \in Nat : u * t \in Nat /\ u * t = t * u /\ (u + 1) * t = u * t + t
      /\ \A u, v \in Nat : u <= v => u * t <= v * t
  BY Multiples
<1>5. SinkRoom = k * t
  BY <1>1, <1>2 DEF SinkRoom
<1>6. s <= k * t /\ k * t \in Nat
  <2>1. k * t \in Nat /\ k * t = t * k
    BY <1>3, <1>4
  <2> QED BY <1>3, <2>1
<1>7. ASSUME NEW j \in Nat, j * t < s PROVE j * t + t <= k * t
  <2>1. j < k
    <3> SUFFICES ASSUME k <= j PROVE FALSE
      BY <1>3
    <3>1. k * t <= j * t /\ j * t \in Nat
      BY <1>3, <1>4
    <3> QED BY <1>6, <1>7, <3>1
  <2>2. j + 1 \in Nat /\ j + 1 <= k
    BY <1>3, <2>1
  <2>3. (j + 1) * t <= k * t
    BY <1>3, <1>4, <2>2
  <2>4. (j + 1) * t = j * t + t
    BY <1>4
  <2> QED BY <2>3, <2>4
<1> QED BY <1>1, <1>5, <1>6, <1>7

\* Room is counted in numbers.
LEMMA RoomIs ==
  ASSUME NEW n \in Nat
  PROVE  /\ Edge(n) \in Nat
         /\ \A t \in Nat : Room(t, n) \in Nat
<1>1. PICK t, v : t = TokensPerBlock /\ v = WindowTokens /\ t \in Nat /\ v \in Nat
  BY PolicyAssumption
<1>2. Edge(n) = IF n - v + 1 - t >= 0 THEN n - v + 1 - t ELSE 0
  BY <1>1 DEF Edge
<1>3. Edge(n) \in Nat
  BY <1>1, <1>2
<1>4. PICK s \in Nat : s = SinkRoom
  BY SinkRoomIs
<1>5. ASSUME NEW x \in Nat PROVE Room(x, n) \in Nat
  <2>1. Room(x, n) = (IF x <= s THEN x ELSE s) + (IF x >= Edge(n) THEN x - Edge(n) ELSE 0)
    BY <1>4 DEF Room
  <2> QED BY <1>3, <2>1
<1> QED BY <1>3, <1>5

\* There is room for a block of the sinks or the window.
LEMMA RoomGrows ==
  ASSUME NEW n \in Nat, NEW a \in Nat, NEW c \in 1..TokensPerBlock, NEW w \in {0, c},
         w = c => \/ a < SinkTokens /\ a + TokensPerBlock <= SinkRoom
                  \/ a + c > n - WindowTokens
  PROVE  Room(a, n) + w <= Room(a + c, n)
<1>1. PICK t \in Nat \ {0}, v \in Nat \ {0} : t = TokensPerBlock /\ v = WindowTokens
  BY PolicyAssumption
<1>2. PICK s \in Nat : s = SinkRoom
  BY SinkRoomIs
<1>3. PICK e \in Nat : e = Edge(n) /\ n - v + 1 - t <= e /\ (e = 0 \/ e = n - v + 1 - t)
  <2>1. CASE n - v + 1 - t >= 0
    BY <1>1, <2>1 DEF Edge
  <2>2. CASE ~(n - v + 1 - t >= 0)
    BY <1>1, <2>2 DEF Edge
  <2> QED BY <2>1, <2>2
<1>4. /\ Room(a, n) = (IF a <= s THEN a ELSE s) + (IF a >= e THEN a - e ELSE 0)
      /\ Room(a + c, n) = (IF a + c <= s THEN a + c ELSE s)
                            + (IF a + c >= e THEN a + c - e ELSE 0)
  BY <1>2, <1>3 DEF Room
<1>5. c \in Nat /\ c <= t
  BY <1>1
<1>6. CASE w = 0
  <2>1. (IF a <= s THEN a ELSE s) <= (IF a + c <= s THEN a + c ELSE s)
    BY <1>5
  <2>2. (IF a >= e THEN a - e ELSE 0) <= (IF a + c >= e THEN a + c - e ELSE 0)
    BY <1>5
  <2> QED BY <1>4, <1>5, <1>6, <2>1, <2>2
<1>7. CASE w = c /\ a + t <= s
  <2>1. a <= s /\ a + c <= s
    BY <1>5, <1>7
  <2>2. (IF a >= e THEN a - e ELSE 0) <= (IF a + c >= e THEN a + c - e ELSE 0)
    BY <1>5
  <2> QED BY <1>4, <1>5, <1>7, <2>1, <2>2
<1>8. CASE w = c /\ a + c > n - v
  <2>1. a >= e /\ a + c >= e
    BY <1>3, <1>5, <1>8
  <2>2. (IF a <= s THEN a ELSE s) <= (IF a + c <= s THEN a + c ELSE s)
    BY <1>5
  <2> QED BY <1>4, <1>5, <1>8, <2>1, <2>2
<1> QED BY <1>1, <1>2, <1>6, <1>7, <1>8

\* All the room there is.
LEMMA RoomInAll ==
  ASSUME NEW n \in Nat
  PROVE  Room(n, n) <= RamLimit /\ 0 <= RamLimit
<1>1. PICK t \in Nat \ {0}, v \in Nat \ {0} : t = TokensPerBlock /\ v = WindowTokens
  BY PolicyAssumption
<1>2. PICK s \in Nat : s = SinkRoom
  BY SinkRoomIs
<1>3. RamLimit = s + v + t - 1
  BY <1>1, <1>2 DEF RamLimit, SinkRoom
<1>4. Edge(n) \in Nat /\ n >= Edge(n) /\ n - Edge(n) <= v + t - 1
  <2>1. CASE n - v + 1 - t >= 0
    BY <1>1, <2>1 DEF Edge
  <2>2. CASE ~(n - v + 1 - t >= 0)
    BY <1>1, <2>2 DEF Edge
  <2> QED BY <2>1, <2>2
<1>5. Room(n, n) = (IF n <= s THEN n ELSE s) + (n - Edge(n))
  BY <1>2, <1>4 DEF Room
<1> QED BY <1>3, <1>4, <1>5

\* The blocks of a layer of n tokens that are in RAM hold their tokens and are sinks or in
\* the window, the others hold nothing.
Hot(b, n) ==
  \/ b.data = <<>>
  \/ /\ Len(b.data) = b.count
     /\ b.start < SinkTokens \/ b.start + b.count > n - WindowTokens

\* The first i blocks of a layer, and where they end.
Before(ids, i) == {ids[j] : j \in 1..i}
EndOf(blocks, ids, i) ==
  IF i = 0 THEN 0 ELSE blocks[ids[i] + 1].start + blocks[ids[i] + 1].count

\* What blocks hold.
Contents(blocks, A) == [id \in A |-> Len(blocks[id + 1].data)]

\* The block after those begins where they end.
LEMMA NextBegins ==
  ASSUME NEW blocks \in Seq(Block), NEW l, NEW n \in Nat, NEW ids \in Seq(Nat),
         \A i \in 1..Len(ids) : TileAt(blocks, ids, i, l, n),
         NEW i \in Nat, i + 1 \in 1..Len(ids),
         i # 0 => blocks[ids[i] + 1].start = (i - 1) * TokensPerBlock
  PROVE  /\ blocks[ids[i + 1] + 1].start = i * TokensPerBlock
         /\ EndOf(blocks, ids, i) = i * TokensPerBlock
<1>1. PICK t \in Nat \ {0} : t = TokensPerBlock
  BY PolicyAssumption
<1>2. Len(ids) \in Nat
  BY LenProperties
<1>3. TileAt(blocks, ids, i + 1, l, n)
  OBVIOUS
<1>4. CASE i = 0
  <2>1. i + 1 = 1 /\ 0 * t = 0
    BY <1>4
  <2>2. blocks[ids[i + 1] + 1].start = 0
    BY <1>3, <2>1 DEF TileAt
  <2> QED BY <1>1, <1>4, <2>1, <2>2 DEF EndOf
<1>5. CASE i # 0
  <2>1. i \in 1..Len(ids) /\ i < Len(ids) /\ i + 1 # 1 /\ (i + 1) - 1 = i
        /\ i - 1 \in Nat /\ (i - 1) + 1 = i
    BY <1>2, <1>5
  <2>2. blocks[ids[i + 1] + 1].start = blocks[ids[i] + 1].start + t
    BY <1>1, <1>3, <2>1 DEF TileAt
  <2>3. blocks[ids[i] + 1].count = t
    <3>1. TileAt(blocks, ids, i, l, n)
      BY <2>1
    <3> QED BY <1>1, <2>1, <3>1 DEF TileAt
  <2>4. (i - 1) * t + t = i * t
    <3>1. ((i - 1) + 1) * t = (i - 1) * t + t
      BY <2>1, Multiples
    <3> QED BY <2>1, <3>1
  <2>5. blocks[ids[i] + 1].start = (i - 1) * t
    BY <1>1, <1>5
  <2> QED BY <1>1, <1>5, <2>2, <2>3, <2>4, <2>5 DEF EndOf
<1> QED BY <1>4, <1>5

\* The first i blocks of a layer hold no more than there is room for, and they begin at
\* multiples of the size of a block.
RoomFor(h, blocks, ids, i, n) ==
  /\ h[Before(ids, i)] <= Room(EndOf(blocks, ids, i), n)
  /\ i # 0 => blocks[ids[i] + 1].start = (i - 1) * TokensPerBlock

\* One block more.
LEMMA RoomForMore ==
  ASSUME NEW blocks \in Seq(Block), NEW l, NEW n \in Nat, NEW ids \in Seq(Nat), Rising(ids),
         \A i \in 1..Len(ids) : TileAt(blocks, ids, i, l, n) /\ Hot(blocks[ids[i] + 1], n),
         NEW A, A = Before(ids, Len(ids)),
         NEW h \in [SUBSET A -> Nat], AnyOrder(h, Contents(blocks, A), A),
         NEW i \in Nat, i + 1 \in 1..Len(ids), RoomFor(h, blocks, ids, i, n)
  PROVE  RoomFor(h, blocks, ids, i + 1, n)
<1>1. Len(ids) \in Nat /\ \A j \in 1..Len(ids) : ids[j] \in Nat
  BY LenProperties, ElementOfSeq
<1>2. PICK id : id = ids[i + 1]
  OBVIOUS
<1>3. PICK b \in Block : b = blocks[id + 1]
  <2>1. TileAt(blocks, ids, i + 1, l, n)
    OBVIOUS
  <2> QED BY <1>2, <2>1 DEF TileAt
<1>4. b.start \in Nat /\ b.count \in 1..TokensPerBlock
  BY <1>3 DEF Block
<1>5. b.start = i * TokensPerBlock /\ EndOf(blocks, ids, i) = i * TokensPerBlock
  <2>1. i # 0 => blocks[ids[i] + 1].start = (i - 1) * TokensPerBlock
    BY DEF RoomFor
  <2>2. \A j \in 1..Len(ids) : TileAt(blocks, ids, j, l, n)
    OBVIOUS
  <2> QED BY <1>2, <1>3, <2>1, <2>2, NextBegins
<1>6. EndOf(blocks, ids, i + 1) = b.start + b.count
  BY <1>2, <1>3 DEF EndOf
<1>7. PICK s, u : s = Before(ids, i + 1) /\ u = Before(ids, i)
  OBVIOUS
<1>8. s \in SUBSET A /\ id \in s /\ u = s \ {id}
  <2>1. s \in SUBSET A
    BY <1>1, <1>7 DEF Before
  <2>2. id \in s
    BY <1>2, <1>7 DEF Before
  <2>3. ASSUME NEW j \in 1..i PROVE ids[j] # id
    <3>1. j \in 1..Len(ids) /\ j < i + 1
      BY <1>1
    <3>2. ids[j] < ids[i + 1] /\ ids[j] \in Nat /\ ids[i + 1] \in Nat
      BY <1>1, <3>1 DEF Rising
    <3> QED BY <1>2, <3>2
  <2>4. \A j \in 1..(i + 1) : j \in 1..i \/ j = i + 1
    OBVIOUS
  <2>5. \A j \in 1..i : j \in 1..(i + 1)
    OBVIOUS
  <2> QED BY <1>2, <1>7, <2>1, <2>2, <2>3, <2>4, <2>5 DEF Before
<1>9. PICK w \in {0, b.count} :
        /\ h[s] = w + h[u]
        /\ w = b.count => b.start < SinkTokens \/ b.start + b.count > n - WindowTokens
  <2>1. Contents(blocks, A)[id] = Len(b.data)
    BY <1>3, <1>8 DEF Contents
  <2>2. h[s] = Len(b.data) + h[u]
    BY <1>8, <2>1 DEF AnyOrder
  <2>3. Hot(b, n)
    BY <1>2, <1>3
  <2>4. CASE b.data = <<>>
    <3>1. Len(b.data) = 0 /\ b.count # 0
      BY <1>4, <2>4
    <3> QED BY <2>2, <3>1
  <2>5. CASE b.data # <<>>
    BY <2>2, <2>3, <2>5 DEF Hot
  <2> QED BY <2>4, <2>5
<1>10. w = b.count => \/ b.start < SinkTokens /\ b.start + TokensPerBlock <= SinkRoom
                      \/ b.start + b.count > n - WindowTokens
  <2>1. b.start < SinkTokens => b.start + TokensPerBlock <= SinkRoom
    BY <1>5, SinkRoomIs
  <2> QED BY <1>9, <2>1
<1>11. Room(b.start, n) + w <= Room(b.start + b.count, n)
  BY <1>4, <1>10, RoomGrows
<1>12. h[u] <= Room(b.start, n)
  BY <1>5, <1>7 DEF RoomFor
<1>13. h[s] <= Room(b.start + b.count, n)
  <2>1. \A x \in Nat : Room(x, n) \in Int
    BY RoomIs
  <2>2. b.count \in Nat
    BY <1>4
  <2>3. h[u] \in Nat /\ w \in Nat
    BY <1>8, <2>2
  <2>4. b.start + b.count \in Nat
    BY <1>4, <2>2
  <2>5. Room(b.start, n) \in Int /\ Room(b.start + b.count, n) \in Int
    BY <1>4, <2>1, <2>4
  <2> QED BY <1>9, <1>11, <1>12, <2>3, <2>5
<1>14. blocks[ids[i + 1] + 1].start = ((i + 1) - 1) * TokensPerBlock
  <2>1. (i + 1) - 1 = i
    OBVIOUS
  <2> QED BY <1>2, <1>3, <1>5, <2>1
<1> QED BY <1>6, <1>7, <1>13, <1>14 DEF RoomFor

\* The ids of the blocks of a layer.
IdsOf(blocks, l) == {id \in 0..(Len(blocks) - 1) : blocks[id + 1].layer = l}

\* So a layer has no more in RAM than sinks, window and one block.
LEMMA LayerFits ==
  ASSUME NEW blocks \in Seq(Block), NEW l, NEW n \in Nat,
         NEW ids, ids = LayerBlocks(blocks, l), Tiles(blocks, ids, n),
         \A i \in 1..Len(ids) : Hot(blocks[ids[i] + 1], n),
         NEW A, A = IdsOf(blocks, l), NEW h \in [SUBSET A -> Nat], Sums(h, Contents(blocks, A), A)
  PROVE  h[A] <= RamLimit
<1>1. /\ ids \in Seq(Nat) /\ Len(ids) \in Nat
      /\ (ids = <<>>) <=> (n = 0)
      /\ \A i \in 1..Len(ids) : TileAt(blocks, ids, i, l, n)
  BY TilesAre
<1>2. /\ Rising(ids)
      /\ \A id : Among(id, ids) <=> id \in 0..(Len(blocks) - 1) /\ blocks[id + 1].layer = l
  BY LayerBlocksAre
<1>3. A = Before(ids, Len(ids))
  BY <1>2 DEF Before, Among, IdsOf
<1>4. AnyOrder(h, Contents(blocks, A), A)
  <2>1. IsFiniteSet(A)
    <3>1. Len(blocks) \in Nat
      BY LenProperties
    <3>2. PICK m : m = Len(blocks) - 1
      OBVIOUS
    <3>3. m \in Int
      BY <3>1, <3>2
    <3>4. IsFiniteSet(0..m)
      BY <3>3, FS_Interval
    <3> QED BY <3>2, <3>4, FS_Subset DEF IdsOf
  <2>2. \A id \in A : Contents(blocks, A)[id] \in Nat
    <3> SUFFICES ASSUME NEW id \in A PROVE Len(blocks[id + 1].data) \in Nat
      BY DEF Contents
    <3>1. Len(blocks) \in Nat
      BY LenProperties
    <3>2. blocks[id + 1] \in Block
      BY <3>1, ElementOfSeq DEF IdsOf
    <3> QED BY <3>2, LenProperties DEF Block
  <2> QED BY <2>1, <2>2, SumsAny
<1>. DEFINE X == {i \in Nat : i <= Len(ids) => RoomFor(h, blocks, ids, i, n)}
<1>5. 0 \in X
  <2>1. Before(ids, 0) = {}
    BY DEF Before
  <2>2. h[{}] = 0
    BY <1>4 DEF AnyOrder
  <2>3. 0 <= Room(0, n)
    BY RoomIs
  <2> QED BY <2>1, <2>2, <2>3 DEF RoomFor, EndOf
<1>6. ASSUME NEW i \in Nat, i \in X PROVE i + 1 \in X
  <2> SUFFICES ASSUME i + 1 <= Len(ids) PROVE RoomFor(h, blocks, ids, i + 1, n)
    OBVIOUS
  <2>1. i + 1 \in 1..Len(ids) /\ RoomFor(h, blocks, ids, i, n)
    BY <1>1, <1>6
  <2>2. \A j \in 1..Len(ids) : TileAt(blocks, ids, j, l, n) /\ Hot(blocks[ids[j] + 1], n)
    BY <1>1
  <2>. HIDE DEF X
  <2> QED BY <1>1, <1>2, <1>3, <1>4, <2>1, <2>2, RoomForMore
<1>7. RoomFor(h, blocks, ids, Len(ids), n)
  <2>1. Nat \subseteq X
    <3>. HIDE DEF X
    <3> QED BY <1>5, <1>6, SetInduction
  <2>2. Len(ids) <= Len(ids)
    BY <1>1
  <2> QED BY <1>1, <2>1, <2>2
<1>8. CASE ids = <<>>
  <2>1. Len(ids) = 0
    BY <1>8
  <2>2. Before(ids, 0) = {}
    BY DEF Before
  <2>3. h[A] = 0
    BY <1>3, <1>4, <2>1, <2>2 DEF AnyOrder
  <2> QED BY <2>3, RoomInAll
<1>9. CASE ids # <<>>
  <2>1. Len(ids) # 0 /\ Len(ids) \in 1..Len(ids)
    BY <1>1, <1>9, EmptySeq
  <2>2. EndOf(blocks, ids, Len(ids)) = n
    BY <1>1, <2>1 DEF EndOf, TileAt
  <2>3. h[A] <= Room(n, n)
    BY <1>3, <1>7, <2>2 DEF RoomFor
  <2>4. Room(n, n) <= RamLimit
    BY RoomInAll
  <2>5. h[A] \in Nat
    OBVIOUS
  <2>6. Room(n, n) \in Int /\ RamLimit \in Int
    <3>1. SinkRoom \in Int /\ RamLimit = SinkRoom + WindowTokens + TokensPerBlock - 1
      BY SinkRoomIs DEF RamLimit, SinkRoom
    <3>2. Room(n, n) \in Int
      BY RoomIs
    <3> QED BY <3>1, <3>2, PolicyAssumption
  <2> QED BY <2>3, <2>4, <2>5, <2>6
<1> QED BY <1>8, <1>9

\* What a layer has in RAM, of any pool.
ResidentOf(blocks, l) == MapThenSumSet(LAMBDA id : Len(blocks[id + 1].data), IdsOf(blocks, l))

\* It is a sum.
LEMMA ResidentIs ==
  ASSUME NEW blocks, NEW l, NEW A, A = IdsOf(blocks, l), IsFiniteSet(A),
         NEW h, Sums(h, Contents(blocks, A), A)
  PROVE  ResidentOf(blocks, l) = h[A]
<1>. DEFINE Eq(g) == g = [s \in SUBSET A |-> IF s = {} THEN 0
                                   ELSE Len(blocks[One(s) + 1].data) + g[s \ {One(s)}]]
            it == CHOOSE g : Eq(g)
<1>1. ResidentOf(blocks, l) = it[A]
  BY DEF ResidentOf, MapThenSumSet, MapThenFoldSet, One
<1>2. \A s \in SUBSET A : s # {} => Contents(blocks, A)[One(s)] = Len(blocks[One(s) + 1].data)
  BY OneIn DEF Contents
<1>3. \A g : Eq(g) <=> Sums(g, Contents(blocks, A), A)
  BY <1>2 DEF Sums
<1>4. Eq(h)
  BY <1>3
<1>5. Eq(it)
  BY <1>4
<1>6. Sums(it, Contents(blocks, A), A)
  BY <1>3, <1>5
<1>. HIDE DEF it
<1> QED BY <1>1, <1>6, SumsUnique

\* A layer whose blocks in RAM are hot fits.
LEMMA ResidentFits ==
  ASSUME NEW blocks, NEW len, NEW store, NEW gone, PoolGood(blocks, len, store, gone),
         NEW l \in Layers, NEW n, n = len[l],
         \A id \in IdsOf(blocks, l) : Hot(blocks[id + 1], n)
  PROVE  ResidentOf(blocks, l) <= RamLimit
<1>1. blocks \in Seq(Block)
  BY DEF PoolGood
<1>2. PICK ids : ids = LayerBlocks(blocks, l)
  OBVIOUS
<1>3. n \in Nat /\ Tiles(blocks, ids, n)
  BY <1>2 DEF PoolGood
<1>4. PICK A : A = IdsOf(blocks, l)
  OBVIOUS
<1>5. \A i \in 1..Len(ids) : Hot(blocks[ids[i] + 1], n)
  <2>1. \A id : Among(id, ids) <=> id \in IdsOf(blocks, l)
    BY <1>1, <1>2, LayerBlocksAre DEF IdsOf
  <2>2. \A i \in 1..Len(ids) : ids[i] \in IdsOf(blocks, l)
    BY <2>1 DEF Among
  <2> QED BY <2>2
<1>6. IsFiniteSet(A) /\ \A id \in A : Contents(blocks, A)[id] \in Nat
  <2>1. Len(blocks) \in Nat
    BY <1>1, LenProperties
  <2>2. PICK m \in Int : m = Len(blocks) - 1
    BY <2>1
  <2>3. IsFiniteSet(0..m)
    BY FS_Interval
  <2>4. IsFiniteSet(A)
    BY <1>4, <2>2, <2>3, FS_Subset DEF IdsOf
  <2>5. \A id \in A : blocks[id + 1] \in Block
    BY <1>1, <1>4, <2>1, ElementOfSeq DEF IdsOf
  <2>6. \A id \in A : Contents(blocks, A)[id] \in Nat
    BY <2>5, LenProperties DEF Contents, Block
  <2> QED BY <2>4, <2>6
<1>7. PICK h \in [SUBSET A -> Nat] : Sums(h, Contents(blocks, A), A)
  BY <1>6, SumsExist
<1>8. h[A] <= RamLimit
  BY <1>1, <1>2, <1>3, <1>4, <1>5, <1>7, LayerFits
<1>9. ResidentOf(blocks, l) = h[A]
  BY <1>4, <1>6, <1>7, ResidentIs
<1> QED BY <1>8, <1>9

\* What stays in RAM of the layer that a call added tokens to.
LEMMA AddedHot ==
  ASSUME IInv, CInv, NEW l, NEW m, NEW blocks, NEW len2, NEW cut, Adds(l, m, blocks, len2, cut),
         ~Exhausted(dev'.sim)
  PROVE  /\ l \in Layers /\ m = length'[l] /\ \A k \in Layers : k # l => length'[k] = length[k]
         /\ \A id \in IdsOf(pool', l) : Hot(pool'[id + 1], m)
<1>1. PICK e, new, len : e = dev' /\ new = pool' /\ len = length'
  OBVIOUS
<1>2. Leaves(blocks, dev, new, e, l, cut) /\ Alike(blocks, new)
  BY <1>1, AddedInv
<1>3. PoolGood(new, len, e.store, erased')
  BY <1>1, AddedInv DEF IInv
<1>4. blocks \in Seq(Block) /\ new \in Seq(Block) /\ Len(blocks) \in Nat /\ Len(new) = Len(blocks)
  BY <1>2, <1>3, LenProperties DEF Adds, PoolGood, Alike
<1>5. l \in Layers /\ m = len[l] /\ m \in Nat /\ \A k \in Layers : k # l => len[k] = length[k]
  BY <1>1 DEF Adds, IInv, PoolGood
<1>6. ASSUME NEW id \in 0..(Len(new) - 1), new[id + 1].layer = l PROVE Hot(new[id + 1], m)
  <2>1. PICK k \in 1..Len(new) : k = id + 1
    BY <1>4
  <2>2. PICK b \in Block : b = new[k]
    BY <1>4, <2>1, ElementOfSeq
  <2>3. blocks[id + 1].layer = l /\ id \in 0..(Len(blocks) - 1)
    BY <1>2, <1>4, <1>6, <2>1 DEF Alike
  <2>4. Kept(b, KeyAt(new, k), len[b.layer], e.store, erased')
    BY <1>3, <2>1, <2>2 DEF PoolGood
  <2>5. CASE ~b.ram
    BY <2>1, <2>2, <2>4, <2>5 DEF Kept, Hot
  <2>6. CASE b.ram
    <3>1. id \notin cut
      BY <1>1, <1>2, <2>1, <2>2, <2>3, <2>6 DEF Leaves
    <3>2. b = blocks[id + 1]
      BY <1>2, <2>1, <2>2, <2>3, <3>1 DEF Leaves
    <3>3. IsHot(b, m) \/ b.pinned
      BY <2>3, <2>6, <3>1, <3>2 DEF Adds
    <3>4. b.pinned => b.start < SinkTokens
      <4>1. Pinned(blocks)
        BY DEF Adds, CInv
      <4>2. k \in 1..Len(blocks) /\ blocks[k] = b
        BY <1>4, <2>1, <3>2
      <4> QED BY <4>1, <4>2 DEF Pinned
    <3>5. b.start \in Nat /\ b.count \in Nat
      BY <2>2 DEF Block
    <3>6. IsHot(b, m) => b.start < SinkTokens \/ b.start + b.count > m - WindowTokens
      <4>1. WindowTokens \in Nat /\ SinkTokens \in Nat
        BY PolicyAssumption
      <4>2. PICK x \in Int : x = m - WindowTokens
        BY <1>5, <4>1
      <4>3. Max({0, x}) = IF x >= 0 THEN x ELSE 0
        BY MaxWithZero
      <4> QED BY <3>5, <4>1, <4>2, <4>3 DEF IsHot
    <3>7. Len(b.data) = b.count
      <4>1. b.data = Positions(b.start, b.count)
        BY <2>4, <2>6 DEF Kept
      <4>2. Len(Positions(b.start, b.count)) = b.count
        BY <3>5, PositionsAre
      <4> QED BY <4>1, <4>2
    <3> QED BY <2>1, <2>2, <3>3, <3>4, <3>6, <3>7 DEF Hot
  <2> QED BY <2>5, <2>6
<1>7. \A id \in IdsOf(new, l) : Hot(new[id + 1], m)
  BY <1>6 DEF IdsOf
<1> QED BY <1>1, <1>5, <1>7

\* The calls that add tokens.
LEMMA AddedFits ==
  ASSUME IInv, CInv, NEW l, NEW m, NEW blocks, NEW len2, NEW cut, Adds(l, m, blocks, len2, cut),
         NEW k \in Layers, length'[k] # length[k], ~Exhausted(dev'.sim)
  PROVE  Resident(k)' <= RamLimit
<1>1. PICK new, len, store, gone : new = pool' /\ len = length' /\ store = dev'.store
                                  /\ gone = erased'
  OBVIOUS
<1>2. k = l /\ m = len[k] /\ \A id \in IdsOf(new, k) : Hot(new[id + 1], m)
  BY <1>1, AddedHot
<1>3. PoolGood(new, len, store, gone)
  BY <1>1, AddedInv DEF IInv
<1>4. ResidentOf(new, k) <= RamLimit
  BY <1>2, <1>3, ResidentFits
<1>5. Resident(k)' = ResidentOf(new, k)
  BY <1>1 DEF Resident, ResidentOf, Ids, IdsOf, MapThenSumSet, MapThenFoldSet
<1> QED BY <1>4, <1>5

\* A call that adds tokens to a layer (tiered_kv_manager.py:27-137) leaves no more of it in
\* RAM than the sinks, the window and one block that the window cuts, whatever
\* fetch_cold_block had brought back, except when the device is full.
THEOREM RamAlwaysBounded == Spec => RamIsBounded
<1>. DEFINE Fits == \A l \in Layers : length'[l] # length[l] /\ ~Exhausted(dev'.sim)
                      => Resident(l)' <= RamLimit
<1>1. Init => IInv /\ CInv
  BY InitInv, InitCosts
<1>2. IInv /\ CInv /\ [Next]_vars => IInv' /\ CInv'
  BY IInvStep, CostsStep
<1>3. IInv /\ CInv /\ [Next]_vars => [Fits]_vars
  <2> SUFFICES ASSUME IInv, CInv, Next PROVE Fits
    OBVIOUS
  <2>1. CASE \E l \in Layers, n \in PromptLengths : PrefillSequence(l, n)
    BY <2>1, PrefillAdds, AddedFits
  <2>2. CASE \E l \in Layers : AppendToken(l)
    BY <2>2, AppendAdds, AddedFits
  <2>3. CASE length' = length
    BY <2>3
  <2>4. CASE \E id \in Ids : FetchColdBlock(id)
    <3>1. ASSUME NEW id \in Ids, FetchColdBlock(id) PROVE length' = length
      BY <3>1, Zenon DEF FetchColdBlock
    <3> QED BY <2>3, <2>4, <3>1
  <2>5. CASE \E l \in Layers, k \in 1..2 : DecodeAttention(l, k)
    <3>1. ASSUME NEW l, NEW k, DecodeAttention(l, k) PROVE length' = length
      BY <3>1, Zenon DEF DecodeAttention
    <3> QED BY <2>3, <2>5, <3>1
  <2>6. CASE \E l \in Layers : \E ids \in LayerRequests(l) : KVPrefetch(l, ids)
    <3>1. ASSUME NEW l, NEW ids, KVPrefetch(l, ids) PROVE length' = length
      BY <3>1, Zenon DEF KVPrefetch
    <3> QED BY <2>3, <2>6, <3>1
  <2>7. CASE \E l \in Layers : KVTopK(l, LayerBlocks(pool, l))
    <3>1. ASSUME NEW l, KVTopK(l, LayerBlocks(pool, l)) PROVE length' = length
      BY <3>1, Zenon DEF KVTopK
    <3> QED BY <2>3, <2>7, <3>1
  <2>8. CASE \E id \in Ids : KVEvict(id)
    <3>1. ASSUME NEW id, KVEvict(id) PROVE length' = length
      BY <3>1, Zenon DEF KVEvict
    <3> QED BY <2>3, <2>8, <3>1
  <2>9. CASE \E mode \in Modes : SwitchMode(mode)
    <3>1. ASSUME NEW mode, SwitchMode(mode) PROVE length' = length
      BY <3>1, Zenon DEF SwitchMode
    <3> QED BY <2>3, <2>9, <3>1
  <2>10. CASE \E n \in 1..2 : RunSimulation(n)
    <3>1. ASSUME NEW n, RunSimulation(n) PROVE length' = length
      BY <3>1, Zenon DEF RunSimulation
    <3> QED BY <2>3, <2>10, <3>1
  <2> QED BY <2>1, <2>2, <2>4, <2>5, <2>6, <2>7, <2>8, <2>9, <2>10, Zenon DEF Next
<1> QED BY <1>1, <1>2, <1>3, PTL DEF Spec, RamIsBounded

\* A call keeps the cache inside the store and the charge inside the DRAM: store_kv only
\* adds keys, evict_kv removes its key from both, prefetch_kv checks the capacity before
\* it caches (mock_ssd.py:62-193).
LEMMA StepKeepsCacheWithin ==
  ASSUME Mock!CacheWithin, [Mock!Next]_(Mock!vars)
  PROVE  Mock!CacheWithin'
<1>. USE DEF Mock!CacheWithin
<1>1. CASE \E keys : Mock!StoreKV(keys)
  BY <1>1 DEF Mock!StoreKV
<1>2. CASE \E key \in DOMAIN dev.store : Mock!LoadKV(key)
  BY <1>2 DEF Mock!LoadKV
<1>3. ASSUME NEW key \in DOMAIN dev.store, Mock!EvictKV(key)
      PROVE  Mock!CacheWithin'
  <2>1. DOMAIN dev'.store = DOMAIN dev.store \ {key}
    BY <1>3 DEF Mock!EvictKV, Mock!Restrict
  <2>2. dev'.cached = dev.cached \ {key} /\ dev'.used = dev.used
    BY <1>3 DEF Mock!EvictKV
  <2> QED BY <2>1, <2>2
<1>4. ASSUME NEW keys, Mock!PrefetchKV(keys)
      PROVE  Mock!CacheWithin'
  <2>1. dev'.cached \subseteq DOMAIN dev'.store
    BY <1>4 DEF Mock!PrefetchKV
  <2>2. dev'.used <= DramCapacity
    BY <1>4 DEF Mock!PrefetchKV
  <2> QED BY <2>1, <2>2
<1>5. CASE UNCHANGED <<dev.store, dev.cached, dev.used>>
  BY <1>5
<1> QED
  <2>1. CASE Mock!Next
    BY <2>1, <1>1, <1>2, <1>3, <1>4, <1>5 DEF Mock!Next, Mock!InStorageTopK, Mock!NoCall
  <2>2. CASE UNCHANGED Mock!vars
    BY <2>2, <1>5 DEF Mock!vars
  <2> QED BY <2>1, <2>2

\* The DRAM of the controller never holds a block that is not stored, and never more
\* bytes than it has (mock_ssd.py:173, 185).
THEOREM MockCacheWithin == Mock!Spec => []Mock!CacheWithin
<1>1. Mock!Init => Mock!CacheWithin
  BY DramAssumption DEF Mock!Init, Mock!CacheWithin
<1>2. Mock!CacheWithin /\ [Mock!Next]_(Mock!vars) => Mock!CacheWithin'
  BY StepKeepsCacheWithin
<1> QED
  BY <1>1, <1>2, PTL DEF Mock!Spec

\* So the physical adapter keeps it as well, whatever its callers and its flash do.
THEOREM CacheAlwaysWithin == Spec => []Mock!CacheWithin
BY TiersImplementMockSSD, MockCacheWithin, PTL DEF ImplementsMockSSD

-----------------------------------------------------------------------------
(***************************************************************************)
(* The staging buffer of the prefetcher.                                   *)
(***************************************************************************)

\* What SpeculativePrefetcher keeps: within its capacity, each key once, and no more found,
\* hit and missed than was asked for.
Buffers == [staged : Seq(Keys), legacy : SUBSET Nat, requested : Nat, found : Nat,
            hits : Nat, misses : Nat]

BufferGood(b) ==
  /\ b \in Buffers
  /\ Len(b.staged) <= BufferCapacity /\ IsInjective(b.staged)
  /\ IsFiniteSet(b.legacy) /\ Cardinality(b.legacy) <= BufferCapacity
  /\ b.found <= b.requested /\ b.hits + b.misses <= b.requested

\* Nothing is new in the buffer but keys of one layer.
NewOf(b, c, layer) == \A x \in ToSet(c.staged) \ ToSet(b.staged) : x[1] = layer

\* ToSet and Range are the same.
LEMMA ToSetIs == ASSUME NEW s PROVE ToSet(s) = Range(s)
BY DEF ToSet, Range

\* A buffer that has just been cleared.
LEMMA EmptyIsGood == BufferGood(EmptyBuffer)
<1>1. <<>> \in Seq(Keys) /\ Len(<<>>) = 0 /\ IsInjective(<<>>)
  BY EmptySeq DEF IsInjective
<1>2. IsFiniteSet({}) /\ Cardinality({}) = 0
  BY FS_EmptySet
<1>3. BufferCapacity \in Nat
  BY BufferAssumption
<1> QED BY <1>1, <1>2, <1>3 DEF BufferGood, Buffers, EmptyBuffer

\* move_to_end, or popitem when the buffer is full (prefetcher.py:53-72): the key is there
\* once, and no other key is new.
LEMMA RestagedIs ==
  ASSUME NEW s \in Seq(Keys), Len(s) <= BufferCapacity, IsInjective(s), NEW key \in Keys,
         NEW r, r = Restaged(s, key)
  PROVE  /\ r \in Seq(Keys) /\ Len(r) <= BufferCapacity /\ IsInjective(r)
         /\ Range(r) \subseteq Range(s) \cup {key}
<1>. DEFINE at == CHOOSE i \in DOMAIN s : s[i] = key
<1>1. Len(s) \in Nat /\ DOMAIN s = 1..Len(s) /\ BufferCapacity \in Nat \ {0}
  BY LenProperties, BufferAssumption
<1>2. Contains(s, key) <=> key \in Range(s)
  BY <1>1 DEF Contains, Range
<1>3. PICK room : /\ r = Append(room, key) /\ room \in Seq(Keys) /\ IsInjective(room)
                  /\ Len(room) < BufferCapacity
                  /\ key \notin Range(room) /\ Range(room) \subseteq Range(s)
  <2>1. CASE Contains(s, key)
    <3>1. r = Append(RemoveAt(s, at), key)
      BY <2>1 DEF Restaged
    <3>2. PICK i \in 1..Len(s) : i = at /\ s[i] = key
      BY <1>1, <2>1 DEF Contains
    <3>. HIDE DEF at
    <3>3. RemoveAt(s, i) \in Seq(Keys) /\ Len(RemoveAt(s, i)) = Len(s) - 1
      BY RemoveAtIs
    <3>4. IsInjective(RemoveAt(s, i)) /\ Range(RemoveAt(s, i)) = Range(s) \ {key}
      BY <3>2, RemoveAtInjective
    <3>5. Len(s) - 1 < BufferCapacity
      BY <1>1
    <3> QED BY <3>1, <3>2, <3>3, <3>4, <3>5
  <2>2. CASE ~Contains(s, key) /\ Len(s) >= BufferCapacity
    <3>1. r = Append(Tail(s), key)
      BY <2>2 DEF Restaged
    <3>2. s # <<>>
      BY <1>1, <2>2, EmptySeq
    <3>3. Tail(s) \in Seq(Keys) /\ Len(Tail(s)) = Len(s) - 1
      BY <3>2, HeadTailProperties
    <3>4. IsInjective(Tail(s)) /\ Range(Tail(s)) \subseteq Range(s)
      BY <3>2, TailInjective, HeadTailRange
    <3>5. key \notin Range(s) /\ Len(s) - 1 < BufferCapacity
      BY <1>1, <1>2, <2>2
    <3> QED BY <3>1, <3>3, <3>4, <3>5
  <2>3. CASE ~Contains(s, key) /\ ~(Len(s) >= BufferCapacity)
    <3>1. r = Append(s, key)
      BY <2>3 DEF Restaged
    <3>2. Len(s) < BufferCapacity
      BY <1>1, <2>3
    <3> QED BY <1>2, <2>3, <3>1, <3>2
  <2> QED BY <2>1, <2>2, <2>3
<1>4. Len(room) \in Nat /\ DOMAIN room = 1..Len(room)
  BY <1>3, LenProperties
<1>5. /\ r \in Seq(Keys) /\ Len(r) = Len(room) + 1 /\ r[Len(room) + 1] = key
      /\ \A i \in 1..Len(room) : r[i] = room[i]
  BY <1>3, AppendProperties
<1>6. DOMAIN r = 1..(Len(room) + 1)
  BY <1>5, LenProperties
<1>7. \A i \in 1..Len(room) : r[i] \in Range(room) /\ r[i] # key
  BY <1>3, <1>4, <1>5 DEF Range
<1>8. ASSUME NEW i \in DOMAIN r, NEW j \in DOMAIN r, r[i] = r[j] PROVE i = j
  <2>1. CASE i = Len(room) + 1
    <3>1. ~(j \in 1..Len(room))
      BY <1>5, <1>7, <1>8, <2>1
    <3> QED BY <1>4, <1>6, <2>1, <3>1
  <2>2. CASE j = Len(room) + 1
    <3>1. ~(i \in 1..Len(room))
      BY <1>5, <1>7, <1>8, <2>2
    <3> QED BY <1>4, <1>6, <2>2, <3>1
  <2>3. CASE i # Len(room) + 1 /\ j # Len(room) + 1
    <3>1. i \in DOMAIN room /\ j \in DOMAIN room
      BY <1>4, <1>6, <2>3
    <3>2. room[i] = room[j]
      BY <1>4, <1>5, <1>8, <3>1
    <3> QED BY <1>3, <3>1, <3>2 DEF IsInjective
  <2> QED BY <2>1, <2>2, <2>3
<1>9. Range(r) \subseteq Range(s) \cup {key}
  <2>1. ASSUME NEW i \in DOMAIN r PROVE r[i] \in Range(room) \cup {key}
    <3>1. i = Len(room) + 1 \/ i \in 1..Len(room)
      BY <1>4, <1>6
    <3> QED BY <1>5, <1>7, <3>1
  <2> QED BY <1>3, <2>1 DEF Range
<1>10. Len(r) <= BufferCapacity
  BY <1>1, <1>3, <1>4, <1>5
<1> QED BY <1>5, <1>8, <1>9, <1>10 DEF IsInjective

\* One turn of stage_blocks.
LEMMA StageBlockKeeps ==
  ASSUME NEW b, BufferGood(b), NEW key \in Keys, NEW c, c = StageBlock(b, key)
  PROVE  BufferGood(c) /\ NewOf(b, c, key[1])
<1>1. /\ b \in Buffers /\ b.staged \in Seq(Keys)
      /\ Len(b.staged) <= BufferCapacity /\ IsInjective(b.staged)
      /\ b.legacy \in SUBSET Nat
      /\ IsFiniteSet(b.legacy) /\ Cardinality(b.legacy) <= BufferCapacity
      /\ b.found <= b.requested /\ b.hits + b.misses <= b.requested
  BY DEF BufferGood, Buffers
<1>2. PICK r : r = Restaged(b.staged, key)
  OBVIOUS
<1>3. /\ r \in Seq(Keys) /\ Len(r) <= BufferCapacity /\ IsInjective(r)
      /\ Range(r) \subseteq Range(b.staged) \cup {key}
  BY <1>1, <1>2, RestagedIs
<1>4. PICK t : t = IF Cardinality(b.legacy) < BufferCapacity THEN b.legacy \cup {key[2]}
                   ELSE b.legacy
  OBVIOUS
<1>5. t \in SUBSET Nat /\ IsFiniteSet(t) /\ Cardinality(t) <= BufferCapacity
  <2>1. CASE Cardinality(b.legacy) < BufferCapacity
    <3>1. key[2] \in Nat
      BY DEF Keys
    <3>2. t = b.legacy \cup {key[2]}
      BY <1>4, <2>1
    <3>3. IsFiniteSet(t) /\ Cardinality(t) = IF key[2] \in b.legacy THEN Cardinality(b.legacy)
                                             ELSE Cardinality(b.legacy) + 1
      BY <1>1, <3>2, FS_AddElement
    <3>4. Cardinality(b.legacy) \in Nat /\ BufferCapacity \in Nat
      BY <1>1, FS_CardinalityType, BufferAssumption
    <3>5. Cardinality(t) <= BufferCapacity
      BY <2>1, <3>3, <3>4
    <3> QED BY <1>1, <3>1, <3>2, <3>3, <3>5
  <2>2. CASE ~(Cardinality(b.legacy) < BufferCapacity)
    BY <1>1, <1>4, <2>2
  <2> QED BY <2>1, <2>2
<1>6. c = [[b EXCEPT !.staged = r] EXCEPT !.legacy = t]
  BY <1>2, <1>4 DEF StageBlock
<1>7. /\ c \in Buffers /\ c.staged = r /\ c.legacy = t
      /\ c.requested = b.requested /\ c.found = b.found /\ c.hits = b.hits
      /\ c.misses = b.misses
  BY <1>1, <1>3, <1>5, <1>6 DEF Buffers
<1>8. BufferGood(c)
  BY <1>1, <1>3, <1>5, <1>7 DEF BufferGood
<1>9. NewOf(b, c, key[1])
  BY <1>3, <1>7, ToSetIs DEF NewOf
<1> QED BY <1>8, <1>9

\* stage_blocks
LEMMA StageBlocksKeep ==
  ASSUME NEW b, BufferGood(b), NEW layer \in Nat, NEW ids \in Seq(Nat),
         NEW c, c = StageBlocks(b, layer, ids)
  PROVE  BufferGood(c) /\ NewOf(b, c, layer)
<1>1. PICK f : Turns(f, "stage", layer, b, ids) /\ StageBlocks(b, layer, ids) = f[Len(ids)]
  BY StageTurns
<1>. DEFINE X == {i \in Nat : i <= Len(ids) => BufferGood(f[i]) /\ NewOf(b, f[i], layer)}
<1>2. 0 \in X
  BY <1>1 DEF Turns, NewOf
<1>3. ASSUME NEW i \in Nat, i \in X PROVE i + 1 \in X
  <2> SUFFICES ASSUME i + 1 <= Len(ids)
               PROVE  BufferGood(f[i + 1]) /\ NewOf(b, f[i + 1], layer)
    OBVIOUS
  <2>1. i + 1 \in 1..Len(ids) /\ (i + 1) - 1 = i /\ i <= Len(ids) /\ ids[i + 1] \in Nat
    BY LenProperties, ElementOfSeq
  <2>2. BufferGood(f[i]) /\ NewOf(b, f[i], layer)
    BY <1>3, <2>1
  <2>3. PICK key, d, n : key = <<layer, ids[i + 1]>> /\ d = f[i] /\ n = f[i + 1]
    OBVIOUS
  <2>4. n = StageBlock(d, key)
    <3>1. f[i + 1] = Turned("stage", layer, f[(i + 1) - 1], ids[i + 1])
      BY <1>1, <2>1 DEF Turns
    <3> QED BY <2>1, <2>3, <3>1 DEF Turned
  <2>. HIDE DEF X
  <2>5. key \in Keys /\ key[1] = layer
    BY <2>1, <2>3 DEF Keys
  <2>6. BufferGood(n) /\ NewOf(d, n, layer)
    BY <2>2, <2>3, <2>4, <2>5, StageBlockKeeps
  <2>7. NewOf(b, n, layer)
    BY <2>2, <2>3, <2>6 DEF NewOf
  <2> QED BY <2>3, <2>6, <2>7
<1>4. Nat \subseteq X
  <2>. HIDE DEF X
  <2> QED BY <1>2, <1>3, SetInduction
<1>5. Len(ids) \in Nat /\ Len(ids) <= Len(ids)
  BY LenProperties
<1> QED BY <1>1, <1>4, <1>5

\* prefetch_next_layer, and the listener of the adapter's accesses.
LEMMA OnAccessKeeps ==
  ASSUME NEW b, BufferGood(b), NEW op, NEW layer \in Nat, NEW ids \in Seq(Nat)
  PROVE  /\ PredictedLayer(layer) \in Nat
         /\ BufferGood(PrefetchNextLayer(b, layer, ids))
         /\ BufferGood(OnAccess(b, op, layer, ids))
         /\ NewOf(b, OnAccess(b, op, layer, ids), PredictedLayer(layer))
<1>1. PredictedLayer(layer) \in Nat
  <2>1. layer + 1 \in Nat /\ TotalLayers \in Nat \ {0}
    BY BufferAssumption
  <2> QED BY <2>1, Divided DEF PredictedLayer
<1>2. Predicted(ids) \in Seq(Nat)
  BY PredictedIs
<1>3. PICK c : c = PrefetchNextLayer(b, layer, ids)
  OBVIOUS
<1>4. BufferGood(c) /\ NewOf(b, c, PredictedLayer(layer))
  BY <1>1, <1>2, <1>3, StageBlocksKeep DEF PrefetchNextLayer
<1>5. OnAccess(b, op, layer, ids) \in {b, c}
  BY <1>3 DEF OnAccess
<1>6. NewOf(b, b, PredictedLayer(layer))
  BY DEF NewOf
<1> QED BY <1>1, <1>3, <1>4, <1>5, <1>6

\* is_staged
LEMMA IsStagedKeeps ==
  ASSUME NEW b, BufferGood(b), NEW layer, NEW S, NEW ids \in Seq(S),
         NEW c, c = IsStaged(b, layer, ids)
  PROVE  BufferGood(c) /\ c.staged = b.staged
<1>1. CASE ids = <<>>
  BY <1>1 DEF IsStaged
<1>2. CASE ids # <<>>
  <2>1. Len(ids) \in Nat /\ Len(ids) # 0 /\ DOMAIN ids = 1..Len(ids)
    BY <1>2, LenProperties, EmptySeq
  <2>2. PICK n \in Nat : n = Len(ids) /\ n # 0
    BY <2>1
  <2>3. PICK k \in Nat : k = Cardinality(CheckStaging(b, layer, ids)) /\ k <= n
    <3>1. CheckStaging(b, layer, ids) \subseteq 1..n
      BY <2>1, <2>2 DEF CheckStaging
    <3>2. IsFiniteSet(1..n) /\ Cardinality(1..n) = n
      BY FS_Interval
    <3>3. /\ IsFiniteSet(CheckStaging(b, layer, ids))
          /\ Cardinality(CheckStaging(b, layer, ids)) <= n
      BY <3>1, <3>2, FS_Subset
    <3> QED BY <3>3, FS_CardinalityType
  <2>4. PICK h \in Nat, m \in Nat : /\ h = IF IsHit(b, layer, ids) THEN 1 ELSE 0
                                    /\ m = IF IsHit(b, layer, ids) THEN 0 ELSE 1
                                    /\ h + m = 1
    <3>1. CASE IsHit(b, layer, ids)
      BY <3>1
    <3>2. CASE ~IsHit(b, layer, ids)
      BY <3>2
    <3> QED BY <3>1, <3>2
  <2>5. /\ b \in Buffers /\ b.requested \in Nat /\ b.found \in Nat /\ b.hits \in Nat
        /\ b.misses \in Nat /\ b.found <= b.requested /\ b.hits + b.misses <= b.requested
    BY DEF BufferGood, Buffers
  <2>6. c = [b EXCEPT !.requested = b.requested + n, !.found = b.found + k,
                      !.hits = b.hits + h, !.misses = b.misses + m]
    BY <1>2, <2>2, <2>3, <2>4 DEF IsStaged
  <2>7. PICK p \in Nat, q \in Nat, r \in Nat, t \in Nat :
           p = b.requested /\ q = b.found /\ r = b.hits /\ t = b.misses
    BY <2>5
  <2>8. PICK w \in Nat, x \in Nat, y \in Nat, z \in Nat :
          w = p + n /\ x = q + k /\ y = r + h /\ z = t + m
    OBVIOUS
  <2>9. c = [b EXCEPT !.requested = w, !.found = x, !.hits = y, !.misses = z]
    BY <2>6, <2>8, <2>7
  <2>10. /\ c \in Buffers /\ c.staged = b.staged /\ c.legacy = b.legacy
        /\ c.requested = w /\ c.found = x /\ c.hits = y /\ c.misses = z
    BY <2>5, <2>9 DEF Buffers
  <2>11. x <= w /\ y + z <= w
    <3>2. q <= p /\ r + t <= p
      BY <2>5, <2>7
    <3> QED BY <2>2, <2>3, <2>4, <2>8, <3>2
  <2> QED BY <2>10, <2>11 DEF BufferGood
<1> QED BY <1>1, <1>2

\* run_simulation
LEMMA SimulationStages ==
  ASSUME NEW base, BufferGood(base.buf), NEW layers \in Seq(Nat), NEW ids \in Seq(Nat),
         NEW e, e = SimulateLayers(base, layers, ids)
  PROVE  BufferGood(e.buf)
<1>1. PICK f : /\ Turns(f, "simulate", ids, base, layers)
               /\ SimulateLayers(base, layers, ids) = f[Len(layers)]
  BY SimulateTurns
<1>. DEFINE X == {i \in Nat : i <= Len(layers) => BufferGood(f[i].buf)}
<1>2. 0 \in X
  BY <1>1 DEF Turns
<1>3. ASSUME NEW i \in Nat, i \in X PROVE i + 1 \in X
  <2> SUFFICES ASSUME i + 1 <= Len(layers) PROVE BufferGood(f[i + 1].buf)
    OBVIOUS
  <2>1. /\ i + 1 \in 1..Len(layers) /\ (i + 1) - 1 = i /\ i <= Len(layers)
        /\ layers[i + 1] \in Nat
    BY LenProperties, ElementOfSeq
  <2>2. BufferGood(f[i].buf)
    BY <1>3, <2>1
  <2>3. f[i + 1] = SimulateLayer(f[i], layers[i + 1], ids)
    <3>1. f[i + 1] = Turned("simulate", ids, f[(i + 1) - 1], layers[i + 1])
      BY <1>1, <2>1 DEF Turns
    <3> QED BY <2>1, <3>1 DEF Turned
  <2>4. PICK layer \in Nat : layer = layers[i + 1]
    BY <2>1
  <2>5. PICK asked, staged : /\ asked = IsStaged(f[i].buf, layer, ids)
                             /\ staged = PrefetchNextLayer(asked, layer, ids)
    OBVIOUS
  <2>6. f[i + 1].buf = OnAccess(staged, "PREFETCH_KV", PredictedLayer(layer), ids)
    BY <2>3, <2>4, <2>5 DEF SimulateLayer
  <2>. HIDE DEF X
  <2>7. BufferGood(asked)
    BY <2>2, <2>5, IsStagedKeeps
  <2>8. BufferGood(staged)
    BY <2>5, <2>7, OnAccessKeeps
  <2> QED BY <2>6, <2>8 DEF OnAccess
<1>4. Nat \subseteq X
  <2>. HIDE DEF X
  <2> QED BY <1>2, <1>3, SetInduction
<1>5. Len(layers) \in Nat /\ Len(layers) <= Len(layers)
  BY LenProperties
<1> QED BY <1>1, <1>4, <1>5

\* What a Top-K answers are block ids.
LEMMA AnswersAreIds ==
  ASSUME NEW d, AdapterGood(d), NEW layer, NEW k, NEW r, r \in TopKAnswers(d, layer, k)
  PROVE  r \in Seq(Nat)
<1>1. \A key \in DOMAIN d.store : key \in Keys
  BY ElementOfSeq DEF AdapterGood, Among
<1>2. ScoredOf(d.store, layer) \subseteq Nat
  BY <1>1 DEF ScoredOf, Keys
<1>3. r \in Seq(ScoredOf(d.store, layer))
  BY TopIs
<1> QED BY <1>2, <1>3, SeqMonotonic

\* What is new in the buffer is of one layer.
OneLayer(b, c) == \A x, y \in ToSet(c.staged) \ ToSet(b.staged) : x[1] = y[1]

LEMMA OfOneLayer == ASSUME NEW b, NEW c, NEW layer, NewOf(b, c, layer) PROVE OneLayer(b, c)
BY DEF NewOf, OneLayer

\* A call keeps the buffer, and stages blocks of one layer unless it is run_simulation.
LEMMA BufferStep ==
  ASSUME IInv, BufferGood(buf), [Next]_vars
  PROVE  /\ BufferGood(buf')
         /\ (\E n \in 1..2 : RunSimulation(n)) \/ OneLayer(buf, buf')
<1>0. /\ Layers \subseteq Nat /\ pool \in Seq(Block) /\ Len(pool) \in Nat /\ Ids \subseteq Nat
      /\ AdapterGood(dev)
  BY LayersAre, LenProperties DEF IInv, PoolGood, Ids
<1>1. CASE buf' = buf
  BY <1>1 DEF OneLayer
<1>2. CASE \E l \in Layers, n \in PromptLengths : PrefillSequence(l, n)
  <2>1. buf' = buf
    BY <1>2 DEF PrefillSequence
  <2> QED BY <1>1, <2>1
<1>3. CASE \E l \in Layers : AppendToken(l)
  <2>1. buf' = buf
    BY <1>3 DEF AppendToken
  <2> QED BY <1>1, <2>1
<1>4. CASE \E id \in Ids : FetchColdBlock(id)
  <2>1. PICK id \in Ids : FetchColdBlock(id)
    BY <1>4
  <2>2. PICK layer : layer = pool[id + 1].layer
    OBVIOUS
  <2>3. layer \in Nat
    <3>1. id + 1 \in 1..Len(pool)
      BY <1>0, <2>1 DEF Ids
    <3>2. pool[id + 1] \in Block
      BY <1>0, <3>1, ElementOfSeq
    <3> QED BY <1>0, <2>2, <3>2 DEF Block
  <2>4. id \in Nat /\ <<id>> \in Seq(Nat)
    BY <1>0
  <2>5. buf' = OnAccess(buf, "LOAD_KV", layer, <<id>>)
    BY <2>1, <2>2 DEF FetchColdBlock
  <2>6. BufferGood(buf') /\ NewOf(buf, buf', PredictedLayer(layer))
    BY <2>3, <2>4, <2>5, OnAccessKeeps
  <2> QED BY <2>6, OfOneLayer
<1>5. CASE \E l \in Layers, k \in 1..2 : DecodeAttention(l, k)
  <2>1. PICK l \in Layers, k \in 1..2 : DecodeAttention(l, k)
    BY <1>5
  <2>2. PICK top \in TopKAnswers(dev, l, k) : buf' = OnAccess(buf, "IN_STORAGE_TOPK", l, top)
    BY <2>1 DEF DecodeAttention
  <2>3. top \in Seq(Nat) /\ l \in Nat
    BY <1>0, <2>2, AnswersAreIds
  <2>4. BufferGood(buf') /\ NewOf(buf, buf', PredictedLayer(l))
    BY <2>2, <2>3, OnAccessKeeps
  <2> QED BY <2>4, OfOneLayer
<1>6. CASE \E l \in Layers : \E ids \in LayerRequests(l) : KVPrefetch(l, ids)
  <2>1. PICK l \in Layers : \E ids \in LayerRequests(l) : KVPrefetch(l, ids)
    BY <1>6
  <2>2. PICK ids \in LayerRequests(l) : KVPrefetch(l, ids)
    BY <2>1
  <2>3. ids \in Seq(Nat) /\ l \in Nat
    BY <1>0, RequestIs, SeqMonotonic
  <2>4. buf' = StageBlocks(buf, l, ids)
    BY <2>2 DEF KVPrefetch, OnAccess
  <2>5. BufferGood(buf') /\ NewOf(buf, buf', l)
    BY <2>3, <2>4, StageBlocksKeep
  <2> QED BY <2>5, OfOneLayer
<1>7. CASE \E l \in Layers : KVTopK(l, LayerBlocks(pool, l))
  <2>1. PICK l \in Layers : KVTopK(l, LayerBlocks(pool, l))
    BY <1>7
  <2>2. PICK ids \in Seq(Nat) : ids = LayerBlocks(pool, l)
    BY <1>0, LayerBlocksAre
  <2>3. buf' = IsStaged(buf, l, ids)
    BY <2>1, <2>2 DEF KVTopK
  <2>4. BufferGood(buf') /\ buf'.staged = buf.staged
    BY <2>3, IsStagedKeeps
  <2> QED BY <2>4 DEF OneLayer
<1>8. CASE \E id \in Ids : KVEvict(id)
  <2>1. buf' = buf
    BY <1>8 DEF KVEvict
  <2> QED BY <1>1, <2>1
<1>9. CASE \E mode \in Modes : SwitchMode(mode)
  <2>1. buf' = buf
    BY <1>9 DEF SwitchMode
  <2> QED BY <1>1, <2>1
<1>10. CASE \E n \in 1..2 : RunSimulation(n)
  <2>1. PICK n \in Nat : RunSimulation(n)
    BY <1>10
  <2>2. PICK base, ids, layers :
          /\ base = [buf |-> EmptyBuffer, dev |-> dev]
          /\ ids = Positions(0, n) /\ layers = Positions(0, Cardinality(Layers))
    OBVIOUS
  <2>3. ids \in Seq(Nat) /\ layers \in Seq(Nat)
    BY <2>2, SimulationArguments
  <2>4. buf' = SimulateLayers(base, layers, ids).buf
    BY <2>1, <2>2 DEF RunSimulation
  <2>5. BufferGood(base.buf)
    BY <2>2, EmptyIsGood
  <2>6. BufferGood(buf')
    BY <2>3, <2>4, <2>5, SimulationStages
  <2> QED BY <1>10, <2>6
<1>11. CASE UNCHANGED vars
  BY <1>1, <1>11 DEF vars
<1> QED BY <1>2, <1>3, <1>4, <1>5, <1>6, <1>7, <1>8, <1>9, <1>10, <1>11 DEF Next

-----------------------------------------------------------------------------
(***************************************************************************)
(* Types, and what is staged.                                             *)
(***************************************************************************)

\* The keys of the blocks of a pool: the k-th block's layer, with its id k - 1.
KeysOf(blocks) == {KeyAt(blocks, i) : i \in 1..Len(blocks)}

\* What every call keeps beside IInv and CInv.
TInv ==
  /\ erased \subseteq KeysOf(pool)
  /\ BufferGood(buf)
  /\ \A l \in Layers : length[l] <= MaxTokens

\* Blocks keep their keys when the pool grows.
LEMMA KeysKept ==
  ASSUME NEW p, NEW q, Len(p) \in Nat, Len(q) \in Nat, Len(p) <= Len(q),
         \A i \in 1..Len(p) : q[i].layer = p[i].layer
  PROVE  KeysOf(p) \subseteq KeysOf(q)
<1>1. ASSUME NEW i \in 1..Len(p) PROVE KeyAt(p, i) \in KeysOf(q)
  <2>1. i \in 1..Len(q)
    OBVIOUS
  <2>2. KeyAt(p, i) = KeyAt(q, i)
    BY DEF KeyAt
  <2> QED BY <2>1, <2>2 DEF KeysOf
<1> QED BY <1>1 DEF KeysOf

LEMMA InitTypes == ASSUME Init PROVE TInv
<1>1. erased = {} /\ buf = EmptyBuffer /\ \A l \in Layers : length[l] = 0
  BY DEF Init
<1>2. MaxTokens \in Nat
  BY BoundAssumption
<1> QED BY <1>1, <1>2, EmptyIsGood DEF TInv

\* prefill_sequence and append_token keep the keys of the blocks there are.
LEMMA AddedKeys ==
  ASSUME IInv, NEW l, NEW m, NEW blocks, NEW len2, NEW cut, Adds(l, m, blocks, len2, cut)
  PROVE  KeysOf(pool) \subseteq KeysOf(pool') /\ erased' = erased
<1>1. PICK p, q : p = pool /\ q = pool'
  OBVIOUS
<1>2. Alike(blocks, q) /\ erased' = erased
  BY <1>1, AddedInv
<1>3. Len(p) <= Len(blocks) /\ \A i \in 1..Len(p) : blocks[i].layer = p[i].layer
  BY <1>1 DEF Adds
<1>4. Len(p) \in Nat /\ Len(blocks) \in Nat
  <2>1. blocks \in Seq(Block) /\ p \in Seq(Block)
    BY <1>1 DEF Adds, IInv, PoolGood
  <2> QED BY <2>1, LenProperties
<1>5. Len(q) = Len(blocks) /\ \A i \in 1..Len(blocks) : q[i].layer = blocks[i].layer
  BY <1>2 DEF Alike
<1>6. \A i \in 1..Len(p) : q[i].layer = p[i].layer
  BY <1>3, <1>4, <1>5
<1>7. KeysOf(p) \subseteq KeysOf(q)
  BY <1>3, <1>4, <1>5, <1>6, KeysKept
<1> QED BY <1>1, <1>2, <1>7

\* fetch_cold_block changes no layer.
LEMMA FetchKeys ==
  ASSUME IInv, NEW id \in Ids, FetchColdBlock(id)
  PROVE  KeysOf(pool) \subseteq KeysOf(pool') /\ erased' = erased /\ length' = length
<1>1. PICK p : p = pool
  OBVIOUS
<1>2. p \in Seq(Block) /\ Len(p) \in Nat /\ erased' = erased /\ length' = length
  BY <1>1, PoolBelow DEF IInv, PoolGood, FetchColdBlock
<1>3. PICK k \in 1..Len(p) : k = id + 1
  BY <1>1, <1>2 DEF Ids
<1>4. PICK b \in Block : b = p[k]
  BY <1>2, ElementOfSeq
<1>5. PICK v, data : v = TRUE /\ data = reply'
  OBVIOUS
<1>6. PICK c : c = [[b EXCEPT !.ram = v] EXCEPT !.data = data]
  OBVIOUS
<1>7. c.layer = b.layer
  BY <1>6 DEF Block
<1>8. PICK q : q = [p EXCEPT ![k] = c]
  OBVIOUS
<1>9. pool' = q
  <2>1. pool' = [pool EXCEPT ![id + 1].ram = TRUE, ![id + 1].data = reply']
    BY DEF FetchColdBlock
  <2>2. pool' = [p EXCEPT ![k].ram = v, ![k].data = data]
    BY <1>1, <1>3, <1>5, <2>1
  <2> QED BY <1>4, <1>6, <1>8, <2>2
<1>10. Len(q) = Len(p) /\ \A i \in 1..Len(p) : q[i] = IF i = k THEN c ELSE p[i]
  BY <1>2, <1>8
<1>11. \A i \in 1..Len(p) : q[i].layer = p[i].layer
  BY <1>4, <1>7, <1>10
<1>12. KeysOf(p) \subseteq KeysOf(q)
  BY <1>2, <1>10, <1>11, KeysKept
<1> QED BY <1>1, <1>2, <1>9, <1>12

\* KV_EVICT counts a block of the pool as erased.
LEMMA EvictKeys ==
  ASSUME IInv, NEW id \in Ids, KVEvict(id)
  PROVE  erased' \subseteq erased \cup KeysOf(pool) /\ pool' = pool /\ length' = length
<1>1. Len(pool) \in Nat
  BY PoolBelow
<1>2. PICK k \in 1..Len(pool) : k = id + 1 /\ k - 1 = id
  BY <1>1 DEF Ids
<1>3. <<pool[id + 1].layer, id>> = KeyAt(pool, k)
  BY <1>2 DEF KeyAt
<1>4. KeyAt(pool, k) \in KeysOf(pool)
  BY DEF KeysOf
<1>5. erased' \subseteq erased \cup {<<pool[id + 1].layer, id>>}
  BY DEF KVEvict
<1>6. pool' = pool /\ length' = length
  BY DEF KVEvict
<1> QED BY <1>3, <1>4, <1>5, <1>6

\* Erased blocks are blocks of the pool, and no layer is given more than MaxTokens tokens.
LEMMA TokensStep ==
  ASSUME IInv, TInv, [Next]_vars
  PROVE  erased' \subseteq KeysOf(pool') /\ \A l \in Layers : length'[l] <= MaxTokens
<1>1. /\ erased \subseteq KeysOf(pool) /\ length \in [Layers -> Nat]
      /\ \A l \in Layers : length[l] <= MaxTokens
  BY DEF IInv, PoolGood, TInv
<1>2. MaxTokens \in Nat
  BY BoundAssumption
<1>3. CASE pool' = pool /\ erased' = erased /\ length' = length
  BY <1>1, <1>3
<1>4. CASE \E l \in Layers, n \in PromptLengths : PrefillSequence(l, n)
  <2>1. PICK l \in Layers, n \in PromptLengths : PrefillSequence(l, n)
    BY <1>4
  <2>2. KeysOf(pool) \subseteq KeysOf(pool') /\ erased' = erased
    BY <2>1, PrefillAdds, AddedKeys
  <2>3. length' = [length EXCEPT ![l] = n] /\ n <= MaxTokens
    BY <2>1, BoundAssumption DEF PrefillSequence
  <2> QED BY <1>1, <2>2, <2>3
<1>5. CASE \E l \in Layers : AppendToken(l)
  <2>1. PICK l \in Layers : AppendToken(l)
    BY <1>5
  <2>2. KeysOf(pool) \subseteq KeysOf(pool') /\ erased' = erased
    BY <2>1, AppendAdds, AddedKeys
  <2>3. PICK n \in Nat : n = length[l]
    BY <1>1
  <2>4. length' = [length EXCEPT ![l] = n + 1] /\ n \in 1..(MaxTokens - 1)
    BY <2>1, <2>3 DEF AppendToken
  <2>5. n + 1 <= MaxTokens
    BY <1>2, <2>4
  <2> QED BY <1>1, <2>2, <2>4, <2>5
<1>6. CASE \E id \in Ids : FetchColdBlock(id)
  BY <1>1, <1>6, FetchKeys
<1>7. CASE \E l \in Layers, k \in 1..2 : DecodeAttention(l, k)
  BY <1>3, <1>7 DEF DecodeAttention
<1>8. CASE \E l \in Layers : \E ids \in LayerRequests(l) : KVPrefetch(l, ids)
  BY <1>3, <1>8 DEF KVPrefetch
<1>9. CASE \E l \in Layers : KVTopK(l, LayerBlocks(pool, l))
  BY <1>3, <1>9 DEF KVTopK
<1>10. CASE \E id \in Ids : KVEvict(id)
  BY <1>1, <1>10, EvictKeys
<1>11. CASE \E mode \in Modes : SwitchMode(mode)
  BY <1>3, <1>11 DEF SwitchMode
<1>12. CASE \E n \in 1..2 : RunSimulation(n)
  BY <1>3, <1>12 DEF RunSimulation
<1>13. CASE UNCHANGED vars
  BY <1>3, <1>13 DEF vars
<1> QED BY <1>4, <1>5, <1>6, <1>7, <1>8, <1>9, <1>10, <1>11, <1>12, <1>13 DEF Next

LEMMA TInvStep == IInv /\ TInv /\ [Next]_vars => TInv'
<1> SUFFICES ASSUME IInv, TInv, [Next]_vars PROVE TInv'
  OBVIOUS
<1>1. BufferGood(buf')
  BY BufferStep DEF TInv
<1> QED BY <1>1, TokensStep DEF TInv

\* What the three invariants say of the types.
LEMMA Typed == ASSUME IInv, CInv, TInv PROVE TypeOK
<1>1. pool \in Seq(Block) /\ Len(pool) \in Nat /\ length \in [Layers -> Nat]
  BY PoolBelow DEF IInv, PoolGood
<1>2. length \in [Layers -> 0..MaxTokens]
  <2>1. \A l \in Layers : length[l] \in 0..MaxTokens
    BY <1>1, BoundAssumption DEF TInv
  <2> QED BY <1>1, <2>1
<1>3. DOMAIN dev.store = ToSet(dev.order)
  <2>1. dev.order \in Seq(Keys) /\ \A key : Among(key, dev.order) <=> key \in DOMAIN dev.store
    BY DEF IInv, AdapterGood
  <2>2. DOMAIN dev.order = 1..Len(dev.order)
    BY <2>1, LenProperties
  <2>3. \A key : Among(key, dev.order) <=> key \in ToSet(dev.order)
    BY <2>2 DEF Among, ToSet
  <2> QED BY <2>1, <2>3
<1>4. DOMAIN dev.store \cup erased \subseteq {<<pool[id + 1].layer, id>> : id \in Ids}
  <2>1. DOMAIN dev.store \cup erased \subseteq KeysOf(pool)
    BY DEF IInv, PoolGood, TInv, KeysOf
  <2>2. ASSUME NEW i \in 1..Len(pool)
        PROVE  KeyAt(pool, i) \in {<<pool[id + 1].layer, id>> : id \in Ids}
    <3>1. PICK id \in Ids : id = i - 1 /\ id + 1 = i
      BY <1>1 DEF Ids
    <3>2. KeyAt(pool, i) = <<pool[id + 1].layer, id>>
      BY <3>1 DEF KeyAt
    <3> QED BY <3>2
  <2> QED BY <2>1, <2>2 DEF KeysOf
<1>5. \A g \in DOMAIN dev.sim.map : dev.sim.map[g] \in Location
  BY DEF CInv, Costs, Laid, LaidAt
<1>6. /\ Len(buf.staged) <= BufferCapacity /\ IsInjective(buf.staged)
      /\ Cardinality(buf.legacy) <= BufferCapacity
      /\ buf.found <= buf.requested /\ buf.hits + buf.misses <= buf.requested
  BY DEF TInv, BufferGood
<1> QED BY <1>1, <1>2, <1>3, <1>4, <1>5, <1>6 DEF TypeOK

\* Pool, adapter, flash tables and staging buffer keep the types of the code whatever the
\* callers do: payloads and erased keys are of blocks of the pool, mapped pages lie on the
\* device, the prefetcher's buffer stays within its capacity and has a key once
\* (prefetcher.py:53-72), and it never counts more found, hit and missed than asked for.
THEOREM TieredTypesAlways == Spec => []TypeOK
<1>1. Init => IInv /\ CInv /\ TInv
  BY InitInv, InitCosts, InitTypes
<1>2. IInv /\ CInv /\ TInv /\ [Next]_vars => IInv' /\ CInv' /\ TInv'
  BY IInvStep, CostsStep, TInvStep
<1>3. IInv /\ CInv /\ TInv => TypeOK
  BY Typed
<1> QED BY <1>1, <1>2, <1>3, PTL DEF Spec

\* A request or an access stages blocks of a single layer: the prefetch it causes is not
\* taken for an access that causes the next one, because the listener of the orchestrator
\* does not follow prefetches.  Only run_simulation goes through all layers.
THEOREM PrefetchNeverCascades == Spec => NoPrefetchCascade
<1>. DEFINE Single == \/ \E n \in 1..2 : RunSimulation(n)
                      \/ \A x, y \in ToSet(buf'.staged) \ ToSet(buf.staged) : x[1] = y[1]
<1>1. Init => IInv /\ TInv
  BY InitInv, InitTypes
<1>2. IInv /\ TInv /\ [Next]_vars => IInv' /\ TInv'
  BY IInvStep, TInvStep
<1>3. IInv /\ TInv /\ [Next]_vars => [Single]_vars
  BY BufferStep DEF TInv, OneLayer
<1> QED BY <1>1, <1>2, <1>3, PTL DEF Spec, NoPrefetchCascade

=============================================================================
