-------------------------------- MODULE Caches --------------------------------
(***************************************************************************)
(* The cache functions of the HAL: the flushes by range, and memory that   *)
(* is reached past the data cache.  Both caches are direct-mapped.         *)
(* Addresses count bytes.  (On this board's processor, without caches, the *)
(* flushes by range compile to nothing but alt_dcache_flush_no_writeback.) *)
(***************************************************************************)
EXTENDS Integers, Functions

CONSTANTS Bytes,             \* how many addresses there are
          Line,              \* bytes in a line, a multiple of 2
          Word,              \* bytes in a word, no more than in a line
          DLines, ILines,    \* lines of the caches
          Lengths            \* of flushes and allocations

CachesAssumption ==
  /\ Line \in Nat /\ Line > 0 /\ Line % 2 = 0
  /\ Word \in Nat /\ Word > 0 /\ Line % Word = 0
  /\ DLines \in Nat \ {0} /\ ILines \in Nat \ {0}
  /\ Bytes \in Nat /\ Bytes % Line = 0 /\ Lengths \subseteq Nat

VARIABLES dcache, icache,    \* which block of memory is in each line, or None
          dirty,             \* bytes whose value is in the data cache only
          lost,              \* bytes whose value the last step threw away
          uncached           \* of each uncached block's address, its size
vars == <<dcache, icache, dirty, lost, uncached>>

None == -1
Address == 0 .. Bytes - 1
Block(a) == a \div Line
InBlock(b) == b * Line .. b * Line + Line - 1
Region(start, len) == start .. start + len - 1
Uncached == UNION {Region(p, uncached[p]) : p \in DOMAIN uncached}

Init == /\ dcache = [n \in 0 .. DLines - 1 |-> None]
        /\ icache = [n \in 0 .. ILines - 1 |-> None]
        /\ dirty = {} /\ lost = {}
        /\ uncached = <<>>

\* The program reads and writes, past no cache, what is not uncached.
Filled(a) == [dcache EXCEPT ![Block(a) % DLines] = Block(a)]
Fill(a) == dcache' = Filled(a)
Kept(a) == dirty \ (IF dcache[Block(a) % DLines] \in {None, Block(a)} THEN {}
                    ELSE InBlock(dcache[Block(a) % DLines]))
Load(a) == /\ a \notin Uncached
           /\ Fill(a) /\ dirty' = Kept(a)
           /\ lost' = {} /\ UNCHANGED <<icache, uncached>>
Store(a) == /\ a \notin Uncached
            /\ Fill(a) /\ dirty' = Kept(a) \cup {a}
            /\ lost' = {} /\ UNCHANGED <<icache, uncached>>
Fetch(a) == /\ icache' = [icache EXCEPT ![Block(a) % ILines] = Block(a)]
            /\ lost' = {} /\ UNCHANGED <<dcache, dirty, uncached>>

\* The addresses the loop of a flush by range comes past, and one more after
\* it when start is not at the beginning of a line.
Turns(len) == {k \in 0 .. len : k * Line < len}
Past(len) == IF Turns(len) = {} THEN 0
             ELSE Line * (1 + CHOOSE k \in Turns(len) : \A l \in Turns(len) : l <= k)
Flushes(start, len) ==
  {start + k * Line : k \in Turns(len)}
    \cup (IF start % Line # 0 THEN {start + Past(len)} ELSE {})

\* flushda and initda act on a line that holds the address, if there is one.
HitIn(cache, start, len) == {b \in {Block(a) : a \in Flushes(start, len)} :
                               cache[b % DLines] = b}
Hit(start, len) == HitIn(dcache, start, len)
Without(cache, blocks) == [n \in 0 .. DLines - 1 |->
                             IF cache[n] \in blocks THEN None ELSE cache[n]]
Forget(blocks) == dcache' = Without(dcache, blocks)
BytesOf(blocks) == UNION {InBlock(b) : b \in blocks}

alt_dcache_flush(start, len) ==
  /\ Forget(Hit(start, len))
  /\ dirty' = dirty \ BytesOf(Hit(start, len))
  /\ lost' = {} /\ UNCHANGED icache
DcacheFlush(start, len) == alt_dcache_flush(start, len) /\ UNCHANGED uncached
NoWriteback(start, len) ==
  /\ Forget(Hit(start, len))
  /\ dirty' = dirty \ BytesOf(Hit(start, len))
  /\ lost' = dirty \cap BytesOf(Hit(start, len))
  /\ UNCHANGED <<icache, uncached>>

\* alt_ecc_fatal_exception_register stores a word and flushes it, since the
\* exception code reads it past the cache.
alt_ecc_fatal_exception_register(a) ==
  LET hit == HitIn(Filled(a), a, Word)
  IN  /\ a % Word = 0 /\ Region(a, Word) \subseteq Address \ Uncached
      /\ dcache' = Without(Filled(a), hit)
      /\ dirty' = (Kept(a) \cup Region(a, Word)) \ BytesOf(hit)
      /\ lost' = {} /\ UNCHANGED <<icache, uncached>>

\* flushi acts on the line an address belongs in, whatever that holds.
ISize == ILines * Line
Forgotten(start, len) ==
  {Block(a) % ILines : a \in Flushes(start, IF len > ISize THEN ISize ELSE len)}
IcacheFlush(start, len) ==
  /\ icache' = [n \in 0 .. ILines - 1 |->
                  IF n \in Forgotten(start, len) THEN None ELSE icache[n]]
  /\ lost' = {} /\ UNCHANGED <<dcache, dirty, uncached>>

alt_icache_flush_all == IcacheFlush(0, ISize)

\* alt_uncached_malloc: memalign() finds a place that is free.
AlignedSizeAsAsked(size) == size
AlignedSize(size) == Line * ((size + Line - 1) \div Line)
UncachedMalloc(size, ptr) ==
  /\ ptr % Line = 0 /\ Region(ptr, AlignedSize(size)) \subseteq Address \ Uncached
  /\ ptr \notin DOMAIN uncached
  /\ alt_dcache_flush(ptr, AlignedSize(size))
  /\ uncached' = [p \in DOMAIN uncached \cup {ptr} |->
                    IF p = ptr THEN AlignedSize(size) ELSE uncached[p]]
\* Freed, or used through the pointer alt_remap_cached returns, it is memory
\* as any other.
UncachedFree(ptr) == /\ uncached' = Restrict(uncached, DOMAIN uncached \ {ptr})
                     /\ lost' = {} /\ UNCHANGED <<dcache, icache, dirty>>

Within(start, len) == start + len <= Bytes
Access == \E a \in Address : Load(a) \/ Store(a) \/ Fetch(a)
Flush == \E a \in Address, n \in Lengths :
           Within(a, n) /\ (DcacheFlush(a, n) \/ NoWriteback(a, n) \/ IcacheFlush(a, n))
FlushAll == alt_icache_flush_all \/ \E a \in Address : alt_ecc_fatal_exception_register(a)
Allocate == \E a \in Address, n \in Lengths \ {0} : UncachedMalloc(n, a)
Free == \E p \in DOMAIN uncached : UncachedFree(p)
Next == Access \/ Flush \/ FlushAll \/ Allocate \/ Free
Spec == Init /\ [][Next]_vars
-----------------------------------------------------------------------------
TypeOK == /\ dcache \in [0 .. DLines - 1 -> {None} \cup 0 .. Bytes \div Line - 1]
          /\ icache \in [0 .. ILines - 1 -> {None} \cup 0 .. Bytes \div Line - 1]
          /\ dirty \subseteq Address /\ lost \subseteq Address
          /\ DOMAIN uncached \subseteq Address

\* No byte of a block of uncached memory is ever in the data cache, where it
\* would hide what another master writes, or be written back over it:
\* neighbours do not draw it in.
NeverCached == \A n \in 0 .. DLines - 1 :
                 dcache[n] # None => InBlock(dcache[n]) \cap Uncached = {}

\* A value that is nowhere but in the cache is still in the cache.
DirtyIsCached == \A a \in dirty : dcache[Block(a) % DLines] = Block(a)

\* A flush of a region, of any length and alignment, reaches every line of
\* the cache it is about that holds a byte of the region.
Holds(block, start, len) ==
  block # None /\ InBlock(block) \cap Region(start, len) # {}
FlushReaches ==
  \A a \in Address, n \in Lengths : Within(a, n) =>
    /\ \A m \in DOMAIN dcache : Holds(dcache[m], a, n) => dcache[m] \in Hit(a, n)
    /\ \A m \in DOMAIN icache : Holds(icache[m], a, n) => m \in Forgotten(a, n)
    /\ Forgotten(0, ISize) = DOMAIN icache

\* alt_dcache_flush_no_writeback.c:60 explains the flush after its loop: "For
\* an unaligned flush request, we've got one more line left".  What is thrown
\* away then lies in lines that the region is in.
OnlyItsLines ==
  [][\A a \in Address, n \in Lengths : Within(a, n) /\ NoWriteback(a, n) =>
       \A b \in lost' : InBlock(Block(b)) \cap Region(a, n) # {}]_vars
=============================================================================
