------------------------------ MODULE MCMemory ------------------------------
(***************************************************************************)
(* What fills and keeps the memory: the heap and the stack, the start-up,  *)
(* the caches and the profiler.  They share no variable, so that a         *)
(* behaviour is one of one of them, chosen at the start: the others stay   *)
(* as they are.                                                            *)
(***************************************************************************)
EXTENDS Heap, Sequences

CONSTANTS f1, f2, g1, g2,
          Processor,                                  \* parameters of Boot
          Bytes, Line, Word, DLines, ILines, Lengths, \* of Caches
          Self, From, hash, SLAB_INCREMENT, p_heap_limit, s_high_pc,
          BYTES_PER_BUCKET, MaxCalls                  \* of Profile

\* Between heap and stack fifteen words, asked for in ones and twos.
WordRequests == {-8, -4, 0, 4, 8}
SmallFrames == {4, 8}
\* Four lines of memory and caches of two; the instruction cache is shorter
\* than the longest flush.
FewLengths == 0 .. 6

VARIABLES part,
          pc, ram, dcache, icache, r2, section, ready, prs, crs, log,
          PIE, ienable, requests, calls, atexit, stdout,
          d_lines, i_lines, dirty, lost, uncached,
          chain, call, slab, p_heap_end, need_init, ticking, started, bucket,
          p_calls

boot == <<pc, ram, dcache, icache, r2, section, ready, prs, crs, log,
          PIE, ienable, requests, calls, atexit, stdout>>
caches == <<d_lines, i_lines, dirty, lost, uncached>>
profile == <<chain, call, slab, p_heap_end, need_init, ticking, started, bucket,
             p_calls>>
Off(x) == x = 0

\* The start-up, with the caches and the layout each processor has.
Cpu(m) == INSTANCE Boot WITH
  Memory <- Processor[m].Memory,
  ram_start <- Processor[m].ram_start, ram_end <- Processor[m].ram_end,
  flash_start <- Processor[m].flash_start,
  bss_start <- Processor[m].bss_start, bss_end <- Processor[m].bss_end,
  DCacheSize <- Processor[m].DCacheSize, DCacheLine <- Processor[m].DCacheLine,
  ICacheSize <- Processor[m].ICacheSize, ICacheLine <- Processor[m].ICacheLine,
  Ecc <- Processor[m].Ecc, ShadowSets <- Processor[m].ShadowSets,
  LogFlag <- Processor[m].LogFlag,
  Ctors <- Processor[m].Ctors, Dtors <- Processor[m].Dtors,
  Exits <- Processor[m].Exits
\* Two words of variables and two of .bss: on this board, where .rwdata only is
\* copied, and on a processor with caches, where everything is.
ThisBoard == [
  Memory |-> 0 .. 8, bss_start |-> 6, bss_end |-> 8,
  ram_start |-> [rwdata |-> 2, exceptions |-> 0, rodata |-> 1],
  ram_end |-> [rwdata |-> 4, exceptions |-> 1, rodata |-> 2],
  flash_start |-> [rwdata |-> 4, exceptions |-> 0, rodata |-> 1],
  DCacheSize |-> 0, DCacheLine |-> 1, ICacheSize |-> 0, ICacheLine |-> 1,
  Ecc |-> FALSE, ShadowSets |-> 1, LogFlag |-> -1, Ctors |-> 2, Dtors |-> 1,
  Exits |-> TRUE]
WithCaches == [ThisBoard EXCEPT
  !.Memory = 0 .. 11, !.flash_start = [rwdata |-> 8, exceptions |-> 10, rodata |-> 11],
  !.DCacheSize = 4, !.DCacheLine = 2, !.ICacheSize = 4, !.ICacheLine = 2]
TwoProcessors == [board |-> ThisBoard, cached |-> WithCaches]
Lines == INSTANCE Caches WITH dcache <- d_lines, icache <- i_lines
\* Two functions that hash alike, called from two places, by the program and by
\* an interrupt handler.
Functions == {f1, f2}
Callers == {g1, g2}
OneBucket == [s \in Functions |-> 0]
Profiler == INSTANCE Profile WITH
  heap_limit <- p_heap_limit, heap_end <- p_heap_end, calls <- p_calls
ASSUME BootAssumption ==
  \A m \in DOMAIN Processor : /\ Cpu(m)!BootAssumption
                              /\ m \notin {"heap", "caches", "profile"}
ASSUME CachesAssumption == Lines!CachesAssumption
ASSUME ProfileAssumption == Profiler!ProfileAssumption /\ Profiler!Roomy

NoBoot == /\ pc = "off" /\ Off(ram) /\ Off(dcache) /\ Off(icache) /\ Off(r2)
          /\ Off(section) /\ Off(ready) /\ Off(prs) /\ Off(crs) /\ Off(log)
          /\ Off(PIE) /\ Off(ienable) /\ Off(requests) /\ calls = <<>>
          /\ Off(atexit) /\ Off(stdout)
NoCaches == /\ Off(d_lines) /\ Off(i_lines) /\ Off(dirty) /\ Off(lost)
            /\ Off(uncached)
NoProfile == /\ Off(chain) /\ call = [c \in Profiler!Context |-> Profiler!Idle]
             /\ Off(slab) /\ Off(p_heap_end) /\ Off(need_init) /\ Off(ticking)
             /\ Off(started) /\ Off(bucket) /\ Off(p_calls)
MCInit ==
  /\ Init
  /\ \/ part = "heap" /\ NoBoot /\ NoCaches /\ NoProfile
     \/ /\ \E m \in DOMAIN Processor : part = m /\ Cpu(m)!Init
        /\ NoCaches /\ NoProfile
     \/ part = "caches" /\ NoBoot /\ Lines!Init /\ NoProfile
     \/ part = "profile" /\ NoBoot /\ NoCaches /\ Profiler!Init
MCNext ==
  /\ \/ part = "heap" /\ Next /\ UNCHANGED <<boot, caches, profile>>
     \/ /\ \E m \in DOMAIN Processor : part = m /\ Cpu(m)!Next
        /\ UNCHANGED <<vars, caches, profile>>
     \/ part = "caches" /\ Lines!Next /\ UNCHANGED <<vars, boot, profile>>
     \/ part = "profile" /\ Profiler!Next /\ UNCHANGED <<vars, boot, caches>>
     \* An overflow stops the program; MaxCalls bounds what is profiled.
     \/ /\ (part = "heap" /\ overflow) \/ part = "profile"
        /\ UNCHANGED <<vars, boot, caches, profile>>
  /\ UNCHANGED part
everything == <<vars, part, boot, caches, profile>>
MCSpec == MCInit /\ [][MCNext]_everything
\* The fairness of Boot, on this board, and of Profile.
MCFairSpec ==
  /\ MCSpec
  /\ WF_boot(part = "board" /\ (Cpu("board")!Startup \/ Cpu("board")!Shutdown))
  /\ <>[][~ (part = "board" /\ Cpu("board")!Reset)]_boot
  /\ \A c \in {"program", "handler"} :
       WF_profile(part = "profile" /\ Profiler!Mcount(c))
-----------------------------------------------------------------------------
\* From reset to main everything comes in its order: the program finds itself
\* as it was linked, and nothing runs before what it needs is there.
BootsRight ==
  \A m \in DOMAIN Processor : part = m =>
    /\ Cpu(m)!TypeOK /\ Cpu(m)!AsLinked /\ Cpu(m)!SetsUsable
    /\ Cpu(m)!NotTooEarly /\ Cpu(m)!ConstructedOnce

\* Flushes reach what they are about, nothing written gets lost, and what is
\* reached past the data cache is not in it.
CachesRight == part = "caches" => /\ Lines!TypeOK /\ Lines!NeverCached
                                  /\ Lines!DirtyIsCached /\ Lines!FlushReaches

\* Whoever interrupts mcount, every arc is found ever after, in memory of its
\* own, and samples fall into the histogram.
ProfilesRight == part = "profile" =>
  /\ Profiler!TypeOK /\ Profiler!Recorded /\ Profiler!RecordsApart
  /\ Profiler!SamplesInHistogram

\* The start-up gets to main, main's return to the last loop, and no function
\* is held up by being profiled.
AllGoesOn == /\ part = "board" => Cpu("board")!GetsToMain /\ Cpu("board")!ComesToRest
             /\ part = "profile" => Profiler!McountReturns
=============================================================================
