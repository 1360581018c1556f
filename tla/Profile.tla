-------------------------------- MODULE Profile --------------------------------
(***************************************************************************)
(* The profiler: mcount (alt_mcount.S), which every function compiled with *)
(* -pg calls first, and __mcount_record and the sampler of alt_gmon.c.     *)
(* Interrupt handlers are profiled too and run over the program at any     *)
(* point.  Memory for the records comes from sbrk in slabs; an address     *)
(* counts records.  An arc is the function called and where it was called  *)
(* from.  The block of the histogram is left out of the heap.              *)
(***************************************************************************)
EXTENDS Integers, Sequences, FiniteSets

CONSTANTS Self, From,       \* places in functions called, and in callers
          hash,             \* [Self -> buckets]
          SLAB_INCREMENT,   \* records in a slab
          heap_limit,       \* records that fit the heap
          s_high_pc,        \* of the text section, which begins at 0
          BYTES_PER_BUCKET, \* of the histogram
          MaxCalls          \* calls observed, of each of the two

ProfileAssumption ==
  /\ SLAB_INCREMENT \in Nat /\ SLAB_INCREMENT > 1 /\ heap_limit \in Nat
  /\ s_high_pc \in Nat /\ BYTES_PER_BUCKET \in Nat \ {0} /\ MaxCalls \in Nat
\* The heap holds two records for every call, and a slab more; the text section
\* ends with a bucket.
Roomy == /\ 4 * MaxCalls + SLAB_INCREMENT <= heap_limit
         /\ s_high_pc % BYTES_PER_BUCKET = 0

Context == {"program", "handler"}
Arc == Self \X From
Bucket == {hash[s] : s \in Self}
Nobody == 0     \* a null pointer; records count from 1

VARIABLES
  chain,     \* per bucket, the function entries: the newest last
  call,      \* per context, the call of mcount under way
  slab,      \* mcount_slab_ptr and mcount_slab_size
  heap_end,  \* what sbrk has given away
  need_init, \* pcsample_need_init
  ticking,   \* whether alt_ticks_per_second() is not 0
  started,   \* how often the sampler has been started
  bucket,    \* of the histogram, last incremented, or -1
  calls      \* per context, the calls of mcount that are over

vars == <<chain, call, slab, heap_end, need_init, ticking, started, bucket, calls>>
memory == <<chain, slab, heap_end>>
sampler == <<need_init, ticking, started, bucket>>

Idle == [at |-> "idle"]
Init == /\ chain = [b \in Bucket |-> <<>>]
        /\ call = [c \in Context |-> Idle]
        /\ slab = [ptr |-> 0, size |-> 0] /\ heap_end = 0
        /\ need_init = TRUE /\ ticking = FALSE /\ started = 0 /\ bucket = -1
        /\ calls = [c \in Context |-> <<>>]

\* The program stands still while a handler is at work.
Runs(c) == c = "handler" \/ call["handler"] = Idle
At(c, l) == call[c].at = l /\ Runs(c)
Goto(c, record) == call' = [call EXCEPT ![c] = record]

Call(c, arc) ==
  /\ At(c, "idle") /\ Len(calls[c]) < MaxCalls
  /\ Goto(c, [at |-> "function", arc |-> arc])
  /\ UNCHANGED <<memory, sampler, calls>>

\* The walks start at the newest entry, and what they pass does not change.
Newest(found) == IF found = {} THEN Nobody
                 ELSE CHOOSE i \in found : \A j \in found : j <= i
Chain(c) == chain[hash[call[c].arc[1]]]
Entries(c) == {i \in 1 .. Len(Chain(c)) : Chain(c)[i].self_pc = call[c].arc[1]}
FindFunction(c) ==
  /\ At(c, "function")
  /\ LET fn == Newest(Entries(c))
     IN  Goto(c, [at |-> IF fn = Nobody THEN "record" ELSE "arc",
                  arc |-> call[c].arc, fn |-> fn])
  /\ UNCHANGED <<memory, sampler, calls>>
Arcs(c) == Chain(c)[call[c].fn].arcs
FindArc(c) ==
  /\ At(c, "arc")
  /\ LET arc == Newest({i \in 1 .. Len(Arcs(c)) :
                          Arcs(c)[i].from_pc = call[c].arc[2]})
     IN  Goto(c, IF arc = Nobody
                 THEN [at |-> "record", arc |-> call[c].arc, fn |-> call[c].fn]
                 ELSE [at |-> "add", arc |-> call[c].arc, fn |-> call[c].fn,
                       found |-> arc, r2 |-> Arcs(c)[arc].count])
  /\ UNCHANGED <<memory, sampler, calls>>

\* .Lfound_arc: the count has been read, and is written back one higher.
Over(c) == /\ Goto(c, Idle)
           /\ calls' = [calls EXCEPT ![c] = Append(@, call[c].arc)]
Add(c) ==
  /\ At(c, "add")
  /\ chain' = [chain EXCEPT
       ![hash[call[c].arc[1]]][call[c].fn].arcs[call[c].found].count = call[c].r2 + 1]
  /\ Over(c)
  /\ UNCHANGED <<slab, heap_end, sampler>>

\* __mcount_record: the sampler is started if it can be.
Test(c) ==
  /\ At(c, "record")
  /\ Goto(c, [call[c] EXCEPT !.at = IF need_init THEN "clear" ELSE "insert"])
  /\ UNCHANGED <<memory, sampler, calls>>
Clear(c) ==
  /\ At(c, "clear")
  /\ need_init' = FALSE
  /\ Goto(c, [call[c] EXCEPT !.at = "init"])
  /\ UNCHANGED <<memory, ticking, started, bucket, calls>>
PcsampleInitWaits(c) ==
  /\ At(c, "init")
  /\ need_init' = ~ ticking
  /\ started' = IF ticking THEN started + 1 ELSE started
  /\ Goto(c, [call[c] EXCEPT !.at = IF ticking THEN "insert" ELSE "init"])
  /\ UNCHANGED <<memory, ticking, bucket, calls>>
PcsampleInit(c) ==
  /\ At(c, "init")
  /\ need_init' = ~ ticking
  /\ started' = IF ticking THEN started + 1 ELSE started
  /\ Goto(c, [call[c] EXCEPT !.at = "insert"])
  /\ UNCHANGED <<memory, ticking, bucket, calls>>

\* mcount_allocate of n records one by one; sbrk answers -1 when it refuses.
sbrk(end) == IF end + SLAB_INCREMENT > heap_limit THEN -1 ELSE end
AllocatedUnchecked(s, end) ==
  IF s.ptr > 0 THEN [ptr |-> s.ptr + 1, size |-> s.size - 1, end |-> end]
  ELSE [ptr |-> sbrk(end) + 1, size |-> SLAB_INCREMENT - 1,
        end |-> IF sbrk(end) = -1 THEN end ELSE end + SLAB_INCREMENT]
Allocated(s, end) ==
  IF s.size >= 1 THEN [ptr |-> s.ptr + 1, size |-> s.size - 1, end |-> end]
  ELSE [ptr |-> sbrk(end) + 1, size |-> SLAB_INCREMENT - 1,
        end |-> IF sbrk(end) = -1 THEN end ELSE end + SLAB_INCREMENT]
\* With interrupts off: the records are taken and linked in.
Insert(c) ==
  LET arc == call[c].arc
      h == hash[arc[1]]
      new == call[c].fn = Nobody
      first == IF new THEN Allocated(slab, heap_end)
               ELSE [ptr |-> slab.ptr, size |-> slab.size, end |-> heap_end]
      second == Allocated(first, first.end)
      counted == [from_pc |-> arc[2], count |-> 1, lies |-> second.ptr - 1]
  IN  /\ At(c, "insert")
      /\ chain' = IF new
           THEN [chain EXCEPT ![h] =
                   Append(@, [self_pc |-> arc[1], arcs |-> <<counted>>,
                              lies |-> first.ptr - 1])]
           ELSE [chain EXCEPT ![h][call[c].fn].arcs = Append(@, counted)]
      /\ slab' = [ptr |-> second.ptr, size |-> second.size]
      /\ heap_end' = second.end
      /\ Over(c)
      /\ UNCHANGED sampler

\* The timer is initialised; a sample of the program counter is taken.
TimerStarts == ~ ticking /\ ticking' = TRUE
               /\ UNCHANGED <<memory, call, need_init, started, bucket, calls>>
Sample(pc) ==
  /\ started > 0 /\ pc < s_high_pc
  /\ bucket' = pc \div BYTES_PER_BUCKET
  /\ UNCHANGED <<memory, call, need_init, ticking, started, calls>>

Mcount(c) == \/ FindFunction(c) \/ FindArc(c) \/ Add(c) \/ Test(c)
             \/ Clear(c) \/ PcsampleInit(c) \/ Insert(c)
Next == \/ \E c \in Context : Mcount(c) \/ \E a \in Arc : Call(c, a)
        \/ TimerStarts
        \/ \E pc \in 0 .. s_high_pc : Sample(pc)
Spec == Init /\ [][Next]_vars
FairSpec == Spec /\ \A c \in Context : WF_vars(Mcount(c))
-----------------------------------------------------------------------------
Functions == UNION {{<<b, i>> : i \in 1 .. Len(chain[b])} : b \in Bucket}
Entry(f) == chain[f[1]][f[2]]
Copies(arc) == UNION {{<<f, i>> : i \in {j \in 1 .. Len(Entry(f).arcs) :
                                          Entry(f).arcs[j].from_pc = arc[2]}} :
                       f \in {g \in Functions : Entry(g).self_pc = arc[1]}}
\* What the copies of an arc count together, one by one, and how often it was
\* called.
Counted(arc) == UNION {{<<copy, n>> : n \in 1 .. Entry(copy[1]).arcs[copy[2]].count} :
                         copy \in Copies(arc)}
TimesOver(arc) ==
  Cardinality({i \in 1 .. Len(calls["program"]) : calls["program"][i] = arc})
    + Cardinality({i \in 1 .. Len(calls["handler"]) : calls["handler"][i] = arc})

TypeOK == /\ \A c \in Context : call[c].at \in
               {"idle", "function", "arc", "add", "record", "clear", "init", "insert"}
          /\ slab.size \in 0 .. SLAB_INCREMENT /\ heap_end \in 0 .. heap_limit
          /\ need_init \in BOOLEAN /\ ticking \in BOOLEAN

\* Whoever interrupts whom: every arc that was called is found in the graph
\* ever after, where mcount looks for it, and its copies together count no
\* more calls than there were.
Recorded == \A a \in Arc :
  /\ TimesOver(a) > 0 => \E f \in Functions :
       /\ Entry(f).self_pc = a[1] /\ f[1] = hash[a[1]]
       /\ \E i \in DOMAIN Entry(f).arcs : Entry(f).arcs[i].from_pc = a[2]
  /\ Cardinality(Counted(a)) <= TimesOver(a)

\* The records lie in what sbrk granted, no two in one place.  (alt_sbrk.c:80
\* says of sbrk: "Return -1 if it would be exceeded by this sbrk call.")
Records == {<<f, 0>> : f \in Functions} \cup UNION {Copies(a) : a \in Arc}
Lies(r) == IF r[2] = 0 THEN Entry(r[1]).lies ELSE Entry(r[1]).arcs[r[2]].lies
RecordsApart == \A r \in Records :
  /\ Lies(r) \in 0 .. heap_end - 1
  /\ \A q \in Records : Lies(q) = Lies(r) => q = r

\* A call of mcount returns, so that the function it delays goes on.
McountReturns == \A c \in Context : call[c] # Idle ~> call[c] = Idle

\* alt_gmon.c:52 says: "The number of times this arc is executed is recorded
\* in the field count."
CountsTheCalls == \A a \in Arc : Cardinality(Counted(a)) = TimesOver(a)

\* alt_gmon.c:178 says: "there is an edge case which will leave two copies of
\* the same arc on the list (both with count=1)".
TwoCopiesOfOne == \A a \in Arc :
  \A c \in Context : At(c, "insert") /\ call[c].arc = a =>
    \A copy \in Copies(a) : Entry(copy[1]).arcs[copy[2]].count = 1

\* alt_gmon.c:153 says of __mcount_record: "This function might be called at
\* interrupt time so must be able to cope with reentrancy."
StartsSamplerOnce == started <= 1

\* alt_gmon.c:260 says: "If we're within the profilable range then increment
\* the relevant bucket in the histogram".
SamplesInHistogram == bucket < s_high_pc \div BYTES_PER_BUCKET
=============================================================================
