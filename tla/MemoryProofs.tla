---------------------------- MODULE MemoryProofs ----------------------------
(***************************************************************************)
(* What fills and keeps the memory: the heap and the stack keep apart, the *)
(* caches lose nothing and hide nothing, every start finds the program as  *)
(* it was linked, and the profiler's graph holds every call.               *)
(***************************************************************************)
EXTENDS MCMemory, FiniteSetTheorems, SequenceTheorems, WellFoundedInduction,
        TLAPS

(***************************************************************************)
(* The heap and the stack keep apart, for every memory and every sequence  *)
(* of requests, as long as each request is a multiple of the word: then    *)
(* the limit the compiled code checks is the end of the heap at all times. *)
(* Requests of other sizes part the two.                                   *)
(***************************************************************************)
Words == \A n \in Requests : n % 4 = 0

\* The end of the heap is aligned, so that sbrk finds the limit where it left
\* it: this is what Apart needs to be inductive.
LimitIsHeapEnd == ~ overflow => et = heap_end /\ heap_end <= sp
IInv == /\ TypeOK
        /\ heap_end % 4 = 0
        /\ LimitIsHeapEnd
        /\ ReportsOnlyCollisions

\* An aligned address stays where it is.
LEMMA AlignedStays == ASSUME NEW a \in Int, a % 4 = 0
                      PROVE  Aligned(a) = a
BY DEF Aligned

\* sbrk keeps the limit at the end of the heap, or reports.
LEMMA SbrkKeeps == ASSUME Words, IInv, NEW incr \in Requests, Sbrk(incr)
                   PROVE  IInv'
<1>. incr \in Int /\ incr % 4 = 0 /\ heap_start \in Int /\ heap_limit \in Int
  BY HeapAssumption DEF Words
<1>. heap_end \in Int /\ heap_end % 4 = 0 /\ et \in Int /\ sp \in Int
  BY DEF IInv, TypeOK
<1>1. Aligned(heap_end) = heap_end
  BY AlignedStays
<1>2. CASE Refuse(incr)
  BY <1>1, <1>2 DEF Refuse, IInv, TypeOK, LimitIsHeapEnd, ReportsOnlyCollisions
<1>3. CASE Grant(incr)
  <2>1. (heap_end + incr) % 4 = 0
    OBVIOUS
  <2>2. /\ ~ overflow /\ et = heap_end
        /\ heap_end' = heap_end + incr /\ sp' = sp
        /\ heap_end' \in heap_start .. heap_limit
        /\ overflow' \in BOOLEAN
    BY <1>1, <1>3 DEF Grant, Refused, IInv, LimitIsHeapEnd
  <2>3. CASE sp <= heap_end'
    <3>1. overflow' /\ et' = et
      BY <1>1, <1>3, <2>2, <2>3 DEF Grant
    <3>. QED
      BY <2>1, <2>2, <2>3, <3>1
         DEF IInv, TypeOK, LimitIsHeapEnd, ReportsOnlyCollisions
  <2>4. CASE ~ (sp <= heap_end')
    <3>1. ~ overflow' /\ et' = heap_end'
      BY <1>1, <1>3, <2>2, <2>4 DEF Grant
    <3>. QED
      BY <2>1, <2>2, <2>4, <3>1
         DEF IInv, TypeOK, LimitIsHeapEnd, ReportsOnlyCollisions
  <2>. QED
    BY <2>3, <2>4
<1>. QED
  BY <1>2, <1>3 DEF Sbrk

LEMMA Inductive == ASSUME Words, IInv, [Next]_vars
                   PROVE  IInv'
<1>. USE DEF IInv, TypeOK, LimitIsHeapEnd, ReportsOnlyCollisions
<1>. heap_start \in Int /\ heap_limit \in Int /\ Frames \subseteq Int
  BY HeapAssumption
<1>1. CASE \E n \in Requests : Sbrk(n)
  BY <1>1, SbrkKeeps
<1>2. ASSUME NEW n \in Frames, Enter(n)
      PROVE  IInv'
  <2>1. /\ ~ overflow /\ n \in Int /\ n > 0
        /\ sp' = sp - n /\ heap_end' = heap_end /\ et' = et
        /\ overflow' \in BOOLEAN
    BY <1>2, HeapAssumption DEF Enter
  <2>2. CASE sp' < et
    <3>1. overflow' = TRUE
      BY <1>2, <2>2 DEF Enter
    <3>. QED
      BY <2>1, <2>2, <3>1
  <2>3. CASE ~ (sp' < et)
    <3>1. overflow' = FALSE
      BY <1>2, <2>3 DEF Enter
    <3>. QED
      BY <2>1, <2>3, <3>1
  <2>. QED
    BY <2>2, <2>3
<1>3. ASSUME NEW n \in Frames, Leave(n)
      PROVE  IInv'
  BY <1>3, HeapAssumption DEF Leave
<1>4. CASE UNCHANGED vars
  BY <1>4 DEF vars
<1>. QED
  BY <1>1, <1>2, <1>3, <1>4 DEF Next

LEMMA Invariant == ASSUME Words PROVE Spec => []IInv
<1>1. Init => IInv
  <2>. SUFFICES ASSUME Init PROVE IInv
    OBVIOUS
  <2>1. /\ heap_end = heap_start /\ et = heap_start /\ sp = heap_limit
        /\ ~ overflow /\ overflow \in BOOLEAN
    BY DEF Init
  <2>2. /\ heap_start \in Int /\ heap_limit \in Int /\ heap_start < heap_limit
        /\ heap_start % 4 = 0
    BY HeapAssumption
  <2>. QED
    BY <2>1, <2>2 DEF IInv, TypeOK, LimitIsHeapEnd, ReportsOnlyCollisions
<1>2. IInv /\ [Next]_vars => IInv'
  BY Inductive
<1>. QED
  BY <1>1, <1>2, PTL DEF Spec

\* The heap stays in the memory it has (alt_sbrk.c).
THEOREM Typed == ASSUME Words PROVE Spec => []TypeOK
<1>1. IInv => TypeOK
  BY DEF IInv
<1>. QED
  BY <1>1, Invariant, PTL

\* The heap and the stack never overlap without the overflow having been
\* reported, whatever functions are called between calls of sbrk.
THEOREM NeverOverlap == ASSUME Words PROVE Spec => []Apart
<1>1. IInv => Apart
  BY DEF IInv, LimitIsHeapEnd, Apart
<1>. QED
  BY <1>1, Invariant, PTL

\* No overflow is reported while there is room.
THEOREM NoFalseAlarm == ASSUME Words PROVE Spec => []ReportsOnlyCollisions
<1>1. IInv => ReportsOnlyCollisions
  BY DEF IInv
<1>. QED
  BY <1>1, Invariant, PTL

-----------------------------------------------------------------------------
(* Numbers *)

\* Products, and the order of products.
LEMMA NatTimes == ASSUME NEW a \in Nat, NEW b \in Nat
                  PROVE  a * b \in Nat
OBVIOUS
LEMMA TimesMono == ASSUME NEW a \in Int, NEW b \in Int, NEW c \in Nat, a <= b
                   PROVE  c * a <= c * b
<1>1. c * (b - a) >= 0
  OBVIOUS
<1>2. c * (b - a) = c * b - c * a
  OBVIOUS
<1>. QED
  BY <1>1, <1>2

\* Quotient and remainder, and that they are the only ones.
LEMMA Divides == ASSUME NEW n \in Int, NEW d \in Nat \ {0}
                 PROVE  /\ n \div d \in Int /\ n % d \in 0 .. d - 1
                        /\ n = d * (n \div d) + (n % d)
OBVIOUS

\* They are the only ones.
LEMMA Quotient == ASSUME NEW d \in Nat \ {0}, NEW q \in Int,
                         NEW r \in 0 .. d - 1
                  PROVE  (d * q + r) \div d = q /\ (d * q + r) % d = r
<1>. DEFINE n == d * q + r
            p == n \div d
            s == n % d
<1>1. n \in Int
  OBVIOUS
<1>. HIDE DEF n
<1>2. p \in Int /\ s \in 0 .. d - 1 /\ n = d * p + s
  BY <1>1, Divides
<1>. HIDE DEF p, s
<1>3. p = q
  <2>1. CASE p < q
    <3>1. d * (p + 1) <= d * q
      BY <1>2, <2>1, TimesMono
    <3>2. d * (p + 1) = d * p + d
      BY <1>2
    <3>3. d * p \in Int /\ d * q \in Int
      BY <1>2
    <3>. QED
      BY <1>2, <3>1, <3>2, <3>3 DEF n
  <2>2. CASE q < p
    <3>1. d * (q + 1) <= d * p
      BY <1>2, <2>2, TimesMono
    <3>2. d * (q + 1) = d * q + d
      OBVIOUS
    <3>3. d * p \in Int /\ d * q \in Int
      BY <1>2
    <3>. QED
      BY <1>2, <3>1, <3>2, <3>3 DEF n
  <2>. QED
    BY <1>2, <2>1, <2>2
<1>4. s = r
  <2>1. d * q \in Int
    OBVIOUS
  <2>. QED
    BY <1>2, <1>3, <2>1 DEF n
<1>. QED
  BY <1>3, <1>4 DEF p, s, n

-----------------------------------------------------------------------------
(* The caches (alt_cache.c and its neighbours) *)

\* What is assumed of the caches.
LEMMA CacheSet ==
  /\ Line \in Nat \ {0} /\ Word \in Nat \ {0} /\ Line % Word = 0
  /\ DLines \in Nat \ {0} /\ ILines \in Nat \ {0}
  /\ Bytes \in Nat /\ Bytes % Line = 0 /\ Lengths \subseteq Nat
BY CachesAssumption DEF Lines!CachesAssumption

\* Which addresses are in a block, and which blocks there are.
LEMMA InBlockIs ==
  ASSUME NEW a \in Int
  PROVE  /\ Lines!Block(a) \in Int
         /\ \A b \in Int : a \in Lines!InBlock(b) <=> Lines!Block(a) = b
<1>. DEFINE q == a \div Line
            r == a % Line
<1>1. q \in Int /\ r \in 0 .. Line - 1 /\ a = Line * q + r
  BY CacheSet, Divides
<1>2. ASSUME NEW b \in Int PROVE a \in Lines!InBlock(b) <=> q = b
  <2>1. b * Line = Line * b /\ Line * b \in Int
    BY CacheSet
  <2>2. ASSUME q = b PROVE a \in Lines!InBlock(b)
    <3>1. a = Line * b + r
      BY <1>1, <2>2
    <3>. HIDE DEF r
    <3>. QED
      BY <1>1, <2>1, <3>1, CacheSet DEF Lines!InBlock
  <2>3. ASSUME a \in Lines!InBlock(b) PROVE q = b
    <3>. DEFINE s == a - Line * b
    <3>1. s \in 0 .. Line - 1 /\ a = Line * b + s
      BY <2>1, <2>3, CacheSet DEF Lines!InBlock
    <3>. HIDE DEF s
    <3>2. (Line * b + s) \div Line = b
      BY <3>1, CacheSet, Quotient
    <3>. QED
      BY <3>1, <3>2
  <2>. QED
    BY <2>2, <2>3
<1>. QED
  BY <1>1, <1>2 DEF Lines!Block

\* As many lines on, the block is as many on.
LEMMA BlockOf ==
  ASSUME NEW a \in Int, NEW k \in Int
  PROVE  a + k * Line \in Int /\ Lines!Block(a + k * Line) = Lines!Block(a) + k
<1>. DEFINE q == a \div Line
            r == a % Line
<1>1. q \in Int /\ r \in 0 .. Line - 1 /\ a = Line * q + r
  BY CacheSet, Divides
<1>. HIDE DEF q, r
<1>2. k * Line \in Int /\ a + k * Line = Line * (q + k) + r
  <2>1. Line * (q + k) = Line * q + k * Line /\ k * Line \in Int /\ Line * q \in Int
    BY <1>1, CacheSet
  <2>. QED
    BY <1>1, <2>1
<1>3. (Line * (q + k) + r) \div Line = q + k
  BY <1>1, CacheSet, Quotient
<1>4. (a + k * Line) \div Line = q + k
  BY <1>2, <1>3, Zenon
<1>5. q = Lines!Block(a)
  BY DEF q, Lines!Block
<1>. QED
  BY <1>2, <1>4, <1>5 DEF Lines!Block

\* The blocks of memory.
LEMMA BlockRange == ASSUME NEW a \in Lines!Address
                    PROVE  Lines!Block(a) \in 0 .. Bytes \div Line - 1
<1>. DEFINE q == a \div Line
            r == a % Line
            m == Bytes \div Line
<1>1. a \in Int /\ a >= 0 /\ a < Bytes
  BY CacheSet DEF Lines!Address
<1>2. q \in Int /\ r \in 0 .. Line - 1 /\ a = Line * q + r
  BY <1>1, CacheSet, Divides
<1>3. m \in Int /\ Bytes = Line * m
  <2>1. m \in Int /\ Bytes = Line * m + (Bytes % Line) /\ Bytes % Line = 0
    BY CacheSet, Divides
  <2>2. Line * m \in Int
    BY <2>1, CacheSet
  <2>. QED
    BY <2>1, <2>2
<1>. HIDE DEF q, r, m
<1>4. q >= 0
  <2>1. CASE q <= -1
    <3>1. Line * q <= Line * (-1) /\ Line * q \in Int
      BY <1>2, <2>1, CacheSet, TimesMono
    <3>. QED
      BY <1>1, <1>2, <3>1, CacheSet
  <2>. QED
    BY <1>2, <2>1
<1>5. q <= m - 1
  <2>1. CASE m <= q
    <3>1. Line * m <= Line * q /\ Line * q \in Int /\ Line * m \in Int
      BY <1>2, <1>3, <2>1, CacheSet, TimesMono
    <3>. QED
      BY <1>1, <1>2, <1>3, <3>1
  <2>. QED
    BY <1>2, <1>3, <2>1
<1>. QED
  BY <1>2, <1>3, <1>4, <1>5 DEF Lines!Block, q, m

\* The turns of a flush's loop: from none to the last.
LEMMA TurnsAre ==
  ASSUME NEW n \in Nat, n > 0
  PROVE  \E k \in 0 .. n - 1 :
           /\ \A l \in Int : l \in Lines!Turns(n) <=> l \in 0 .. k
           /\ Lines!Past(n) = (k + 1) * Line
           /\ k * Line < n /\ n <= (k + 1) * Line
<1>. DEFINE k == (n - 1) \div Line
            r == (n - 1) % Line
<1>1. k \in Int /\ r \in 0 .. Line - 1 /\ n - 1 = Line * k + r
  BY CacheSet, Divides
<1>. HIDE DEF k, r
<1>2. k >= 0
  <2>1. CASE k <= -1
    <3>1. Line * k <= Line * (-1) /\ Line * k \in Int
      BY <1>1, <2>1, CacheSet, TimesMono
    <3>. QED
      BY <1>1, <3>1, CacheSet
  <2>. QED
    BY <1>1, <2>1
<1>3. k <= Line * k
  <2>1. k * 1 <= k * Line /\ k * Line = Line * k /\ k * 1 = k
    BY <1>1, <1>2, CacheSet, TimesMono
  <2>. QED
    BY <2>1
<1>4. k \in 0 .. n - 1
  <2>1. Line * k \in Int
    BY <1>1, CacheSet
  <2>. QED
    BY <1>1, <1>2, <1>3, <2>1
<1>5. ASSUME NEW l \in Int PROVE l \in Lines!Turns(n) <=> l \in 0 .. k
  <2>1. l * Line = Line * l /\ Line * l \in Int /\ Line * k \in Int
    BY <1>1, CacheSet
  <2>2. CASE l <= k
    <3>1. Line * l <= Line * k
      BY <1>1, <2>2, CacheSet, TimesMono
    <3>2. l * Line < n
      BY <1>1, <2>1, <3>1
    <3>. QED
      BY <1>1, <1>4, <2>2, <3>2 DEF Lines!Turns
  <2>3. CASE l > k
    <3>1. Line * (k + 1) <= Line * l /\ Line * (k + 1) = Line * k + Line
      BY <1>1, <2>3, CacheSet, TimesMono
    <3>2. ~ (l * Line < n)
      BY <1>1, <2>1, <3>1, CacheSet
    <3>. QED
      BY <1>1, <2>3, <3>2 DEF Lines!Turns
  <2>. QED
    BY <1>1, <2>2, <2>3
<1>6. (CHOOSE i \in Lines!Turns(n) : \A l \in Lines!Turns(n) : l <= i) = k
  <2>1. \A i \in Lines!Turns(n) : i \in Int
    BY DEF Lines!Turns
  <2>2. k \in Lines!Turns(n) /\ \A l \in Lines!Turns(n) : l <= k
    BY <1>1, <1>2, <1>5, <2>1
  <2>3. \A i \in Lines!Turns(n) : (\A l \in Lines!Turns(n) : l <= i) => i = k
    BY <1>1, <2>1, <2>2
  <2>. QED
    BY <2>2, <2>3
<1>7. Lines!Past(n) = Line * (1 + k) /\ Lines!Turns(n) # {}
  <2>1. Lines!Turns(n) # {}
    BY <1>1, <1>2, <1>5
  <2>. QED
    BY <1>6, <2>1 DEF Lines!Past
<1>8. /\ Lines!Past(n) = (k + 1) * Line
      /\ k * Line < n /\ n <= (k + 1) * Line
  <2>1. /\ Line * (1 + k) = Line * k + Line /\ (k + 1) * Line = Line * k + Line
        /\ k * Line = Line * k /\ Line * k \in Int
    BY <1>1, CacheSet
  <2>. QED
    BY <1>1, <1>7, <2>1, CacheSet
<1>. QED
  BY <1>4, <1>5, <1>8

\* An address lies a whole number of lines after another one and less than a
\* line.
LEMMA LinesAfter ==
  ASSUME NEW a \in Int, NEW x \in Int, a <= x
  PROVE  \E j \in Nat :
           /\ j * Line <= x - a /\ j * Line \in Int
           /\ \/ Lines!Block(x) = Lines!Block(a) + j
              \/ Lines!Block(x) = Lines!Block(a) + j + 1 /\ a % Line # 0
<1>. DEFINE j == (x - a) \div Line
            s == (x - a) % Line
            q == a \div Line
            r == a % Line
<1>0. x - a \in Int /\ Line \in Nat \ {0}
  BY CacheSet
<1>1. /\ j \in Int /\ s \in 0 .. Line - 1 /\ x - a = Line * j + s
      /\ q \in Int /\ r \in 0 .. Line - 1 /\ a = Line * q + r
  <2>1. j \in Int /\ s \in 0 .. Line - 1 /\ x - a = Line * j + s
    BY <1>0, Divides
  <2>2. q \in Int /\ r \in 0 .. Line - 1 /\ a = Line * q + r
    BY <1>0, Divides
  <2>. HIDE DEF j, s, q, r
  <2>. QED
    BY <2>1, <2>2
<1>2. q = Lines!Block(a)
  BY DEF Lines!Block
<1>3. r = a % Line
  OBVIOUS
<1>. HIDE DEF j, s, q, r
<1>4. j >= 0
  <2>1. CASE j <= -1
    <3>1. Line * j <= Line * (-1) /\ Line * j \in Int
      BY <1>1, <2>1, CacheSet, TimesMono
    <3>. QED
      BY <1>1, <3>1, CacheSet
  <2>. QED
    BY <1>1, <2>1
<1>5. /\ Line * j \in Int /\ Line * q \in Int /\ j * Line = Line * j
      /\ Line * (q + j) = Line * q + Line * j
      /\ Line * (q + j + 1) = Line * q + Line * j + Line
  BY <1>1, CacheSet
<1>6. CASE r + s < Line
  <2>1. x = Line * (q + j) + (r + s) /\ r + s \in 0 .. Line - 1
    BY <1>1, <1>5, <1>6, CacheSet
  <2>2. x \div Line = q + j
    BY <1>1, <2>1, CacheSet, Quotient
  <2>. QED
    BY <1>1, <1>2, <1>4, <1>5, <2>2 DEF Lines!Block
<1>7. CASE r + s >= Line
  <2>1. /\ x = Line * (q + j + 1) + (r + s - Line)
        /\ r + s - Line \in 0 .. Line - 1 /\ r # 0
    BY <1>1, <1>5, <1>7, CacheSet
  <2>2. x \div Line = q + j + 1
    BY <1>1, <2>1, CacheSet, Quotient
  <2>. QED
    BY <1>1, <1>2, <1>3, <1>4, <1>5, <2>1, <2>2 DEF Lines!Block
<1>. QED
  BY <1>1, <1>6, <1>7, CacheSet

\* A flush comes past every line the region is in.
LEMMA FlushesAll ==
  ASSUME NEW a \in Int, NEW n \in Nat, NEW x \in Lines!Region(a, n)
  PROVE  \E y \in Lines!Flushes(a, n) :
           y \in Int /\ Lines!Block(y) = Lines!Block(x)
<1>1. x \in Int /\ a <= x /\ x <= a + n - 1 /\ n > 0
  BY DEF Lines!Region
<1>2. PICK k \in 0 .. n - 1 :
         /\ \A l \in Int : l \in Lines!Turns(n) <=> l \in 0 .. k
         /\ Lines!Past(n) = (k + 1) * Line
         /\ k * Line < n /\ n <= (k + 1) * Line
  BY <1>1, TurnsAre
<1>3. PICK j \in Nat :
         /\ j * Line <= x - a /\ j * Line \in Int
         /\ \/ Lines!Block(x) = Lines!Block(a) + j
            \/ Lines!Block(x) = Lines!Block(a) + j + 1 /\ a % Line # 0
  BY <1>1, LinesAfter
<1>4. j <= k
  <2>1. CASE k + 1 <= j
    <3>1. /\ Line * (k + 1) <= Line * j /\ Line * (k + 1) = (k + 1) * Line
          /\ Line * j = j * Line /\ (k + 1) * Line \in Int
      BY <1>3, <2>1, CacheSet, TimesMono
    <3>. QED
      BY <1>1, <1>2, <1>3, <3>1
  <2>. QED
    BY <2>1
<1>5. \A l \in 0 .. k : /\ a + l * Line \in Lines!Flushes(a, n)
                        /\ a + l * Line \in Int
                        /\ Lines!Block(a + l * Line) = Lines!Block(a) + l
  <2>. SUFFICES ASSUME NEW l \in 0 .. k
                PROVE  /\ a + l * Line \in Lines!Flushes(a, n)
                       /\ a + l * Line \in Int
                       /\ Lines!Block(a + l * Line) = Lines!Block(a) + l
    OBVIOUS
  <2>1. l \in Int /\ l \in Lines!Turns(n)
    BY <1>2
  <2>2. a + l * Line \in Lines!Flushes(a, n)
    BY <2>1 DEF Lines!Flushes
  <2>. QED
    BY <2>1, <2>2, BlockOf
<1>6. CASE Lines!Block(x) = Lines!Block(a) + j
  BY <1>3, <1>4, <1>5, <1>6
<1>7. CASE Lines!Block(x) = Lines!Block(a) + j + 1 /\ a % Line # 0 /\ j < k
  <2>1. j + 1 \in 0 .. k /\ Lines!Block(a) \in Int
    BY <1>3, <1>7, InBlockIs
  <2>2. Lines!Block(a) + (j + 1) = Lines!Block(a) + j + 1
    BY <2>1
  <2>. QED
    BY <1>5, <1>7, <2>1, <2>2
<1>8. CASE Lines!Block(x) = Lines!Block(a) + j + 1 /\ a % Line # 0 /\ j = k
  <2>1. a + Lines!Past(n) \in Lines!Flushes(a, n)
    BY <1>8 DEF Lines!Flushes
  <2>2. /\ a + (k + 1) * Line \in Int
        /\ Lines!Block(a + (k + 1) * Line) = Lines!Block(a) + (k + 1)
    <3>1. k + 1 \in Int
      OBVIOUS
    <3>. QED
      BY <3>1, BlockOf
  <2>3. Lines!Block(a) + (k + 1) = Lines!Block(a) + k + 1
    BY InBlockIs
  <2>. QED
    BY <1>2, <1>8, <2>1, <2>2, <2>3
<1>. QED
  BY <1>3, <1>4, <1>6, <1>7, <1>8

\* Where it comes past is an address.
LEMMA FlushesAre ==
  ASSUME NEW a \in Int, NEW n \in Nat
  PROVE  /\ \A y \in Lines!Flushes(a, n) : y \in Int
         /\ n > 0 => a \in Lines!Flushes(a, n)
<1>1. \A k \in Lines!Turns(n) : k \in Int
  BY DEF Lines!Turns
<1>2. Lines!Past(n) \in Int
  <2>1. CASE n = 0
    <3>1. \A k \in Lines!Turns(n) : FALSE
      BY <2>1, CacheSet DEF Lines!Turns
    <3>. QED
      BY <3>1 DEF Lines!Past
  <2>2. CASE n > 0
    <3>1. PICK k \in 0 .. n - 1 : Lines!Past(n) = (k + 1) * Line
      BY <2>2, TurnsAre
    <3>. QED
      BY <3>1, CacheSet
  <2>. QED
    BY <2>1, <2>2
<1>3. n > 0 => 0 \in Lines!Turns(n) /\ a + 0 * Line = a
  BY CacheSet DEF Lines!Turns
<1>4. \A k \in Lines!Turns(n) : a + k * Line \in Int
  BY <1>1, CacheSet
<1>5. ASSUME NEW y \in Lines!Flushes(a, n) PROVE y \in Int
  <2>1. (\E k \in Lines!Turns(n) : y = a + k * Line) \/ y = a + Lines!Past(n)
    BY DEF Lines!Flushes
  <2>. QED
    BY <1>2, <1>4, <2>1
<1>6. ASSUME n > 0 PROVE a \in Lines!Flushes(a, n)
  <2>1. a + 0 * Line \in Lines!Flushes(a, n)
    BY <1>3, <1>6 DEF Lines!Flushes
  <2>. QED
    BY <1>3, <1>6, <2>1
<1>. QED
  BY <1>5, <1>6

\* A flush as long as the instruction cache comes past all of it.
LEMMA FlushesCache ==
  ASSUME NEW a \in Int, NEW m \in 0 .. ILines - 1
  PROVE  /\ Lines!ISize \in Nat
         /\ \E y \in Lines!Flushes(a, Lines!ISize) : Lines!Block(y) % ILines = m
<1>. DEFINE B == Lines!Block(a)
            p == (m - B) \div ILines
            t == (m - B) % ILines
<1>1. B \in Int
  BY InBlockIs
<1>. HIDE DEF B
<1>2. p \in Int /\ t \in 0 .. ILines - 1 /\ m - B = ILines * p + t
  <2>1. m - B \in Int /\ ILines \in Nat \ {0}
    BY <1>1, CacheSet
  <2>. QED
    BY <2>1, Divides
<1>. HIDE DEF p, t
<1>3. (B + t) % ILines = m
  <2>1. ILines * (- p) = - (ILines * p) /\ ILines * p \in Int /\ - p \in Int
    BY <1>2, CacheSet
  <2>2. B + t = ILines * (- p) + m
    BY <1>1, <1>2, <2>1
  <2>3. (ILines * (- p) + m) % ILines = m
    BY <2>1, CacheSet, Quotient
  <2>. QED
    BY <2>2, <2>3
<1>4. Lines!ISize \in Nat
  BY CacheSet, NatTimes DEF Lines!ISize
<1>5. a + t * Line \in Lines!Region(a, Lines!ISize)
      /\ Lines!Block(a + t * Line) = B + t
  <2>1. Line * t <= Line * (ILines - 1)
    BY <1>2, CacheSet, TimesMono
  <2>2. /\ Line * (ILines - 1) = ILines * Line - Line /\ ILines * Line \in Int
        /\ t * Line = Line * t /\ t * Line \in Nat
    BY <1>2, CacheSet, NatTimes
  <2>3. a + t * Line \in Lines!Region(a, Lines!ISize)
    BY <2>1, <2>2, CacheSet DEF Lines!Region, Lines!ISize
  <2>. QED
    BY <1>2, <2>3, BlockOf DEF B
<1>. QED
  BY <1>3, <1>4, <1>5, FlushesAll

-----------------------------------------------------------------------------
\* Each block is in the line it belongs in, and what is uncached is whole
\* lines: a line that is drawn in for its neighbour would else hold some of it.
CacheInv ==
  /\ Lines!TypeOK /\ Lines!NeverCached /\ Lines!DirtyIsCached
  /\ \A n \in 0 .. DLines - 1 : d_lines[n] # Lines!None => d_lines[n] % DLines = n
  /\ \A n \in 0 .. ILines - 1 : i_lines[n] # Lines!None => i_lines[n] % ILines = n
  /\ \A p \in DOMAIN uncached :
       p % Line = 0 /\ uncached[p] \in Nat /\ uncached[p] % Line = 0

CachesInvariant == part = "caches" => CacheInv

Blocks == 0 .. Bytes \div Line - 1
DLine == 0 .. DLines - 1
ILine == 0 .. ILines - 1

\* Where a block belongs, in either cache.
LEMMA Slots == /\ \A b \in Int : b % DLines \in DLine /\ b % ILines \in ILine
               /\ Blocks \subseteq Int /\ Lines!None \in Int /\ Lines!None \notin Blocks
               /\ Lines!Address \subseteq Int /\ DLine \subseteq Int /\ ILine \subseteq Int
<1>1. ASSUME NEW b \in Int PROVE b % DLines \in DLine /\ b % ILines \in ILine
  BY CacheSet, Divides DEF DLine, ILine
<1>. QED
  BY <1>1 DEF Blocks, Lines!None, Lines!Address, DLine, ILine

\* What the invariant says, for reference.
LEMMA CacheTypes ==
  ASSUME CacheInv
  PROVE  /\ d_lines \in [DLine -> {Lines!None} \cup Blocks]
         /\ i_lines \in [ILine -> {Lines!None} \cup Blocks]
         /\ dirty \subseteq Lines!Address /\ lost \subseteq Lines!Address
         /\ DOMAIN uncached \subseteq Lines!Address
BY DEF CacheInv, Lines!TypeOK, Blocks, DLine, ILine

\* Uncached memory is whole lines.
LEMMA WholeRegion ==
  ASSUME NEW p \in Int, p % Line = 0, NEW n \in Nat, n % Line = 0,
         NEW x \in Lines!Region(p, n), NEW y \in Int,
         Lines!Block(y) = Lines!Block(x)
  PROVE  y \in Lines!Region(p, n)
<1>. DEFINE q == p \div Line
            m == n \div Line
            b == x \div Line
            r == x % Line
            s == y % Line
<1>1. x \in Int /\ p <= x /\ x <= p + n - 1
  BY DEF Lines!Region
<1>2. q \in Int /\ p = Line * q
  <2>1. q \in Int /\ p = Line * q + (p % Line)
    BY CacheSet, Divides
  <2>2. Line * q \in Int
    BY <2>1, CacheSet
  <2>. QED
    BY <2>1, <2>2
<1>3. m \in Int /\ n = Line * m
  <2>1. m \in Int /\ n = Line * m + (n % Line)
    BY CacheSet, Divides
  <2>2. Line * m \in Int
    BY <2>1, CacheSet
  <2>. QED
    BY <2>1, <2>2
<1>4. b \in Int /\ r \in 0 .. Line - 1 /\ x = Line * b + r
  BY <1>1, CacheSet, Divides
<1>5. s \in 0 .. Line - 1 /\ y = Line * b + s
  <2>1. y \div Line = b
    BY DEF Lines!Block
  <2>2. s \in 0 .. Line - 1 /\ y = Line * (y \div Line) + s
    BY CacheSet, Divides
  <2>. QED
    BY <2>1, <2>2
<1>. HIDE DEF q, m, b, r, s
<1>. DEFINE lq == Line * q
            lm == Line * m
            lb == Line * b
            lu == Line * (q + m)
            lv == Line * (b + 1)
<1>6. /\ lq \in Int /\ lm \in Int /\ lb \in Int /\ lu = lq + lm /\ lv = lb + Line
      /\ p = lq /\ n = lm /\ x = lb + r /\ y = lb + s
      /\ Line \in Int /\ Line > 0
  BY <1>2, <1>3, <1>4, <1>5, CacheSet
<1>7. q <= b
  <2>1. CASE b + 1 <= q
    <3>1. lv <= lq
      BY <1>2, <1>4, <2>1, CacheSet, TimesMono
    <3>. HIDE DEF lq, lm, lb, lu, lv
    <3>. QED
      BY <1>1, <1>4, <1>6, <3>1
  <2>. QED
    BY <1>2, <1>4, <2>1
<1>8. b + 1 <= q + m
  <2>1. CASE q + m <= b
    <3>1. lu <= lb
      BY <1>2, <1>3, <1>4, <2>1, CacheSet, TimesMono
    <3>. HIDE DEF lq, lm, lb, lu, lv
    <3>. QED
      BY <1>1, <1>4, <1>6, <3>1
  <2>. QED
    BY <1>2, <1>3, <1>4, <2>1
<1>9. lq <= lb
  BY <1>2, <1>4, <1>7, CacheSet, TimesMono
<1>10. lv <= lu
  BY <1>2, <1>3, <1>4, <1>8, CacheSet, TimesMono
<1>. HIDE DEF lq, lm, lb, lu, lv
<1>11. p <= y /\ y <= p + n - 1
  BY <1>4, <1>5, <1>6, <1>9, <1>10
<1>. QED
  BY <1>11 DEF Lines!Region

\* With one byte of a block all of it is uncached.
LEMMA WholeLines ==
  ASSUME CacheInv, NEW x \in Lines!Uncached, NEW y \in Int,
         Lines!Block(y) = Lines!Block(x)
  PROVE  y \in Lines!Uncached
<1>1. PICK p \in DOMAIN uncached : x \in Lines!Region(p, uncached[p])
  BY DEF Lines!Uncached
<1>2. p \in Int /\ p % Line = 0 /\ uncached[p] \in Nat /\ uncached[p] % Line = 0
  BY CacheTypes, Slots DEF CacheInv
<1>3. y \in Lines!Region(p, uncached[p])
  BY <1>1, <1>2, WholeRegion
<1>. QED
  BY <1>3 DEF Lines!Uncached

LEMMA UncachedInt == ASSUME CacheInv, NEW x \in Lines!Uncached PROVE x \in Int
BY DEF Lines!Uncached, Lines!Region

\* A line is drawn in for what is not uncached.
LEMMA Fills ==
  ASSUME CacheInv, NEW a \in Lines!Address, a \notin Lines!Uncached
  PROVE  LET f == Lines!Filled(a) IN
         /\ f \in [DLine -> {Lines!None} \cup Blocks]
         /\ \A n \in DLine : f[n] # Lines!None =>
              f[n] % DLines = n /\ Lines!InBlock(f[n]) \cap Lines!Uncached = {}
         /\ \A x \in Lines!Kept(a) \cup {a} : f[Lines!Block(x) % DLines] = Lines!Block(x)
         /\ Lines!Kept(a) \subseteq dirty
<1>. DEFINE b == Lines!Block(a)
            f == Lines!Filled(a)
<1>1. b \in Blocks /\ b \in Int /\ b % DLines \in DLine /\ a \in Int
  BY BlockRange, Slots DEF Blocks
<1>2. /\ f \in [DLine -> {Lines!None} \cup Blocks] /\ f[b % DLines] = b
      /\ \A n \in DLine : n # b % DLines => f[n] = d_lines[n]
  BY <1>1, CacheTypes DEF Lines!Filled
<1>3. Lines!InBlock(b) \cap Lines!Uncached = {}
  <2>1. ASSUME NEW x \in Lines!InBlock(b), x \in Lines!Uncached PROVE FALSE
    <3>1. x \in Int
      BY <2>1, UncachedInt
    <3>2. Lines!Block(x) = b
      BY <1>1, <2>1, <3>1, InBlockIs
    <3>. QED
      BY <1>1, <2>1, <3>2, WholeLines
  <2>. QED
    BY <2>1
<1>4. ASSUME NEW n \in DLine, f[n] # Lines!None
      PROVE  f[n] % DLines = n /\ Lines!InBlock(f[n]) \cap Lines!Uncached = {}
  <2>1. CASE n = b % DLines
    BY <1>2, <1>3, <2>1
  <2>2. CASE n # b % DLines
    BY <1>2, <1>4, <2>2 DEF CacheInv, Lines!NeverCached, DLine
  <2>. QED
    BY <2>1, <2>2
<1>5. Lines!Kept(a) \subseteq dirty
  BY DEF Lines!Kept
<1>6. ASSUME NEW x \in Lines!Kept(a) PROVE f[Lines!Block(x) % DLines] = Lines!Block(x)
  <2>1. x \in dirty /\ x \in Int /\ Lines!Block(x) \in Blocks
        /\ d_lines[Lines!Block(x) % DLines] = Lines!Block(x)
    BY <1>5, CacheTypes, BlockRange, Slots DEF CacheInv, Lines!DirtyIsCached, Blocks
  <2>2. Lines!Block(x) % DLines \in DLine /\ Lines!Block(x) # Lines!None
    BY <2>1, Slots
  <2>3. CASE Lines!Block(x) % DLines = b % DLines
    <3>1. d_lines[b % DLines] = Lines!Block(x)
      BY <2>1, <2>3
    <3>2. CASE Lines!Block(x) = b
      BY <1>2, <3>2
    <3>3. CASE Lines!Block(x) # b
      <4>1. x \notin Lines!InBlock(d_lines[b % DLines])
        BY <2>2, <3>1, <3>3 DEF Lines!Kept
      <4>2. x \in Lines!InBlock(Lines!Block(x))
        BY <2>1, InBlockIs
      <4>. QED
        BY <3>1, <4>1, <4>2
    <3>. QED
      BY <3>2, <3>3
  <2>4. CASE Lines!Block(x) % DLines # b % DLines
    BY <1>2, <2>1, <2>2, <2>4
  <2>. QED
    BY <2>3, <2>4
<1>. HIDE DEF b, f
<1>7. \A x \in Lines!Kept(a) \cup {a} : f[Lines!Block(x) % DLines] = Lines!Block(x)
  BY <1>2, <1>6 DEF b
<1>. QED
  BY <1>2, <1>4, <1>5, <1>7 DEF f

\* Lines are forgotten, and what was in them and only there is written back or
\* thrown away.
LEMMA Forgets ==
  ASSUME NEW f \in [DLine -> {Lines!None} \cup Blocks], NEW blocks
  PROVE  LET g == Lines!Without(f, blocks) IN
         /\ g \in [DLine -> {Lines!None} \cup Blocks]
         /\ \A n \in DLine : g[n] # Lines!None => g[n] = f[n] /\ f[n] \notin blocks
         /\ \A x \in Lines!Address \ Lines!BytesOf(blocks) :
              f[Lines!Block(x) % DLines] = Lines!Block(x) =>
                g[Lines!Block(x) % DLines] = Lines!Block(x)
<1>. DEFINE g == Lines!Without(f, blocks)
<1>1. /\ g \in [DLine -> {Lines!None} \cup Blocks]
      /\ \A n \in DLine : g[n] = IF f[n] \in blocks THEN Lines!None ELSE f[n]
  BY DEF Lines!Without, DLine
<1>. HIDE DEF g
<1>2. ASSUME NEW x \in Lines!Address, x \notin Lines!BytesOf(blocks),
             f[Lines!Block(x) % DLines] = Lines!Block(x)
      PROVE  g[Lines!Block(x) % DLines] = Lines!Block(x)
  <2>1. x \in Int /\ Lines!Block(x) \in Int
    BY Slots, InBlockIs
  <2>2. Lines!Block(x) % DLines \in DLine
    BY <2>1, Slots
  <2>3. x \in Lines!InBlock(Lines!Block(x))
    BY <2>1, InBlockIs
  <2>4. Lines!Block(x) \notin blocks
    BY <1>2, <2>3 DEF Lines!BytesOf
  <2>. QED
    BY <1>1, <1>2, <2>2, <2>4
<1>3. \A n \in DLine : g[n] # Lines!None => g[n] = f[n] /\ f[n] \notin blocks
  BY <1>1
<1>. QED
  BY <1>1, <1>2, <1>3 DEF g

-----------------------------------------------------------------------------
\* A step of the data cache's that leaves everything else as it is.
LEMMA DataStep ==
  ASSUME CacheInv, UNCHANGED <<i_lines, uncached>>,
         NEW f \in [DLine -> {Lines!None} \cup Blocks],
         \A n \in DLine : f[n] # Lines!None =>
           f[n] % DLines = n /\ Lines!InBlock(f[n]) \cap Lines!Uncached = {},
         d_lines' = f, dirty' \subseteq Lines!Address, lost' \subseteq Lines!Address,
         \A x \in dirty' : f[Lines!Block(x) % DLines] = Lines!Block(x)
  PROVE  CacheInv'
<1>1. Lines!Uncached' = Lines!Uncached
  BY DEF Lines!Uncached
<1>2. Lines!TypeOK'
  BY DEF CacheInv, Lines!TypeOK, Blocks, DLine
<1>3. Lines!NeverCached'
  BY <1>1 DEF Lines!NeverCached, DLine
<1>4. Lines!DirtyIsCached'
  BY DEF Lines!DirtyIsCached
<1>. QED
  BY <1>2, <1>3, <1>4 DEF CacheInv, DLine

\* What the invariant says of the lines.
LEMMA LinesAre ==
  ASSUME CacheInv
  PROVE  /\ \A n \in DLine : d_lines[n] # Lines!None =>
              d_lines[n] % DLines = n /\ Lines!InBlock(d_lines[n]) \cap Lines!Uncached = {}
         /\ \A x \in dirty : d_lines[Lines!Block(x) % DLines] = Lines!Block(x)
BY DEF CacheInv, Lines!NeverCached, Lines!DirtyIsCached, DLine

\* One lemma per operation: it keeps the invariant.
LEMMA LoadKeeps == ASSUME CacheInv, NEW a \in Lines!Address, Lines!Load(a)
                   PROVE  CacheInv'
<1>1. /\ a \notin Lines!Uncached /\ d_lines' = Lines!Filled(a) /\ dirty' = Lines!Kept(a)
      /\ lost' = {} /\ UNCHANGED <<i_lines, uncached>>
  BY DEF Lines!Load, Lines!Fill
<1>. QED
  BY <1>1, Fills, DataStep, CacheTypes

LEMMA StoreKeeps == ASSUME CacheInv, NEW a \in Lines!Address, Lines!Store(a)
                    PROVE  CacheInv'
<1>1. /\ a \notin Lines!Uncached /\ d_lines' = Lines!Filled(a)
      /\ dirty' = Lines!Kept(a) \cup {a}
      /\ lost' = {} /\ UNCHANGED <<i_lines, uncached>>
  BY DEF Lines!Store, Lines!Fill
<1>. QED
  BY <1>1, Fills, DataStep, CacheTypes

LEMMA FetchKeeps == ASSUME CacheInv, NEW a \in Lines!Address, Lines!Fetch(a)
                    PROVE  CacheInv'
<1>. DEFINE b == Lines!Block(a)
<1>1. b \in Blocks /\ b \in Int /\ b % ILines \in ILine
  BY BlockRange, Slots DEF Blocks
<1>2. /\ i_lines' = [i_lines EXCEPT ![b % ILines] = b]
      /\ lost' = {} /\ UNCHANGED <<d_lines, dirty, uncached>>
  BY DEF Lines!Fetch
<1>. HIDE DEF b
<1>3. /\ i_lines' \in [ILine -> {Lines!None} \cup Blocks]
      /\ \A n \in ILine : i_lines'[n] # Lines!None => i_lines'[n] % ILines = n
  <2>1. /\ i_lines' \in [ILine -> {Lines!None} \cup Blocks]
        /\ i_lines'[b % ILines] = b
        /\ \A n \in ILine : n # b % ILines => i_lines'[n] = i_lines[n]
    BY <1>1, <1>2, CacheTypes
  <2>2. \A n \in ILine : i_lines[n] # Lines!None => i_lines[n] % ILines = n
    BY DEF CacheInv, ILine
  <2>. QED
    BY <2>1, <2>2
<1>4. Lines!TypeOK'
  BY <1>2, <1>3 DEF CacheInv, Lines!TypeOK, Blocks, ILine
<1>5. Lines!NeverCached' /\ Lines!DirtyIsCached'
  BY <1>2 DEF CacheInv, Lines!NeverCached, Lines!DirtyIsCached, Lines!Uncached
<1>. QED
  BY <1>2, <1>3, <1>4, <1>5 DEF CacheInv, ILine

LEMMA IcacheKeeps == ASSUME CacheInv, NEW a, NEW n, Lines!IcacheFlush(a, n)
                     PROVE  CacheInv'
<1>1. /\ i_lines' = [m \in ILine |-> IF m \in Lines!Forgotten(a, n) THEN Lines!None
                                     ELSE i_lines[m]]
      /\ lost' = {} /\ UNCHANGED <<d_lines, dirty, uncached>>
  BY DEF Lines!IcacheFlush, ILine
<1>2. /\ i_lines' \in [ILine -> {Lines!None} \cup Blocks]
      /\ \A m \in ILine : i_lines'[m] # Lines!None => i_lines'[m] % ILines = m
  <2>1. /\ i_lines' \in [ILine -> {Lines!None} \cup Blocks]
        /\ \A m \in ILine : i_lines'[m] # Lines!None => i_lines'[m] = i_lines[m]
    BY <1>1, CacheTypes
  <2>2. \A m \in ILine : i_lines[m] # Lines!None => i_lines[m] % ILines = m
    BY DEF CacheInv, ILine
  <2>. QED
    BY <2>1, <2>2
<1>3. Lines!TypeOK'
  BY <1>1, <1>2 DEF CacheInv, Lines!TypeOK, Blocks, ILine
<1>4. Lines!NeverCached' /\ Lines!DirtyIsCached'
  BY <1>1 DEF CacheInv, Lines!NeverCached, Lines!DirtyIsCached, Lines!Uncached
<1>. QED
  BY <1>1, <1>2, <1>3, <1>4 DEF CacheInv, ILine

\* The lines a flush leaves.
LEMMA LeftBy ==
  ASSUME CacheInv, NEW blocks
  PROVE  LET g == Lines!Without(d_lines, blocks) IN
         /\ g \in [DLine -> {Lines!None} \cup Blocks]
         /\ \A n \in DLine : g[n] # Lines!None =>
              g[n] % DLines = n /\ Lines!InBlock(g[n]) \cap Lines!Uncached = {}
         /\ \A n \in DLine : g[n] # Lines!None => g[n] = d_lines[n] /\ g[n] \notin blocks
         /\ \A x \in dirty \ Lines!BytesOf(blocks) :
              g[Lines!Block(x) % DLines] = Lines!Block(x)
<1>. DEFINE g == Lines!Without(d_lines, blocks)
<1>1. d_lines \in [DLine -> {Lines!None} \cup Blocks]
  BY CacheTypes
<1>2. /\ g \in [DLine -> {Lines!None} \cup Blocks]
      /\ \A n \in DLine : g[n] # Lines!None => g[n] = d_lines[n] /\ d_lines[n] \notin blocks
      /\ \A x \in Lines!Address \ Lines!BytesOf(blocks) :
           d_lines[Lines!Block(x) % DLines] = Lines!Block(x) =>
             g[Lines!Block(x) % DLines] = Lines!Block(x)
  BY <1>1, Forgets
<1>. HIDE DEF g
<1>3. \A n \in DLine : g[n] # Lines!None =>
        g[n] % DLines = n /\ Lines!InBlock(g[n]) \cap Lines!Uncached = {}
  BY <1>2, LinesAre
<1>4. \A n \in DLine : g[n] # Lines!None => g[n] = d_lines[n] /\ g[n] \notin blocks
  BY <1>2
<1>5. \A x \in dirty \ Lines!BytesOf(blocks) :
        g[Lines!Block(x) % DLines] = Lines!Block(x)
  BY <1>2, LinesAre, CacheTypes
<1>. QED
  BY <1>2, <1>3, <1>4, <1>5 DEF g

\* The flushes by range, with and without writing back.
LEMMA DcacheKeeps ==
  ASSUME CacheInv, NEW a, NEW n, Lines!DcacheFlush(a, n) \/ Lines!NoWriteback(a, n)
  PROVE  CacheInv'
<1>. DEFINE blocks == Lines!Hit(a, n)
<1>1. /\ d_lines' = Lines!Without(d_lines, blocks)
      /\ dirty' = dirty \ Lines!BytesOf(blocks)
      /\ lost' \subseteq dirty /\ UNCHANGED <<i_lines, uncached>>
  BY DEF Lines!DcacheFlush, Lines!NoWriteback, Lines!alt_dcache_flush, Lines!Forget
<1>. HIDE DEF blocks
<1>. QED
  BY <1>1, LeftBy, DataStep, CacheTypes

\* The word that is stored lies in one line, and the flush comes past that.
LEMMA WordInBlock ==
  ASSUME NEW a \in Int, a % Word = 0, NEW x \in Lines!Region(a, Word)
  PROVE  Lines!Block(x) = Lines!Block(a)
<1>. DEFINE q == a \div Line
            r == a % Line
            m == Line \div Word
            p == a \div Word
            u == r \div Word
            t == r % Word
<1>1. q \in Int /\ r \in 0 .. Line - 1 /\ a = Line * q + r
  BY CacheSet, Divides
<1>2. m \in Int /\ Line = Word * m
  <2>1. m \in Int /\ Line = Word * m + (Line % Word)
    BY CacheSet, Divides
  <2>2. Word * m \in Int
    BY <2>1, CacheSet
  <2>. QED
    BY <2>1, <2>2, CacheSet
<1>3. p \in Int /\ a = Word * p
  <2>1. p \in Int /\ a = Word * p + (a % Word)
    BY CacheSet, Divides
  <2>2. Word * p \in Int
    BY <2>1, CacheSet
  <2>. QED
    BY <2>1, <2>2
<1>. HIDE DEF q, r, m, p
<1>4. u \in Int /\ t \in 0 .. Word - 1 /\ r = Word * u + t
  <2>1. r \in Int /\ Word \in Nat \ {0}
    BY <1>1, CacheSet
  <2>. QED
    BY <2>1, Divides
<1>5. t = 0
  <2>1. m * q + u \in Int
    BY <1>1, <1>2, <1>4
  <2>2. a = Word * (m * q + u) + t
    <3>1. Word * (m * q + u) = Word * (m * q) + Word * u
      BY <1>1, <1>2, <1>4, CacheSet
    <3>2. Word * (m * q) = (Word * m) * q
      BY <1>1, <1>2, CacheSet
    <3>3. Word * (m * q) = Line * q
      BY <1>2, <3>2, Zenon
    <3>4. Line * q \in Int /\ Word * u \in Int
      BY <1>1, <1>4, CacheSet
    <3>. HIDE DEF u, t
    <3>. QED
      BY <1>1, <1>4, <3>1, <3>3, <3>4
  <2>. HIDE DEF u, t
  <2>3. (Word * (m * q + u) + t) % Word = t
    BY <1>4, <2>1, CacheSet, Quotient
  <2>. QED
    BY <2>2, <2>3
<1>. HIDE DEF u, t
<1>6. r + Word <= Line
  <2>1. /\ Word * u \in Int /\ Word * m \in Int /\ Word * (u + 1) = Word * u + Word
        /\ Word \in Int /\ Word > 0 /\ Line \in Int
    BY <1>2, <1>4, CacheSet
  <2>2. CASE u + 1 <= m
    <3>1. Word * (u + 1) <= Word * m
      BY <1>2, <1>4, <2>2, CacheSet, TimesMono
    <3>. QED
      BY <1>2, <1>4, <1>5, <2>1, <3>1
  <2>3. CASE m <= u
    <3>1. Word * m <= Word * u
      BY <1>2, <1>4, <2>3, CacheSet, TimesMono
    <3>. QED
      BY <1>1, <1>2, <1>4, <1>5, <2>1, <3>1
  <2>. QED
    BY <1>2, <1>4, <2>2, <2>3
<1>. DEFINE s == r + (x - a)
<1>7. x \in Int /\ s \in 0 .. Line - 1
  BY <1>1, <1>6, CacheSet DEF Lines!Region
<1>8. x = Line * q + s
  <2>1. Line * q \in Int
    BY <1>1, CacheSet
  <2>. QED
    BY <1>1, <1>7, <2>1
<1>. HIDE DEF s
<1>9. x \div Line = q
  BY <1>1, <1>7, <1>8, CacheSet, Quotient
<1>. QED
  BY <1>9 DEF Lines!Block, q

\* The registration of the handler for fatal errors: what it writes is flushed.
LEMMA EccKeeps ==
  ASSUME CacheInv, NEW a \in Lines!Address, Lines!alt_ecc_fatal_exception_register(a)
  PROVE  CacheInv'
<1>. DEFINE f == Lines!Filled(a)
            hit == Lines!HitIn(f, a, Word)
            g == Lines!Without(f, hit)
<1>1. /\ a % Word = 0 /\ Lines!Region(a, Word) \subseteq Lines!Address \ Lines!Uncached
      /\ d_lines' = g
      /\ dirty' = (Lines!Kept(a) \cup Lines!Region(a, Word)) \ Lines!BytesOf(hit)
      /\ lost' = {} /\ UNCHANGED <<i_lines, uncached>>
  BY DEF Lines!alt_ecc_fatal_exception_register
<1>2. a \in Int /\ a \in Lines!Region(a, Word) /\ Lines!Block(a) \in Int
  BY Slots, CacheSet, InBlockIs DEF Lines!Region
<1>3. /\ f \in [DLine -> {Lines!None} \cup Blocks]
      /\ \A n \in DLine : f[n] # Lines!None =>
           f[n] % DLines = n /\ Lines!InBlock(f[n]) \cap Lines!Uncached = {}
      /\ \A x \in Lines!Kept(a) \cup {a} : f[Lines!Block(x) % DLines] = Lines!Block(x)
      /\ Lines!Kept(a) \subseteq dirty
  BY <1>1, <1>2, Fills
<1>. HIDE DEF f
<1>4. Lines!Block(a) \in hit
  <2>1. a \in Lines!Flushes(a, Word)
    BY <1>2, CacheSet, FlushesAre
  <2>. QED
    BY <1>3, <2>1 DEF Lines!HitIn
<1>. HIDE DEF hit
<1>5. /\ g \in [DLine -> {Lines!None} \cup Blocks]
      /\ \A n \in DLine : g[n] # Lines!None => g[n] = f[n]
      /\ \A x \in Lines!Address \ Lines!BytesOf(hit) :
           f[Lines!Block(x) % DLines] = Lines!Block(x) =>
             g[Lines!Block(x) % DLines] = Lines!Block(x)
  BY <1>3, Forgets
<1>. HIDE DEF g
<1>6. \A n \in DLine : g[n] # Lines!None =>
        g[n] % DLines = n /\ Lines!InBlock(g[n]) \cap Lines!Uncached = {}
  BY <1>3, <1>5
<1>7. \A x \in Lines!Region(a, Word) : x \in Lines!BytesOf(hit)
  <2>. SUFFICES ASSUME NEW x \in Lines!Region(a, Word)
                PROVE  x \in Lines!BytesOf(hit)
    OBVIOUS
  <2>1. x \in Int /\ Lines!Block(x) = Lines!Block(a)
    BY <1>1, <1>2, WordInBlock DEF Lines!Region
  <2>2. x \in Lines!InBlock(Lines!Block(a))
    BY <1>2, <2>1, InBlockIs
  <2>. QED
    BY <1>4, <2>2 DEF Lines!BytesOf
<1>8. dirty' \subseteq dirty
  BY <1>1, <1>3, <1>7
<1>9. \A x \in dirty' : g[Lines!Block(x) % DLines] = Lines!Block(x)
  BY <1>1, <1>3, <1>5, <1>7, <1>8, CacheTypes
<1>. QED
  BY <1>1, <1>5, <1>6, <1>8, <1>9, DataStep, CacheTypes

-----------------------------------------------------------------------------
\* The lines in the cache that hold some of a region are those a flush of it
\* acts on.
LEMMA HeldIsHit ==
  ASSUME CacheInv, NEW a \in Int, NEW n \in Nat, NEW m \in DLine,
         Lines!Holds(d_lines[m], a, n)
  PROVE  d_lines[m] \in Lines!Hit(a, n)
<1>. DEFINE b == d_lines[m]
<1>1. b # Lines!None /\ b \in Blocks /\ b % DLines = m /\ b \in Int
  BY CacheTypes, LinesAre, Slots DEF Lines!Holds
<1>2. PICK x \in Lines!Region(a, n) : x \in Lines!InBlock(b)
  BY DEF Lines!Holds
<1>3. x \in Int
  BY DEF Lines!Region
<1>. HIDE DEF b
<1>4. Lines!Block(x) = b
  BY <1>1, <1>2, <1>3, InBlockIs
<1>5. PICK y \in Lines!Flushes(a, n) : Lines!Block(y) = b
  BY <1>4, FlushesAll
<1>. QED
  BY <1>1, <1>5 DEF Lines!Hit, Lines!HitIn, b

\* Uncached memory is asked for in whole lines.
LEMMA SizeAligned == ASSUME NEW n \in Nat
                     PROVE  Lines!AlignedSize(n) \in Nat /\ Lines!AlignedSize(n) % Line = 0
<1>. DEFINE q == (n + Line - 1) \div Line
            r == (n + Line - 1) % Line
<1>0. n + Line - 1 \in Int
  BY CacheSet
<1>1. q \in Int /\ r \in 0 .. Line - 1 /\ n + Line - 1 = Line * q + r
  BY <1>0, CacheSet, Divides
<1>2. Lines!AlignedSize(n) = Line * q
  BY DEF Lines!AlignedSize
<1>. HIDE DEF q, r
<1>3. Line * q \in Int
  BY <1>1, CacheSet
<1>4. (Line * q + 0) % Line = 0 /\ Line * q + 0 = Line * q
  <2>1. 0 \in 0 .. Line - 1 /\ Line \in Nat \ {0}
    BY CacheSet
  <2>2. (Line * q + 0) % Line = 0
    BY <1>1, <2>1, Quotient
  <2>. QED
    BY <1>3, <2>2
<1>5. Line * q >= 0
  BY <1>1, <1>3, CacheSet
<1>. QED
  BY <1>2, <1>3, <1>4, <1>5

\* What is to be uncached is flushed out before: the flush comes past all of it.
LEMMA MallocKeeps ==
  ASSUME CacheInv, NEW size \in Nat, NEW ptr \in Lines!Address,
         Lines!UncachedMalloc(size, ptr)
  PROVE  CacheInv'
<1>. DEFINE n == Lines!AlignedSize(size)
            hit == Lines!Hit(ptr, n)
            g == Lines!Without(d_lines, hit)
<1>1. n \in Nat /\ n % Line = 0 /\ ptr \in Int
  BY SizeAligned, Slots
<1>2. /\ ptr % Line = 0 /\ ptr \notin DOMAIN uncached
      /\ d_lines' = g /\ dirty' = dirty \ Lines!BytesOf(hit) /\ lost' = {}
      /\ UNCHANGED i_lines
      /\ uncached' = [p \in DOMAIN uncached \cup {ptr} |->
                        IF p = ptr THEN n ELSE uncached[p]]
  BY DEF Lines!UncachedMalloc, Lines!alt_dcache_flush, Lines!Forget
<1>. HIDE DEF n
<1>3. /\ g \in [DLine -> {Lines!None} \cup Blocks]
      /\ \A m \in DLine : g[m] # Lines!None =>
           g[m] % DLines = m /\ Lines!InBlock(g[m]) \cap Lines!Uncached = {}
      /\ \A m \in DLine : g[m] # Lines!None => g[m] = d_lines[m] /\ g[m] \notin hit
      /\ \A x \in dirty \ Lines!BytesOf(hit) :
           g[Lines!Block(x) % DLines] = Lines!Block(x)
  BY LeftBy
<1>4. \A m \in DLine : g[m] # Lines!None =>
        Lines!InBlock(g[m]) \cap Lines!Region(ptr, n) = {}
  <2>. HIDE DEF g, hit
  <2>. SUFFICES ASSUME NEW m \in DLine, g[m] # Lines!None,
                       Lines!InBlock(g[m]) \cap Lines!Region(ptr, n) # {}
                PROVE  FALSE
    OBVIOUS
  <2>1. Lines!Holds(d_lines[m], ptr, n)
    BY <1>3 DEF Lines!Holds
  <2>2. d_lines[m] \in Lines!Hit(ptr, n)
    BY <1>1, <2>1, HeldIsHit
  <2>. QED
    BY <1>3, <2>2 DEF hit
<1>. HIDE DEF g, hit
<1>5. Lines!Uncached' \subseteq Lines!Uncached \cup Lines!Region(ptr, n)
  BY <1>2 DEF Lines!Uncached, Lines!Region
<1>6. Lines!TypeOK'
  BY <1>2, <1>3 DEF CacheInv, Lines!TypeOK, Blocks, DLine
<1>7. Lines!NeverCached'
  <2>. SUFFICES ASSUME NEW m \in DLine, g[m] # Lines!None
                PROVE  Lines!InBlock(g[m]) \cap Lines!Uncached' = {}
    BY <1>2 DEF Lines!NeverCached, DLine
  <2>. QED
    BY <1>3, <1>4, <1>5
<1>8. Lines!DirtyIsCached'
  BY <1>2, <1>3 DEF Lines!DirtyIsCached
<1>9. \A p \in DOMAIN uncached' :
        p % Line = 0 /\ uncached'[p] \in Nat /\ uncached'[p] % Line = 0
  BY <1>1, <1>2 DEF CacheInv
<1>10. \A m \in DLine : d_lines'[m] # Lines!None => d_lines'[m] % DLines = m
  BY <1>2, <1>3
<1>. QED
  BY <1>2, <1>6, <1>7, <1>8, <1>9, <1>10 DEF CacheInv, DLine

\* Less is uncached than before.
LEMMA FreeKeeps == ASSUME CacheInv, NEW ptr, Lines!UncachedFree(ptr)
                   PROVE  CacheInv'
<1>1. /\ uncached' = [p \in DOMAIN uncached \ {ptr} |-> uncached[p]]
      /\ lost' = {} /\ UNCHANGED <<d_lines, i_lines, dirty>>
  BY DEF Lines!UncachedFree, Lines!Restrict
<1>2. Lines!Uncached' \subseteq Lines!Uncached
  BY <1>1 DEF Lines!Uncached, Lines!Region
<1>3. Lines!TypeOK'
  BY <1>1 DEF CacheInv, Lines!TypeOK
<1>4. Lines!NeverCached' /\ Lines!DirtyIsCached'
  BY <1>1, <1>2 DEF CacheInv, Lines!NeverCached, Lines!DirtyIsCached
<1>. QED
  BY <1>1, <1>3, <1>4 DEF CacheInv

LEMMA CachesInit == ASSUME Lines!Init PROVE CacheInv
<1>1. Lines!Uncached = {}
  BY DEF Lines!Init, Lines!Uncached
<1>. QED
  BY <1>1 DEF Lines!Init, CacheInv, Lines!TypeOK, Lines!NeverCached, Lines!DirtyIsCached

LEMMA CachesStep == ASSUME CacheInv, Lines!Next PROVE CacheInv'
<1>1. CASE Lines!Access
  BY <1>1, LoadKeeps, StoreKeeps, FetchKeeps DEF Lines!Access
<1>2. CASE Lines!Flush
  BY <1>2, DcacheKeeps, IcacheKeeps DEF Lines!Flush
<1>3. CASE Lines!FlushAll
  BY <1>3, IcacheKeeps, EccKeeps DEF Lines!FlushAll, Lines!alt_icache_flush_all
<1>4. CASE Lines!Allocate
  <2>1. PICK a \in Lines!Address, n \in Lengths \ {0} : Lines!UncachedMalloc(n, a)
    BY <1>4 DEF Lines!Allocate
  <2>2. n \in Nat
    BY CacheSet
  <2>. QED
    BY <2>1, <2>2, MallocKeeps
<1>5. CASE Lines!Free
  BY <1>5, FreeKeeps DEF Lines!Free
<1>. QED
  BY <1>1, <1>2, <1>3, <1>4, <1>5 DEF Lines!Next

\* Every line that holds some of the region, of either cache.
LEMMA Reaches == ASSUME CacheInv PROVE Lines!FlushReaches
<1>1. DOMAIN d_lines = DLine /\ DOMAIN i_lines = ILine
  BY CacheTypes
<1>2. Lines!Forgotten(0, Lines!ISize) = ILine
  <2>1. \A y \in Lines!Flushes(0, Lines!ISize) : Lines!Block(y) % ILines \in ILine
    <3>1. Lines!ISize \in Nat
      BY CacheSet, NatTimes DEF Lines!ISize
    <3>2. \A y \in Lines!Flushes(0, Lines!ISize) : y \in Int
      BY <3>1, FlushesAre
    <3>. QED
      BY <3>2, InBlockIs, Slots
  <2>2. \A m \in ILine : \E y \in Lines!Flushes(0, Lines!ISize) :
                           Lines!Block(y) % ILines = m
    <3>1. 0 \in Int
      OBVIOUS
    <3>. QED
      BY <3>1, FlushesCache DEF ILine
  <2>3. Lines!Forgotten(0, Lines!ISize) =
          {Lines!Block(y) % ILines : y \in Lines!Flushes(0, Lines!ISize)}
    <3>1. ~ (Lines!ISize > Lines!ISize)
      BY CacheSet, NatTimes DEF Lines!ISize
    <3>. QED
      BY <3>1 DEF Lines!Forgotten
  <2>. QED
    BY <2>1, <2>2, <2>3
<1>3. ASSUME NEW a \in Lines!Address, NEW n \in Lengths, NEW m \in ILine,
             Lines!Holds(i_lines[m], a, n)
      PROVE  m \in Lines!Forgotten(a, n)
  <2>. DEFINE b == i_lines[m]
  <2>0. a \in Int /\ n \in Nat /\ Lines!ISize \in Nat
    BY Slots, CacheSet, NatTimes DEF Lines!ISize
  <2>1. CASE n > Lines!ISize
    <3>1. PICK y \in Lines!Flushes(a, Lines!ISize) : Lines!Block(y) % ILines = m
      BY <2>0, FlushesCache DEF ILine
    <3>. QED
      BY <2>1, <3>1 DEF Lines!Forgotten
  <2>2. CASE ~ (n > Lines!ISize)
    <3>1. b # Lines!None /\ b \in Blocks /\ b % ILines = m /\ b \in Int
      BY <1>3, CacheTypes, Slots DEF Lines!Holds, CacheInv, ILine
    <3>2. PICK x \in Lines!Region(a, n) : x \in Lines!InBlock(b)
      BY <1>3 DEF Lines!Holds
    <3>3. x \in Int
      BY <2>0 DEF Lines!Region
    <3>. HIDE DEF b
    <3>4. Lines!Block(x) = b
      BY <3>1, <3>2, <3>3, InBlockIs
    <3>5. PICK y \in Lines!Flushes(a, n) : Lines!Block(y) = b
      BY <2>0, <3>4, FlushesAll
    <3>. QED
      BY <2>2, <3>1, <3>5 DEF Lines!Forgotten
  <2>. QED
    BY <2>1, <2>2
<1>4. \A a \in Lines!Address, n \in Lengths, m \in DLine :
        Lines!Holds(d_lines[m], a, n) => d_lines[m] \in Lines!Hit(a, n)
  BY HeldIsHit, Slots, CacheSet
<1>. QED
  BY <1>1, <1>2, <1>3, <1>4 DEF Lines!FlushReaches

-----------------------------------------------------------------------------
\* Flushes reach what they are about, nothing written gets lost, and what is
\* reached past the data cache is not in it: for caches and lines of any size,
\* and whatever is allocated.
THEOREM CachesWork == MCSpec => []CachesRight
<1>1. MCInit => CachesInvariant
  <2>1. "caches" \notin DOMAIN Processor
    BY BootAssumption
  <2>. QED
    BY <2>1, CachesInit DEF MCInit, CachesInvariant
<1>2. CachesInvariant /\ [MCNext]_everything => CachesInvariant'
  <2>. SUFFICES ASSUME CachesInvariant, [MCNext]_everything, part' = "caches"
                PROVE  CacheInv'
    BY DEF CachesInvariant
  <2>1. CASE MCNext
    <3>1. part' = part /\ CacheInv
      BY <2>1 DEF MCNext, CachesInvariant
    <3>2. Lines!Next \/ UNCHANGED caches
      BY <2>1, <3>1 DEF MCNext
    <3>3. CASE UNCHANGED caches
      BY <3>1, <3>3 DEF caches, CacheInv, Lines!TypeOK, Lines!NeverCached,
                        Lines!DirtyIsCached, Lines!Uncached
    <3>. QED
      BY <3>1, <3>2, <3>3, CachesStep
  <2>2. CASE UNCHANGED everything
    <3>1. part' = part /\ CacheInv
      BY <2>2 DEF everything, CachesInvariant
    <3>2. UNCHANGED caches
      BY <2>2 DEF everything
    <3>. QED
      BY <3>1, <3>2 DEF caches, CacheInv, Lines!TypeOK, Lines!NeverCached,
                        Lines!DirtyIsCached, Lines!Uncached
  <2>. QED
    BY <2>1, <2>2
<1>3. CachesInvariant => CachesRight
  BY Reaches DEF CachesInvariant, CachesRight, CacheInv
<1>. QED
  BY <1>1, <1>2, <1>3, PTL DEF MCSpec

-----------------------------------------------------------------------------
(* The start-up (crt0.S, alt_load.c, alt_main.c) *)

\* What a word of memory may hold, and which words no store ever reaches: the
\* copies, and the sections that have none.
Content(m) == Processor[m].Memory \cup {Cpu(m)!Zero, Cpu(m)!Junk, Cpu(m)!Used}
Sects == {"rwdata", "exceptions", "rodata"}
KeptWords(m) ==
  Cpu(m)!AllCopies \cup
    {a \in Cpu(m)!AllRun : \E s \in Sects : ~ Cpu(m)!Copied(s) /\ a \in Cpu(m)!Run(s)}
BootTypes(m) ==
  /\ Cpu(m)!TypeOK
  /\ \A a \in DOMAIN dcache : dcache[a] \in Content(m)
  /\ Processor[m].DCacheSize = 0 => DOMAIN dcache = {}
  /\ r2 \in Int
  /\ ready \in [0 .. Processor[m].ShadowSets -> SUBSET {"sp", "gp", "zero", "others"}]

\* The copies are there at every start, and the cache, once it has been set up,
\* holds none of them.
CopiesStay(m) ==
  /\ \A a \in KeptWords(m) : ram[a] = Cpu(m)!Downloaded[a]
  /\ pc \notin {"reset", "dcache"} => DOMAIN dcache \cap KeptWords(m) = {}

\* Before each step, what the steps before it have done.
LineOf(m, a) == (a \div Processor[m].DCacheLine) % Cpu(m)!Lines
CacheSetUp(m) ==
  /\ pc = "reset" => r2 <= Processor[m].ICacheSize
  /\ pc = "dcache" =>
       /\ r2 <= Processor[m].DCacheSize
       /\ ~ Processor[m].Ecc => r2 % Processor[m].DCacheLine = 0
       /\ \A a \in DOMAIN dcache :
            r2 >= IF LineOf(m, a) = 0 THEN Processor[m].DCacheSize
                  ELSE LineOf(m, a) * Processor[m].DCacheLine
  /\ pc = "shadow" => DOMAIN dcache = {}
RegistersSetUp(m) ==
  /\ pc \in {"reset", "dcache"} => prs = 0
  /\ pc \in {"dcache", "shadow", "bss", "load", "alt_main"} => crs = 0
  /\ pc = "shadow" => /\ r2 \in 0 .. Processor[m].ShadowSets
                      /\ prs = Processor[m].ShadowSets - r2
  /\ pc \in {"shadow", "bss", "load", "alt_main"} =>
       /\ {"sp", "gp"} \subseteq ready[0]
       /\ \A n \in 1 .. Processor[m].ShadowSets :
            pc # "shadow" \/ n <= prs => {"zero", "gp"} \subseteq ready[n]
InMemory(m) ==
  /\ pc \in {"reset", "dcache", "shadow", "bss"} => section = 1
  /\ pc = "bss" =>
       /\ r2 \in Cpu(m)!Bss
       /\ \A a \in Cpu(m)!Bss : a < r2 => Cpu(m)!View(a) = Cpu(m)!Zero
  /\ pc = "load" =>
       /\ \A a \in Cpu(m)!Bss : Cpu(m)!View(a) = Cpu(m)!Zero
       /\ \A i \in 1 .. 3 : i < section =>
            \A a \in Cpu(m)!Run(Cpu(m)!Sections[i]) : Cpu(m)!View(a) = a
       /\ section <= 3 =>
            LET s == Cpu(m)!Sections[section] IN
            /\ Processor[m].ram_start[s] + r2 <= Processor[m].ram_end[s] /\ r2 >= 0
            /\ Cpu(m)!Copied(s) => \A a \in Cpu(m)!Run(s) :
                 a < Processor[m].ram_start[s] + r2 => Cpu(m)!View(a) = a
  /\ pc \in {"alt_main", "sys_init", "isr_register", "io_redirect", "ctors"} =>
       /\ \A a \in Cpu(m)!AllRun : Cpu(m)!View(a) = a
       /\ \A a \in Cpu(m)!Bss : Cpu(m)!View(a) = Cpu(m)!Zero
  /\ pc \notin {"reset", "dcache", "shadow", "bss", "load"} =>
       /\ \A a \in Cpu(m)!Run("exceptions") : ram[a] = a
       /\ \A a \in Cpu(m)!Bss \cup Cpu(m)!Run("rwdata") :
            Cpu(m)!View(a) \in {Cpu(m)!Zero, Cpu(m)!Used, a}
InOrder(m) ==
  /\ pc \in {"reset", "dcache", "shadow", "bss", "load", "alt_main"} => PIE = FALSE
  /\ IF pc \in {"ctors", "main", "exit", "spin"} THEN stdout # "none" /\ ienable
     ELSE calls = <<>>
  /\ pc = "io_redirect" => ienable
  /\ pc = "ctors" =>
       /\ r2 \in 0 .. Processor[m].Ctors
       /\ calls = [i \in 1 .. Processor[m].Ctors - r2 |->
                     <<"ctor", Processor[m].Ctors + 1 - i>>]
  /\ pc = "main" =>
       calls = [i \in 1 .. Processor[m].Ctors |-> <<"ctor", Processor[m].Ctors + 1 - i>>]
BootInv(m) == /\ BootTypes(m) /\ CopiesStay(m) /\ CacheSetUp(m) /\ RegistersSetUp(m)
              /\ InMemory(m) /\ InOrder(m)
BootInvariant == \A m \in DOMAIN Processor : part = m => BootInv(m)

-----------------------------------------------------------------------------

\* The sections of the program.
LEMMA SectionsAre ==
  ASSUME NEW m \in DOMAIN Processor
  PROVE  /\ Len(Cpu(m)!Sections) = 3
         /\ Cpu(m)!Sections[1] = "rwdata" /\ Cpu(m)!Sections[2] = "exceptions"
         /\ Cpu(m)!Sections[3] = "rodata"
         /\ Cpu(m)!Range(Cpu(m)!Sections) = Sects
         /\ \A i \in 1 .. 3 : Cpu(m)!Sections[i] \in Sects
         /\ \A s \in Sects : \E i \in 1 .. 3 : s = Cpu(m)!Sections[i]
         /\ Cpu(m)!Zero = -1 /\ Cpu(m)!Junk = -2 /\ Cpu(m)!Used = -3
<1>1. /\ Len(Cpu(m)!Sections) = 3
      /\ Cpu(m)!Sections[1] = "rwdata" /\ Cpu(m)!Sections[2] = "exceptions"
      /\ Cpu(m)!Sections[3] = "rodata" /\ DOMAIN Cpu(m)!Sections = 1 .. 3
  BY DEF Cpu!Sections
<1>2. /\ \A i \in 1 .. 3 : Cpu(m)!Sections[i] \in Sects
      /\ \A s \in Sects : \E i \in 1 .. 3 : s = Cpu(m)!Sections[i]
  BY <1>1 DEF Sects
<1>3. Cpu(m)!Range(Cpu(m)!Sections) = Sects
  BY <1>1, <1>2 DEF Cpu!Range
<1>. QED
  BY <1>1, <1>2, <1>3 DEF Cpu!Zero, Cpu!Junk, Cpu!Used

\* How the linker script lays the program out.
LEMMA Layout ==
  ASSUME NEW m \in DOMAIN Processor
  PROVE  /\ Processor[m].Memory \subseteq Nat
         /\ Cpu(m)!AllRun \cup Cpu(m)!AllCopies \cup Cpu(m)!Bss \subseteq Processor[m].Memory
         /\ Cpu(m)!AllCopies \cap (Cpu(m)!AllRun \cup Cpu(m)!Bss) = {}
         /\ Cpu(m)!AllRun \cap Cpu(m)!Bss = {}
         /\ \A s, t \in Sects : s # t =>
              /\ Cpu(m)!Run(s) \cap Cpu(m)!Run(t) = {}
              /\ Cpu(m)!Copied(s) /\ Cpu(m)!Copied(t) => Cpu(m)!Copy(s) \cap Cpu(m)!Copy(t) = {}
         /\ \A s \in Sects :
              /\ Processor[m].ram_start[s] \in Nat /\ Processor[m].flash_start[s] \in Nat
              /\ Processor[m].ram_end[s] \in Nat
              /\ Processor[m].ram_start[s] <= Processor[m].ram_end[s]
         /\ Cpu(m)!Copied("rwdata")
         /\ \A a : a \in Cpu(m)!AllRun <=> \E s \in Sects : a \in Cpu(m)!Run(s)
         /\ \A a : a \in Cpu(m)!AllCopies <=>
              \E s \in Sects : Cpu(m)!Copied(s) /\ a \in Cpu(m)!Copy(s)
<1>1. \A a : a \in Cpu(m)!AllRun <=> \E s \in Sects : a \in Cpu(m)!Run(s)
  BY SectionsAre DEF Cpu!AllRun
<1>2. \A a : a \in Cpu(m)!AllCopies <=>
              \E s \in Sects : Cpu(m)!Copied(s) /\ a \in Cpu(m)!Copy(s)
  BY SectionsAre DEF Cpu!AllCopies
<1>3. Cpu(m)!BootAssumption
  BY BootAssumption
<1>. QED
  BY <1>1, <1>2, <1>3, SectionsAre DEF Cpu!BootAssumption

\* What is assumed of the sizes.
LEMMA Numbers ==
  ASSUME NEW m \in DOMAIN Processor
  PROVE  /\ Processor[m].bss_start \in Nat /\ Processor[m].bss_end \in Nat
         /\ Processor[m].bss_start <= Processor[m].bss_end
         /\ Processor[m].DCacheSize \in Nat /\ Processor[m].DCacheLine \in Nat \ {0}
         /\ Processor[m].DCacheSize % Processor[m].DCacheLine = 0
         /\ Processor[m].ICacheSize \in Nat /\ Processor[m].ICacheLine \in Nat \ {0}
         /\ Processor[m].Ecc \in BOOLEAN /\ Processor[m].ShadowSets \in Nat
         /\ Processor[m].Ctors \in Nat /\ Processor[m].Dtors \in Nat
BY BootAssumption DEF Cpu!BootAssumption

\* The download puts every word where alt_load, or the program, finds it.
LEMMA Download ==
  ASSUME NEW m \in DOMAIN Processor
  PROVE  /\ Cpu(m)!Downloaded \in [Processor[m].Memory -> Content(m)]
         /\ \A s \in Sects : Cpu(m)!Copied(s) =>
              \A k \in Int : 0 <= k /\ Processor[m].ram_start[s] + k < Processor[m].ram_end[s] =>
                /\ Processor[m].flash_start[s] + k \in Cpu(m)!AllCopies
                /\ Cpu(m)!Downloaded[Processor[m].flash_start[s] + k] =
                     Processor[m].ram_start[s] + k
                /\ Processor[m].ram_start[s] + k \in Cpu(m)!Run(s)
         /\ \A s \in Sects : ~ Cpu(m)!Copied(s) =>
              \A a \in Cpu(m)!Run(s) : Cpu(m)!Downloaded[a] = a
<1>. DEFINE C == Cpu(m)!Range(Cpu(m)!Sections)
<1>1. C = Sects
  BY SectionsAre
<1>2. \A s \in Sects : \A a \in Cpu(m)!Copy(s) : Cpu(m)!Copied(s) =>
        /\ a \in Cpu(m)!AllCopies
        /\ (CHOOSE t \in C : Cpu(m)!Copied(t) /\ a \in Cpu(m)!Copy(t)) = s
  <2>. SUFFICES ASSUME NEW s \in Sects, NEW a \in Cpu(m)!Copy(s), Cpu(m)!Copied(s)
                PROVE  /\ a \in Cpu(m)!AllCopies
                       /\ (CHOOSE t \in Sects : Cpu(m)!Copied(t) /\ a \in Cpu(m)!Copy(t)) = s
    BY <1>1
  <2>1. \A t \in Sects : Cpu(m)!Copied(t) /\ a \in Cpu(m)!Copy(t) => t = s
    BY Layout
  <2>. QED
    BY <2>1, Layout
<1>3. \A s \in Sects : \A a \in Cpu(m)!Copy(s) : Cpu(m)!Copied(s) =>
        Cpu(m)!Downloaded[a] = Processor[m].ram_start[s] + (a - Processor[m].flash_start[s])
  <2>. SUFFICES ASSUME NEW s \in Sects, NEW a \in Cpu(m)!Copy(s), Cpu(m)!Copied(s)
                PROVE  Cpu(m)!Downloaded[a] =
                         Processor[m].ram_start[s] + (a - Processor[m].flash_start[s])
    OBVIOUS
  <2>1. a \in Cpu(m)!AllCopies /\ a \notin Cpu(m)!AllRun /\ a \in Processor[m].Memory
    BY Layout
  <2>. HIDE DEF C
  <2>. QED
    BY <1>2, <2>1 DEF Cpu!Downloaded, C
<1>4. \A s \in Sects : \A k \in Int :
        0 <= k /\ Processor[m].ram_start[s] + k < Processor[m].ram_end[s] =>
          /\ Processor[m].ram_start[s] + k \in Cpu(m)!Run(s)
          /\ Processor[m].flash_start[s] + k \in Cpu(m)!Copy(s)
  <2>. SUFFICES ASSUME NEW s \in Sects, NEW k \in Int, 0 <= k,
                       Processor[m].ram_start[s] + k < Processor[m].ram_end[s]
                PROVE  /\ Processor[m].ram_start[s] + k \in Cpu(m)!Run(s)
                       /\ Processor[m].flash_start[s] + k \in Cpu(m)!Copy(s)
    OBVIOUS
  <2>. DEFINE a == Processor[m].ram_start[s] + k
  <2>1. a \in Cpu(m)!Run(s)
    BY Layout DEF Cpu!Run
  <2>2. Processor[m].flash_start[s] + (a - Processor[m].ram_start[s]) \in Cpu(m)!Copy(s)
    BY <2>1 DEF Cpu!Copy
  <2>3. Processor[m].flash_start[s] + (a - Processor[m].ram_start[s])
          = Processor[m].flash_start[s] + k
    BY Layout
  <2>. QED
    BY <2>1, <2>2, <2>3
<1>5. ASSUME NEW s \in Sects, Cpu(m)!Copied(s), NEW k \in Int, 0 <= k,
             Processor[m].ram_start[s] + k < Processor[m].ram_end[s]
      PROVE  /\ Processor[m].flash_start[s] + k \in Cpu(m)!AllCopies
             /\ Cpu(m)!Downloaded[Processor[m].flash_start[s] + k] =
                  Processor[m].ram_start[s] + k
             /\ Processor[m].ram_start[s] + k \in Cpu(m)!Run(s)
  <2>1. /\ Processor[m].ram_start[s] + k \in Cpu(m)!Run(s)
        /\ Processor[m].flash_start[s] + k \in Cpu(m)!Copy(s)
    BY <1>4, <1>5
  <2>2. Cpu(m)!Downloaded[Processor[m].flash_start[s] + k] =
          Processor[m].ram_start[s] +
            ((Processor[m].flash_start[s] + k) - Processor[m].flash_start[s])
    BY <1>3, <1>5, <2>1
  <2>3. Processor[m].ram_start[s] +
            ((Processor[m].flash_start[s] + k) - Processor[m].flash_start[s])
          = Processor[m].ram_start[s] + k
    BY Layout
  <2>. QED
    BY <1>5, <2>1, <2>2, <2>3, Layout
<1>6. ASSUME NEW s \in Sects, ~ Cpu(m)!Copied(s), NEW a \in Cpu(m)!Run(s)
      PROVE  Cpu(m)!Downloaded[a] = a
  <2>1. a \in Cpu(m)!AllRun /\ a \in Processor[m].Memory
    BY Layout
  <2>2. a \notin UNION {Cpu(m)!Run(t) : t \in {u \in C : Cpu(m)!Copied(u)}}
    BY <1>1, <1>6, Layout
  <2>. QED
    BY <2>1, <2>2 DEF Cpu!Downloaded
<1>7. Cpu(m)!Downloaded \in [Processor[m].Memory -> Content(m)]
  <2>1. \A a \in Processor[m].Memory : Cpu(m)!Downloaded[a] \in Content(m)
    <3>. SUFFICES ASSUME NEW a \in Processor[m].Memory
                  PROVE  Cpu(m)!Downloaded[a] \in Content(m)
      OBVIOUS
    <3>1. CASE a \in Cpu(m)!AllCopies
      <4>1. PICK s \in Sects : Cpu(m)!Copied(s) /\ a \in Cpu(m)!Copy(s)
        BY <3>1, Layout
      <4>2. PICK b \in Cpu(m)!Run(s) :
              a = Processor[m].flash_start[s] + (b - Processor[m].ram_start[s])
        BY <4>1 DEF Cpu!Copy
      <4>3. b \in Int /\ b \in Processor[m].Memory
        BY Layout DEF Cpu!Run
      <4>4. Processor[m].ram_start[s] + (a - Processor[m].flash_start[s]) = b
        BY <4>2, <4>3, Layout
      <4>. QED
        BY <1>3, <4>1, <4>3, <4>4 DEF Content
    <3>2. CASE a \notin Cpu(m)!AllCopies
      BY <3>2 DEF Cpu!Downloaded, Content
    <3>. QED
      BY <3>1, <3>2
  <2>2. Cpu(m)!Downloaded = [a \in Processor[m].Memory |-> Cpu(m)!Downloaded[a]]
    BY DEF Cpu!Downloaded
  <2>. QED
    BY <2>1, <2>2
<1>. QED
  BY <1>5, <1>6, <1>7

-----------------------------------------------------------------------------

\* What is kept lies apart from what is stored to.
LEMMA KeptAre ==
  ASSUME NEW m \in DOMAIN Processor
  PROVE  /\ KeptWords(m) \subseteq Processor[m].Memory
         /\ KeptWords(m) \cap Cpu(m)!Bss = {}
         /\ \A s \in Sects : Cpu(m)!Copied(s) => KeptWords(m) \cap Cpu(m)!Run(s) = {}
         /\ \A s \in Sects : \A a \in Cpu(m)!Run(s) : a \in Processor[m].Memory /\ a \in Int
         /\ \A a \in Cpu(m)!Bss : a \in Processor[m].Memory /\ a \in Int
         /\ \A s \in Sects : Cpu(m)!Run(s) \cap Cpu(m)!Bss = {}
<1>1. KeptWords(m) \subseteq Processor[m].Memory
  BY Layout DEF KeptWords
<1>2. KeptWords(m) \cap Cpu(m)!Bss = {}
  BY Layout DEF KeptWords
<1>3. \A s \in Sects : Cpu(m)!Copied(s) => KeptWords(m) \cap Cpu(m)!Run(s) = {}
  BY Layout DEF KeptWords
<1>4. \A s \in Sects : \A a \in Cpu(m)!Run(s) : a \in Processor[m].Memory /\ a \in Int
  BY Layout
<1>5. \A a \in Cpu(m)!Bss : a \in Processor[m].Memory /\ a \in Int
  BY Layout
<1>6. \A s \in Sects : Cpu(m)!Run(s) \cap Cpu(m)!Bss = {}
  BY Layout
<1>. QED
  BY <1>1, <1>2, <1>3, <1>4, <1>5, <1>6

\* A store changes the word it is about as loads see it, and no other.
LEMMA Stores ==
  ASSUME NEW m \in DOMAIN Processor, BootTypes(m), NEW a \in Processor[m].Memory,
         NEW w \in Content(m), Cpu(m)!Store(a, w)
  PROVE  /\ \A b \in Processor[m].Memory :
              Cpu(m)!View(b)' = IF b = a THEN w ELSE Cpu(m)!View(b)
         /\ \A b \in Processor[m].Memory : b # a => ram'[b] = ram[b]
         /\ ram' \in [Processor[m].Memory -> Content(m)]
         /\ DOMAIN dcache' \subseteq DOMAIN dcache \cup {a}
         /\ \A b \in DOMAIN dcache' : dcache'[b] \in Content(m)
         /\ Processor[m].DCacheSize = 0 => DOMAIN dcache' = {}
<1>1. ram \in [Processor[m].Memory -> Content(m)]
  BY DEF BootTypes, Cpu!TypeOK, Content
<1>2. CASE Processor[m].DCacheSize = 0
  <2>1. ram' = [ram EXCEPT ![a] = w] /\ dcache' = dcache /\ DOMAIN dcache = {}
    BY <1>2 DEF Cpu!Store, BootTypes
  <2>. QED
    BY <1>1, <2>1 DEF Cpu!View, BootTypes
<1>3. CASE Processor[m].DCacheSize # 0
  <2>1. /\ dcache' = [b \in DOMAIN dcache \cup {a} |-> IF b = a THEN w ELSE dcache[b]]
        /\ ram' = ram
    BY <1>3 DEF Cpu!Store
  <2>2. DOMAIN dcache' = DOMAIN dcache \cup {a}
    BY <2>1
  <2>3. \A b \in DOMAIN dcache' : dcache'[b] \in Content(m)
    BY <2>1, <2>2 DEF BootTypes
  <2>4. \A b \in Processor[m].Memory :
          Cpu(m)!View(b)' = IF b = a THEN w ELSE Cpu(m)!View(b)
    BY <2>1, <2>2 DEF Cpu!View
  <2>. QED
    BY <1>1, <1>3, <2>1, <2>2, <2>3, <2>4
<1>. QED
  BY <1>2, <1>3

\* What loads see is a word.
LEMMA Views == ASSUME NEW m \in DOMAIN Processor, BootTypes(m), NEW a \in Processor[m].Memory
               PROVE  Cpu(m)!View(a) \in Content(m)
BY DEF BootTypes, Cpu!TypeOK, Content, Cpu!View

\* Steps that leave the memory and the cache as they are.
LEMMA SameMemory ==
  ASSUME NEW m \in DOMAIN Processor, UNCHANGED <<ram, dcache>>
  PROVE  /\ \A a : Cpu(m)!View(a)' = Cpu(m)!View(a)
         /\ CopiesStay(m) /\ (pc' \in {"reset", "dcache"} \/ pc \notin {"reset", "dcache"})
              => CopiesStay(m)'
<1>1. \A a : Cpu(m)!View(a)' = Cpu(m)!View(a)
  BY DEF Cpu!View
<1>2. Cpu(m)!Downloaded' = Cpu(m)!Downloaded /\ KeptWords(m)' = KeptWords(m)
  OBVIOUS
<1>. QED
  BY <1>1, <1>2 DEF CopiesStay

\* The start, and every press of the button.
LEMMA InitBoots == ASSUME NEW m \in DOMAIN Processor, Cpu(m)!Init
                   PROVE  BootInv(m)
<1>. USE DEF Cpu!Init
<1>1. BootTypes(m)
  <2>1. ram \in [Processor[m].Memory -> Content(m)]
    BY Download
  <2>2. DOMAIN dcache \subseteq Processor[m].Memory
        /\ \A a \in DOMAIN dcache : dcache[a] \in Content(m)
    BY DEF Content
  <2>3. ready \in [0 .. Processor[m].ShadowSets -> SUBSET {"sp", "gp", "zero", "others"}]
    BY DEF Cpu!Fresh
  <2>4. Processor[m].DCacheSize = 0 => DOMAIN dcache = {}
    OBVIOUS
  <2>5. r2 \in Int
    BY Numbers
  <2>6. section \in 1 .. Len(Cpu(m)!Sections) + 1
    <3>1. Len(Cpu(m)!Sections) = 3 /\ section = 1
      BY SectionsAre
    <3>. QED
      BY <3>1
  <2>7. prs \in 0 .. Processor[m].ShadowSets /\ crs \in 0 .. Processor[m].ShadowSets
    BY Numbers
  <2>8. Cpu(m)!TypeOK
    BY <2>1, <2>2, <2>6, <2>7 DEF Cpu!TypeOK, Content
  <2>. QED
    BY <2>2, <2>3, <2>4, <2>5, <2>8 DEF BootTypes
<1>2. CopiesStay(m)
  BY DEF CopiesStay
<1>3. CacheSetUp(m)
  BY Numbers DEF CacheSetUp
<1>4. RegistersSetUp(m)
  BY DEF RegistersSetUp
<1>5. InMemory(m)
  BY DEF InMemory
<1>6. InOrder(m)
  BY DEF InOrder
<1>. QED
  BY <1>1, <1>2, <1>3, <1>4, <1>5, <1>6 DEF BootInv

LEMMA ResetBoots == ASSUME NEW m \in DOMAIN Processor, BootInv(m), Cpu(m)!Reset
                    PROVE  BootInv(m)'
<1>. USE DEF Cpu!Reset
<1>1. BootTypes(m)'
  <2>1. ready' \in [0 .. Processor[m].ShadowSets -> SUBSET {"sp", "gp", "zero", "others"}]
    BY DEF Cpu!Fresh
  <2>2. r2' \in Int
    BY Numbers
  <2>3. section' \in 1 .. Len(Cpu(m)!Sections) + 1
    <3>1. Len(Cpu(m)!Sections) = 3 /\ section' = 1
      BY SectionsAre
    <3>. QED
      BY <3>1
  <2>4. prs' \in 0 .. Processor[m].ShadowSets /\ crs' \in 0 .. Processor[m].ShadowSets
    BY Numbers
  <2>5. Cpu(m)!TypeOK'
    BY <2>3, <2>4 DEF Cpu!TypeOK, BootInv, BootTypes
  <2>. QED
    BY <2>1, <2>2, <2>5 DEF BootTypes, BootInv
<1>2. CopiesStay(m)'
  BY SameMemory DEF BootInv
<1>3. CacheSetUp(m)'
  BY Numbers DEF CacheSetUp
<1>4. RegistersSetUp(m)'
  BY DEF RegistersSetUp
<1>5. InMemory(m)'
  BY DEF InMemory
<1>6. InOrder(m)'
  BY DEF InOrder
<1>. QED
  BY <1>1, <1>2, <1>3, <1>4, <1>5, <1>6 DEF BootInv

\* One lemma per step: it keeps the invariant.
LEMMA InitIcacheBoots == ASSUME NEW m \in DOMAIN Processor, BootInv(m), Cpu(m)!InitIcache
                         PROVE  BootInv(m)'
<1>. USE DEF Cpu!InitIcache, Cpu!interrupts, Cpu!program
<1>1. BootTypes(m)'
  <2>1. r2 \in Int /\ r2 > 0 /\ r2 <= Processor[m].ICacheSize
    BY DEF BootInv, BootTypes, CacheSetUp
  <2>2. r2 % Processor[m].ICacheSize \in 0 .. Processor[m].ICacheSize - 1
    BY <2>1, Numbers
  <2>3. r2' \in Int
    BY <2>1, Numbers
  <2>4. Cpu(m)!TypeOK'
    BY <2>2 DEF Cpu!TypeOK, BootInv, BootTypes
  <2>. QED
    BY <2>3, <2>4 DEF BootTypes, BootInv
<1>2. CopiesStay(m)'
  BY SameMemory DEF BootInv
<1>3. CacheSetUp(m)'
  BY Numbers DEF CacheSetUp, BootInv, BootTypes
<1>4. RegistersSetUp(m)'
  BY DEF RegistersSetUp, BootInv
<1>5. InMemory(m)'
  BY DEF InMemory, BootInv
<1>6. InOrder(m)'
  BY DEF InOrder, BootInv
<1>. QED
  BY <1>1, <1>2, <1>3, <1>4, <1>5, <1>6 DEF BootInv

\* The cache's lines are numbered from 0, and its size is theirs together.
LEMMA CacheLines ==
  ASSUME NEW m \in DOMAIN Processor, Processor[m].DCacheSize # 0
  PROVE  /\ Cpu(m)!Lines \in Nat \ {0}
         /\ Processor[m].DCacheSize = Processor[m].DCacheLine * Cpu(m)!Lines
         /\ Processor[m].DCacheSize \div Processor[m].DCacheLine = Cpu(m)!Lines
<1>. DEFINE n == Processor[m].DCacheSize \div Processor[m].DCacheLine
            d == Processor[m].DCacheLine
            z == Processor[m].DCacheSize
<1>1. z \in Nat /\ z # 0 /\ d \in Nat \ {0} /\ z % d = 0
  BY Numbers
<1>2. n \in Int /\ z = d * n + (z % d)
  <2>1. z \in Int
    BY <1>1
  <2>. QED
    BY <1>1, <2>1, Divides
<1>3. n = Cpu(m)!Lines
  BY DEF Cpu!Lines
<1>4. z = d * n
  <2>. HIDE DEF z, d, n
  <2>1. d * n \in Int
    BY <1>1, <1>2
  <2>. QED
    BY <1>1, <1>2, <2>1
<1>5. n > 0
  <2>. HIDE DEF z, d, n
  <2>1. CASE n <= 0
    <3>1. d * n <= d * 0 /\ d * 0 = 0
      BY <1>1, <1>2, <2>1, TimesMono
    <3>. QED
      BY <1>1, <1>4, <3>1
  <2>. QED
    BY <1>2, <2>1
<1>. QED
  BY <1>2, <1>3, <1>4, <1>5

\* The line an address belongs in is one of them.
LEMMA LineIs ==
  ASSUME NEW m \in DOMAIN Processor, Processor[m].DCacheSize # 0, NEW a \in Int
  PROVE  /\ LineOf(m, a) \in 0 .. Cpu(m)!Lines - 1
         /\ LineOf(m, a) * Processor[m].DCacheLine \in 0 .. Processor[m].DCacheSize - 1
<1>. DEFINE l == LineOf(m, a)
            n == Cpu(m)!Lines
            d == Processor[m].DCacheLine
            z == Processor[m].DCacheSize
<1>1. z \in Nat /\ d \in Nat \ {0} /\ n \in Nat \ {0} /\ z = d * n
  BY Numbers, CacheLines
<1>2. a \div d \in Int
  BY <1>1, Divides
<1>3. l \in 0 .. n - 1
  BY <1>1, <1>2, Divides DEF LineOf
<1>. HIDE DEF l, n, d, z
<1>4. d * l <= d * (n - 1) /\ d * (n - 1) = d * n - d
  BY <1>1, <1>3, TimesMono
<1>5. l * d = d * l /\ d * l \in Nat
  BY <1>1, <1>3, NatTimes
<1>6. l * d \in 0 .. z - 1
  BY <1>1, <1>4, <1>5
<1>. QED
  BY <1>3, <1>6 DEF l, n, d, z

LEMMA StartBoots == ASSUME NEW m \in DOMAIN Processor, BootInv(m), Cpu(m)!Start
                    PROVE  BootInv(m)'
<1>. USE DEF Cpu!Start, Cpu!interrupts, Cpu!program, Cpu!memory, Cpu!Goto
<1>1. BootTypes(m)'
  <2>1. Cpu(m)!TypeOK'
    BY Numbers DEF Cpu!TypeOK, BootInv, BootTypes
  <2>. QED
    BY <2>1, Numbers DEF BootTypes, BootInv
<1>2. CopiesStay(m)'
  BY SameMemory DEF BootInv
<1>3. CacheSetUp(m)'
  <2>1. \A a \in DOMAIN dcache :
          LineOf(m, a) * Processor[m].DCacheLine \in 0 .. Processor[m].DCacheSize - 1
    <3>. SUFFICES ASSUME NEW a \in DOMAIN dcache
                  PROVE  LineOf(m, a) * Processor[m].DCacheLine
                           \in 0 .. Processor[m].DCacheSize - 1
      OBVIOUS
    <3>1. Processor[m].DCacheSize # 0 /\ a \in Processor[m].Memory
      BY DEF BootInv, BootTypes, Cpu!TypeOK
    <3>2. a \in Int
      BY <3>1, Layout
    <3>. QED
      BY <3>1, <3>2, LineIs
  <2>. QED
    BY <2>1, Numbers DEF CacheSetUp
<1>4. RegistersSetUp(m)'
  BY DEF RegistersSetUp, BootInv
<1>5. InMemory(m)'
  BY DEF InMemory, BootInv
<1>6. InOrder(m)'
  BY DEF InOrder, BootInv
<1>. QED
  BY <1>1, <1>2, <1>3, <1>4, <1>5, <1>6 DEF BootInv

\* Each turn of the loop throws one line away; what is left are those to come.
LEMMA InitDcacheBoots == ASSUME NEW m \in DOMAIN Processor, BootInv(m), Cpu(m)!InitDcache
                         PROVE  BootInv(m)'
<1>. DEFINE d == Processor[m].DCacheLine
            z == Processor[m].DCacheSize
            k == (r2 \div d) % Cpu(m)!Lines
<1>1. /\ pc = "dcache" /\ r2 > 0 /\ r2 \in Int /\ r2 <= z /\ z \in Nat /\ z # 0
      /\ d \in Nat \ {0}
  BY Numbers DEF Cpu!InitDcache, BootInv, BootTypes, CacheSetUp
<1>2. /\ dcache' = [a \in {b \in DOMAIN dcache : LineOf(m, b) # k} |-> dcache[a]]
      /\ r2' = r2 - Cpu(m)!DStep
      /\ UNCHANGED <<pc, ram, icache, section, ready, prs, crs, log, PIE, ienable,
                     requests, calls, atexit, stdout>>
  <2>1. \A b : Cpu(m)!InLine(b, k) <=> LineOf(m, b) = k
    BY DEF Cpu!InLine, LineOf
  <2>. QED
    BY <2>1 DEF Cpu!InitDcache, Cpu!Without, Cpu!Restrict, Cpu!interrupts, Cpu!program
<1>3. /\ DOMAIN dcache' \subseteq DOMAIN dcache
      /\ \A a \in DOMAIN dcache' : dcache'[a] = dcache[a] /\ LineOf(m, a) # k
  BY <1>2
<1>4. /\ Cpu(m)!DStep \in Nat \ {0}
      /\ \/ Cpu(m)!DStep = 1 /\ Processor[m].Ecc
         \/ Cpu(m)!DStep = d /\ ~ Processor[m].Ecc
  <2>1. CASE Processor[m].Ecc
    BY <2>1 DEF Cpu!DStep
  <2>2. CASE ~ Processor[m].Ecc
    BY <1>1, <2>2 DEF Cpu!DStep
  <2>. QED
    BY <2>1, <2>2
<1>5. BootTypes(m)'
  <2>1. Cpu(m)!TypeOK'
    BY <1>2, <1>3 DEF BootInv, BootTypes, Cpu!TypeOK
  <2>2. r2' \in Int
    BY <1>1, <1>2, <1>4
  <2>. QED
    BY <1>2, <1>3, <2>1, <2>2 DEF BootInv, BootTypes
<1>6. CopiesStay(m)'
  BY <1>1, <1>2 DEF CopiesStay, BootInv
<1>7. CacheSetUp(m)'
  <2>1. r2' <= z /\ r2' \in Int
    BY <1>1, <1>2, <1>4
  <2>2. ASSUME ~ Processor[m].Ecc PROVE r2 % d = 0 /\ r2' % d = 0
    <3>1. r2 % d = 0
      BY <1>1, <2>2 DEF BootInv, CacheSetUp
    <3>2. r2' = r2 - d
      BY <1>2, <1>4, <2>2
    <3>3. r2 \div d \in Int /\ r2 = d * (r2 \div d) + (r2 % d)
      BY <1>1, Divides
    <3>. DEFINE q == r2 \div d
    <3>. HIDE DEF q
    <3>4. d * q \in Int /\ d * (q - 1) = d * q - d /\ q - 1 \in Int /\ d * (q - 1) \in Int
      BY <1>1, <3>3 DEF q
    <3>5. r2' = d * (q - 1) + 0
      BY <1>1, <3>1, <3>2, <3>3, <3>4 DEF q
    <3>6. 0 \in 0 .. d - 1
      BY <1>1
    <3>7. (d * (q - 1) + 0) % d = 0
      BY <1>1, <3>4, <3>6, Quotient
    <3>. QED
      BY <3>1, <3>5, <3>7
  <2>3. ASSUME NEW a \in DOMAIN dcache'
        PROVE  r2' >= IF LineOf(m, a) = 0 THEN z ELSE LineOf(m, a) * d
    <3>. DEFINE l == LineOf(m, a)
                n == Cpu(m)!Lines
    <3>1. /\ n \in Nat \ {0} /\ z = d * n /\ z \div d = n /\ a \in Int
          /\ l \in 0 .. n - 1 /\ l # k
          /\ r2 >= IF l = 0 THEN z ELSE l * d
      <4>1. a \in Int /\ a \in DOMAIN dcache
        BY <1>3, Layout DEF BootInv, BootTypes, Cpu!TypeOK
      <4>2. l \in 0 .. n - 1 /\ n \in Nat \ {0} /\ z = d * n /\ z \div d = n
        BY <1>1, <4>1, LineIs, CacheLines
      <4>3. r2 >= IF l = 0 THEN z ELSE l * d
        BY <1>1, <4>1 DEF BootInv, CacheSetUp
      <4>. QED
        BY <1>3, <4>1, <4>2, <4>3
    <3>. DEFINE t == r2 \div d
    <3>2. k = t % n
      OBVIOUS
    <3>3. t \in Int /\ r2 % d \in 0 .. d - 1 /\ r2 = d * t + (r2 % d)
      BY <1>1, Divides
    <3>. HIDE DEF l, n, k
    <3>4. CASE l = 0
      <4>1. r2 = z
        BY <1>1, <3>1, <3>4
      <4>2. t = n
        BY <3>1, <4>1
      <4>. HIDE DEF t
      <4>3. n = n * 1 + 0 /\ 0 \in 0 .. n - 1 /\ 1 \in Int
        BY <3>1
      <4>4. n % n = 0
        BY <3>1, <4>3, Quotient
      <4>. QED
        BY <3>1, <3>2, <3>4, <4>2, <4>4
    <3>5. CASE l # 0 /\ r2' < l * d
      <4>1. l * d = d * l /\ d * l \in Int
        BY <1>1, <3>1
      <4>2. r2 = d * l
        <5>1. CASE Cpu(m)!DStep = 1
          BY <1>1, <1>2, <3>1, <3>5, <4>1, <5>1
        <5>2. CASE ~ Processor[m].Ecc
          <6>1. r2 = d * t
            <7>1. d * t \in Int
              BY <1>1, <3>3
            <7>. QED
              BY <2>2, <3>3, <5>2, <7>1
          <6>. HIDE DEF t
          <6>2. r2' = d * t - d
            BY <1>2, <1>4, <5>2, <6>1
          <6>3. CASE l <= t - 1
            <7>1. d * l <= d * (t - 1) /\ d * (t - 1) = d * t - d
              <8>1. t - 1 \in Int /\ l \in Int /\ d \in Nat
                BY <1>1, <3>1, <3>3
              <8>2. d * l <= d * (t - 1)
                BY <6>3, <8>1, TimesMono
              <8>. HIDE DEF d
              <8>3. d * (t - 1) = d * t - d
                BY <3>3, <8>1
              <8>. QED
                BY <8>2, <8>3
            <7>. QED
              BY <1>1, <2>1, <3>5, <4>1, <6>1, <6>2, <7>1
          <6>4. CASE t <= l
            <7>1. d * t <= d * l
              BY <1>1, <3>1, <3>3, <6>4, TimesMono
            <7>. QED
              BY <1>1, <3>1, <3>5, <4>1, <6>1, <7>1
          <6>. QED
            BY <3>1, <3>3, <6>3, <6>4
        <5>. QED
          BY <1>4, <5>1, <5>2
      <4>3. t = l
        <5>1. r2 = d * l + 0 /\ 0 \in 0 .. d - 1
          BY <1>1, <4>1, <4>2
        <5>2. (d * l + 0) \div d = l
          <6>1. l \in Int
            BY <3>1
          <6>. QED
            BY <1>1, <5>1, <6>1, Quotient
        <5>. QED
          BY <5>1, <5>2
      <4>. HIDE DEF t
      <4>4. l % n = l
        BY <3>1
      <4>. QED
        BY <3>1, <3>2, <4>3, <4>4
    <3>6. l * d \in Int
      BY <1>1, <3>1
    <3>. QED
      BY <2>1, <3>1, <3>4, <3>5, <3>6 DEF l
  <2>. QED
    BY <1>1, <1>2, <2>1, <2>2, <2>3 DEF CacheSetUp
<1>8. RegistersSetUp(m)'
  BY <1>1, <1>2 DEF RegistersSetUp, BootInv
<1>9. InMemory(m)'
  BY <1>1, <1>2 DEF InMemory, BootInv
<1>10. InOrder(m)'
  BY <1>1, <1>2 DEF InOrder, BootInv
<1>. QED
  BY <1>5, <1>6, <1>7, <1>8, <1>9, <1>10 DEF BootInv

\* After the last turn nothing is left in the cache.
LEMMA PointersBoots == ASSUME NEW m \in DOMAIN Processor, BootInv(m), Cpu(m)!Pointers
                       PROVE  BootInv(m)'
<1>1. /\ pc = "dcache" /\ pc' = "shadow" /\ r2 <= 0 /\ r2 \in Int
      /\ ready' = [ready EXCEPT ![0] = {"sp", "gp"} \cup Cpu(m)!Parity]
      /\ r2' = Processor[m].ShadowSets
      /\ UNCHANGED <<ram, dcache, icache, section, prs, crs, PIE, ienable,
                     requests, calls, atexit, stdout>>
  BY DEF Cpu!Pointers, Cpu!Goto, Cpu!memory, Cpu!interrupts, Cpu!program,
         BootInv, BootTypes
<1>2. Cpu(m)!Parity \subseteq {"others"}
  BY DEF Cpu!Parity
<1>3. DOMAIN dcache = {}
  <2>. SUFFICES ASSUME NEW a \in DOMAIN dcache PROVE FALSE
    OBVIOUS
  <2>1. Processor[m].DCacheSize # 0 /\ a \in Int
    BY Layout DEF BootInv, BootTypes, Cpu!TypeOK
  <2>. DEFINE l == LineOf(m, a)
              d == Processor[m].DCacheLine
  <2>2. /\ l \in Int /\ l >= 0 /\ l * d \in Int /\ l * d >= 0
        /\ Processor[m].DCacheSize \in Nat /\ d \in Nat \ {0}
    BY <2>1, LineIs, CacheLines, Numbers
  <2>3. r2 >= IF l = 0 THEN Processor[m].DCacheSize ELSE l * d
    BY <1>1 DEF BootInv, CacheSetUp
  <2>. HIDE DEF l, d
  <2>4. l # 0 => l * d > 0
    <3>1. l # 0 => d * 1 <= d * l /\ d * 1 = d /\ d * l = l * d
      BY <2>2, TimesMono
    <3>. QED
      BY <2>2, <3>1
  <2>. QED
    BY <1>1, <2>1, <2>2, <2>3, <2>4
<1>4. BootTypes(m)'
  <2>1. Cpu(m)!TypeOK'
    BY <1>1 DEF BootInv, BootTypes, Cpu!TypeOK
  <2>2. ready' \in [0 .. Processor[m].ShadowSets -> SUBSET {"sp", "gp", "zero", "others"}]
    BY <1>1, <1>2 DEF BootInv, BootTypes
  <2>. QED
    BY <1>1, <2>1, <2>2, Numbers DEF BootInv, BootTypes
<1>5. CopiesStay(m)'
  BY <1>1, <1>3 DEF CopiesStay, BootInv
<1>6. CacheSetUp(m)'
  BY <1>1, <1>3 DEF CacheSetUp, BootInv
<1>7. RegistersSetUp(m)'
  <2>1. {"sp", "gp"} \subseteq ready'[0]
    <3>1. 0 \in 0 .. Processor[m].ShadowSets
      BY Numbers
    <3>. QED
      BY <1>1, <3>1 DEF BootInv, BootTypes
  <2>2. prs' = 0 /\ crs' = 0
    BY <1>1 DEF RegistersSetUp, BootInv
  <2>. QED
    BY <1>1, <2>1, <2>2, Numbers DEF RegistersSetUp, BootInv
<1>8. InMemory(m)'
  BY <1>1 DEF InMemory, BootInv
<1>9. InOrder(m)'
  BY <1>1 DEF InOrder, BootInv
<1>. QED
  BY <1>4, <1>5, <1>6, <1>7, <1>8, <1>9 DEF BootInv

\* The shadow sets are set up one by one.
LEMMA ShadowBoots == ASSUME NEW m \in DOMAIN Processor, BootInv(m), Cpu(m)!Shadow
                     PROVE  BootInv(m)'
<1>1. /\ pc = "shadow" /\ r2 > 0 /\ r2 \in 0 .. Processor[m].ShadowSets
      /\ prs = Processor[m].ShadowSets - r2 /\ prs' = prs + 1 /\ r2' = r2 - 1
      /\ ready' = [ready EXCEPT ![prs + 1] = {"zero", "gp"} \cup Cpu(m)!Parity]
      /\ UNCHANGED <<pc, ram, dcache, icache, section, crs, PIE, ienable,
                     requests, calls, atexit, stdout>>
  BY DEF Cpu!Shadow, Cpu!memory, Cpu!interrupts, Cpu!program, BootInv, RegistersSetUp
<1>2. Cpu(m)!Parity \subseteq {"others"} /\ Processor[m].ShadowSets \in Nat
  BY Numbers DEF Cpu!Parity
<1>3. prs + 1 \in 1 .. Processor[m].ShadowSets /\ prs \in Int /\ r2 \in Int
  BY <1>1, <1>2
<1>4. /\ ready' \in [0 .. Processor[m].ShadowSets -> SUBSET {"sp", "gp", "zero", "others"}]
      /\ {"zero", "gp"} \subseteq ready'[prs + 1]
      /\ \A n \in 0 .. Processor[m].ShadowSets : n # prs + 1 => ready'[n] = ready[n]
  BY <1>1, <1>2, <1>3 DEF BootInv, BootTypes
<1>5. BootTypes(m)'
  <2>1. Cpu(m)!TypeOK'
    BY <1>1, <1>3 DEF BootInv, BootTypes, Cpu!TypeOK
  <2>. QED
    BY <1>1, <1>3, <1>4, <2>1 DEF BootInv, BootTypes
<1>6. CopiesStay(m)'
  BY <1>1, SameMemory DEF BootInv
<1>7. CacheSetUp(m)'
  BY <1>1 DEF CacheSetUp, BootInv
<1>8. RegistersSetUp(m)'
  <2>1. {"sp", "gp"} \subseteq ready'[0]
    <3>1. 0 \in 0 .. Processor[m].ShadowSets /\ 0 # prs + 1
      BY <1>2, <1>3
    <3>. QED
      BY <1>1, <1>4, <3>1 DEF RegistersSetUp, BootInv
  <2>2. \A n \in 1 .. Processor[m].ShadowSets : n <= prs + 1 => {"zero", "gp"} \subseteq ready'[n]
    <3>. SUFFICES ASSUME NEW n \in 1 .. Processor[m].ShadowSets, n <= prs + 1
                  PROVE  {"zero", "gp"} \subseteq ready'[n]
      OBVIOUS
    <3>1. CASE n = prs + 1
      BY <1>4, <3>1
    <3>2. CASE n # prs + 1
      <4>1. n <= prs
        BY <1>3, <3>2
      <4>. QED
        BY <1>1, <1>4, <3>2, <4>1 DEF RegistersSetUp, BootInv
    <3>. QED
      BY <3>1, <3>2
  <2>3. r2' \in 0 .. Processor[m].ShadowSets /\ prs' = Processor[m].ShadowSets - r2'
    BY <1>1, <1>2
  <2>4. crs' = 0
    BY <1>1 DEF RegistersSetUp, BootInv
  <2>. QED
    BY <1>1, <2>1, <2>2, <2>3, <2>4 DEF RegistersSetUp, BootInv
<1>9. InMemory(m)'
  BY <1>1 DEF InMemory, BootInv
<1>10. InOrder(m)'
  BY <1>1 DEF InOrder, BootInv
<1>. QED
  BY <1>5, <1>6, <1>7, <1>8, <1>9, <1>10 DEF BootInv

LEMMA BssFromBoots == ASSUME NEW m \in DOMAIN Processor, BootInv(m), Cpu(m)!BssFrom
                      PROVE  BootInv(m)'
<1>1. /\ pc = "shadow" /\ r2 = 0 /\ DOMAIN dcache = {}
      /\ prs = Processor[m].ShadowSets
      /\ UNCHANGED <<ram, dcache, icache, section, ready, prs, crs, PIE, ienable,
                     requests, calls, atexit, stdout>>
  BY Numbers DEF Cpu!BssFrom, Cpu!memory, Cpu!interrupts, Cpu!program, BootInv,
                 RegistersSetUp, CacheSetUp
<1>2. \/ Cpu(m)!Bss = {} /\ pc' = "load" /\ r2' = 0
      \/ pc' = "bss" /\ r2' = Processor[m].bss_start /\ r2' \in Cpu(m)!Bss
  BY <1>1, Numbers DEF Cpu!BssFrom, Cpu!Goto, Cpu!Bss
<1>3. r2' \in Int
  BY <1>2, Numbers
<1>4. BootTypes(m)'
  <2>1. Cpu(m)!TypeOK'
    BY <1>1, <1>2 DEF BootInv, BootTypes, Cpu!TypeOK
  <2>. QED
    BY <1>1, <1>3, <2>1 DEF BootInv, BootTypes
<1>5. CopiesStay(m)'
  BY <1>1, SameMemory DEF BootInv
<1>6. CacheSetUp(m)'
  BY <1>1, <1>2 DEF CacheSetUp, BootInv
<1>7. RegistersSetUp(m)'
  BY <1>1, <1>2, Numbers DEF RegistersSetUp, BootInv
<1>8. InMemory(m)'
  <2>1. section' = 1
    BY <1>1 DEF InMemory, BootInv
  <2>2. CASE pc' = "bss"
    <3>1. \A a \in Cpu(m)!Bss : ~ (a < r2')
      BY <1>2, <2>2, Numbers DEF Cpu!Bss
    <3>. QED
      BY <1>2, <2>1, <2>2, <3>1 DEF InMemory
  <2>3. CASE pc' = "load"
    <3>1. Cpu(m)!Bss = {} /\ r2' = 0
      BY <1>2, <2>3
    <3>. DEFINE s == Cpu(m)!Sections[1]
    <3>2. s \in Sects
      BY SectionsAre
    <3>. HIDE DEF s
    <3>3. /\ Processor[m].ram_start[s] + r2' <= Processor[m].ram_end[s]
          /\ \A a \in Cpu(m)!Run(s) : ~ (a < Processor[m].ram_start[s] + r2')
      BY <3>1, <3>2, Layout DEF Cpu!Run
    <3>. QED
      BY <2>1, <2>3, <3>1, <3>3 DEF InMemory, s
  <2>. QED
    BY <1>2, <2>2, <2>3
<1>9. InOrder(m)'
  BY <1>1, <1>2 DEF InOrder, BootInv
<1>. QED
  BY <1>4, <1>5, <1>6, <1>7, <1>8, <1>9 DEF BootInv

\* Nothing is kept where the program stores.
LEMMA StoresKeep ==
  ASSUME NEW m \in DOMAIN Processor, BootTypes(m), CopiesStay(m),
         NEW a \in Processor[m].Memory \ KeptWords(m),
         NEW w \in Content(m), Cpu(m)!Store(a, w), pc \notin {"reset", "dcache"}
  PROVE  CopiesStay(m)'
<1>1. \A b \in KeptWords(m) : b \in Processor[m].Memory /\ b # a
  BY KeptAre
<1>2. \A b \in KeptWords(m) : ram'[b] = ram[b]
  BY <1>1, Stores
<1>3. DOMAIN dcache' \cap KeptWords(m) = {}
  BY Stores DEF CopiesStay
<1>. QED
  BY <1>2, <1>3 DEF CopiesStay

\* A turn clears one word.
LEMMA ClearBssBoots == ASSUME NEW m \in DOMAIN Processor, BootInv(m), Cpu(m)!ClearBss
                       PROVE  BootInv(m)'
<1>1. /\ pc = "bss" /\ Cpu(m)!Store(r2, Cpu(m)!Zero)
      /\ UNCHANGED <<icache, section, ready, prs, crs, PIE, ienable,
                     requests, calls, atexit, stdout>>
  BY DEF Cpu!ClearBss, Cpu!interrupts, Cpu!program
<1>2. /\ r2 \in Cpu(m)!Bss /\ r2 \in Processor[m].Memory \ KeptWords(m) /\ r2 \in Int
      /\ Cpu(m)!Zero \in Content(m)
  BY <1>1, KeptAre DEF BootInv, InMemory, Content
<1>3. \/ /\ pc' = "bss" /\ r2' = r2 + 1 /\ r2' \in Cpu(m)!Bss
      \/ /\ pc' = "load" /\ r2' = 0 /\ \A a \in Cpu(m)!Bss : a <= r2
  BY <1>2, Numbers DEF Cpu!ClearBss, Cpu!Goto, Cpu!Bss
<1>4. \A a \in Cpu(m)!Bss : a <= r2 => Cpu(m)!View(a)' = Cpu(m)!Zero
  <2>. SUFFICES ASSUME NEW a \in Cpu(m)!Bss, a <= r2
                PROVE  Cpu(m)!View(a)' = Cpu(m)!Zero
    OBVIOUS
  <2>1. a \in Processor[m].Memory /\ a \in Int
    BY KeptAre
  <2>2. Cpu(m)!View(a)' = IF a = r2 THEN Cpu(m)!Zero ELSE Cpu(m)!View(a)
    BY <1>1, <1>2, <2>1, Stores DEF BootInv
  <2>3. a # r2 => a < r2
    BY <1>2, <2>1
  <2>. QED
    BY <1>1, <2>2, <2>3 DEF BootInv, InMemory
<1>5. BootTypes(m)'
  <2>1. /\ ram' \in [Processor[m].Memory -> Content(m)]
        /\ DOMAIN dcache' \subseteq DOMAIN dcache \cup {r2}
        /\ \A b \in DOMAIN dcache' : dcache'[b] \in Content(m)
        /\ Processor[m].DCacheSize = 0 => DOMAIN dcache' = {}
    BY <1>1, <1>2, Stores DEF BootInv
  <2>2. Cpu(m)!TypeOK'
    BY <1>1, <1>2, <1>3, <2>1 DEF BootInv, BootTypes, Cpu!TypeOK, Content
  <2>3. r2' \in Int
    BY <1>2, <1>3
  <2>. QED
    BY <1>1, <2>1, <2>2, <2>3 DEF BootInv, BootTypes
<1>6. CopiesStay(m)'
  BY <1>1, <1>2, StoresKeep DEF BootInv
<1>7. CacheSetUp(m)'
  BY <1>3 DEF CacheSetUp
<1>8. RegistersSetUp(m)'
  BY <1>1, <1>3 DEF RegistersSetUp, BootInv
<1>9. InMemory(m)'
  <2>1. section' = 1
    BY <1>1 DEF InMemory, BootInv
  <2>2. CASE pc' = "bss"
    <3>1. \A a \in Cpu(m)!Bss : a < r2' => Cpu(m)!View(a)' = Cpu(m)!Zero
      <4>. SUFFICES ASSUME NEW a \in Cpu(m)!Bss, a < r2'
                    PROVE  a <= r2
        BY <1>4
      <4>. QED
        BY <1>2, <1>3, <2>2, KeptAre
    <3>. QED
      BY <1>3, <2>1, <2>2, <3>1 DEF InMemory
  <2>3. CASE pc' = "load"
    <3>1. r2' = 0 /\ \A a \in Cpu(m)!Bss : Cpu(m)!View(a)' = Cpu(m)!Zero
      BY <1>3, <1>4, <2>3
    <3>. DEFINE s == Cpu(m)!Sections[1]
    <3>2. s \in Sects
      BY SectionsAre
    <3>. HIDE DEF s
    <3>3. /\ Processor[m].ram_start[s] + r2' <= Processor[m].ram_end[s]
          /\ \A a \in Cpu(m)!Run(s) : ~ (a < Processor[m].ram_start[s] + r2')
      BY <3>1, <3>2, Layout DEF Cpu!Run
    <3>. QED
      BY <2>1, <2>3, <3>1, <3>3 DEF InMemory, s
  <2>. QED
    BY <1>3, <2>2, <2>3
<1>10. InOrder(m)'
  BY <1>1, <1>3 DEF InOrder, BootInv
<1>. QED
  BY <1>5, <1>6, <1>7, <1>8, <1>9, <1>10 DEF BootInv

LEMMA SectionIs == ASSUME NEW m \in DOMAIN Processor, Cpu(m)!TypeOK
                   PROVE  section \in 1 .. 4
<1>1. Len(Cpu(m)!Sections) = 3
  BY SectionsAre
<1>2. section \in 1 .. Len(Cpu(m)!Sections) + 1
  BY DEF Cpu!TypeOK
<1>. QED
  BY <1>1, <1>2

\* The word that is loaded is the one linked for that address, since its copy is
\* as it was downloaded and in no cache.
LEMMA LoadWordBoots == ASSUME NEW m \in DOMAIN Processor, BootInv(m), Cpu(m)!LoadWord
                       PROVE  BootInv(m)'
<1>. DEFINE s == Cpu(m)!Sections[section]
            to == Processor[m].ram_start[s] + r2
            from == Processor[m].flash_start[s] + r2
<1>1. /\ pc = "load" /\ section <= 3 /\ Cpu(m)!Copied(s) /\ to # Processor[m].ram_end[s]
      /\ Cpu(m)!Store(to, Cpu(m)!View(from)) /\ r2' = r2 + 1
      /\ UNCHANGED <<pc, icache, section, ready, prs, crs, PIE, ienable,
                     requests, calls, atexit, stdout>>
  BY SectionsAre DEF Cpu!LoadWord, Cpu!interrupts, Cpu!program
<1>2. section \in 1 .. 3 /\ s \in Sects /\ r2 \in Int
  <2>1. section \in 1 .. 4 /\ r2 \in Int
    BY SectionIs DEF BootInv, BootTypes
  <2>2. section \in 1 .. 3
    BY <1>1, <2>1
  <2>. QED
    BY <2>1, <2>2, SectionsAre
<1>3. /\ to <= Processor[m].ram_end[s] /\ r2 >= 0
      /\ \A a \in Cpu(m)!Run(s) : a < to => Cpu(m)!View(a) = a
      /\ \A a \in Cpu(m)!Bss : Cpu(m)!View(a) = Cpu(m)!Zero
      /\ \A i \in 1 .. 3 : i < section =>
           \A a \in Cpu(m)!Run(Cpu(m)!Sections[i]) : Cpu(m)!View(a) = a
  BY <1>1, <1>2 DEF BootInv, InMemory
<1>. HIDE DEF s
<1>4. /\ Processor[m].ram_start[s] \in Nat /\ Processor[m].ram_end[s] \in Nat
      /\ to < Processor[m].ram_end[s] /\ to \in Int
  BY <1>1, <1>2, <1>3, Layout
<1>5. from \in Cpu(m)!AllCopies /\ Cpu(m)!Downloaded[from] = to /\ to \in Cpu(m)!Run(s)
  BY <1>1, <1>2, <1>3, <1>4, Download
<1>. HIDE DEF to, from
<1>6. Cpu(m)!View(from) = to
  <2>1. from \in KeptWords(m)
    BY <1>5 DEF KeptWords
  <2>. QED
    BY <1>1, <1>5, <2>1 DEF BootInv, CopiesStay, Cpu!View
<1>7. /\ to \in Processor[m].Memory \ KeptWords(m) /\ to \in Content(m)
      /\ to \notin Cpu(m)!Bss /\ Cpu(m)!Store(to, to)
  BY <1>1, <1>2, <1>5, <1>6, KeptAre DEF Content
<1>8. \A a \in Processor[m].Memory :
        Cpu(m)!View(a)' = IF a = to THEN to ELSE Cpu(m)!View(a)
  BY <1>7, Stores DEF BootInv
<1>9. BootTypes(m)'
  <2>1. /\ ram' \in [Processor[m].Memory -> Content(m)]
        /\ DOMAIN dcache' \subseteq DOMAIN dcache \cup {to}
        /\ \A b \in DOMAIN dcache' : dcache'[b] \in Content(m)
        /\ Processor[m].DCacheSize = 0 => DOMAIN dcache' = {}
    BY <1>7, Stores DEF BootInv
  <2>2. Cpu(m)!TypeOK'
    BY <1>1, <1>7, <2>1 DEF BootInv, BootTypes, Cpu!TypeOK, Content
  <2>3. r2' \in Int
    BY <1>1, <1>2
  <2>. QED
    BY <1>1, <2>1, <2>2, <2>3 DEF BootInv, BootTypes
<1>10. CopiesStay(m)'
  BY <1>1, <1>7, StoresKeep DEF BootInv
<1>11. CacheSetUp(m)'
  BY <1>1 DEF CacheSetUp
<1>12. RegistersSetUp(m)'
  BY <1>1 DEF RegistersSetUp, BootInv
<1>13. InMemory(m)'
  <2>1. \A a \in Cpu(m)!Bss : Cpu(m)!View(a)' = Cpu(m)!Zero
    BY <1>3, <1>7, <1>8, KeptAre
  <2>2. ASSUME NEW i \in 1 .. 3, i < section, NEW a \in Cpu(m)!Run(Cpu(m)!Sections[i])
        PROVE  Cpu(m)!View(a)' = a
    <3>1. a \in Processor[m].Memory
      BY SectionsAre, KeptAre
    <3>. QED
      BY <1>3, <1>8, <2>2, <3>1
  <2>3. ASSUME NEW a \in Cpu(m)!Run(s), a < Processor[m].ram_start[s] + r2'
        PROVE  Cpu(m)!View(a)' = a
    <3>1. a \in Processor[m].Memory /\ a \in Int
      BY <1>2, KeptAre
    <3>2. a = to \/ a < to
      BY <1>1, <1>2, <1>4, <2>3, <3>1 DEF to
    <3>. QED
      BY <1>3, <1>8, <3>1, <3>2
  <2>4. Processor[m].ram_start[s] + r2' <= Processor[m].ram_end[s] /\ r2' >= 0
    BY <1>1, <1>2, <1>3, <1>4 DEF to
  <2>. QED
    BY <1>1, <2>1, <2>2, <2>3, <2>4 DEF InMemory, s
<1>14. InOrder(m)'
  BY <1>1 DEF InOrder, BootInv
<1>. QED
  BY <1>9, <1>10, <1>11, <1>12, <1>13, <1>14 DEF BootInv

\* A section is done when its last word is, or when it needs no copy.
LEMMA LoadNextBoots == ASSUME NEW m \in DOMAIN Processor, BootInv(m), Cpu(m)!LoadNext
                       PROVE  BootInv(m)'
<1>. DEFINE s == Cpu(m)!Sections[section]
<1>1. /\ pc = "load" /\ section <= 3 /\ section' = section + 1 /\ r2' = 0
      /\ ~ Cpu(m)!Copied(s) \/ Processor[m].ram_start[s] + r2 = Processor[m].ram_end[s]
      /\ UNCHANGED <<pc, ram, dcache, icache, ready, prs, crs, PIE, ienable,
                     requests, calls, atexit, stdout>>
  BY SectionsAre DEF Cpu!LoadNext, Cpu!memory, Cpu!interrupts, Cpu!program
<1>2. section \in 1 .. 3 /\ s \in Sects /\ r2 \in Int
  <2>1. section \in 1 .. 4 /\ r2 \in Int
    BY SectionIs DEF BootInv, BootTypes
  <2>2. section \in 1 .. 3
    BY <1>1, <2>1
  <2>. QED
    BY <2>1, <2>2, SectionsAre
<1>3. \A a \in Cpu(m)!Run(s) : Cpu(m)!View(a) = a
  <2>. SUFFICES ASSUME NEW a \in Cpu(m)!Run(s) PROVE Cpu(m)!View(a) = a
    OBVIOUS
  <2>1. CASE Cpu(m)!Copied(s)
    <3>1. a < Processor[m].ram_start[s] + r2
      BY <1>1, <1>2, <2>1, Layout DEF Cpu!Run
    <3>. QED
      BY <1>1, <1>2, <2>1, <3>1 DEF BootInv, InMemory
  <2>2. CASE ~ Cpu(m)!Copied(s)
    <3>1. a \in KeptWords(m) /\ Cpu(m)!Downloaded[a] = a
      BY <1>2, <2>2, Download, Layout DEF KeptWords
    <3>. QED
      BY <1>1, <3>1 DEF BootInv, CopiesStay, Cpu!View
  <2>. QED
    BY <2>1, <2>2
<1>4. BootTypes(m)'
  <2>1. section' \in 1 .. Len(Cpu(m)!Sections) + 1
    BY <1>1, <1>2, SectionsAre
  <2>2. Cpu(m)!TypeOK'
    BY <1>1, <2>1 DEF BootInv, BootTypes, Cpu!TypeOK
  <2>. QED
    BY <1>1, <2>2 DEF BootInv, BootTypes
<1>5. CopiesStay(m)'
  BY <1>1, SameMemory DEF BootInv
<1>6. CacheSetUp(m)'
  BY <1>1 DEF CacheSetUp
<1>7. RegistersSetUp(m)'
  BY <1>1 DEF RegistersSetUp, BootInv
<1>8. InMemory(m)'
  <2>1. \A a : Cpu(m)!View(a)' = Cpu(m)!View(a)
    BY <1>1, SameMemory
  <2>2. \A a \in Cpu(m)!Bss : Cpu(m)!View(a)' = Cpu(m)!Zero
    BY <1>1, <2>1 DEF BootInv, InMemory
  <2>3. ASSUME NEW i \in 1 .. 3, i < section', NEW a \in Cpu(m)!Run(Cpu(m)!Sections[i])
        PROVE  Cpu(m)!View(a)' = a
    <3>1. i = section \/ i < section
      BY <1>1, <1>2, <2>3
    <3>. QED
      BY <1>1, <1>3, <2>1, <3>1 DEF BootInv, InMemory
  <2>4. ASSUME section' <= 3
        PROVE  LET t == Cpu(m)!Sections[section'] IN
               /\ Processor[m].ram_start[t] + r2' <= Processor[m].ram_end[t] /\ r2' >= 0
               /\ \A a \in Cpu(m)!Run(t) : ~ (a < Processor[m].ram_start[t] + r2')
    <3>. DEFINE t == Cpu(m)!Sections[section']
    <3>1. t \in Sects
      BY <1>1, <1>2, <2>4, SectionsAre
    <3>. HIDE DEF t
    <3>2. /\ Processor[m].ram_start[t] + r2' <= Processor[m].ram_end[t] /\ r2' >= 0
          /\ \A a \in Cpu(m)!Run(t) : ~ (a < Processor[m].ram_start[t] + r2')
      BY <1>1, <3>1, Layout DEF Cpu!Run
    <3>. QED
      BY <3>2 DEF t
  <2>. QED
    BY <1>1, <2>2, <2>3, <2>4 DEF InMemory
<1>9. InOrder(m)'
  BY <1>1 DEF InOrder, BootInv
<1>. QED
  BY <1>4, <1>5, <1>6, <1>7, <1>8, <1>9 DEF BootInv

\* The flush comes past every line of the cache, so that memory is what loads see.
LEMMA SynchroniseBoots == ASSUME NEW m \in DOMAIN Processor, BootInv(m), Cpu(m)!Synchronise
                          PROVE  BootInv(m)'
<1>1. /\ pc = "load" /\ section > 3 /\ pc' = "alt_main" /\ section = 4
      /\ UNCHANGED <<icache, section, r2, ready, prs, crs, PIE, ienable,
                     requests, calls, atexit, stdout>>
  <2>1. /\ pc = "load" /\ section > 3 /\ pc' = "alt_main"
        /\ UNCHANGED <<icache, section, r2, ready, prs, crs, PIE, ienable,
                       requests, calls, atexit, stdout>>
    BY SectionsAre DEF Cpu!Synchronise, Cpu!Goto, Cpu!registers, Cpu!interrupts,
                       Cpu!program
  <2>2. section \in 1 .. 4
    BY SectionIs DEF BootInv, BootTypes
  <2>. QED
    BY <2>1, <2>2
<1>. DEFINE back == {a \in DOMAIN dcache : \E n \in Cpu(m)!Flushed : Cpu(m)!InLine(a, n)}
<1>2. /\ ram' = [a \in Processor[m].Memory |-> IF a \in back THEN dcache[a] ELSE ram[a]]
      /\ dcache' = [a \in DOMAIN dcache \ back |-> dcache[a]]
  BY DEF Cpu!Synchronise, Cpu!Restrict
<1>3. back = DOMAIN dcache
  <2>. SUFFICES ASSUME NEW a \in DOMAIN dcache
                PROVE  \E n \in Cpu(m)!Flushed : Cpu(m)!InLine(a, n)
    OBVIOUS
  <2>. DEFINE l == LineOf(m, a)
              d == Processor[m].DCacheLine
  <2>1. Processor[m].DCacheSize # 0 /\ a \in Int
    BY Layout DEF BootInv, BootTypes, Cpu!TypeOK
  <2>2. /\ l \in Int /\ l * d \in 0 .. Processor[m].DCacheSize - 1
        /\ d \in Nat \ {0}
    BY <2>1, LineIs, CacheLines, Numbers
  <2>3. (l * d) % d = 0 /\ (l * d) \div d = l
    <3>. HIDE DEF l, d
    <3>1. l * d = d * l + 0 /\ 0 \in 0 .. d - 1
      BY <2>2
    <3>2. (d * l + 0) % d = 0 /\ (d * l + 0) \div d = l
      BY <2>2, <3>1, Quotient
    <3>. QED
      BY <3>1, <3>2
  <2>. HIDE DEF l
  <2>4. l \in Cpu(m)!Flushed
    <3>. DEFINE j == l * d
    <3>1. j \in 0 .. Processor[m].DCacheSize - 1 /\ j % d = 0 /\ j \div d = l
      BY <2>2, <2>3
    <3>. HIDE DEF j
    <3>2. j \div d \in Cpu(m)!Flushed
      BY <3>1 DEF Cpu!Flushed
    <3>. QED
      BY <3>1, <3>2
  <2>5. Cpu(m)!InLine(a, l)
    BY DEF Cpu!InLine, LineOf, l
  <2>. QED
    BY <2>4, <2>5
<1>4. /\ DOMAIN dcache' = {}
      /\ \A a \in Processor[m].Memory : ram'[a] = Cpu(m)!View(a)
      /\ \A a \in Processor[m].Memory : Cpu(m)!View(a)' = Cpu(m)!View(a)
  BY <1>2, <1>3 DEF Cpu!View
<1>5. BootTypes(m)'
  <2>1. ram' \in [Processor[m].Memory -> Content(m)]
    BY <1>2, <1>4, Views DEF BootInv
  <2>2. Cpu(m)!TypeOK'
    BY <1>1, <1>4, <2>1 DEF BootInv, BootTypes, Cpu!TypeOK, Content
  <2>. QED
    BY <1>1, <1>4, <2>2 DEF BootInv, BootTypes
<1>6. CopiesStay(m)'
  <2>1. \A a \in KeptWords(m) : Cpu(m)!View(a) = Cpu(m)!Downloaded[a]
    BY <1>1 DEF BootInv, CopiesStay, Cpu!View
  <2>. QED
    BY <1>4, <2>1, KeptAre DEF CopiesStay
<1>7. CacheSetUp(m)'
  BY <1>1 DEF CacheSetUp
<1>8. RegistersSetUp(m)'
  BY <1>1 DEF RegistersSetUp, BootInv
<1>9. InMemory(m)'
  <2>1. \A s \in Sects : \A a \in Cpu(m)!Run(s) :
          Cpu(m)!View(a) = a /\ a \in Processor[m].Memory
    <3>. SUFFICES ASSUME NEW s \in Sects, NEW a \in Cpu(m)!Run(s)
                  PROVE  Cpu(m)!View(a) = a /\ a \in Processor[m].Memory
      OBVIOUS
    <3>1. PICK i \in 1 .. 3 : s = Cpu(m)!Sections[i]
      BY SectionsAre
    <3>. QED
      BY <1>1, <3>1, KeptAre DEF BootInv, InMemory
  <2>2. \A a \in Cpu(m)!AllRun : Cpu(m)!View(a)' = a
    BY <1>4, <2>1, Layout
  <2>3. \A a \in Cpu(m)!Bss : Cpu(m)!View(a)' = Cpu(m)!Zero
    BY <1>1, <1>4, KeptAre DEF BootInv, InMemory
  <2>4. \A a \in Cpu(m)!Run("exceptions") : ram'[a] = a
    BY <1>4, <2>1 DEF Sects
  <2>5. \A a \in Cpu(m)!Bss \cup Cpu(m)!Run("rwdata") :
          Cpu(m)!View(a)' \in {Cpu(m)!Zero, Cpu(m)!Used, a}
    BY <1>4, <2>1, <2>3 DEF Sects
  <2>. QED
    BY <1>1, <2>2, <2>3, <2>4, <2>5 DEF InMemory
<1>10. InOrder(m)'
  BY <1>1 DEF InOrder, BootInv
<1>. QED
  BY <1>5, <1>6, <1>7, <1>8, <1>9, <1>10 DEF BootInv

\* The steps once the program has been loaded that leave it as it is.
Before == {"reset", "dcache", "shadow", "bss", "load"}
Linked == {"alt_main", "sys_init", "isr_register", "io_redirect", "ctors"}
LEMMA RunsOn ==
  ASSUME NEW m \in DOMAIN Processor, BootInv(m), InOrder(m)', Cpu(m)!TypeOK,
         pc \notin Before, pc' \notin Before,
         pc' \in Linked => pc \in Linked /\ pc' # "alt_main",
         pc' \in Linked \cup {"main", "exit", "spin"}, r2' \in Int,
         UNCHANGED <<ram, dcache, icache, section, ready, prs, crs>>,
         PIE' \in BOOLEAN, ienable' \in BOOLEAN, requests' \in BOOLEAN,
         atexit' \in BOOLEAN, stdout' \in {"none", "open", "closed"}
  PROVE  BootInv(m)'
<1>. USE DEF Before, Linked
<1>1. BootTypes(m)'
  <2>1. Cpu(m)!TypeOK'
    BY DEF Cpu!TypeOK
  <2>. QED
    BY <2>1 DEF BootInv, BootTypes
<1>2. CopiesStay(m)'
  BY SameMemory DEF BootInv
<1>3. CacheSetUp(m)'
  BY DEF CacheSetUp
<1>4. RegistersSetUp(m)'
  BY DEF RegistersSetUp, BootInv
<1>5. InMemory(m)'
  BY SameMemory DEF InMemory, BootInv
<1>. QED
  BY <1>1, <1>2, <1>3, <1>4, <1>5 DEF BootInv

LEMMA IrqInitBoots ==
  ASSUME NEW m \in DOMAIN Processor, BootInv(m), Cpu(m)!IrqInit
  PROVE  BootInv(m)'
<1>. r2 \in Int /\ Processor[m].Ctors \in Nat /\ Processor[m].Dtors \in Nat
  BY Numbers DEF BootInv, BootTypes
<1>1. /\ pc = "alt_main" /\ pc' = "sys_init" /\ ienable' = FALSE /\ PIE' = TRUE
      /\ UNCHANGED <<ram, dcache, icache, section, ready, prs, crs,
                     r2, requests, calls, atexit, stdout>>
  BY DEF Cpu!IrqInit, Cpu!Goto, Cpu!memory, Cpu!registers, Cpu!interrupts,
         Cpu!program
<1>2. InOrder(m)'
  BY <1>1 DEF InOrder, BootInv
<1>. QED
  BY <1>1, <1>2, RunsOn DEF BootInv, BootTypes, Cpu!TypeOK, Before, Linked

LEMMA JtagInitBoots ==
  ASSUME NEW m \in DOMAIN Processor, BootInv(m), Cpu(m)!JtagInit
  PROVE  BootInv(m)'
<1>. r2 \in Int /\ Processor[m].Ctors \in Nat /\ Processor[m].Dtors \in Nat
  BY Numbers DEF BootInv, BootTypes
<1>1. /\ pc = "sys_init" /\ pc' = "isr_register" /\ requests' = TRUE
      /\ UNCHANGED <<ram, dcache, icache, section, ready, prs, crs,
                     r2, PIE, ienable, calls, atexit, stdout>>
  BY DEF Cpu!JtagInit, Cpu!Goto, Cpu!memory, Cpu!registers, Cpu!interrupts,
         Cpu!program
<1>2. InOrder(m)'
  BY <1>1 DEF InOrder, BootInv
<1>. QED
  BY <1>1, <1>2, RunsOn DEF BootInv, BootTypes, Cpu!TypeOK, Before, Linked

LEMMA IsrRegisterBoots ==
  ASSUME NEW m \in DOMAIN Processor, BootInv(m), Cpu(m)!IsrRegister
  PROVE  BootInv(m)'
<1>. r2 \in Int /\ Processor[m].Ctors \in Nat /\ Processor[m].Dtors \in Nat
  BY Numbers DEF BootInv, BootTypes
<1>1. /\ pc = "isr_register" /\ pc' = "io_redirect" /\ ienable' = TRUE
      /\ UNCHANGED <<ram, dcache, icache, section, ready, prs, crs,
                     r2, PIE, requests, calls, atexit, stdout>>
      /\ calls = <<>>
  BY DEF Cpu!IsrRegister, Cpu!Goto, Cpu!memory, Cpu!registers, Cpu!interrupts,
         Cpu!program, BootInv, InOrder
<1>2. InOrder(m)'
  BY <1>1 DEF InOrder, BootInv
<1>. QED
  BY <1>1, <1>2, RunsOn DEF BootInv, BootTypes, Cpu!TypeOK, Before, Linked

LEMMA IoRedirectBoots ==
  ASSUME NEW m \in DOMAIN Processor, BootInv(m), Cpu(m)!IoRedirect
  PROVE  BootInv(m)'
<1>. r2 \in Int /\ Processor[m].Ctors \in Nat /\ Processor[m].Dtors \in Nat
  BY Numbers DEF BootInv, BootTypes
<1>1. /\ pc = "io_redirect" /\ pc' = "ctors" /\ stdout' = "open"
      /\ r2' = Processor[m].Ctors
      /\ UNCHANGED <<ram, dcache, icache, section, ready, prs, crs,
                     PIE, ienable, requests, calls, atexit>>
  BY DEF Cpu!IoRedirect, Cpu!Goto, Cpu!memory, Cpu!registers, Cpu!interrupts,
         Cpu!program
<1>2. InOrder(m)'
  <2>1. ienable' /\ stdout' # "none"
    BY <1>1 DEF InOrder, BootInv
  <2>. QED
    BY <1>1, <2>1 DEF InOrder, BootInv
<1>. QED
  BY <1>1, <1>2, RunsOn DEF BootInv, BootTypes, Cpu!TypeOK, Before, Linked

\* The list grows from its end.
LEMMA ConstructBoots ==
  ASSUME NEW m \in DOMAIN Processor, BootInv(m), Cpu(m)!Construct
  PROVE  BootInv(m)'
<1>. r2 \in Int /\ Processor[m].Ctors \in Nat /\ Processor[m].Dtors \in Nat
  BY Numbers DEF BootInv, BootTypes
<1>1. /\ pc = "ctors" /\ r2 > 0 /\ r2' = r2 - 1
      /\ calls' = Append(calls, <<"ctor", r2>>)
      /\ UNCHANGED <<pc, ram, dcache, icache, section, ready, prs, crs,
                     PIE, ienable, requests, atexit, stdout>>
  BY DEF Cpu!Construct, Cpu!Goto, Cpu!memory, Cpu!registers, Cpu!interrupts,
         Cpu!program
<1>2. InOrder(m)'
  <2>. DEFINE n == Processor[m].Ctors
              called == [i \in 1 .. n - r2 |-> <<"ctor", n + 1 - i>>]
  <2>1. calls = called /\ r2 \in 1 .. n
    BY <1>1 DEF InOrder, BootInv
  <2>. HIDE DEF n
  <2>2. Append(called, <<"ctor", r2>>) = [i \in 1 .. n - r2' |-> <<"ctor", n + 1 - i>>]
    <3>1. n \in Int /\ n - r2 \in Nat /\ n - r2' = n - r2 + 1 /\ n + 1 - (n - r2 + 1) = r2
      BY <1>1, <2>1 DEF n
    <3>2. called \in Seq({"ctor"} \X Int) /\ Len(called) = n - r2
      BY <3>1
    <3>. QED
      BY <3>1, <3>2
  <2>3. calls' = [i \in 1 .. n - r2' |-> <<"ctor", n + 1 - i>>] /\ r2' \in 0 .. n
    <3>1. calls' = Append(called, <<"ctor", r2>>)
      BY <1>1, <2>1
    <3>2. r2' \in 0 .. n
      <4>1. n \in Int /\ r2' = r2 - 1
        BY <1>1 DEF n
      <4>. QED
        BY <2>1, <4>1
    <3>. HIDE DEF called
    <3>. QED
      BY <2>2, <3>1, <3>2, Zenon
  <2>. QED
    BY <1>1, <2>3 DEF InOrder, BootInv, n
<1>3. Cpu(m)!TypeOK /\ r2' \in Int
  BY <1>1 DEF BootInv, BootTypes
<1>4. /\ pc \notin Before /\ pc' \notin Before /\ pc' # "alt_main"
      /\ pc \in Linked /\ pc' \in Linked
      /\ PIE' \in BOOLEAN /\ ienable' \in BOOLEAN /\ requests' \in BOOLEAN
      /\ atexit' \in BOOLEAN /\ stdout' \in {"none", "open", "closed"}
  BY <1>1, <1>3 DEF Cpu!TypeOK, Before, Linked
<1>. QED
  BY <1>1, <1>2, <1>3, <1>4, RunsOn

LEMMA EnterMainBoots ==
  ASSUME NEW m \in DOMAIN Processor, BootInv(m), Cpu(m)!EnterMain
  PROVE  BootInv(m)'
<1>. r2 \in Int /\ Processor[m].Ctors \in Nat /\ Processor[m].Dtors \in Nat
  BY Numbers DEF BootInv, BootTypes
<1>1. /\ pc = "ctors" /\ r2 = 0 /\ pc' = "main" /\ atexit' = TRUE
      /\ UNCHANGED <<ram, dcache, icache, section, ready, prs, crs,
                     r2, PIE, ienable, requests, calls, stdout>>
  BY DEF Cpu!EnterMain, Cpu!Goto, Cpu!memory, Cpu!registers, Cpu!interrupts,
         Cpu!program
<1>2. InOrder(m)'
  BY <1>1 DEF InOrder, BootInv
<1>. QED
  BY <1>1, <1>2, RunsOn DEF BootInv, BootTypes, Cpu!TypeOK, Before, Linked

LEMMA ReturnBoots ==
  ASSUME NEW m \in DOMAIN Processor, BootInv(m), Cpu(m)!Return
  PROVE  BootInv(m)'
<1>. r2 \in Int /\ Processor[m].Ctors \in Nat /\ Processor[m].Dtors \in Nat
  BY Numbers DEF BootInv, BootTypes
<1>1. /\ pc = "main" /\ pc' = "exit" /\ stdout' = "closed" /\ r2' \in Int
      /\ UNCHANGED <<ram, dcache, icache, section, ready, prs, crs,
                     PIE, ienable, requests, calls, atexit>>
  BY DEF Cpu!Return, Cpu!Goto, Cpu!memory, Cpu!registers, Cpu!interrupts,
         Cpu!program
<1>2. InOrder(m)'
  BY <1>1 DEF InOrder, BootInv
<1>. QED
  BY <1>1, <1>2, RunsOn DEF BootInv, BootTypes, Cpu!TypeOK, Before, Linked

LEMMA DestroyBoots ==
  ASSUME NEW m \in DOMAIN Processor, BootInv(m), Cpu(m)!Destroy
  PROVE  BootInv(m)'
<1>. r2 \in Int /\ Processor[m].Ctors \in Nat /\ Processor[m].Dtors \in Nat
  BY Numbers DEF BootInv, BootTypes
<1>1. /\ pc = "exit" /\ r2' = r2 - 1
      /\ UNCHANGED <<pc, ram, dcache, icache, section, ready, prs, crs,
                     PIE, ienable, requests, atexit, stdout>>
  BY DEF Cpu!Destroy, Cpu!Goto, Cpu!memory, Cpu!registers, Cpu!interrupts,
         Cpu!program
<1>2. InOrder(m)'
  BY <1>1 DEF InOrder, BootInv
<1>. QED
  BY <1>1, <1>2, RunsOn DEF BootInv, BootTypes, Cpu!TypeOK, Before, Linked

LEMMA ExitBoots ==
  ASSUME NEW m \in DOMAIN Processor, BootInv(m), Cpu(m)!Exit
  PROVE  BootInv(m)'
<1>. r2 \in Int /\ Processor[m].Ctors \in Nat /\ Processor[m].Dtors \in Nat
  BY Numbers DEF BootInv, BootTypes
<1>1. /\ pc = "exit" /\ pc' = "spin"
      /\ UNCHANGED <<ram, dcache, icache, section, ready, prs, crs,
                     r2, PIE, ienable, requests, calls, atexit, stdout>>
  BY DEF Cpu!Exit, Cpu!Goto, Cpu!memory, Cpu!registers, Cpu!interrupts,
         Cpu!program
<1>2. InOrder(m)'
  BY <1>1 DEF InOrder, BootInv
<1>. QED
  BY <1>1, <1>2, RunsOn DEF BootInv, BootTypes, Cpu!TypeOK, Before, Linked

LEMMA KillBoots ==
  ASSUME NEW m \in DOMAIN Processor, BootInv(m), Cpu(m)!Kill
  PROVE  BootInv(m)'
<1>. r2 \in Int /\ Processor[m].Ctors \in Nat /\ Processor[m].Dtors \in Nat
  BY Numbers DEF BootInv, BootTypes
<1>1. /\ pc = "main" /\ pc' = "spin"
      /\ UNCHANGED <<ram, dcache, icache, section, ready, prs, crs,
                     r2, PIE, ienable, requests, calls, atexit, stdout>>
  BY DEF Cpu!Kill, Cpu!Goto, Cpu!memory, Cpu!registers, Cpu!interrupts,
         Cpu!program, Cpu!kill
<1>2. InOrder(m)'
  BY <1>1 DEF InOrder, BootInv
<1>. QED
  BY <1>1, <1>2, RunsOn DEF BootInv, BootTypes, Cpu!TypeOK, Before, Linked

\* What the program changes is neither kept nor code.
LEMMA ComputeBoots == ASSUME NEW m \in DOMAIN Processor, BootInv(m), Cpu(m)!Compute
                      PROVE  BootInv(m)'
<1>1. PICK w \in Cpu(m)!Bss \cup Cpu(m)!Run("rwdata") :
        Cpu(m)!Store(w, Cpu(m)!Used)
  BY DEF Cpu!Compute
<1>2. /\ pc = "main" /\ UNCHANGED <<pc, icache, section, r2, ready, prs, crs, PIE,
                                     ienable, requests, calls, atexit, stdout>>
  BY DEF Cpu!Compute, Cpu!registers, Cpu!interrupts, Cpu!program
<1>3. /\ w \in Processor[m].Memory \ KeptWords(m)
      /\ Cpu(m)!Used \in Content(m)
      /\ w \notin Cpu(m)!Run("exceptions")
  <2>1. "rwdata" \in Sects /\ "exceptions" \in Sects /\ "rwdata" # "exceptions"
    BY DEF Sects
  <2>2. CASE w \in Cpu(m)!Bss
    BY <2>1, <2>2, KeptAre DEF Content
  <2>3. CASE w \in Cpu(m)!Run("rwdata")
    BY <2>1, <2>3, KeptAre, Layout DEF Content
  <2>. QED
    BY <2>2, <2>3
<1>4. BootTypes(m)'
  <2>1. /\ ram' \in [Processor[m].Memory -> Content(m)]
        /\ DOMAIN dcache' \subseteq DOMAIN dcache \cup {w}
        /\ \A b \in DOMAIN dcache' : dcache'[b] \in Content(m)
        /\ Processor[m].DCacheSize = 0 => DOMAIN dcache' = {}
    BY <1>1, <1>3, Stores DEF BootInv
  <2>2. Cpu(m)!TypeOK'
    BY <1>2, <1>3, <2>1 DEF BootInv, BootTypes, Cpu!TypeOK, Content
  <2>. QED
    BY <1>2, <2>1, <2>2 DEF BootInv, BootTypes
<1>5. CopiesStay(m)'
  BY <1>1, <1>2, <1>3, StoresKeep DEF BootInv
<1>6. CacheSetUp(m)'
  BY <1>2 DEF CacheSetUp
<1>7. RegistersSetUp(m)'
  BY <1>2 DEF RegistersSetUp, BootInv
<1>8. InMemory(m)'
  <2>1. "rwdata" \in Sects /\ "exceptions" \in Sects
    BY DEF Sects
  <2>2. \A a \in Cpu(m)!Run("exceptions") : ram'[a] = a
    <3>1. \A a \in Cpu(m)!Run("exceptions") : ram'[a] = ram[a]
      BY <1>1, <1>3, <2>1, KeptAre, Stores DEF BootInv
    <3>. QED
      BY <1>2, <3>1 DEF BootInv, InMemory
  <2>3. \A a \in Cpu(m)!Bss \cup Cpu(m)!Run("rwdata") :
          Cpu(m)!View(a)' \in {Cpu(m)!Zero, Cpu(m)!Used, a}
    <3>1. \A a \in Cpu(m)!Bss \cup Cpu(m)!Run("rwdata") :
            Cpu(m)!View(a)' = IF a = w THEN Cpu(m)!Used ELSE Cpu(m)!View(a)
      BY <1>1, <1>3, <2>1, KeptAre, Stores DEF BootInv
    <3>. QED
      BY <1>2, <3>1 DEF BootInv, InMemory
  <2>. QED
    BY <1>2, <2>2, <2>3 DEF InMemory
<1>9. InOrder(m)'
  BY <1>2 DEF InOrder, BootInv
<1>. QED
  BY <1>4, <1>5, <1>6, <1>7, <1>8, <1>9 DEF BootInv

LEMMA BootStays == ASSUME NEW m \in DOMAIN Processor, BootInv(m), UNCHANGED boot
                   PROVE  BootInv(m)'
<1>. USE DEF boot
<1>1. \A a : Cpu(m)!View(a)' = Cpu(m)!View(a)
  BY DEF Cpu!View
<1>2. BootTypes(m)' /\ CopiesStay(m)' /\ CacheSetUp(m)' /\ RegistersSetUp(m)'
  BY DEF BootInv, BootTypes, Cpu!TypeOK, CopiesStay, CacheSetUp, RegistersSetUp
<1>3. InMemory(m)' /\ InOrder(m)'
  BY <1>1 DEF BootInv, InMemory, InOrder
<1>. QED
  BY <1>2, <1>3 DEF BootInv

LEMMA BootSteps == ASSUME NEW m \in DOMAIN Processor, BootInv(m), Cpu(m)!Next
                   PROVE  BootInv(m)'
<1>1. CASE Cpu(m)!Startup
  BY <1>1, InitIcacheBoots, StartBoots, InitDcacheBoots, PointersBoots, ShadowBoots,
     BssFromBoots, ClearBssBoots, LoadWordBoots, LoadNextBoots, SynchroniseBoots,
     IrqInitBoots, JtagInitBoots, IsrRegisterBoots, IoRedirectBoots, ConstructBoots,
     EnterMainBoots
     DEF Cpu!Startup
<1>2. CASE Cpu(m)!Compute \/ Cpu(m)!Return \/ Cpu(m)!Kill \/ Cpu(m)!Shutdown
  BY <1>2, ComputeBoots, ReturnBoots, KillBoots, DestroyBoots, ExitBoots
     DEF Cpu!Shutdown
<1>3. CASE Cpu(m)!Spin
  BY <1>3, BootStays DEF Cpu!Spin, Cpu!vars, Cpu!memory, Cpu!registers, Cpu!interrupts,
     Cpu!program, boot
<1>4. CASE Cpu(m)!Reset
  BY <1>4, ResetBoots
<1>. QED
  BY <1>1, <1>2, <1>3, <1>4 DEF Cpu!Next, Cpu!Step

\* The invariant says what the start-up is to achieve.
LEMMA BootAchieves == ASSUME NEW m \in DOMAIN Processor, BootInv(m)
                      PROVE  /\ Cpu(m)!TypeOK /\ Cpu(m)!AsLinked /\ Cpu(m)!SetsUsable
                             /\ Cpu(m)!NotTooEarly /\ Cpu(m)!ConstructedOnce
<1>1. Cpu(m)!AsLinked
  BY DEF Cpu!AsLinked, BootInv, InMemory
<1>2. Cpu(m)!SetsUsable
  BY DEF Cpu!SetsUsable, BootInv, RegistersSetUp
<1>3. Cpu(m)!NotTooEarly
  <2>1. PIE => pc \notin {"reset", "dcache", "shadow", "bss", "load"}
    BY DEF BootInv, InOrder
  <2>2. calls # <<>> => stdout # "none" /\ ienable
    BY DEF BootInv, InOrder
  <2>3. PIE => /\ \A a \in Cpu(m)!Run("exceptions") : ram[a] = a
               /\ \A a \in Cpu(m)!Bss \cup Cpu(m)!Run("rwdata") :
                    Cpu(m)!View(a) \in {Cpu(m)!Zero, Cpu(m)!Used, a}
    BY <2>1 DEF BootInv, InMemory
  <2>. QED
    BY <2>2, <2>3 DEF Cpu!NotTooEarly
<1>4. Cpu(m)!ConstructedOnce
  BY DEF Cpu!ConstructedOnce, BootInv, InOrder
<1>. QED
  BY <1>1, <1>2, <1>3, <1>4 DEF BootInv, BootTypes

\* However often the button is pressed, and with whatever caches, sections and
\* register sets, the program finds itself as it was linked and nothing runs
\* before what it needs is there.
THEOREM Boots == MCSpec => []BootsRight
<1>1. MCInit => BootInvariant
  <2>. SUFFICES ASSUME MCInit, NEW m \in DOMAIN Processor, part = m
                PROVE  BootInv(m)
    BY DEF BootInvariant
  <2>1. m \notin {"heap", "caches", "profile"}
    BY BootAssumption
  <2>2. Cpu(m)!Init
    BY <2>1 DEF MCInit
  <2>. QED
    BY <2>2, InitBoots
<1>2. BootInvariant /\ [MCNext]_everything => BootInvariant'
  <2>. SUFFICES ASSUME BootInvariant, [MCNext]_everything,
                       NEW m \in DOMAIN Processor, part' = m
                PROVE  BootInv(m)'
    BY DEF BootInvariant
  <2>1. m \notin {"heap", "caches", "profile"}
    BY BootAssumption
  <2>2. part = m
    BY DEF MCNext, everything
  <2>3. BootInv(m)
    BY <2>2 DEF BootInvariant
  <2>4. Cpu(m)!Next \/ UNCHANGED boot
    BY <2>1, <2>2 DEF MCNext, everything
  <2>. QED
    BY <2>3, <2>4, BootSteps, BootStays
<1>3. BootInvariant => BootsRight
  BY BootAchieves DEF BootInvariant, BootsRight
<1>. QED
  BY <1>1, <1>2, <1>3, PTL DEF MCSpec

(***************************************************************************)
(* The profiler, for every set of functions, callers and buckets and every *)
(* size of the slabs and of the histogram, as long as the heap has room    *)
(* for what is recorded: nothing is taken out of a chain, so that what a   *)
(* call has found stays found whoever interrupts it, and a count it has    *)
(* read is at most the count it writes over.                               *)
(***************************************************************************)
ArcRecord == [from_pc : From, count : Nat, lies : Int]
FnRecord == [self_pc : Self, arcs : Seq(ArcRecord), lies : Int]
CallType ==
  {Profiler!Idle} \cup [at : {"function"}, arc : Profiler!Arc]
    \cup [at : {"arc", "record", "clear", "init", "insert"},
          arc : Profiler!Arc, fn : Nat]
    \cup [at : {"add"}, arc : Profiler!Arc, fn : Nat, found : Nat, r2 : Nat]
ProfileTypes ==
  /\ chain \in [Profiler!Bucket -> Seq(FnRecord)]
  /\ call \in [Profiler!Context -> CallType]
  /\ slab \in [ptr : Nat, size : 0 .. SLAB_INCREMENT]
  /\ p_heap_end \in 0 .. p_heap_limit
  /\ need_init \in BOOLEAN /\ ticking \in BOOLEAN /\ started \in Nat
  /\ bucket \in Int /\ bucket < s_high_pc \div BYTES_PER_BUCKET
  /\ p_calls \in [Profiler!Context -> Seq(Profiler!Arc)]

\* What a call has found is there: nothing is ever taken out of a chain.  The
\* count a handler has read is still the count, since the program stands still;
\* the program's may have been passed.
HasFunction(c) ==
  LET r == call[c] IN
  /\ r.fn \in 1 .. Len(chain[hash[r.arc[1]]])
  /\ chain[hash[r.arc[1]]][r.fn].self_pc = r.arc[1]
HasArc(c) ==
  LET r == call[c]
      arcs == chain[hash[r.arc[1]]][r.fn].arcs
  IN  /\ r.found \in 1 .. Len(arcs) /\ arcs[r.found].from_pc = r.arc[2]
      /\ r.r2 <= arcs[r.found].count
      /\ c = "handler" => r.r2 = arcs[r.found].count
CallOK(c) ==
  /\ call[c].at = "arc" => HasFunction(c)
  /\ call[c].at \in {"record", "clear", "init", "insert"} =>
       call[c].fn = 0 \/ HasFunction(c)
  /\ call[c].at = "add" => HasFunction(c) /\ HasArc(c)
  /\ call[c].at # "idle" => Len(p_calls[c]) < MaxCalls
  /\ Len(p_calls[c]) <= MaxCalls

InChains(a, chains) ==
  \E i \in 1 .. Len(chains[hash[a[1]]]) :
    /\ chains[hash[a[1]]][i].self_pc = a[1]
    /\ \E j \in 1 .. Len(chains[hash[a[1]]][i].arcs) :
         chains[hash[a[1]]][i].arcs[j].from_pc = a[2]
InGraph(a) == InChains(a, chain)
CallsInGraph == \A c \in Profiler!Context : \A k \in 1 .. Len(p_calls[c]) :
                  InGraph(p_calls[c][k])
CountsNoMore == \A a \in Profiler!Arc :
                  /\ IsFiniteSet(Profiler!Counted(a))
                  /\ Cardinality(Profiler!Counted(a)) <= Profiler!TimesOver(a)

\* The records that have been given out lie below the slab's pointer, and the
\* slab ends where the heap does.
Spot(b, i, j) == /\ b \in Profiler!Bucket /\ i \in 1 .. Len(chain[b])
                 /\ j \in 0 .. Len(chain[b][i].arcs)
Place(b, i, j) == IF j = 0 THEN chain[b][i].lies ELSE chain[b][i].arcs[j].lies
SlabInv ==
  /\ slab.ptr + slab.size = p_heap_end
  /\ slab.ptr <= 2 * (Len(p_calls["program"]) + Len(p_calls["handler"]))
SpotsApart ==
  /\ \A b, i, j : Spot(b, i, j) => Place(b, i, j) \in 0 .. slab.ptr - 1
  /\ \A b, i, j, d, k, l :
       Spot(b, i, j) /\ Spot(d, k, l) /\ Place(b, i, j) = Place(d, k, l) =>
         b = d /\ i = k /\ j = l
ProfileInv ==
  /\ ProfileTypes /\ \A c \in Profiler!Context : CallOK(c)
  /\ CallsInGraph /\ CountsNoMore /\ SlabInv /\ SpotsApart

-----------------------------------------------------------------------------
\* An instance has a size of its own.
LEMMA SameSize == \A S : Profiler!Cardinality(S) = Cardinality(S)
<1>1. \A S : Profiler!IsFiniteSet(S) <=> IsFiniteSet(S)
  BY Zenon DEF IsFiniteSet, Profiler!IsFiniteSet
<1>2. ASSUME NEW S PROVE Profiler!Cardinality(S) = Cardinality(S)
  BY <1>1, Zenon DEF Cardinality, Profiler!Cardinality
<1>. QED
  BY <1>2

LEMMA ProfileSet ==
  /\ SLAB_INCREMENT \in Nat /\ SLAB_INCREMENT > 1 /\ p_heap_limit \in Nat
  /\ s_high_pc \in Nat /\ BYTES_PER_BUCKET \in Nat \ {0} /\ MaxCalls \in Nat
  /\ 4 * MaxCalls + SLAB_INCREMENT <= p_heap_limit
  /\ s_high_pc % BYTES_PER_BUCKET = 0
BY ProfileAssumption DEF Profiler!ProfileAssumption, Profiler!Roomy

\* A call by what it is doing.
LEMMA CallIs ==
  ASSUME ProfileTypes, NEW c \in Profiler!Context
  PROVE  LET r == call[c] IN
         /\ r.at \in {"idle", "function", "arc", "add", "record", "clear", "init",
                      "insert"}
         /\ r.at = "idle" <=> r = Profiler!Idle
         /\ r.at # "idle" =>
              /\ r.arc \in Profiler!Arc /\ r.arc[1] \in Self /\ r.arc[2] \in From
              /\ hash[r.arc[1]] \in Profiler!Bucket
         /\ r.at \in {"arc", "record", "clear", "init", "insert"} =>
              r = [at |-> r.at, arc |-> r.arc, fn |-> r.fn] /\ r.fn \in Nat
         /\ r.at = "add" => r.fn \in Nat /\ r.found \in Nat /\ r.r2 \in Nat
<1>. DEFINE r == call[c]
<1>1. r \in CallType
  BY DEF ProfileTypes
<1>. HIDE DEF r
<1>2. CASE r = Profiler!Idle
  BY <1>2 DEF Profiler!Idle, r
<1>3. CASE r \in [at : {"function"}, arc : Profiler!Arc]
  BY <1>3 DEF Profiler!Idle, Profiler!Arc, Profiler!Bucket, r
<1>4. CASE r \in [at : {"arc", "record", "clear", "init", "insert"},
                  arc : Profiler!Arc, fn : Nat]
  BY <1>4 DEF Profiler!Idle, Profiler!Arc, Profiler!Bucket, r
<1>5. CASE r \in [at : {"add"}, arc : Profiler!Arc, fn : Nat, found : Nat, r2 : Nat]
  BY <1>5 DEF Profiler!Idle, Profiler!Arc, Profiler!Bucket, r
<1>. QED
  BY <1>1, <1>2, <1>3, <1>4, <1>5 DEF CallType

LEMMA ChainIs ==
  ASSUME ProfileTypes, NEW b \in Profiler!Bucket
  PROVE  /\ chain[b] \in Seq(FnRecord) /\ Len(chain[b]) \in Nat
         /\ \A i \in 1 .. Len(chain[b]) :
              /\ chain[b][i] \in FnRecord
              /\ chain[b][i].arcs \in Seq(ArcRecord)
              /\ chain[b][i].self_pc \in Self /\ chain[b][i].lies \in Int
              /\ Len(chain[b][i].arcs) \in Nat
              /\ \A j \in 1 .. Len(chain[b][i].arcs) :
                   /\ chain[b][i].arcs[j] \in ArcRecord
                   /\ chain[b][i].arcs[j].count \in Nat
                   /\ chain[b][i].arcs[j].lies \in Int
<1>1. chain[b] \in Seq(FnRecord)
  BY DEF ProfileTypes
<1>2. Len(chain[b]) \in Nat
  BY <1>1
<1>3. ASSUME NEW i \in 1 .. Len(chain[b])
      PROVE  /\ chain[b][i] \in FnRecord
             /\ chain[b][i].arcs \in Seq(ArcRecord)
             /\ chain[b][i].self_pc \in Self /\ chain[b][i].lies \in Int
  <2>1. chain[b][i] \in FnRecord
    BY <1>1, ElementOfSeq
  <2>. QED
    BY <2>1 DEF FnRecord
<1>4. ASSUME NEW i \in 1 .. Len(chain[b]), NEW j \in 1 .. Len(chain[b][i].arcs)
      PROVE  /\ chain[b][i].arcs[j] \in ArcRecord
             /\ chain[b][i].arcs[j].count \in Nat
             /\ chain[b][i].arcs[j].lies \in Int
  <2>1. chain[b][i].arcs[j] \in ArcRecord
    BY <1>3, ElementOfSeq
  <2>. QED
    BY <2>1 DEF ArcRecord
<1>5. \A i \in 1 .. Len(chain[b]) : Len(chain[b][i].arcs) \in Nat
  BY <1>3
<1>. QED
  BY <1>1, <1>2, <1>3, <1>4, <1>5

\* What the walk of a chain finds (alt_mcount.S:50-116).
LEMMA NewestIs == ASSUME NEW n \in Nat, NEW S \in SUBSET (1 .. n), S # {}
                  PROVE  Profiler!Newest(S) \in S
<1>. DEFINE R == OpToRel(<, Nat)
            T == {n - i : i \in S}
<1>1. \A x, y \in Nat : x < y => <<x, y>> \in R
  BY DEF OpToRel
<1>2. IsWellFoundedOn(R, Nat)
  BY NatLessThanWellFounded
<1>3. T \subseteq Nat /\ T # {}
  <2>1. \A i \in S : n - i \in Nat
    OBVIOUS
  <2>. QED
    BY <2>1
<1>. HIDE DEF R
<1>4. \E x \in T : \A y \in T : ~ (<<y, x>> \in R)
  BY <1>2, <1>3, WFMin
<1>5. PICK x \in T : \A y \in T : ~ (<<y, x>> \in R)
  BY <1>4
<1>6. PICK i \in S : x = n - i
  OBVIOUS
<1>7. ASSUME NEW j \in S PROVE j <= i
  <2>1. n - j \in T
    OBVIOUS
  <2>2. ~ (n - j < x)
    BY <1>1, <1>3, <1>5, <2>1
  <2>. QED
    BY <1>6, <2>2
<1>8. \E k \in S : \A j \in S : j <= k
  BY <1>7
<1>. QED
  BY <1>8 DEF Profiler!Newest

\* The units of an arc's count, one by one.
UnitOf(u, a) ==
  \E b \in Profiler!Bucket : \E i \in 1 .. Len(chain[b]) :
    \E j \in 1 .. Len(chain[b][i].arcs) :
      \E n \in 1 .. chain[b][i].arcs[j].count :
        /\ chain[b][i].self_pc = a[1] /\ chain[b][i].arcs[j].from_pc = a[2]
        /\ u = <<<<<<b, i>>, j>>, n>>
LEMMA CountedIs == \A a : \A u : u \in Profiler!Counted(a) <=> UnitOf(u, a)
<1>1. \A f : f \in Profiler!Functions <=>
               \E b \in Profiler!Bucket : \E i \in 1 .. Len(chain[b]) : f = <<b, i>>
  BY DEF Profiler!Functions
<1>2. \A b, i : Profiler!Entry(<<b, i>>) = chain[b][i]
  BY DEF Profiler!Entry
<1>. DEFINE A(f) == Profiler!Entry(f).arcs
<1>3. ASSUME NEW a, NEW p
      PROVE  p \in Profiler!Copies(a) <=>
               \E f \in Profiler!Functions :
                 /\ Profiler!Entry(f).self_pc = a[1]
                 /\ \E j \in 1 .. Len(A(f)) : A(f)[j].from_pc = a[2] /\ p = <<f, j>>
  <2>. DEFINE F == {g \in Profiler!Functions : Profiler!Entry(g).self_pc = a[1]}
              C(f) == {<<f, i>> : i \in {j \in 1 .. Len(A(f)) : A(f)[j].from_pc = a[2]}}
  <2>1. Profiler!Copies(a) = UNION {C(f) : f \in F}
    BY DEF Profiler!Copies
  <2>2. \A f : p \in C(f) <=> \E j \in 1 .. Len(A(f)) : A(f)[j].from_pc = a[2] /\ p = <<f, j>>
    <3>. HIDE DEF A
    <3>. QED
      OBVIOUS
  <2>3. \A f : f \in F <=> f \in Profiler!Functions /\ Profiler!Entry(f).self_pc = a[1]
    OBVIOUS
  <2>. HIDE DEF A, F, C
  <2>. QED
    BY <2>1, <2>2, <2>3
<1>4. ASSUME NEW a, NEW u
      PROVE  u \in Profiler!Counted(a) <=>
               \E p \in Profiler!Copies(a) :
                 \E n \in 1 .. A(p[1])[p[2]].count : u = <<p, n>>
  <2>. DEFINE U(p) == {<<p, n>> : n \in 1 .. A(p[1])[p[2]].count}
  <2>1. Profiler!Counted(a) = UNION {U(p) : p \in Profiler!Copies(a)}
    BY DEF Profiler!Counted
  <2>2. \A p : u \in U(p) <=> \E n \in 1 .. A(p[1])[p[2]].count : u = <<p, n>>
    <3>. HIDE DEF A
    <3>. QED
      OBVIOUS
  <2>. HIDE DEF A, U
  <2>. QED
    BY <2>1, <2>2
<1>5. \A b, i : A(<<b, i>>) = chain[b][i].arcs
  BY <1>2
<1>. HIDE DEF A
<1>6. ASSUME NEW a, NEW p
      PROVE  p \in Profiler!Copies(a) <=>
               \E b \in Profiler!Bucket : \E i \in 1 .. Len(chain[b]) :
                 \E j \in 1 .. Len(chain[b][i].arcs) :
                   /\ chain[b][i].self_pc = a[1] /\ chain[b][i].arcs[j].from_pc = a[2]
                   /\ p = <<<<b, i>>, j>>
  <2>1. ASSUME p \in Profiler!Copies(a)
        PROVE  \E b \in Profiler!Bucket : \E i \in 1 .. Len(chain[b]) :
                 \E j \in 1 .. Len(chain[b][i].arcs) :
                   /\ chain[b][i].self_pc = a[1] /\ chain[b][i].arcs[j].from_pc = a[2]
                   /\ p = <<<<b, i>>, j>>
    <3>1. PICK f \in Profiler!Functions :
            /\ Profiler!Entry(f).self_pc = a[1]
            /\ \E j \in 1 .. Len(A(f)) : A(f)[j].from_pc = a[2] /\ p = <<f, j>>
      BY <1>3, <2>1
    <3>2. PICK b \in Profiler!Bucket : \E i \in 1 .. Len(chain[b]) : f = <<b, i>>
      BY <1>1
    <3>3. PICK i \in 1 .. Len(chain[b]) : f = <<b, i>>
      BY <3>2
    <3>4. Profiler!Entry(f) = chain[b][i] /\ A(f) = chain[b][i].arcs
      BY <1>2, <1>5, <3>3
    <3>. QED
      BY <3>1, <3>3, <3>4
  <2>2. ASSUME NEW b \in Profiler!Bucket, NEW i \in 1 .. Len(chain[b]),
               NEW j \in 1 .. Len(chain[b][i].arcs),
               chain[b][i].self_pc = a[1], chain[b][i].arcs[j].from_pc = a[2],
               p = <<<<b, i>>, j>>
        PROVE  p \in Profiler!Copies(a)
    BY <1>1, <1>2, <1>3, <1>5, <2>2
  <2>. QED
    BY <2>1, <2>2
<1>7. \A b, i, j : A((<<<<b, i>>, j>>)[1])[(<<<<b, i>>, j>>)[2]] = chain[b][i].arcs[j]
  BY <1>5
<1>8. ASSUME NEW a, NEW u, u \in Profiler!Counted(a)
      PROVE  UnitOf(u, a)
  <2>1. PICK p \in Profiler!Copies(a) :
          \E n \in 1 .. A(p[1])[p[2]].count : u = <<p, n>>
    BY <1>4, <1>8
  <2>4. PICK b \in Profiler!Bucket : \E i \in 1 .. Len(chain[b]) :
          \E j \in 1 .. Len(chain[b][i].arcs) :
            /\ chain[b][i].self_pc = a[1] /\ chain[b][i].arcs[j].from_pc = a[2]
            /\ p = <<<<b, i>>, j>>
    BY <1>6
  <2>5. PICK i \in 1 .. Len(chain[b]) : \E j \in 1 .. Len(chain[b][i].arcs) :
            /\ chain[b][i].self_pc = a[1] /\ chain[b][i].arcs[j].from_pc = a[2]
            /\ p = <<<<b, i>>, j>>
    BY <2>4
  <2>2. PICK j \in 1 .. Len(chain[b][i].arcs) :
            /\ chain[b][i].self_pc = a[1] /\ chain[b][i].arcs[j].from_pc = a[2]
            /\ p = <<<<b, i>>, j>>
    BY <2>5
  <2>3. A(p[1])[p[2]] = chain[b][i].arcs[j]
    BY <1>7, <2>2
  <2>. QED
    BY <2>1, <2>2, <2>3 DEF UnitOf
<1>9. ASSUME NEW a, NEW b \in Profiler!Bucket, NEW i \in 1 .. Len(chain[b]),
             NEW j \in 1 .. Len(chain[b][i].arcs),
             NEW n \in 1 .. chain[b][i].arcs[j].count,
             chain[b][i].self_pc = a[1], chain[b][i].arcs[j].from_pc = a[2]
      PROVE  <<<<<<b, i>>, j>>, n>> \in Profiler!Counted(a)
  <2>1. <<<<b, i>>, j>> \in Profiler!Copies(a)
    BY <1>6, <1>9
  <2>. QED
    BY <1>4, <1>7, <2>1
<1>10. ASSUME NEW a, NEW u, UnitOf(u, a) PROVE u \in Profiler!Counted(a)
  <2>1. PICK b \in Profiler!Bucket : \E i \in 1 .. Len(chain[b]) :
          \E j \in 1 .. Len(chain[b][i].arcs) :
            \E n \in 1 .. chain[b][i].arcs[j].count :
              /\ chain[b][i].self_pc = a[1] /\ chain[b][i].arcs[j].from_pc = a[2]
              /\ u = <<<<<<b, i>>, j>>, n>>
    BY <1>10 DEF UnitOf
  <2>2. PICK i \in 1 .. Len(chain[b]) :
          \E j \in 1 .. Len(chain[b][i].arcs) :
            \E n \in 1 .. chain[b][i].arcs[j].count :
              /\ chain[b][i].self_pc = a[1] /\ chain[b][i].arcs[j].from_pc = a[2]
              /\ u = <<<<<<b, i>>, j>>, n>>
    BY <2>1
  <2>3. PICK j \in 1 .. Len(chain[b][i].arcs) :
          \E n \in 1 .. chain[b][i].arcs[j].count :
            /\ chain[b][i].self_pc = a[1] /\ chain[b][i].arcs[j].from_pc = a[2]
            /\ u = <<<<<<b, i>>, j>>, n>>
    BY <2>2
  <2>. QED
    BY <1>9, <2>3
<1>. QED
  BY <1>8, <1>10

LEMMA CountedNext == \A a : \A u : u \in Profiler!Counted(a)' <=> UnitOf(u, a)'
<1>1. (\A a : \A u : u \in Profiler!Counted(a) <=> UnitOf(u, a))'
  BY CountedIs, PTL
<1>. QED
  BY <1>1

-----------------------------------------------------------------------------
\* Nothing is taken out of a chain, and what an entry is about stays.
ChainGrows ==
  \A b \in Profiler!Bucket : \A i \in 1 .. Len(chain[b]) :
    /\ i \in 1 .. Len(chain'[b]) /\ chain'[b][i].self_pc = chain[b][i].self_pc
    /\ \A j \in 1 .. Len(chain[b][i].arcs) :
         /\ j \in 1 .. Len(chain'[b][i].arcs)
         /\ chain'[b][i].arcs[j].from_pc = chain[b][i].arcs[j].from_pc
CountsGrow ==
  \A b \in Profiler!Bucket : \A i \in 1 .. Len(chain[b]) :
    \A j \in 1 .. Len(chain[b][i].arcs) :
      chain[b][i].arcs[j].count <= chain'[b][i].arcs[j].count

LEMMA OtherCall ==
  ASSUME ProfileTypes, NEW c \in Profiler!Context, NEW d \in Profiler!Context,
         d # c, Profiler!Runs(c), CallOK(d), ChainGrows, c = "handler" => CountsGrow,
         call'[d] = call[d], p_calls'[d] = p_calls[d], chain' \in [Profiler!Bucket -> Seq(FnRecord)]
  PROVE  CallOK(d)'
<1>1. CASE c = "program"
  <2>1. d = "handler" /\ call[d] = Profiler!Idle
    BY <1>1 DEF Profiler!Context, Profiler!Runs
  <2>. QED
    BY <2>1 DEF CallOK, Profiler!Idle
<1>2. CASE c # "program"
  <2>1. d # "handler" /\ c = "handler"
    BY <1>2 DEF Profiler!Context
  <2>. DEFINE r == call[d]
              b == hash[r.arc[1]]
  <2>2. r.at # "idle" => b \in Profiler!Bucket
    BY CallIs
  <2>3. r.at # "idle" /\ HasFunction(d) => HasFunction(d)'
    BY <2>2 DEF HasFunction, ChainGrows
  <2>4. ASSUME r.at = "add", HasFunction(d), HasArc(d) PROVE HasArc(d)'
    <3>. DEFINE i == r.fn
                j == r.found
    <3>1. /\ b \in Profiler!Bucket /\ i \in 1 .. Len(chain[b])
          /\ j \in 1 .. Len(chain[b][i].arcs) /\ r.r2 \in Nat
          /\ chain[b][i].arcs[j].from_pc = r.arc[2]
          /\ r.r2 <= chain[b][i].arcs[j].count
      BY <2>2, <2>4, CallIs DEF HasFunction, HasArc
    <3>. HIDE DEF i, j, b
    <3>2. /\ j \in 1 .. Len(chain'[b][i].arcs) /\ i \in 1 .. Len(chain'[b])
          /\ chain'[b][i].arcs[j].from_pc = r.arc[2]
      BY <3>1 DEF ChainGrows
    <3>3. chain[b][i].arcs[j].count <= chain'[b][i].arcs[j].count
      BY <2>1, <3>1 DEF CountsGrow
    <3>4. chain[b][i].arcs[j].count \in Nat
      BY <3>1, ChainIs
    <3>5. chain'[b][i].arcs[j].count \in Nat
      <4>1. chain'[b] \in Seq(FnRecord)
        BY <3>1
      <4>2. chain'[b][i] \in FnRecord
        BY <3>2, <4>1, ElementOfSeq
      <4>3. chain'[b][i].arcs \in Seq(ArcRecord)
        BY <4>2 DEF FnRecord
      <4>4. chain'[b][i].arcs[j] \in ArcRecord
        BY <3>2, <4>3, ElementOfSeq
      <4>. QED
        BY <4>4 DEF ArcRecord
    <3>6. r.r2 <= chain'[b][i].arcs[j].count
      <4>. DEFINE count == chain[b][i].arcs[j].count
                  later == chain'[b][i].arcs[j].count
      <4>1. /\ r.r2 \in Nat /\ count \in Nat /\ later \in Nat
            /\ r.r2 <= count /\ count <= later
        BY <3>1, <3>3, <3>4, <3>5
      <4>. HIDE DEF r, count, later
      <4>2. r.r2 <= later
        BY <4>1
      <4>. QED
        BY <4>2 DEF later
    <3>7. /\ r.found \in 1 .. Len(chain'[hash[r.arc[1]]][r.fn].arcs)
          /\ chain'[hash[r.arc[1]]][r.fn].arcs[r.found].from_pc = r.arc[2]
          /\ r.r2 <= chain'[hash[r.arc[1]]][r.fn].arcs[r.found].count
      BY <3>2, <3>6 DEF b, i, j
    <3>. QED
      BY <2>1, <3>7 DEF HasArc
  <2>5. call'[d] = r /\ p_calls'[d] = p_calls[d]
    OBVIOUS
  <2>. HIDE DEF r, b
  <2>. QED
    BY <2>3, <2>4, <2>5 DEF CallOK, r
<1>. QED
  BY <1>1, <1>2

LEMMA InGraphStays ==
  ASSUME ProfileTypes, NEW a \in Profiler!Arc, InGraph(a), ChainGrows
  PROVE  InGraph(a)'
<1>. DEFINE b == hash[a[1]]
<1>1. b \in Profiler!Bucket
  BY DEF Profiler!Arc, Profiler!Bucket
<1>2. PICK i \in 1 .. Len(chain[b]) :
        /\ chain[b][i].self_pc = a[1]
        /\ \E j \in 1 .. Len(chain[b][i].arcs) : chain[b][i].arcs[j].from_pc = a[2]
  BY DEF InGraph, InChains
<1>3. PICK j \in 1 .. Len(chain[b][i].arcs) : chain[b][i].arcs[j].from_pc = a[2]
  BY <1>2
<1>4. /\ i \in 1 .. Len(chain'[b]) /\ chain'[b][i].self_pc = a[1]
      /\ j \in 1 .. Len(chain'[b][i].arcs) /\ chain'[b][i].arcs[j].from_pc = a[2]
  BY <1>1, <1>2, <1>3 DEF ChainGrows
<1>. QED
  BY <1>4 DEF InGraph, InChains

\* A step of a call that neither writes the graph nor ends.
LEMMA QuietStep ==
  ASSUME ProfileInv, NEW c \in Profiler!Context, Profiler!Runs(c),
         UNCHANGED Profiler!memory, UNCHANGED p_calls,
         NEW r \in CallType, call' = [call EXCEPT ![c] = r],
         need_init' \in BOOLEAN, ticking' \in BOOLEAN, started' \in Nat,
         bucket' \in Int, bucket' < s_high_pc \div BYTES_PER_BUCKET, CallOK(c)'
  PROVE  ProfileInv'
<1>0. UNCHANGED <<chain, slab, p_heap_end, p_calls>>
  BY DEF Profiler!memory
<1>1. ProfileTypes'
  BY <1>0 DEF ProfileInv, ProfileTypes
<1>2. ASSUME NEW d \in Profiler!Context PROVE CallOK(d)'
  <2>1. CASE d = c
    BY <2>1
  <2>2. CASE d # c
    <3>1. ChainGrows
      BY <1>0 DEF ChainGrows
    <3>2. CountsGrow
      <4>1. \A b \in Profiler!Bucket : \A i \in 1 .. Len(chain[b]) :
              \A j \in 1 .. Len(chain[b][i].arcs) : chain[b][i].arcs[j].count \in Nat
        BY ChainIs DEF ProfileInv
      <4>2. chain' = chain
        BY <1>0
      <4>. SUFFICES ASSUME NEW b \in Profiler!Bucket, NEW i \in 1 .. Len(chain[b]),
                           NEW j \in 1 .. Len(chain[b][i].arcs)
                    PROVE  chain[b][i].arcs[j].count <= chain[b][i].arcs[j].count
        BY <4>2 DEF CountsGrow
      <4>3. chain[b][i].arcs[j].count \in Nat
        BY <4>1
      <4>. QED
        BY <4>3
    <3>. QED
      BY <1>0, <2>2, <3>1, <3>2, OtherCall DEF ProfileInv, ProfileTypes
  <2>. QED
    BY <2>1, <2>2
<1>6. chain' = chain /\ slab' = slab /\ p_heap_end' = p_heap_end /\ p_calls' = p_calls
  BY <1>0
<1>3. CallsInGraph'
  <2>1. \A a : InGraph(a)' <=> InGraph(a)
    BY <1>6 DEF InGraph, InChains
  <2>. QED
    BY <1>6, <2>1 DEF ProfileInv, CallsInGraph
<1>4. CountsNoMore'
  <2>1. \A a : Profiler!Counted(a)' = Profiler!Counted(a)
    <3>1. \A a : \A u : UnitOf(u, a)' <=> UnitOf(u, a)
      BY <1>6 DEF UnitOf
    <3>2. \A a : \A u : u \in Profiler!Counted(a)' <=> u \in Profiler!Counted(a)
      BY <3>1, CountedIs, CountedNext
    <3>3. ASSUME NEW a PROVE Profiler!Counted(a)' = Profiler!Counted(a)
      <4>1. /\ \A u \in Profiler!Counted(a)' : u \in Profiler!Counted(a)
            /\ \A u \in Profiler!Counted(a) : u \in Profiler!Counted(a)'
        BY <3>2
      <4>. QED
        BY <4>1
    <3>. QED
      BY <3>3
  <2>2. \A a : Profiler!TimesOver(a)' = Profiler!TimesOver(a)
    BY <1>6, Zenon DEF Profiler!TimesOver
  <2>. QED
    BY <2>1, <2>2 DEF ProfileInv, CountsNoMore
<1>5. SlabInv' /\ SpotsApart'
  <2>1. \A b, i, j : Place(b, i, j)' = Place(b, i, j)
    BY <1>6 DEF Place
  <2>2. \A b, i, j : Spot(b, i, j)' <=> Spot(b, i, j)
    BY <1>6 DEF Spot
  <2>3. SlabInv'
    BY <1>6 DEF ProfileInv, SlabInv
  <2>. QED
    BY <1>6, <2>1, <2>2, <2>3 DEF ProfileInv, SpotsApart
<1>. QED
  BY <1>1, <1>2, <1>3, <1>4, <1>5 DEF ProfileInv

\* No count is higher by more than the unit v of arc x.
OnlyNew(v, x) == \A a \in Profiler!Arc : \A u :
                   UnitOf(u, a)' => UnitOf(u, a) \/ (a = x /\ u = v)

\* A call that ends: it has been counted once more, at most.
LEMMA EndStep ==
  ASSUME ProfileInv, NEW c \in Profiler!Context, Profiler!Runs(c),
         call[c].at # "idle", Profiler!Over(c), UNCHANGED Profiler!sampler,
         chain' \in [Profiler!Bucket -> Seq(FnRecord)], ChainGrows,
         c = "handler" => CountsGrow,
         slab' \in [ptr : Nat, size : 0 .. SLAB_INCREMENT],
         p_heap_end' \in 0 .. p_heap_limit,
         slab'.ptr + slab'.size = p_heap_end', slab'.ptr <= slab.ptr + 2,
         SpotsApart', InChains(call[c].arc, chain'),
         NEW v, OnlyNew(v, call[c].arc)
  PROVE  ProfileInv'
<1>. DEFINE x == call[c].arc
            before == p_calls[c]
<1>0. /\ ProfileTypes /\ \A d \in Profiler!Context : CallOK(d)
      /\ CallsInGraph /\ CountsNoMore /\ SlabInv
  BY DEF ProfileInv
<1>1. /\ x \in Profiler!Arc /\ before \in Seq(Profiler!Arc)
      /\ Len(before) \in Nat /\ Len(before) < MaxCalls
  BY <1>0, CallIs DEF ProfileTypes, CallOK
<1>2. /\ call' = [call EXCEPT ![c] = Profiler!Idle]
      /\ p_calls' = [p_calls EXCEPT ![c] = Append(before, x)]
      /\ need_init' = need_init /\ ticking' = ticking /\ started' = started
      /\ bucket' = bucket
  BY DEF Profiler!Over, Profiler!Goto, Profiler!sampler
<1>3. /\ p_calls'[c] = Append(before, x) /\ call'[c] = Profiler!Idle
      /\ Len(p_calls'[c]) = Len(before) + 1 /\ p_calls'[c] \in Seq(Profiler!Arc)
      /\ \A k \in 1 .. Len(before) : p_calls'[c][k] = before[k]
      /\ p_calls'[c][Len(before) + 1] = x
      /\ \A d \in Profiler!Context \ {c} :
           p_calls'[d] = p_calls[d] /\ call'[d] = call[d]
  <2>1. p_calls'[c] = Append(before, x) /\ call'[c] = Profiler!Idle
    BY <1>0, <1>2 DEF ProfileTypes
  <2>2. \A d \in Profiler!Context \ {c} : p_calls'[d] = p_calls[d] /\ call'[d] = call[d]
    BY <1>0, <1>2 DEF ProfileTypes
  <2>. HIDE DEF x, before
  <2>. QED
    BY <1>1, <2>1, <2>2, AppendProperties
<1>. HIDE DEF x, before
<1>4. ProfileTypes'
  <2>1. Profiler!Idle \in CallType
    BY DEF CallType
  <2>2. call' \in [Profiler!Context -> CallType]
    BY <1>0, <1>2, <2>1 DEF ProfileTypes
  <2>3. p_calls' \in [Profiler!Context -> Seq(Profiler!Arc)]
    BY <1>0, <1>2, <1>3 DEF ProfileTypes
  <2>. QED
    BY <1>0, <1>2, <2>2, <2>3 DEF ProfileTypes
<1>5. ASSUME NEW d \in Profiler!Context PROVE CallOK(d)'
  <2>1. CASE d = c
    BY <1>1, <1>3, <2>1, ProfileSet DEF CallOK, Profiler!Idle
  <2>2. CASE d # c
    BY <1>0, <1>3, <2>2, OtherCall
  <2>. QED
    BY <2>1, <2>2
<1>6. CallsInGraph'
  <2>. SUFFICES ASSUME NEW d \in Profiler!Context, NEW k \in 1 .. Len(p_calls'[d])
                PROVE  InChains(p_calls'[d][k], chain')
    BY DEF CallsInGraph, InGraph
  <2>1. ASSUME NEW e \in Profiler!Context, NEW l \in 1 .. Len(p_calls[e])
        PROVE  InChains(p_calls[e][l], chain')
    <3>1. p_calls[e] \in Seq(Profiler!Arc) /\ InGraph(p_calls[e][l])
      BY <1>0 DEF ProfileTypes, CallsInGraph
    <3>2. PICK y \in Profiler!Arc : y = p_calls[e][l]
      BY <3>1, ElementOfSeq
    <3>3. InGraph(y)'
      BY <1>0, <3>1, <3>2, InGraphStays
    <3>. QED
      BY <3>2, <3>3 DEF InGraph
  <2>2. CASE d # c
    BY <1>3, <2>1, <2>2
  <2>3. CASE d = c /\ k # Len(before) + 1
    <3>1. k \in 1 .. Len(before) + 1
      BY <1>3, <2>3
    <3>2. k \in 1 .. Len(before)
      BY <1>1, <2>3, <3>1
    <3>3. p_calls'[d][k] = p_calls[c][k]
      BY <1>3, <2>3, <3>2 DEF before
    <3>. QED
      BY <2>1, <3>2, <3>3 DEF before
  <2>4. CASE d = c /\ k = Len(before) + 1
    <3>1. p_calls'[d][k] = x
      BY <1>3, <2>4
    <3>2. InChains(x, chain')
      BY DEF x
    <3>. QED
      BY <3>1, <3>2
  <2>. QED
    BY <2>2, <2>3, <2>4
<1>7. SlabInv'
  <2>. DEFINE L(d) == Len(p_calls[d])
              M(d) == Len(p_calls'[d])
  <2>1. /\ \A d \in Profiler!Context : L(d) \in Nat /\ M(d) \in Nat
        /\ M(c) = L(c) + 1 /\ \A d \in Profiler!Context \ {c} : M(d) = L(d)
    <3>1. \A d \in Profiler!Context : L(d) \in Nat /\ M(d) \in Nat
      BY <1>0, <1>4 DEF ProfileTypes
    <3>2. M(c) = L(c) + 1 /\ \A d \in Profiler!Context \ {c} : M(d) = L(d)
      BY <1>3 DEF before
    <3>. QED
      BY <3>1, <3>2
  <2>2. slab.ptr \in Nat /\ slab'.ptr \in Nat
    BY <1>0 DEF ProfileTypes
  <2>3. slab.ptr <= 2 * (L("program") + L("handler"))
    BY <1>0 DEF SlabInv
  <2>4. slab'.ptr <= 2 * (M("program") + M("handler"))
    <3>. HIDE DEF L, M
    <3>1. M("program") + M("handler") = L("program") + L("handler") + 1
      BY <2>1 DEF Profiler!Context
    <3>2. L("program") + L("handler") \in Nat
      BY <2>1 DEF Profiler!Context
    <3>. QED
      BY <2>2, <2>3, <3>1, <3>2
  <2>. QED
    BY <2>4 DEF SlabInv
<1>8. CountsNoMore'
  <2>. SUFFICES ASSUME NEW a \in Profiler!Arc
                PROVE  /\ IsFiniteSet(Profiler!Counted(a)')
                       /\ Cardinality(Profiler!Counted(a)') <= Profiler!TimesOver(a)'
    BY DEF CountsNoMore
  <2>. DEFINE Times(p) == {i \in 1 .. Len(p) : p[i] = a}
              N == Profiler!Counted(a)
              M == Profiler!Counted(a)'
  <2>1. IsFiniteSet(N) /\ Cardinality(N) <= Profiler!TimesOver(a)
    BY <1>0 DEF CountsNoMore
  <2>2. /\ Profiler!TimesOver(a) = Cardinality(Times(p_calls["program"]))
                                     + Cardinality(Times(p_calls["handler"]))
        /\ Profiler!TimesOver(a)' = Cardinality(Times(p_calls'["program"]))
                                      + Cardinality(Times(p_calls'["handler"]))
    <3>1. Profiler!TimesOver(a) = Cardinality(Times(p_calls["program"]))
                                     + Cardinality(Times(p_calls["handler"]))
      BY SameSize, Zenon DEF Profiler!TimesOver
    <3>2. Profiler!TimesOver(a)' = Cardinality(Times(p_calls'["program"]))
                                      + Cardinality(Times(p_calls'["handler"]))
      BY SameSize, Zenon DEF Profiler!TimesOver
    <3>. QED
      BY <3>1, <3>2
  <2>3. ASSUME NEW d \in Profiler!Context
        PROVE  IsFiniteSet(Times(p_calls[d])) /\ Cardinality(Times(p_calls[d])) \in Nat
    <3>1. Len(p_calls[d]) \in Nat
      BY <1>0 DEF ProfileTypes
    <3>2. IsFiniteSet(1 .. Len(p_calls[d]))
      <4>1. 1 \in Int /\ Len(p_calls[d]) \in Int
        BY <3>1
      <4>. QED
        BY <4>1, FS_Interval
    <3>3. IsFiniteSet(Times(p_calls[d]))
      BY <3>2, FS_Subset
    <3>. QED
      BY <3>3, FS_CardinalityType
  <2>4. Cardinality(Times(p_calls'[c])) =
          Cardinality(Times(p_calls[c])) + IF a = x THEN 1 ELSE 0
    <3>1. Times(p_calls'[c]) = IF a = x THEN Times(p_calls[c]) \cup {Len(before) + 1}
                                        ELSE Times(p_calls[c])
      BY <1>1, <1>3 DEF before
    <3>2. Len(before) + 1 \notin Times(p_calls[c])
      BY <1>1 DEF before
    <3>. HIDE DEF Times
    <3>3. IsFiniteSet(Times(p_calls[c])) /\ Cardinality(Times(p_calls[c])) \in Nat
      BY <2>3
    <3>4. Cardinality(Times(p_calls[c]) \cup {Len(before) + 1})
            = Cardinality(Times(p_calls[c])) + 1
      BY <3>2, <3>3, FS_AddElement
    <3>. QED
      BY <3>1, <3>3, <3>4
  <2>5. \A d \in Profiler!Context \ {c} : Times(p_calls'[d]) = Times(p_calls[d])
    BY <1>3
  <2>. HIDE DEF Times
  <2>6. Profiler!TimesOver(a)' = Profiler!TimesOver(a) + IF a = x THEN 1 ELSE 0
    BY <2>2, <2>3, <2>4, <2>5 DEF Profiler!Context
  <2>7. M \subseteq N \cup (IF a = x THEN {v} ELSE {})
    <3>1. \A u \in M : UnitOf(u, a)'
      BY CountedNext
    <3>2. \A u \in M : UnitOf(u, a) \/ (a = x /\ u = v)
      BY <3>1 DEF x, OnlyNew
    <3>3. \A u \in M : u \in N \/ (a = x /\ u = v)
      BY <3>2, CountedIs
    <3>. HIDE DEF M, N
    <3>. QED
      BY <3>3
  <2>8. Profiler!TimesOver(a) \in Nat
    BY <2>2, <2>3 DEF Profiler!Context
  <2>. HIDE DEF M, N
  <2>9. CASE a = x
    <3>1. /\ IsFiniteSet(N \cup {v}) /\ Cardinality(N \cup {v}) <= Cardinality(N) + 1
          /\ Cardinality(N) \in Nat
      <4>1. Cardinality(N) \in Nat
        BY <2>1, FS_CardinalityType
      <4>2. IsFiniteSet(N \cup {v})
        BY <2>1, FS_AddElement
      <4>3. CASE v \in N
        <5>1. N \cup {v} = N
          BY <4>3
        <5>2. Cardinality(N \cup {v}) = Cardinality(N)
          BY <5>1
        <5>. HIDE DEF N
        <5>. QED
          BY <4>1, <4>2, <5>2
      <4>4. CASE v \notin N
        <5>1. Cardinality(N \cup {v}) = Cardinality(N) + 1
          BY <2>1, <4>4, FS_AddElement
        <5>. QED
          BY <4>1, <4>2, <5>1
      <4>. QED
        BY <4>3, <4>4
    <3>2. M \in SUBSET (N \cup {v})
      BY <2>7, <2>9
    <3>3. IsFiniteSet(M) /\ Cardinality(M) <= Cardinality(N \cup {v})
      BY <3>1, <3>2, FS_Subset
    <3>4. Cardinality(M) \in Nat /\ Cardinality(N \cup {v}) \in Nat
      BY <3>1, <3>3, FS_CardinalityType
    <3>. QED
      BY <2>1, <2>6, <2>8, <2>9, <3>1, <3>3, <3>4 DEF M
  <2>10. CASE a # x
    <3>1. M \in SUBSET N
      BY <2>7, <2>10
    <3>2. IsFiniteSet(M) /\ Cardinality(M) <= Cardinality(N)
      BY <2>1, <3>1, FS_Subset
    <3>3. Cardinality(M) \in Nat /\ Cardinality(N) \in Nat
      BY <2>1, <3>2, FS_CardinalityType
    <3>. QED
      BY <2>1, <2>6, <2>8, <2>10, <3>2, <3>3 DEF M
  <2>. QED
    BY <2>9, <2>10
<1>. QED
  BY <1>4, <1>5, <1>6, <1>7, <1>8 DEF ProfileInv

\* Raising a count leaves everything else in its place (alt_mcount.S:109-116).
Raised(b, i, j, n) == [chain EXCEPT ![b][i].arcs[j].count = n]
OnlyRaised(b, i, j, n) ==
  \A d \in Profiler!Bucket :
    /\ Len(chain'[d]) = Len(chain[d])
    /\ \A k \in 1 .. Len(chain[d]) :
         /\ chain'[d][k].self_pc = chain[d][k].self_pc
         /\ chain'[d][k].lies = chain[d][k].lies
         /\ Len(chain'[d][k].arcs) = Len(chain[d][k].arcs)
         /\ \A l \in 1 .. Len(chain[d][k].arcs) :
              LET q == chain'[d][k].arcs[l]
                  p == chain[d][k].arcs[l]
              IN  /\ q.from_pc = p.from_pc /\ q.lies = p.lies
                  /\ q.count = IF d = b /\ k = i /\ l = j THEN n ELSE p.count
LEMMA RaisedIs ==
  ASSUME ProfileTypes, NEW b \in Profiler!Bucket, NEW i \in 1 .. Len(chain[b]),
         NEW j \in 1 .. Len(chain[b][i].arcs), NEW n \in Nat,
         chain' = Raised(b, i, j, n)
  PROVE  /\ chain' \in [Profiler!Bucket -> Seq(FnRecord)]
         /\ OnlyRaised(b, i, j, n)
<1>. DEFINE G == chain[b]
            E == G[i]
            A == E.arcs
            R == A[j]
            R1 == [R EXCEPT !.count = n]
            A1 == [A EXCEPT ![j] = R1]
            E1 == [E EXCEPT !.arcs = A1]
            G1 == [G EXCEPT ![i] = E1]
<1>1. chain' = [chain EXCEPT ![b] = G1]
  BY DEF Raised
<1>2. /\ G \in Seq(FnRecord) /\ E \in FnRecord /\ A \in Seq(ArcRecord)
      /\ R \in ArcRecord /\ Len(G) \in Nat /\ Len(A) \in Nat
  BY ChainIs
<1>3. chain \in [Profiler!Bucket -> Seq(FnRecord)]
  BY DEF ProfileTypes
<1>. HIDE DEF G1, G
<1>4. /\ R1 \in ArcRecord /\ R1.count = n /\ R1.from_pc = R.from_pc
      /\ R1.lies = R.lies
  <2>. HIDE DEF R
  <2>. QED
    BY <1>2 DEF ArcRecord
<1>5. /\ A1 \in Seq(ArcRecord) /\ Len(A1) = Len(A) /\ A1[j] = R1
      /\ \A l \in 1 .. Len(A) : l # j => A1[l] = A[l]
  <2>1. j \in 1 .. Len(A)
    BY DEF G
  <2>. HIDE DEF R1, A
  <2>. QED
    BY <1>2, <1>4, <2>1, ExceptSeq
<1>6. /\ E1 \in FnRecord /\ E1.self_pc = E.self_pc /\ E1.lies = E.lies
      /\ E1.arcs = A1
  <2>. HIDE DEF A1, E
  <2>. QED
    BY <1>2, <1>5 DEF FnRecord
<1>7. /\ G1 \in Seq(FnRecord) /\ Len(G1) = Len(G) /\ G1[i] = E1
      /\ \A k \in 1 .. Len(G) : k # i => G1[k] = G[k]
  <2>1. i \in 1 .. Len(G)
    BY DEF G
  <2>. HIDE DEF E1, G
  <2>. QED
    BY <1>2, <1>6, <2>1, ExceptSeq DEF G1
<1>8. chain'[b] = G1 /\ \A d \in Profiler!Bucket \ {b} : chain'[d] = chain[d]
  BY <1>1, <1>3
<1>9. chain' \in [Profiler!Bucket -> Seq(FnRecord)]
  BY <1>1, <1>3, <1>7
<1>. HIDE DEF R1, A1, E1, E, A, R
<1>10. ASSUME NEW d \in Profiler!Bucket
       PROVE  /\ Len(chain'[d]) = Len(chain[d])
              /\ \A k \in 1 .. Len(chain[d]) :
                   /\ chain'[d][k].self_pc = chain[d][k].self_pc
                   /\ chain'[d][k].lies = chain[d][k].lies
                   /\ Len(chain'[d][k].arcs) = Len(chain[d][k].arcs)
                   /\ \A l \in 1 .. Len(chain[d][k].arcs) :
                        LET q == chain'[d][k].arcs[l]
                            p == chain[d][k].arcs[l]
                        IN  /\ q.from_pc = p.from_pc /\ q.lies = p.lies
                            /\ q.count = IF d = b /\ k = i /\ l = j THEN n ELSE p.count
  <2>1. CASE d # b
    BY <1>8, <2>1
  <2>2. CASE d = b
    <3>1. chain'[d] = G1 /\ chain[d] = G
      BY <1>8, <2>2 DEF G
    <3>2. ASSUME NEW k \in 1 .. Len(G), k # i
          PROVE  G1[k] = G[k]
      BY <1>7, <3>2
    <3>3. G1[i].arcs = A1 /\ G[i].arcs = A
      BY <1>6, <1>7 DEF A, E
    <3>4. ASSUME NEW l \in 1 .. Len(A)
          PROVE  /\ A1[l].from_pc = A[l].from_pc /\ A1[l].lies = A[l].lies
                 /\ A1[l].count = IF l = j THEN n ELSE A[l].count
      BY <1>4, <1>5 DEF R
    <3>5. G1[i].self_pc = G[i].self_pc /\ G1[i].lies = G[i].lies
      BY <1>6, <1>7 DEF E
    <3>6. \A k \in 1 .. Len(G) :
                   /\ G1[k].self_pc = G[k].self_pc
                   /\ G1[k].lies = G[k].lies
                   /\ Len(G1[k].arcs) = Len(G[k].arcs)
                   /\ \A l \in 1 .. Len(G[k].arcs) :
                        /\ G1[k].arcs[l].from_pc = G[k].arcs[l].from_pc
                        /\ G1[k].arcs[l].lies = G[k].arcs[l].lies
                        /\ G1[k].arcs[l].count = IF k = i /\ l = j THEN n
                                                ELSE G[k].arcs[l].count
      <4>. TAKE k \in 1 .. Len(G)
      <4>1. CASE k # i
        BY <3>2, <4>1
      <4>2. CASE k = i
        BY <1>5, <3>3, <3>4, <3>5, <4>2
      <4>. QED
        BY <4>1, <4>2
    <3>. QED
      BY <1>7, <2>2, <3>1, <3>6
  <2>. QED
    BY <2>1, <2>2
<1>. QED
  BY <1>9, <1>10 DEF OnlyRaised

LEMMA AddStep ==
  ASSUME ProfileInv, NEW c \in Profiler!Context, Profiler!Add(c)
  PROVE  ProfileInv'
<1>. DEFINE x == call[c].arc
            b == hash[x[1]]
            i == call[c].fn
            j == call[c].found
            n == call[c].r2 + 1
            v == <<<<<<b, i>>, j>>, n>>
<1>0. /\ ProfileTypes /\ CallOK(c) /\ SlabInv /\ SpotsApart
      /\ call[c].at = "add" /\ Profiler!Runs(c) /\ Profiler!Over(c)
      /\ UNCHANGED Profiler!sampler /\ slab' = slab /\ p_heap_end' = p_heap_end
  BY DEF ProfileInv, Profiler!Add, Profiler!At
<1>1. /\ x \in Profiler!Arc /\ b \in Profiler!Bucket /\ i \in 1 .. Len(chain[b])
      /\ j \in 1 .. Len(chain[b][i].arcs) /\ n \in Nat /\ n > 0
      /\ chain[b][i].self_pc = x[1] /\ chain[b][i].arcs[j].from_pc = x[2]
      /\ call[c].r2 = n - 1
  <2>1. HasFunction(c) /\ HasArc(c)
    BY <1>0 DEF CallOK
  <2>2. x \in Profiler!Arc /\ b \in Profiler!Bucket /\ call[c].r2 \in Nat
    BY <1>0, CallIs
  <2>3. i \in 1 .. Len(chain[b]) /\ chain[b][i].self_pc = x[1]
    BY <2>1 DEF HasFunction
  <2>4. j \in 1 .. Len(chain[b][i].arcs) /\ chain[b][i].arcs[j].from_pc = x[2]
    BY <2>1 DEF HasArc
  <2>5. n \in Nat /\ n > 0 /\ call[c].r2 = n - 1
    BY <2>2
  <2>. QED
    BY <2>2, <2>3, <2>4, <2>5, Zenon
<1>2. chain' = Raised(b, i, j, n)
  BY DEF Profiler!Add, Raised
<1>3. /\ call[c].r2 <= chain[b][i].arcs[j].count
      /\ c = "handler" => call[c].r2 = chain[b][i].arcs[j].count
  <2>1. HasArc(c)
    BY <1>0 DEF CallOK
  <2>. QED
    BY <2>1 DEF HasArc
<1>. HIDE DEF x, b, i, j, n
<1>9. x = <<x[1], x[2]>>
  BY <1>1 DEF Profiler!Arc
<1>4. chain' \in [Profiler!Bucket -> Seq(FnRecord)] /\ OnlyRaised(b, i, j, n)
  BY <1>0, <1>1, <1>2, RaisedIs
<1>5. ChainGrows
  BY <1>4 DEF ChainGrows, OnlyRaised
<1>6. ASSUME c = "handler" PROVE CountsGrow
  <2>1. \A d \in Profiler!Bucket : \A k \in 1 .. Len(chain[d]) :
          \A l \in 1 .. Len(chain[d][k].arcs) : chain[d][k].arcs[l].count \in Nat
    BY <1>0, ChainIs
  <2>2. n = chain[b][i].arcs[j].count + 1
    BY <1>1, <1>3, <1>6
  <2>. QED
    <3>. SUFFICES ASSUME NEW d \in Profiler!Bucket, NEW k \in 1 .. Len(chain[d]),
                         NEW l \in 1 .. Len(chain[d][k].arcs)
                  PROVE  chain[d][k].arcs[l].count <= chain'[d][k].arcs[l].count
      BY DEF CountsGrow
    <3>1. chain'[d][k].arcs[l].count = IF d = b /\ k = i /\ l = j THEN n
                                      ELSE chain[d][k].arcs[l].count
      BY <1>4 DEF OnlyRaised
    <3>2. chain[d][k].arcs[l].count \in Nat
      BY <2>1
    <3>. QED
      BY <2>2, <3>1, <3>2
<1>7. SpotsApart'
  <2>1. ASSUME NEW d, NEW k, NEW l
        PROVE  Spot(d, k, l)' <=> Spot(d, k, l)
    <3>1. ASSUME d \in Profiler!Bucket
          PROVE  Len(chain'[d]) = Len(chain[d])
      BY <1>4, <3>1 DEF OnlyRaised
    <3>2. ASSUME d \in Profiler!Bucket, k \in 1 .. Len(chain[d])
          PROVE  Len(chain'[d][k].arcs) = Len(chain[d][k].arcs)
      BY <1>4, <3>2 DEF OnlyRaised
    <3>. QED
      BY <3>1, <3>2 DEF Spot
  <2>2. ASSUME NEW d, NEW k, NEW l, Spot(d, k, l)
        PROVE  Place(d, k, l)' = Place(d, k, l)
    <3>1. /\ d \in Profiler!Bucket /\ k \in 1 .. Len(chain[d])
          /\ l \in 0 .. Len(chain[d][k].arcs) /\ Len(chain[d][k].arcs) \in Nat
      BY <1>0, <2>2, ChainIs DEF Spot
    <3>2. CASE l = 0
      BY <1>4, <3>1, <3>2 DEF Place, OnlyRaised
    <3>3. CASE l # 0
      <4>1. l \in 1 .. Len(chain[d][k].arcs)
        BY <3>1, <3>3
      <4>. QED
        BY <1>4, <3>1, <3>3, <4>1 DEF Place, OnlyRaised
    <3>. QED
      BY <3>2, <3>3
  <2>. QED
    BY <1>0, <2>1, <2>2 DEF SpotsApart
<1>8. InChains(x, chain')
  <2>1. /\ i \in 1 .. Len(chain'[b]) /\ chain'[b][i].self_pc = x[1]
        /\ j \in 1 .. Len(chain'[b][i].arcs) /\ chain'[b][i].arcs[j].from_pc = x[2]
    BY <1>1, <1>4 DEF OnlyRaised
  <2>. QED
    BY <2>1 DEF InChains, b
<1>10. ASSUME NEW a \in Profiler!Arc, NEW u, UnitOf(u, a)'
       PROVE  UnitOf(u, a) \/ (a = x /\ u = v)
  <2>1. PICK d \in Profiler!Bucket : \E k \in 1 .. Len(chain'[d]) :
          \E l \in 1 .. Len(chain'[d][k].arcs) :
            \E m \in 1 .. chain'[d][k].arcs[l].count :
              /\ chain'[d][k].self_pc = a[1] /\ chain'[d][k].arcs[l].from_pc = a[2]
              /\ u = <<<<<<d, k>>, l>>, m>>
    BY <1>10 DEF UnitOf
  <2>2. PICK k \in 1 .. Len(chain'[d]) :
          \E l \in 1 .. Len(chain'[d][k].arcs) :
            \E m \in 1 .. chain'[d][k].arcs[l].count :
              /\ chain'[d][k].self_pc = a[1] /\ chain'[d][k].arcs[l].from_pc = a[2]
              /\ u = <<<<<<d, k>>, l>>, m>>
    BY <2>1
  <2>3. PICK l \in 1 .. Len(chain'[d][k].arcs) :
            \E m \in 1 .. chain'[d][k].arcs[l].count :
              /\ chain'[d][k].self_pc = a[1] /\ chain'[d][k].arcs[l].from_pc = a[2]
              /\ u = <<<<<<d, k>>, l>>, m>>
    BY <2>2
  <2>4. PICK m \in 1 .. chain'[d][k].arcs[l].count :
              /\ chain'[d][k].self_pc = a[1] /\ chain'[d][k].arcs[l].from_pc = a[2]
              /\ u = <<<<<<d, k>>, l>>, m>>
    BY <2>3
  <2>5. k \in 1 .. Len(chain[d]) /\ l \in 1 .. Len(chain[d][k].arcs)
    BY <1>4 DEF OnlyRaised
  <2>6. /\ chain[d][k].self_pc = a[1] /\ chain[d][k].arcs[l].from_pc = a[2]
        /\ chain'[d][k].arcs[l].count = IF d = b /\ k = i /\ l = j THEN n
                                        ELSE chain[d][k].arcs[l].count
    BY <1>4, <2>4, <2>5 DEF OnlyRaised
  <2>7. chain[d][k].arcs[l].count \in Nat
    BY <1>0, <2>5, ChainIs
  <2>8. CASE m \in 1 .. chain[d][k].arcs[l].count
    BY <2>4, <2>5, <2>6, <2>8 DEF UnitOf
  <2>9. CASE ~ (m \in 1 .. chain[d][k].arcs[l].count)
    <3>1. d = b /\ k = i /\ l = j
      BY <2>6, <2>9
    <3>2. m = n
      BY <1>1, <1>3, <2>6, <2>7, <2>9, <3>1
    <3>3. a = <<a[1], a[2]>>
      BY DEF Profiler!Arc
    <3>. QED
      BY <1>1, <1>9, <2>4, <2>6, <3>1, <3>2, <3>3
  <2>. QED
    BY <2>8, <2>9
<1>11. /\ slab' \in [ptr : Nat, size : 0 .. SLAB_INCREMENT]
       /\ p_heap_end' \in 0 .. p_heap_limit
       /\ slab'.ptr + slab'.size = p_heap_end' /\ slab'.ptr <= slab.ptr + 2
  BY <1>0 DEF ProfileTypes, SlabInv
<1>12. call[c].at # "idle"
  BY <1>0
<1>. HIDE DEF v
<1>13. OnlyNew(v, call[c].arc)
  BY <1>10 DEF x, OnlyNew
<1>14. InChains(call[c].arc, chain')
  BY <1>8 DEF x
<1>15. Profiler!Runs(c) /\ Profiler!Over(c) /\ UNCHANGED Profiler!sampler
  BY <1>0
<1>16. chain' \in [Profiler!Bucket -> Seq(FnRecord)]
  BY <1>4
<1>. QED
  BY <1>5, <1>6, <1>7, <1>11, <1>12, <1>13, <1>14, <1>15, <1>16, EndStep

-----------------------------------------------------------------------------
\* What is linked in: everything stays as it is but for a count of one, at
\* arc j of function i, in records that nothing lay in.
LinkedIn(b, i, j, x) ==
  /\ \A d, k, l : Spot(d, k, l) =>
       /\ Spot(d, k, l)' /\ Place(d, k, l)' = Place(d, k, l)
       /\ chain'[d][k].self_pc = chain[d][k].self_pc
       /\ l # 0 => chain'[d][k].arcs[l] = chain[d][k].arcs[l]
  /\ \A d, k, l : Spot(d, k, l)' =>
       Spot(d, k, l) \/ (d = b /\ k = i /\ (l = j \/ l = 0))
  /\ Spot(b, i, j)' /\ ~ Spot(b, i, j) /\ j # 0
  /\ chain'[b][i].self_pc = x[1] /\ chain'[b][i].arcs[j].from_pc = x[2]
  /\ chain'[b][i].arcs[j].count = 1
  /\ Place(b, i, j)' \in slab.ptr .. slab'.ptr - 1
  /\ Spot(b, i, 0) \/ /\ Place(b, i, 0)' \in slab.ptr .. slab'.ptr - 1
                      /\ Place(b, i, 0)' # Place(b, i, j)'

LEMMA LinkedIs ==
  ASSUME ProfileInv, NEW x \in Profiler!Arc, NEW i, NEW j, LinkedIn(hash[x[1]], i, j, x),
         slab'.ptr \in Nat, slab.ptr <= slab'.ptr,
         chain' \in [Profiler!Bucket -> Seq(FnRecord)]
  PROVE  /\ ChainGrows /\ CountsGrow /\ SpotsApart' /\ InChains(x, chain')
         /\ OnlyNew(<<<<<<hash[x[1]], i>>, j>>, 1>>, x)
<1>. DEFINE b == hash[x[1]]
<1>. HIDE DEF b
<1>0. ProfileTypes /\ SpotsApart /\ slab.ptr \in Nat
  BY DEF ProfileInv, ProfileTypes
<1>1. ASSUME NEW d \in Profiler!Bucket, NEW k \in 1 .. Len(chain[d])
      PROVE  /\ Spot(d, k, 0) /\ Len(chain[d][k].arcs) \in Nat
             /\ k \in 1 .. Len(chain'[d])
             /\ chain'[d][k].self_pc = chain[d][k].self_pc
             /\ \A l \in 1 .. Len(chain[d][k].arcs) :
                  /\ Spot(d, k, l) /\ l \in 1 .. Len(chain'[d][k].arcs)
                  /\ chain'[d][k].arcs[l] = chain[d][k].arcs[l]
                  /\ chain[d][k].arcs[l].count \in Nat
  <2>1. Len(chain[d][k].arcs) \in Nat
    BY <1>0, ChainIs
  <2>2. Spot(d, k, 0)
    BY <2>1 DEF Spot
  <2>3. Spot(d, k, 0)' /\ chain'[d][k].self_pc = chain[d][k].self_pc
    BY <2>2 DEF LinkedIn
  <2>4. k \in 1 .. Len(chain'[d])
    BY <2>3 DEF Spot
  <2>5. ASSUME NEW l \in 1 .. Len(chain[d][k].arcs)
        PROVE  /\ Spot(d, k, l) /\ l \in 1 .. Len(chain'[d][k].arcs)
               /\ chain'[d][k].arcs[l] = chain[d][k].arcs[l]
               /\ chain[d][k].arcs[l].count \in Nat
    <3>1. Spot(d, k, l) /\ l # 0 /\ l \in Nat
      BY <2>1 DEF Spot
    <3>2. Spot(d, k, l)' /\ chain'[d][k].arcs[l] = chain[d][k].arcs[l]
      <4>1. \A e, m, n : Spot(e, m, n) =>
              Spot(e, m, n)' /\ (n # 0 => chain'[e][m].arcs[n] = chain[e][m].arcs[n])
        BY DEF LinkedIn
      <4>. QED
        BY <3>1, <4>1
    <3>3. l \in 0 .. Len(chain'[d][k].arcs)
      BY <3>2 DEF Spot
    <3>4. Len(chain'[d][k].arcs) \in Nat
      <4>1. chain'[d] \in Seq(FnRecord)
        OBVIOUS
      <4>2. chain'[d][k] \in FnRecord
        BY <2>4, <4>1, ElementOfSeq
      <4>3. chain'[d][k].arcs \in Seq(ArcRecord)
        BY <4>2 DEF FnRecord
      <4>. QED
        BY <4>3
    <3>5. l \in 1 .. Len(chain'[d][k].arcs)
      BY <3>1, <3>3, <3>4
    <3>6. chain[d][k].arcs[l].count \in Nat
      BY <1>0, ChainIs
    <3>. QED
      BY <3>1, <3>2, <3>5, <3>6
  <2>. QED
    BY <2>1, <2>2, <2>3, <2>4, <2>5
<1>2. ChainGrows
  BY <1>1 DEF ChainGrows
<1>3. CountsGrow
  <2>. SUFFICES ASSUME NEW d \in Profiler!Bucket, NEW k \in 1 .. Len(chain[d]),
                       NEW l \in 1 .. Len(chain[d][k].arcs)
                PROVE  chain[d][k].arcs[l].count <= chain'[d][k].arcs[l].count
    BY DEF CountsGrow
  <2>1. /\ chain'[d][k].arcs[l] = chain[d][k].arcs[l]
        /\ chain[d][k].arcs[l].count \in Nat
    BY <1>1
  <2>. QED
    BY <2>1
<1>4. SpotsApart'
  <2>1. ASSUME NEW d, NEW k, NEW l, Spot(d, k, l)
        PROVE  Place(d, k, l)' = Place(d, k, l) /\ Place(d, k, l)' \in 0 .. slab.ptr - 1
    <3>1. Place(d, k, l)' = Place(d, k, l)
      BY <2>1 DEF LinkedIn
    <3>2. Place(d, k, l) \in 0 .. slab.ptr - 1
      BY <1>0, <2>1 DEF SpotsApart
    <3>. QED
      BY <3>1, <3>2
  <2>2. ASSUME NEW d, NEW k, NEW l, Spot(d, k, l)', ~ Spot(d, k, l)
        PROVE  /\ d = b /\ k = i /\ (l = j \/ l = 0)
               /\ Place(d, k, l)' \in slab.ptr .. slab'.ptr - 1
               /\ Place(b, i, 0)' # Place(b, i, j)' \/ l = j
    <3>1. d = b /\ k = i /\ (l = j \/ l = 0)
      BY <2>2 DEF LinkedIn, b
    <3>. QED
      BY <2>2, <3>1 DEF LinkedIn, b
  <2>3. ASSUME NEW d, NEW k, NEW l, Spot(d, k, l)'
        PROVE  Place(d, k, l)' \in 0 .. slab'.ptr - 1
    <3>1. CASE Spot(d, k, l)
      BY <1>0, <2>1, <3>1
    <3>2. CASE ~ Spot(d, k, l)
      <4>1. Place(d, k, l)' \in slab.ptr .. slab'.ptr - 1
        BY <2>2, <2>3, <3>2
      <4>. QED
        BY <1>0, <4>1
    <3>. QED
      BY <3>1, <3>2
  <2>4. ASSUME NEW d, NEW k, NEW l, NEW e, NEW m, NEW n,
               Spot(d, k, l)', Spot(e, m, n)', Place(d, k, l)' = Place(e, m, n)'
        PROVE  d = e /\ k = m /\ l = n
    <3>1. CASE Spot(d, k, l) /\ Spot(e, m, n)
      BY <1>0, <2>1, <2>4, <3>1 DEF SpotsApart
    <3>2. CASE Spot(d, k, l) /\ ~ Spot(e, m, n)
      <4>1. Place(d, k, l)' \in 0 .. slab.ptr - 1
        BY <2>1, <3>2
      <4>2. Place(e, m, n)' \in slab.ptr .. slab'.ptr - 1
        BY <2>2, <2>4, <3>2
      <4>. QED
        BY <1>0, <2>4, <4>1, <4>2
    <3>3. CASE ~ Spot(d, k, l) /\ Spot(e, m, n)
      <4>1. Place(e, m, n)' \in 0 .. slab.ptr - 1
        BY <2>1, <3>3
      <4>2. Place(d, k, l)' \in slab.ptr .. slab'.ptr - 1
        BY <2>2, <2>4, <3>3
      <4>. QED
        BY <1>0, <2>4, <4>1, <4>2
    <3>4. CASE ~ Spot(d, k, l) /\ ~ Spot(e, m, n)
      <4>1. /\ d = b /\ k = i /\ (l = j \/ l = 0) /\ e = b /\ m = i /\ (n = j \/ n = 0)
            /\ Place(b, i, 0)' # Place(b, i, j)' \/ (l = j /\ n = j)
        BY <2>2, <2>4, <3>4
      <4>2. CASE l = n
        BY <4>1, <4>2
      <4>3. CASE l = j /\ n = 0
        <5>1. Place(b, i, j)' = Place(b, i, 0)'
          BY <2>4, <4>1, <4>3
        <5>. QED
          BY <4>1, <4>3, <5>1
      <4>4. CASE l = 0 /\ n = j
        <5>1. Place(b, i, 0)' = Place(b, i, j)'
          BY <2>4, <4>1, <4>4
        <5>. QED
          BY <4>1, <4>4, <5>1
      <4>. QED
        BY <4>1, <4>2, <4>3, <4>4
    <3>. QED
      BY <3>1, <3>2, <3>3, <3>4
  <2>. QED
    BY <2>3, <2>4 DEF SpotsApart
<1>5. /\ b \in Profiler!Bucket /\ i \in 1 .. Len(chain'[b])
      /\ j \in 1 .. Len(chain'[b][i].arcs)
      /\ chain'[b][i].self_pc = x[1] /\ chain'[b][i].arcs[j].from_pc = x[2]
      /\ chain'[b][i].arcs[j].count = 1
  <2>1. /\ Spot(b, i, j)' /\ j # 0 /\ chain'[b][i].self_pc = x[1]
        /\ chain'[b][i].arcs[j].from_pc = x[2] /\ chain'[b][i].arcs[j].count = 1
    BY DEF LinkedIn, b
  <2>2. /\ b \in Profiler!Bucket /\ i \in 1 .. Len(chain'[b])
        /\ j \in 0 .. Len(chain'[b][i].arcs)
    BY <2>1 DEF Spot
  <2>3. Len(chain'[b][i].arcs) \in Nat
    <3>1. chain'[b] \in Seq(FnRecord)
      BY <2>2
    <3>2. chain'[b][i] \in FnRecord
      BY <2>2, <3>1, ElementOfSeq
    <3>3. chain'[b][i].arcs \in Seq(ArcRecord)
      BY <3>2 DEF FnRecord
    <3>. QED
      BY <3>3
  <2>. QED
    BY <2>1, <2>2, <2>3
<1>6. InChains(x, chain')
  BY <1>5 DEF InChains, b
<1>7. ASSUME NEW a \in Profiler!Arc, NEW u, UnitOf(u, a)'
      PROVE  UnitOf(u, a) \/ (a = x /\ u = <<<<<<b, i>>, j>>, 1>>)
  <2>1. PICK d \in Profiler!Bucket : \E k \in 1 .. Len(chain'[d]) :
          \E l \in 1 .. Len(chain'[d][k].arcs) :
            \E m \in 1 .. chain'[d][k].arcs[l].count :
              /\ chain'[d][k].self_pc = a[1] /\ chain'[d][k].arcs[l].from_pc = a[2]
              /\ u = <<<<<<d, k>>, l>>, m>>
    BY <1>7 DEF UnitOf
  <2>2. PICK k \in 1 .. Len(chain'[d]) :
          \E l \in 1 .. Len(chain'[d][k].arcs) :
            \E m \in 1 .. chain'[d][k].arcs[l].count :
              /\ chain'[d][k].self_pc = a[1] /\ chain'[d][k].arcs[l].from_pc = a[2]
              /\ u = <<<<<<d, k>>, l>>, m>>
    BY <2>1
  <2>3. PICK l \in 1 .. Len(chain'[d][k].arcs) :
            \E m \in 1 .. chain'[d][k].arcs[l].count :
              /\ chain'[d][k].self_pc = a[1] /\ chain'[d][k].arcs[l].from_pc = a[2]
              /\ u = <<<<<<d, k>>, l>>, m>>
    BY <2>2
  <2>4. PICK m \in 1 .. chain'[d][k].arcs[l].count :
              /\ chain'[d][k].self_pc = a[1] /\ chain'[d][k].arcs[l].from_pc = a[2]
              /\ u = <<<<<<d, k>>, l>>, m>>
    BY <2>3
  <2>5. Spot(d, k, l)' /\ l # 0
    BY DEF Spot
  <2>6. CASE Spot(d, k, l)
    <3>1. k \in 1 .. Len(chain[d]) /\ l \in 0 .. Len(chain[d][k].arcs)
      BY <2>6 DEF Spot
    <3>2. l \in 1 .. Len(chain[d][k].arcs)
      BY <1>1, <2>5, <3>1
    <3>3. /\ chain'[d][k].self_pc = chain[d][k].self_pc
          /\ chain'[d][k].arcs[l] = chain[d][k].arcs[l]
      BY <1>1, <3>1, <3>2
    <3>. QED
      BY <2>4, <3>1, <3>2, <3>3 DEF UnitOf
  <2>7. CASE ~ Spot(d, k, l)
    <3>1. d = b /\ k = i /\ l = j
      BY <2>5, <2>7 DEF LinkedIn, b
    <3>2. a = <<a[1], a[2]>> /\ x = <<x[1], x[2]>>
      BY DEF Profiler!Arc
    <3>3. m = 1
      BY <1>5, <3>1
    <3>4. a = x
      BY <1>5, <2>4, <3>1, <3>2
    <3>. QED
      BY <2>4, <3>1, <3>3, <3>4
  <2>. QED
    BY <2>6, <2>7
<1>. QED
  BY <1>2, <1>3, <1>4, <1>6, <1>7 DEF OnlyNew, b

\* mcount_allocate while the heap has room: the next record, of this slab or of
\* one that goes on where it ends.
LEMMA AllocatedIs ==
  ASSUME NEW s, NEW end \in 0 .. p_heap_limit, s.ptr \in Nat,
         s.size \in 0 .. SLAB_INCREMENT, s.ptr + s.size = end,
         s.ptr + SLAB_INCREMENT <= p_heap_limit
  PROVE  LET r == Profiler!Allocated(s, end) IN
         /\ r.ptr = s.ptr + 1 /\ r.size \in 0 .. SLAB_INCREMENT
         /\ r.end \in 0 .. p_heap_limit /\ r.ptr + r.size = r.end
<1>. DEFINE r == Profiler!Allocated(s, end)
<1>1. CASE s.size >= 1
  <2>1. r = [ptr |-> s.ptr + 1, size |-> s.size - 1, end |-> end]
    BY <1>1 DEF Profiler!Allocated
  <2>. HIDE DEF r
  <2>. QED
    BY <1>1, <2>1, ProfileSet DEF r
<1>2. CASE ~ (s.size >= 1)
  <2>1. s.size = 0 /\ s.ptr = end
    BY <1>2, ProfileSet
  <2>2. Profiler!sbrk(end) = end /\ end # -1
    BY <2>1, ProfileSet DEF Profiler!sbrk
  <2>3. r = [ptr |-> end + 1, size |-> SLAB_INCREMENT - 1, end |-> end + SLAB_INCREMENT]
    BY <1>2, <2>2 DEF Profiler!Allocated
  <2>. HIDE DEF r
  <2>. QED
    BY <2>1, <2>3, ProfileSet DEF r
<1>. QED
  BY <1>1, <1>2

LEMMA NewFunction ==
  ASSUME ProfileTypes, NEW x \in Profiler!Arc, NEW q, NEW e,
         q = [from_pc |-> x[2], count |-> 1, lies |-> slab.ptr + 1],
         e = [self_pc |-> x[1], arcs |-> <<q>>, lies |-> slab.ptr],
         chain' = [chain EXCEPT ![hash[x[1]]] = Append(@, e)],
         slab'.ptr = slab.ptr + 2, NEW i, i = Len(chain[hash[x[1]]]) + 1
  PROVE  /\ chain' \in [Profiler!Bucket -> Seq(FnRecord)]
         /\ LinkedIn(hash[x[1]], i, 1, x)
<1>. DEFINE b == hash[x[1]]
            G == chain[b]
<1>1. /\ b \in Profiler!Bucket /\ x[1] \in Self /\ x[2] \in From
      /\ slab.ptr \in Nat /\ slab.ptr + 1 \in Nat
  BY DEF Profiler!Arc, Profiler!Bucket, ProfileTypes
<1>. HIDE DEF b
<1>2. q \in ArcRecord /\ q.from_pc = x[2] /\ q.count = 1 /\ q.lies = slab.ptr + 1
  BY <1>1 DEF ArcRecord
<1>3. <<q>> \in Seq(ArcRecord) /\ Len(<<q>>) = 1 /\ (<<q>>)[1] = q
  <2>. HIDE DEF b
  <2>. QED
    BY <1>2
<1>4. /\ e \in FnRecord /\ e.self_pc = x[1] /\ e.lies = slab.ptr
      /\ e.arcs = <<q>>
  BY <1>1, <1>3 DEF FnRecord
<1>5. Len(e.arcs) = 1 /\ e.arcs[1] = q
  BY <1>3, <1>4
<1>6. G \in Seq(FnRecord) /\ Len(G) \in Nat /\ i = Len(G) + 1
  BY <1>1, ChainIs DEF b
<1>7. /\ chain'[b] = Append(G, e)
      /\ \A d \in Profiler!Bucket \ {b} : chain'[d] = chain[d]
  BY <1>1 DEF ProfileTypes, b
<1>. HIDE DEF G
<1>8. /\ chain'[b] \in Seq(FnRecord) /\ Len(chain'[b]) = i /\ chain'[b][i] = e
      /\ \A k \in 1 .. Len(G) : chain'[b][k] = G[k]
  <2>1. /\ Append(G, e) \in Seq(FnRecord) /\ Len(Append(G, e)) = Len(G) + 1
        /\ \A k \in 1 .. Len(G) : Append(G, e)[k] = G[k]
        /\ Append(G, e)[Len(G) + 1] = e
    BY <1>4, <1>6, AppendProperties
  <2>. QED
    BY <1>6, <1>7, <2>1
<1>9. chain' \in [Profiler!Bucket -> Seq(FnRecord)]
  BY <1>1, <1>7, <1>8 DEF ProfileTypes, b
<1>10. ASSUME NEW d, NEW k, NEW l, Spot(d, k, l)
       PROVE  /\ Spot(d, k, l)' /\ Place(d, k, l)' = Place(d, k, l)
              /\ chain'[d][k].self_pc = chain[d][k].self_pc
              /\ l # 0 => chain'[d][k].arcs[l] = chain[d][k].arcs[l]
  <2>1. d \in Profiler!Bucket /\ k \in 1 .. Len(chain[d])
    BY <1>10 DEF Spot
  <2>2. k \in 1 .. Len(chain'[d]) /\ chain'[d][k] = chain[d][k]
    <3>1. CASE d = b
      BY <1>6, <1>8, <2>1, <3>1 DEF G
    <3>2. CASE d # b
      BY <1>7, <2>1, <3>2
    <3>. QED
      BY <3>1, <3>2
  <2>. QED
    BY <1>10, <2>2 DEF Spot, Place
<1>11. ASSUME NEW d, NEW k, NEW l, Spot(d, k, l)', ~ Spot(d, k, l)
       PROVE  d = b /\ k = i /\ (l = 1 \/ l = 0)
  <2>1. /\ d \in Profiler!Bucket /\ k \in 1 .. Len(chain'[d])
        /\ l \in 0 .. Len(chain'[d][k].arcs)
    BY <1>11 DEF Spot
  <2>2. d = b
    BY <1>7, <1>11, <2>1 DEF Spot
  <2>3. k = i
    <3>1. ASSUME k # i PROVE FALSE
      <4>1. k \in 1 .. Len(G)
        BY <1>6, <1>8, <2>1, <2>2, <3>1
      <4>2. chain'[d][k] = chain[d][k]
        BY <1>8, <2>2, <4>1 DEF G
      <4>. QED
        BY <1>11, <2>1, <2>2, <4>1, <4>2 DEF Spot, G
    <3>. QED
      BY <3>1
  <2>4. l \in 0 .. 1
    BY <1>5, <1>8, <2>1, <2>2, <2>3
  <2>. QED
    BY <2>2, <2>3, <2>4
<1>12. \A l : ~ Spot(b, i, l)
  <2>1. ~ (i \in 1 .. Len(G))
    BY <1>6
  <2>. QED
    BY <2>1 DEF Spot, G
<1>13. /\ Spot(b, i, 1)' /\ chain'[b][i].self_pc = x[1]
       /\ chain'[b][i].arcs[1].from_pc = x[2] /\ chain'[b][i].arcs[1].count = 1
  <2>1. i \in 1 .. Len(chain'[b]) /\ 1 \in 0 .. Len(chain'[b][i].arcs)
    <3>1. i \in 1 .. Len(chain'[b])
      BY <1>6, <1>8
    <3>2. Len(chain'[b][i].arcs) = 1
      BY <1>5, <1>8
    <3>3. 1 \in 0 .. 1
      OBVIOUS
    <3>. QED
      BY <3>1, <3>2, <3>3, Zenon
  <2>2. Spot(b, i, 1)'
    BY <1>1, <2>1 DEF Spot
  <2>. QED
    BY <1>2, <1>4, <1>5, <1>8, <2>2
<1>14. Place(b, i, 0)' = slab.ptr /\ Place(b, i, 1)' = slab.ptr + 1
  <2>1. /\ chain'[b][i].lies = slab.ptr
        /\ chain'[b][i].arcs[1].lies = slab.ptr + 1
    <3>1. chain'[b][i] = e
      BY <1>8
    <3>2. e.lies = slab.ptr /\ e.arcs[1].lies = slab.ptr + 1
      <4>1. e.arcs[1] = q /\ q.lies = slab.ptr + 1 /\ e.lies = slab.ptr
        BY <1>2, <1>4, <1>5
      <4>. QED
        BY <4>1, Zenon
    <3>. QED
      BY <3>1, <3>2, Zenon
  <2>. QED
    BY <2>1 DEF Place
<1>15. /\ Place(b, i, 0)' \in slab.ptr .. slab'.ptr - 1
       /\ Place(b, i, 1)' \in slab.ptr .. slab'.ptr - 1
       /\ Place(b, i, 0)' # Place(b, i, 1)'
  BY <1>1, <1>14
<1>16. LinkedIn(b, i, 1, x)
  <2>1. \A d, k, l : Spot(d, k, l) =>
         /\ Spot(d, k, l)' /\ Place(d, k, l)' = Place(d, k, l)
         /\ chain'[d][k].self_pc = chain[d][k].self_pc
         /\ l # 0 => chain'[d][k].arcs[l] = chain[d][k].arcs[l]
    BY <1>10, Zenon
  <2>2. \A d, k, l : Spot(d, k, l)' =>
         Spot(d, k, l) \/ (d = b /\ k = i /\ (l = 1 \/ l = 0))
    BY <1>11
  <2>3. ~ Spot(b, i, 1) /\ 1 # 0
    BY <1>12
  <2>5. /\ Spot(b, i, 1)' /\ chain'[b][i].self_pc = x[1]
        /\ chain'[b][i].arcs[1].from_pc = x[2] /\ chain'[b][i].arcs[1].count = 1
    BY <1>13
  <2>6. /\ Place(b, i, 0)' \in slab.ptr .. slab'.ptr - 1
        /\ Place(b, i, 1)' \in slab.ptr .. slab'.ptr - 1
        /\ Place(b, i, 0)' # Place(b, i, 1)'
    BY <1>15
  <2>. QED
    BY <2>1, <2>2, <2>3, <2>5, <2>6, Zenon DEF LinkedIn
<1>. QED
  BY <1>9, <1>16 DEF b

LEMMA PlaceSame ==
  ASSUME NEW d, NEW k, NEW l, chain'[d][k].lies = chain[d][k].lies,
         l # 0 => chain'[d][k].arcs[l] = chain[d][k].arcs[l]
  PROVE  Place(d, k, l)' = Place(d, k, l)
<1>1. CASE l = 0
  BY <1>1, Zenon DEF Place
<1>2. CASE l # 0
  BY <1>2, Zenon DEF Place
<1>. QED
  BY <1>1, <1>2

LEMMA NewArc ==
  ASSUME ProfileTypes, NEW x \in Profiler!Arc, NEW i, NEW j, NEW q,
         i \in 1 .. Len(chain[hash[x[1]]]), chain[hash[x[1]]][i].self_pc = x[1],
         j = Len(chain[hash[x[1]]][i].arcs) + 1,
         q = [from_pc |-> x[2], count |-> 1, lies |-> slab.ptr],
         chain' = [chain EXCEPT ![hash[x[1]]][i].arcs = Append(@, q)],
         slab'.ptr = slab.ptr + 1
  PROVE  /\ chain' \in [Profiler!Bucket -> Seq(FnRecord)]
         /\ LinkedIn(hash[x[1]], i, j, x)
<1>. DEFINE b == hash[x[1]]
            G == chain[b]
            E == G[i]
            A == E.arcs
            A1 == Append(A, q)
            E1 == [E EXCEPT !.arcs = A1]
            G1 == [G EXCEPT ![i] = E1]
<1>1. /\ b \in Profiler!Bucket /\ x[1] \in Self /\ x[2] \in From
      /\ slab.ptr \in Nat
  BY DEF Profiler!Arc, Profiler!Bucket, ProfileTypes
<1>2. chain' = [chain EXCEPT ![b] = G1]
  OBVIOUS
<1>3. i \in 1 .. Len(G) /\ E.self_pc = x[1] /\ j = Len(A) + 1
  OBVIOUS
<1>4. chain \in [Profiler!Bucket -> Seq(FnRecord)]
  BY DEF ProfileTypes
<1>. HIDE DEF b
<1>5. /\ G \in Seq(FnRecord) /\ E \in FnRecord /\ A \in Seq(ArcRecord)
      /\ Len(G) \in Nat /\ Len(A) \in Nat
  BY <1>1, <1>3, ChainIs
<1>6. q \in ArcRecord /\ q.from_pc = x[2] /\ q.count = 1 /\ q.lies = slab.ptr
  BY <1>1 DEF ArcRecord
<1>. HIDE DEF G
<1>7. /\ A1 \in Seq(ArcRecord) /\ Len(A1) = j /\ A1[j] = q
      /\ \A l \in 1 .. Len(A) : A1[l] = A[l]
  <2>. HIDE DEF A
  <2>1. /\ Append(A, q) \in Seq(ArcRecord) /\ Len(Append(A, q)) = Len(A) + 1
        /\ \A l \in 1 .. Len(A) : Append(A, q)[l] = A[l]
        /\ Append(A, q)[Len(A) + 1] = q
    BY <1>5, <1>6, AppendProperties
  <2>. QED
    BY <1>3, <2>1
<1>8. /\ E1 \in FnRecord /\ E1.self_pc = x[1] /\ E1.lies = E.lies /\ E1.arcs = A1
  <2>. HIDE DEF A1, E
  <2>. QED
    BY <1>3, <1>5, <1>7 DEF FnRecord
<1>9. /\ G1 \in Seq(FnRecord) /\ Len(G1) = Len(G) /\ G1[i] = E1
      /\ \A k \in 1 .. Len(G) : k # i => G1[k] = G[k]
  <2>. HIDE DEF E1
  <2>. QED
    BY <1>3, <1>5, <1>8, ExceptSeq
<1>. HIDE DEF G1
<1>10. chain'[b] = G1 /\ \A d \in Profiler!Bucket \ {b} : chain'[d] = chain[d]
  BY <1>1, <1>2, <1>4
<1>11. chain' \in [Profiler!Bucket -> Seq(FnRecord)]
  BY <1>2, <1>4, <1>9
<1>. HIDE DEF E1, A1, E, A
<1>12. /\ chain'[b][i] = E1 /\ chain[b][i] = E /\ E.arcs = A
  BY <1>9, <1>10 DEF E, A, G
<1>13. ASSUME NEW d \in Profiler!Bucket, NEW k \in 1 .. Len(chain[d]), d # b \/ k # i
       PROVE  chain'[d][k] = chain[d][k]
  <2>1. CASE d = b
    BY <1>9, <1>10, <1>13, <2>1 DEF G
  <2>2. CASE d # b
    BY <1>10, <2>2
  <2>. QED
    BY <2>1, <2>2
<1>14. \A d \in Profiler!Bucket : Len(chain'[d]) = Len(chain[d])
  BY <1>9, <1>10 DEF G
<1>15. ASSUME NEW d, NEW k, NEW l, Spot(d, k, l)
       PROVE  /\ Spot(d, k, l)' /\ Place(d, k, l)' = Place(d, k, l)
              /\ chain'[d][k].self_pc = chain[d][k].self_pc
              /\ l # 0 => chain'[d][k].arcs[l] = chain[d][k].arcs[l]
  <2>0. /\ d \in Profiler!Bucket /\ k \in 1 .. Len(chain[d])
        /\ l \in 0 .. Len(chain[d][k].arcs)
    BY <1>15, Zenon DEF Spot
  <2>1. /\ d \in Profiler!Bucket /\ k \in 1 .. Len(chain[d])
        /\ l \in 0 .. Len(chain[d][k].arcs) /\ k \in 1 .. Len(chain'[d])
    BY <1>14, <2>0
  <2>2. CASE d # b \/ k # i
    <3>1. chain'[d][k] = chain[d][k]
      BY <1>13, <2>1, <2>2
    <3>2. Spot(d, k, l)'
      BY <2>1, <3>1, Zenon DEF Spot
    <3>3. Place(d, k, l)' = Place(d, k, l)
      BY <3>1, PlaceSame, Zenon
    <3>. QED
      BY <3>1, <3>2, <3>3
  <2>3. CASE d = b /\ k = i
    <3>1. l \in 0 .. Len(A) /\ l \in 0 .. Len(A1) /\ l \in Nat
      <4>1. l \in 0 .. Len(A)
        <5>1. chain[d][k].arcs = A
          BY <1>12, <2>3
        <5>. QED
          BY <2>1, <5>1, Zenon
      <4>2. Len(A) \in Nat /\ Len(A1) \in Nat /\ Len(A) <= Len(A1)
        BY <1>3, <1>5, <1>7
      <4>. QED
        BY <4>1, <4>2
    <3>2. l # 0 => A1[l] = A[l]
      BY <1>5, <1>7, <3>1
    <3>3. E1.self_pc = E.self_pc /\ E1.lies = E.lies /\ E1.arcs = A1
      BY <1>3, <1>8
    <3>4. chain'[d][k] = E1 /\ chain[d][k] = E /\ E.arcs = A
      BY <1>12, <2>3
    <3>5. Spot(d, k, l)'
      BY <2>1, <3>1, <3>3, <3>4 DEF Spot
    <3>6. Place(d, k, l)' = Place(d, k, l)
      <4>1. chain'[d][k].lies = chain[d][k].lies
        BY <3>3, <3>4
      <4>2. l # 0 => chain'[d][k].arcs[l] = chain[d][k].arcs[l]
        BY <3>2, <3>3, <3>4
      <4>. QED
        BY <4>1, <4>2, PlaceSame
    <3>. QED
      BY <3>2, <3>3, <3>4, <3>5, <3>6
  <2>. QED
    BY <2>2, <2>3
<1>16. ASSUME NEW d, NEW k, NEW l, Spot(d, k, l)', ~ Spot(d, k, l)
       PROVE  d = b /\ k = i /\ l = j
  <2>0. /\ d \in Profiler!Bucket /\ k \in 1 .. Len(chain'[d])
        /\ l \in 0 .. Len(chain'[d][k].arcs)
    BY <1>16, Zenon DEF Spot
  <2>1. /\ d \in Profiler!Bucket /\ k \in 1 .. Len(chain[d])
        /\ l \in 0 .. Len(chain'[d][k].arcs)
    BY <1>14, <2>0
  <2>2. d = b /\ k = i
    <3>1. ASSUME d # b \/ k # i PROVE FALSE
      <4>1. chain'[d][k] = chain[d][k]
        BY <1>13, <2>1, <3>1
      <4>. QED
        BY <1>16, <2>1, <4>1, Zenon DEF Spot
    <3>. QED
      BY <3>1
  <2>3. l \in 0 .. j /\ ~ (l \in 0 .. Len(A))
    <3>1. /\ chain[d][k].arcs = A /\ chain'[d][k].arcs = A1 /\ Len(A1) = j
      BY <1>7, <1>8, <1>12, <2>2
    <3>2. ~ (l \in 0 .. Len(chain[d][k].arcs))
      BY <1>16, <2>1, Zenon DEF Spot
    <3>3. l \in 0 .. Len(chain'[d][k].arcs)
      BY <2>1
    <3>. QED
      BY <3>1, <3>2, <3>3, Zenon
  <2>. QED
    BY <1>3, <1>5, <2>2, <2>3
<1>17. /\ Spot(b, i, j)' /\ ~ Spot(b, i, j) /\ Spot(b, i, 0) /\ j # 0
       /\ chain'[b][i].self_pc = x[1] /\ chain'[b][i].arcs[j].from_pc = x[2]
       /\ chain'[b][i].arcs[j].count = 1 /\ Place(b, i, j)' = slab.ptr
  <2>1. /\ chain'[b][i].arcs = A1 /\ chain[b][i].arcs = A /\ A1[j] = q /\ j # 0
        /\ j \in 0 .. Len(A1) /\ ~ (j \in 0 .. Len(A)) /\ 0 \in 0 .. Len(A)
    <3>1. chain'[b][i].arcs = A1 /\ chain[b][i].arcs = A
      BY <1>8, <1>12
    <3>2. A1[j] = q /\ Len(A1) = j
      BY <1>7
    <3>3. j # 0 /\ j \in Nat /\ j = Len(A) + 1 /\ Len(A) \in Nat
      BY <1>3, <1>5
    <3>4. j \in 0 .. j /\ ~ (j \in 0 .. Len(A)) /\ 0 \in 0 .. Len(A)
      BY <3>3
    <3>. QED
      BY <3>1, <3>2, <3>3, <3>4
  <2>2. i \in 1 .. Len(chain'[b]) /\ i \in 1 .. Len(chain[b])
    BY <1>1, <1>3, <1>14 DEF G
  <2>3. Spot(b, i, j)' /\ ~ Spot(b, i, j) /\ Spot(b, i, 0)
    BY <1>1, <2>1, <2>2, Zenon DEF Spot
  <2>. QED
    BY <1>6, <1>8, <1>12, <2>1, <2>3 DEF Place
<1>18. Place(b, i, j)' \in slab.ptr .. slab'.ptr - 1
  <2>1. slab.ptr \in slab.ptr .. slab'.ptr - 1
    BY <1>1
  <2>. QED
    BY <1>17, <2>1
<1>19. LinkedIn(b, i, j, x)
  <2>1. \A d, k, l : Spot(d, k, l) =>
         /\ Spot(d, k, l)' /\ Place(d, k, l)' = Place(d, k, l)
         /\ chain'[d][k].self_pc = chain[d][k].self_pc
         /\ l # 0 => chain'[d][k].arcs[l] = chain[d][k].arcs[l]
    BY <1>15, Zenon
  <2>2. ASSUME NEW d, NEW k, NEW l, Spot(d, k, l)'
        PROVE  Spot(d, k, l) \/ (d = b /\ k = i /\ (l = j \/ l = 0))
    BY <1>16, <2>2
  <2>. QED
    BY <1>17, <1>18, <2>1, <2>2, Zenon DEF LinkedIn
<1>. QED
  BY <1>11, <1>19 DEF b

LEMMA InsertStep ==
  ASSUME ProfileInv, NEW c \in Profiler!Context, Profiler!Insert(c)
  PROVE  ProfileInv'
<1>. DEFINE h == hash[call[c].arc[1]]
            new == call[c].fn = Profiler!Nobody
            first == IF new THEN Profiler!Allocated(slab, p_heap_end)
                     ELSE [ptr |-> slab.ptr, size |-> slab.size, end |-> p_heap_end]
            second == Profiler!Allocated(first, first.end)
            counted == [from_pc |-> call[c].arc[2], count |-> 1, lies |-> second.ptr - 1]
            entry == [self_pc |-> call[c].arc[1], arcs |-> <<counted>>,
                      lies |-> first.ptr - 1]
<1>0. /\ ProfileTypes /\ CallOK(c) /\ SlabInv /\ \A d \in Profiler!Context : CallOK(d)
      /\ call[c].at = "insert" /\ Profiler!Runs(c) /\ Profiler!Over(c)
      /\ UNCHANGED Profiler!sampler
  BY DEF ProfileInv, Profiler!Insert, Profiler!At
<1>1. /\ chain' = IF new THEN [chain EXCEPT ![h] = Append(@, entry)]
                   ELSE [chain EXCEPT ![h][call[c].fn].arcs = Append(@, counted)]
      /\ slab' = [ptr |-> second.ptr, size |-> second.size]
      /\ p_heap_end' = second.end
  BY DEF Profiler!Insert
<1>2. /\ slab.ptr \in Nat /\ slab.size \in 0 .. SLAB_INCREMENT
      /\ p_heap_end \in 0 .. p_heap_limit /\ slab.ptr + slab.size = p_heap_end
      /\ slab.ptr + 1 + SLAB_INCREMENT <= p_heap_limit
  <2>1. /\ slab.ptr \in Nat /\ slab.size \in 0 .. SLAB_INCREMENT
        /\ p_heap_end \in 0 .. p_heap_limit /\ slab.ptr + slab.size = p_heap_end
    BY <1>0 DEF ProfileTypes, SlabInv
  <2>. DEFINE L(d) == Len(p_calls[d])
  <2>2. slab.ptr <= 2 * (L("program") + L("handler"))
    BY <1>0 DEF SlabInv
  <2>3. \A d \in Profiler!Context : L(d) \in Nat /\ L(d) <= MaxCalls
    BY <1>0 DEF ProfileTypes, CallOK
  <2>4. L(c) < MaxCalls
    BY <1>0 DEF CallOK
  <2>. HIDE DEF L
  <2>5. L("program") + L("handler") \in Nat
    BY <2>3 DEF Profiler!Context
  <2>6. L("program") + L("handler") < 2 * MaxCalls
    BY <2>3, <2>4, ProfileSet DEF Profiler!Context
  <2>7. slab.ptr + 1 <= 4 * MaxCalls
    BY <2>1, <2>2, <2>5, <2>6, ProfileSet
  <2>. QED
    BY <2>1, <2>7, ProfileSet
<1>3. PICK x \in Profiler!Arc : x = call[c].arc
  BY <1>0, CallIs
<1>4. CASE new
  <2>1. /\ first.ptr = slab.ptr + 1 /\ first.size \in 0 .. SLAB_INCREMENT
        /\ first.end \in 0 .. p_heap_limit /\ first.ptr + first.size = first.end
    BY <1>2, <1>4, ProfileSet, AllocatedIs
  <2>. HIDE DEF first
  <2>2. /\ second.ptr = slab.ptr + 2 /\ second.size \in 0 .. SLAB_INCREMENT
        /\ second.end \in 0 .. p_heap_limit /\ second.ptr + second.size = second.end
    <3>1. first.ptr \in Nat /\ first.ptr + SLAB_INCREMENT <= p_heap_limit
      BY <1>2, <2>1, ProfileSet
    <3>2. /\ second.ptr = first.ptr + 1 /\ second.size \in 0 .. SLAB_INCREMENT
          /\ second.end \in 0 .. p_heap_limit /\ second.ptr + second.size = second.end
      BY <2>1, <3>1, AllocatedIs
    <3>. HIDE DEF second
    <3>. QED
      BY <1>2, <2>1, <3>2
  <2>. HIDE DEF second
  <2>3. /\ counted = [from_pc |-> x[2], count |-> 1, lies |-> slab.ptr + 1]
        /\ entry = [self_pc |-> x[1], arcs |-> <<counted>>, lies |-> slab.ptr]
    <3>1. second.ptr - 1 = slab.ptr + 1 /\ first.ptr - 1 = slab.ptr
      BY <1>2, <2>1, <2>2
    <3>. QED
      BY <1>3, <3>1
  <2>4. chain' = [chain EXCEPT ![hash[x[1]]] = Append(@, entry)]
    BY <1>1, <1>3, <1>4
  <2>. HIDE DEF counted, entry
  <2>5. slab'.ptr = slab.ptr + 2
    BY <1>1, <2>2
  <2>6. PICK i : i = Len(chain[hash[x[1]]]) + 1
    OBVIOUS
  <2>7. /\ chain' \in [Profiler!Bucket -> Seq(FnRecord)]
        /\ LinkedIn(hash[x[1]], i, 1, x)
    BY <1>0, <2>3, <2>4, <2>5, <2>6, NewFunction
  <2>8. slab'.ptr \in Nat /\ slab.ptr <= slab'.ptr
    BY <1>2, <2>5
  <2>9. /\ ChainGrows /\ CountsGrow /\ SpotsApart' /\ InChains(x, chain')
        /\ OnlyNew(<<<<<<hash[x[1]], i>>, 1>>, 1>>, x)
    BY <2>7, <2>8, LinkedIs
  <2>10. /\ slab' \in [ptr : Nat, size : 0 .. SLAB_INCREMENT]
         /\ p_heap_end' \in 0 .. p_heap_limit
         /\ slab'.ptr + slab'.size = p_heap_end' /\ slab'.ptr <= slab.ptr + 2
    <3>1. second.ptr \in Nat /\ second.ptr <= slab.ptr + 2
      BY <1>2, <2>2
    <3>2. slab' \in [ptr : Nat, size : 0 .. SLAB_INCREMENT]
      BY <1>1, <2>2, <3>1
    <3>3. slab'.ptr = second.ptr /\ slab'.size = second.size /\ p_heap_end' = second.end
      BY <1>1
    <3>. QED
      BY <2>2, <3>1, <3>2, <3>3
  <2>11. call[c].at # "idle" /\ Profiler!Runs(c) /\ Profiler!Over(c)
         /\ UNCHANGED Profiler!sampler
    BY <1>0
  <2>12. InChains(call[c].arc, chain') /\ OnlyNew(<<<<<<hash[x[1]], i>>, 1>>, 1>>, call[c].arc)
    BY <1>3, <2>9
  <2>. QED
    BY <2>7, <2>9, <2>10, <2>11, <2>12, EndStep
<1>5. CASE ~ new
  <2>1. /\ first.ptr = slab.ptr /\ first.size = slab.size /\ first.end = p_heap_end
    BY <1>5
  <2>. HIDE DEF first
  <2>2. /\ second.ptr = slab.ptr + 1 /\ second.size \in 0 .. SLAB_INCREMENT
        /\ second.end \in 0 .. p_heap_limit /\ second.ptr + second.size = second.end
    <3>1. first.ptr \in Nat /\ first.ptr + SLAB_INCREMENT <= p_heap_limit
      BY <1>2, <2>1, ProfileSet
    <3>2. /\ second.ptr = first.ptr + 1 /\ second.size \in 0 .. SLAB_INCREMENT
          /\ second.end \in 0 .. p_heap_limit /\ second.ptr + second.size = second.end
      BY <1>2, <2>1, <3>1, AllocatedIs
    <3>. HIDE DEF second
    <3>. QED
      BY <2>1, <3>2
  <2>. HIDE DEF second
  <2>3. counted = [from_pc |-> x[2], count |-> 1, lies |-> slab.ptr]
    <3>1. second.ptr - 1 = slab.ptr
      BY <1>2, <2>2
    <3>. QED
      BY <1>3, <3>1
  <2>4. PICK i : i = call[c].fn
    OBVIOUS
  <2>5. /\ i \in 1 .. Len(chain[hash[x[1]]]) /\ chain[hash[x[1]]][i].self_pc = x[1]
    <3>1. HasFunction(c)
      BY <1>0, <1>5 DEF CallOK, Profiler!Nobody
    <3>. QED
      BY <1>3, <2>4, <3>1 DEF HasFunction
  <2>6. chain' = [chain EXCEPT ![hash[x[1]]][i].arcs = Append(@, counted)]
    BY <1>1, <1>3, <1>5, <2>4
  <2>. HIDE DEF counted
  <2>7. PICK j : j = Len(chain[hash[x[1]]][i].arcs) + 1
    OBVIOUS
  <2>8. slab'.ptr = slab.ptr + 1
    BY <1>1, <2>2
  <2>9. /\ chain' \in [Profiler!Bucket -> Seq(FnRecord)]
        /\ LinkedIn(hash[x[1]], i, j, x)
    BY <1>0, <2>3, <2>5, <2>6, <2>7, <2>8, NewArc
  <2>10. slab'.ptr \in Nat /\ slab.ptr <= slab'.ptr
    BY <1>2, <2>8
  <2>11. /\ ChainGrows /\ CountsGrow /\ SpotsApart' /\ InChains(x, chain')
         /\ OnlyNew(<<<<<<hash[x[1]], i>>, j>>, 1>>, x)
    BY <2>9, <2>10, LinkedIs
  <2>12. /\ slab' \in [ptr : Nat, size : 0 .. SLAB_INCREMENT]
         /\ p_heap_end' \in 0 .. p_heap_limit
         /\ slab'.ptr + slab'.size = p_heap_end' /\ slab'.ptr <= slab.ptr + 2
    <3>1. second.ptr \in Nat /\ second.ptr <= slab.ptr + 2
      BY <1>2, <2>2
    <3>2. slab' \in [ptr : Nat, size : 0 .. SLAB_INCREMENT]
      BY <1>1, <2>2, <3>1
    <3>3. slab'.ptr = second.ptr /\ slab'.size = second.size /\ p_heap_end' = second.end
      BY <1>1
    <3>. QED
      BY <2>2, <3>1, <3>2, <3>3
  <2>13. call[c].at # "idle" /\ Profiler!Runs(c) /\ Profiler!Over(c)
         /\ UNCHANGED Profiler!sampler
    BY <1>0
  <2>14. InChains(call[c].arc, chain') /\ OnlyNew(<<<<<<hash[x[1]], i>>, j>>, 1>>, call[c].arc)
    BY <1>3, <2>11
  <2>. QED
    BY <2>9, <2>11, <2>12, <2>13, <2>14, EndStep
<1>. QED
  BY <1>4, <1>5

-----------------------------------------------------------------------------
LEMMA CallStep ==
  ASSUME ProfileInv, NEW c \in Profiler!Context, NEW a \in Profiler!Arc,
         Profiler!Call(c, a)
  PROVE  ProfileInv'
<1>. DEFINE r == [at |-> "function", arc |-> a]
<1>1. /\ Profiler!Runs(c) /\ Len(p_calls[c]) < MaxCalls
      /\ call' = [call EXCEPT ![c] = r] /\ UNCHANGED Profiler!memory
      /\ p_calls' = p_calls /\ UNCHANGED Profiler!sampler
  BY DEF Profiler!Call, Profiler!At, Profiler!Goto
<1>2. r \in CallType
  BY DEF CallType
<1>3. /\ need_init' \in BOOLEAN /\ ticking' \in BOOLEAN /\ started' \in Nat
      /\ bucket' \in Int /\ bucket' < s_high_pc \div BYTES_PER_BUCKET
  BY <1>1 DEF Profiler!sampler, ProfileInv, ProfileTypes
<1>4. CallOK(c)'
  <2>1. call'[c] = r /\ p_calls'[c] = p_calls[c] /\ Len(p_calls[c]) \in Nat
    BY <1>1 DEF ProfileInv, ProfileTypes
  <2>2. MaxCalls \in Nat
    BY ProfileSet
  <2>3. r.at = "function"
    OBVIOUS
  <2>. HIDE DEF r
  <2>. QED
    BY <1>1, <2>1, <2>2, <2>3 DEF CallOK
<1>. HIDE DEF r
<1>. QED
  BY <1>1, <1>2, <1>3, <1>4, QuietStep

LEMMA FindFunctionStep ==
  ASSUME ProfileInv, NEW c \in Profiler!Context, Profiler!FindFunction(c)
  PROVE  ProfileInv'
<1>. DEFINE fn == Profiler!Newest(Profiler!Entries(c))
            r == [at |-> IF fn = Profiler!Nobody THEN "record" ELSE "arc",
                  arc |-> call[c].arc, fn |-> fn]
            b == hash[call[c].arc[1]]
<1>1. /\ Profiler!Runs(c) /\ call[c].at = "function"
      /\ call' = [call EXCEPT ![c] = r] /\ UNCHANGED Profiler!memory
      /\ p_calls' = p_calls /\ UNCHANGED Profiler!sampler
  BY DEF Profiler!FindFunction, Profiler!At, Profiler!Goto
<1>2. ProfileTypes /\ CallOK(c)
  BY DEF ProfileInv
<1>3. call[c].arc \in Profiler!Arc /\ b \in Profiler!Bucket /\ Len(chain[b]) \in Nat
  <2>1. call[c].arc \in Profiler!Arc /\ b \in Profiler!Bucket
    BY <1>1, <1>2, CallIs
  <2>. QED
    BY <1>2, <2>1, ChainIs
<1>4. /\ fn = 0 \/ fn \in 1 .. Len(chain[b])
      /\ fn # 0 => chain[b][fn].self_pc = call[c].arc[1]
  <2>1. Profiler!Entries(c) = {i \in 1 .. Len(chain[b]) : chain[b][i].self_pc = call[c].arc[1]}
    BY DEF Profiler!Entries, Profiler!Chain
  <2>2. CASE Profiler!Entries(c) = {}
    BY <2>2 DEF Profiler!Newest, Profiler!Nobody
  <2>3. CASE Profiler!Entries(c) # {}
    <3>1. fn \in Profiler!Entries(c)
      BY <1>3, <2>1, <2>3, NewestIs
    <3>. HIDE DEF fn, b
    <3>. QED
      BY <2>1, <3>1
  <2>. QED
    BY <2>2, <2>3
<1>. HIDE DEF fn, b
<1>5. r \in CallType
  BY <1>3, <1>4 DEF CallType
<1>6. /\ need_init' \in BOOLEAN /\ ticking' \in BOOLEAN /\ started' \in Nat
      /\ bucket' \in Int /\ bucket' < s_high_pc \div BYTES_PER_BUCKET
  BY <1>1, <1>2 DEF Profiler!sampler, ProfileTypes
<1>7. CallOK(c)'
  <2>1. /\ call'[c] = r /\ p_calls'[c] = p_calls[c]
        /\ chain' = chain /\ Len(p_calls[c]) \in Nat
    BY <1>1, <1>2 DEF ProfileTypes, Profiler!memory
  <2>2. Len(p_calls[c]) < MaxCalls /\ MaxCalls \in Nat
    BY <1>1, <1>2, ProfileSet DEF CallOK
  <2>3. fn = 0 \/ HasFunction(c)'
    BY <1>4, <2>1 DEF HasFunction, b
  <2>4. r.fn = fn /\ r.at = (IF fn = 0 THEN "record" ELSE "arc")
    BY DEF Profiler!Nobody
  <2>. HIDE DEF r
  <2>. QED
    BY <2>1, <2>2, <2>3, <2>4 DEF CallOK
<1>. HIDE DEF r
<1>. QED
  BY <1>1, <1>5, <1>6, <1>7, QuietStep

LEMMA FindArcStep ==
  ASSUME ProfileInv, NEW c \in Profiler!Context, Profiler!FindArc(c)
  PROVE  ProfileInv'
<1>. DEFINE x == call[c].arc
            b == hash[x[1]]
            i == call[c].fn
            A == chain[b][i].arcs
            S == {j \in 1 .. Len(Profiler!Arcs(c)) : Profiler!Arcs(c)[j].from_pc = x[2]}
            arc == Profiler!Newest(S)
            r == IF arc = Profiler!Nobody
                 THEN [at |-> "record", arc |-> call[c].arc, fn |-> call[c].fn]
                 ELSE [at |-> "add", arc |-> call[c].arc, fn |-> call[c].fn,
                       found |-> arc, r2 |-> Profiler!Arcs(c)[arc].count]
<1>1. /\ Profiler!Runs(c) /\ call[c].at = "arc"
      /\ call' = [call EXCEPT ![c] = r] /\ UNCHANGED Profiler!memory
      /\ p_calls' = p_calls /\ UNCHANGED Profiler!sampler
  BY DEF Profiler!FindArc, Profiler!At, Profiler!Goto
<1>2. ProfileTypes /\ CallOK(c)
  BY DEF ProfileInv
<1>3. /\ x \in Profiler!Arc /\ b \in Profiler!Bucket /\ i \in Nat
      /\ i \in 1 .. Len(chain[b]) /\ HasFunction(c)
  <2>1. x \in Profiler!Arc /\ b \in Profiler!Bucket /\ i \in Nat
    BY <1>1, <1>2, CallIs
  <2>2. HasFunction(c)
    BY <1>1, <1>2 DEF CallOK
  <2>. QED
    BY <2>1, <2>2 DEF HasFunction
<1>4. Profiler!Arcs(c) = A /\ Len(A) \in Nat /\ \A j \in 1 .. Len(A) : A[j].count \in Nat
  <2>1. Profiler!Arcs(c) = A
    BY DEF Profiler!Arcs, Profiler!Chain
  <2>. QED
    BY <1>2, <1>3, <2>1, ChainIs
<1>. HIDE DEF A, i, b, x
<1>5. /\ arc = 0 \/ (arc \in 1 .. Len(A) /\ A[arc].from_pc = x[2] /\ A[arc].count \in Nat)
  <2>1. S \subseteq 1 .. Len(A)
    BY <1>4
  <2>2. CASE S = {}
    BY <2>2 DEF Profiler!Newest, Profiler!Nobody
  <2>3. CASE S # {}
    <3>1. arc \in S
      BY <1>4, <2>1, <2>3, NewestIs
    <3>. HIDE DEF arc
    <3>. QED
      BY <1>4, <3>1
  <2>. QED
    BY <2>2, <2>3
<1>. HIDE DEF arc
<1>6. /\ r.arc = x /\ r.fn = i /\ r.at = (IF arc = 0 THEN "record" ELSE "add")
      /\ arc # 0 => r.found = arc /\ r.r2 = A[arc].count
      /\ r \in CallType
  <2>1. r.arc = x /\ r.fn = i /\ r.at = (IF arc = 0 THEN "record" ELSE "add")
    BY DEF Profiler!Nobody, x, i
  <2>2. arc # 0 => r.found = arc /\ r.r2 = A[arc].count
    BY <1>4 DEF Profiler!Nobody
  <2>3. CASE arc = 0
    <3>1. r = [at |-> "record", arc |-> x, fn |-> i]
      BY <2>3 DEF Profiler!Nobody, x, i
    <3>2. r \in CallType
      BY <1>3, <3>1 DEF CallType
    <3>. QED
      BY <2>1, <2>2, <3>2
  <2>4. CASE arc # 0
    <3>1. r = [at |-> "add", arc |-> x, fn |-> i, found |-> arc, r2 |-> A[arc].count]
      BY <1>4, <2>4 DEF Profiler!Nobody, x, i
    <3>2. r \in CallType
      BY <1>3, <1>5, <2>4, <3>1 DEF CallType
    <3>. QED
      BY <2>1, <2>2, <3>2
  <2>. QED
    BY <2>3, <2>4
<1>. HIDE DEF r, S
<1>7. /\ need_init' \in BOOLEAN /\ ticking' \in BOOLEAN /\ started' \in Nat
      /\ bucket' \in Int /\ bucket' < s_high_pc \div BYTES_PER_BUCKET
  BY <1>1, <1>2 DEF Profiler!sampler, ProfileTypes
<1>8. CallOK(c)'
  <2>1. /\ call'[c] = r /\ p_calls'[c] = p_calls[c]
        /\ chain' = chain /\ Len(p_calls[c]) \in Nat
    BY <1>1, <1>2 DEF ProfileTypes, Profiler!memory
  <2>2. Len(p_calls[c]) < MaxCalls /\ MaxCalls \in Nat
    BY <1>1, <1>2, ProfileSet DEF CallOK
  <2>3. HasFunction(c)'
    BY <1>3, <1>6, <2>1 DEF HasFunction, x, i
  <2>4. arc # 0 => HasArc(c)'
    <3>1. chain'[hash[r.arc[1]]][r.fn].arcs = A
      BY <1>6, <2>1 DEF A, b
    <3>2. ASSUME arc # 0
          PROVE  /\ r.found \in 1 .. Len(A) /\ A[r.found].from_pc = r.arc[2]
                 /\ r.r2 <= A[r.found].count /\ r.r2 = A[r.found].count
      BY <1>5, <1>6, <3>2
    <3>. QED
      BY <2>1, <3>1, <3>2 DEF HasArc
  <2>. QED
    BY <1>6, <2>1, <2>2, <2>3, <2>4 DEF CallOK
<1>. QED
  BY <1>1, <1>6, <1>7, <1>8, QuietStep

\* The steps of __mcount_record before its records are linked in: the call goes
\* on with what it has found.
LEMMA RecordStep ==
  ASSUME ProfileInv, NEW c \in Profiler!Context,
         Profiler!Test(c) \/ Profiler!Clear(c) \/ Profiler!PcsampleInit(c)
  PROVE  ProfileInv'
<1>1. ProfileTypes /\ CallOK(c)
  BY DEF ProfileInv
<1>2. PICK at \in {"clear", "init", "insert"} :
        call' = [call EXCEPT ![c] = [call[c] EXCEPT !.at = at]]
  BY DEF Profiler!Test, Profiler!Clear, Profiler!PcsampleInit, Profiler!Goto
<1>3. /\ Profiler!Runs(c) /\ call[c].at \in {"record", "clear", "init"}
      /\ UNCHANGED Profiler!memory /\ p_calls' = p_calls /\ bucket' = bucket
  BY DEF Profiler!Test, Profiler!Clear, Profiler!PcsampleInit, Profiler!At,
         Profiler!sampler
<1>4. need_init' \in BOOLEAN /\ ticking' \in BOOLEAN /\ started' \in Nat
  <2>0. need_init \in BOOLEAN /\ ticking \in BOOLEAN /\ started \in Nat
    BY <1>1 DEF ProfileTypes
  <2>1. CASE Profiler!Test(c)
    BY <2>0, <2>1 DEF Profiler!Test, Profiler!sampler
  <2>2. CASE Profiler!Clear(c)
    BY <2>0, <2>2 DEF Profiler!Clear
  <2>3. CASE Profiler!PcsampleInit(c)
    <3>1. need_init' = ~ ticking /\ ticking' = ticking
      BY <2>3 DEF Profiler!PcsampleInit
    <3>2. started' = IF ticking THEN started + 1 ELSE started
      BY <2>3 DEF Profiler!PcsampleInit
    <3>3. started' \in Nat
      BY <2>0, <3>2
    <3>. QED
      BY <2>0, <3>1, <3>3
  <2>. QED
    BY <2>1, <2>2, <2>3
<1>5. bucket' \in Int /\ bucket' < s_high_pc \div BYTES_PER_BUCKET
  BY <1>1, <1>3 DEF ProfileTypes
<1>. DEFINE r == [call[c] EXCEPT !.at = at]
<1>6. /\ r \in CallType /\ r.at = at /\ r.arc = call[c].arc /\ r.fn = call[c].fn
  <2>1. /\ call[c] = [at |-> call[c].at, arc |-> call[c].arc, fn |-> call[c].fn]
        /\ call[c].arc \in Profiler!Arc /\ call[c].fn \in Nat
    BY <1>1, <1>3, CallIs
  <2>2. r = [at |-> at, arc |-> call[c].arc, fn |-> call[c].fn]
    BY <2>1
  <2>. HIDE DEF r
  <2>. QED
    BY <2>1, <2>2 DEF CallType
<1>7. CallOK(c)'
  <2>1. /\ call'[c] = r /\ p_calls'[c] = p_calls[c]
        /\ chain' = chain /\ Len(p_calls[c]) \in Nat
    BY <1>1, <1>2, <1>3 DEF ProfileTypes, Profiler!memory
  <2>2. Len(p_calls[c]) < MaxCalls /\ MaxCalls \in Nat
    BY <1>1, <1>3, ProfileSet DEF CallOK
  <2>3. call[c].fn = 0 \/ HasFunction(c)
    BY <1>1, <1>3 DEF CallOK
  <2>. HIDE DEF r
  <2>4. call'[c].fn = 0 \/ HasFunction(c)'
    BY <1>6, <2>1, <2>3 DEF HasFunction
  <2>. QED
    BY <1>6, <2>1, <2>2, <2>4 DEF CallOK
<1>. HIDE DEF r
<1>8. call' = [call EXCEPT ![c] = r]
  BY <1>2 DEF r
<1>. QED
  BY <1>3, <1>4, <1>5, <1>6, <1>7, <1>8, QuietStep

\* A sample falls into one of the histogram's whole buckets (alt_gmon.c:262).
LEMMA BucketIs ==
  \A p \in Nat : p < s_high_pc =>
    /\ p \div BYTES_PER_BUCKET \in Int
    /\ p \div BYTES_PER_BUCKET < s_high_pc \div BYTES_PER_BUCKET
<1>. SUFFICES ASSUME NEW p \in Nat, p < s_high_pc
              PROVE  /\ p \div BYTES_PER_BUCKET \in Int
                     /\ p \div BYTES_PER_BUCKET < s_high_pc \div BYTES_PER_BUCKET
  OBVIOUS
<1>. DEFINE B == BYTES_PER_BUCKET
            q == p \div B
            n == s_high_pc \div B
<1>1. B \in Nat /\ B > 0 /\ s_high_pc \in Nat /\ s_high_pc % B = 0
  BY ProfileSet
<1>. HIDE DEF B
<1>2. /\ q \in Int /\ q * B <= p /\ n \in Int /\ s_high_pc = n * B
  <2>1. q \in Int /\ p = B * q + (p % B) /\ (p % B) \in Nat
    BY <1>1
  <2>2. n \in Int /\ s_high_pc = B * n + (s_high_pc % B)
    BY <1>1
  <2>. QED
    BY <1>1, <2>1, <2>2
<1>. HIDE DEF q, n
<1>3. q < n
  <2>1. ASSUME q >= n PROVE FALSE
    <3>1. q * B >= n * B
      BY <1>1, <1>2, <2>1
    <3>. QED
      BY <1>1, <1>2, <3>1
  <2>. QED
    BY <1>2, <2>1
<1>. QED
  BY <1>2, <1>3 DEF q, n, B

LEMMA SamplerStep ==
  ASSUME ProfileInv,
         Profiler!TimerStarts \/ \E p \in 0 .. s_high_pc : Profiler!Sample(p)
  PROVE  ProfileInv'
<1>1. ProfileTypes /\ CallOK("handler") /\ "handler" \in Profiler!Context
  BY DEF ProfileInv, Profiler!Context
<1>2. /\ UNCHANGED Profiler!memory /\ call' = call /\ p_calls' = p_calls
      /\ need_init' \in BOOLEAN /\ ticking' \in BOOLEAN /\ started' \in Nat
  BY <1>1 DEF Profiler!TimerStarts, Profiler!Sample, ProfileTypes
<1>3. bucket' \in Int /\ bucket' < s_high_pc \div BYTES_PER_BUCKET
  <2>1. CASE Profiler!TimerStarts
    BY <1>1, <2>1 DEF Profiler!TimerStarts, ProfileTypes
  <2>2. ASSUME NEW p \in 0 .. s_high_pc, Profiler!Sample(p)
        PROVE  bucket' \in Int /\ bucket' < s_high_pc \div BYTES_PER_BUCKET
    <3>1. p \in Nat /\ p < s_high_pc /\ bucket' = p \div BYTES_PER_BUCKET
      BY <2>2, ProfileSet DEF Profiler!Sample
    <3>. QED
      BY <3>1, BucketIs
  <2>. QED
    BY <2>1, <2>2
<1>4. PICK r \in CallType : r = call["handler"]
  BY <1>1 DEF ProfileTypes
<1>5. call' = [call EXCEPT !["handler"] = r]
  BY <1>1, <1>2, <1>4 DEF ProfileTypes
<1>6. CallOK("handler")'
  <2>1. chain' = chain /\ call' = call /\ p_calls' = p_calls
    BY <1>2 DEF Profiler!memory
  <2>. QED
    BY <1>1, <2>1 DEF CallOK, HasFunction, HasArc
<1>7. Profiler!Runs("handler")
  BY DEF Profiler!Runs
<1>. QED
  BY <1>1, <1>2, <1>3, <1>5, <1>6, <1>7, QuietStep

LEMMA ProfileStep == ProfileInv /\ Profiler!Next => ProfileInv'
<1>. SUFFICES ASSUME ProfileInv, Profiler!Next PROVE ProfileInv'
  OBVIOUS
<1>1. ASSUME NEW c \in Profiler!Context, NEW a \in Profiler!Arc, Profiler!Call(c, a)
      PROVE  ProfileInv'
  BY <1>1, CallStep
<1>2. ASSUME NEW c \in Profiler!Context, Profiler!Mcount(c) PROVE ProfileInv'
  BY <1>2, FindFunctionStep, FindArcStep, AddStep, RecordStep, InsertStep
     DEF Profiler!Mcount
<1>3. CASE Profiler!TimerStarts \/ \E p \in 0 .. s_high_pc : Profiler!Sample(p)
  BY <1>3, SamplerStep
<1>. QED
  BY <1>1, <1>2, <1>3 DEF Profiler!Next

LEMMA ProfileStutter == ProfileInv /\ UNCHANGED profile => ProfileInv'
<1>. SUFFICES ASSUME ProfileInv, UNCHANGED profile PROVE ProfileInv'
  OBVIOUS
<1>0. "handler" \in Profiler!Context /\ ProfileTypes /\ CallOK("handler")
  BY DEF Profiler!Context, ProfileInv
<1>1. /\ chain' = chain /\ call' = call /\ slab' = slab /\ p_heap_end' = p_heap_end
      /\ need_init' = need_init /\ ticking' = ticking /\ started' = started
      /\ bucket' = bucket /\ p_calls' = p_calls
  BY DEF profile
<1>2. PICK r \in CallType : r = call["handler"]
  BY <1>0 DEF ProfileTypes
<1>3. call' = [call EXCEPT !["handler"] = r]
  BY <1>0, <1>1, <1>2 DEF ProfileTypes
<1>4. /\ need_init' \in BOOLEAN /\ ticking' \in BOOLEAN /\ started' \in Nat
      /\ bucket' \in Int /\ bucket' < s_high_pc \div BYTES_PER_BUCKET
  BY <1>0, <1>1 DEF ProfileTypes
<1>5. CallOK("handler")'
  BY <1>0, <1>1 DEF CallOK, HasFunction, HasArc
<1>6. Profiler!Runs("handler") /\ UNCHANGED Profiler!memory
  BY <1>1 DEF Profiler!Runs, Profiler!memory
<1>. QED
  BY <1>0, <1>1, <1>3, <1>4, <1>5, <1>6, QuietStep

LEMMA ProfileInit == Profiler!Init => ProfileInv
<1>. SUFFICES ASSUME Profiler!Init PROVE ProfileInv
  OBVIOUS
<1>1. /\ chain = [b \in Profiler!Bucket |-> <<>>]
      /\ call = [c \in Profiler!Context |-> Profiler!Idle]
      /\ slab = [ptr |-> 0, size |-> 0] /\ p_heap_end = 0 /\ need_init = TRUE
      /\ ticking = FALSE /\ started = 0 /\ bucket = -1
      /\ p_calls = [c \in Profiler!Context |-> <<>>]
  BY DEF Profiler!Init
<1>2. /\ \A b \in Profiler!Bucket : chain[b] = <<>> /\ Len(chain[b]) = 0
      /\ \A c \in Profiler!Context : p_calls[c] = <<>> /\ Len(p_calls[c]) = 0
      /\ \A c \in Profiler!Context : call[c] = Profiler!Idle
  BY <1>1
<1>3. ProfileTypes
  <2>1. -1 < s_high_pc \div BYTES_PER_BUCKET
    <3>1. /\ s_high_pc \in Nat /\ BYTES_PER_BUCKET \in Nat /\ BYTES_PER_BUCKET > 0
      BY ProfileSet
    <3>. QED
      BY <3>1
  <2>2. /\ chain \in [Profiler!Bucket -> Seq(FnRecord)]
        /\ p_calls \in [Profiler!Context -> Seq(Profiler!Arc)]
        /\ call \in [Profiler!Context -> CallType]
    BY <1>1 DEF CallType
  <2>3. slab \in [ptr : Nat, size : 0 .. SLAB_INCREMENT] /\ p_heap_end \in 0 .. p_heap_limit
    BY <1>1, ProfileSet
  <2>4. /\ need_init \in BOOLEAN /\ ticking \in BOOLEAN /\ started \in Nat
        /\ bucket \in Int /\ bucket < s_high_pc \div BYTES_PER_BUCKET
    <3>1. bucket = -1 /\ started = 0 /\ need_init = TRUE /\ ticking = FALSE
      BY <1>1
    <3>2. bucket \in Int /\ started \in Nat
      BY <3>1
    <3>3. bucket < s_high_pc \div BYTES_PER_BUCKET
      BY <2>1, <3>1, Zenon
    <3>4. need_init \in BOOLEAN /\ ticking \in BOOLEAN
      BY <3>1
    <3>. QED
      BY <3>2, <3>3, <3>4, Zenon
  <2>. QED
    BY <2>2, <2>3, <2>4, Zenon DEF ProfileTypes
<1>4. \A c \in Profiler!Context : CallOK(c)
  BY <1>2, ProfileSet DEF CallOK, Profiler!Idle
<1>5. CallsInGraph
  BY <1>2 DEF CallsInGraph
<1>6. CountsNoMore
  <2>. SUFFICES ASSUME NEW a \in Profiler!Arc
                PROVE  /\ IsFiniteSet(Profiler!Counted(a))
                       /\ Cardinality(Profiler!Counted(a)) <= Profiler!TimesOver(a)
    BY DEF CountsNoMore
  <2>1. Profiler!Counted(a) = {}
    <3>1. \A u : ~ UnitOf(u, a)
      BY <1>2 DEF UnitOf
    <3>2. \A u : ~ (u \in Profiler!Counted(a))
      BY <3>1, CountedIs
    <3>. QED
      BY <3>2
  <2>. DEFINE T(c) == {i \in 1 .. Len(p_calls[c]) : p_calls[c][i] = a}
  <2>2. \A c \in Profiler!Context : T(c) = {}
    BY <1>2
  <2>3. Profiler!TimesOver(a) = Cardinality(T("program")) + Cardinality(T("handler"))
    BY SameSize, Zenon DEF Profiler!TimesOver
  <2>. HIDE DEF T
  <2>4. Profiler!TimesOver(a) = 0
    <3>1. T("program") = {} /\ T("handler") = {}
      BY <2>2 DEF Profiler!Context
    <3>. QED
      BY <2>3, <3>1, FS_EmptySet
  <2>5. IsFiniteSet({}) /\ Cardinality({}) = 0
    BY FS_EmptySet
  <2>. QED
    BY <2>1, <2>4, <2>5
<1>7. SlabInv
  <2>. DEFINE L(c) == Len(p_calls[c])
  <2>1. L("program") = 0 /\ L("handler") = 0
    BY <1>2 DEF Profiler!Context
  <2>2. slab.ptr = 0 /\ slab.size = 0 /\ p_heap_end = 0
    BY <1>1
  <2>3. slab.ptr <= 2 * (L("program") + L("handler"))
    <3>. HIDE DEF L
    <3>. QED
      BY <2>1, <2>2
  <2>4. slab.ptr + slab.size = p_heap_end
    BY <2>2
  <2>. QED
    BY <2>3, <2>4, Zenon DEF SlabInv
<1>8. SpotsApart
  <2>1. \A b, i, j : ~ Spot(b, i, j)
    BY <1>2 DEF Spot
  <2>. QED
    BY <2>1 DEF SpotsApart
<1>. QED
  BY <1>3, <1>4, <1>5, <1>6, <1>7, <1>8 DEF ProfileInv

\* What the invariant says of the profiler.
LEMMA ProfileSays ==
  ProfileInv => /\ Profiler!TypeOK /\ Profiler!Recorded /\ Profiler!RecordsApart
                /\ Profiler!SamplesInHistogram
<1>. SUFFICES ASSUME ProfileInv
              PROVE  /\ Profiler!TypeOK /\ Profiler!Recorded /\ Profiler!RecordsApart
                     /\ Profiler!SamplesInHistogram
  OBVIOUS
<1>0. ProfileTypes /\ CallsInGraph /\ CountsNoMore /\ SlabInv /\ SpotsApart
  BY DEF ProfileInv
<1>1. Profiler!TypeOK
  BY <1>0, CallIs DEF Profiler!TypeOK, ProfileTypes
<1>2. Profiler!SamplesInHistogram
  BY <1>0 DEF Profiler!SamplesInHistogram, ProfileTypes
<1>3. \A f : f \in Profiler!Functions <=>
               \E b \in Profiler!Bucket : \E i \in 1 .. Len(chain[b]) : f = <<b, i>>
  BY DEF Profiler!Functions
<1>4. \A b, i : Profiler!Entry(<<b, i>>) = chain[b][i]
  BY DEF Profiler!Entry
<1>5. Profiler!Recorded
  <2>1. ASSUME NEW a \in Profiler!Arc, Profiler!TimesOver(a) > 0
        PROVE  \E f \in Profiler!Functions :
                 /\ Profiler!Entry(f).self_pc = a[1] /\ f[1] = hash[a[1]]
                 /\ \E i \in DOMAIN Profiler!Entry(f).arcs :
                      Profiler!Entry(f).arcs[i].from_pc = a[2]
    <3>. DEFINE T(c) == {i \in 1 .. Len(p_calls[c]) : p_calls[c][i] = a}
    <3>1. Profiler!TimesOver(a) = Cardinality(T("program")) + Cardinality(T("handler"))
      BY SameSize, Zenon DEF Profiler!TimesOver
    <3>2. \E c \in Profiler!Context : T(c) # {}
      <4>. HIDE DEF T
      <4>1. CASE T("program") = {} /\ T("handler") = {}
        <5>1. Profiler!TimesOver(a) = 0
          BY <3>1, <4>1, FS_EmptySet
        <5>. QED
          BY <2>1, <5>1
      <4>. QED
        BY <4>1 DEF Profiler!Context
    <3>3. PICK c \in Profiler!Context : T(c) # {}
      BY <3>2
    <3>4. PICK k \in 1 .. Len(p_calls[c]) : p_calls[c][k] = a
      BY <3>3
    <3>5. InChains(a, chain)
      BY <1>0, <3>4 DEF CallsInGraph, InGraph
    <3>6. hash[a[1]] \in Profiler!Bucket
      BY DEF Profiler!Arc, Profiler!Bucket
    <3>7. PICK i \in 1 .. Len(chain[hash[a[1]]]) :
            /\ chain[hash[a[1]]][i].self_pc = a[1]
            /\ \E j \in 1 .. Len(chain[hash[a[1]]][i].arcs) :
                 chain[hash[a[1]]][i].arcs[j].from_pc = a[2]
      BY <3>5 DEF InChains
    <3>. DEFINE f == <<hash[a[1]], i>>
                A == Profiler!Entry(f).arcs
    <3>8. /\ f \in Profiler!Functions /\ f[1] = hash[a[1]]
          /\ Profiler!Entry(f) = chain[hash[a[1]]][i]
      BY <1>3, <1>4, <3>6, <3>7
    <3>9. A \in Seq(ArcRecord)
      BY <1>0, <3>6, <3>8, ChainIs
    <3>. HIDE DEF f
    <3>10. \E j \in DOMAIN A : A[j].from_pc = a[2]
      <4>1. A = chain[hash[a[1]]][i].arcs /\ DOMAIN A = 1 .. Len(A)
        BY <3>8, <3>9
      <4>. HIDE DEF A
      <4>. QED
        BY <3>7, <4>1
    <3>11. Profiler!Entry(f).self_pc = a[1]
      BY <3>7, <3>8
    <3>. QED
      BY <3>8, <3>10, <3>11
  <2>2. ASSUME NEW a \in Profiler!Arc
        PROVE  Profiler!Cardinality(Profiler!Counted(a)) <= Profiler!TimesOver(a)
    BY <1>0, SameSize DEF CountsNoMore
  <2>. QED
    BY <2>1, <2>2, Zenon DEF Profiler!Recorded
<1>6. Profiler!RecordsApart
  <2>1. ASSUME NEW r \in Profiler!Records
        PROVE  \E b, i, j : /\ Spot(b, i, j) /\ r = <<<<b, i>>, j>>
                            /\ Profiler!Lies(r) = Place(b, i, j)
    <3>. DEFINE C == UNION {Profiler!Copies(a) : a \in Profiler!Arc}
    <3>1. Profiler!Records = {<<f, 0>> : f \in Profiler!Functions} \cup C
      BY DEF Profiler!Records
    <3>. HIDE DEF C
    <3>2. CASE r \in {<<f, 0>> : f \in Profiler!Functions}
      <4>1. PICK f \in Profiler!Functions : r = <<f, 0>>
        BY <3>2
      <4>2. PICK b \in Profiler!Bucket : \E i \in 1 .. Len(chain[b]) : f = <<b, i>>
        BY <1>3
      <4>3. PICK i \in 1 .. Len(chain[b]) : f = <<b, i>>
        BY <4>2
      <4>4. Spot(b, i, 0)
        BY <1>0, ChainIs DEF Spot
      <4>5. Profiler!Lies(r) = chain[b][i].lies
        BY <1>4, <4>1, <4>3 DEF Profiler!Lies
      <4>. QED
        BY <4>1, <4>3, <4>4, <4>5 DEF Place
    <3>3. CASE r \in C
      <4>1. PICK a \in Profiler!Arc : r \in Profiler!Copies(a)
        BY <3>3 DEF C
      <4>2. PICK f \in Profiler!Functions :
              \E j \in 1 .. Len(Profiler!Entry(f).arcs) : r = <<f, j>>
        BY <4>1 DEF Profiler!Copies
      <4>3. PICK j \in 1 .. Len(Profiler!Entry(f).arcs) : r = <<f, j>>
        BY <4>2
      <4>4. PICK b \in Profiler!Bucket : \E i \in 1 .. Len(chain[b]) : f = <<b, i>>
        BY <1>3
      <4>5. PICK i \in 1 .. Len(chain[b]) : f = <<b, i>>
        BY <4>4
      <4>6. Profiler!Entry(f) = chain[b][i]
        BY <1>4, <4>5
      <4>7. j \in 1 .. Len(chain[b][i].arcs) /\ Len(chain[b][i].arcs) \in Nat
        BY <1>0, <4>3, <4>6, ChainIs
      <4>8. Spot(b, i, j) /\ j # 0
        BY <4>7 DEF Spot
      <4>9. Profiler!Lies(r) = chain[b][i].arcs[j].lies
        <5>1. r[1] = f /\ r[2] = j
          BY <4>3
        <5>. QED
          BY <4>6, <4>8, <5>1 DEF Profiler!Lies
      <4>. QED
        BY <4>3, <4>5, <4>8, <4>9 DEF Place
    <3>. QED
      BY <3>1, <3>2, <3>3
  <2>2. slab.ptr \in Nat /\ p_heap_end \in Nat /\ slab.ptr <= p_heap_end
    <3>1. /\ slab.ptr \in Nat /\ slab.size \in Nat /\ slab.ptr + slab.size = p_heap_end
      BY <1>0, ProfileSet DEF ProfileTypes, SlabInv
    <3>. QED
      BY <3>1
  <2>3. ASSUME NEW r \in Profiler!Records
        PROVE  Profiler!Lies(r) \in 0 .. p_heap_end - 1
    <3>1. PICK b, i, j : Spot(b, i, j) /\ Profiler!Lies(r) = Place(b, i, j)
      BY <2>1
    <3>2. Place(b, i, j) \in 0 .. slab.ptr - 1
      BY <1>0, <3>1 DEF SpotsApart
    <3>. QED
      BY <2>2, <3>1, <3>2
  <2>4. ASSUME NEW r \in Profiler!Records, NEW q \in Profiler!Records,
               Profiler!Lies(q) = Profiler!Lies(r)
        PROVE  q = r
    <3>1. PICK b, i, j : /\ Spot(b, i, j) /\ r = <<<<b, i>>, j>>
                         /\ Profiler!Lies(r) = Place(b, i, j)
      BY <2>1
    <3>2. PICK d, k, l : /\ Spot(d, k, l) /\ q = <<<<d, k>>, l>>
                         /\ Profiler!Lies(q) = Place(d, k, l)
      BY <2>1
    <3>3. b = d /\ i = k /\ j = l
      BY <1>0, <2>4, <3>1, <3>2 DEF SpotsApart
    <3>. QED
      BY <3>1, <3>2, <3>3
  <2>. QED
    BY <2>3, <2>4 DEF Profiler!RecordsApart
<1>. QED
  BY <1>1, <1>2, <1>5, <1>6

\* Whoever interrupts mcount, every arc that was called is in the graph ever
\* after and counts no more calls than there were, no two records lie in one
\* place, and samples fall into the histogram (alt_mcount.S, alt_gmon.c): for
\* every program whose calls the heap has records for.
THEOREM ProfilesAreRight == MCSpec => []ProfilesRight
<1>. DEFINE I == part = "profile" => ProfileInv
<1>1. MCInit => I
  BY ProfileInit, BootAssumption, Zenon DEF MCInit
<1>2. I /\ [MCNext]_everything => I'
  <2>. SUFFICES ASSUME I, [MCNext]_everything, part' = "profile" PROVE ProfileInv'
    OBVIOUS
  <2>1. part' = part
    BY DEF MCNext, everything
  <2>2. ProfileInv
    BY <2>1
  <2>3. CASE Profiler!Next
    BY <2>2, <2>3, ProfileStep
  <2>4. CASE UNCHANGED profile
    BY <2>2, <2>4, ProfileStutter
  <2>. QED
    BY <2>3, <2>4 DEF MCNext, everything
<1>3. I => ProfilesRight
  BY ProfileSays DEF ProfilesRight
<1>. QED
  BY <1>1, <1>2, <1>3, PTL DEF MCSpec
=============================================================================
