--------------------------------- MODULE Boot ---------------------------------
(***************************************************************************)
(* From the reset of the soft processor to main() and back: crt0.S,        *)
(* alt_load.c, alt_main.c, alt_sys_init.c, alt_exit.c and what they need   *)
(* of the caches.  The reset is a push button (KEY[1]) and may come at any *)
(* time; memory keeps what it holds, the registers and PIE do not.         *)
(* Addresses count words.  A word is the address it was linked for, or one *)
(* of Zero, Junk and Used.  This board's processor has neither caches nor  *)
(* shadow registers; the code is written for those that have.              *)
(***************************************************************************)
EXTENDS Integers, Sequences, Functions

CONSTANTS Memory,                        \* the addresses
          ram_start, ram_end,            \* of each of Sections, and where
          flash_start,                   \* its copy is kept
          bss_start, bss_end,
          DCacheSize, DCacheLine, ICacheSize, ICacheLine,
          Ecc,                           \* NIOS2_ECC_PRESENT
          ShadowSets,                    \* NIOS2_NUM_OF_SHADOW_REG_SETS
          LogFlag,                       \* where alt_log_boot_on_flag is, or -1
          Ctors, Dtors,                  \* how many there are
          Exits                          \* whether main ever returns

Sections == <<"rwdata", "exceptions", "rodata">>
Zero == -1
Junk == -2
Used == -3
Run(s) == ram_start[s] .. ram_end[s] - 1
Copied(s) == flash_start[s] # ram_start[s]
Copy(s) == {flash_start[s] + (a - ram_start[s]) : a \in Run(s)}
Bss == bss_start .. bss_end - 1
AllRun == UNION {Run(Sections[i]) : i \in 1 .. Len(Sections)}
AllCopies == UNION {Copy(Sections[i]) :
                      i \in {j \in 1 .. Len(Sections) : Copied(Sections[j])}}

\* What the linker script arranges: nothing lies in something else, and the
\* variables, which the program changes, are kept in a copy too.
BootAssumption ==
  /\ Memory \subseteq Nat /\ AllRun \cup AllCopies \cup Bss \subseteq Memory
  /\ AllCopies \cap (AllRun \cup Bss) = {} /\ AllRun \cap Bss = {}
  /\ \A s, t \in Range(Sections) : s # t =>
       /\ Run(s) \cap Run(t) = {}
       /\ Copied(s) /\ Copied(t) => Copy(s) \cap Copy(t) = {}
  /\ \A s \in Range(Sections) : /\ ram_start[s] \in Nat /\ flash_start[s] \in Nat
                                /\ ram_end[s] \in Nat /\ ram_start[s] <= ram_end[s]
  /\ Copied("rwdata")
  /\ bss_start \in Nat /\ bss_end \in Nat /\ bss_start <= bss_end
  /\ DCacheSize \in Nat /\ DCacheLine \in Nat \ {0} /\ DCacheSize % DCacheLine = 0
  /\ ICacheSize \in Nat /\ ICacheLine \in Nat \ {0} /\ ICacheSize % ICacheLine = 0
  /\ Ecc \in BOOLEAN /\ ShadowSets \in Nat /\ Ctors \in Nat /\ Dtors \in Nat

VARIABLES pc,        \* what comes next
          ram,       \* the words in memory
          dcache,    \* the words in the data cache
          icache,    \* the instruction cache's words that have been set up
          r2,        \* the counter or pointer of the loop under way
          section,   \* number of the section alt_load is at
          ready,     \* per register set, what has been set up
          prs, crs,  \* register sets in the status register
          log,       \* what crt0 last took for alt_log_boot_on_flag
          PIE, ienable, requests,  \* requests: the JTAG UART may interrupt
          calls,     \* constructors and destructors called
          atexit,    \* whether the destructors have been registered
          stdout

memory == <<ram, dcache, icache>>
registers == <<r2, ready, prs, crs>>
interrupts == <<PIE, ienable, requests>>
program == <<calls, atexit, stdout>>
vars == <<pc, memory, section, registers, log, interrupts, program>>

\* Memory as loads and stores see it.  A word that was stored stays in the
\* data cache until it is flushed, the worst that can happen to it.
View(a) == IF a \in DOMAIN dcache THEN dcache[a] ELSE ram[a]
Store(a, w) ==
  IF DCacheSize = 0 THEN ram' = [ram EXCEPT ![a] = w] /\ UNCHANGED dcache
  ELSE dcache' = [b \in DOMAIN dcache \cup {a} |->
                    IF b = a THEN w ELSE dcache[b]] /\ UNCHANGED ram
Lines == DCacheSize \div DCacheLine
InLine(a, n) == (a \div DCacheLine) % Lines = n
\* Once a line has been thrown away, what is left of the data cache.
Without(n) == Restrict(dcache, {a \in DOMAIN dcache : ~ InLine(a, n)})

\* After the download: the copies and what needs none are in place.
Downloaded == [a \in Memory |->
  IF a \in AllRun /\ a \notin
       UNION {Run(s) : s \in {t \in Range(Sections) : Copied(t)}} THEN a
  ELSE IF a \in AllCopies
       THEN LET s == CHOOSE t \in Range(Sections) : Copied(t) /\ a \in Copy(t)
            IN ram_start[s] + (a - flash_start[s])
  ELSE Junk]

Fresh == [n \in 0 .. ShadowSets |-> {}]
Init == /\ pc = "reset" /\ ram = Downloaded /\ icache = {}
        /\ dcache = IF DCacheSize = 0 THEN <<>> ELSE [a \in Memory |-> Junk]
        /\ r2 = ICacheSize /\ section = 1
        /\ ready = Fresh /\ prs = 0 /\ crs \in 0 .. ShadowSets
        /\ log = Zero /\ PIE = FALSE /\ ienable = FALSE /\ requests = FALSE
        /\ calls = <<>> /\ atexit = FALSE /\ stdout = "none"
\* The button resets the processor and the JTAG UART, but no memory.
Reset == /\ pc' = "reset" /\ icache' = {} /\ UNCHANGED <<ram, dcache>>
         /\ r2' = ICacheSize /\ section' = 1
         /\ ready' = Fresh /\ prs' = 0 /\ crs' = 0
         /\ log' = Zero /\ PIE' = FALSE /\ ienable' = FALSE /\ requests' = FALSE
         /\ calls' = <<>> /\ atexit' = FALSE /\ stdout' = "none"

Goto(l) == pc' = l
\* ALT_LOG_PUTS reads its flag past the data cache.
Puts == log' = IF LogFlag < 0 THEN log ELSE ram[LogFlag]

\* __reset: initi from the last line down, then to _start.
InitIcache ==
  /\ pc = "reset" /\ r2 > 0
  /\ icache' = icache \cup {r2 % ICacheSize}
  /\ r2' = r2 - ICacheLine
  /\ UNCHANGED <<pc, ram, dcache, section, ready, prs, crs, log, interrupts, program>>
Start == /\ pc = "reset" /\ r2 <= 0
         /\ Goto("dcache")
         /\ crs' = 0
         /\ prs' = IF crs = 0 THEN prs ELSE 0
         /\ r2' = DCacheSize
         /\ UNCHANGED <<memory, section, ready, log, interrupts, program>>

\* initd, by lines or, with error correction, by words.
DStep == IF Ecc THEN 1 ELSE DCacheLine
InitDcache ==
  /\ pc = "dcache" /\ r2 > 0
  /\ dcache' = Without((r2 \div DCacheLine) % Lines)
  /\ r2' = r2 - DStep
  /\ UNCHANGED <<pc, ram, icache, section, ready, prs, crs, log, interrupts, program>>

Parity == IF Ecc THEN {"others"} ELSE {}
Pointers ==
  /\ pc = "dcache" /\ r2 <= 0
  /\ Puts
  /\ ready' = [ready EXCEPT ![0] = {"sp", "gp"} \cup Parity]
  /\ r2' = ShadowSets
  /\ Goto("shadow")
  /\ UNCHANGED <<memory, section, prs, crs, interrupts, program>>

\* wrprs writes to the register set STATUS.PRS names.
Shadow ==
  /\ pc = "shadow" /\ r2 > 0
  /\ prs' = prs + 1
  /\ ready' = [ready EXCEPT ![prs + 1] = {"zero", "gp"} \cup Parity]
  /\ r2' = r2 - 1
  /\ UNCHANGED <<pc, memory, section, crs, log, interrupts, program>>

BssFrom == /\ pc = "shadow" /\ r2 = 0
           /\ Puts
           /\ r2' = IF bss_start = bss_end THEN 0 ELSE bss_start
           /\ Goto(IF bss_start = bss_end THEN "load" ELSE "bss")
           /\ UNCHANGED <<memory, section, ready, prs, crs, interrupts, program>>
ClearBss ==
  /\ pc = "bss"
  /\ Store(r2, Zero)
  /\ r2' = IF r2 + 1 < bss_end THEN r2 + 1 ELSE 0
  /\ Goto(IF r2 + 1 < bss_end THEN "bss" ELSE "load")
  /\ UNCHANGED <<icache, section, ready, prs, crs, log, interrupts, program>>

\* alt_load: each of the sections in turn; r2 counts what has been copied.
LoadWord ==
  LET s == Sections[section] IN
  /\ pc = "load" /\ section <= Len(Sections)
  /\ Copied(s) /\ ram_start[s] + r2 # ram_end[s]
  /\ Store(ram_start[s] + r2, View(flash_start[s] + r2))
  /\ r2' = r2 + 1
  /\ UNCHANGED <<pc, icache, section, ready, prs, crs, log, interrupts, program>>
LoadNextAtOnce ==
  /\ pc = "load" /\ section <= Len(Sections)
  /\ section' = section + 1 /\ r2' = 0
  /\ UNCHANGED <<pc, memory, ready, prs, crs, log, interrupts, program>>
LoadNext ==
  LET s == Sections[section] IN
  /\ pc = "load" /\ section <= Len(Sections)
  /\ ~ Copied(s) \/ ram_start[s] + r2 = ram_end[s]
  /\ section' = section + 1 /\ r2' = 0
  /\ UNCHANGED <<pc, memory, ready, prs, crs, log, interrupts, program>>

\* alt_dcache_flush_all writes back the lines it comes past, and
\* alt_icache_flush_all forgets all instructions.
Flushed == {i \div DCacheLine : i \in {j \in 0 .. DCacheSize - 1 : j % DCacheLine = 0}}
Synchronise ==
  LET back == {a \in DOMAIN dcache : \E n \in Flushed : InLine(a, n)} IN
  /\ pc = "load" /\ section > Len(Sections)
  /\ ram' = [a \in Memory |-> IF a \in back THEN dcache[a] ELSE ram[a]]
  /\ dcache' = Restrict(dcache, DOMAIN dcache \ back)
  /\ Puts
  /\ Goto("alt_main")
  /\ UNCHANGED <<icache, section, registers, interrupts, program>>

\* alt_irq_init, alt_sys_init and alt_io_redirect of alt_main.
IrqInit == /\ pc = "alt_main"
           /\ ienable' = FALSE /\ PIE' = TRUE
           /\ Goto("sys_init")
           /\ UNCHANGED <<memory, section, registers, log, requests, program>>
JtagInit == /\ pc = "sys_init"
            /\ requests' = TRUE
            /\ Goto("isr_register")
            /\ UNCHANGED <<memory, section, registers, log, PIE, ienable, program>>
IsrRegister == /\ pc = "isr_register"
               /\ ienable' = TRUE
               /\ Goto("io_redirect")
               /\ UNCHANGED <<memory, section, registers, log, PIE, requests, program>>
IoRedirect == /\ pc = "io_redirect"
              /\ stdout' = "open"
              /\ Goto("ctors")
              /\ r2' = Ctors
              /\ UNCHANGED <<memory, section, ready, prs, crs, log, interrupts, calls, atexit>>

\* _do_ctors and _do_dtors both go from the end of their list to its start.
Construct == /\ pc = "ctors" /\ r2 > 0
             /\ calls' = Append(calls, <<"ctor", r2>>)
             /\ r2' = r2 - 1
             /\ UNCHANGED <<pc, memory, section, ready, prs, crs, log, interrupts, atexit, stdout>>
EnterMain == /\ pc = "ctors" /\ r2 = 0
             /\ atexit' = TRUE
             /\ Goto("main")
             /\ UNCHANGED <<memory, section, registers, log, interrupts, calls, stdout>>

\* main() changes its variables and may return; exit() calls what is
\* registered and _exit(), which goes round for ever.
Compute == /\ pc = "main"
           /\ \E a \in Bss \cup Run("rwdata") : View(a) # Used /\ Store(a, Used)
           /\ UNCHANGED <<pc, icache, section, registers, log, interrupts, program>>
Return == /\ pc = "main" /\ Exits
          /\ stdout' = "closed"
          /\ Goto("exit")
          /\ r2' = IF atexit THEN Dtors ELSE 0
          /\ UNCHANGED <<memory, section, ready, prs, crs, log, interrupts, calls, atexit>>
Destroy == /\ pc = "exit" /\ r2 > 0
           /\ calls' = Append(calls, <<"dtor", r2>>)
           /\ r2' = r2 - 1
           /\ UNCHANGED <<pc, memory, section, ready, prs, crs, log, interrupts, atexit, stdout>>
Exit == /\ pc = "exit" /\ r2 = 0
        /\ Goto("spin")
        /\ UNCHANGED <<memory, section, registers, log, interrupts, program>>
\* kill() by the program, to itself (pid <= 0) or to nobody: a signal whose
\* default ends a process calls _exit() at once, past the destructors and the
\* closing of files; anything else sets errno at most.
Signals == {"null", "ends", "ignored", "unsupported"}
KillStatus(pid, sig) == CASE pid > 0 -> "ESRCH"
                          [] sig = "ends" -> "exits"
                          [] sig = "unsupported" -> "EINVAL"
                          [] OTHER -> "ok"
kill(pid, sig) ==
  /\ pc = "main" /\ Exits
  /\ KillStatus(pid, sig) = "exits"
  /\ Goto("spin")
  /\ UNCHANGED <<memory, section, registers, log, interrupts, program>>
Kill == \E pid \in {-1, 0, 1}, sig \in Signals : kill(pid, sig)
Spin == pc = "spin" /\ UNCHANGED vars

Startup == \/ InitIcache \/ Start \/ InitDcache \/ Pointers \/ Shadow
           \/ BssFrom \/ ClearBss \/ LoadWord \/ LoadNext \/ Synchronise
           \/ IrqInit \/ JtagInit \/ IsrRegister \/ IoRedirect
           \/ Construct \/ EnterMain
Shutdown == Destroy \/ Exit
Step == Startup \/ Compute \/ Return \/ Kill \/ Shutdown \/ Spin
Next == Step \/ Reset
Spec == Init /\ [][Next]_vars
\* The processor goes on, and the button is not pressed for ever: while it is
\* let go the start-up takes its course.
FairSpec == Spec /\ WF_vars(Startup \/ Shutdown) /\ <>[][~ Reset]_vars
-----------------------------------------------------------------------------
TypeOK == /\ pc \in {"reset", "dcache", "shadow", "bss", "load", "alt_main",
                     "sys_init", "isr_register", "io_redirect", "ctors",
                     "main", "exit", "spin"}
          /\ ram \in [Memory -> Memory \cup {Zero, Junk, Used}]
          /\ DOMAIN dcache \subseteq Memory
          /\ icache \subseteq 0 .. ICacheSize - 1
          /\ section \in 1 .. Len(Sections) + 1
          /\ prs \in 0 .. ShadowSets /\ crs \in 0 .. ShadowSets
          /\ PIE \in BOOLEAN /\ ienable \in BOOLEAN /\ requests \in BOOLEAN
          /\ atexit \in BOOLEAN /\ stdout \in {"none", "open", "closed"}

\* Whenever alt_main begins, after the button too, the variables are as the
\* program was linked, whatever an earlier run left in memory or the caches,
\* and instructions are fetched as they were loaded.
AsLinked == pc = "alt_main" =>
  /\ \A a \in AllRun : View(a) = a
  /\ \A a \in Bss : View(a) = Zero
  /\ \A a \in Run("exceptions") : ram[a] = a

\* By then every register set can be used: register 0 of a shadow set is 0,
\* and the pointers are set where the exception code expects them.
SetsUsable == pc = "alt_main" =>
  /\ crs = 0
  /\ {"sp", "gp"} \subseteq ready[0]
  /\ \A n \in 1 .. ShadowSets : {"zero", "gp"} \subseteq ready[n]

\* No interrupt is taken before its handler, the handlers' table and the
\* driver's variables are in place, although alt_main enables interrupts
\* before it initialises the devices, and no constructor before stdout is.
NotTooEarly ==
  /\ PIE /\ ienable /\ requests =>
       /\ \A a \in Run("exceptions") : ram[a] = a
       /\ \A a \in Bss \cup Run("rwdata") : View(a) \in {Zero, Used, a}
  /\ calls # <<>> => stdout # "none" /\ ienable

\* When main begins each constructor has been called once, the last first.
ConstructedOnce == pc = "main" =>
  calls = [i \in 1 .. Ctors |-> <<"ctor", Ctors + 1 - i>>]

\* The program gets to main, and a main that returns ends in the endless
\* loop, with each destructor called.
GetsToMain == pc = "reset" ~> pc = "main"
ComesToRest == pc = "exit" ~> \/ pc = "reset"
                              \/ pc = "spin" /\ Len(calls) = Ctors + Dtors

\* alt_log_printf.c:55 explains: the flag of the boot messages is in .rwdata
\* "because if it is zero, it would otherwise be placed in the bss section.
\* alt_log examines this variable before the BSS is cleared": it is to be
\* valid whenever crt0 reads it.
FlagIsValid == log \in {Zero, LogFlag}

\* crt0.S:163 says: "When ECC is present, need to execute initi for each word
\* address to ensure ECC parity bits in cache RAM get initialized."
EveryWordInitialised ==
  Ecc /\ pc = "dcache" => icache = 0 .. ICacheSize - 1
=============================================================================
