-------------------------- MODULE ProcessorProofs --------------------------
(***************************************************************************)
(* What the exception code of the soft processor keeps, for every number   *)
(* of interrupt lines and service routines, however deeply calls and       *)
(* handlers nest, and for programs of every length: interrupts are on      *)
(* exactly where the code that runs has not turned them off; the           *)
(* dispatcher calls what is registered and lets only higher priorities in; *)
(* no instruction is lost or repeated; and, for words of every width, the  *)
(* emulation multiplies and divides as the instructions do.                *)
(***************************************************************************)
EXTENDS MCProcessor, SequenceTheorems, FiniteSetTheorems,
        WellFoundedInduction, TLAPS

Calling == {"handler", "context", "active", "ienable", "restore"}
FrameType ==
  [pc : Pcs, line : Int, estatus : BOOLEAN, contexts : Seq(BOOLEAN),
   call : {"none", "enable", "disable", "register"}, id : Int,
   isr : Isr \cup {Null}, old : Seq(SUBSET Lines), calls : Nat]

\* Where interrupts are on between calls: in the program, and in a service
\* routine that lets itself be interrupted.
Base(n, f) == n = 1 \/ f.old # <<>>
\* How many contexts a call holds: the registration of a routine enables the
\* line in a call of its own.
Need(f) == IF f.pc \in {"active", "ienable", "restore"} /\ f.call = "register"
           THEN 2 ELSE 1
\* The n-th of the frames: the outermost context it holds says whether
\* interrupts were on where it took it, the others that they were off.
FrameOK(n, f) ==
  /\ f \in FrameType
  /\ f.pc \in {"handler", "context"} => f.call = "register"
  /\ f.pc \in Calling => Len(f.contexts) >= Need(f)
  /\ n # 1 => Len(f.contexts) = IF f.pc \in Calling THEN Need(f) ELSE 0
  /\ n = 1 => f.pc \in Calling \cup {"runs"} /\ f.old = <<>>
  /\ \A k \in 1 .. Len(f.contexts) :
       f.contexts[k] = TRUE <=> k = Len(f.contexts) /\ Base(n, f)
\* Whoever was interrupted had interrupts on.
IInv ==
  /\ frames \in Seq(FrameType) /\ depth >= 1 /\ pie \in BOOLEAN
  /\ asserted \subseteq Lines /\ alt_priority_mask \subseteq Lines
  /\ \A n \in 1 .. depth : FrameOK(n, frames[n])
  /\ \A n \in 1 .. depth - 1 : frames[n].contexts = <<>> /\ Base(n, frames[n])
  /\ \A n \in 2 .. depth : frames[n].estatus = TRUE
  /\ pie = TRUE <=> top.contexts = <<>> /\ Base(depth, top)

-----------------------------------------------------------------------------
LEMMA TopIs == ASSUME IInv
               PROVE  /\ depth \in Nat /\ depth >= 1
                      /\ top \in FrameType /\ FrameOK(depth, top)
                      /\ Len(top.contexts) \in Nat
                      /\ top.contexts \in Seq(BOOLEAN)
<1>1. depth \in Nat /\ depth \in 1 .. depth
  BY DEF IInv, depth
<1>2. FrameOK(depth, top)
  BY <1>1 DEF IInv, top
<1>3. top \in FrameType
  BY <1>2 DEF FrameOK
<1>4. top.contexts \in Seq(BOOLEAN)
  BY <1>3 DEF FrameType
<1>. QED
  BY <1>1, <1>2, <1>3, <1>4 DEF IInv

\* A step of what is on top.
LEMMA TopStep ==
  ASSUME IInv, NEW f, Top(f), FrameOK(depth, f), f.estatus = top.estatus,
         pie' \in BOOLEAN,
         pie' = TRUE <=> f.contexts = <<>> /\ Base(depth, f),
         asserted' \subseteq Lines, alt_priority_mask' \subseteq Lines
  PROVE  IInv'
<1>1. depth \in Nat /\ depth >= 1
  BY TopIs
<1>2. f \in FrameType
  BY DEF FrameOK
<1>3. /\ frames' \in Seq(FrameType) /\ Len(frames') = depth
      /\ frames'[depth] = f
      /\ \A n \in 1 .. depth - 1 : frames'[n] = frames[n]
  BY <1>1, <1>2 DEF IInv, Top, depth
<1>4. depth' = depth /\ top' = f
  BY <1>3 DEF depth, top
<1>. HIDE DEF depth, top
<1>5. \A n \in 1 .. depth : FrameOK(n, frames'[n])
  BY <1>1, <1>3 DEF IInv
<1>6. \A n \in 1 .. depth - 1 : frames'[n].contexts = <<>> /\ Base(n, frames'[n])
  BY <1>3 DEF IInv
<1>7. \A n \in 2 .. depth : frames'[n].estatus = TRUE
  <2>1. ASSUME NEW n \in 2 .. depth PROVE frames'[n].estatus = TRUE
    <3>1. CASE n = depth
      BY <1>1, <1>3, <3>1 DEF IInv, top
    <3>2. CASE n # depth
      BY <1>1, <1>3, <3>2 DEF IInv
    <3>. QED
      BY <3>1, <3>2
  <2>. QED
    BY <2>1
<1>. QED
  BY <1>1, <1>3, <1>4, <1>5, <1>6, <1>7 DEF IInv

\* Like top in what the status depends on.
Same(f) == /\ f \in FrameType /\ f.contexts = top.contexts
           /\ f.old = top.old /\ f.estatus = top.estatus

\* alt_irq_disable_all, as a step: the context it takes is right.
LEMMA Disabling ==
  ASSUME IInv, NEW f, Same(f), DisableAll(f), f.pc \in Calling \cup {"runs"},
         depth = 1 \/ f.pc \in Calling,
         f.pc \in {"handler", "context"} => f.call = "register",
         f.pc \in Calling => Len(top.contexts) + 1 >= Need(f),
         depth # 1 => Len(top.contexts) + 1 = Need(f),
         asserted' = asserted, alt_priority_mask' = alt_priority_mask
  PROVE  IInv'
<1>. DEFINE c == <<pie>> \o top.contexts
            g == [f EXCEPT !.contexts = <<pie>> \o @]
<1>1. /\ depth \in Nat /\ depth >= 1 /\ FrameOK(depth, top)
      /\ top.contexts \in Seq(BOOLEAN) /\ Len(top.contexts) \in Nat
  BY TopIs
<1>2. /\ c \in Seq(BOOLEAN) /\ Len(c) = Len(top.contexts) + 1
      /\ c[1] = pie
      /\ \A k \in 2 .. Len(c) : c[k] = top.contexts[k - 1]
  <2>1. <<pie>> \in Seq(BOOLEAN) /\ Len(<<pie>>) = 1 /\ <<pie>>[1] = pie
    BY DEF IInv
  <2>. QED
    BY <1>1, <2>1, ConcatProperties
<1>. HIDE DEF c
<1>3. /\ g \in FrameType /\ g.contexts = c /\ g.pc = f.pc /\ g.call = f.call
      /\ g.old = top.old /\ g.estatus = top.estatus
  BY <1>2 DEF Same, FrameType, c
<1>4. Top(g) /\ pie' = FALSE
  BY DEF DisableAll
<1>. HIDE DEF g
<1>5. Base(depth, g) <=> Base(depth, top)
  BY <1>3 DEF Base
<1>6. \A k \in 1 .. Len(c) : c[k] = TRUE <=> k = Len(c) /\ Base(depth, g)
  <2>. SUFFICES ASSUME NEW k \in 1 .. Len(c)
                PROVE  c[k] = TRUE <=> k = Len(c) /\ Base(depth, g)
    OBVIOUS
  <2>1. CASE k = 1
    <3>1. k = Len(c) <=> top.contexts = <<>>
      BY <1>1, <1>2, <2>1, EmptySeq
    <3>2. c[k] = TRUE <=> top.contexts = <<>> /\ Base(depth, top)
      BY <1>2, <2>1 DEF IInv
    <3>. QED
      BY <1>5, <3>1, <3>2
  <2>2. CASE k # 1
    <3>1. k - 1 \in 1 .. Len(top.contexts) /\ c[k] = top.contexts[k - 1]
      BY <1>1, <1>2, <2>2
    <3>2. top.contexts[k - 1] = TRUE <=>
            k - 1 = Len(top.contexts) /\ Base(depth, top)
      BY <1>1, <3>1 DEF FrameOK
    <3>3. k - 1 = Len(top.contexts) <=> k = Len(c)
      BY <1>1, <1>2
    <3>. QED
      BY <1>5, <3>1, <3>2, <3>3
  <2>. QED
    BY <2>1, <2>2
<1>7. Need(g) = Need(f)
  BY <1>3 DEF Need
<1>8. FrameOK(depth, g)
  BY <1>1, <1>2, <1>3, <1>6, <1>7 DEF FrameOK
<1>9. c # <<>>
  BY <1>1, <1>2
<1>10. pie' \in BOOLEAN /\ ~ (pie' = TRUE)
  BY <1>4
<1>. QED
  BY <1>3, <1>4, <1>8, <1>9, <1>10, TopStep DEF IInv

\* alt_irq_enable_all: what it restores is right.
LEMMA Enabling ==
  ASSUME IInv, NEW f, Same(f), EnableAll(f), top.contexts # <<>>,
         f.pc \in Calling \cup {"runs"},
         f.pc \in {"handler", "context"} => f.call = "register",
         f.pc \in Calling => Len(top.contexts) - 1 >= Need(f),
         depth # 1 => Len(top.contexts) - 1 = IF f.pc \in Calling THEN Need(f)
                                              ELSE 0,
         asserted' = asserted, alt_priority_mask' = alt_priority_mask
  PROVE  IInv'
<1>. DEFINE c == Tail(top.contexts)
            g == [f EXCEPT !.contexts = Tail(@)]
<1>1. /\ depth \in Nat /\ depth >= 1 /\ FrameOK(depth, top)
      /\ top.contexts \in Seq(BOOLEAN) /\ Len(top.contexts) \in Nat
  BY TopIs
<1>2. /\ c \in Seq(BOOLEAN) /\ Len(c) = Len(top.contexts) - 1
      /\ \A k \in 1 .. Len(c) : c[k] = top.contexts[k + 1]
      /\ Head(top.contexts) = top.contexts[1] /\ Len(c) \in Nat
  <2>0. Head(top.contexts) = top.contexts[1]
    BY <1>1
  <2>1. c \in Seq(BOOLEAN) /\ Len(c) = Len(top.contexts) - 1
    BY <1>1, HeadTailProperties
  <2>2. \A k \in 1 .. Len(c) : c[k] = top.contexts[k + 1]
    BY <1>1, HeadTailProperties
  <2>3. Len(c) \in Nat
    BY <2>1, LenProperties
  <2>. QED
    BY <2>0, <2>1, <2>2, <2>3
<1>. HIDE DEF c
<1>3. /\ g \in FrameType /\ g.contexts = c /\ g.pc = f.pc /\ g.call = f.call
      /\ g.old = top.old /\ g.estatus = top.estatus
  BY <1>2 DEF Same, FrameType, c
<1>4. Top(g) /\ pie' = top.contexts[1]
  BY <1>2 DEF EnableAll, Same
<1>. HIDE DEF g
<1>5. Base(depth, g) <=> Base(depth, top)
  BY <1>3 DEF Base
<1>6. \A k \in 1 .. Len(c) : c[k] = TRUE <=> k = Len(c) /\ Base(depth, g)
  <2>. SUFFICES ASSUME NEW k \in 1 .. Len(c)
                PROVE  c[k] = TRUE <=> k = Len(c) /\ Base(depth, g)
    OBVIOUS
  <2>1. k + 1 \in 1 .. Len(top.contexts) /\ c[k] = top.contexts[k + 1]
    BY <1>1, <1>2
  <2>2. top.contexts[k + 1] = TRUE <=>
          k + 1 = Len(top.contexts) /\ Base(depth, top)
    BY <1>1, <2>1 DEF FrameOK
  <2>3. k + 1 = Len(top.contexts) <=> k = Len(c)
    BY <1>1, <1>2
  <2>. QED
    BY <1>5, <2>1, <2>2, <2>3
<1>7. Need(g) = Need(f)
  BY <1>3 DEF Need
<1>8. FrameOK(depth, g)
  BY <1>1, <1>2, <1>3, <1>6, <1>7 DEF FrameOK
<1>9. pie' = TRUE <=> g.contexts = <<>> /\ Base(depth, g)
  <2>1. 1 \in 1 .. Len(top.contexts)
    BY <1>1, EmptySeq
  <2>2. top.contexts[1] = TRUE <=> 1 = Len(top.contexts) /\ Base(depth, top)
    BY <1>1, <2>1 DEF FrameOK
  <2>3. 1 = Len(top.contexts) <=> c = <<>>
    <3>1. 1 = Len(top.contexts) <=> Len(c) = 0
      BY <1>1, <1>2
    <3>. QED
      BY <1>2, <3>1, EmptySeq
  <2>. QED
    BY <1>3, <1>4, <1>5, <2>2, <2>3
<1>10. pie' \in BOOLEAN
  <2>1. 1 \in 1 .. Len(top.contexts)
    BY <1>1, EmptySeq
  <2>. QED
    BY <1>1, <1>4, <2>1, ElementOfSeq
<1>. QED
  BY <1>3, <1>4, <1>8, <1>9, <1>10, TopStep DEF IInv

-----------------------------------------------------------------------------
\* A step of what is on top that leaves the status and the contexts alone.
LEMMA Moving ==
  ASSUME IInv, NEW f, Same(f), Top(f), UNCHANGED pie,
         asserted' \subseteq Lines, alt_priority_mask' = alt_priority_mask,
         \/ /\ top.pc \in Calling /\ f.pc \in Calling /\ Need(f) = Need(top)
            /\ f.pc \in {"handler", "context"} => f.call = "register"
         \/ depth # 1 /\ top.pc \notin Calling /\ f.pc \notin Calling
  PROVE  IInv'
<1>1. /\ depth \in Nat /\ depth >= 1 /\ FrameOK(depth, top)
      /\ top.contexts \in Seq(BOOLEAN) /\ Len(top.contexts) \in Nat
  BY TopIs
<1>2. Base(depth, f) <=> Base(depth, top)
  BY DEF Base, Same
<1>3. FrameOK(depth, f)
  <2>1. /\ f \in FrameType /\ Len(f.contexts) = Len(top.contexts)
        /\ f.old = top.old
    BY DEF Same
  <2>2. \A k \in 1 .. Len(f.contexts) :
          f.contexts[k] = TRUE <=> k = Len(f.contexts) /\ Base(depth, f)
    BY <1>1, <1>2 DEF FrameOK, Same
  <2>3. CASE top.pc \in Calling
    BY <1>1, <2>1, <2>2, <2>3 DEF FrameOK, Calling
  <2>4. CASE top.pc \notin Calling
    BY <1>1, <2>1, <2>2, <2>4 DEF FrameOK, Calling
  <2>. QED
    BY <2>3, <2>4
<1>4. pie' \in BOOLEAN /\ (pie' = TRUE <=> f.contexts = <<>> /\ Base(depth, f))
  BY <1>2 DEF IInv, Same
<1>. QED
  BY <1>3, <1>4, TopStep DEF IInv, Same

\* The calls (alt_irq.h, alt_legacy_irq.h, alt_iic_isr_register.c).
LEMMA BeginStep ==
  ASSUME IInv, NEW call \in {"enable", "disable", "register"}, NEW place \in Calling,
         NEW i \in Lines, NEW h \in Isr \cup {Null}, Begin(call, place, i, h),
         call = "register" <=> place = "handler", place \in {"handler", "active"}
  PROVE  IInv'
<1>. DEFINE f == [top EXCEPT !.pc = place, !.call = call, !.id = i, !.isr = h,
                             !.calls = Counted]
<1>1. /\ top \in FrameType /\ FrameOK(depth, top) /\ Len(top.contexts) \in Nat
  BY TopIs
<1>2. Counted \in Nat
  BY <1>1 DEF Counted, FrameType
<1>3. i \in Int
  BY IrqAssumption
<1>4. Same(f) /\ f.pc = place /\ f.call = call
  BY <1>1, <1>2, <1>3 DEF Same, FrameType, Calling, Pcs
<1>5. /\ DisableAll(f) /\ top.pc = "runs"
      /\ UNCHANGED <<asserted, alt_priority_mask>>
  BY DEF Begin, Free, masks, devices
<1>6. Need(f) = 1
  BY <1>4 DEF Need
<1>7. depth # 1 => Len(top.contexts) = 0
  BY <1>1, <1>5 DEF FrameOK, Calling
<1>. HIDE DEF f
<1>. QED
  BY <1>1, <1>4, <1>5, <1>6, <1>7, Disabling

LEMMA CallsStep == ASSUME IInv, Calls PROVE IInv'
<1>1. ASSUME NEW i \in Lines, Enable(i) \/ Disable(i) PROVE IInv'
  BY <1>1, BeginStep DEF Enable, Disable, Calling
<1>2. ASSUME NEW i \in Lines, NEW h \in Isr \cup {Null},
             alt_ic_isr_register(i, h)
      PROVE  IInv'
  BY <1>2, BeginStep DEF alt_ic_isr_register, Register, Calling
<1>3. CASE Enter
  <2>. DEFINE f == [top EXCEPT !.calls = Counted]
  <2>1. /\ top \in FrameType /\ FrameOK(depth, top) /\ Len(top.contexts) \in Nat
    BY TopIs
  <2>2. Counted \in Nat
    BY <2>1 DEF Counted, FrameType
  <2>3. /\ Same(f) /\ f.pc = "runs" /\ depth = 1 /\ DisableAll(f)
        /\ UNCHANGED <<asserted, alt_priority_mask>>
    BY <1>3, <2>1, <2>2 DEF Same, FrameType, Enter, Free, InProgram, masks, devices
  <2>. HIDE DEF f
  <2>. QED
    BY <2>3, Disabling DEF Calling
<1>4. CASE Interruptible
  <2>. DEFINE f == [top EXCEPT !.old = <<alt_priority_mask>>, !.calls = @ + 1]
  <2>1. /\ top \in FrameType /\ FrameOK(depth, top)
        /\ depth \in Nat /\ depth >= 1 /\ top.contexts \in Seq(BOOLEAN)
    BY TopIs
  <2>2. /\ depth # 1 /\ top.pc = "runs" /\ Top(f) /\ pie' = TRUE
        /\ asserted' = asserted /\ alt_priority_mask' = Higher(top.line)
    BY <1>4 DEF Interruptible, InProgram, Free, devices
  <2>3. /\ f \in FrameType /\ f.contexts = top.contexts /\ f.pc = top.pc
        /\ f.old = <<alt_priority_mask>> /\ f.estatus = top.estatus
        /\ f.call = top.call
    <3>1. <<alt_priority_mask>> \in Seq(SUBSET Lines)
      <4>1. alt_priority_mask \in SUBSET Lines
        BY DEF IInv
      <4>. QED
        BY <4>1
    <3>2. top.calls + 1 \in Nat
      BY <2>1 DEF FrameType
    <3>. DEFINE o == <<alt_priority_mask>>
                n == top.calls + 1
    <3>3. f = [top EXCEPT !.old = o, !.calls = n]
      BY <2>1 DEF FrameType
    <3>. HIDE DEF o, n, f
    <3>4. /\ f \in FrameType /\ f.contexts = top.contexts /\ f.pc = top.pc
          /\ f.old = o /\ f.estatus = top.estatus /\ f.call = top.call
      BY <2>1, <3>1, <3>2, <3>3 DEF FrameType, o, n
    <3>. QED
      BY <3>4 DEF o
  <2>. HIDE DEF f
  <2>4. top.contexts = <<>>
    BY <2>1, <2>2, EmptySeq DEF FrameOK, Calling
  <2>5. Base(depth, f)
    BY <2>3 DEF Base
  <2>6. FrameOK(depth, f)
    BY <2>1, <2>2, <2>3, <2>4 DEF FrameOK, Calling
  <2>7. pie' \in BOOLEAN /\ (pie' = TRUE <=> f.contexts = <<>> /\ Base(depth, f))
    BY <2>2, <2>3, <2>4, <2>5
  <2>8. alt_priority_mask' \subseteq Lines /\ asserted' \subseteq Lines
    BY <2>2 DEF Higher, IInv
  <2>. QED
    BY <2>2, <2>3, <2>6, <2>7, <2>8, TopStep
<1>. QED
  BY <1>1, <1>2, <1>3, <1>4 DEF Calls

\* The steps of a call that is under way.
LEMMA InCallStep ==
  ASSUME IInv, SetHandler \/ SetContext \/ SetActive \/ SetIenable \/ Restore
  PROVE  IInv'
<1>1. /\ top \in FrameType /\ FrameOK(depth, top) /\ Len(top.contexts) \in Nat
      /\ depth \in Nat /\ top.contexts \in Seq(BOOLEAN)
  BY TopIs
<1>. DEFINE at(place) == [top EXCEPT !.pc = place]
<1>2. ASSUME NEW place \in Pcs
      PROVE  Same(at(place)) /\ at(place).pc = place /\ at(place).call = top.call
  BY <1>1 DEF Same, FrameType
<1>3. CASE SetHandler
  <2>1. /\ Top(at("context")) /\ top.pc = "handler"
        /\ UNCHANGED <<pie, asserted, alt_priority_mask>>
    BY <1>3 DEF SetHandler, Go, masks, devices
  <2>2. Same(at("context")) /\ at("context").pc = "context"
        /\ at("context").call = top.call
    BY <1>2 DEF Pcs
  <2>. HIDE DEF at
  <2>. QED
    BY <1>1, <2>1, <2>2, Moving DEF IInv, Need, Calling, FrameOK
<1>4. CASE SetContext
  <2>1. /\ DisableAll(at("active")) /\ top.pc = "context"
        /\ UNCHANGED <<asserted, alt_priority_mask>>
    BY <1>4 DEF SetContext, masks, devices
  <2>2. Same(at("active")) /\ at("active").pc = "active"
        /\ at("active").call = top.call
    BY <1>2 DEF Pcs
  <2>. HIDE DEF at
  <2>3. /\ top.call = "register" /\ Need(at("active")) = 2 /\ Need(top) = 1
    BY <1>1, <2>1, <2>2 DEF FrameOK, Need
  <2>4. /\ Len(top.contexts) + 1 >= 2
        /\ depth # 1 => Len(top.contexts) + 1 = 2
    BY <1>1, <2>1, <2>3 DEF FrameOK, Calling
  <2>. QED
    BY <2>1, <2>2, <2>3, <2>4, Disabling DEF Calling
<1>5. CASE SetActive
  <2>1. /\ Top(at("ienable")) /\ top.pc = "active"
        /\ UNCHANGED <<pie, asserted, alt_priority_mask>>
    BY <1>5 DEF SetActive, Go, devices
  <2>2. Same(at("ienable")) /\ at("ienable").pc = "ienable"
        /\ at("ienable").call = top.call
    BY <1>2 DEF Pcs
  <2>. HIDE DEF at
  <2>. QED
    BY <1>1, <2>1, <2>2, Moving DEF IInv, Need, Calling
<1>6. CASE SetIenable
  <2>1. /\ Top(at("restore")) /\ top.pc = "ienable"
        /\ UNCHANGED <<pie, asserted, alt_priority_mask>>
    BY <1>6 DEF SetIenable, Go, devices
  <2>2. Same(at("restore")) /\ at("restore").pc = "restore"
        /\ at("restore").call = top.call
    BY <1>2 DEF Pcs
  <2>. HIDE DEF at
  <2>. QED
    BY <1>1, <2>1, <2>2, Moving DEF IInv, Need, Calling
<1>7. CASE Restore
  <2>0. top.pc = "restore" /\ UNCHANGED <<asserted, alt_priority_mask>>
    BY <1>7 DEF Restore, masks, devices
  <2>1. CASE top.call = "register"
    <3>. DEFINE f == [top EXCEPT !.call = "enable"]
    <3>1. EnableAll(f)
      BY <1>7, <2>1 DEF Restore
    <3>2. Same(f) /\ f.pc = "restore" /\ f.call = "enable"
      BY <1>1, <2>0 DEF Same, FrameType
    <3>. HIDE DEF f
    <3>3. Need(f) = 1 /\ Need(top) = 2
      BY <2>0, <2>1, <3>2 DEF Need
    <3>4. /\ Len(top.contexts) >= 2
          /\ depth # 1 => Len(top.contexts) = 2
      BY <1>1, <2>0, <3>3 DEF FrameOK, Calling
    <3>5. /\ Len(top.contexts) - 1 >= 1 /\ top.contexts # <<>>
          /\ depth # 1 => Len(top.contexts) - 1 = 1
      BY <1>1, <3>4, EmptySeq
    <3>. QED
      BY <2>0, <3>1, <3>2, <3>3, <3>5, Enabling DEF Calling
  <2>2. CASE top.call # "register"
    <3>. DEFINE f == [top EXCEPT !.pc = "runs", !.call = "none"]
    <3>1. EnableAll(f)
      BY <1>7, <2>2 DEF Restore
    <3>2. Same(f) /\ f.pc = "runs"
      BY <1>1 DEF Same, FrameType, Pcs
    <3>. HIDE DEF f
    <3>3. Need(top) = 1
      BY <2>2 DEF Need
    <3>4. /\ Len(top.contexts) >= 1
          /\ depth # 1 => Len(top.contexts) = 1
      BY <1>1, <2>0, <3>3 DEF FrameOK, Calling
    <3>5. top.contexts # <<>> /\ (depth # 1 => Len(top.contexts) - 1 = 0)
      BY <1>1, <3>4, EmptySeq
    <3>. QED
      BY <2>0, <3>1, <3>2, <3>5, Enabling DEF Calling
  <2>. QED
    BY <2>1, <2>2
<1>. QED
  BY <1>3, <1>4, <1>5, <1>6, <1>7

\* The program's pieces kept out of, and the end of being interruptible.
LEMMA LeaveStep == ASSUME IInv, Leave \/ NonInterruptible PROVE IInv'
<1>1. /\ top \in FrameType /\ FrameOK(depth, top) /\ Len(top.contexts) \in Nat
      /\ depth \in Nat /\ depth >= 1 /\ top.contexts \in Seq(BOOLEAN)
  BY TopIs
<1>2. CASE Leave
  <2>. DEFINE k == IF Len(top.contexts) = 1 THEN 0 ELSE top.calls
              f == [top EXCEPT !.calls = k]
  <2>1. k \in Nat
    BY <1>1 DEF FrameType
  <2>2. f = [top EXCEPT !.calls = IF Len(top.contexts) = 1 THEN 0 ELSE @]
    BY <1>1 DEF FrameType
  <2>3. /\ EnableAll(f) /\ top.pc = "runs" /\ depth = 1 /\ top.contexts # <<>>
        /\ UNCHANGED <<asserted, alt_priority_mask>>
    BY <1>2, <2>2 DEF Leave, InProgram, masks, devices
  <2>. HIDE DEF k
  <2>4. Same(f) /\ f.pc = top.pc
    BY <1>1, <2>1 DEF Same, FrameType
  <2>. HIDE DEF f
  <2>. QED
    BY <2>3, <2>4, Enabling DEF Calling
<1>3. CASE NonInterruptible
  <2>. DEFINE f == [top EXCEPT !.old = <<>>]
  <2>1. /\ top.pc \in {"runs", "served"} /\ top.old # <<>> /\ Top(f)
        /\ pie' = FALSE /\ asserted' = asserted
        /\ alt_priority_mask' = top.old[1]
    BY <1>3 DEF NonInterruptible, devices
  <2>2. /\ f \in FrameType /\ f.contexts = top.contexts /\ f.pc = top.pc
        /\ f.old = <<>> /\ f.estatus = top.estatus /\ f.call = top.call
    <3>1. <<>> \in Seq(SUBSET Lines)
      OBVIOUS
    <3>. DEFINE o == <<>>
    <3>2. f = [top EXCEPT !.old = o] /\ o \in Seq(SUBSET Lines)
      BY <3>1
    <3>. HIDE DEF o, f
    <3>3. /\ f \in FrameType /\ f.contexts = top.contexts /\ f.pc = top.pc
          /\ f.old = o /\ f.estatus = top.estatus /\ f.call = top.call
      BY <1>1, <3>2 DEF FrameType
    <3>. QED
      BY <3>3 DEF o
  <2>3. top.old[1] \subseteq Lines
    <3>1. top.old \in Seq(SUBSET Lines) /\ 1 \in 1 .. Len(top.old)
      BY <1>1, <2>1, EmptySeq DEF FrameType
    <3>. QED
      BY <3>1, ElementOfSeq
  <2>. HIDE DEF f
  <2>4. depth # 1 => top.contexts = <<>>
    BY <1>1, <2>1, EmptySeq DEF FrameOK, Calling
  <2>5. depth # 1
    BY <1>1, <2>1 DEF FrameOK
  <2>6. FrameOK(depth, f)
    BY <1>1, <2>1, <2>2, <2>4, <2>5 DEF FrameOK, Calling
  <2>7. ~ Base(depth, f)
    BY <2>2, <2>5 DEF Base
  <2>8. pie' \in BOOLEAN /\ ~ (pie' = TRUE)
    BY <2>1
  <2>. QED
    BY <2>1, <2>2, <2>3, <2>6, <2>7, <2>8, TopStep DEF IInv
<1>. QED
  BY <1>2, <1>3

\* The dispatcher (alt_irq_handler.c:75-155) between its calls.
LEMMA LowestIs == ASSUME NEW S \in SUBSET Lines, S # {}
                  PROVE  Lowest(S) \in S
<1>1. S \subseteq Nat
  BY IrqAssumption
<1>2. \E n \in S : \A m \in S : n <= m
  <2>. DEFINE R == OpToRel(<, Nat)
  <2>1. \A x, y \in Nat : x < y => <<x, y>> \in R
    BY DEF OpToRel
  <2>2. IsWellFoundedOn(R, Nat)
    BY NatLessThanWellFounded
  <2>. HIDE DEF R
  <2>3. PICK x \in S : \A y \in S : ~ (<<y, x>> \in R)
    BY <1>1, <2>2, WFMin
  <2>4. ASSUME NEW y \in S PROVE x <= y
    <3>1. x \in Nat /\ y \in Nat /\ ~ (y < x)
      BY <1>1, <2>1, <2>3
    <3>. QED
      BY <3>1
  <2>. QED
    BY <2>4
<1>. QED
  BY <1>2 DEF Lowest

LEMMA DispatchStep ==
  ASSUME IInv, \/ TestIrq \/ FirstPending \/ Call \/ Serve \/ Return
               \/ NextPending
  PROVE  IInv'
<1>1. /\ top \in FrameType /\ FrameOK(depth, top) /\ depth # 1
      /\ top.pc \notin Calling
  <2>1. top \in FrameType /\ FrameOK(depth, top)
    BY TopIs
  <2>2. \/ top.pc \in {"test", "pending", "call", "served", "again"}
        \/ top.pc = "runs" /\ depth # 1
    BY DEF TestIrq, FirstPending, Call, Serve, Return, NextPending, InProgram
  <2>. QED
    BY <2>1, <2>2 DEF FrameOK, Calling
<1>2. ASSUME NEW f, Same(f), f.pc \notin Calling, Top(f),
             UNCHANGED <<pie, alt_priority_mask>>, asserted' \subseteq asserted
      PROVE  IInv'
  <2>1. asserted' \subseteq Lines
    BY <1>2 DEF IInv
  <2>. QED
    BY <1>1, <1>2, <2>1, Moving
<1>3. ASSUME NEW place \in Pcs \ Calling, Go(place),
             UNCHANGED <<pie, alt_priority_mask>>, asserted' \subseteq asserted
      PROVE  IInv'
  <2>. DEFINE f == [top EXCEPT !.pc = place]
  <2>1. Same(f) /\ f.pc \notin Calling /\ Top(f)
    BY <1>1, <1>3 DEF Same, FrameType, Go
  <2>. HIDE DEF f
  <2>. QED
    BY <1>2, <1>3, <2>1
<1>4. CASE TestIrq
  <2>1. UNCHANGED <<pie, alt_priority_mask, asserted>>
    BY <1>4 DEF TestIrq, masks, devices
  <2>2. Go("pending") \/ Go("unknown")
    BY <1>4 DEF TestIrq
  <2>3. {"pending", "unknown"} \subseteq Pcs \ Calling
    BY DEF Pcs, Calling
  <2>. QED
    BY <1>3, <2>1, <2>2, <2>3
<1>5. CASE FirstPending \/ NextPending
  <2>1. UNCHANGED <<pie, alt_priority_mask, asserted>>
    BY <1>5 DEF FirstPending, NextPending, masks, devices
  <2>2. CASE ipending = {}
    <3>1. Go("lost") \/ Go("exit")
      BY <1>5, <2>2 DEF FirstPending, NextPending, Go
    <3>2. {"lost", "exit"} \subseteq Pcs \ Calling
      BY DEF Pcs, Calling
    <3>. QED
      BY <1>3, <2>1, <3>1, <3>2
  <2>3. CASE ipending # {}
    <3>1. Lowest(ipending) \in Int
      <4>1. ipending \in SUBSET Lines
        BY DEF ipending, IInv
      <4>2. Lowest(ipending) \in Lines
        BY <2>3, <4>1, LowestIs
      <4>3. Lines \subseteq Nat
        BY IrqAssumption
      <4>4. Lowest(ipending) \in Nat
        BY <4>2, <4>3, Zenon
      <4>. QED
        BY <4>4
    <3>. DEFINE l == Lowest(ipending)
                f == [top EXCEPT !.pc = "call", !.line = l]
    <3>2. Top(f)
      BY <1>5, <2>3 DEF FirstPending, NextPending
    <3>. HIDE DEF l
    <3>3. Same(f) /\ f.pc \notin Calling
      BY <1>1, <3>1 DEF Same, FrameType, Pcs, Calling, l
    <3>. HIDE DEF f
    <3>. QED
      BY <1>2, <2>1, <3>2, <3>3
  <2>. QED
    BY <2>2, <2>3
<1>6. CASE Call
  <2>. DEFINE f == [top EXCEPT !.pc = "runs", !.calls = 0]
  <2>1. Top(f) /\ UNCHANGED <<pie, alt_priority_mask, asserted>>
    BY <1>6 DEF Call, masks, devices
  <2>2. Same(f) /\ f.pc \notin Calling
    BY <1>1 DEF Same, FrameType, Pcs, Calling
  <2>. HIDE DEF f
  <2>. QED
    BY <1>2, <2>1, <2>2
<1>7. CASE Serve
  <2>1. /\ Go("served") /\ asserted' \subseteq asserted
        /\ UNCHANGED <<pie, alt_priority_mask>>
    BY <1>7 DEF Serve, masks
  <2>2. "served" \in Pcs \ Calling
    BY DEF Pcs, Calling
  <2>. QED
    BY <1>3, <2>1, <2>2
<1>8. CASE Return
  <2>1. Go("again") /\ UNCHANGED <<pie, alt_priority_mask, asserted>>
    BY <1>8 DEF Return, masks, devices
  <2>2. "again" \in Pcs \ Calling
    BY DEF Pcs, Calling
  <2>. QED
    BY <1>3, <2>1, <2>2
<1>. QED
  BY <1>4, <1>5, <1>6, <1>7, <1>8

\* The processor takes an interrupt (alt_exception_entry.S:72-182), and goes
\* back to what it interrupted (345-396).
LEMMA InterruptStep == ASSUME IInv, Interrupt PROVE IInv'
<1>. DEFINE f == Frame("test", pie)
<1>1. depth \in Nat /\ depth >= 1 /\ FrameOK(depth, top)
  BY TopIs
<1>2. /\ pie = TRUE /\ frames' = Append(frames, f) /\ pie' = FALSE
      /\ UNCHANGED <<asserted, alt_priority_mask>>
  BY DEF Interrupt, IInv, masks, devices
<1>3. /\ f \in FrameType /\ f.contexts = <<>> /\ f.old = <<>> /\ f.pc = "test"
      /\ f.estatus = TRUE
  <2>1. f = [pc |-> "test", line |-> -1, estatus |-> TRUE, contexts |-> <<>>,
             call |-> "none", id |-> 0, isr |-> Null, old |-> <<>>, calls |-> 0]
    BY <1>2 DEF Frame
  <2>2. <<>> \in Seq(BOOLEAN) /\ <<>> \in Seq(SUBSET Lines)
    OBVIOUS
  <2>. HIDE DEF f
  <2>3. /\ f.contexts = <<>> /\ f.old = <<>> /\ f.pc = "test"
        /\ f.estatus = TRUE
    BY <2>1
  <2>4. f \in FrameType
    BY <2>1, <2>2 DEF FrameType, Pcs
  <2>. QED
    BY <2>3, <2>4
<1>. HIDE DEF f
<1>4. /\ frames' \in Seq(FrameType) /\ Len(frames') = depth + 1
      /\ frames'[depth + 1] = f
      /\ \A n \in 1 .. depth : frames'[n] = frames[n]
  BY <1>2, <1>3, AppendProperties DEF IInv, depth
<1>5. depth' = depth + 1 /\ top' = f
  BY <1>4 DEF depth, top
<1>6. top.contexts = <<>> /\ Base(depth, top)
  BY <1>2 DEF IInv
<1>7. frames[depth] = top
  BY DEF top
<1>. HIDE DEF depth, top
<1>8. ~ Base(depth + 1, f) /\ FrameOK(depth + 1, f)
  BY <1>1, <1>3, EmptySeq DEF Base, FrameOK, Calling
<1>9. ASSUME NEW n \in 1 .. depth + 1 PROVE FrameOK(n, frames'[n])
  <2>1. CASE n = depth + 1
    BY <1>4, <1>8, <2>1
  <2>2. CASE n # depth + 1
    BY <1>1, <1>4, <2>2 DEF IInv
  <2>. QED
    BY <2>1, <2>2
<1>10. ASSUME NEW n \in 1 .. depth
       PROVE  frames'[n].contexts = <<>> /\ Base(n, frames'[n])
  <2>1. CASE n = depth
    BY <1>4, <1>6, <1>7, <2>1
  <2>2. CASE n # depth
    BY <1>1, <1>4, <2>2 DEF IInv
  <2>. QED
    BY <2>1, <2>2
<1>11. ASSUME NEW n \in 2 .. depth + 1 PROVE frames'[n].estatus = TRUE
  <2>1. CASE n = depth + 1
    BY <1>3, <1>4, <2>1
  <2>2. CASE n # depth + 1
    BY <1>1, <1>4, <2>2 DEF IInv
  <2>. QED
    BY <2>1, <2>2
<1>12. pie' \in BOOLEAN /\ ~ (pie' = TRUE)
  BY <1>2
<1>13. /\ depth' >= 1
       /\ \A n \in 1 .. depth' : FrameOK(n, frames'[n])
       /\ \A n \in 2 .. depth' : frames'[n].estatus = TRUE
  <2>1. depth' >= 1
    BY <1>1, <1>5
  <2>2. \A n \in 1 .. depth' : FrameOK(n, frames'[n])
    BY <1>5, <1>9
  <2>3. \A n \in 2 .. depth' : frames'[n].estatus = TRUE
    BY <1>5, <1>11
  <2>. QED
    BY <2>1, <2>2, <2>3
<1>14. \A n \in 1 .. depth' - 1 : frames'[n].contexts = <<>> /\ Base(n, frames'[n])
  BY <1>1, <1>5, <1>10
<1>15. pie' = TRUE <=> top'.contexts = <<>> /\ Base(depth', top')
  BY <1>5, <1>8, <1>12
<1>. QED
  BY <1>2, <1>4, <1>12, <1>13, <1>14, <1>15 DEF IInv

LEMMA EretStep == ASSUME IInv, Eret PROVE IInv'
<1>1. depth \in Nat /\ depth >= 1 /\ FrameOK(depth, top)
  BY TopIs
<1>2. /\ frames' = SubSeq(frames, 1, depth - 1) /\ pie' = top.estatus
      /\ UNCHANGED <<asserted, alt_priority_mask>> /\ top.pc = "exit"
  BY DEF Eret, masks, devices
<1>3. depth # 1
  BY <1>1, <1>2 DEF FrameOK, Calling
<1>4. depth - 1 \in Nat /\ depth - 1 >= 1 /\ depth - 1 \in 1 .. depth - 1
  BY <1>1, <1>3
<1>5. /\ frames' \in Seq(FrameType) /\ Len(frames') = depth - 1
      /\ \A n \in 1 .. depth - 1 : frames'[n] = frames[n]
  <2>1. frames \in Seq(FrameType) /\ depth = Len(frames)
    BY DEF IInv, depth
  <2>2. \A n \in 1 .. depth - 1 : frames[n] \in FrameType
    BY <1>1, <2>1, ElementOfSeq
  <2>. QED
    BY <1>2, <1>4, <2>1, <2>2, SubSeqProperties
<1>6. depth' = depth - 1 /\ top' = frames[depth - 1]
  BY <1>4, <1>5 DEF depth, top
<1>7. pie' = TRUE
  <2>1. depth \in 2 .. depth
    BY <1>1, <1>3
  <2>. QED
    BY <1>2, <2>1 DEF IInv, top
<1>. HIDE DEF depth, top
<1>8. top'.contexts = <<>> /\ Base(depth', top')
  BY <1>4, <1>6 DEF IInv
<1>9. \A n \in 1 .. depth' : FrameOK(n, frames'[n])
  BY <1>1, <1>5, <1>6 DEF IInv
<1>10. \A n \in 1 .. depth' - 1 : frames'[n].contexts = <<>> /\ Base(n, frames'[n])
  BY <1>1, <1>5, <1>6 DEF IInv
<1>11. \A n \in 2 .. depth' : frames'[n].estatus = TRUE
  BY <1>1, <1>5, <1>6 DEF IInv
<1>12. pie' \in BOOLEAN
  BY <1>7
<1>. QED
  BY <1>2, <1>4, <1>5, <1>6, <1>7, <1>8, <1>9, <1>10, <1>11, <1>12 DEF IInv

-----------------------------------------------------------------------------
LEMMA InitHolds == Init => IInv
<1>. SUFFICES ASSUME Init PROVE IInv
  OBVIOUS
<1>. DEFINE f == Frame("runs", FALSE)
<1>1. frames = <<f>> /\ pie = TRUE /\ asserted = {} /\ alt_priority_mask = Lines
  BY DEF Init
<1>2. /\ f \in FrameType /\ f.contexts = <<>> /\ f.old = <<>> /\ f.pc = "runs"
  <2>1. f = [pc |-> "runs", line |-> -1, estatus |-> FALSE, contexts |-> <<>>,
             call |-> "none", id |-> 0, isr |-> Null, old |-> <<>>, calls |-> 0]
    BY DEF Frame
  <2>2. <<>> \in Seq(BOOLEAN) /\ <<>> \in Seq(SUBSET Lines)
    OBVIOUS
  <2>. HIDE DEF f
  <2>3. f.contexts = <<>> /\ f.old = <<>> /\ f.pc = "runs"
    BY <2>1
  <2>4. f \in FrameType
    BY <2>1, <2>2 DEF FrameType, Pcs
  <2>. QED
    BY <2>3, <2>4
<1>. HIDE DEF f
<1>3. /\ frames \in Seq(FrameType) /\ depth = 1 /\ top = f
      /\ \A n \in 1 .. depth : n = 1 /\ frames[n] = f
  BY <1>1, <1>2 DEF depth, top
<1>4. FrameOK(1, f) /\ Base(1, f)
  BY <1>2, EmptySeq DEF FrameOK, Base, Calling
<1>5. pie \in BOOLEAN
  BY <1>1
<1>. QED
  BY <1>1, <1>2, <1>3, <1>4, <1>5 DEF IInv

LEMMA Inductive == Spec => []IInv
<1>1. IInv /\ [Next]_vars => IInv'
  <2>. SUFFICES ASSUME IInv, [Next]_vars PROVE IInv'
    OBVIOUS
  <2>1. CASE Calls
    BY <2>1, CallsStep
  <2>2. CASE GoOn
    BY <2>2, InCallStep, LeaveStep, DispatchStep, EretStep DEF GoOn
  <2>3. CASE Interrupt
    BY <2>3, InterruptStep
  <2>4. CASE Devices
    <3>1. UNCHANGED <<pie, frames, alt_priority_mask>> /\ asserted' \subseteq Lines
      BY <2>4 DEF Devices, Raise, Withdraw, masks, IInv
    <3>. QED
      BY <3>1 DEF IInv, depth, top
  <2>5. CASE UNCHANGED vars
    BY <2>5 DEF vars, masks, devices, IInv, depth, top
  <2>. QED
    BY <2>1, <2>2, <2>3, <2>4, <2>5 DEF Next
<1>. QED
  BY <1>1, InitHolds, PTL DEF Spec

\* Interrupts are on exactly where the code that runs has not turned them off
\* (alt_irq.h:108-175, alt_legacy_irq.h:98-140): no call of a service routine
\* turns them on under the dispatcher, and none of the program's pieces that
\* keep them out ends early, however they are nested.
THEOREM StatusIsRight == Spec => []PieIsRight
<1>1. IInv => PieIsRight
  BY DEF IInv, PieIsRight, Base, InProgram
<1>. QED
  BY <1>1, Inductive, PTL

-----------------------------------------------------------------------------
(* The dispatcher.                                                         *)

\* The places of the entry code where no line has been found yet.
Unfound == {"test", "unknown", "pending", "lost"}
\* The lines that may interrupt the n-th frame.
Above(n) == IF n = 1 THEN Lines ELSE Higher(frames[n].line)

\* The n-th frame, a dispatcher: it serves a line that may interrupt the frame
\* below, and so one of higher priority than whatever is interrupted, which
\* bounds the nesting; and what it has replaced is the mask it was entered with.
Fits(n, f) ==
  /\ IF f.pc \in Unfound THEN f.line = -1
     ELSE /\ f.line \in Above(n - 1) \cap Lines
          /\ \A m \in 2 .. n - 1 : f.line < frames[m].line
          /\ f.line <= Cardinality(Lines) + 1 - n
  /\ f.old # <<>> => f.old = <<Above(n - 1)>> /\ f.pc \in {"runs", "served"}
  /\ IF "nest" \in Within THEN f.pc \notin Calling ELSE f.old = <<>>

\* The masks, with f on top.
MasksFit(f) ==
  /\ ienable \subseteq Lines /\ alt_irq_active \subseteq Lines
  /\ f.pc # "ienable" => ienable = alt_irq_active \cap alt_priority_mask
  /\ alt_priority_mask = IF depth = 1 THEN Lines
                         ELSE IF f.old = <<>> THEN Above(depth - 1)
                         ELSE Higher(f.line)

\* The table of routines, with f on top: the registration under way is the only
\* reason for a line to have another routine's context, or to be enabled with
\* no routine.
Registering(f) == f.pc \in {"context", "active"} /\ f.call = "register"
TableFits(f) ==
  /\ handler \in [Lines -> Isr \cup {Null}] /\ context \in [Lines -> Isr \cup {Null}]
  /\ f.pc \in Calling => f.id \in Lines
  /\ \A i \in Lines : context[i] = handler[i] \/ (f.pc = "context" /\ f.id = i)
  /\ \A i \in alt_irq_active : handler[i] # Null \/ (Registering(f) /\ f.id = i)
  /\ Registering(f) => handler[f.id] = f.isr
  /\ f.pc = "active" /\ f.call = "enable" => handler[f.id] # Null
  /\ f.pc = "call" => f.line \in alt_irq_active

Dispatching == /\ \A n \in 2 .. depth : Fits(n, frames[n])
               /\ depth <= Cardinality(Lines) + 1
               /\ MasksFit(top)
               /\ TableFits(top)
               /\ raised \in Nat

-----------------------------------------------------------------------------
\* What a step of the top frame leaves of the others.
LEMMA TopKept ==
  ASSUME IInv, Dispatching, NEW f, Top(f), depth # 1 => Fits(depth, f)
  PROVE  /\ depth' = depth /\ top' = f
         /\ \A n \in 2 .. depth : Fits(n, frames[n])'
         /\ depth # 1 => Above(depth - 1)' = Above(depth - 1)
<1>1. /\ depth \in Nat /\ depth >= 1 /\ frames' = [frames EXCEPT ![depth] = f]
      /\ frames \in Seq(FrameType) /\ depth = Len(frames)
  BY TopIs DEF IInv, Top, depth
<1>2. /\ Len(frames') = depth /\ frames'[depth] = f
      /\ \A n \in 1 .. depth - 1 : frames'[n] = frames[n]
  BY <1>1
<1>3. depth' = depth /\ top' = f
  BY <1>2 DEF depth, top
<1>. HIDE DEF depth, top
<1>4. ASSUME NEW n \in 1 .. depth - 1 PROVE Above(n)' = Above(n)
  BY <1>1, <1>2, <1>4 DEF Above, Higher
<1>5. ASSUME NEW n \in 2 .. depth PROVE Fits(n, frames[n])'
  <2>1. /\ Above(n - 1)' = Above(n - 1)
        /\ \A m \in 2 .. n - 1 : frames'[m] = frames[m]
    BY <1>1, <1>2, <1>4
  <2>2. CASE n = depth
    <3>1. Fits(n, f) /\ frames'[n] = f
      BY <1>1, <1>2, <2>2
    <3>2. QED  BY <2>1, <3>1 DEF Fits
  <2>3. CASE n # depth
    <3>1. Fits(n, frames[n]) /\ frames'[n] = frames[n]
      BY <1>1, <1>2, <2>3 DEF Dispatching
    <3>2. QED  BY <2>1, <3>1 DEF Fits
  <2>4. QED  BY <2>2, <2>3
<1>6. ASSUME depth # 1 PROVE Above(depth - 1)' = Above(depth - 1)
  <2>1. PICK n \in 1 .. depth - 1 : n = depth - 1
    BY <1>1, <1>6
  <2>2. Above(n)' = Above(n)
    BY <1>4
  <2>3. QED  BY <1>1, <1>3, <2>1, <2>2 DEF Above
<1>7. QED  BY <1>3, <1>5, <1>6

\* A step of the top frame keeps the invariant when the masks and the table do.
LEMMA Onward ==
  ASSUME IInv, Dispatching, NEW f, Top(f), depth # 1 => Fits(depth, f),
         top' = f /\ depth' = depth => MasksFit(top)' /\ TableFits(top)',
         raised' \in Nat
  PROVE  Dispatching'
<1>1. depth' = depth /\ top' = f
  BY TopKept
<1>2. \A n \in 2 .. depth' : Fits(n, frames[n])'
  BY <1>1, TopKept
<1>. HIDE DEF depth, top
<1>3. QED  BY <1>1, <1>2 DEF Dispatching

\* The frame on top, if it is a dispatcher.
LEMMA TopFits == ASSUME IInv, Dispatching, depth # 1 PROVE Fits(depth, top)
<1>1. depth \in 2 .. depth
  BY TopIs
<1>2. QED  BY <1>1 DEF Dispatching, top

\* Like top in what a dispatcher's frame is about.
LEMMA SameFits ==
  ASSUME IInv, Dispatching, depth # 1, NEW f, f.line = top.line, f.old = top.old,
         f.pc \in Unfound <=> top.pc \in Unfound,
         top.old = <<>> \/ f.pc \in {"runs", "served"},
         f.pc \in Calling => "nest" \notin Within
  PROVE  Fits(depth, f)
  BY TopFits DEF Fits

\* Calls are made where nothing is masked.
LEMMA CallsUnmasked ==
  ASSUME IInv, Dispatching, depth # 1 => "nest" \notin Within
  PROVE  /\ alt_priority_mask = Lines
         /\ depth # 1 => top.old = <<>>
<1>1. depth \in Nat /\ depth >= 1
  BY TopIs
<1>2. CASE depth = 1
  BY <1>2 DEF Dispatching, MasksFit
<1>3. CASE depth # 1
  <2>1. top.old = <<>>
    BY <1>3, TopFits DEF Fits
  <2>2. depth = 2
    <3>1. SUFFICES ASSUME depth > 2 PROVE FALSE
      BY <1>1, <1>3
    <3>2. depth - 1 \in 2 .. depth /\ depth - 1 \in 1 .. depth - 1 /\ depth - 1 # 1
      BY <1>1, <3>1
    <3>3. Fits(depth - 1, frames[depth - 1])
      BY <3>2 DEF Dispatching
    <3>4. frames[depth - 1].old # <<>>
      BY <3>2 DEF IInv, Base
    <3>5. QED  BY <1>3, <3>3, <3>4 DEF Fits
  <2>3. QED  BY <2>1, <2>2 DEF Dispatching, MasksFit, Above
<1>4. QED  BY <1>2, <1>3

-----------------------------------------------------------------------------
\* The calls.

LEMMA BeginFits ==
  ASSUME IInv, Dispatching, Gentle,
         NEW call \in {"enable", "disable", "register"},
         NEW place \in {"handler", "active"}, call = "register" <=> place = "handler",
         NEW i \in Lines, NEW h \in Isr \cup {Null}, Begin(call, place, i, h),
         call = "enable" => handler[i] # Null
  PROVE  Dispatching'
<1>. DEFINE f == [top EXCEPT !.pc = place, !.call = call, !.id = i, !.isr = h,
                             !.calls = Counted]
            g == [f EXCEPT !.contexts = <<pie>> \o @]
<1>1. top \in FrameType
  BY TopIs
<1>2. /\ Top(g) /\ top.pc = "runs" /\ May(call)
      /\ UNCHANGED <<ienable, alt_irq_active, alt_priority_mask, handler, context,
                     asserted, raised>>
  BY DEF Begin, DisableAll, Free, masks, table, devices
<1>3. /\ g.pc = place /\ g.call = call /\ g.id = i /\ g.isr = h
      /\ g.line = top.line /\ g.old = top.old
  BY <1>1 DEF FrameType
<1>. HIDE DEF f, g
<1>4. depth # 1 => "nest" \notin Within
  BY <1>2 DEF May, InProgram, Gentle
<1>5. depth # 1 => Fits(depth, g)
  BY <1>2, <1>3, <1>4, SameFits, CallsUnmasked DEF Unfound
<1>6. ASSUME top' = g, depth' = depth PROVE MasksFit(top)' /\ TableFits(top)'
  <2>1. MasksFit(top) /\ TableFits(top)
    BY DEF Dispatching
  <2>2. alt_priority_mask = Lines /\ (depth # 1 => top.old = <<>>)
    BY <1>4, CallsUnmasked
  <2>3. depth # 1 => Above(depth - 1)' = Above(depth - 1)
    BY <1>2, <1>5, TopKept
  <2>4. /\ ienable \subseteq Lines /\ alt_irq_active \subseteq Lines
        /\ ienable = alt_irq_active \cap alt_priority_mask
    BY <1>2, <2>1 DEF MasksFit
  <2>5. depth # 1 => alt_priority_mask = Above(depth - 1)
    BY <2>1, <2>2 DEF MasksFit
  <2>. HIDE DEF depth, top
  <2>6. MasksFit(top)'
    BY <1>2, <1>3, <1>6, <2>2, <2>3, <2>4, <2>5 DEF MasksFit
  <2>7. ~ Registering(top) /\ top.pc \notin {"context", "active", "call"}
    BY <1>2 DEF Registering
  <2>8. ~ Registering(g)
    BY <1>3 DEF Registering
  <2>9. TableFits(top)'
    BY <1>2, <1>3, <1>6, <2>1, <2>7, <2>8 DEF TableFits, Registering
  <2>10. QED  BY <2>6, <2>9
<1>7. raised' \in Nat
  BY <1>2 DEF Dispatching
<1>8. QED  BY <1>2, <1>5, <1>6, <1>7, Onward

LEMMA CallsFit == ASSUME IInv, Dispatching, Gentle, Calls PROVE Dispatching'
<1>1. ASSUME NEW i \in Lines, Enable(i) \/ Disable(i) PROVE Dispatching'
  BY <1>1, BeginFits DEF Enable, Disable
<1>2. ASSUME NEW i \in Lines, NEW h \in Isr \cup {Null},
             alt_ic_isr_register(i, h)
      PROVE  Dispatching'
  BY <1>2, BeginFits DEF alt_ic_isr_register, Register
<1>3. CASE Enter
  <2>. DEFINE f == [top EXCEPT !.calls = Counted]
              g == [f EXCEPT !.contexts = <<pie>> \o @]
  <2>1. top \in FrameType
    BY TopIs
  <2>2. /\ Top(g) /\ depth = 1 /\ top.pc = "runs"
        /\ UNCHANGED <<ienable, alt_irq_active, alt_priority_mask, handler,
                       context, raised>>
    BY <1>3 DEF Enter, InProgram, DisableAll, Free, masks, table, devices
  <2>3. g.pc = top.pc
    BY <2>1 DEF FrameType
  <2>. HIDE DEF f, g
  <2>4. ASSUME top' = g, depth' = depth PROVE MasksFit(top)' /\ TableFits(top)'
    <3>1. MasksFit(top) /\ TableFits(top)
      BY DEF Dispatching
    <3>. HIDE DEF depth, top
    <3>2. MasksFit(top)'
      BY <2>2, <2>3, <2>4, <3>1 DEF MasksFit
    <3>3. TableFits(top)'
      BY <2>2, <2>3, <2>4, <3>1 DEF TableFits, Registering, Calling
    <3>4. QED  BY <3>2, <3>3
  <2>5. QED  BY <2>2, <2>4, Onward DEF Dispatching
<1>4. CASE Interruptible
  <2>. DEFINE o == <<alt_priority_mask>>
              k == top.calls + 1
              f == [top EXCEPT !.old = o, !.calls = k]
  <2>1. top \in FrameType
    BY TopIs
  <2>2. /\ Top(f) /\ depth # 1 /\ top.pc = "runs" /\ top.old = <<>>
        /\ "nest" \in Within
        /\ alt_priority_mask' = Higher(top.line)
        /\ ienable' = alt_irq_active \cap Higher(top.line)
        /\ UNCHANGED <<alt_irq_active, handler, context, raised>>
    <3>1. f = [top EXCEPT !.old = <<alt_priority_mask>>, !.calls = @ + 1]
      BY <2>1 DEF FrameType
    <3>2. QED
      BY <1>4, <3>1 DEF Interruptible, InProgram, Free, table, devices
  <2>. HIDE DEF o, k
  <2>3. f.pc = top.pc /\ f.line = top.line /\ f.old = o /\ f.id = top.id
    BY <2>1 DEF FrameType
  <2>. HIDE DEF f
  <2>4. o = <<Above(depth - 1)>> /\ o # <<>>
    BY <2>2 DEF Dispatching, MasksFit, o
  <2>5. Fits(depth, f)
    <3>1. Fits(depth, top)
      BY <2>2, TopFits
    <3>2. f.old = <<Above(depth - 1)>> /\ f.pc = "runs"
      BY <2>2, <2>3, <2>4
    <3>3. QED  BY <2>2, <2>3, <3>1, <3>2 DEF Fits, Calling
  <2>6. ASSUME top' = f, depth' = depth PROVE MasksFit(top)' /\ TableFits(top)'
    <3>1. MasksFit(top) /\ TableFits(top)
      BY DEF Dispatching
    <3>. HIDE DEF depth, top
    <3>2. MasksFit(top)'
      BY <2>2, <2>3, <2>4, <2>6, <3>1 DEF MasksFit, Higher
    <3>3. TableFits(top)'
      BY <2>2, <2>3, <2>6, <3>1 DEF TableFits, Registering, Calling
    <3>4. QED  BY <3>2, <3>3
  <2>7. QED  BY <2>2, <2>5, <2>6, Onward DEF Dispatching
<1>5. QED  BY <1>1, <1>2, <1>3, <1>4 DEF Calls

\* The calls under way.
LEMMA InCallFits ==
  ASSUME IInv, Dispatching,
         SetHandler \/ SetContext \/ SetActive \/ SetIenable \/ Restore
  PROVE  Dispatching'
<1>1. /\ top \in FrameType /\ FrameOK(depth, top) /\ top.pc \in Calling
  BY TopIs DEF SetHandler, SetContext, SetActive, SetIenable, Restore, Calling
<1>2. depth # 1 => "nest" \notin Within
  BY <1>1, TopFits DEF Fits
<1>3. alt_priority_mask = Lines /\ (depth # 1 => top.old = <<>>)
  BY <1>2, CallsUnmasked
<1>4. ASSUME NEW f, Top(f), f.line = top.line, f.old = top.old, f.pc \notin Unfound
      PROVE  /\ depth # 1 => Fits(depth, f)
             /\ depth # 1 => Above(depth - 1)' = Above(depth - 1)
  <2>1. top.pc \notin Unfound
    BY <1>1 DEF Calling, Unfound
  <2>2. depth # 1 => Fits(depth, f)
    BY <1>2, <1>3, <1>4, <2>1, SameFits
  <2>3. QED  BY <1>4, <2>2, TopKept
<1>5. ASSUME NEW f, f.old = top.old, top' = f, depth' = depth,
             depth # 1 => Above(depth - 1)' = Above(depth - 1),
             alt_priority_mask' = alt_priority_mask,
             ienable' \subseteq Lines, alt_irq_active' \subseteq Lines,
             f.pc # "ienable" => ienable' = alt_irq_active'
      PROVE  MasksFit(top)'
  <2>1. MasksFit(top)
    BY DEF Dispatching
  <2>2. depth # 1 => alt_priority_mask = Above(depth - 1)
    BY <1>3, <2>1 DEF MasksFit
  <2>. HIDE DEF depth, top
  <2>3. QED  BY <1>3, <1>5, <2>2 DEF MasksFit
<1>6. /\ ienable \subseteq Lines /\ alt_irq_active \subseteq Lines
      /\ top.pc # "ienable" => ienable = alt_irq_active
  BY <1>3 DEF Dispatching, MasksFit
<1>7. TableFits(top) /\ raised \in Nat
  BY DEF Dispatching
<1>8. /\ top.id \in Lines /\ top.isr \in Isr \cup {Null}
      /\ top.pc \in {"handler", "context"} => top.call = "register"
  BY <1>1, <1>7 DEF TableFits, FrameType, FrameOK
<1>. DEFINE at(place) == [top EXCEPT !.pc = place]
<1>9. ASSUME NEW place \in Pcs
      PROVE  /\ at(place).pc = place /\ at(place).call = top.call
             /\ at(place).line = top.line /\ at(place).old = top.old
             /\ at(place).id = top.id /\ at(place).isr = top.isr
  BY <1>1 DEF FrameType
<1>10. CASE SetHandler
  <2>1. /\ Top(at("context")) /\ top.pc = "handler"
        /\ handler' = [handler EXCEPT ![top.id] = top.isr]
        /\ UNCHANGED <<ienable, alt_irq_active, alt_priority_mask, context, raised>>
    BY <1>10 DEF SetHandler, Go, masks, devices
  <2>. DEFINE f == at("context")
  <2>2. /\ f.pc = "context" /\ f.call = "register" /\ f.line = top.line
        /\ f.old = top.old /\ f.id = top.id /\ f.isr = top.isr
    BY <1>8, <1>9, <2>1 DEF Pcs
  <2>3. Top(f)
    BY <2>1
  <2>. HIDE DEF f
  <2>4. /\ depth # 1 => Fits(depth, f)
        /\ depth # 1 => Above(depth - 1)' = Above(depth - 1)
    BY <1>4, <2>2, <2>3 DEF Unfound
  <2>5. ASSUME top' = f, depth' = depth PROVE MasksFit(top)' /\ TableFits(top)'
    <3>1. MasksFit(top)'
      BY <1>5, <1>6, <2>1, <2>2, <2>4, <2>5
    <3>2. ~ Registering(top)
      BY <2>1 DEF Registering
    <3>. HIDE DEF depth, top
    <3>3. TableFits(top)'
      BY <1>7, <1>8, <2>1, <2>2, <2>5, <3>2 DEF TableFits, Registering
    <3>4. QED  BY <3>1, <3>3
  <2>6. QED  BY <1>7, <2>1, <2>3, <2>4, <2>5, Onward
<1>11. CASE SetContext
  <2>. DEFINE f == [at("active") EXCEPT !.contexts = <<pie>> \o @]
  <2>1. /\ Top(f) /\ top.pc = "context"
        /\ context' = [context EXCEPT ![top.id] = top.isr]
        /\ UNCHANGED <<ienable, alt_irq_active, alt_priority_mask, handler, raised>>
    BY <1>11 DEF SetContext, DisableAll, masks, devices
  <2>2. /\ f.pc = "active" /\ f.call = "register" /\ f.line = top.line
        /\ f.old = top.old /\ f.id = top.id /\ f.isr = top.isr
    BY <1>1, <1>8, <2>1 DEF FrameType
  <2>. HIDE DEF f
  <2>3. /\ depth # 1 => Fits(depth, f)
        /\ depth # 1 => Above(depth - 1)' = Above(depth - 1)
    BY <1>4, <2>1, <2>2 DEF Unfound
  <2>4. ASSUME top' = f, depth' = depth PROVE MasksFit(top)' /\ TableFits(top)'
    <3>1. MasksFit(top)'
      BY <1>5, <1>6, <2>1, <2>2, <2>3, <2>4
    <3>2. Registering(top)
      BY <1>8, <2>1 DEF Registering
    <3>. HIDE DEF depth, top
    <3>3. TableFits(top)'
      BY <1>7, <1>8, <2>1, <2>2, <2>4, <3>2 DEF TableFits, Registering
    <3>4. QED  BY <3>1, <3>3
  <2>5. QED  BY <1>7, <2>1, <2>3, <2>4, Onward
<1>12. CASE SetActive
  <2>1. /\ Top(at("ienable")) /\ top.pc = "active"
        /\ UNCHANGED <<ienable, alt_priority_mask, handler, context, raised>>
    BY <1>12 DEF SetActive, Go, table, devices
  <2>. DEFINE f == at("ienable")
  <2>2. /\ f.pc = "ienable" /\ f.call = top.call /\ f.line = top.line
        /\ f.old = top.old /\ f.id = top.id /\ f.isr = top.isr
    BY <1>9 DEF Pcs
  <2>3. Top(f)
    BY <2>1
  <2>. HIDE DEF f
  <2>4. /\ depth # 1 => Fits(depth, f)
        /\ depth # 1 => Above(depth - 1)' = Above(depth - 1)
    BY <1>4, <2>2, <2>3 DEF Unfound
  <2>5. /\ alt_irq_active' \subseteq Lines
        /\ \A i \in alt_irq_active' : handler[i] # Null
    <3>1. CASE top.call = "enable" \/ (top.call = "register" /\ top.isr # Null)
      <4>1. alt_irq_active' = alt_irq_active \cup {top.id}
        BY <1>12, <3>1 DEF SetActive
      <4>2. handler[top.id] # Null
        BY <1>7, <2>1, <3>1 DEF TableFits, Registering
      <4>3. QED  BY <1>6, <1>7, <1>8, <4>1, <4>2 DEF TableFits
    <3>2. CASE ~ (top.call = "enable" \/ (top.call = "register" /\ top.isr # Null))
      <4>1. alt_irq_active' = alt_irq_active \ {top.id}
        BY <1>12, <3>2 DEF SetActive
      <4>2. QED  BY <1>6, <1>7, <4>1 DEF TableFits
    <3>3. QED  BY <3>1, <3>2
  <2>6. ASSUME top' = f, depth' = depth PROVE MasksFit(top)' /\ TableFits(top)'
    <3>1. MasksFit(top)'
      BY <1>5, <1>6, <2>1, <2>2, <2>4, <2>5, <2>6
    <3>2. top.pc # "context"
      BY <2>1
    <3>. HIDE DEF depth, top
    <3>3. TableFits(top)'
      BY <1>7, <1>8, <2>1, <2>2, <2>5, <2>6, <3>2 DEF TableFits, Registering
    <3>4. QED  BY <3>1, <3>3
  <2>7. QED  BY <1>7, <2>1, <2>3, <2>4, <2>6, Onward
<1>13. ASSUME NEW f, Top(f), f.line = top.line, f.old = top.old,
              f.pc \in {"restore", "runs"}, f.id = top.id,
              top.pc \in {"ienable", "restore"},
              ienable' = alt_irq_active,
              UNCHANGED <<alt_irq_active, alt_priority_mask, handler, context,
                          raised>>
       PROVE  Dispatching'
  <2>1. /\ depth # 1 => Fits(depth, f)
        /\ depth # 1 => Above(depth - 1)' = Above(depth - 1)
    BY <1>4, <1>13 DEF Unfound
  <2>2. ASSUME top' = f, depth' = depth PROVE MasksFit(top)' /\ TableFits(top)'
    <3>1. MasksFit(top)'
      BY <1>5, <1>6, <1>13, <2>1, <2>2
    <3>2. ~ Registering(top)
      BY <1>13 DEF Registering
    <3>. HIDE DEF depth, top
    <3>3. TableFits(top)'
      BY <1>7, <1>8, <1>13, <2>2, <3>2 DEF TableFits, Registering
    <3>4. QED  BY <3>1, <3>3
  <2>3. QED  BY <1>7, <1>13, <2>1, <2>2, Onward
<1>14. CASE SetIenable
  <2>1. /\ Top(at("restore")) /\ top.pc = "ienable" /\ ienable' = alt_irq_active
        /\ UNCHANGED <<alt_irq_active, alt_priority_mask, handler, context, raised>>
    BY <1>14 DEF SetIenable, Go, table, devices
  <2>2. /\ at("restore").pc = "restore" /\ at("restore").line = top.line
        /\ at("restore").old = top.old /\ at("restore").id = top.id
    BY <1>9 DEF Pcs
  <2>. HIDE DEF at
  <2>3. QED  BY <1>13, <2>1, <2>2
<1>15. CASE Restore
  <2>1. PICK g : EnableAll(g) /\ g \in {[top EXCEPT !.call = "enable"],
                                       [top EXCEPT !.pc = "runs", !.call = "none"]}
    BY <1>15 DEF Restore
  <2>. DEFINE f == [g EXCEPT !.contexts = Tail(@)]
  <2>2. /\ Top(f) /\ top.pc = "restore"
        /\ UNCHANGED <<ienable, alt_irq_active, alt_priority_mask, handler, context,
                       raised>>
    BY <1>15, <2>1 DEF Restore, EnableAll, masks, table, devices
  <2>3. /\ f.pc \in {"restore", "runs"} /\ f.line = top.line /\ f.old = top.old
        /\ f.id = top.id
    BY <1>1, <2>1, <2>2 DEF FrameType
  <2>. HIDE DEF f
  <2>4. ienable' = alt_irq_active
    BY <1>6, <2>2
  <2>5. QED  BY <1>13, <2>2, <2>3, <2>4
<1>16. QED  BY <1>10, <1>11, <1>12, <1>14, <1>15

LEMMA LeaveFits == ASSUME IInv, Dispatching, Leave \/ NonInterruptible
                   PROVE  Dispatching'
<1>1. /\ top \in FrameType /\ FrameOK(depth, top)
  BY TopIs
<1>2. MasksFit(top) /\ TableFits(top) /\ raised \in Nat
  BY DEF Dispatching
<1>3. CASE Leave
  <2>. DEFINE k == IF Len(top.contexts) = 1 THEN 0 ELSE top.calls
              f == [[top EXCEPT !.calls = k] EXCEPT !.contexts = Tail(@)]
  <2>1. [top EXCEPT !.calls = k] =
          [top EXCEPT !.calls = IF Len(top.contexts) = 1 THEN 0 ELSE @]
    BY <1>1 DEF FrameType
  <2>2. /\ Top(f) /\ top.pc = "runs" /\ depth = 1
        /\ UNCHANGED <<ienable, alt_irq_active, alt_priority_mask, handler, context,
                       raised>>
    BY <1>3, <2>1 DEF Leave, EnableAll, InProgram, masks, table, devices
  <2>. HIDE DEF k
  <2>3. f.pc = "runs"
    BY <1>1, <2>2 DEF FrameType
  <2>. HIDE DEF f
  <2>4. ASSUME top' = f, depth' = depth PROVE MasksFit(top)' /\ TableFits(top)'
    <3>. HIDE DEF depth, top
    <3>1. MasksFit(top)'
      BY <1>2, <2>2, <2>3, <2>4 DEF MasksFit
    <3>2. TableFits(top)'
      BY <1>2, <2>2, <2>3, <2>4 DEF TableFits, Registering, Calling
    <3>3. QED  BY <3>1, <3>2
  <2>5. QED  BY <1>2, <2>2, <2>4, Onward
<1>4. CASE NonInterruptible
  <2>. DEFINE o == <<>>
              f == [top EXCEPT !.old = o]
  <2>1. /\ Top(f) /\ top.pc \in {"runs", "served"} /\ top.old # <<>>
        /\ alt_priority_mask' = top.old[1]
        /\ ienable' = top.old[1] \cap alt_irq_active
        /\ UNCHANGED <<alt_irq_active, handler, context, raised>>
    BY <1>4 DEF NonInterruptible, table, devices
  <2>2. o = <<>>
    OBVIOUS
  <2>. HIDE DEF o
  <2>3. f.pc = top.pc /\ f.line = top.line /\ f.old = <<>>
    BY <1>1, <2>2 DEF FrameType
  <2>. HIDE DEF f
  <2>4. depth # 1
    BY <1>1, <2>1 DEF FrameOK
  <2>5. Fits(depth, top)
    BY <2>4, TopFits
  <2>6. alt_priority_mask' = Above(depth - 1)
    BY <2>1, <2>5 DEF Fits
  <2>7. Fits(depth, f)
    BY <2>1, <2>3, <2>5 DEF Fits, Calling
  <2>8. Above(depth - 1)' = Above(depth - 1)
    BY <2>1, <2>4, <2>7, TopKept
  <2>9. ASSUME top' = f, depth' = depth PROVE MasksFit(top)' /\ TableFits(top)'
    <3>. HIDE DEF depth, top
    <3>1. MasksFit(top)'
      BY <1>2, <2>1, <2>3, <2>4, <2>6, <2>8, <2>9 DEF MasksFit
    <3>2. TableFits(top)'
      BY <1>2, <2>1, <2>3, <2>9 DEF TableFits, Registering, Calling
    <3>3. QED  BY <3>1, <3>2
  <2>10. QED  BY <1>2, <2>1, <2>7, <2>9, Onward
<1>5. QED  BY <1>3, <1>4

\* The dispatcher.
LEMMA MoveFits ==
  ASSUME IInv, Dispatching, depth # 1, NEW f, Top(f), Fits(depth, f),
         f.old = top.old, top.old = <<>> \/ f.line = top.line,
         top.pc \notin Calling, f.pc \notin Calling,
         f.pc = "call" => f.line \in alt_irq_active,
         UNCHANGED <<ienable, alt_irq_active, alt_priority_mask, handler, context,
                     raised>>
  PROVE  Dispatching'
<1>1. MasksFit(top) /\ TableFits(top) /\ raised \in Nat
  BY DEF Dispatching
<1>2. Above(depth - 1)' = Above(depth - 1)
  BY TopKept
<1>3. ASSUME top' = f, depth' = depth PROVE MasksFit(top)' /\ TableFits(top)'
  <2>. HIDE DEF depth, top
  <2>1. MasksFit(top)'
    BY <1>1, <1>2, <1>3 DEF MasksFit, Higher, Calling
  <2>2. TableFits(top)'
    BY <1>1, <1>3 DEF TableFits, Registering, Calling
  <2>3. QED  BY <2>1, <2>2
<1>4. QED  BY <1>1, <1>3, Onward

\* The line the search finds may interrupt the frame below and, as that one lets
\* itself be interrupted, every frame further below.
LEMMA FoundFits ==
  ASSUME IInv, Dispatching, depth # 1, top.pc \in {"pending", "again"}, ipending # {}
  PROVE  /\ Lowest(ipending) \in Above(depth - 1) \cap Lines \cap alt_irq_active
         /\ \A m \in 2 .. depth - 1 : Lowest(ipending) < frames[m].line
         /\ Lowest(ipending) <= Cardinality(Lines) + 1 - depth
         /\ top.old = <<>>
<1>. DEFINE l == Lowest(ipending)
<1>1. l \in Lines /\ l \in ienable
  <2>1. ipending \in SUBSET Lines
    BY DEF ipending, IInv
  <2>2. l \in ipending
    BY <2>1, LowestIs
  <2>3. QED  BY <2>1, <2>2 DEF ipending
<1>. HIDE DEF l
<1>2. Fits(depth, top) /\ MasksFit(top)
  BY TopFits DEF Dispatching
<1>3. top.old = <<>>
  BY <1>2 DEF Fits
<1>4. l \in Above(depth - 1) /\ l \in alt_irq_active
  BY <1>1, <1>2, <1>3 DEF MasksFit
<1>5. /\ Cardinality(Lines) \in Nat /\ Lines = 0 .. Cardinality(Lines) - 1
      /\ depth \in Nat /\ depth >= 2
  <2>1. Cardinality(Lines) \in Nat
    BY IrqAssumption, FS_CardinalityType
  <2>2. QED  BY <2>1, IrqAssumption, TopIs
<1>6. CASE depth = 2
  BY <1>1, <1>3, <1>4, <1>5, <1>6 DEF l
<1>7. CASE depth # 2
  <2>. DEFINE n == depth - 1
              g == frames[n]
  <2>1. n \in 2 .. depth /\ n \in 1 .. depth - 1 /\ n # 1 /\ n \in Nat
    BY <1>5, <1>7
  <2>2. Fits(n, g) /\ g.old # <<>>
    BY <2>1 DEF Dispatching, IInv, Base
  <2>3. /\ g.line \in Lines /\ g.line <= Cardinality(Lines) + 1 - n
        /\ \A m \in 2 .. n - 1 : g.line < frames[m].line
    BY <2>2 DEF Fits, Unfound
  <2>4. l < g.line
    BY <1>4, <2>1 DEF Above, Higher
  <2>5. l <= Cardinality(Lines) + 1 - depth
    BY <1>1, <1>5, <2>3, <2>4
  <2>6. ASSUME NEW m \in 2 .. depth - 1 PROVE l < frames[m].line
    <3>1. CASE m = n
      BY <2>4, <3>1
    <3>2. CASE m # n
      <4>1. m \in 2 .. n - 1 /\ m \in 2 .. depth /\ m \in 1 .. depth - 1 /\ m # 1
        BY <1>5, <3>2
      <4>2. g.line < frames[m].line
        BY <2>3, <4>1
      <4>3. frames[m].line \in Lines
        <5>1. Fits(m, frames[m]) /\ frames[m].old # <<>>
          BY <4>1 DEF Dispatching, IInv, Base
        <5>2. QED  BY <5>1 DEF Fits, Unfound
      <4>4. QED  BY <1>1, <1>5, <2>3, <2>4, <4>2, <4>3
    <3>3. QED  BY <3>1, <3>2
  <2>7. QED  BY <1>1, <1>3, <1>4, <2>5, <2>6 DEF l
<1>8. QED  BY <1>6, <1>7

LEMMA DispatchFits ==
  ASSUME IInv, Dispatching, \/ TestIrq \/ FirstPending \/ Call \/ Serve \/ Return
                            \/ NextPending
  PROVE  Dispatching'
<1>1. /\ top \in FrameType /\ FrameOK(depth, top) /\ depth # 1
      /\ top.pc \in {"test", "pending", "call", "served", "again", "runs"}
  <2>1. top \in FrameType /\ FrameOK(depth, top)
    BY TopIs
  <2>2. \/ top.pc \in {"test", "pending", "call", "served", "again"}
        \/ top.pc = "runs" /\ depth # 1
    BY DEF TestIrq, FirstPending, Call, Serve, Return, NextPending, InProgram
  <2>3. QED  BY <2>1, <2>2 DEF FrameOK, Calling
<1>2. Fits(depth, top) /\ TableFits(top) /\ MasksFit(top)
  BY <1>1, TopFits DEF Dispatching
<1>3. UNCHANGED <<ienable, alt_irq_active, alt_priority_mask, handler, context,
                  raised>>
  BY DEF TestIrq, FirstPending, Call, Serve, Return, NextPending, masks, table,
         devices
<1>4. ASSUME NEW f, Top(f), f.line = top.line, f.old = top.old,
             f.pc \in {"pending", "unknown", "lost", "runs", "served", "again",
                       "exit"},
             f.pc \in Unfound <=> top.pc \in Unfound,
             top.old = <<>> \/ f.pc \in {"runs", "served"}
      PROVE  Dispatching'
  <2>1. Fits(depth, f)
    BY <1>1, <1>4, SameFits DEF Calling
  <2>2. QED  BY <1>1, <1>3, <1>4, <2>1, MoveFits DEF Calling
<1>5. ASSUME NEW place \in {"pending", "unknown", "lost", "runs", "served", "again",
                            "exit"},
             Go(place), place \in Unfound <=> top.pc \in Unfound,
             top.old = <<>> \/ place \in {"runs", "served"}
      PROVE  Dispatching'
  <2>. DEFINE f == [top EXCEPT !.pc = place]
  <2>1. f.line = top.line /\ f.old = top.old /\ f.pc = place /\ Top(f)
    BY <1>1, <1>5 DEF FrameType, Go
  <2>. HIDE DEF f
  <2>2. QED  BY <1>4, <1>5, <2>1
<1>6. top.pc \notin {"runs", "served"} => top.old = <<>>
  BY <1>2 DEF Fits
<1>7. CASE TestIrq
  <2>1. top.pc = "test" /\ (Go("pending") \/ Go("unknown"))
    BY <1>7 DEF TestIrq
  <2>2. QED  BY <1>5, <1>6, <2>1 DEF Unfound
<1>8. CASE (FirstPending \/ NextPending) /\ ipending = {}
  <2>1. \/ top.pc = "pending" /\ Go("lost")
        \/ top.pc = "again" /\ Go("exit")
    BY <1>8 DEF FirstPending, NextPending, Go
  <2>2. QED  BY <1>5, <1>6, <2>1 DEF Unfound
<1>9. CASE (FirstPending \/ NextPending) /\ ipending # {}
  <2>. DEFINE l == Lowest(ipending)
              f == [top EXCEPT !.pc = "call", !.line = l]
  <2>1. Top(f) /\ top.pc \in {"pending", "again"}
    BY <1>9 DEF FirstPending, NextPending
  <2>2. /\ l \in Above(depth - 1) \cap Lines /\ l \in alt_irq_active
        /\ \A m \in 2 .. depth - 1 : l < frames[m].line
        /\ l <= Cardinality(Lines) + 1 - depth
        /\ top.old = <<>>
    BY <1>1, <1>9, <2>1, FoundFits
  <2>. HIDE DEF l
  <2>3. f.pc = "call" /\ f.line = l /\ f.old = top.old
    BY <1>1 DEF FrameType
  <2>. HIDE DEF f
  <2>4. Fits(depth, f)
    BY <2>2, <2>3 DEF Fits, Unfound, Calling
  <2>5. QED  BY <1>1, <1>3, <2>1, <2>2, <2>3, <2>4, MoveFits DEF Calling
<1>10. CASE Call
  <2>. DEFINE f == [top EXCEPT !.pc = "runs", !.calls = 0]
  <2>1. Top(f) /\ top.pc = "call"
    BY <1>10 DEF Call
  <2>2. f.line = top.line /\ f.old = top.old /\ f.pc = "runs"
    BY <1>1 DEF FrameType
  <2>. HIDE DEF f
  <2>3. QED  BY <1>4, <1>6, <2>1, <2>2 DEF Unfound
<1>11. CASE Serve
  BY <1>5, <1>11 DEF Serve, Unfound
<1>12. CASE Return
  BY <1>5, <1>12 DEF Return, Unfound
<1>13. QED  BY <1>7, <1>8, <1>9, <1>10, <1>11, <1>12

\* Another dispatcher on top of what lets itself be interrupted; at most one for
\* each line, as what is pending has a higher priority than all of them.
LEMMA InterruptFits == ASSUME IInv, Dispatching, Interrupt PROVE Dispatching'
<1>. DEFINE f == Frame("test", pie)
<1>1. /\ depth \in Nat /\ depth >= 1 /\ FrameOK(depth, top)
      /\ frames \in Seq(FrameType) /\ depth = Len(frames) /\ frames[depth] = top
  BY TopIs DEF IInv, depth, top
<1>2. /\ pie = TRUE /\ frames' = Append(frames, f) /\ ipending # {}
      /\ UNCHANGED <<ienable, alt_irq_active, alt_priority_mask, handler, context,
                     raised>>
  BY DEF Interrupt, IInv, masks, table, devices
<1>3. /\ f.old = <<>> /\ f.pc = "test" /\ f.line = -1
      /\ f \in FrameType
  <2>1. f = [pc |-> "test", line |-> -1, estatus |-> pie, contexts |-> <<>>,
             call |-> "none", id |-> 0, isr |-> Null, old |-> <<>>, calls |-> 0]
    BY DEF Frame
  <2>2. <<>> \in Seq(BOOLEAN) /\ <<>> \in Seq(SUBSET Lines) /\ pie \in BOOLEAN
    BY DEF IInv
  <2>. HIDE DEF f
  <2>3. QED  BY <2>1, <2>2 DEF FrameType, Pcs
<1>. HIDE DEF f
<1>4. /\ Len(frames') = depth + 1 /\ frames'[depth + 1] = f
      /\ \A n \in 1 .. depth : frames'[n] = frames[n]
  BY <1>1, <1>2, <1>3, AppendProperties
<1>5. depth' = depth + 1 /\ top' = f
  BY <1>4 DEF depth, top
<1>6. top.contexts = <<>> /\ Base(depth, top)
  BY <1>2 DEF IInv
<1>7. depth # 1 => Fits(depth, top) /\ top.pc \in {"runs", "served"}
  BY <1>6, TopFits DEF Base, Fits
<1>8. top.pc \notin Calling
  <2>1. CASE depth = 1
    <3>1. Len(top.contexts) = 0
      BY <1>6
    <3>2. QED  BY <1>1, <3>1 DEF FrameOK, Need
  <2>2. CASE depth # 1
    BY <1>7, <2>2 DEF Calling
  <2>3. QED  BY <2>1, <2>2
<1>9. /\ ienable \subseteq Lines /\ alt_irq_active \subseteq Lines
      /\ ienable = alt_irq_active \cap alt_priority_mask
      /\ alt_priority_mask = Above(depth)
  <2>1. MasksFit(top)
    BY DEF Dispatching
  <2>2. top.pc # "ienable"
    BY <1>8 DEF Calling
  <2>3. alt_priority_mask = Above(depth)
    BY <1>1, <1>6, <2>1 DEF MasksFit, Base, Above
  <2>4. QED  BY <2>1, <2>2, <2>3 DEF MasksFit
<1>10. depth' <= Cardinality(Lines) + 1
  <2>1. /\ Cardinality(Lines) \in Nat /\ Lines = 0 .. Cardinality(Lines) - 1
    BY IrqAssumption, FS_CardinalityType
  <2>2. PICK i : i \in Lines /\ i \in Above(depth)
    BY <1>2, <1>9 DEF ipending
  <2>3. CASE depth = 1
    BY <1>1, <1>5, <2>1, <2>2, <2>3
  <2>4. CASE depth # 1
    <3>1. top.line \in Lines /\ top.line <= Cardinality(Lines) + 1 - depth
      BY <1>7, <2>4 DEF Fits, Unfound
    <3>2. i < top.line
      BY <1>1, <2>2, <2>4 DEF Above, Higher
    <3>3. QED  BY <1>1, <1>5, <2>1, <2>2, <3>1, <3>2
  <2>5. QED  BY <2>3, <2>4
<1>11. TableFits(top) /\ raised \in Nat
  BY DEF Dispatching
<1>. HIDE DEF depth, top
<1>12. ASSUME NEW n \in 1 .. depth PROVE Above(n)' = Above(n)
  BY <1>2, <1>4 DEF Above, Higher
<1>13. ASSUME NEW n \in 2 .. depth + 1 PROVE Fits(n, frames[n])'
  <2>1. /\ Above(n - 1)' = Above(n - 1)
        /\ \A m \in 2 .. n - 1 : frames'[m] = frames[m]
    BY <1>1, <1>4, <1>12
  <2>2. CASE n = depth + 1
    <3>1. frames'[n] = f
      BY <1>4, <2>2
    <3>2. QED  BY <1>3, <3>1 DEF Fits, Unfound, Calling
  <2>3. CASE n # depth + 1
    <3>1. Fits(n, frames[n]) /\ frames'[n] = frames[n]
      BY <1>1, <1>4, <2>3 DEF Dispatching
    <3>2. QED  BY <2>1, <3>1 DEF Fits
  <2>4. QED  BY <2>2, <2>3
<1>14. MasksFit(top)'
  <2>1. depth' # 1 /\ depth' - 1 = depth
    BY <1>1, <1>5
  <2>2. Above(depth - 1)' = Above(depth)
    <3>1. PICK n \in 1 .. depth : n = depth
      BY <1>1
    <3>2. Above(n)' = Above(n)
      BY <1>12
    <3>3. QED  BY <2>1, <3>1, <3>2 DEF Above
  <2>3. QED  BY <1>2, <1>3, <1>5, <1>9, <2>1, <2>2 DEF MasksFit
<1>15. TableFits(top)'
  BY <1>2, <1>3, <1>5, <1>8, <1>11 DEF TableFits, Registering, Calling
<1>16. QED  BY <1>2, <1>5, <1>10, <1>11, <1>13, <1>14, <1>15 DEF Dispatching

LEMMA EretFits == ASSUME IInv, Dispatching, Eret PROVE Dispatching'
<1>1. depth \in Nat /\ depth >= 1 /\ FrameOK(depth, top)
  BY TopIs
<1>2. /\ frames' = SubSeq(frames, 1, depth - 1) /\ top.pc = "exit"
      /\ UNCHANGED <<ienable, alt_irq_active, alt_priority_mask, handler, context,
                     raised>>
  BY DEF Eret, masks, table, devices
<1>3. depth # 1
  BY <1>1, <1>2 DEF FrameOK, Calling
<1>4. /\ depth - 1 \in Nat /\ depth - 1 >= 1 /\ depth - 1 \in 1 .. depth
      /\ depth - 1 \in 1 .. depth - 1
  BY <1>1, <1>3
<1>5. /\ Len(frames') = depth - 1
      /\ \A n \in 1 .. depth - 1 : frames'[n] = frames[n]
  <2>1. frames \in Seq(FrameType) /\ depth = Len(frames)
    BY DEF IInv, depth
  <2>2. \A n \in 1 .. depth - 1 : frames[n] \in FrameType
    BY <1>1, <2>1, ElementOfSeq
  <2>3. QED  BY <1>2, <1>4, <2>1, <2>2, SubSeqProperties
<1>. DEFINE d == depth - 1
            g == frames[d]
<1>6. depth' = d /\ top' = g /\ d \in Nat /\ d >= 1
  BY <1>4, <1>5 DEF depth, top
<1>7. FrameOK(d, g) /\ g.contexts = <<>> /\ Base(d, g)
  BY <1>4 DEF IInv
<1>8. d # 1 => Fits(d, g) /\ g.pc \in {"runs", "served"} /\ g.old # <<>>
  <2>1. d # 1 => d \in 2 .. depth
    BY <1>1, <1>6
  <2>2. QED  BY <1>7, <2>1 DEF Base, Dispatching, Fits
<1>9. g.pc \in {"runs", "served"}
  <2>1. CASE d = 1
    <3>1. Len(g.contexts) = 0
      BY <1>7
    <3>2. QED  BY <1>7, <2>1, <3>1 DEF FrameOK, Need
  <2>2. CASE d # 1
    BY <1>8, <2>2
  <2>3. QED  BY <2>1, <2>2
<1>10. /\ ienable \subseteq Lines /\ alt_irq_active \subseteq Lines
       /\ ienable = alt_irq_active \cap alt_priority_mask
       /\ alt_priority_mask = Above(d)
  <2>1. MasksFit(top) /\ Fits(depth, top)
    BY <1>3, TopFits DEF Dispatching
  <2>2. top.old = <<>>
    BY <1>2, <2>1 DEF Fits
  <2>3. QED  BY <1>2, <1>3, <2>1, <2>2 DEF MasksFit
<1>11. TableFits(top) /\ raised \in Nat /\ depth <= Cardinality(Lines) + 1
  BY DEF Dispatching
<1>12. Cardinality(Lines) \in Nat
  BY IrqAssumption, FS_CardinalityType
<1>13. d <= Cardinality(Lines) + 1
  BY <1>1, <1>11, <1>12
<1>14. ASSUME NEW n \in 2 .. d PROVE Fits(n, frames[n])'
  <2>1. /\ n \in 2 .. depth /\ frames'[n] = frames[n]
        /\ \A m \in 2 .. n - 1 : frames'[m] = frames[m]
    BY <1>1, <1>5
  <2>2. Above(n - 1)' = Above(n - 1)
    <3>1. n - 1 \in 1 .. d
      BY <1>6
    <3>2. QED  BY <1>2, <1>5, <3>1 DEF Above, Higher
  <2>3. Fits(n, frames[n])
    BY <2>1 DEF Dispatching
  <2>4. QED  BY <2>1, <2>2, <2>3 DEF Fits
<1>15. d # 1 => alt_priority_mask = Higher(g.line)
  BY <1>10 DEF Above
<1>16. d = 1 => alt_priority_mask = Lines
  BY <1>10 DEF Above
<1>. HIDE DEF depth, top, d, g
<1>17. MasksFit(top)'
  <2>1. top'.pc # "ienable"
    BY <1>6, <1>9
  <2>2. Higher(top.line)' = Higher(g.line)
    BY <1>6 DEF Higher
  <2>3. depth' # 1 => top'.old # <<>>
    BY <1>6, <1>8
  <2>4. QED  BY <1>2, <1>6, <1>10, <1>15, <1>16, <2>1, <2>2, <2>3 DEF MasksFit
<1>18. TableFits(top)'
  BY <1>2, <1>6, <1>9, <1>11 DEF TableFits, Registering, Calling
<1>19. \A n \in 2 .. depth' : Fits(n, frames[n])'
  BY <1>6, <1>14
<1>20. QED  BY <1>2, <1>6, <1>11, <1>13, <1>17, <1>18, <1>19 DEF Dispatching

\* Steps of a device, and of nobody.
LEMMA OthersFit ==
  ASSUME Dispatching, raised' \in Nat,
         UNCHANGED <<ienable, alt_irq_active, alt_priority_mask, handler, context,
                     frames>>
  PROVE  Dispatching'
<1>1. depth' = depth /\ top' = top
  BY DEF depth, top
<1>. HIDE DEF depth, top
<1>2. \A n : Above(n)' = Above(n)
  BY DEF Above, Higher
<1>3. ASSUME NEW n \in 2 .. depth PROVE Fits(n, frames[n])'
  <2>1. Fits(n, frames[n]) /\ Above(n - 1)' = Above(n - 1)
    BY <1>2 DEF Dispatching
  <2>2. QED  BY <2>1 DEF Fits
<1>4. Above(depth - 1)' = Above(depth - 1)
  BY <1>1 DEF Above, Higher
<1>5. MasksFit(top) /\ TableFits(top) /\ depth <= Cardinality(Lines) + 1
  BY DEF Dispatching
<1>6. MasksFit(top)'
  BY <1>1, <1>4, <1>5 DEF MasksFit, Higher
<1>7. TableFits(top)'
  BY <1>1, <1>5 DEF TableFits, Registering
<1>8. QED  BY <1>1, <1>3, <1>5, <1>6, <1>7 DEF Dispatching

-----------------------------------------------------------------------------
LEMMA InitFits == Init => Dispatching
<1>. SUFFICES ASSUME Init PROVE Dispatching
  OBVIOUS
<1>. DEFINE f == Frame("runs", FALSE)
<1>1. depth = 1 /\ top = f
  BY DEF Init, depth, top
<1>2. f.pc = "runs"
  BY DEF Frame
<1>. HIDE DEF f, depth, top
<1>3. depth <= Cardinality(Lines) + 1
  BY <1>1, IrqAssumption, FS_CardinalityType
<1>4. MasksFit(top)
  BY <1>1, <1>2 DEF MasksFit, Init
<1>5. TableFits(top)
  BY <1>1, <1>2 DEF TableFits, Init, Calling, Registering
<1>6. \A n \in 2 .. depth : Fits(n, frames[n])
  BY <1>1
<1>7. raised \in Nat
  BY DEF Init
<1>8. QED  BY <1>3, <1>4, <1>5, <1>6, <1>7 DEF Dispatching

LEMMA DispatchingHolds == ASSUME Gentle PROVE Spec => []Dispatching
<1>1. IInv /\ Dispatching /\ [Next]_vars => Dispatching'
  <2>. SUFFICES ASSUME IInv, Dispatching, [Next]_vars PROVE Dispatching'
    OBVIOUS
  <2>1. CASE Calls
    BY <2>1, CallsFit
  <2>2. CASE GoOn
    BY <2>2, InCallFits, LeaveFits, DispatchFits, EretFits DEF GoOn
  <2>3. CASE Interrupt
    BY <2>3, InterruptFits
  <2>4. CASE Devices
    <3>1. UNCHANGED <<ienable, alt_irq_active, alt_priority_mask, handler, context,
                      frames>>
      BY <2>4 DEF Devices, Raise, Withdraw, masks, table
    <3>2. raised' \in Nat
      BY <2>4 DEF Devices, Raise, Withdraw, Dispatching
    <3>3. QED  BY <3>1, <3>2, OthersFit
  <2>5. CASE UNCHANGED vars
    BY <2>5, OthersFit DEF vars, masks, table, devices, Dispatching
  <2>6. QED  BY <2>1, <2>2, <2>3, <2>4, <2>5 DEF Next
<1>2. QED  BY <1>1, InitFits, Inductive, PTL DEF Spec

\* The dispatcher calls only what is registered, with its context, and only
\* higher priorities interrupt a routine; between calls exactly what is enabled
\* and not masked is on, and nothing stays masked in the program
\* (alt_irq_handler.c:75-155, alt_legacy_irq.h:98-140, alt_iic_isr_register.c).
\* The frames are as many as there are lines, and the program, at most.
THEOREM DispatchIsRight == ASSUME Gentle PROVE Spec => []DispatchesRight
<1>1. IInv /\ Dispatching => DispatchesRight
  <2>. SUFFICES ASSUME IInv, Dispatching PROVE DispatchesRight
    OBVIOUS
  <2>1. /\ depth \in Nat /\ depth >= 1 /\ Cardinality(Lines) \in Nat
        /\ MasksFit(top) /\ TableFits(top) /\ depth <= Cardinality(Lines) + 1
    BY TopIs, IrqAssumption, FS_CardinalityType DEF Dispatching
  <2>2. TypeOK
    <3>1. \A n \in 1 .. depth : frames[n].pc \in Pcs
      BY DEF IInv, FrameOK, FrameType
    <3>2. pie \in BOOLEAN /\ asserted \subseteq Lines /\ alt_priority_mask \subseteq Lines
      BY DEF IInv
    <3>3. raised \in Nat
      BY DEF Dispatching
    <3>. HIDE DEF depth, top
    <3>4. QED  BY <2>1, <3>1, <3>2, <3>3 DEF TypeOK, MasksFit, TableFits
  <2>3. EnabledAgree
    BY <2>1 DEF EnabledAgree, MasksFit, InProgram
  <2>4. NoWildCall
    <3>1. SUFFICES ASSUME top.pc = "call" PROVE handler[top.line] # Null /\
                                               context[top.line] = handler[top.line]
      BY DEF NoWildCall
    <3>2. top.line \in alt_irq_active /\ top.line \in Lines
      BY <2>1, <3>1 DEF TableFits, MasksFit
    <3>3. QED  BY <2>1, <3>1, <3>2 DEF TableFits, Registering
  <2>5. OnlyHigherNests
    <3>1. SUFFICES ASSUME NEW m \in 2 .. depth, NEW n \in 2 .. depth, m < n,
                          frames[n].line # -1
                   PROVE  frames[n].line < frames[m].line
      BY DEF OnlyHigherNests
    <3>2. Fits(n, frames[n]) /\ m \in 2 .. n - 1
      BY <3>1, <2>1 DEF Dispatching
    <3>3. QED  BY <3>1, <3>2 DEF Fits
  <2>6. QED  BY <2>2, <2>3, <2>4, <2>5 DEF DispatchesRight
<1>2. QED  BY <1>1, Inductive, DispatchingHolds, PTL

-----------------------------------------------------------------------------
(* The way back to the interrupted instruction.                            *)

Places == {"program", "entry", "irq", "soft", "routine", "exit", "break"}
Typed == /\ program \in [1 .. Length -> X!Kinds]
         /\ pcounter \in 1 .. Length + 1 /\ pc \in Places
         /\ ea \in Nat /\ slot72 \in Nat
         /\ interrupt \in BOOLEAN /\ registered \in BOOLEAN /\ PIE \in BOOLEAN
         /\ executed \in Seq(Nat)

\* How far the program has come, seen from the exception code: the instruction
\* an exception is about is not done, up to the exit, and at the exit the
\* frame holds the address of the first that is not.
Progress ==
  /\ pc # "exit" => Len(executed) = pcounter - 1
  /\ pc \in {"entry", "irq", "soft", "routine", "break"} =>
       pcounter <= Length /\ ea = pcounter + 1
  /\ pc = "irq" => slot72 = ea - 1
  /\ pc \in {"soft", "routine"} => slot72 = ea
  /\ pc = "exit" => /\ Len(executed) = slot72 - 1
                    /\ ea - 1 \in 1 .. Length /\ slot72 \in {ea - 1, ea}
\* A plain instruction raises no exception of its own.
Cause ==
  ~ Withdraws =>
    /\ pc = "entry" /\ program[ea - 1] = "plain" => X!Pending
    /\ pc = "soft" => program[ea - 1] # "plain"
InOrder == \A i \in 1 .. Len(executed) : executed[i] = i
ExactSoFar == /\ Typed /\ Progress /\ Cause /\ InOrder
              /\ X!BreaksOnIllegal /\ X!KeptOut

\* The next instruction completed keeps the order.
LEMMA OneMore == ASSUME executed \in Seq(Nat), InOrder,
                        NEW i \in Nat, i = Len(executed) + 1
                 PROVE  /\ Append(executed, i) \in Seq(Nat)
                        /\ Len(Append(executed, i)) = i
                        /\ \A k \in 1 .. i : Append(executed, i)[k] = k
BY AppendProperties DEF InOrder

LEMMA ExactAtFirst == ASSUME X!ExceptionsAssumption PROVE X!Init => ExactSoFar
<1>. SUFFICES ASSUME X!Init PROVE ExactSoFar
  OBVIOUS
<1>1. registered \in BOOLEAN
  <2>1. CASE Api
    BY <2>1 DEF X!Init
  <2>2. CASE ~ Api
    BY <2>2 DEF X!Init
  <2>. QED
    BY <2>1, <2>2
<1>. QED
  <2>1. executed \in Seq(Nat) /\ Len(executed) = 0
    BY DEF X!Init
  <2>2. 1 \in 1 .. Length + 1
    BY DEF X!ExceptionsAssumption
  <2>3. /\ program \in [1 .. Length -> X!Kinds] /\ pcounter = 1 /\ ea = 1
        /\ pc = "program" /\ slot72 = 1 /\ interrupt = FALSE /\ PIE = TRUE
    BY DEF X!Init
  <2>4. Typed
    <3>1. interrupt \in BOOLEAN /\ PIE \in BOOLEAN
      BY <2>3
    <3>. QED
      BY <1>1, <2>1, <2>2, <2>3, <3>1 DEF Typed, Places
  <2>5. Progress /\ InOrder
    BY <2>1, <2>3 DEF Progress, InOrder
  <2>6. Cause /\ X!BreaksOnIllegal /\ X!KeptOut
    BY <2>3 DEF Cause, X!BreaksOnIllegal, X!KeptOut
  <2>. QED
    BY <2>4, <2>5, <2>6 DEF ExactSoFar

\* The steps that complete no instruction.
LEMMA OtherSteps ==
  ASSUME X!ExceptionsAssumption, ExactSoFar,
         \/ X!Raise \/ X!Withdraw \/ X!Except \/ X!TestIrq \/ X!IrqHandler
         \/ X!Unknown \/ X!Register \/ X!SetPIE \/ X!Eret \/ X!Routine(0)
  PROVE  ExactSoFar'
<1>. USE DEF ExactSoFar, Typed, Progress, Cause, InOrder, X!BreaksOnIllegal,
             X!KeptOut, X!Pending, X!setting,
             Places, X!hist, X!InProgram, X!instruction
<1>1. CASE X!Raise
  BY <1>1 DEF X!Raise
<1>2. CASE X!Withdraw
  BY <1>2 DEF X!Withdraw
<1>3. CASE X!Except
  BY <1>3 DEF X!Except
<1>4. CASE X!TestIrq
  <2>1. CASE X!Pending
    BY <1>4, <2>1 DEF X!TestIrq
  <2>2. CASE ~ X!Pending
    BY <1>4, <2>2 DEF X!TestIrq
  <2>. QED
    BY <2>1, <2>2
<1>5. CASE X!IrqHandler
  <2>1. /\ interrupt' = FALSE /\ pc' = "exit"
        /\ UNCHANGED <<program, pcounter, ea, slot72, registered, PIE, executed>>
    BY <1>5 DEF X!IrqHandler
  <2>2. /\ ea = pcounter + 1 /\ slot72 = pcounter /\ pcounter \in 1 .. Length
        /\ Len(executed) = pcounter - 1
    BY <1>5 DEF X!IrqHandler
  <2>3. Typed'
    <3>1. interrupt' \in BOOLEAN
      BY <2>1
    <3>. QED
      BY <2>1, <3>1
  <2>4. Progress'
    BY <2>1, <2>2
  <2>5. Cause' /\ InOrder' /\ X!BreaksOnIllegal' /\ X!KeptOut'
    BY <2>1
  <2>. QED
    BY <2>3, <2>4, <2>5
<1>6. CASE X!Unknown
  <2>1. CASE registered
    BY <1>6, <2>1 DEF X!Unknown
  <2>2. CASE ~ registered
    BY <1>6, <2>2 DEF X!Unknown
  <2>. QED
    BY <2>1, <2>2
<1>7. CASE X!Register
  BY <1>7 DEF X!Register
<1>8. CASE X!Eret
  BY <1>8 DEF X!Eret, X!ExceptionsAssumption
<1>9. CASE X!Routine(0)
  BY <1>9 DEF X!Routine, X!Kinds
<1>10. CASE X!SetPIE
  BY <1>10 DEF X!SetPIE
<1>. QED
  BY <1>1, <1>2, <1>3, <1>4, <1>5, <1>6, <1>7, <1>8, <1>9, <1>10

\* The steps that complete the instruction that is next.
LEMMA Completing ==
  ASSUME X!ExceptionsAssumption, ExactSoFar,
         X!Execute \/ X!Emulate \/ X!Trap \/ X!Routine(1)
  PROVE  ExactSoFar'
<1>. USE DEF ExactSoFar, Typed, Progress, X!hist, X!InProgram, X!instruction,
             X!setting, X!KeptOut, X!Pending
<1>1. CASE X!Execute
  <2>1. pcounter \in Nat /\ pcounter = Len(executed) + 1
    BY <1>1 DEF X!Execute
  <2>2. executed' = Append(executed, pcounter)
    BY <1>1 DEF X!Execute
  <2>3. executed' \in Seq(Nat) /\ Len(executed') = pcounter /\ InOrder'
    BY <2>1, <2>2, OneMore DEF InOrder
  <2>. QED
    <3>1. /\ pc = "program" /\ pcounter' = pcounter + 1 /\ pcounter <= Length
          /\ UNCHANGED <<program, pc, ea, slot72, interrupt, registered, PIE>>
      BY <1>1 DEF X!Execute
    <3>2. Typed' /\ Progress'
      BY <2>1, <2>3, <3>1 DEF X!ExceptionsAssumption
    <3>3. Cause' /\ X!BreaksOnIllegal' /\ X!KeptOut'
      BY <3>1 DEF Cause, X!BreaksOnIllegal
    <3>. QED
      BY <2>3, <3>2, <3>3
<1>2. CASE X!Emulate \/ X!Trap \/ X!Routine(1)
  <2>1. /\ ea - 1 \in Nat /\ ea - 1 = Len(executed) + 1 /\ slot72 = ea
        /\ ea - 1 \in 1 .. Length
    BY <1>2 DEF X!Emulate, X!Trap, X!Routine
  <2>2. /\ executed' = Append(executed, ea - 1) /\ pc' = "exit"
        /\ UNCHANGED <<program, pcounter, ea, slot72, interrupt, registered,
                       PIE>>
    BY <1>2 DEF X!Emulate, X!Trap, X!Routine
  <2>3. executed' \in Seq(Nat) /\ Len(executed') = ea - 1 /\ InOrder'
    BY <2>1, <2>2, OneMore DEF InOrder
  <2>. QED
    BY <2>1, <2>2, <2>3 DEF Cause, X!BreaksOnIllegal, Places
<1>. QED
  BY <1>1, <1>2

LEMMA ExactNext == ASSUME X!ExceptionsAssumption, ExactSoFar, [X!Next]_X!vars
                   PROVE  ExactSoFar'
<1>1. CASE X!Next
  <2>1. \/ X!Raise \/ X!Withdraw \/ X!Except \/ X!TestIrq \/ X!IrqHandler
        \/ X!Unknown \/ X!Register \/ X!SetPIE \/ X!Eret \/ X!Routine(0)
        \/ X!Execute \/ X!Emulate \/ X!Trap \/ X!Routine(1)
    BY <1>1 DEF X!Next, X!Results
  <2>. QED
    BY <2>1, OtherSteps, Completing
<1>2. CASE UNCHANGED X!vars
  BY <1>2 DEF X!vars, X!hist, X!setting, ExactSoFar, Typed, Progress, Cause,
              InOrder, X!BreaksOnIllegal, X!KeptOut, X!Pending, X!instruction
<1>. QED
  BY <1>1, <1>2

LEMMA ExactIsExact == ExactSoFar => X!EachOnceInOrder
  BY DEF ExactSoFar, X!EachOnceInOrder, X!OnceInOrder, InOrder, Progress

\* Whatever exceptions and interrupts there are and whatever the registered
\* routine answers, every instruction is completed once and in order, and the
\* processor is stopped only at an instruction nobody can complete or, when an
\* interrupt was withdrawn, at one it was to interrupt; and no interrupt is
\* handled while the program keeps interrupts out
\* (alt_exception_entry.S:233-376, alt_irq_entry.S:57-110).
THEOREM NoneLostNoneTwice ==
  ASSUME X!ExceptionsAssumption PROVE X!Spec => []X!EachOnceInOrder
<1>. QED
  BY ExactAtFirst, ExactNext, ExactIsExact, PTL DEF X!Spec

\* The same of the exception code as it is checked, beside the others.
THEOREM ExceptionsAreExact == MCFairSpec => []EachOnceInOrder
<1>. DEFINE Inv == part = "exceptions" => ExactSoFar
<1>1. MCInit => Inv
  BY ExactAtFirst, ProgramAssumption DEF MCInit
<1>2. Inv /\ [MCNext]_everything => Inv'
  <2>. SUFFICES ASSUME Inv, [MCNext]_everything, part' = "exceptions"
                PROVE  ExactSoFar'
    OBVIOUS
  <2>1. part = "exceptions" /\ ExactSoFar
    BY DEF MCNext, everything
  <2>2. [X!Next]_X!vars
    <3>1. CASE MCNext
      BY <2>1, <3>1 DEF MCNext
    <3>2. CASE UNCHANGED everything
      <4>1. UNCHANGED exceptions
        BY <3>2 DEF everything
      <4>. QED
        BY <4>1 DEF exceptions, X!vars, X!hist, X!setting
    <3>. QED
      BY <3>1, <3>2
  <2>. QED
    BY <2>1, <2>2, ExactNext, ProgramAssumption
<1>3. Inv => EachOnceInOrder
  BY ExactIsExact DEF EachOnceInOrder
<1>. QED
  BY <1>1, <1>2, <1>3, PTL DEF MCFairSpec

-----------------------------------------------------------------------------
(* Arithmetic of words: the lemmas that the loops of the emulation rest on *)

LEMMA NatTimes == ASSUME NEW a \in Nat, NEW b \in Nat
                  PROVE  a * b \in Nat
OBVIOUS
LEMMA TimesMono == ASSUME NEW a \in Int, NEW b \in Int, NEW c \in Nat, a <= b
                   PROVE  c * a <= c * b
<1>1. c * (b - a) >= 0
  OBVIOUS
<1>2. c * (b - a) = c * b - c * a
  OBVIOUS
<1>. QED
  BY <1>1, <1>2

\* OnlyDivMod and remainder, and that they are the only ones.
LEMMA DivMod == ASSUME NEW n \in Int, NEW d \in Nat \ {0}
                 PROVE  /\ n \div d \in Int /\ n % d \in 0 .. d - 1
                        /\ n = d * (n \div d) + (n % d)
OBVIOUS

\* They are the only ones.
LEMMA OnlyDivMod == ASSUME NEW d \in Nat \ {0}, NEW q \in Int,
                         NEW r \in 0 .. d - 1
                  PROVE  (d * q + r) \div d = q /\ (d * q + r) % d = r
<1>. DEFINE n == d * q + r
            p == n \div d
            s == n % d
<1>1. n \in Int
  OBVIOUS
<1>. HIDE DEF n
<1>2. p \in Int /\ s \in 0 .. d - 1 /\ n = d * p + s
  BY <1>1, DivMod
<1>. HIDE DEF p, s
<1>3. p = q
  <2>1. CASE p < q
    <3>1. d * (p + 1) <= d * q
      BY <1>2, <2>1, TimesMono
    <3>2. d * (p + 1) = d * p + d
      BY <1>2
    <3>3. d * p \in Int /\ d * q \in Int
      BY <1>2
    <3>. QED
      BY <1>2, <3>1, <3>2, <3>3 DEF n
  <2>2. CASE q < p
    <3>1. d * (q + 1) <= d * p
      BY <1>2, <2>2, TimesMono
    <3>2. d * (q + 1) = d * q + d
      OBVIOUS
    <3>3. d * p \in Int /\ d * q \in Int
      BY <1>2
    <3>. QED
      BY <1>2, <3>1, <3>2, <3>3 DEF n
  <2>. QED
    BY <1>2, <2>1, <2>2
<1>4. s = r
  <2>1. d * q \in Int
    OBVIOUS
  <2>. QED
    BY <1>2, <1>3, <2>1 DEF n
<1>. QED
  BY <1>3, <1>4 DEF p, s, n

\* The least of a set of numbers.
LEMMA Least == ASSUME NEW S \in SUBSET Nat, S # {}
               PROVE  \E n \in S : \A m \in S : n <= m
<1>. DEFINE R == OpToRel(<, Nat)
<1>1. \A x, y \in Nat : x < y => <<x, y>> \in R
  BY DEF OpToRel
<1>2. IsWellFoundedOn(R, Nat)
  BY NatLessThanWellFounded
<1>. HIDE DEF R
<1>3. \E x \in S : \A y \in S : ~ (<<y, x>> \in R)
  BY <1>2, WFMin
<1>4. PICK n \in S : \A m \in S : ~ (<<m, n>> \in R)
  BY <1>3
<1>5. ASSUME NEW m \in S PROVE n <= m
  <2>1. ~ (m < n)
    BY <1>1, <1>4
  <2>. QED
    BY <2>1
<1>. QED
  BY <1>5

\* A set of numbers with 0 and every successor is all of them.
LEMMA Induction == ASSUME NEW S, 0 \in S, \A n \in Nat : n \in S => n + 1 \in S
                   PROVE  Nat \subseteq S
<1>. SUFFICES ASSUME Nat \ S # {} PROVE FALSE
  OBVIOUS
<1>1. PICK n \in Nat \ S : \A m \in Nat \ S : n <= m
  BY Least
<1>2. n # 0 /\ n - 1 \in Nat /\ ~ (n <= n - 1)
  BY <1>1
<1>3. n - 1 \in S
  BY <1>1, <1>2
<1>4. (n - 1) + 1 \in S
  BY <1>2, <1>3
<1>. QED
  BY <1>1, <1>4

Doubles(g, n) == /\ g \in [0 .. n -> Nat] /\ g[0] = 1
                 /\ \A i \in 0 .. n - 1 : g[i + 1] = 2 * g[i]
LEMMA DoublesOnce == ASSUME NEW n \in Nat, NEW m \in Nat, NEW g, NEW h,
                            Doubles(g, n), Doubles(h, m), n <= m
                     PROVE  g[n] = h[n]
<1>. DEFINE S == {i \in Nat : i <= n => g[i] = h[i]}
<1>1. 0 \in S
  BY DEF Doubles
<1>2. ASSUME NEW i \in Nat, i \in S PROVE i + 1 \in S
  <2>. SUFFICES ASSUME i + 1 <= n PROVE g[i + 1] = h[i + 1]
    OBVIOUS
  <2>1. i \in 0 .. n - 1 /\ i \in 0 .. m - 1 /\ g[i] = h[i]
    BY <1>2
  <2>. QED
    BY <2>1 DEF Doubles
<1>. HIDE DEF S
<1>3. Nat \subseteq S
  BY <1>1, <1>2, Induction
<1>. QED
  BY <1>3 DEF S
LEMMA DoublesTo == \A n \in Nat : \E g : Doubles(g, n)
<1>. DEFINE S == {n \in Nat : \E g : Doubles(g, n)}
<1>1. 0 \in S
  <2>. DEFINE g == [i \in 0 .. 0 |-> 1]
  <2>1. Doubles(g, 0)
    BY DEF Doubles
  <2>. QED
    BY <2>1
<1>2. ASSUME NEW n \in Nat, n \in S PROVE n + 1 \in S
  <2>1. PICK g : Doubles(g, n)
    BY <1>2
  <2>. DEFINE h == [i \in 0 .. n + 1 |-> IF i = n + 1 THEN 2 * g[n] ELSE g[i]]
  <2>2. g[n] \in Nat /\ n \in 0 .. n
    BY <2>1 DEF Doubles
  <2>3. h \in [0 .. n + 1 -> Nat]
    BY <2>1, <2>2 DEF Doubles
  <2>4. h[0] = 1
    BY <2>1 DEF Doubles
  <2>5. ASSUME NEW i \in 0 .. (n + 1) - 1 PROVE h[i + 1] = 2 * h[i]
    <3>1. CASE i = n
      BY <3>1
    <3>2. CASE i # n
      <4>1. i \in 0 .. n - 1 /\ i + 1 \in 0 .. n + 1 /\ i + 1 # n + 1 /\ i # n + 1
        BY <3>2
      <4>. QED
        BY <2>1, <4>1 DEF Doubles
    <3>. QED
      BY <3>1, <3>2
  <2>. HIDE DEF h
  <2>6. Doubles(h, n + 1)
    BY <2>3, <2>4, <2>5 DEF Doubles
  <2>. QED
    BY <2>6
<1>. HIDE DEF S
<1>3. Nat \subseteq S
  BY <1>1, <1>2, Induction
<1>. QED
  BY <1>3 DEF S

\* The powers of 2 are what their definition says.
LEMMA PowerIs == E!Power = [n \in Nat |-> IF n = 0 THEN 1 ELSE 2 * E!Power[n - 1]]
<1>. DEFINE G(n) == CHOOSE g : Doubles(g, n)
            p == [n \in Nat |-> G(n)[n]]
<1>1. ASSUME NEW n \in Nat PROVE Doubles(G(n), n)
  BY DoublesTo
<1>. HIDE DEF G
<1>2. p[0] = 1
  BY <1>1 DEF Doubles
<1>3. ASSUME NEW n \in Nat PROVE p[n + 1] = 2 * p[n]
  <2>1. Doubles(G(n), n) /\ Doubles(G(n + 1), n + 1)
    BY <1>1
  <2>2. G(n)[n] = G(n + 1)[n]
    BY <2>1, DoublesOnce
  <2>3. n \in 0 .. (n + 1) - 1
    OBVIOUS
  <2>4. G(n + 1)[n + 1] = 2 * G(n + 1)[n]
    BY <2>1, <2>3 DEF Doubles
  <2>. QED
    BY <2>2, <2>4
<1>4. ASSUME NEW n \in Nat PROVE p[n] = IF n = 0 THEN 1 ELSE 2 * p[n - 1]
  <2>1. CASE n = 0
    BY <1>2, <2>1
  <2>2. CASE n # 0
    <3>1. n - 1 \in Nat /\ (n - 1) + 1 = n
      BY <2>2
    <3>2. p[(n - 1) + 1] = 2 * p[n - 1]
      BY <1>3, <3>1
    <3>. QED
      BY <2>2, <3>1, <3>2
  <2>. QED
    BY <2>1, <2>2
<1>5. p = [n \in Nat |-> p[n]]
  OBVIOUS
<1>. HIDE DEF p
<1>6. p = [n \in Nat |-> IF n = 0 THEN 1 ELSE 2 * p[n - 1]]
  BY <1>4, <1>5
<1>. QED
  BY <1>6 DEF E!Power

LEMMA Powers == /\ E!Power \in [Nat -> Nat \ {0}] /\ E!Power[0] = 1
                /\ \A n \in Nat : E!Power[n + 1] = 2 * E!Power[n]
<1>1. E!Power[0] = 1 /\ \A n \in Nat : E!Power[n + 1] = 2 * E!Power[n]
  <2>1. \A n \in Nat : E!Power[n] = IF n = 0 THEN 1 ELSE 2 * E!Power[n - 1]
    BY PowerIs
  <2>. HIDE DEF E!Power
  <2>. QED
    BY <2>1
<1>. DEFINE S == {n \in Nat : E!Power[n] \in Nat \ {0}}
<1>2. 0 \in S
  BY <1>1
<1>3. ASSUME NEW n \in Nat, n \in S PROVE n + 1 \in S
  BY <1>1, <1>3
<1>. HIDE DEF S
<1>4. Nat \subseteq S
  BY <1>2, <1>3, Induction
<1>5. E!Power = [n \in Nat |-> E!Power[n]]
  BY PowerIs
<1>. QED
  BY <1>1, <1>4, <1>5 DEF S

\* The two factors of a word: the bits that are done, and those that are left.
LEMMA Factors == ASSUME NEW n \in Nat
                 PROVE  \A m \in 0 .. n : E!Power[m] * E!Power[n - m] = E!Power[n]
<1>. DEFINE S == {m \in Nat : m <= n => E!Power[m] * E!Power[n - m] = E!Power[n]}
<1>1. 0 \in S
  <2>1. E!Power[0] = 1 /\ n - 0 = n /\ E!Power[n] \in Nat
    BY Powers
  <2>. QED
    BY <2>1
<1>2. ASSUME NEW m \in Nat, m \in S PROVE m + 1 \in S
  <2>. SUFFICES ASSUME m + 1 <= n PROVE E!Power[m + 1] * E!Power[n - (m + 1)] = E!Power[n]
    OBVIOUS
  <2>1. /\ n - (m + 1) \in Nat /\ (n - (m + 1)) + 1 = n - m /\ m <= n
    OBVIOUS
  <2>2. /\ E!Power[m + 1] = 2 * E!Power[m] /\ E!Power[n - m] = 2 * E!Power[n - (m + 1)]
        /\ E!Power[m] \in Nat /\ E!Power[n - (m + 1)] \in Nat
    BY <2>1, Powers
  <2>3. E!Power[m] * E!Power[n - m] = E!Power[n]
    BY <1>2, <2>1
  <2>. DEFINE a == E!Power[m]
              b == E!Power[n - (m + 1)]
  <2>. HIDE DEF a, b
  <2>4. a \in Nat /\ b \in Nat /\ a * (2 * b) = E!Power[n]
    BY <2>2, <2>3 DEF a, b
  <2>5. (2 * a) * b = a * (2 * b)
    BY <2>4
  <2>6. (2 * a) * b = E!Power[n]
    BY <2>4, <2>5
  <2>. QED
    BY <2>2, <2>6 DEF a, b
<1>. HIDE DEF S
<1>3. Nat \subseteq S
  BY <1>1, <1>2, Induction
<1>. QED
  BY <1>3 DEF S

\* Shifting a word: of the bits that are left in it, above those that are done,
\* the highest leaves.
Bit(low, h) == IF low >= h THEN 1 ELSE 0
LEMMA Shift ==
  ASSUME NEW h \in Nat \ {0}, NEW p \in Nat \ {0}, NEW low \in Nat, NEW q \in Nat,
         low < 2 * h, q < p
  PROVE  /\ Bit(low, h) \in 0 .. 1 /\ low - Bit(low, h) * h \in 0 .. h - 1
         /\ (p * low + q >= p * h) <=> (low >= h)
         /\ (2 * (p * low + q)) % (2 * (p * h)) =
              (2 * p) * (low - Bit(low, h) * h) + 2 * q
<1>. DEFINE x == p * h
            y == p * low
            bit == Bit(low, h)
            rest == low - bit * h
            z == p * rest
<1>1. bit \in 0 .. 1 /\ rest \in 0 .. h - 1 /\ rest \in Nat /\ h - 1 \in Int
  BY DEF Bit
<1>2. z = y - bit * x
  <2>1. CASE low >= h
    <3>1. bit = 1 /\ rest = low - h
      BY <2>1 DEF Bit
    <3>2. p * (low - h) = p * low - p * h
      OBVIOUS
    <3>3. x \in Int /\ y \in Int
      OBVIOUS
    <3>. HIDE DEF x, y, bit
    <3>. QED
      BY <3>1, <3>2, <3>3 DEF x, y
  <2>2. CASE ~ (low >= h)
    <3>1. bit = 0 /\ rest = low
      BY <2>2 DEF Bit
    <3>3. x \in Int /\ y \in Int
      OBVIOUS
    <3>. HIDE DEF x, y, bit
    <3>. QED
      BY <3>1, <3>3 DEF y
  <2>. QED
    BY <2>1, <2>2
<1>. HIDE DEF bit
<1>3. x \in Nat /\ y \in Nat /\ z \in Nat
  BY <1>1, NatTimes
<1>4. p * (h - 1) = x - p
  OBVIOUS
<1>. HIDE DEF rest
<1>5. z <= x - p
  <2>1. rest <= h - 1 /\ rest \in Int
    BY <1>1
  <2>2. p * rest <= p * (h - 1)
    BY <1>1, <2>1, TimesMono
  <2>. QED
    BY <1>4, <2>2
<1>. HIDE DEF x, y, z
<1>6. (y + q >= x) <=> bit = 1
  BY <1>1, <1>2, <1>3, <1>5
<1>7. bit = 1 <=> low >= h
  BY DEF Bit, bit
<1>8. /\ 2 * x \in Nat \ {0} /\ 2 * z + 2 * q \in 0 .. 2 * x - 1
      /\ 2 * (y + q) = (2 * x) * bit + (2 * z + 2 * q)
  BY <1>1, <1>2, <1>3, <1>5
<1>9. (2 * (y + q)) % (2 * x) = 2 * z + 2 * q
  <2>. DEFINE d == 2 * x
              r == 2 * z + 2 * q
  <2>. HIDE DEF d, r
  <2>1. d \in Nat \ {0} /\ r \in 0 .. d - 1 /\ bit \in Int
    BY <1>1, <1>8 DEF d, r
  <2>2. (d * bit + r) % d = r
    BY <2>1, OnlyDivMod
  <2>. QED
    BY <1>8, <2>2 DEF d, r
<1>10. (2 * p) * rest = 2 * z
  BY <1>1 DEF z
<1>. QED
  BY <1>1, <1>6, <1>7, <1>9, <1>10 DEF x, y, rest, bit

LEMMA ShiftClear ==
  ASSUME NEW h \in Nat \ {0}, NEW p \in Nat \ {0}, NEW low \in Nat, low < 2 * h
  PROVE  /\ Bit(low, h) \in 0 .. 1 /\ low - Bit(low, h) * h \in 0 .. h - 1
         /\ (p * low + 0 >= p * h) <=> (low >= h)
         /\ (2 * (p * low + 0)) % (2 * (p * h)) =
              (2 * p) * (low - Bit(low, h) * h) + 2 * 0
<1>. DEFINE Holds(q) ==
              /\ Bit(low, h) \in 0 .. 1 /\ low - Bit(low, h) * h \in 0 .. h - 1
              /\ (p * low + q >= p * h) <=> (low >= h)
              /\ (2 * (p * low + q)) % (2 * (p * h)) =
                   (2 * p) * (low - Bit(low, h) * h) + 2 * q
<1>1. ASSUME NEW q \in Nat, q < p PROVE Holds(q)
  BY <1>1, Shift
<1>. HIDE DEF Holds
<1>2. Holds(0)
  <2>1. 0 \in Nat /\ 0 < p
    OBVIOUS
  <2>. QED
    BY <1>1, <2>1
<1>. QED
  BY <1>2, Zenon DEF Holds

\* A turn of the division: the remainder does not outgrow its word.
Brought(r, low, h) == 2 * r + Bit(low, h)
Fit(s, b) == IF s >= b THEN 1 ELSE 0
Divided(h, p, b, q, low, r) ==
  LET s == Brought(r, low, h)
      f == Fit(s, b)
  IN  /\ s < 2 * (p * h) /\ s - f * b \in 0 .. b - 1 /\ 2 * q + f < 2 * p
      /\ (2 * h) * (q * b + r) + low =
           h * ((2 * q + f) * b + (s - f * b)) + (low - Bit(low, h) * h)
LEMMA DivideOnce ==
  ASSUME NEW h \in Nat \ {0}, NEW p \in Nat \ {0}, NEW b \in Nat, NEW q \in Nat,
         NEW low \in Nat, NEW r \in Nat, low < 2 * h, q < p, r < b,
         (2 * h) * (q * b + r) + low < 2 * (p * h)
  PROVE  Divided(h, p, b, q, low, r)
<1>. DEFINE s == Brought(r, low, h)
            f == Fit(s, b)
            bit == Bit(low, h)
            d == (2 * h) * (q * b + r) + low
<1>0. /\ bit \in 0 .. 1 /\ s = 2 * r + bit /\ f = IF s >= b THEN 1 ELSE 0
      /\ f \in 0 .. 1 /\ d = (2 * h) * (q * b + r) + low /\ s \in Nat
  BY DEF Bit, Brought, Fit
<1>. HIDE DEF s, f, bit, d
<1>. DEFINE y == q * b
            x == p * h
            z == h * (y + r)
            bh == bit * h
            fb == f * b
            w == (2 * q + f) * b
<1>1. y \in Nat /\ x \in Nat
  BY NatTimes
<1>2. z \in Nat /\ y + r \in Nat
  <2>. HIDE DEF y
  <2>1. y + r \in Nat
    BY <1>1
  <2>. QED
    BY <2>1, NatTimes
<1>3. d = 2 * z + low /\ d < 2 * x
  <2>. HIDE DEF y
  <2>1. (2 * h) * (y + r) = 2 * (h * (y + r))
    BY <1>2
  <2>. QED
    BY <1>0, <2>1 DEF y, d
<1>4. y + r < p
  <2>. SUFFICES ASSUME p <= y + r PROVE FALSE
    BY <1>2
  <2>1. h * p <= h * (y + r)
    <3>. HIDE DEF y
    <3>1. y + r \in Int /\ p \in Int
      BY <1>2
    <3>. QED
      BY <3>1, TimesMono
  <2>2. h * p = p * h
    OBVIOUS
  <2>. HIDE DEF x, z
  <2>3. x <= z
    BY <2>1, <2>2 DEF x, z
  <2>. QED
    BY <1>1, <1>2, <1>3, <2>3
<1>5. p <= x
  <2>1. p * 1 <= p * h
    BY TimesMono
  <2>. QED
    BY <2>1
<1>6. w = 2 * y + fb
  BY <1>0
<1>7. h * (2 * (y + r) + bit) = 2 * z + bit * h
  <2>. HIDE DEF y
  <2>. DEFINE u == y + r
  <2>. HIDE DEF u
  <2>1. u \in Int
    BY <1>2 DEF u
  <2>2. h * (2 * u + bit) = 2 * (h * u) + bit * h
    BY <1>0, <2>1
  <2>. QED
    BY <2>2 DEF u, z
<1>8. bh \in Nat /\ fb \in Nat
  BY <1>0, NatTimes
<1>9. fb = IF s >= b THEN b ELSE 0
  BY <1>0
<1>. HIDE DEF y, x, z, bh, fb, w
<1>10. s < 2 * x
  BY <1>0, <1>1, <1>2, <1>4, <1>5
<1>11. s - fb \in 0 .. b - 1
  BY <1>0, <1>10, <1>9
<1>12. w + (s - fb) = 2 * (y + r) + bit
  BY <1>0, <1>1, <1>6, <1>8
<1>13. d = h * (w + (s - fb)) + (low - bh)
  <2>1. h * (w + (s - fb)) = 2 * z + bh
    BY <1>7, <1>12 DEF bh
  <2>. QED
    BY <1>2, <1>3, <1>8, <2>1
<1>14. 2 * q + f < 2 * p
  BY <1>0
<1>. QED
  BY <1>10, <1>11, <1>13, <1>14 DEF x, fb, bh, w, s, f, bit, d, Divided

\* A turn of the multiplication for the lower half: the product with the upper
\* bits of the multiplier, as far as a word goes.
RestOf(a, hi, m, r) == \E c \in Int : a * hi = m * c + r
LEMMA LowerOnce ==
  ASSUME NEW m \in Nat \ {0}, NEW a \in Nat, NEW hi \in Nat, NEW r \in Nat,
         RestOf(a, hi, m, r), NEW bit \in 0 .. 1
  PROVE  RestOf(a, 2 * hi + bit, m, (((2 * r) % m) + bit * a) % m)
<1>. PICK c \in Int : a * hi = m * c + r
  BY DEF RestOf
<1>. DEFINE y == a * hi
            v == (2 * r) % m
            c1 == (2 * r) \div m
            u == v + bit * a
            c2 == u \div m
<1>1. v \in Nat /\ c1 \in Int /\ 2 * r = m * c1 + v
  <2>. DEFINE n == 2 * r
  <2>1. n \in Int
    OBVIOUS
  <2>. HIDE DEF n
  <2>2. n \div m \in Int /\ n % m \in 0 .. m - 1 /\ n = m * (n \div m) + (n % m)
    BY <2>1, DivMod
  <2>. QED
    BY <2>2 DEF n
<1>2. bit * a \in Nat /\ y \in Nat
  BY NatTimes
<1>3. a * (2 * hi + bit) = 2 * y + bit * a
  OBVIOUS
<1>. DEFINE ba == bit * a
<1>. HIDE DEF v, c1, ba
<1>4. u \in Nat
  BY <1>1, <1>2 DEF ba
<1>. HIDE DEF u
<1>5. c2 \in Int /\ u % m \in Nat /\ u = m * c2 + (u % m)
  <2>1. u \in Int
    BY <1>4
  <2>2. u \div m \in Int /\ u % m \in 0 .. m - 1
    BY <2>1, DivMod
  <2>3. u = m * (u \div m) + (u % m)
    BY <2>1, DivMod
  <2>. QED
    BY <2>2, <2>3
<1>. HIDE DEF c2
<1>6. m * (2 * c + c1 + c2) = 2 * (m * c) + m * c1 + m * c2
  BY <1>1, <1>5
<1>. DEFINE mc == m * c
            mc1 == m * c1
            mc2 == m * c2
            t == u % m
<1>7. mc \in Int /\ mc1 \in Int /\ mc2 \in Int
  BY <1>1, <1>5
<1>. HIDE DEF y, mc, mc1, mc2, t
<1>8. 2 * y + ba = 2 * mc + mc1 + mc2 + t
  <2>1. y = mc + r
    BY DEF y, mc
  <2>2. 2 * r = mc1 + v
    BY <1>1 DEF mc1
  <2>3. v + ba = mc2 + t
    BY <1>5 DEF u, mc2, t, ba
  <2>4. ba \in Nat /\ t \in Nat /\ y \in Nat
    BY <1>2, <1>5 DEF ba, t, y
  <2>. QED
    BY <1>1, <1>7, <2>1, <2>2, <2>3, <2>4
<1>9. a * (2 * hi + bit) = m * (2 * c + c1 + c2) + t
  BY <1>3, <1>6, <1>8 DEF ba, mc, mc1, mc2
<1>10. 2 * c + c1 + c2 \in Int
  BY <1>1, <1>5
<1>. QED
  BY <1>9, <1>10 DEF t, u, v, ba, RestOf

\* A turn for the upper half: the carry comes back as the upper bit.
Carried(x, a, r, bit) ==
  LET sum == (r + (bit * a)) % (2 * x)
  IN  sum \div 2 + (IF bit = 1 /\ sum < a THEN x ELSE 0) = (r + (bit * a)) \div 2
LEMMA UpperOnce ==
  ASSUME NEW x \in Nat \ {0}, NEW a \in 0 .. 2 * x - 1, NEW r \in 0 .. 2 * x - 1,
         NEW bit \in 0 .. 1
  PROVE  Carried(x, a, r, bit)
<1>. DEFINE sum == (r + (bit * a)) % (2 * x)
<1>. SUFFICES sum \div 2 + (IF bit = 1 /\ sum < a THEN x ELSE 0) = (r + (bit * a)) \div 2
  BY DEF Carried
<1>0. sum = (r + (bit * a)) % (2 * x)
  OBVIOUS
<1>. HIDE DEF sum
<1>. DEFINE ba == bit * a
            s == r + ba
            m == 2 * x
<1>1. ba = IF bit = 1 THEN a ELSE 0
  OBVIOUS
<1>. HIDE DEF ba
<1>2. s \in Nat /\ m \in Nat \ {0} /\ s < m + m
  BY <1>1
<1>3. CASE s < m
  <2>1. m * 0 = 0 /\ s \in 0 .. m - 1
    BY <1>2, <1>3
  <2>. HIDE DEF m, s
  <2>2. (m * 0 + s) % m = s
    BY <1>2, <2>1, OnlyDivMod
  <2>3. sum = s
    BY <1>0, <1>2, <2>1, <2>2 DEF s, m, ba
  <2>4. ~ (bit = 1 /\ sum < a)
    BY <1>1, <2>3 DEF s
  <2>. QED
    BY <2>3, <2>4, <1>2 DEF s, ba
<1>4. CASE ~ (s < m)
  <2>1. m * 1 = m /\ s - m \in 0 .. m - 1 /\ bit = 1
    BY <1>1, <1>2, <1>4
  <2>. HIDE DEF m, s
  <2>2. (m * 1 + (s - m)) % m = s - m
    BY <1>2, <2>1, OnlyDivMod
  <2>3. m * 1 + (s - m) = s
    BY <1>2, <2>1
  <2>4. sum = s - m
    BY <1>0, <2>2, <2>3 DEF s, m, ba
  <2>5. sum < a
    BY <1>1, <2>1, <2>4 DEF s, m
  <2>6. (s - m) \div 2 + x = s \div 2
    BY <1>2 DEF m
  <2>. QED
    BY <2>1, <2>4, <2>5, <2>6 DEF s, ba
<1>. QED
  BY <1>3, <1>4

\* The lower bits of the multiplier, and the product with them.
UpperIs(p, a, b, n, r) ==
  \E lob, t \in 0 .. p - 1 : b = p * n + lob /\ a * lob = p * r + t
LEMMA LowerBits ==
  ASSUME NEW p \in Nat \ {0}, NEW a \in Nat, NEW b \in Nat, NEW n \in Nat,
         NEW r \in Nat, UpperIs(p, a, b, n, r)
  PROVE  UpperIs(2 * p, a, b, n \div 2, (r + ((n % 2) * a)) \div 2)
<1>. PICK lob \in 0 .. p - 1, t \in 0 .. p - 1 : b = p * n + lob /\ a * lob = p * r + t
  BY DEF UpperIs
<1>. DEFINE bit == n % 2
            h == n \div 2
            s == r + bit * a
            v == s \div 2
            e == s % 2
<1>1. h \in Nat /\ bit \in 0 .. 1 /\ n = 2 * h + bit
  OBVIOUS
<1>. HIDE DEF bit, h
<1>2. s \in Nat
  <2>1. bit * a \in Nat
    BY <1>1, NatTimes
  <2>. QED
    BY <2>1
<1>. HIDE DEF s
<1>3. v \in Nat /\ e \in 0 .. 1 /\ s = 2 * v + e
  BY <1>2
<1>. HIDE DEF v, e
<1>. DEFINE lob2 == lob + bit * p
            t2 == p * e + t
<1>4. lob2 \in 0 .. 2 * p - 1
  <2>1. bit * p = IF bit = 1 THEN p ELSE 0
    BY <1>1
  <2>. QED
    BY <2>1, <1>1
<1>5. t2 \in 0 .. 2 * p - 1
  <2>1. p * e = IF e = 1 THEN p ELSE 0
    BY <1>3
  <2>. QED
    BY <2>1, <1>3
<1>6. b = (2 * p) * h + lob2
  <2>1. p * (2 * h + bit) = (2 * p) * h + bit * p
    BY <1>1
  <2>. DEFINE y == (2 * p) * h
              z == bit * p
  <2>2. y \in Int /\ z \in Int
    BY <1>1
  <2>. HIDE DEF y, z
  <2>3. p * n = y + z
    BY <1>1, <2>1 DEF y, z
  <2>. QED
    BY <2>2, <2>3 DEF y, z
<1>7. a * lob2 = (2 * p) * v + t2
  <2>1. a * lob2 = a * lob + p * (bit * a)
    <3>1. a * (lob + bit * p) = a * lob + a * (bit * p)
      BY <1>1
    <3>2. a * (bit * p) = p * (bit * a)
      BY <1>1
    <3>. QED
      BY <3>1, <3>2
  <2>2. p * (r + bit * a) = p * r + p * (bit * a)
    BY <1>1
  <2>3. p * s = p * r + p * (bit * a)
    BY <2>2 DEF s
  <2>4. p * s = (2 * p) * v + p * e
    <3>1. p * (2 * v + e) = (2 * p) * v + p * e
      BY <1>3
    <3>. QED
      BY <1>3, <3>1
  <2>. DEFINE y == p * s
              z == (2 * p) * v
              w == p * e
              u == p * r
              k == p * (bit * a)
  <2>5. y \in Int /\ z \in Int /\ w \in Int /\ u \in Int
    BY <1>2, <1>3
  <2>6. k \in Int
    <3>1. bit * a \in Int
      BY <1>1
    <3>. QED
      BY <3>1
  <2>7. a * lob2 = (u + t) + k
    BY <2>1
  <2>. HIDE DEF y, z, w, u, k, lob2
  <2>8. y = u + k /\ y = z + w
    BY <2>3, <2>4 DEF y, z, w, u, k
  <2>9. a * lob2 = z + (w + t)
    BY <2>5, <2>6, <2>7, <2>8
  <2>. QED
    BY <2>9 DEF z, w
<1>. QED
  BY <1>4, <1>5, <1>6, <1>7 DEF v, s, h, bit, UpperIs
\* The rest does not change by whole multiples.
LEMMA SameRest == ASSUME NEW m \in Nat \ {0}, NEW n \in Int, NEW k \in Int
                  PROVE  /\ (n + m * k) % m = n % m
                         /\ (n + m * k) \div m = (n \div m) + k
<1>. DEFINE q == n \div m
            r == n % m
<1>1. q \in Int /\ r \in 0 .. m - 1 /\ n = m * q + r
  BY DivMod
<1>. HIDE DEF q, r
<1>2. m * (q + k) = m * q + m * k
  BY <1>1
<1>3. n + m * k = m * (q + k) + r
  <2>. DEFINE y == m * q
              z == m * k
  <2>1. y \in Int /\ z \in Int
    BY <1>1
  <2>. HIDE DEF y, z
  <2>2. m * (q + k) = y + z /\ n = y + r
    BY <1>1, <1>2 DEF y, z
  <2>. QED
    BY <1>1, <2>1, <2>2 DEF z
<1>4. q + k \in Int
  BY <1>1
<1>5. (m * (q + k) + r) \div m = q + k /\ (m * (q + k) + r) % m = r
  BY <1>1, <1>4, OnlyDivMod
<1>. QED
  BY <1>3, <1>5 DEF q, r

-----------------------------------------------------------------------------
(* The emulation *)

\* The registers the emulation loads again.
Loaded == {"r2", "r16", "fp", "ra"}
OperandA == slot[instr.a]
OperandB == IF instr.op = "muli" THEN instr.imm ELSE slot[instr.b]
\* Of the dividend, the bits that are done are the quotient's times the divisor
\* and the remainder; the others lie above the quotient's.
DivideLoop ==
  /\ r6 = E!Absolute(instr.op = "div", OperandB)
  /\ r17 = (instr.op = "div" /\ E!Msb(OperandA) # E!Msb(OperandB))
  /\ r6 # 0 =>
       \E q, low \in Nat :
         /\ low < E!Power[r14] /\ q < E!Power[Width - r14]
         /\ r3 = E!Power[Width - r14] * low + q
         /\ E!Absolute(instr.op = "div", OperandA) =
              E!Power[r14] * (q * r6 + r13) + low
         /\ r13 < r6
\* Of the multiplier, the upper bits are in the lower product and the lower ones
\* in the upper product.
LowerLoop ==
  \E hi, lo \in Nat :
    /\ lo < E!Power[r14]
    /\ r11 = E!Power[r14] * hi + lo /\ r6 = E!Power[Width - r14] * lo
    /\ RestOf(r3, hi, E!Modulus, r9)
UpperLoop == UpperIs(E!Power[Width - r14], r3, r11, r12, r10)
MultiplyLoop ==
  r3 = OperandA /\ r11 = OperandB /\ LowerLoop /\ UpperLoop
EmulationInv ==
  /\ E!TypeOK
  /\ <<instr, before>> \in Met
  /\ pc # "returned" => regs = before
  /\ pc \in {"operands", "divide", "multiply"} =>
       \A r \in E!Saved : slot[r] = before[r]
  /\ pc \in {"divide", "multiply"} => instr.op # "other"
  /\ pc = "divide" => E!Divides /\ DivideLoop
  /\ pc = "multiply" => ~ E!Divides /\ MultiplyLoop
  /\ pc = "restore" /\ E!Supported /\ E!Defined =>
       \A r \in Loaded : slot[r] = IF r = E!Destination
                                   THEN E!Meaning(instr.op, E!Left, E!Right)
                                   ELSE before[r]
  /\ E!Emulates

LEMMA WordIs == /\ Width \in Nat \ {0} /\ Width - 1 \in Nat
                /\ E!Power[Width - 1] \in Nat \ {0}
                /\ E!Modulus = 2 * E!Power[Width - 1] /\ E!Modulus \div 2 = E!Power[Width - 1]
                /\ E!Modulus \in Nat \ {0} /\ E!Word = 0 .. E!Modulus - 1
                /\ E!Word \subseteq Nat /\ 0 \in E!Word /\ 1 \in E!Word
<1>1. Width \in Nat \ {0} /\ Width - 1 \in Nat /\ (Width - 1) + 1 = Width
  BY RegistersAssumption DEF E!MulDivAssumption
<1>. DEFINE h == E!Power[Width - 1]
<1>2. h \in Nat \ {0}
  BY <1>1, Powers
<1>3. E!Modulus = 2 * h
  <2>1. E!Power[(Width - 1) + 1] = 2 * E!Power[Width - 1]
    BY <1>1, Powers
  <2>. QED
    BY <1>1, <2>1 DEF E!Modulus
<1>. HIDE DEF h
<1>4. E!Modulus \div 2 = h /\ E!Modulus \in Nat \ {0}
  BY <1>2, <1>3
<1>5. E!Word = 0 .. E!Modulus - 1
  BY DEF E!Word
<1>6. E!Word \subseteq Nat /\ 0 \in E!Word /\ 1 \in E!Word
  BY <1>2, <1>3, <1>5
<1>. QED
  BY <1>1, <1>2, <1>3, <1>4, <1>5, <1>6 DEF h

\* Words stay words.
LEMMA RestIsWord == ASSUME NEW n \in Int PROVE n % E!Modulus \in E!Word
<1>1. n % E!Modulus \in 0 .. E!Modulus - 1
  BY WordIs, DivMod
<1>. QED
  BY <1>1, WordIs

LEMMA NegatedIs == ASSUME NEW w \in E!Word
                   PROVE  E!Negated(w) = IF w = 0 THEN 0 ELSE E!Modulus - w
<1>. DEFINE m == E!Modulus
<1>1. m \in Nat \ {0} /\ w \in 0 .. m - 1
  BY WordIs
<1>. HIDE DEF m
<1>2. CASE w = 0
  <2>1. (m * 0 + 0) % m = 0 /\ m * 0 + 0 = 0 /\ 0 - w = 0
    BY <1>1, <1>2, OnlyDivMod
  <2>. QED
    BY <1>2, <2>1 DEF E!Negated, E!Minus, m
<1>3. CASE w # 0
  <2>1. m - w \in 0 .. m - 1 /\ -1 \in Int
    BY <1>1, <1>3
  <2>2. (m * (-1) + (m - w)) % m = m - w
    BY <1>1, <2>1, OnlyDivMod
  <2>3. m * (-1) + (m - w) = 0 - w
    BY <1>1
  <2>. QED
    BY <1>3, <2>2, <2>3 DEF E!Negated, E!Minus, m
<1>. QED
  BY <1>2, <1>3

\* The operands of a division lose their sign.
LEMMA AbsoluteIs == ASSUME NEW w \in E!Word
                    PROVE  /\ E!Absolute(TRUE, w) = E!Abs(E!Signed(w))
                           /\ E!Absolute(FALSE, w) = w
                           /\ \A s \in BOOLEAN : /\ E!Absolute(s, w) \in E!Word
                                                 /\ (E!Absolute(s, w) = 0 <=> w = 0)
<1>. DEFINE m == E!Modulus
<1>. DEFINE h == E!Power[Width - 1]
<1>1. /\ m \in Nat \ {0} /\ w \in 0 .. m - 1 /\ h \in Nat \ {0} /\ m = 2 * h
      /\ m \div 2 = h
  BY WordIs
<1>2. E!Word = 0 .. m - 1
  BY WordIs
<1>3. E!Msb(w) <=> w >= h
  BY <1>1 DEF E!Msb
<1>4. E!Signed(w) = IF w >= h THEN w - m ELSE w
  BY <1>3 DEF E!Signed
<1>5. E!Negated(w) = IF w = 0 THEN 0 ELSE m - w
  BY NegatedIs
<1>. HIDE DEF m, h
<1>. DEFINE t == E!Absolute(TRUE, w)
            f == E!Absolute(FALSE, w)
<1>6. f = w
  BY DEF E!Absolute
<1>7. t = IF w >= h THEN m - w ELSE w
  BY <1>1, <1>3, <1>5 DEF E!Absolute
<1>8. E!Abs(E!Signed(w)) = IF w >= h THEN m - w ELSE w
  BY <1>1, <1>4 DEF E!Abs
<1>. HIDE DEF t, f
<1>9. t \in E!Word /\ (t = 0 <=> w = 0) /\ f \in E!Word /\ (f = 0 <=> w = 0)
  BY <1>1, <1>2, <1>6, <1>7
<1>10. ASSUME NEW s \in BOOLEAN
       PROVE  E!Absolute(s, w) \in E!Word /\ (E!Absolute(s, w) = 0 <=> w = 0)
  <2>1. CASE s = TRUE
    BY <1>9, <2>1 DEF t
  <2>2. CASE s = FALSE
    BY <1>9, <2>2 DEF f
  <2>. QED
    BY <2>1, <2>2
<1>11. t = E!Abs(E!Signed(w))
  BY <1>7, <1>8
<1>. QED
  BY <1>6, <1>10, <1>11 DEF t, f

\* The operands are words, and those of the instruction if it is supported.
LEMMA OperandsAre ==
  ASSUME EmulationInv, instr.op # "other"
  PROVE  /\ OperandA \in E!Word /\ OperandB \in E!Word
         /\ E!Left \in E!Word /\ E!Right \in E!Word
         /\ E!Supported /\ pc \in {"operands", "divide", "multiply"} =>
              OperandA = E!Left /\ OperandB = E!Right
<1>1. /\ instr \in E!Instr /\ slot \in [E!Reg -> E!Word] /\ before \in [E!Reg -> E!Word]
  BY DEF EmulationInv, E!TypeOK
<1>2. instr.a \in E!Reg /\ instr.b \in E!Reg /\ instr.imm \in E!Word
  BY <1>1 DEF E!Instr
<1>3. OperandA \in E!Word /\ OperandB \in E!Word /\ E!Left \in E!Word /\ E!Right \in E!Word
  BY <1>1, <1>2 DEF OperandA, OperandB, E!Left, E!Right
<1>4. ASSUME E!Supported, pc \in {"operands", "divide", "multiply"}
      PROVE  OperandA = E!Left /\ OperandB = E!Right
  <2>1. \A r \in E!Saved : slot[r] = before[r]
    BY <1>4 DEF EmulationInv
  <2>2. instr.a \in E!Saved /\ (instr.op # "muli" => instr.b \in E!Saved)
    BY <1>2, <1>4 DEF E!Supported, E!Reads, E!Saved, E!Reg
  <2>. QED
    BY <2>1, <2>2 DEF OperandA, OperandB, E!Left, E!Right
<1>. QED
  BY <1>3, <1>4

LEMMA EmulationInit == E!Init => EmulationInv
<1>. SUFFICES ASSUME E!Init PROVE EmulationInv
  OBVIOUS
<1>0. PICK m \in Met : instr = m[1] /\ before = m[2]
  BY DEF E!Init
<1>1. /\ <<instr, before>> \in Met /\ regs = before
      /\ slot = [r \in E!Reg |-> 0] /\ pc = "runs"
      /\ r3 = 0 /\ r6 = 0 /\ r9 = 0 /\ r10 = 0 /\ r11 = 0 /\ r12 = 0 /\ r13 = 0
      /\ r14 = 0 /\ r17 = FALSE
  <2>1. m = <<m[1], m[2]>>
    BY RegistersAssumption DEF E!MulDivAssumption
  <2>. QED
    BY <1>0, <2>1 DEF E!Init
<1>2. instr \in E!Instr /\ before \in [E!Reg -> E!Word]
  BY <1>1, RegistersAssumption DEF E!MulDivAssumption
<1>3. 0 \in E!Word /\ 0 \in 0 .. Width
  BY WordIs
<1>4. E!TypeOK
  BY <1>1, <1>2, <1>3 DEF E!TypeOK
<1>. QED
  BY <1>1, <1>4 DEF EmulationInv, E!Emulates

LEMMA SaveStep == ASSUME EmulationInv, E!Save PROVE EmulationInv'
<1>1. /\ pc = "runs" /\ pc' = "operands" /\ regs = before
      /\ UNCHANGED <<instr, before, regs, E!loop>>
  BY DEF E!Save, EmulationInv
<1>2. PICK stale \in {0, 1} :
        slot' = [r \in E!Reg |->
                   CASE r = "sp"     -> E!Minus(regs["sp"], PushedBytes)
                     [] r \in E!Saved  -> regs[r]
                     [] OTHER        -> stale]
  BY DEF E!Save
<1>3. E!TypeOK
  BY DEF EmulationInv
<1>4. slot' \in [E!Reg -> E!Word]
  <2>1. E!Minus(regs["sp"], PushedBytes) \in E!Word
    <3>1. regs["sp"] \in E!Word /\ PushedBytes \in E!Word
      BY <1>3, RegistersAssumption DEF E!TypeOK, E!MulDivAssumption, E!Reg
    <3>2. regs["sp"] - PushedBytes \in Int
      BY <3>1, WordIs
    <3>. QED
      BY <3>2, RestIsWord DEF E!Minus
  <2>2. stale \in E!Word
    BY WordIs
  <2>3. \A r \in E!Reg : regs[r] \in E!Word
    BY <1>3 DEF E!TypeOK
  <2>4. ASSUME NEW r \in E!Reg PROVE slot'[r] \in E!Word
    <3>1. slot'[r] = CASE r = "sp"     -> E!Minus(regs["sp"], PushedBytes)
                       [] r \in E!Saved  -> regs[r]
                       [] OTHER        -> stale
      BY <1>2
    <3>2. CASE r = "sp"
      BY <2>1, <3>1, <3>2 DEF E!Saved
    <3>3. CASE r # "sp" /\ r \in E!Saved
      BY <2>3, <3>1, <3>3
    <3>4. CASE r # "sp" /\ r \notin E!Saved
      BY <2>2, <3>1, <3>4
    <3>. QED
      BY <3>2, <3>3, <3>4
  <2>5. slot' = [r \in E!Reg |-> slot'[r]]
    BY <1>2
  <2>. QED
    BY <2>4, <2>5
<1>5. ASSUME NEW r \in E!Saved PROVE slot'[r] = before[r]
  <2>1. r \in E!Reg /\ r \in E!Saved /\ r # "sp"
    BY DEF E!Reg, E!Saved
  <2>2. slot'[r] = CASE r = "sp"     -> E!Minus(regs["sp"], PushedBytes)
                     [] r \in E!Saved  -> regs[r]
                     [] OTHER        -> stale
    BY <1>2, <2>1
  <2>. QED
    BY <1>1, <2>1, <2>2
<1>6. E!TypeOK'
  BY <1>1, <1>3, <1>4 DEF E!TypeOK, E!loop
<1>7. <<instr, before>>' \in Met
  BY <1>1 DEF EmulationInv
<1>. QED
  BY <1>1, <1>5, <1>6, <1>7 DEF EmulationInv, E!Emulates

LEMMA OperandsStep == ASSUME EmulationInv, E!Operands PROVE EmulationInv'
<1>. DEFINE signed == instr.op = "div"
<1>1. /\ pc = "operands" /\ instr.op # "other"
      /\ r3' = E!Absolute(signed, OperandA) /\ r6' = E!Absolute(signed, OperandB)
      /\ r17' = (signed /\ E!Msb(OperandA) # E!Msb(OperandB))
      /\ r11' = OperandB /\ r12' = OperandB
      /\ r9' = 0 /\ r10' = 0 /\ r13' = 0 /\ r14' = Width
      /\ pc' = IF E!Divides THEN "divide" ELSE "multiply"
      /\ UNCHANGED <<instr, before, regs, slot>>
  BY DEF E!Operands, OperandA, OperandB
<1>2. OperandA \in E!Word /\ OperandB \in E!Word
  BY <1>1, OperandsAre
<1>3. r3' \in E!Word /\ r6' \in E!Word /\ (r6' = 0 <=> OperandB = 0) /\ signed \in BOOLEAN
  BY <1>1, <1>2, AbsoluteIs
<1>4. 0 \in E!Word /\ Width \in 0 .. Width /\ E!Word \subseteq Nat
      /\ E!Word = 0 .. E!Modulus - 1 /\ E!Modulus \in Nat
  BY WordIs
<1>5. E!TypeOK'
  <2>1. E!TypeOK /\ r17' \in BOOLEAN
    BY <1>1 DEF EmulationInv
  <2>. QED
    BY <1>1, <1>2, <1>3, <1>4, <2>1 DEF E!TypeOK
<1>6. OperandA' = OperandA /\ OperandB' = OperandB /\ E!Divides' = E!Divides
  BY <1>1 DEF OperandA, OperandB, E!Divides
<1>7. E!Power[0] = 1 /\ Width - Width = 0 /\ E!Power[Width] = E!Modulus
  BY Powers, WordIs DEF E!Modulus
<1>8. CASE E!Divides
  <2>. DEFINE d == E!Absolute(signed, OperandA)
  <2>1. d \in Nat /\ d < E!Modulus /\ d = r3'
    BY <1>1, <1>3, <1>4
  <2>2. E!Modulus * (0 * r6' + 0) + d = d /\ 1 * d + 0 = d
    BY <1>3, <1>4, <2>1
  <2>3. r6' # 0 => 0 < r6'
    BY <1>3, <1>4
  <2>4. r6' # 0 =>
          \E q, low \in Nat :
            /\ low < E!Power[r14'] /\ q < E!Power[Width - r14']
            /\ r3' = E!Power[Width - r14'] * low + q
            /\ d = E!Power[r14'] * (q * r6' + r13') + low
            /\ r13' < r6'
    <3>. SUFFICES ASSUME r6' # 0
                  PROVE  /\ d < E!Power[r14'] /\ 0 < E!Power[Width - r14']
                         /\ r3' = E!Power[Width - r14'] * d + 0
                         /\ d = E!Power[r14'] * (0 * r6' + r13') + d
                         /\ r13' < r6'
      BY <2>1
    <3>1. r14' = Width /\ r13' = 0 /\ Width - r14' = 0
      BY <1>1, <1>7
    <3>. QED
      BY <1>7, <2>1, <2>2, <2>3, <3>1
  <2>. HIDE DEF d
  <2>5. d = E!Absolute(instr'.op = "div", OperandA')
    BY <1>1, <1>6 DEF d
  <2>6. r6' = E!Absolute(instr'.op = "div", OperandB')
        /\ r17' = (instr'.op = "div" /\ E!Msb(OperandA') # E!Msb(OperandB'))
    BY <1>1, <1>6
  <2>7. DivideLoop'
    BY <2>4, <2>5, <2>6 DEF DivideLoop
  <2>8. pc' = "divide"
    BY <1>1, <1>8
  <2>. QED
    BY <1>1, <1>5, <1>6, <1>8, <2>7, <2>8 DEF EmulationInv, E!Emulates
<1>9. CASE ~ E!Divides
  <2>1. r3' = OperandA /\ r6' = OperandB
    <3>1. signed = FALSE
      BY <1>9 DEF E!Divides
    <3>. QED
      BY <1>1, <1>2, <3>1, AbsoluteIs
  <2>2. r3' \in Nat /\ r6' \in Nat /\ r6' < E!Modulus
    BY <1>3, <1>4
  <2>3. LowerLoop'
    <3>1. /\ r6' < E!Power[r14'] /\ r11' = E!Power[r14'] * 0 + r6'
          /\ r6' = E!Power[Width - r14'] * r6' /\ r3' * 0 = E!Modulus * 0 + r9'
      BY <1>1, <1>4, <1>7, <2>1, <2>2
    <3>2. \E hi, lo \in Nat :
            /\ lo < E!Power[r14']
            /\ r11' = E!Power[r14'] * hi + lo /\ r6' = E!Power[Width - r14'] * lo
            /\ \E c \in Int : r3' * hi = E!Modulus * c + r9'
      BY <2>2, <3>1
    <3>. QED
      BY <3>2 DEF LowerLoop, RestOf
  <2>4. UpperLoop'
    <3>1. /\ r11' = E!Power[Width - r14'] * r12' + 0
          /\ r3' * 0 = E!Power[Width - r14'] * r10' + 0
          /\ 0 \in 0 .. E!Power[Width - r14'] - 1
      BY <1>1, <1>7, <2>1, <2>2
    <3>2. \E lob, t \in 0 .. E!Power[Width - r14'] - 1 :
            /\ r11' = E!Power[Width - r14'] * r12' + lob
            /\ r3' * lob = E!Power[Width - r14'] * r10' + t
      BY <3>1
    <3>. QED
      BY <3>2 DEF UpperLoop, UpperIs
  <2>5. MultiplyLoop'
    BY <1>1, <1>6, <2>1, <2>3, <2>4 DEF MultiplyLoop
  <2>6. pc' = "multiply"
    BY <1>1, <1>9
  <2>. QED
    BY <1>1, <1>5, <1>6, <1>9, <2>5, <2>6 DEF EmulationInv, E!Emulates
<1>. QED
  BY <1>8, <1>9

\* What one turn of a loop shifts.
LEMMA TurnIs ==
  ASSUME E!TypeOK, r14 > 0
  PROVE  /\ r14 - 1 \in 0 .. Width
         /\ E!Power[Width - r14] \in Nat \ {0} /\ E!Power[r14 - 1] \in Nat \ {0}
         /\ E!Power[r14] = 2 * E!Power[r14 - 1]
         /\ E!Power[Width - (r14 - 1)] = 2 * E!Power[Width - r14]
         /\ E!Power[Width - r14] * E!Power[r14 - 1] = E!Power[Width - 1]
         /\ E!Modulus = 2 * (E!Power[Width - r14] * E!Power[r14 - 1])
<1>1. /\ r14 - 1 \in Nat /\ Width - r14 \in Nat /\ (r14 - 1) + 1 = r14
      /\ (Width - r14) + 1 = Width - (r14 - 1) /\ r14 - 1 \in 0 .. Width
      /\ Width - 1 \in Nat /\ Width - r14 \in 0 .. Width - 1
      /\ (Width - 1) - (Width - r14) = r14 - 1
  BY WordIs DEF E!TypeOK
<1>2. E!Power[Width - r14] * E!Power[r14 - 1] = E!Power[Width - 1]
  BY <1>1, Factors
<1>3. /\ E!Power[Width - r14] \in Nat \ {0} /\ E!Power[r14 - 1] \in Nat \ {0}
      /\ E!Power[(r14 - 1) + 1] = 2 * E!Power[r14 - 1]
      /\ E!Power[(Width - r14) + 1] = 2 * E!Power[Width - r14]
  BY <1>1, Powers
<1>. QED
  BY <1>1, <1>2, <1>3, WordIs

LEMMA DivideStep == ASSUME EmulationInv, E!DivideTurn PROVE EmulationInv'
<1>. DEFINE bit == IF E!Msb(r3) THEN 1 ELSE 0
            shifted == (2 * r13 + bit) % E!Modulus
            fits == shifted >= r6
            p == E!Power[Width - r14]
            h == E!Power[r14 - 1]
<1>1. /\ pc = "divide" /\ r14 > 0 /\ r14' = r14 - 1
      /\ r13' = IF fits THEN E!Minus(shifted, r6) ELSE shifted
      /\ r3' = E!Twice(r3) + IF fits THEN 1 ELSE 0
      /\ UNCHANGED <<instr, before, regs, slot, pc, r6, r9, r10, r11, r12, r17>>
  BY DEF E!DivideTurn
<1>2. E!TypeOK /\ E!Divides /\ DivideLoop
  BY <1>1 DEF EmulationInv
<1>3. r3 \in E!Word /\ r6 \in E!Word /\ r13 \in E!Word
  BY <1>2 DEF E!TypeOK
<1>4. /\ r14 - 1 \in 0 .. Width /\ p \in Nat \ {0} /\ h \in Nat \ {0}
      /\ E!Power[r14] = 2 * h /\ E!Power[Width - r14'] = 2 * p
      /\ p * h = E!Power[Width - 1] /\ E!Modulus = 2 * (p * h)
  BY <1>1, <1>2, TurnIs
<1>5. E!Word \subseteq Nat /\ E!Word = 0 .. E!Modulus - 1 /\ E!Modulus \in Nat \ {0}
      /\ E!Modulus \div 2 = p * h
  BY <1>4, WordIs
<1>6. E!Msb(r3) <=> r3 >= p * h
  BY <1>5 DEF E!Msb
<1>7. shifted \in E!Word /\ E!Twice(r3) \in E!Word
  <2>1. 2 * r13 + bit \in Int /\ 2 * r3 \in Int
    BY <1>3, <1>5
  <2>. QED
    BY <2>1, RestIsWord DEF E!Twice
<1>8. E!Minus(shifted, r6) = IF fits THEN shifted - r6 ELSE E!Minus(shifted, r6)
  <2>. SUFFICES ASSUME fits PROVE E!Minus(shifted, r6) = shifted - r6
    OBVIOUS
  <2>. DEFINE v == shifted - r6
              m == E!Modulus
  <2>1. v \in 0 .. m - 1 /\ m \in Nat \ {0}
    <3>. HIDE DEF shifted
    <3>. QED
      BY <1>3, <1>5, <1>7
  <2>. HIDE DEF v, m
  <2>2. (m * 0 + v) % m = v /\ m * 0 + v = v
    BY <2>1, OnlyDivMod
  <2>. QED
    BY <2>2 DEF v, m, E!Minus
<1>9. r13' \in E!Word
  <2>. HIDE DEF shifted
  <2>1. fits => shifted - r6 \in E!Word
    BY <1>3, <1>5, <1>7
  <2>. QED
    BY <1>1, <1>7, <1>8, <2>1
<1>10. E!Twice(r3) + 1 \in E!Word
  <2>. DEFINE m == E!Modulus
              x == p * h
  <2>1. x \in Nat /\ m = 2 * x /\ m \in Nat \ {0} /\ E!Twice(r3) = (2 * r3) % m
    BY <1>4, <1>5, NatTimes DEF E!Twice
  <2>. HIDE DEF m, x
  <2>2. (2 * r3) % m \in 0 .. m - 1 /\ 2 * r3 = m * ((2 * r3) \div m) + ((2 * r3) % m)
        /\ (2 * r3) \div m \in Int
    <3>1. 2 * r3 \in Int
      BY <1>3, <1>5
    <3>. QED
      BY <2>1, <3>1, DivMod
  <2>. DEFINE e == (2 * r3) \div m
  <2>. HIDE DEF e
  <2>3. E!Twice(r3) = 2 * (r3 - x * e)
    <3>1. m * e = 2 * (x * e)
      BY <2>1, <2>2 DEF e
    <3>2. x * e \in Int
      BY <2>1, <2>2 DEF e
    <3>. QED
      BY <1>3, <1>5, <2>1, <2>2, <3>1, <3>2 DEF e
  <2>4. r3 - x * e \in Int
    BY <1>3, <1>5, <2>1, <2>2 DEF e
  <2>5. E!Twice(r3) + 1 \in 0 .. m - 1
    BY <2>1, <2>2, <2>3, <2>4
  <2>. QED
    BY <1>5, <2>5 DEF m
<1>11. E!TypeOK'
  <2>1. r3' \in E!Word
    <3>1. E!Twice(r3) + 0 = E!Twice(r3)
      BY <1>5, <1>7
    <3>2. r3' = E!Twice(r3) + 1 \/ r3' = E!Twice(r3) + 0
      BY <1>1
    <3>. QED
      BY <1>7, <1>10, <3>1, <3>2
  <2>. QED
    BY <1>1, <1>2, <1>4, <1>9, <2>1 DEF E!TypeOK
<1>12. OperandA' = OperandA /\ OperandB' = OperandB /\ E!Divides' = E!Divides
  BY <1>1 DEF OperandA, OperandB, E!Divides
<1>. DEFINE d == E!Absolute(instr.op = "div", OperandA)
<1>13. d \in E!Word
  BY <1>1, AbsoluteIs, OperandsAre DEF EmulationInv
<1>. HIDE DEF d
<1>14. ASSUME r6 # 0
       PROVE  \E q, low \in Nat :
                /\ low < E!Power[r14'] /\ q < E!Power[Width - r14']
                /\ r3' = E!Power[Width - r14'] * low + q
                /\ d = E!Power[r14'] * (q * r6 + r13') + low
                /\ r13' < r6
  <2>1. PICK q \in Nat, low \in Nat :
          /\ low < E!Power[r14] /\ q < E!Power[Width - r14]
          /\ r3 = E!Power[Width - r14] * low + q
          /\ d = E!Power[r14] * (q * r6 + r13) + low
          /\ r13 < r6
    BY <1>2, <1>14 DEF DivideLoop, d
  <2>2. low < 2 * h /\ q < p /\ r3 = p * low + q
        /\ d = (2 * h) * (q * r6 + r13) + low
    BY <1>4, <2>1
  <2>. DEFINE s == Brought(r13, low, h)
              f == Fit(s, r6)
  <2>3. /\ Bit(low, h) \in 0 .. 1 /\ low - Bit(low, h) * h \in 0 .. h - 1
        /\ (p * low + q >= p * h) <=> (low >= h)
        /\ (2 * (p * low + q)) % (2 * (p * h)) =
             (2 * p) * (low - Bit(low, h) * h) + 2 * q
    <3>. HIDE DEF p, h
    <3>1. h \in Nat \ {0} /\ p \in Nat \ {0}
      BY <1>4
    <3>2. low < 2 * h /\ q < p
      BY <2>2
    <3>. QED
      BY <3>1, <3>2, Shift
  <2>4. bit = Bit(low, h)
    BY <1>6, <2>2, <2>3 DEF Bit
  <2>. HIDE DEF bit, p, h
  <2>5. /\ bit \in 0 .. 1 /\ f \in 0 .. 1 /\ s = 2 * r13 + bit /\ s \in Nat
        /\ f = IF s >= r6 THEN 1 ELSE 0
    BY <1>3, <1>5, <2>3, <2>4 DEF Brought, Fit
  <2>. HIDE DEF s
  <2>. HIDE DEF f
  <2>6. /\ s < 2 * (p * h) /\ s - f * r6 \in 0 .. r6 - 1
        /\ 2 * q + f < 2 * p
        /\ d = h * ((2 * q + f) * r6 + (s - f * r6)) + (low - bit * h)
    <3>1. d < 2 * (p * h) /\ r6 \in Nat /\ r13 \in Nat
      BY <1>3, <1>4, <1>5, <1>13
    <3>2. (2 * h) * (q * r6 + r13) + low < 2 * (p * h)
      BY <2>2, <3>1
    <3>3. /\ h \in Nat \ {0} /\ p \in Nat \ {0} /\ low < 2 * h /\ q < p
          /\ r13 < r6
      BY <1>4, <2>1, <2>2
    <3>4. Divided(h, p, r6, q, low, r13)
      BY <3>1, <3>2, <3>3, DivideOnce
    <3>. QED
      BY <2>2, <2>4, <3>4 DEF s, f, Divided
  <2>7. shifted = s
    <3>. DEFINE m == E!Modulus
    <3>1. m \in Nat \ {0} /\ s \in 0 .. m - 1
      BY <1>3, <1>4, <1>5, <2>5, <2>6
    <3>. HIDE DEF m
    <3>2. (m * 0 + s) % m = s /\ m * 0 + s = s
      BY <3>1, OnlyDivMod
    <3>. QED
      BY <2>5, <3>2 DEF m
  <2>8. r13' = s - f * r6
    <3>1. f * r6 = IF s >= r6 THEN r6 ELSE 0
      BY <1>3, <1>5, <2>5
    <3>2. s \in Int
      BY <1>3, <1>5, <2>5
    <3>3. fits <=> s >= r6
      BY <2>7
    <3>. HIDE DEF shifted
    <3>. QED
      BY <1>1, <1>8, <2>7, <3>1, <3>2, <3>3
  <2>9. r3' = (2 * p) * (low - bit * h) + (2 * q + f)
    <3>1. E!Twice(r3) = (2 * p) * (low - bit * h) + 2 * q
      BY <1>4, <2>2, <2>3, <2>4 DEF E!Twice
    <3>2. (IF fits THEN 1 ELSE 0) = f
      BY <2>5, <2>7
    <3>. DEFINE y == (2 * p) * (low - bit * h)
    <3>3. y \in Int
      <4>1. low - bit * h \in Int
        BY <2>3, <2>4
      <4>. QED
        BY <1>4, <4>1
    <3>. HIDE DEF y, shifted
    <3>4. r3' = (y + 2 * q) + f
      BY <1>1, <3>1, <3>2 DEF y
    <3>5. r3' = y + (2 * q + f)
      BY <2>5, <3>3, <3>4
    <3>. QED
      BY <3>5 DEF y
  <2>. DEFINE q2 == 2 * q + f
              low2 == low - bit * h
  <2>10. q2 \in Nat /\ low2 \in Nat
    BY <2>3, <2>4, <2>5
  <2>11. low2 < h /\ E!Power[r14'] = h /\ E!Power[Width - r14'] = 2 * p
    BY <1>1, <1>4, <2>3, <2>4 DEF h
  <2>12. q2 < 2 * p /\ r3' = (2 * p) * low2 + q2
         /\ d = h * (q2 * r6 + r13') + low2 /\ r13' < r6
    <3>1. r6 \in Nat
      BY <1>3, <1>5
    <3>. QED
      BY <2>6, <2>8, <2>9, <3>1
  <2>. HIDE DEF q2, low2
  <2>. QED
    BY <2>10, <2>11, <2>12
<1>15. DivideLoop'
  <2>1. d = E!Absolute(instr'.op = "div", OperandA')
    BY <1>1, <1>12 DEF d
  <2>2. r6' = E!Absolute(instr'.op = "div", OperandB')
        /\ r17' = (instr'.op = "div" /\ E!Msb(OperandA') # E!Msb(OperandB'))
    BY <1>1, <1>2, <1>12 DEF DivideLoop
  <2>3. r6' = r6
    BY <1>1
  <2>. QED
    BY <1>14, <2>1, <2>2, <2>3 DEF DivideLoop
<1>. QED
  BY <1>1, <1>2, <1>11, <1>12, <1>15 DEF EmulationInv, E!Emulates

LEMMA MultiplyStep == ASSUME EmulationInv, E!MultiplyTurn PROVE EmulationInv'
<1>. DEFINE bit == IF E!Msb(r6) THEN 1 ELSE 0
            low == r12 % 2
            sum == (r10 + IF low = 1 THEN r3 ELSE 0) % E!Modulus
            p == E!Power[Width - r14]
            h == E!Power[r14 - 1]
            x == p * h
<1>1. /\ pc = "multiply" /\ r14 > 0 /\ r14' = r14 - 1
      /\ r9' = (E!Twice(r9) + IF E!Msb(r6) THEN r3 ELSE 0) % E!Modulus
      /\ r10' = sum \div 2 + IF low = 1 /\ sum < r3 THEN E!Modulus \div 2 ELSE 0
      /\ r6' = E!Twice(r6) /\ r12' = r12 \div 2
      /\ UNCHANGED <<instr, before, regs, slot, pc, r3, r11, r13, r17>>
  BY DEF E!MultiplyTurn
<1>2. E!TypeOK /\ ~ E!Divides /\ MultiplyLoop
  BY <1>1 DEF EmulationInv
<1>3. /\ r3 \in E!Word /\ r6 \in E!Word /\ r9 \in E!Word /\ r10 \in E!Word /\ r11 \in E!Word
      /\ r12 \in E!Word
  BY <1>2 DEF E!TypeOK
<1>4. /\ r14 - 1 \in 0 .. Width /\ p \in Nat \ {0} /\ h \in Nat \ {0}
      /\ E!Power[r14] = 2 * h /\ E!Power[Width - r14'] = 2 * p
      /\ x = E!Power[Width - 1] /\ E!Modulus = 2 * x
  BY <1>1, <1>2, TurnIs
<1>5. /\ E!Word \subseteq Nat /\ E!Word = 0 .. E!Modulus - 1 /\ E!Modulus \in Nat \ {0}
      /\ E!Modulus \div 2 = x /\ x \in Nat \ {0}
  BY <1>4, WordIs
<1>6. E!Msb(r6) <=> r6 >= x
  BY <1>5 DEF E!Msb
<1>. DEFINE br == bit * r3
            lr == low * r3
<1>7. /\ bit \in 0 .. 1 /\ br = IF E!Msb(r6) THEN r3 ELSE 0
      /\ low \in 0 .. 1 /\ lr = IF low = 1 THEN r3 ELSE 0
      /\ br \in Nat /\ lr \in E!Word
  <2>1. r3 \in Nat /\ 1 * r3 = r3 /\ 0 * r3 = 0
    BY <1>3, <1>5
  <2>2. br = (IF E!Msb(r6) THEN r3 ELSE 0) /\ bit \in 0 .. 1
    BY <2>1
  <2>3. low = 0 \/ low = 1
    BY <1>3, <1>5
  <2>. HIDE DEF low
  <2>4. lr = IF low = 1 THEN r3 ELSE 0
    BY <2>1, <2>3
  <2>. HIDE DEF bit, br, lr
  <2>5. 0 \in E!Word
    BY WordIs
  <2>. QED
    BY <1>3, <2>1, <2>2, <2>3, <2>4, <2>5
<1>. HIDE DEF br, lr
<1>8. r9' = (((2 * r9) % E!Modulus) + br) % E!Modulus /\ r9' \in E!Word
  <2>1. r9' = (((2 * r9) % E!Modulus) + br) % E!Modulus
    BY <1>1, <1>7 DEF E!Twice
  <2>2. 2 * r9 \in Int
    BY <1>3, <1>5
  <2>3. (2 * r9) % E!Modulus \in Int
    BY <1>5, <2>2, RestIsWord
  <2>4. ((2 * r9) % E!Modulus) + br \in Int
    BY <1>7, <2>3
  <2>. QED
    BY <2>1, <2>4, RestIsWord
<1>9. r10' = (r10 + lr) \div 2 /\ r10' \in E!Word
  <2>1. r3 \in 0 .. 2 * x - 1 /\ r10 \in 0 .. 2 * x - 1
    BY <1>3, <1>4, <1>5
  <2>. HIDE DEF x, low
  <2>2. Carried(x, r3, r10, low)
    BY <1>5, <1>7, <2>1, UpperOnce
  <2>3. sum = (r10 + lr) % (2 * x)
    BY <1>4, <1>7
  <2>4. r10' = (r10 + lr) \div 2
    BY <1>1, <1>5, <2>2, <2>3 DEF Carried, lr
  <2>5. lr \in 0 .. 2 * x - 1
    BY <1>4, <1>5, <1>7
  <2>6. (r10 + lr) \div 2 \in 0 .. 2 * x - 1
    BY <1>5, <2>1, <2>5
  <2>. QED
    BY <1>4, <1>5, <2>4, <2>6
<1>10. r6' \in E!Word /\ r12' \in E!Word
  <2>1. 2 * r6 \in Int
    BY <1>3, <1>5
  <2>2. r12 \div 2 \in E!Word
    <3>. DEFINE m == E!Modulus
    <3>1. r12 \in 0 .. m - 1 /\ m \in Nat
      BY <1>3, <1>5
    <3>. HIDE DEF m
    <3>2. r12 \div 2 \in 0 .. m - 1
      BY <3>1
    <3>. QED
      BY <1>5, <3>2 DEF m
  <2>. QED
    BY <1>1, <2>1, <2>2, RestIsWord DEF E!Twice
<1>11. E!TypeOK'
  BY <1>1, <1>2, <1>4, <1>8, <1>9, <1>10 DEF E!TypeOK
<1>12. OperandA' = OperandA /\ OperandB' = OperandB /\ E!Divides' = E!Divides
  BY <1>1 DEF OperandA, OperandB, E!Divides
<1>. HIDE DEF low, sum
<1>13. LowerLoop'
  <2>1. PICK hi \in Nat, lo \in Nat :
          /\ lo < E!Power[r14]
          /\ r11 = E!Power[r14] * hi + lo /\ r6 = E!Power[Width - r14] * lo
          /\ RestOf(r3, hi, E!Modulus, r9)
    BY <1>2 DEF MultiplyLoop, LowerLoop
  <2>2. /\ lo < 2 * h /\ r11 = (2 * h) * hi + lo /\ r6 = p * lo + 0 /\ r6 = p * lo
    BY <1>3, <1>4, <1>5, <2>1
  <2>3. /\ Bit(lo, h) \in 0 .. 1 /\ lo - Bit(lo, h) * h \in 0 .. h - 1
        /\ (p * lo + 0 >= p * h) <=> (lo >= h)
        /\ (2 * (p * lo + 0)) % (2 * (p * h)) =
             (2 * p) * (lo - Bit(lo, h) * h) + 2 * 0
    <3>. HIDE DEF p, h
    <3>1. h \in Nat \ {0} /\ p \in Nat \ {0}
      BY <1>4
    <3>2. lo < 2 * h
      BY <2>2
    <3>. QED
      BY <3>1, <3>2, ShiftClear
  <2>4. bit = Bit(lo, h)
    BY <1>6, <2>2, <2>3 DEF Bit
  <2>. DEFINE hi2 == 2 * hi + bit
              lo2 == lo - bit * h
  <2>. HIDE DEF bit, p, h
  <2>5. bit \in 0 .. 1 /\ hi2 \in Nat /\ lo2 \in Nat /\ lo2 < h
    BY <1>4, <2>3, <2>4
  <2>6. r11 = h * hi2 + lo2
    <3>1. h * (2 * hi + bit) = (2 * h) * hi + bit * h
      BY <1>4, <2>5
    <3>. DEFINE y == (2 * h) * hi
                z == bit * h
    <3>2. y \in Int /\ z \in Int
      BY <1>4, <2>5
    <3>. HIDE DEF y, z
    <3>3. h * hi2 = y + z /\ lo2 = lo - z /\ r11 = y + lo
      BY <2>2, <3>1 DEF y, z
    <3>. QED
      BY <3>2, <3>3
  <2>7. r6' = (2 * p) * lo2
    <3>1. r6' = (2 * p) * lo2 + 2 * 0
      BY <1>1, <1>4, <2>2, <2>3, <2>4 DEF E!Twice, x
    <3>2. (2 * p) * lo2 \in Int
      BY <1>4, <2>5
    <3>. QED
      BY <3>1, <3>2
  <2>8. RestOf(r3, hi2, E!Modulus, r9')
    BY <1>3, <1>5, <1>8, <2>1, <2>5, LowerOnce DEF br
  <2>. HIDE DEF hi2, lo2
  <2>9. lo2 < E!Power[r14'] /\ r11' = E!Power[r14'] * hi2 + lo2
        /\ r6' = E!Power[Width - r14'] * lo2 /\ RestOf(r3', hi2, E!Modulus, r9')
    BY <1>1, <1>4, <2>5, <2>6, <2>7, <2>8 DEF h
  <2>. QED
    BY <2>5, <2>9 DEF LowerLoop
<1>14. UpperLoop'
  <2>. HIDE DEF p
  <2>1. UpperIs(p, r3, r11, r12, r10)
    BY <1>2 DEF MultiplyLoop, UpperLoop, p
  <2>2. UpperIs(2 * p, r3, r11, r12 \div 2, (r10 + ((r12 % 2) * r3)) \div 2)
    BY <1>3, <1>4, <1>5, <2>1, LowerBits
  <2>3. UpperIs(2 * p, r3', r11', r12', r10')
    BY <1>1, <1>9, <2>2 DEF low, lr
  <2>. QED
    BY <1>4, <2>3 DEF UpperLoop
<1>15. MultiplyLoop'
  BY <1>1, <1>2, <1>12, <1>13, <1>14 DEF MultiplyLoop
<1>. QED
  BY <1>1, <1>2, <1>11, <1>12, <1>15 DEF EmulationInv, E!Emulates

\* The corrections of mulxsu and mulxss.
SignedLeft(a, b, u) == IF E!Msb(a) THEN E!Minus(u, b) ELSE u
SignedBoth(a, b, u) == IF E!Msb(b) THEN E!Minus(SignedLeft(a, b, u), a)
                       ELSE SignedLeft(a, b, u)
LEMMA Corrected ==
  ASSUME NEW a \in E!Word, NEW b \in E!Word, NEW u \in E!Word, u = (a * b) \div E!Modulus
  PROVE  /\ ((E!Signed(a) * b) \div E!Modulus) % E!Modulus = SignedLeft(a, b, u)
         /\ ((E!Signed(a) * E!Signed(b)) \div E!Modulus) % E!Modulus = SignedBoth(a, b, u)
         /\ SignedLeft(a, b, u) \in E!Word /\ SignedBoth(a, b, u) \in E!Word
<1>. DEFINE m == E!Modulus
            sa == E!Signed(a)
            sb == E!Signed(b)
            v == (sa * b) \div m
<1>1. m \in Nat \ {0} /\ a \in Nat /\ b \in Nat /\ u \in 0 .. m - 1
      /\ a * b \in Int
  BY WordIs
<1>2. sa = (IF E!Msb(a) THEN a - m ELSE a) /\ sb = (IF E!Msb(b) THEN b - m ELSE b)
  BY DEF E!Signed
<1>. HIDE DEF m, sa, sb
<1>3. sa \in Int /\ sb \in Int
  BY <1>1, <1>2
<1>4. sa * b \in Int
  BY <1>1, <1>3
<1>5. v \in Int /\ v % m \in 0 .. m - 1
  BY <1>1, <1>4, DivMod
<1>6. v % m = SignedLeft(a, b, u)
  <2>1. CASE E!Msb(a)
    <3>1. (a - m) * b = a * b + m * (0 - b)
      BY <1>1
    <3>2. 0 - b \in Int
      BY <1>1
    <3>3. (a * b + m * (0 - b)) \div m = ((a * b) \div m) + (0 - b)
      BY <1>1, <3>2, SameRest
    <3>4. v = u + (0 - b)
      BY <1>2, <2>1, <3>1, <3>3 DEF m
    <3>5. u + (0 - b) = u - b
      BY <1>1
    <3>. QED
      BY <2>1, <3>4, <3>5 DEF SignedLeft, E!Minus, m
  <2>2. CASE ~ E!Msb(a)
    <3>1. v = u
      BY <1>2, <2>2 DEF m
    <3>2. (m * 0 + u) % m = u /\ m * 0 + u = u
      BY <1>1, OnlyDivMod
    <3>. QED
      BY <2>2, <3>1, <3>2 DEF SignedLeft
  <2>. QED
    BY <2>1, <2>2
<1>7. ((sa * sb) \div m) % m = SignedBoth(a, b, u)
  <2>1. CASE E!Msb(b)
    <3>. DEFINE e == v \div m
                w == v % m
                k == IF E!Msb(a) THEN 1 ELSE 0
    <3>1. sa * (b - m) = sa * b + m * (0 - sa)
      BY <1>1, <1>3
    <3>2. 0 - sa \in Int
      BY <1>3
    <3>3. (sa * b + m * (0 - sa)) \div m = v + (0 - sa)
      BY <1>1, <1>4, <3>2, SameRest
    <3>4. (sa * sb) \div m = v + (0 - sa)
      BY <1>2, <2>1, <3>1, <3>3
    <3>. HIDE DEF v
    <3>5. e \in Int /\ w \in Int /\ v = m * e + w
      BY <1>1, <1>5, DivMod
    <3>. HIDE DEF e
    <3>6. v + (0 - sa) = (w - a) + m * (e + k)
      <4>1. m * (e + k) = m * e + m * k
        BY <1>1, <3>5
      <4>2. m * k = IF E!Msb(a) THEN m ELSE 0
        BY <1>1
      <4>. DEFINE y == m * e
                  z == m * k
      <4>3. y \in Int /\ z \in Int
        BY <1>1, <3>5, <4>2
      <4>. HIDE DEF y, z, w, k
      <4>4. v = y + w /\ m * (e + k) = y + z /\ z = (IF E!Msb(a) THEN m ELSE 0)
        BY <3>5, <4>1, <4>2 DEF y, z
      <4>. QED
        BY <1>1, <1>2, <1>3, <3>5, <4>3, <4>4
    <3>7. ((w - a) + m * (e + k)) % m = (w - a) % m
      <4>1. w - a \in Int /\ e + k \in Int
        BY <1>1, <3>5
      <4>. HIDE DEF w, k
      <4>. QED
        BY <1>1, <4>1, SameRest
    <3>. QED
      BY <1>6, <2>1, <3>4, <3>6, <3>7 DEF SignedBoth, E!Minus, m
  <2>2. CASE ~ E!Msb(b)
    <3>1. sa * sb = sa * b
      BY <1>2, <2>2
    <3>. QED
      BY <1>6, <2>2, <3>1 DEF SignedBoth
  <2>. QED
    BY <2>1, <2>2
<1>8. SignedLeft(a, b, u) \in E!Word
  BY <1>1, <1>5, <1>6, WordIs DEF m
<1>9. SignedBoth(a, b, u) \in E!Word
  <2>1. SignedLeft(a, b, u) - a \in Int
    BY <1>1, <1>8, WordIs
  <2>. QED
    BY <1>8, <2>1, RestIsWord DEF SignedBoth, E!Minus
<1>. QED
  BY <1>6, <1>7, <1>8, <1>9 DEF v, sa, sb, m

\* At the end of its loop a division has the quotient, ...
LEMMA QuotientIs ==
  ASSUME EmulationInv, pc = "divide", r14 = 0, OperandB # 0
  PROVE  r3 = E!Absolute(instr.op = "div", OperandA) \div E!Absolute(instr.op = "div", OperandB)
<1>. DEFINE d == E!Absolute(instr.op = "div", OperandA)
            b == E!Absolute(instr.op = "div", OperandB)
<1>1. /\ E!TypeOK /\ DivideLoop /\ OperandB \in E!Word
  BY OperandsAre DEF EmulationInv
<1>2. b = r6 /\ r6 # 0 /\ r6 \in Nat /\ r13 \in Nat /\ r3 \in Nat
  BY <1>1, AbsoluteIs, WordIs DEF DivideLoop, E!TypeOK
<1>. HIDE DEF d, b
<1>3. PICK q \in Nat, low \in Nat :
        /\ low < E!Power[0] /\ r3 = E!Power[Width - 0] * low + q
        /\ d = E!Power[0] * (q * r6 + r13) + low /\ r13 < r6
  BY <1>1, <1>2 DEF DivideLoop, d
<1>4. E!Power[0] = 1 /\ E!Power[Width - 0] \in Nat
  BY Powers, WordIs
<1>5. low = 0 /\ r3 = q
  BY <1>2, <1>3, <1>4
<1>6. d = r6 * q + r13
  <2>1. q * r6 + r13 \in Int
    BY <1>2
  <2>2. d = q * r6 + r13
    BY <1>3, <1>4, <1>5, <2>1
  <2>3. q * r6 = r6 * q
    BY <1>2
  <2>. QED
    BY <2>2, <2>3
<1>7. r6 \in Nat \ {0} /\ q \in Int /\ r13 \in 0 .. r6 - 1
  BY <1>2, <1>3
<1>8. (r6 * q + r13) \div r6 = q
  BY <1>7, OnlyDivMod
<1>. QED
  BY <1>2, <1>5, <1>6, <1>8 DEF d, b

\* ... and a multiplication both halves of the product.
LEMMA ProductIs ==
  ASSUME EmulationInv, pc = "multiply", r14 = 0
  PROVE  /\ r9 = (OperandA * OperandB) % E!Modulus
         /\ r10 = (OperandA * OperandB) \div E!Modulus
<1>. DEFINE m == E!Modulus
<1>1. E!TypeOK /\ MultiplyLoop
  BY DEF EmulationInv
<1>2. /\ r3 = OperandA /\ r11 = OperandB /\ LowerLoop /\ UpperLoop
  BY <1>1 DEF MultiplyLoop
<1>3. /\ m \in Nat \ {0} /\ r3 \in Nat /\ r11 \in 0 .. m - 1 /\ r9 \in 0 .. m - 1
      /\ r10 \in Nat /\ r12 \in Nat
  BY <1>1, WordIs DEF E!TypeOK
<1>4. E!Power[0] = 1 /\ E!Power[Width - 0] = m
  BY Powers, WordIs DEF E!Modulus
<1>. HIDE DEF m
<1>5. r9 = (r3 * r11) % m
  <2>1. PICK hi \in Nat, lo \in Nat :
          lo < E!Power[0] /\ r11 = E!Power[0] * hi + lo /\ RestOf(r3, hi, m, r9)
    BY <1>2 DEF LowerLoop, m
  <2>2. r11 = hi
    BY <1>3, <1>4, <2>1
  <2>3. PICK c \in Int : r3 * hi = m * c + r9
    BY <2>1 DEF RestOf
  <2>4. (m * c + r9) % m = r9
    BY <1>3, OnlyDivMod
  <2>. QED
    BY <2>2, <2>3, <2>4
<1>6. r10 = (r3 * r11) \div m
  <2>1. PICK lob \in 0 .. m - 1, t \in 0 .. m - 1 :
          r11 = m * r12 + lob /\ r3 * lob = m * r10 + t
    BY <1>2, <1>4 DEF UpperLoop, UpperIs
  <2>2. r12 = 0
    <3>. SUFFICES ASSUME 1 <= r12 PROVE FALSE
      BY <1>3
    <3>1. m * 1 <= m * r12
      BY <1>3, TimesMono
    <3>2. m * r12 \in Int
      BY <1>3
    <3>. QED
      BY <1>3, <2>1, <3>1, <3>2
  <2>3. r11 = lob
    BY <1>3, <2>1, <2>2
  <2>4. (m * r10 + t) \div m = r10
    BY <1>3, OnlyDivMod
  <2>. QED
    BY <2>1, <2>3, <2>4
<1>. QED
  BY <1>2, <1>5, <1>6 DEF m

LEMMA ResultIs ==
  ASSUME EmulationInv, E!StoreResult
  PROVE  /\ E!Result \in E!Word /\ instr.op # "other"
         /\ E!Supported /\ E!Defined => E!Result = E!Meaning(instr.op, E!Left, E!Right)
<1>1. /\ pc \in {"divide", "multiply"} /\ r14 = 0 /\ instr.op # "other" /\ E!TypeOK
  BY DEF E!StoreResult, EmulationInv
<1>2. /\ OperandA \in E!Word /\ OperandB \in E!Word
      /\ E!Supported => OperandA = E!Left /\ OperandB = E!Right
  BY <1>1, OperandsAre
<1>3. instr.op \in E!RType \cup {"muli"}
  BY <1>1 DEF E!TypeOK, E!Instr
<1>4. CASE pc = "divide"
  <2>1. E!Divides /\ DivideLoop
    BY <1>4 DEF EmulationInv
  <2>2. E!Result = IF r17 THEN E!Negated(r3) ELSE r3
    BY <2>1 DEF E!Result, E!Divides
  <2>3. r3 \in E!Word /\ 0 - r3 \in Int
    BY <1>1, WordIs DEF E!TypeOK
  <2>4. E!Result \in E!Word
    BY <2>2, <2>3, RestIsWord DEF E!Negated, E!Minus
  <2>5. ASSUME E!Supported, E!Defined PROVE E!Result = E!Meaning(instr.op, E!Left, E!Right)
    <3>1. OperandA = E!Left /\ OperandB = E!Right /\ E!Right # 0
      BY <1>2, <2>1, <2>5 DEF E!Defined
    <3>2. r3 = E!Absolute(instr.op = "div", E!Left) \div E!Absolute(instr.op = "div", E!Right)
      BY <1>1, <1>4, <3>1, QuotientIs
    <3>3. r17 = (instr.op = "div" /\ E!Msb(E!Left) # E!Msb(E!Right))
      BY <2>1, <3>1 DEF DivideLoop
    <3>4. CASE instr.op = "div"
      <4>1. r3 = E!Abs(E!Signed(E!Left)) \div E!Abs(E!Signed(E!Right))
        <5>1. (instr.op = "div") = TRUE
          BY <3>4
        <5>2. E!Absolute(TRUE, E!Left) = E!Abs(E!Signed(E!Left))
              /\ E!Absolute(TRUE, E!Right) = E!Abs(E!Signed(E!Right))
          BY <1>2, <3>1, AbsoluteIs
        <5>. QED
          BY <3>2, <5>1, <5>2
      <4>. QED
        BY <2>2, <3>3, <3>4, <4>1 DEF E!Meaning
    <3>5. CASE instr.op = "divu"
      <4>1. r3 = E!Left \div E!Right
        <5>1. (instr.op = "div") = FALSE
          BY <3>5
        <5>2. E!Absolute(FALSE, E!Left) = E!Left /\ E!Absolute(FALSE, E!Right) = E!Right
          BY <1>2, <3>1, AbsoluteIs
        <5>. QED
          BY <3>2, <5>1, <5>2
      <4>. QED
        BY <2>2, <3>3, <3>5, <4>1 DEF E!Meaning
    <3>. QED
      BY <2>1, <3>4, <3>5 DEF E!Divides
  <2>. QED
    BY <1>1, <2>4, <2>5
<1>5. CASE pc = "multiply"
  <2>1. ~ E!Divides /\ MultiplyLoop
    BY <1>5 DEF EmulationInv
  <2>2. r9 = (OperandA * OperandB) % E!Modulus /\ r10 = (OperandA * OperandB) \div E!Modulus
    BY <1>1, <1>5, ProductIs
  <2>3. r3 = OperandA /\ r11 = OperandB /\ r9 \in E!Word /\ r10 \in E!Word
    BY <1>1, <2>1 DEF E!TypeOK, MultiplyLoop
  <2>4. E!Mulxsu = SignedLeft(OperandA, OperandB, r10)
        /\ E!Mulxss = SignedBoth(OperandA, OperandB, r10)
    BY <2>3 DEF E!Mulxsu, E!Mulxss, SignedLeft, SignedBoth
  <2>5. /\ ((E!Signed(OperandA) * OperandB) \div E!Modulus) % E!Modulus = E!Mulxsu
        /\ ((E!Signed(OperandA) * E!Signed(OperandB)) \div E!Modulus) % E!Modulus = E!Mulxss
        /\ E!Mulxsu \in E!Word /\ E!Mulxss \in E!Word
    BY <1>2, <2>2, <2>3, <2>4, Corrected
  <2>6. E!Result \in E!Word /\ E!Result = E!Meaning(instr.op, OperandA, OperandB)
    <3>1. CASE instr.op \in {"mul", "muli"}
      BY <2>1, <2>2, <2>3, <3>1 DEF E!Result, E!Meaning
    <3>2. CASE instr.op = "mulxuu"
      BY <2>1, <2>2, <2>3, <3>2 DEF E!Result, E!Meaning
    <3>3. CASE instr.op = "mulxsu"
      BY <2>1, <2>5, <3>3 DEF E!Result, E!Meaning
    <3>4. CASE instr.op = "mulxss"
      BY <2>1, <2>5, <3>4 DEF E!Result, E!Meaning
    <3>. QED
      BY <1>3, <2>1, <3>1, <3>2, <3>3, <3>4 DEF E!RType, E!Divides
  <2>. QED
    BY <1>1, <1>2, <2>6
<1>. QED
  BY <1>1, <1>4, <1>5

LEMMA StoreStep == ASSUME EmulationInv, E!StoreResult PROVE EmulationInv'
<1>1. /\ pc \in {"divide", "multiply"} /\ pc' = "restore" /\ regs = before
      /\ slot' = [slot EXCEPT ![E!Destination] = E!Result]
      /\ UNCHANGED <<instr, before, regs, E!loop>> /\ E!TypeOK
      /\ \A r \in E!Saved : slot[r] = before[r]
  BY DEF E!StoreResult, EmulationInv
<1>2. /\ E!Result \in E!Word /\ instr.op # "other"
      /\ E!Supported /\ E!Defined => E!Result = E!Meaning(instr.op, E!Left, E!Right)
  BY ResultIs
<1>3. E!Destination \in E!Reg
  BY <1>1 DEF E!TypeOK, E!Instr, E!Destination
<1>4. slot' \in [E!Reg -> E!Word]
  BY <1>1, <1>2 DEF E!TypeOK
<1>5. E!TypeOK'
  BY <1>1, <1>4 DEF E!TypeOK, E!loop
<1>6. /\ E!Destination' = E!Destination /\ E!Left' = E!Left /\ E!Right' = E!Right
      /\ E!Supported' = E!Supported /\ E!Defined' = E!Defined
  BY <1>1 DEF E!Destination, E!Left, E!Right, E!Supported, E!Defined, E!Divides, E!Reads
<1>7. ASSUME E!Supported, E!Defined, NEW r \in Loaded
      PROVE  slot'[r] = IF r = E!Destination THEN E!Meaning(instr.op, E!Left, E!Right)
                        ELSE before[r]
  <2>1. r \in E!Reg /\ r \in E!Saved
    BY DEF Loaded, E!Reg, E!Saved
  <2>2. slot \in [E!Reg -> E!Word]
    BY <1>1 DEF E!TypeOK
  <2>. QED
    BY <1>1, <1>2, <1>7, <2>1, <2>2
<1>8. \A r \in Loaded : (E!Supported /\ E!Defined) =>
        slot'[r] = IF r = E!Destination THEN E!Meaning(instr.op, E!Left, E!Right)
                   ELSE before[r]
  BY <1>7
<1>9. (pc = "restore" /\ E!Supported /\ E!Defined =>
        \A r \in Loaded : slot[r] = IF r = E!Destination
                                    THEN E!Meaning(instr.op, E!Left, E!Right)
                                    ELSE before[r])'
  BY <1>1, <1>6, <1>8
<1>10. <<instr, before>>' \in Met /\ instr' = instr
  BY <1>1 DEF EmulationInv
<1>. QED
  BY <1>1, <1>2, <1>5, <1>9, <1>10 DEF EmulationInv, E!Emulates

LEMMA RestoreStep == ASSUME EmulationInv, E!Restore PROVE EmulationInv'
<1>1. /\ pc = "restore" /\ pc' = "returned" /\ regs = before
      /\ regs' = [r \in E!Reg |-> IF r \in Loaded THEN slot[r] ELSE regs[r]]
      /\ UNCHANGED <<instr, before, slot, E!loop>> /\ E!TypeOK
      /\ before \in [E!Reg -> E!Word] /\ before["r0"] = 0
  BY RegistersAssumption DEF E!Restore, EmulationInv, Loaded, E!TypeOK, E!MulDivAssumption
<1>2. regs' \in [E!Reg -> E!Word]
  <2>1. \A r \in E!Reg : regs[r] \in E!Word /\ slot[r] \in E!Word
    BY <1>1 DEF E!TypeOK
  <2>. QED
    BY <1>1, <2>1
<1>3. E!TypeOK'
  BY <1>1, <1>2 DEF E!TypeOK, E!loop
<1>4. E!Emulates'
  <2>. SUFFICES ASSUME E!Supported, E!Defined PROVE regs' = E!Meant
    BY <1>1 DEF E!Emulates, E!Supported, E!Defined, E!Meant, E!Destination, E!Left, E!Right,
                E!Divides, E!Reads
  <2>1. \A r \in Loaded : slot[r] = IF r = E!Destination
                                    THEN E!Meaning(instr.op, E!Left, E!Right)
                                    ELSE before[r]
    BY <1>1 DEF EmulationInv
  <2>2. E!Destination \in Loaded \cup {"r0"}
    <3>1. E!Destination \in E!Reg
      BY <1>1 DEF E!TypeOK, E!Instr, E!Destination
    <3>. QED
      BY <3>1 DEF E!Supported, Loaded, E!Reg
  <2>3. ASSUME NEW r \in E!Reg PROVE regs'[r] = E!Meant[r]
    <3>1. E!Meant[r] = IF r = E!Destination
                     THEN IF E!Destination = "r0" THEN 0 ELSE E!Meaning(instr.op, E!Left, E!Right)
                     ELSE before[r]
      BY <1>1 DEF E!Meant
    <3>2. regs'[r] = IF r \in Loaded THEN slot[r] ELSE before[r]
      BY <1>1
    <3>3. CASE r \in Loaded
      <4>1. r # "r0"
        BY <3>3 DEF Loaded
      <4>. QED
        BY <2>1, <3>1, <3>2, <3>3, <4>1
    <3>4. CASE r \notin Loaded
      BY <1>1, <2>2, <3>1, <3>2, <3>4
    <3>. QED
      BY <3>3, <3>4
  <2>4. regs' = [r \in E!Reg |-> regs'[r]] /\ E!Meant = [r \in E!Reg |-> E!Meant[r]]
    BY <1>1 DEF E!Meant
  <2>. QED
    BY <2>3, <2>4
<1>5. <<instr, before>>' \in Met
  BY <1>1 DEF EmulationInv
<1>. QED
  BY <1>1, <1>3, <1>4, <1>5 DEF EmulationInv

LEMMA EmulationNext == ASSUME EmulationInv, E!Next PROVE EmulationInv'
<1>1. CASE E!NotMulDiv
  <2>1. /\ pc = "operands" /\ pc' = "not_muldiv"
        /\ UNCHANGED <<instr, before, regs, slot, E!loop>>
    BY <1>1 DEF E!NotMulDiv
  <2>2. E!TypeOK'
    BY <2>1 DEF EmulationInv, E!TypeOK, E!loop
  <2>. QED
    BY <2>1, <2>2 DEF EmulationInv, E!Emulates
<1>. QED
  BY <1>1, SaveStep, OperandsStep, DivideStep, MultiplyStep, StoreStep, RestoreStep
  DEF E!Next

LEMMA EmulationSame == ASSUME EmulationInv, UNCHANGED E!vars PROVE EmulationInv'
<1>1. /\ instr' = instr /\ before' = before /\ regs' = regs /\ slot' = slot
      /\ pc' = pc /\ UNCHANGED E!loop
  BY DEF E!vars
<1>2. /\ r3' = r3 /\ r6' = r6 /\ r9' = r9 /\ r10' = r10 /\ r11' = r11 /\ r12' = r12
      /\ r13' = r13 /\ r14' = r14 /\ r17' = r17
  BY <1>1 DEF E!loop
<1>3. E!TypeOK'
  BY <1>1, <1>2 DEF EmulationInv, E!TypeOK
<1>4. OperandA' = OperandA /\ OperandB' = OperandB /\ E!Divides' = E!Divides
  BY <1>1 DEF OperandA, OperandB, E!Divides
<1>5. DivideLoop => DivideLoop'
  BY <1>1, <1>2, <1>4 DEF DivideLoop
<1>6. LowerLoop => LowerLoop'
  BY <1>2 DEF LowerLoop
<1>7. UpperLoop => UpperLoop'
  BY <1>2 DEF UpperLoop
<1>8. MultiplyLoop => MultiplyLoop'
  BY <1>2, <1>4, <1>6, <1>7 DEF MultiplyLoop
<1>9. /\ E!Destination' = E!Destination /\ E!Reads' = E!Reads
      /\ E!Left' = E!Left /\ E!Right' = E!Right
  BY <1>1 DEF E!Destination, E!Left, E!Right, E!Reads
<1>10. E!Supported' = E!Supported /\ E!Defined' = E!Defined /\ E!Meant' = E!Meant
  BY <1>1, <1>4, <1>9 DEF E!Supported, E!Defined, E!Meant
<1>11. E!Emulates'
  BY <1>1, <1>10 DEF EmulationInv, E!Emulates
<1>. QED
  BY <1>1, <1>3, <1>4, <1>5, <1>8, <1>9, <1>10, <1>11 DEF EmulationInv

\* What the invariant says of a division under way.
LEMMA SoFar == EmulationInv => E!DividesSoFar
<1>. SUFFICES ASSUME EmulationInv, pc = "divide", r6 # 0
              PROVE  /\ E!Absolute(instr.op = "div", slot[instr.a]) \div E!Power[r14] =
                          E!Quotient * r6 + r13
                     /\ r13 < r6
  BY DEF E!DividesSoFar
<1>1. E!TypeOK /\ DivideLoop
  BY DEF EmulationInv
<1>2. PICK q \in Nat, low \in Nat :
        /\ low < E!Power[r14] /\ q < E!Power[Width - r14]
        /\ r3 = E!Power[Width - r14] * low + q
        /\ E!Absolute(instr.op = "div", OperandA) =
             E!Power[r14] * (q * r6 + r13) + low
        /\ r13 < r6
  BY <1>1 DEF DivideLoop
<1>3. /\ E!Power[r14] \in Nat \ {0} /\ E!Power[Width - r14] \in Nat \ {0}
      /\ r6 \in Nat /\ r13 \in Nat
  <2>1. r14 \in Nat /\ Width - r14 \in Nat
    BY <1>1, WordIs DEF E!TypeOK
  <2>. QED
    BY <1>1, <2>1, Powers, WordIs DEF E!TypeOK
<1>4. E!Quotient = q
  <2>. DEFINE p == E!Power[Width - r14]
  <2>1. p \in Nat \ {0} /\ low \in Int /\ q \in 0 .. p - 1
    BY <1>2, <1>3
  <2>. HIDE DEF p
  <2>2. (p * low + q) % p = q
    BY <2>1, OnlyDivMod
  <2>. QED
    BY <1>2, <2>2 DEF E!Quotient, p
<1>5. (E!Power[r14] * (q * r6 + r13) + low) \div E!Power[r14] = q * r6 + r13
  <2>. DEFINE p == E!Power[r14]
              y == q * r6 + r13
  <2>1. p \in Nat \ {0} /\ low \in 0 .. p - 1 /\ y \in Int
    BY <1>2, <1>3
  <2>. HIDE DEF p, y
  <2>2. (p * y + low) \div p = y
    BY <2>1, OnlyDivMod
  <2>. QED
    BY <2>2 DEF p, y
<1>. QED
  BY <1>2, <1>4, <1>5 DEF OperandA

\* Every multiplication and division, by whichever registers it names and of
\* words of every width, does to the registers what the instruction means, and
\* a division has the right remainder after every turn of its loop
\* (alt_exception_muldiv.S:129-576).
THEOREM EmulationIsRight == MCFairSpec => []EmulatesAll
<1>. DEFINE Inv == part = "emulation" => EmulationInv
<1>1. MCInit => Inv
  BY EmulationInit DEF MCInit
<1>2. Inv /\ [MCNext]_everything => Inv'
  <2>. SUFFICES ASSUME Inv, [MCNext]_everything, part' = "emulation"
                PROVE  EmulationInv'
    OBVIOUS
  <2>1. part = "emulation" /\ EmulationInv
    BY DEF MCNext, everything
  <2>2. CASE MCNext
    BY <2>1, <2>2, EmulationNext DEF MCNext
  <2>3. CASE UNCHANGED everything
    <3>1. UNCHANGED <<registers, pc>>
      BY <2>3 DEF everything, exceptions
    <3>2. UNCHANGED E!vars
      BY <3>1 DEF registers, E!vars, E!loop
    <3>. QED
      BY <2>1, <3>2, EmulationSame
  <2>. QED
    BY <2>2, <2>3
<1>3. Inv => EmulatesAll
  BY SoFar DEF EmulatesAll, EmulationInv
<1>. QED
  BY <1>1, <1>2, <1>3, PTL DEF MCFairSpec
=============================================================================
