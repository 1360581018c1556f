------------------------------- MODULE HpiBus -------------------------------
(***************************************************************************)
(* The way of one word between the program and the USB controller:         *)
(* io_handler.c sets the pins one after the other through parallel ports,  *)
(* hpi_io_intf.sv passes them on one clock later, except that the data bus *)
(* is driven as long as the program's own write pin is low.  The           *)
(* controller (external) takes a word when its write pin rises and gives   *)
(* one while its read pin is low.  All pins are active low.                *)
(***************************************************************************)
EXTENDS Naturals, Sequences

CONSTANTS Registers,  \* of the controller, by address
          Values,     \* what is written to them
          Idle,       \* what is in them, and on the bus, at first
          Gap         \* clocks a program access takes at least

HpiAssumption == Registers # {} /\ Idle \notin Values /\ Gap \in Nat

VARIABLES pio,     \* the ports: address, r, w, cs, data
          pins,    \* their registers in hpi_io_intf.sv
          data_in, \* what the program reads
          held,    \* the last value on the data bus
          chip,    \* the controller's registers
          taken,   \* the last word it took, and how many it took
          todo,    \* the accesses the call under way has still to make
          call,    \* the call
          temp,    \* what IO_read returned
          clocks   \* since the last access

vars == <<pio, pins, data_in, held, chip, taken, todo, call, temp, clocks>>

Low == [address |-> CHOOSE a \in Registers : TRUE, r |-> 0, w |-> 0, cs |-> 0,
        data |-> Idle]

\* The accesses of each function, in order.
IO_init == << <<"cs", 1>>, <<"r", 1>>, <<"w", 1>>, <<"zero", 0>> >>
IO_writeAtOnce(a, d) ==
  << <<"address", a>>, <<"r", 1>>, <<"cs", 0>>, <<"w", 0>>, <<"w", 1>>,
     <<"data", d>>, <<"cs", 1>> >>
IO_write(a, d) ==
  << <<"address", a>>, <<"r", 1>>, <<"cs", 0>>, <<"w", 0>>, <<"data", d>>,
     <<"w", 1>>, <<"cs", 1>> >>
IO_read(a) ==
  << <<"address", a>>, <<"w", 1>>, <<"cs", 0>>, <<"r", 0>>, <<"temp", 0>>,
     <<"r", 1>>, <<"cs", 1>> >>

Init == /\ pio = Low
        /\ pins = [Low EXCEPT !.r = 1, !.w = 1, !.cs = 1]
        /\ data_in = Idle /\ held = Idle
        /\ chip = [a \in Registers |-> Idle]
        /\ taken = [address |-> Low.address, data |-> Idle, count |-> 0]
        /\ todo = IO_init /\ call = [what |-> "init", count |-> 0]
        /\ temp = Idle /\ clocks = 0

\* One access of the program.  It can be interrupted for any time after it.
Access ==
  /\ todo # <<>> /\ clocks = Gap
  /\ LET port == Head(todo)[1]
         v == Head(todo)[2]
     IN  /\ pio' = CASE port = "temp" -> pio
                     [] port = "zero" -> [pio EXCEPT !.data = Idle]
                     [] OTHER -> [pio EXCEPT ![port] = v]
         /\ temp' = IF port = "temp" THEN data_in ELSE temp
  /\ todo' = Tail(todo)
  /\ clocks' = 0
  /\ UNCHANGED <<pins, data_in, held, chip, taken, call>>

Call ==
  /\ todo = <<>> /\ clocks = Gap
  /\ \/ \E a \in Registers, d \in Values :
          /\ todo' = IO_write(a, d)
          /\ call' = [what |-> "write", address |-> a, data |-> d,
                      count |-> taken.count]
     \/ \E a \in Registers :
          /\ todo' = IO_read(a)
          /\ call' = [what |-> "read", address |-> a, data |-> chip[a],
                      count |-> taken.count]
  /\ UNCHANGED <<pio, pins, data_in, held, chip, taken, temp, clocks>>

\* The data bus: driven by the board, or the controller, or by nobody.
Bus == IF pio.w = 0 THEN pins.data
       ELSE IF pins.r = 0 /\ pins.cs = 0 THEN chip[pins.address] ELSE held

\* A clock edge of hpi_io_intf.sv, and the controller taking a word.
Clock ==
  /\ pins' = pio
  /\ data_in' = Bus /\ held' = Bus
  /\ IF pins.w = 0 /\ pio.w = 1 /\ pins.cs = 0 /\ pio.cs = 0
     THEN /\ chip' = [chip EXCEPT ![pins.address] = Bus]
          /\ taken' = [address |-> pins.address, data |-> Bus,
                       count |-> (taken.count + 1) % 3]
     ELSE UNCHANGED <<chip, taken>>
  /\ clocks' = IF clocks < Gap THEN clocks + 1 ELSE clocks
  /\ UNCHANGED <<pio, todo, call, temp>>

Next == Access \/ Call \/ Clock
Spec == Init /\ [][Next]_vars
-----------------------------------------------------------------------------
\* A call of IO_write puts its word into its register, once; no other call
\* writes anything, nor does power-up.
Finished == todo = <<>> /\ clocks = Gap
WordsLand ==
  Finished => IF call.what = "write"
              THEN /\ taken.address = call.address /\ taken.data = call.data
                   /\ taken.count = (call.count + 1) % 3
              ELSE taken.count = call.count

\* A call of IO_read returns what is in its register.
WordsReturn == Finished /\ call.what = "read" => temp = call.data

\* Once the ports are set up, the board and the controller never drive the
\* data bus at once.
OneDriver ==
  call.what = "init" \/ ~ (pio.w = 0 /\ pins.r = 0 /\ pins.cs = 0)
=============================================================================
