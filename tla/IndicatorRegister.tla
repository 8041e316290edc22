------------------------- MODULE IndicatorRegister -------------------------
(***************************************************************************)
(* The lamps of the HIB.  One shift register drives them all, and one      *)
(* object stands for it (_hardwareIndicateShiftRegister of                 *)
(* hardware_platform/hib/sensor_hardware.cpp), which both cores use        *)
(* without a lock: core 0 for the WiFi LED                                 *)
(* (board_hardware/hib_led_indicator.h), core 1 for the lamp of each sonar *)
(* (board_hardware/connection_io.cpp).  Each changes its bit in memory,    *)
(* which takes a load and a store, and then clocks all the bits out over   *)
(* the same three pins (board_hardware/shift_register.cpp).                *)
(*                                                                         *)
(* The chip is external: when the clock rises it moves its bits up by one  *)
(* and takes the data pin as the lowest; when the latch rises the lamps    *)
(* show its bits.                                                          *)
(***************************************************************************)
EXTENDS Naturals

CONSTANTS
  NumBits,  \* mNumBits
  Sonars,   \* the sonars, which core 1 updates one after the other
  LED_IDX,  \* the bit of the WiFi LED
  ConnectedIdx  \* of each sonar: the bit of its lamp

Bits == 0..NumBits - 1

ASSUME IndicatorAssumption ==
  /\ NumBits \in Nat \ {0}
  /\ LED_IDX \in Bits
  /\ ConnectedIdx \in [Sonars -> Bits \ {LED_IDX}]

Cores == {0, 1}

VARIABLES
  plugged,        \* the sonars that are connected
  mCurrentValue,  \* the bits that are on in memory
  pc,             \* of each core: the stage of its use of the register
  computed,       \* of each core: what setState is going to store
  bit,            \* of each core: the bit that writeStates is at
  data, clock, latch,  \* the pins
  shifted,        \* the chip's bits that are on
  lamps,          \* the lamps that are on
  updated,        \* core 1: the sonars done in this turn
  alone           \* history, of each core: the other has not interfered with
                  \* its writeStates

pins == <<data, clock, latch>>

chip == <<shifted, lamps>>

vars == <<plugged, mCurrentValue, pc, computed, bit, pins, chip, updated,
          alone>>

(* The chip comes up with any bits.  The register has been initialized on  *)
(* core 0 before core 1 was launched (main.cpp:35-39); later calls return  *)
(* at once (shift_register.cpp:13).                                        *)
Init ==
  /\ plugged \in SUBSET Sonars
  /\ mCurrentValue = {}
  /\ pc = [c \in Cores |-> "idle"]
  /\ computed = [c \in Cores |-> {}]
  /\ bit = [c \in Cores |-> 0]
  /\ data = FALSE /\ clock = FALSE /\ latch = FALSE
  /\ shifted \in SUBSET Bits
  /\ lamps = shifted
  /\ updated = {}
  /\ alone = [c \in Cores |-> FALSE]

Goto(c, from, to) == pc[c] = from /\ pc' = [pc EXCEPT ![c] = to]

----------------------------------------------------------------------------
(* ShiftRegister::setState.                                                *)

(* Core c loads the value in order to set one bit of it, and disturbs the  *)
(* other if that is writing.                                               *)
BeginSetState(c, position, on) ==
  /\ Goto(c, "idle", "store")
  /\ computed' = [computed EXCEPT ![c] =
       IF on THEN mCurrentValue \cup {position} ELSE mCurrentValue \ {position}]
  /\ alone' = [alone EXCEPT ![1 - c] = FALSE]
  /\ UNCHANGED <<plugged, mCurrentValue, bit, pins, chip>>

Store(c) ==
  /\ Goto(c, "store", "latch low")
  /\ mCurrentValue' = computed[c]
  /\ UNCHANGED <<plugged, computed, bit, pins, chip, updated, alone>>

----------------------------------------------------------------------------
(* What sets a bit.                                                        *)

(* HIBLEDIndicator::ledOn and ledOff, at some point of core 0's loop.      *)
SwitchLED ==
  /\ \E on \in BOOLEAN : BeginSetState(0, LED_IDX, on)
  /\ UNCHANGED updated

(* A mutant of UpdateConnection: a bit that is right already is left alone.*)
UpdateConnectionOnChange(s) ==
  /\ s \notin updated
  /\ updated' = updated \cup {s}
  /\ IF s \in plugged <=> ConnectedIdx[s] \in mCurrentValue
       THEN /\ pc[1] = "idle"
            /\ UNCHANGED <<plugged, mCurrentValue, pc, computed, bit, pins, chip,
                           alone>>
       ELSE BeginSetState(1, ConnectedIdx[s], s \in plugged)

(* ConnectionIO::update: the register of the connections, which core 1     *)
(* alone uses, shows which sonars were connected when it was latched.      *)
UpdateConnection(s) ==
  /\ s \notin updated
  /\ updated' = updated \cup {s}
  /\ BeginSetState(1, ConnectedIdx[s], s \in plugged)

(* The end of the sweep.                                                   *)
EndTurn ==
  /\ pc[1] = "idle"
  /\ updated = Sonars
  /\ updated' = {}
  /\ UNCHANGED <<plugged, mCurrentValue, pc, computed, bit, pins, chip,
                 alone>>

----------------------------------------------------------------------------
(* ShiftRegister::writeStates, a step for each pin that it sets.           *)
LatchLow(c) ==
  /\ Goto(c, "latch low", "clock low")
  /\ latch' = FALSE
  /\ bit' = [bit EXCEPT ![c] = NumBits - 1]
  /\ alone' = [alone EXCEPT ![c] = pc[1 - c] = "idle"]
  /\ UNCHANGED <<plugged, mCurrentValue, computed, data, clock, chip,
                 updated>>

ClockLow(c) ==
  /\ Goto(c, "clock low", "data")
  /\ clock' = FALSE
  /\ UNCHANGED <<plugged, mCurrentValue, computed, bit, data, latch,
                 chip, updated, alone>>

PutData(c) ==
  /\ Goto(c, "data", "clock high")
  /\ data' = (bit[c] \in mCurrentValue)
  /\ UNCHANGED <<plugged, mCurrentValue, computed, bit, clock, latch,
                 chip, updated, alone>>

(* The chip when its clock rises.                                          *)
Shift == shifted' = {b \in Bits : IF b = 0 THEN data ELSE b - 1 \in shifted}

(* A mutant of ClockHigh: the lowest bit is left out.                      *)
ClockHighShort(c) ==
  /\ Goto(c, "clock high", IF bit[c] <= 1 THEN "latch high" ELSE "clock low")
  /\ bit' = [bit EXCEPT ![c] = IF @ <= 1 THEN @ ELSE @ - 1]
  /\ clock' = TRUE
  /\ IF clock THEN UNCHANGED shifted ELSE Shift
  /\ UNCHANGED <<plugged, mCurrentValue, computed, data, latch, lamps,
                 updated, alone>>

(* The clock rises unless the other core has raised it already.            *)
ClockHigh(c) ==
  /\ Goto(c, "clock high", IF bit[c] = 0 THEN "latch high" ELSE "clock low")
  /\ bit' = [bit EXCEPT ![c] = IF @ = 0 THEN @ ELSE @ - 1]
  /\ clock' = TRUE
  /\ IF clock THEN UNCHANGED shifted ELSE Shift
  /\ UNCHANGED <<plugged, mCurrentValue, computed, data, latch, lamps,
                 updated, alone>>

LatchHigh(c) ==
  /\ Goto(c, "latch high", "idle")
  /\ latch' = TRUE
  /\ lamps' = IF latch THEN lamps ELSE shifted
  /\ UNCHANGED <<plugged, mCurrentValue, computed, bit, data, clock,
                 shifted, updated, alone>>

SetAndWrite(c) ==
  \/ Store(c)
  \/ LatchLow(c) \/ ClockLow(c) \/ PutData(c) \/ ClockHigh(c) \/ LatchHigh(c)

----------------------------------------------------------------------------
(* A sonar is connected or disconnected.                                   *)
Plug(s) ==
  /\ plugged' = IF s \in plugged THEN plugged \ {s} ELSE plugged \cup {s}
  /\ UNCHANGED <<mCurrentValue, pc, computed, bit, pins, chip, updated,
                 alone>>

Core1 == EndTurn \/ SetAndWrite(1) \/ \E s \in Sonars : UpdateConnection(s)

Next == \/ SwitchLED \/ SetAndWrite(0) \/ Core1
        \/ \E s \in Sonars : Plug(s)

(* Core 1 loops for ever.  Core 0 finishes what it has begun, but may stay *)
(* away from the LED, as while it waits for WiFi.                          *)
Spec == Init /\ [][Next]_vars /\ WF_vars(Core1) /\ WF_vars(SetAndWrite(0))

----------------------------------------------------------------------------
Stages == {"idle", "store", "latch low", "clock low", "data", "clock high",
           "latch high"}

TypeOK ==
  /\ plugged \subseteq Sonars
  /\ mCurrentValue \subseteq Bits
  /\ pc \in [Cores -> Stages]
  /\ computed \in [Cores -> SUBSET Bits]
  /\ bit \in [Cores -> Bits]
  /\ data \in BOOLEAN /\ clock \in BOOLEAN /\ latch \in BOOLEAN
  /\ shifted \subseteq Bits /\ lamps \subseteq Bits
  /\ updated \subseteq Sonars
  /\ alone \in [Cores -> BOOLEAN]

(* Whatever two writers at once did to the pins and to the chip before, a  *)
(* writeStates during which the other core leaves the register alone ends  *)
(* with the lamps as they are in memory (shift_register.cpp:60-80).        *)
CleanWriteShows ==
  [][\A c \in Cores : LatchHigh(c) /\ alone[c] => lamps' = mCurrentValue]_vars

(* When core 0 leaves the LED alone and no sonar is plugged or unplugged   *)
(* any more, the lamps of the sonars become right and stay so, and all of  *)
(* them as in memory, whatever updates were lost between the cores and     *)
(* wherever a write was disturbed (connection_io.cpp:18-22).  That the LED *)
(* is right in memory is not so: core 1 may have undone core 0's change.   *)
IndicatorsSettle ==
  \A p \in SUBSET Sonars :
    <>[](pc[0] = "idle" /\ plugged = p) =>
      <>[](/\ lamps = mCurrentValue
           /\ \A s \in Sonars : ConnectedIdx[s] \in lamps <=> s \in p)

============================================================================
