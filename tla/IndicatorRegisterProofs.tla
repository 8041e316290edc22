---------------------- MODULE IndicatorRegisterProofs ----------------------
(***************************************************************************)
(* Proofs about IndicatorRegister, for a register of any number of bits    *)
(* and any sonars: what a write leaves on the lamps that the other core    *)
(* has not disturbed.                                                      *)
(***************************************************************************)
EXTENDS IndicatorRegister, TLAPS

LEMMA Sizes ==
  /\ NumBits \in Nat \ {0} /\ LED_IDX \in Bits
  /\ \A s \in Sonars : ConnectedIdx[s] \in Bits
BY IndicatorAssumption

LEMMA Others ==
  ASSUME NEW c \in Cores
  PROVE  /\ 1 - c \in Cores /\ 1 - c # c /\ 1 - (1 - c) = c
         /\ \A d \in Cores : d = c \/ d = 1 - c
BY DEF Cores

(* The parts of TypeOK that the proof is about.                            *)
RegisterTypes ==
  /\ mCurrentValue \subseteq Bits /\ shifted \subseteq Bits
  /\ pc \in [Cores -> Stages]
  /\ computed \in [Cores -> SUBSET Bits]
  /\ bit \in [Cores -> Bits]
  /\ alone \in [Cores -> BOOLEAN]

----------------------------------------------------------------------------
(* A core that has been alone since its write began: the other one is not  *)
(* using the register, the latch is low, and the chip's lowest bits are    *)
(* the ones of the memory that have been clocked out, in their order.      *)
Writing == {"clock low", "data", "clock high", "latch high"}

(* The bits above the one that core c is at are in the chip.               *)
ClockedOut(c) ==
  \A j \in 0..NumBits - 2 - bit[c] : j \in shifted <=> bit[c] + 1 + j \in mCurrentValue

CleanWrite(c) ==
  /\ pc[1 - c] = "idle"
  /\ latch = FALSE
  /\ pc[c] \in {"clock low", "data", "clock high"} => ClockedOut(c)
  /\ pc[c] \in {"data", "clock high"} => clock = FALSE
  /\ pc[c] = "clock high" => (data <=> bit[c] \in mCurrentValue)
  /\ pc[c] = "latch high" => shifted = mCurrentValue

RegisterInv ==
  /\ RegisterTypes
  /\ \A c \in Cores : alone[c] /\ pc[c] \in Writing => CleanWrite(c)

LEMMA RegisterInvInit == Init => RegisterInv
<1> SUFFICES ASSUME Init PROVE RegisterInv
  OBVIOUS
<1>1. 0 \in Bits
  BY Sizes DEF Bits
<1>2. RegisterTypes
  BY <1>1 DEF Init, RegisterTypes, Stages
<1>3. \A c \in Cores : ~(pc[c] \in Writing)
  BY DEF Init, Writing
<1>4. QED
  BY <1>2, <1>3 DEF RegisterInv

LEMMA GotoEffect ==
  ASSUME RegisterTypes, NEW c \in Cores, NEW from, NEW to \in Stages, Goto(c, from, to)
  PROVE  /\ pc[c] = from /\ pc'[c] = to /\ pc'[1 - c] = pc[1 - c]
         /\ pc' \in [Cores -> Stages]
BY Others DEF Goto, RegisterTypes

(* A core begins: the other is not alone any more.                         *)
LEMMA BeginKeepsInv ==
  ASSUME RegisterInv, NEW c \in Cores, NEW position \in Bits, NEW on \in BOOLEAN,
         BeginSetState(c, position, on)
  PROVE  RegisterInv'
<1>1. /\ pc'[c] = "store" /\ pc' \in [Cores -> Stages]
      /\ alone'[1 - c] = FALSE /\ alone' \in [Cores -> BOOLEAN]
      /\ UNCHANGED <<mCurrentValue, bit, shifted>>
  BY GotoEffect, Others
     DEF BeginSetState, RegisterInv, RegisterTypes, Stages, chip
<1>2. computed' \in [Cores -> SUBSET Bits]
  <2>1. (IF on THEN mCurrentValue \cup {position} ELSE mCurrentValue \ {position})
          \in SUBSET Bits
    BY DEF RegisterInv, RegisterTypes
  <2>2. QED
    BY <2>1 DEF BeginSetState, RegisterInv, RegisterTypes
<1>3. RegisterTypes'
  BY <1>1, <1>2 DEF RegisterInv, RegisterTypes
<1>4. \A d \in Cores : ~(alone'[d] /\ pc'[d] \in Writing)
  BY <1>1, Others DEF Writing
<1>5. QED
  BY <1>3, <1>4 DEF RegisterInv

(* A step of core c's write: it has no say about the other's, which is not *)
(* alone if it is in the middle of one.                                    *)
LEMMA OneWriter ==
  ASSUME RegisterInv, NEW c \in Cores, RegisterTypes',
         pc[c] # "idle", pc'[1 - c] = pc[1 - c], alone'[1 - c] = alone[1 - c],
         alone'[c] /\ pc'[c] \in Writing => CleanWrite(c)'
  PROVE  RegisterInv'
<1>1. ~(alone'[1 - c] /\ pc'[1 - c] \in Writing)
  <2> SUFFICES ASSUME alone[1 - c], pc[1 - c] \in Writing
               PROVE  FALSE
    OBVIOUS
  <2>1. 1 - c \in Cores /\ 1 - (1 - c) = c
    BY Others
  <2>2. CleanWrite(1 - c)
    BY <2>1 DEF RegisterInv
  <2>3. pc[1 - (1 - c)] = "idle"
    BY <2>2 DEF CleanWrite
  <2> QED
    BY <2>1, <2>3
<1>2. QED
  BY <1>1, Others DEF RegisterInv

LEMMA StoreKeepsInv ==
  ASSUME RegisterInv, NEW c \in Cores, Store(c)
  PROVE  RegisterInv'
<1>1. /\ pc[c] = "store" /\ pc'[c] = "latch low" /\ pc'[1 - c] = pc[1 - c]
      /\ pc' \in [Cores -> Stages]
  BY GotoEffect DEF Store, RegisterInv, Stages
<1>2. RegisterTypes' /\ alone' = alone
  BY <1>1 DEF Store, RegisterInv, RegisterTypes, chip
<1>3. QED
  BY <1>1, <1>2, OneWriter DEF Writing

LEMMA LatchLowKeepsInv ==
  ASSUME RegisterInv, NEW c \in Cores, LatchLow(c)
  PROVE  RegisterInv'
<1>1. /\ pc[c] = "latch low" /\ pc'[c] = "clock low" /\ pc'[1 - c] = pc[1 - c]
      /\ pc' \in [Cores -> Stages]
  BY GotoEffect DEF LatchLow, RegisterInv, Stages
<1>2. NumBits - 1 \in Bits
  BY Sizes DEF Bits
<1>3. /\ bit' \in [Cores -> Bits] /\ bit'[c] = NumBits - 1
      /\ latch' = FALSE
      /\ alone' \in [Cores -> BOOLEAN]
      /\ alone'[c] = (pc[1 - c] = "idle") /\ alone'[1 - c] = alone[1 - c]
      /\ UNCHANGED <<mCurrentValue, computed, shifted>>
  BY <1>2, Others DEF LatchLow, RegisterInv, RegisterTypes, chip
<1>4. RegisterTypes'
  BY <1>1, <1>3 DEF RegisterInv, RegisterTypes
<1>5. ASSUME alone'[c] PROVE CleanWrite(c)'
  <2>1. pc'[1 - c] = "idle"
    BY <1>1, <1>3, <1>5
  <2>2. ClockedOut(c)'
    BY <1>3, Sizes DEF ClockedOut
  <2>3. QED
    BY <1>1, <1>3, <2>1, <2>2 DEF CleanWrite
<1>6. QED
  BY <1>1, <1>3, <1>4, <1>5, OneWriter

LEMMA ClockLowKeepsInv ==
  ASSUME RegisterInv, NEW c \in Cores, ClockLow(c)
  PROVE  RegisterInv'
<1>1. /\ pc[c] = "clock low" /\ pc'[c] = "data" /\ pc'[1 - c] = pc[1 - c]
      /\ pc' \in [Cores -> Stages]
  BY GotoEffect DEF ClockLow, RegisterInv, Stages
<1>2. clock' = FALSE /\ UNCHANGED <<mCurrentValue, computed, bit, latch, shifted, alone>>
  BY DEF ClockLow, chip
<1>3. RegisterTypes'
  BY <1>1, <1>2 DEF RegisterInv, RegisterTypes
<1>4. ASSUME alone'[c] PROVE CleanWrite(c)'
  <2>1. CleanWrite(c)
    BY <1>1, <1>2, <1>4 DEF RegisterInv, Writing
  <2>2. ClockedOut(c)'
    BY <1>1, <1>2, <2>1 DEF CleanWrite, ClockedOut
  <2>3. QED
    BY <1>1, <1>2, <2>1, <2>2 DEF CleanWrite
<1>5. QED
  BY <1>1, <1>2, <1>3, <1>4, OneWriter

LEMMA PutDataKeepsInv ==
  ASSUME RegisterInv, NEW c \in Cores, PutData(c)
  PROVE  RegisterInv'
<1>1. /\ pc[c] = "data" /\ pc'[c] = "clock high" /\ pc'[1 - c] = pc[1 - c]
      /\ pc' \in [Cores -> Stages]
  BY GotoEffect DEF PutData, RegisterInv, Stages
<1>2. /\ data' = (bit[c] \in mCurrentValue)
      /\ UNCHANGED <<mCurrentValue, computed, bit, clock, latch, shifted, alone>>
  BY DEF PutData, chip
<1>3. RegisterTypes'
  BY <1>1, <1>2 DEF RegisterInv, RegisterTypes
<1>4. ASSUME alone'[c] PROVE CleanWrite(c)'
  <2>1. CleanWrite(c)
    BY <1>1, <1>2, <1>4 DEF RegisterInv, Writing
  <2>2. ClockedOut(c)'
    BY <1>1, <1>2, <2>1 DEF CleanWrite, ClockedOut
  <2>3. data' <=> bit'[c] \in mCurrentValue'
    BY <1>2
  <2>4. QED
    BY <1>1, <1>2, <2>1, <2>2, <2>3 DEF CleanWrite
<1>5. QED
  BY <1>1, <1>2, <1>3, <1>4, OneWriter

(* The clock rises: the chip moves up by one and takes the next bit.       *)
LEMMA ClockHighKeepsInv ==
  ASSUME RegisterInv, NEW c \in Cores, ClockHigh(c)
  PROVE  RegisterInv'
<1>1. bit[c] \in Bits /\ NumBits \in Nat \ {0}
      /\ bit[c] \in 0..NumBits - 1
  BY Sizes DEF RegisterInv, RegisterTypes, Bits
<1>2. /\ pc[c] = "clock high"
      /\ pc'[c] = IF bit[c] = 0 THEN "latch high" ELSE "clock low"
      /\ pc'[1 - c] = pc[1 - c]
      /\ pc' \in [Cores -> Stages]
  BY GotoEffect DEF ClockHigh, RegisterInv, Stages
<1>3. /\ bit' = [bit EXCEPT ![c] = IF bit[c] = 0 THEN bit[c] ELSE bit[c] - 1]
      /\ UNCHANGED <<mCurrentValue, computed, latch, alone>>
      /\ IF clock THEN UNCHANGED shifted ELSE Shift
  BY DEF ClockHigh
<1>4. (IF bit[c] = 0 THEN bit[c] ELSE bit[c] - 1) \in Bits
  BY <1>1 DEF Bits
<1>5. /\ bit' \in [Cores -> Bits]
      /\ bit'[c] = IF bit[c] = 0 THEN bit[c] ELSE bit[c] - 1
  BY <1>3, <1>4 DEF RegisterInv, RegisterTypes
<1>6. shifted' \subseteq Bits
  BY <1>3 DEF Shift, RegisterInv, RegisterTypes
<1>7. RegisterTypes'
  BY <1>2, <1>3, <1>5, <1>6 DEF RegisterInv, RegisterTypes
<1>8. ASSUME alone'[c] PROVE CleanWrite(c)'
  <2>1. CleanWrite(c)
    BY <1>2, <1>3, <1>8 DEF RegisterInv, Writing
  <2>2. /\ pc[1 - c] = "idle" /\ latch = FALSE /\ clock = FALSE
        /\ data <=> bit[c] \in mCurrentValue
        /\ \A j \in 0..NumBits - 2 - bit[c] :
             j \in shifted <=> bit[c] + 1 + j \in mCurrentValue
    BY <1>2, <2>1 DEF CleanWrite, ClockedOut
  <2>3. shifted' = {b \in Bits : IF b = 0 THEN data ELSE b - 1 \in shifted}
    BY <1>3, <2>2 DEF Shift
  <2>4. ASSUME NEW j \in 0..NumBits - 1 - bit[c]
        PROVE  j \in shifted' <=> bit[c] + j \in mCurrentValue
    <3>1. j \in Bits
      BY <1>1 DEF Bits
    <3>2. CASE j = 0
      <4>1. j \in shifted' <=> data
        BY <2>3, <3>1, <3>2
      <4>2. bit[c] + j = bit[c]
        BY <1>1, <3>2
      <4>3. QED
        BY <2>2, <4>1, <4>2
    <3>3. CASE j # 0
      <4>1. j \in shifted' <=> j - 1 \in shifted
        BY <2>3, <3>1, <3>3
      <4>2. j - 1 \in 0..NumBits - 2 - bit[c] /\ bit[c] + 1 + (j - 1) = bit[c] + j
        BY <1>1, <3>3
      <4>3. QED
        BY <2>2, <4>1, <4>2
    <3>4. QED
      BY <3>2, <3>3
  <2>5. CASE bit[c] = 0
    <3>1. pc'[c] = "latch high"
      BY <1>2, <2>5
    <3>2. ASSUME NEW j \in Bits
          PROVE  j \in shifted' <=> j \in mCurrentValue
      <4>1. j \in 0..NumBits - 1 - bit[c] /\ bit[c] + j = j
        BY <1>1, <2>5 DEF Bits
      <4>2. QED
        BY <2>4, <4>1
    <3>3. shifted' = mCurrentValue
      BY <1>6, <3>2 DEF RegisterInv, RegisterTypes
    <3>4. QED
      BY <1>2, <1>3, <2>2, <3>1, <3>3 DEF CleanWrite
  <2>6. CASE bit[c] # 0
    <3>1. pc'[c] = "clock low" /\ bit'[c] = bit[c] - 1
      BY <1>2, <1>5, <2>6
    <3>2. /\ NumBits - 2 - bit'[c] = NumBits - 1 - bit[c]
          /\ bit'[c] + 1 = bit[c]
      <4> DEFINE b == bit[c]
      <4>1. b \in Nat /\ NumBits \in Nat
        BY <1>1
      <4> HIDE DEF b
      <4>2. NumBits - 2 - (b - 1) = NumBits - 1 - b /\ (b - 1) + 1 = b
        BY <4>1
      <4>3. QED
        BY <3>1, <4>2 DEF b
    <3>3. ClockedOut(c)'
      BY <1>3, <2>4, <3>2 DEF ClockedOut
    <3>4. QED
      BY <1>2, <1>3, <2>2, <3>1, <3>3 DEF CleanWrite
  <2>7. QED
    BY <2>5, <2>6
<1>9. QED
  BY <1>2, <1>3, <1>7, <1>8, OneWriter

LEMMA LatchHighKeepsInv ==
  ASSUME RegisterInv, NEW c \in Cores, LatchHigh(c)
  PROVE  RegisterInv'
<1>1. /\ pc[c] = "latch high" /\ pc'[c] = "idle" /\ pc'[1 - c] = pc[1 - c]
      /\ pc' \in [Cores -> Stages]
  BY GotoEffect DEF LatchHigh, RegisterInv, Stages
<1>2. UNCHANGED <<mCurrentValue, computed, bit, shifted, alone>>
  BY DEF LatchHigh
<1>3. RegisterTypes'
  BY <1>1, <1>2 DEF RegisterInv, RegisterTypes
<1>4. QED
  BY <1>1, <1>2, <1>3, OneWriter DEF Writing

LEMMA RegisterInvStep == RegisterInv /\ [Next]_vars => RegisterInv'
<1> SUFFICES ASSUME RegisterInv, [Next]_vars PROVE RegisterInv'
  OBVIOUS
<1>1. ASSUME NEW c \in Cores, SetAndWrite(c) PROVE RegisterInv'
  BY <1>1, StoreKeepsInv, LatchLowKeepsInv, ClockLowKeepsInv, PutDataKeepsInv,
     ClockHighKeepsInv, LatchHighKeepsInv DEF SetAndWrite
<1>2. 0 \in Cores /\ 1 \in Cores
  BY DEF Cores
<1>3. CASE SwitchLED
  BY <1>2, <1>3, BeginKeepsInv, Sizes DEF SwitchLED
<1>4. ASSUME NEW s \in Sonars, UpdateConnection(s) PROVE RegisterInv'
  <2>1. BeginSetState(1, ConnectedIdx[s], s \in plugged)
        /\ ConnectedIdx[s] \in Bits /\ (s \in plugged) \in BOOLEAN
    BY <1>4, Sizes DEF UpdateConnection
  <2>2. QED
    BY <1>2, <2>1, BeginKeepsInv
<1>5. ASSUME EndTurn \/ (\E s \in Sonars : Plug(s)) \/ UNCHANGED vars
      PROVE  RegisterInv'
  <2>1. UNCHANGED <<mCurrentValue, pc, computed, bit, pins, chip, alone>>
    BY <1>5 DEF EndTurn, Plug, vars
  <2>2. RegisterTypes'
    BY <2>1 DEF RegisterInv, RegisterTypes, chip
  <2>3. \A c \in Cores : CleanWrite(c) => CleanWrite(c)'
    BY <2>1 DEF CleanWrite, ClockedOut, pins, chip
  <2>4. QED
    BY <2>1, <2>2, <2>3 DEF RegisterInv
<1>6. QED
  BY <1>1, <1>2, <1>3, <1>4, <1>5 DEF Next, Core1

(* A write during which the other core leaves the register alone ends with *)
(* the lamps as they are in memory, whatever two writers at once did to    *)
(* the pins and to the chip before (shift_register.cpp:60-80).             *)
THEOREM CleanWritesShow == Spec => CleanWriteShows
<1>1. ASSUME RegisterInv
      PROVE  \A c \in Cores : LatchHigh(c) /\ alone[c] => lamps' = mCurrentValue
  <2> SUFFICES ASSUME NEW c \in Cores, LatchHigh(c), alone[c]
               PROVE  lamps' = mCurrentValue
    OBVIOUS
  <2>1. pc[c] = "latch high" /\ lamps' = IF latch THEN lamps ELSE shifted
    BY DEF LatchHigh, Goto
  <2>2. latch = FALSE /\ shifted = mCurrentValue
    BY <1>1, <2>1 DEF RegisterInv, Writing, CleanWrite
  <2>3. QED
    BY <2>1, <2>2
<1>2. QED
  BY <1>1, RegisterInvInit, RegisterInvStep, PTL DEF Spec, CleanWriteShows

============================================================================
