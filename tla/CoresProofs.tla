---------------------------- MODULE CoresProofs ----------------------------
(***************************************************************************)
(* Proofs about the two cores.  SensorModule, for every capacity of the    *)
(* two queues, every number of groups with any topics, and every number of *)
(* sweeps and commands.  CoreLocks, whether DEBUG_PRINT is compiled in or  *)
(* not and whether the settings ever change or not: the flash is written   *)
(* alone, and there are just two deadlocks.                                *)
(***************************************************************************)
EXTENDS SensorModule, CoreLocks, SequenceTheorems, TLAPS

(* The queues of the mailbox.                                              *)
After(queue, capacity, m) ==
  IF Len(queue) < capacity THEN Append(queue, m) ELSE <<m>>

LEMMA PutProperties ==
  ASSUME NEW S, NEW queue \in Seq(S), NEW m \in S, NEW capacity \in Nat \ {0}
  PROVE  /\ After(queue, capacity, m) \in Seq(S)
         /\ Len(After(queue, capacity, m)) =
              IF Len(queue) < capacity THEN Len(queue) + 1 ELSE 1
         /\ After(queue, capacity, m)[Len(After(queue, capacity, m))] = m
         /\ \A i \in 1..Len(After(queue, capacity, m)) - 1 :
              Len(queue) < capacity /\ After(queue, capacity, m)[i] = queue[i]
<1>1. CASE Len(queue) < capacity
  BY <1>1, AppendProperties DEF After
<1>2. CASE ~(Len(queue) < capacity)
  BY <1>2 DEF After
<1>3. QED
  BY <1>1, <1>2

LEMMA GetProperties ==
  ASSUME NEW S, NEW queue \in Seq(S), queue # << >>
  PROVE  /\ Head(queue) = queue[1] /\ queue[1] \in S
         /\ Tail(queue) \in Seq(S)
         /\ Len(queue) \in Nat \ {0}
         /\ Len(Tail(queue)) = Len(queue) - 1
         /\ \A i \in 1..Len(queue) - 1 : Tail(queue)[i] = queue[i + 1]
BY HeadTailProperties

LEMMA MaxOfTwo ==
  ASSUME NEW a \in Nat, NEW b \in Nat
  PROVE  Max({a, b}) = IF a >= b THEN a ELSE b
BY DEF Max

----------------------------------------------------------------------------
(* Types, and that commands are numbered from 1 on.                        *)
CommandsAreNumbered ==
  \A i \in 1..Len(controlQueue) : controlQueue[i].number \in 1..commands

BurstCounts == Len(controlQueue) <= burst /\ burst <= longestBurst /\ longestBurst <= commands

TypeInv == TypeOK /\ CommandsAreNumbered /\ BurstCounts

LEMMA Constants ==
  /\ UpdateMessages \in Nat \ {0} /\ ControlMessages \in Nat \ {0}
  /\ NumGroups \in Nat \ {0} /\ 1 \in Groups
  /\ MaxSweeps \in Nat \ {0} /\ MaxCommands \in Nat
  /\ Handles \subseteq Groups
BY ModuleAssumption DEF Groups

LEMMA TypeInvInit == Init => TypeInv
<1> SUFFICES ASSUME Init PROVE TypeInv
  OBVIOUS
<1>1. /\ [g \in Handles |-> 0] \in Settings
      /\ [g \in Handles |-> NoReading] \in Readings
  BY Constants DEF Settings, Readings
<1>2. NoSweepYet \in Sweep /\ NoCommandYet \in Command
  BY <1>1, Constants DEF NoSweepYet, NoCommandYet, Sweep, Command
<1>3. updateQueue = << >> /\ controlQueue = << >>
  BY DEF Init, Updates!Init, Commands!Init
<1>4. CommandsAreNumbered /\ BurstCounts
  BY <1>3 DEF Init, CommandsAreNumbered, BurstCounts
<1>5. TypeOK
  <2>1. updateQueue \in Seq(Sweep) /\ Len(updateQueue) <= UpdateMessages
    BY <1>3, Constants
  <2>2. controlQueue \in Seq(Command) /\ Len(controlQueue) <= ControlMessages
    BY <1>3, Constants
  <2>3. /\ updateRead \in [{"core0"} -> Sweep]
        /\ gotUpdate \in [{"core0"} -> BOOLEAN]
        /\ controlRead \in [{"core1"} -> Command]
        /\ gotCommand \in [{"core1"} -> BOOLEAN]
    BY <1>2 DEF Init, Updates!Init, Commands!Init
  <2>4. published \in Readings
    BY <1>1 DEF Init
  <2>5. setting \in Settings /\ cached \in Readings
    BY <1>1 DEF Init
  <2>6. /\ sweeps \in 0..MaxSweeps
        /\ commands \in 0..MaxCommands
        /\ burst \in 0..MaxCommands /\ longestBurst \in 0..MaxCommands
        /\ pc0 \in Groups \cup {0} /\ pc1 = "control" /\ group \in Groups
    BY Constants DEF Init
  <2>7. connected \in BOOLEAN /\ taken \in SUBSET (1..MaxCommands)
    BY DEF Init
  <2>8. QED
    BY <2>1, <2>2, <2>3, <2>4, <2>5, <2>6, <2>7 DEF TypeOK
<1>6. QED
  BY <1>4, <1>5 DEF TypeInv

(* The steps at the control queue.                                         *)
LEMMA ReceiveCommandEffect ==
  ASSUME TypeInv, NEW t \in Topics, ReceiveCommand(t)
  PROVE  /\ commands' = commands + 1 /\ commands' \in 1..MaxCommands
         /\ burst' = burst + 1
         /\ longestBurst' = IF longestBurst > burst THEN longestBurst ELSE burst + 1
         /\ controlQueue' \in Seq(Command)
         /\ Len(controlQueue') =
              IF Len(controlQueue) < ControlMessages THEN Len(controlQueue) + 1 ELSE 1
         /\ controlQueue'[Len(controlQueue')].number = commands + 1
         /\ \A i \in 1..Len(controlQueue') - 1 :
              /\ Len(controlQueue) < ControlMessages
              /\ controlQueue'[i] = controlQueue[i]
<1> DEFINE m == [number |-> commands', topic |-> t]
<1>1. /\ commands' = commands + 1 /\ commands' \in 1..MaxCommands
      /\ burst' = burst + 1 /\ burst \in Nat /\ longestBurst \in Nat
      /\ longestBurst' = Max({longestBurst, burst + 1})
  BY Constants DEF TypeInv, TypeOK, ReceiveCommand
<1>2. m \in Command /\ m.number = commands + 1
  BY <1>1 DEF Command
<1>3. controlQueue' = After(controlQueue, ControlMessages, m)
  BY DEF ReceiveCommand, Commands!Put, After
<1>4. controlQueue \in Seq(Command) /\ ControlMessages \in Nat \ {0}
  BY Constants DEF TypeInv, TypeOK
<1> HIDE DEF m
<1>5. /\ controlQueue' \in Seq(Command)
      /\ Len(controlQueue') =
           IF Len(controlQueue) < ControlMessages THEN Len(controlQueue) + 1 ELSE 1
      /\ controlQueue'[Len(controlQueue')] = m
      /\ \A i \in 1..Len(controlQueue') - 1 :
           /\ Len(controlQueue) < ControlMessages
           /\ controlQueue'[i] = controlQueue[i]
  BY <1>2, <1>3, <1>4, PutProperties, SMTT(30)
<1>6. longestBurst' = IF longestBurst > burst THEN longestBurst ELSE burst + 1
  BY <1>1, MaxOfTwo
<1>7. QED
  BY <1>1, <1>2, <1>5, <1>6

LEMMA TakeCommandEffect ==
  ASSUME TypeInv, TakeCommand
  PROVE  /\ Len(controlQueue) \in Nat \ {0}
         /\ controlQueue' \in Seq(Command)
         /\ Len(controlQueue') = Len(controlQueue) - 1
         /\ \A i \in 1..Len(controlQueue) - 1 : controlQueue'[i] = controlQueue[i + 1]
         /\ command' = controlQueue[1] /\ command' \in Command
         /\ controlRead' \in [{"core1"} -> Command]
         /\ gotCommand' \in [{"core1"} -> BOOLEAN]
         /\ taken' = taken \cup {controlQueue[1].number}
<1>1. /\ controlQueue \in Seq(Command) /\ controlQueue # << >>
      /\ controlQueue' = Tail(controlQueue)
      /\ controlRead' = [controlRead EXCEPT !["core1"] = Head(controlQueue)]
      /\ gotCommand' = [gotCommand EXCEPT !["core1"] = TRUE]
      /\ controlRead \in [{"core1"} -> Command]
      /\ gotCommand \in [{"core1"} -> BOOLEAN]
      /\ taken' = taken \cup {controlRead'["core1"].number}
  BY DEF TypeInv, TypeOK, TakeCommand, Commands!Get
<1>2. /\ Len(controlQueue) \in Nat \ {0}
      /\ Tail(controlQueue) \in Seq(Command)
      /\ Len(Tail(controlQueue)) = Len(controlQueue) - 1
      /\ \A i \in 1..Len(controlQueue) - 1 : Tail(controlQueue)[i] = controlQueue[i + 1]
      /\ Head(controlQueue) = controlQueue[1] /\ controlQueue[1] \in Command
  BY <1>1, GetProperties
<1>3. controlRead'["core1"] = controlQueue[1]
  BY <1>1, <1>2
<1>4. QED
  BY <1>1, <1>2, <1>3 DEF command

(* The steps at the update queue.                                          *)
LEMMA SendSweepEffect ==
  ASSUME TypeInv, SendSweep
  PROVE  /\ sweeps' \in 1..MaxSweeps
         /\ sweeps' = IF sweeps < MaxSweeps THEN sweeps + 1 ELSE sweeps
         /\ updateQueue' \in Seq(Sweep)
         /\ Len(updateQueue') =
              IF Len(updateQueue) < UpdateMessages THEN Len(updateQueue) + 1 ELSE 1
         /\ updateQueue'[Len(updateQueue')] = [number |-> sweeps', data |-> cached]
         /\ \A i \in 1..Len(updateQueue') - 1 :
              /\ Len(updateQueue) < UpdateMessages
              /\ updateQueue'[i] = updateQueue[i]
<1> DEFINE m == [number |-> sweeps', data |-> cached]
<1>1. /\ sweeps' \in 1..MaxSweeps
      /\ sweeps' = IF sweeps < MaxSweeps THEN sweeps + 1 ELSE sweeps
  BY Constants DEF TypeInv, TypeOK, SendSweep
<1>2. m \in Sweep
  BY <1>1 DEF Sweep, TypeInv, TypeOK
<1>3. updateQueue' = After(updateQueue, UpdateMessages, m)
  BY DEF SendSweep, Updates!Put, After
<1>4. updateQueue \in Seq(Sweep) /\ UpdateMessages \in Nat \ {0}
  BY Constants DEF TypeInv, TypeOK
<1> HIDE DEF m
<1>5. /\ updateQueue' \in Seq(Sweep)
      /\ Len(updateQueue') =
           IF Len(updateQueue) < UpdateMessages THEN Len(updateQueue) + 1 ELSE 1
      /\ updateQueue'[Len(updateQueue')] = m
      /\ \A i \in 1..Len(updateQueue') - 1 :
           /\ Len(updateQueue) < UpdateMessages
           /\ updateQueue'[i] = updateQueue[i]
  BY <1>2, <1>3, <1>4, PutProperties, SMTT(30)
<1>6. QED
  BY <1>1, <1>5 DEF m

LEMMA TakeSweepEffect ==
  ASSUME TypeInv, TakeSweep
  PROVE  /\ Len(updateQueue) \in Nat \ {0}
         /\ updateQueue' \in Seq(Sweep)
         /\ Len(updateQueue') = Len(updateQueue) - 1
         /\ \A i \in 1..Len(updateQueue) - 1 : updateQueue'[i] = updateQueue[i + 1]
         /\ latest' = updateQueue[1] /\ latest' \in Sweep
         /\ updateRead' \in [{"core0"} -> Sweep]
         /\ gotUpdate' \in [{"core0"} -> BOOLEAN]
<1>1. /\ updateQueue \in Seq(Sweep) /\ updateQueue # << >>
      /\ updateQueue' = Tail(updateQueue)
      /\ updateRead' = [updateRead EXCEPT !["core0"] = Head(updateQueue)]
      /\ gotUpdate' = [gotUpdate EXCEPT !["core0"] = TRUE]
      /\ updateRead \in [{"core0"} -> Sweep]
      /\ gotUpdate \in [{"core0"} -> BOOLEAN]
  BY DEF TypeInv, TypeOK, TakeSweep, Updates!Get
<1>2. /\ Len(updateQueue) \in Nat \ {0}
      /\ Tail(updateQueue) \in Seq(Sweep)
      /\ Len(Tail(updateQueue)) = Len(updateQueue) - 1
      /\ \A i \in 1..Len(updateQueue) - 1 : Tail(updateQueue)[i] = updateQueue[i + 1]
      /\ Head(updateQueue) = updateQueue[1] /\ updateQueue[1] \in Sweep
  BY <1>1, GetProperties
<1>3. QED
  BY <1>1, <1>2 DEF latest

LEMMA TypeInvStep == TypeInv /\ [Next]_vars => TypeInv'
<1> SUFFICES ASSUME TypeInv, [Next]_vars PROVE TypeInv'
  OBVIOUS
<1>1. CASE Connect \/ LoseConnection
  BY <1>1
     DEF Connect, LoseConnection, TypeInv, TypeOK, CommandsAreNumbered,
         BurstCounts, updateVars, controlVars, core0Vars, core1Vars
<1>2. ASSUME NEW t \in Topics, ReceiveCommand(t) PROVE TypeInv'
  <2>1. UNCHANGED <<updateVars, connected, core0Vars, core1Vars, controlRead, gotCommand>>
    BY <1>2 DEF ReceiveCommand, Commands!Put
  <2>2. BurstCounts'
    <3>1. /\ commands' = commands + 1 /\ burst' = burst + 1
          /\ longestBurst' = IF longestBurst > burst THEN longestBurst ELSE burst + 1
          /\ Len(controlQueue') =
               IF Len(controlQueue) < ControlMessages THEN Len(controlQueue) + 1 ELSE 1
      BY <1>2, ReceiveCommandEffect
    <3>2. /\ Len(controlQueue) \in Nat /\ {burst, longestBurst, commands} \subseteq Nat
          /\ BurstCounts
      BY DEF TypeInv, TypeOK
    <3>3. QED
      BY <3>1, <3>2 DEF BurstCounts
  <2>3. TypeOK'
    <3>1. /\ controlQueue' \in Seq(Command)
          /\ commands' \in 1..MaxCommands
          /\ burst' = burst + 1
          /\ longestBurst' = IF longestBurst > burst THEN longestBurst ELSE burst + 1
          /\ Len(controlQueue') =
               IF Len(controlQueue) < ControlMessages THEN Len(controlQueue) + 1 ELSE 1
      BY <1>2, ReceiveCommandEffect
    <3>2. Len(controlQueue') <= ControlMessages
      BY <3>1, Constants DEF TypeInv, TypeOK
    <3>3. burst' \in 0..MaxCommands /\ longestBurst' \in 0..MaxCommands
      BY <2>2, <3>1, Constants DEF TypeInv, TypeOK, BurstCounts
    <3>4. QED
      BY <2>1, <3>1, <3>2, <3>3 DEF TypeInv, TypeOK, updateVars, core0Vars, core1Vars
  <2>4. CommandsAreNumbered'
    <3> SUFFICES ASSUME NEW i \in 1..Len(controlQueue')
                 PROVE  controlQueue'[i].number \in 1..commands'
      BY DEF CommandsAreNumbered
    <3>1. i = Len(controlQueue') \/ i \in 1..Len(controlQueue') - 1
      BY <2>3 DEF TypeOK
    <3>2. CASE i = Len(controlQueue')
      BY <1>2, <3>2, ReceiveCommandEffect
    <3>3. CASE i \in 1..Len(controlQueue') - 1
      <4>1. /\ commands' = commands + 1 /\ commands \in Nat
            /\ controlQueue'[i] = controlQueue[i]
            /\ i \in 1..Len(controlQueue)
        BY <1>2, <3>3, ReceiveCommandEffect DEF TypeInv, TypeOK
      <4>2. QED
        BY <4>1 DEF TypeInv, CommandsAreNumbered
    <3>4. QED
      BY <3>1, <3>2, <3>3
  <2>5. QED
    BY <2>2, <2>3, <2>4 DEF TypeInv
<1>3. CASE TakeSweep
  <2>1. TypeOK'
    BY <1>3, TakeSweepEffect, Constants
       DEF TakeSweep, TypeInv, TypeOK, controlVars, core1Vars, netVars
  <2>2. QED
    BY <1>3, <2>1
       DEF TakeSweep, TypeInv, CommandsAreNumbered, BurstCounts, controlVars, netVars
<1>4. CASE NoSweep
  BY <1>4
     DEF NoSweep, Updates!GetNothing, TypeInv, TypeOK, CommandsAreNumbered,
         BurstCounts, controlVars, core0Vars, core1Vars, netVars
<1>5. CASE Publish
  <2>1. published' \in Readings
    <3>1. published \in Readings /\ latest.data \in Readings
      BY DEF TypeInv, TypeOK, latest, Sweep
    <3>2. QED
      BY <1>5, <3>1 DEF Publish, Readings
  <2>2. pc0' \in Groups \cup {0}
    BY <1>5, Constants DEF Publish, TypeInv, TypeOK, Groups
  <2>3. QED
    BY <1>5, <2>1, <2>2
       DEF Publish, TypeInv, TypeOK, CommandsAreNumbered, BurstCounts,
           updateVars, controlVars, core1Vars, netVars
<1>6. CASE TakeCommand
  <2>1. UNCHANGED <<updateVars, core0Vars, group, setting, cached, sweeps, netVars, burst>>
        /\ pc1' = "handle"
    BY <1>6 DEF TakeCommand
  <2>2. controlQueue[1].number \in 1..MaxCommands
    BY <1>6, TakeCommandEffect, Constants DEF TypeInv, TypeOK, CommandsAreNumbered
  <2>3. /\ controlQueue' \in Seq(Command)
        /\ Len(controlQueue') = Len(controlQueue) - 1
        /\ Len(controlQueue) \in Nat /\ burst \in Nat
        /\ taken' \in SUBSET (1..MaxCommands)
        /\ controlRead' \in [{"core1"} -> Command]
        /\ gotCommand' \in [{"core1"} -> BOOLEAN]
    <3>1. taken' = taken \cup {controlQueue[1].number}
      BY <1>6, TakeCommandEffect
    <3>2. taken' \in SUBSET (1..MaxCommands)
      BY <2>2, <3>1 DEF TypeInv, TypeOK
    <3>3. burst \in Nat
      BY DEF TypeInv, TypeOK
    <3>4. QED
      BY <1>6, <3>2, <3>3, TakeCommandEffect
  <2>4. BurstCounts'
    BY <2>1, <2>3 DEF TypeInv, BurstCounts, netVars
  <2>5. TypeOK'
    BY <2>1, <2>3, Constants DEF TypeInv, TypeOK, updateVars, core0Vars, netVars
  <2>6. CommandsAreNumbered'
    <3> SUFFICES ASSUME NEW i \in 1..Len(controlQueue) - 1
                 PROVE  controlQueue'[i].number \in 1..commands
      BY <2>1, <2>3 DEF CommandsAreNumbered, netVars
    <3>1. controlQueue'[i] = controlQueue[i + 1] /\ i + 1 \in 1..Len(controlQueue)
      BY <1>6, <2>3, TakeCommandEffect
    <3>2. QED
      BY <3>1 DEF TypeInv, CommandsAreNumbered
  <2>7. QED
    BY <2>4, <2>5, <2>6 DEF TypeInv
<1>7. CASE HandleCommand
  <2>1. setting' \in Settings
    BY <1>7 DEF HandleCommand, TypeInv, TypeOK, Settings, command, Command
  <2>2. QED
    BY <1>7, <2>1
       DEF HandleCommand, TypeInv, TypeOK, CommandsAreNumbered, BurstCounts,
           updateVars, controlVars, core0Vars, netVars
<1>8. CASE NoCommand
  <2>1. /\ controlQueue = << >> /\ controlQueue' = controlQueue
        /\ controlRead' = controlRead
        /\ gotCommand' \in [{"core1"} -> BOOLEAN]
    BY <1>8 DEF NoCommand, Commands!GetNothing, TypeInv, TypeOK
  <2>2. QED
    BY <1>8, <2>1, Constants
       DEF NoCommand, TypeInv, TypeOK, CommandsAreNumbered, BurstCounts,
           updateVars, core0Vars, netVars
<1>9. CASE UpdateGroup
  <2>1. cached' \in Readings /\ group' \in Groups /\ pc1' \in {"update", "send"}
    <3>1. cached \in Readings /\ setting \in Settings /\ group \in Groups
      BY DEF TypeInv, TypeOK
    <3>2. cached' \in Readings
      BY <1>9, <3>1 DEF UpdateGroup, Update, Settings, Readings
    <3>3. group' \in Groups
      BY <1>9, <3>1, Constants DEF UpdateGroup, Groups
    <3>4. pc1' \in {"update", "send"}
      BY <1>9 DEF UpdateGroup
    <3> QED
      BY <3>2, <3>3, <3>4
  <2>2. QED
    BY <1>9, <2>1
       DEF UpdateGroup, TypeInv, TypeOK, CommandsAreNumbered, BurstCounts,
           updateVars, controlVars, core0Vars, netVars
<1>10. CASE SendSweep
  <2>1. UNCHANGED <<updateRead, gotUpdate, controlVars, core0Vars, group, setting,
                    cached, taken, netVars, burst>>
        /\ pc1' = "control"
    BY <1>10 DEF SendSweep, Updates!Put
  <2>2. /\ sweeps' \in 0..MaxSweeps /\ updateQueue' \in Seq(Sweep)
        /\ Len(updateQueue') <= UpdateMessages
    <3>1. /\ sweeps' \in 1..MaxSweeps /\ updateQueue' \in Seq(Sweep)
          /\ Len(updateQueue') =
               IF Len(updateQueue) < UpdateMessages THEN Len(updateQueue) + 1 ELSE 1
      BY <1>10, SendSweepEffect
    <3>2. updateQueue \in Seq(Sweep) /\ Len(updateQueue) \in Nat
      BY DEF TypeInv, TypeOK
    <3>3. QED
      BY <3>1, <3>2, Constants
  <2>3. TypeOK'
    BY <2>1, <2>2
       DEF TypeInv, TypeOK, controlVars, core0Vars, netVars
  <2>4. QED
    BY <2>1, <2>3
       DEF TypeInv, CommandsAreNumbered, BurstCounts, controlVars, netVars
<1>11. CASE UNCHANGED vars
  BY <1>11
     DEF vars, TypeInv, TypeOK, CommandsAreNumbered, BurstCounts, updateVars,
         controlVars, core0Vars, core1Vars, netVars
<1>12. QED
  BY <1>1, <1>2, <1>3, <1>4, <1>5, <1>6, <1>7, <1>8, <1>9, <1>10, <1>11
     DEF Next, Core0, Core1, Network

(* No message outgrows its queue and every variable stays in its type.     *)
THEOREM TypeCorrect == Spec => []TypeOK
<1>1. Spec => []TypeInv
  BY TypeInvInit, TypeInvStep, PTL DEF Spec
<1>2. TypeInv => TypeOK
  BY DEF TypeInv
<1>3. QED
  BY <1>1, <1>2, PTL

----------------------------------------------------------------------------
(* Commands.  The steps that leave the control queue and what is counted   *)
(* about it alone.                                                         *)
CommandCounts == <<controlQueue, commands, taken, longestBurst>>

LEMMA CommandCountsUnchanged ==
  ASSUME TypeInv, [Next]_vars, ~TakeCommand,
         ~\E t \in Topics : ReceiveCommand(t)
  PROVE  UNCHANGED CommandCounts
<1> USE DEF CommandCounts, updateVars, controlVars, core0Vars, core1Vars, netVars
<1>1. CASE Network
  BY <1>1 DEF Network, Connect, LoseConnection
<1>2. CASE Core0
  BY <1>2 DEF Core0, TakeSweep, NoSweep, Publish
<1>3. CASE Core1
  BY <1>3
     DEF Core1, HandleCommand, NoCommand, UpdateGroup, SendSweep, Commands!GetNothing
<1>4. CASE UNCHANGED vars
  BY <1>4 DEF vars
<1>5. QED
  BY <1>1, <1>2, <1>3, <1>4 DEF Next

(* What is pending after a command was put into a queue with room, or      *)
(* taken from it.                                                          *)
LEMMA ReceivedIsPending ==
  ASSUME TypeInv, NEW t \in Topics, ReceiveCommand(t),
         Len(controlQueue) < ControlMessages
  PROVE  Pending' = Pending \cup {commands + 1}
<1>1. /\ Len(controlQueue') =
           IF Len(controlQueue) < ControlMessages THEN Len(controlQueue) + 1 ELSE 1
      /\ controlQueue'[Len(controlQueue')].number = commands + 1
      /\ \A i \in 1..Len(controlQueue') - 1 : controlQueue'[i] = controlQueue[i]
  BY ReceiveCommandEffect
<1>2. Len(controlQueue) \in Nat
  BY DEF TypeInv, TypeOK
<1>3. /\ Len(controlQueue') = Len(controlQueue) + 1
      /\ controlQueue'[Len(controlQueue) + 1].number = commands + 1
      /\ \A i \in 1..Len(controlQueue) : controlQueue'[i] = controlQueue[i]
  BY <1>1, <1>2
<1> QED
  BY <1>2, <1>3 DEF Pending

LEMMA TakenWasPending ==
  ASSUME TypeInv, TakeCommand
  PROVE  Pending' \cup taken' = Pending \cup taken
<1>1. /\ Len(controlQueue) \in Nat \ {0}
      /\ Len(controlQueue') = Len(controlQueue) - 1
      /\ \A i \in 1..Len(controlQueue) - 1 : controlQueue'[i] = controlQueue[i + 1]
      /\ taken' = taken \cup {controlQueue[1].number}
  BY TakeCommandEffect
<1>2. Pending' = {controlQueue[i + 1].number : i \in 1..Len(controlQueue) - 1}
  BY <1>1 DEF Pending
<1>3. Pending = {controlQueue[1].number} \cup Pending'
  <2>1. ASSUME NEW n \in Pending
        PROVE  n = controlQueue[1].number \/ n \in Pending'
    <3>1. PICK i \in 1..Len(controlQueue) : n = controlQueue[i].number
      BY DEF Pending
    <3>2. CASE i # 1
      <4>1. i - 1 \in 1..Len(controlQueue) - 1 /\ i = (i - 1) + 1
        BY <1>1, <3>2
      <4>2. QED
        BY <1>2, <3>1, <4>1
    <3>3. QED
      BY <3>1, <3>2
  <2>2. ASSUME NEW n \in Pending'
        PROVE  n \in Pending
    <3>1. PICK i \in 1..Len(controlQueue) - 1 : n = controlQueue[i + 1].number
      BY <1>2
    <3>2. i + 1 \in 1..Len(controlQueue)
      BY <1>1
    <3>3. QED
      BY <3>1, <3>2 DEF Pending
  <2>3. controlQueue[1].number \in Pending
    BY <1>1 DEF Pending
  <2>4. QED
    BY <2>1, <2>2, <2>3
<1>4. QED
  BY <1>1, <1>3

LEMMA NoLossStep ==
  TypeInv /\ NoLossWithoutBurst /\ [Next]_vars => NoLossWithoutBurst'
<1> SUFFICES ASSUME TypeInv, NoLossWithoutBurst, [Next]_vars
             PROVE  NoLossWithoutBurst'
  OBVIOUS
<1>1. ASSUME NEW t \in Topics, ReceiveCommand(t)
      PROVE  NoLossWithoutBurst'
  <2> SUFFICES ASSUME longestBurst' <= ControlMessages
               PROVE  1..commands' = Pending' \cup taken'
    BY DEF NoLossWithoutBurst
  <2>1. /\ commands' = commands + 1 /\ taken' = taken
        /\ longestBurst' = IF longestBurst > burst THEN longestBurst ELSE burst + 1
    BY <1>1, ReceiveCommandEffect DEF ReceiveCommand, core1Vars
  <2>2. Len(controlQueue) < ControlMessages /\ longestBurst <= ControlMessages
    BY <2>1, Constants DEF TypeInv, TypeOK, BurstCounts
  <2>3. 1..commands = Pending \cup taken
    BY <2>2 DEF NoLossWithoutBurst
  <2>4. Pending' = Pending \cup {commands + 1}
    BY <1>1, <2>2, ReceivedIsPending
  <2>5. 1..commands + 1 = (1..commands) \cup {commands + 1}
    BY DEF TypeInv, TypeOK
  <2>6. QED
    BY <2>1, <2>3, <2>4, <2>5
<1>2. CASE TakeCommand
  <2>1. Pending' \cup taken' = Pending \cup taken
    BY <1>2, TakenWasPending
  <2>2. commands' = commands /\ longestBurst' = longestBurst
    BY <1>2 DEF TakeCommand, netVars
  <2>3. QED
    BY <2>1, <2>2 DEF NoLossWithoutBurst
<1>3. CASE ~TakeCommand /\ ~\E t \in Topics : ReceiveCommand(t)
  BY <1>3, CommandCountsUnchanged DEF CommandCounts, NoLossWithoutBurst, Pending
<1>4. QED
  BY <1>1, <1>2, <1>3

(* Unless more commands than the queue holds arrive during one turn of     *)
(* core 1's loop, every command is pending or has been taken               *)
(* (core_message_queue.h:24-39).                                           *)
THEOREM NoCommandIsLost == Spec => []NoLossWithoutBurst
<1>1. Init => TypeInv /\ NoLossWithoutBurst
  <2> SUFFICES ASSUME Init PROVE NoLossWithoutBurst
    BY TypeInvInit
  <2>1. controlQueue = << >> /\ commands = 0 /\ taken = {}
    BY DEF Init, Commands!Init
  <2>2. QED
    BY <2>1 DEF NoLossWithoutBurst, Pending
<1>2. QED
  BY <1>1, TypeInvStep, NoLossStep, PTL DEF Spec

----------------------------------------------------------------------------
(* The order of sweeps.  Those that are pending are newer than what core 0 *)
(* took last, each than those before it, and the i-th of n is at most      *)
(* n - i behind core 1; all but those that bear the last number.           *)
Newer(m, n) == m.number > n.number \/ m.number = MaxSweeps

SweepsInOrder ==
  /\ latest.number <= sweeps
  /\ \A i \in 1..Len(updateQueue) :
       /\ updateQueue[i].number <= sweeps
       /\ updateQueue[i].number + (Len(updateQueue) - i) >= sweeps
       /\ Newer(updateQueue[i], latest)
       /\ \A j \in 1..i - 1 : Newer(updateQueue[i], updateQueue[j])

LEMMA SweepTypes ==
  ASSUME TypeInv
  PROVE  /\ Len(updateQueue) \in 0..UpdateMessages
         /\ \A i \in 1..Len(updateQueue) : updateQueue[i].number \in 0..MaxSweeps
         /\ latest.number \in 0..MaxSweeps
         /\ sweeps \in 0..MaxSweeps
<1>1. /\ updateQueue \in Seq(Sweep) /\ Len(updateQueue) <= UpdateMessages
      /\ latest \in Sweep /\ sweeps \in 0..MaxSweeps
  BY DEF TypeInv, TypeOK, latest
<1>2. \A i \in 1..Len(updateQueue) : updateQueue[i] \in Sweep
  BY <1>1
<1>3. \A m \in Sweep : m.number \in 0..MaxSweeps
  BY DEF Sweep
<1>4. QED
  BY <1>1, <1>2, <1>3, Constants

LEMMA SendKeepsOrder ==
  ASSUME TypeInv, SweepsInOrder, SendSweep
  PROVE  SweepsInOrder'
<1>1. latest' = latest
  BY DEF SendSweep, Updates!Put, latest
<1>2. /\ sweeps' \in 1..MaxSweeps
      /\ sweeps' = IF sweeps < MaxSweeps THEN sweeps + 1 ELSE sweeps
      /\ Len(updateQueue') =
           IF Len(updateQueue) < UpdateMessages THEN Len(updateQueue) + 1 ELSE 1
      /\ updateQueue'[Len(updateQueue')] = [number |-> sweeps', data |-> cached]
      /\ \A i \in 1..Len(updateQueue') - 1 :
           Len(updateQueue) < UpdateMessages /\ updateQueue'[i] = updateQueue[i]
  BY SendSweepEffect
<1>3. updateQueue'[Len(updateQueue')].number = sweeps'
  BY <1>2
<1>4. Len(updateQueue') \in Nat \ {0}
  BY <1>2, SweepTypes
<1>5. ASSUME NEW n \in 0..MaxSweeps, n <= sweeps
      PROVE  sweeps' > n \/ sweeps' = MaxSweeps
  <2>1. sweeps \in 0..MaxSweeps /\ sweeps' = IF sweeps < MaxSweeps THEN sweeps + 1 ELSE sweeps
    BY <1>2, SweepTypes
  <2>2. QED
    BY <1>5, <2>1, Constants
<1>6. ASSUME NEW i \in 1..Len(updateQueue')
      PROVE  /\ updateQueue'[i].number <= sweeps'
             /\ updateQueue'[i].number + (Len(updateQueue') - i) >= sweeps'
             /\ Newer(updateQueue'[i], latest)
             /\ \A j \in 1..i - 1 : Newer(updateQueue'[i], updateQueue'[j])
  <2>1. CASE i = Len(updateQueue')
    <3>1. Newer(updateQueue'[i], latest)
      BY <1>3, <1>5, <2>1, SweepTypes DEF Newer, SweepsInOrder
    <3>2. ASSUME NEW j \in 1..i - 1
          PROVE  Newer(updateQueue'[i], updateQueue'[j])
      <4>1. j \in 1..Len(updateQueue) /\ updateQueue'[j] = updateQueue[j]
        BY <1>2, <1>4, <2>1, SweepTypes
      <4>2. QED
        BY <1>3, <1>5, <2>1, <4>1, SweepTypes DEF Newer, SweepsInOrder
    <3>3. QED
      BY <1>2, <1>3, <1>4, <2>1, <3>1, <3>2
  <2>2. CASE i # Len(updateQueue')
    <3>1. /\ i \in 1..Len(updateQueue') - 1
          /\ Len(updateQueue') = Len(updateQueue) + 1
          /\ i \in 1..Len(updateQueue)
          /\ \A j \in 1..i : updateQueue'[j] = updateQueue[j]
      BY <1>2, <1>4, <2>2, SweepTypes
    <3>2. \A j \in 1..i - 1 : Newer(updateQueue'[i], updateQueue'[j])
      BY <3>1 DEF SweepsInOrder
    <3>3. /\ updateQueue'[i].number \in 0..MaxSweeps
          /\ updateQueue'[i].number <= sweeps
          /\ updateQueue'[i].number + (Len(updateQueue) - i) >= sweeps
          /\ Newer(updateQueue'[i], latest)
      BY <3>1, SweepTypes DEF SweepsInOrder
    <3>4. /\ sweeps \in 0..MaxSweeps
          /\ sweeps' = IF sweeps < MaxSweeps THEN sweeps + 1 ELSE sweeps
          /\ Len(updateQueue) \in Nat
      BY <1>2, SweepTypes
    <3>5. QED
      BY <3>1, <3>2, <3>3, <3>4
  <2>3. QED
    BY <2>1, <2>2
<1>7. latest'.number <= sweeps'
  BY <1>1, <1>2, SweepTypes DEF SweepsInOrder
<1>8. QED
  BY <1>1, <1>6, <1>7 DEF SweepsInOrder, Newer

LEMMA TakeKeepsOrder ==
  ASSUME TypeInv, SweepsInOrder, TakeSweep
  PROVE  SweepsInOrder'
<1>1. /\ Len(updateQueue) \in Nat \ {0}
      /\ Len(updateQueue') = Len(updateQueue) - 1
      /\ \A i \in 1..Len(updateQueue) - 1 : updateQueue'[i] = updateQueue[i + 1]
      /\ latest' = updateQueue[1]
  BY TakeSweepEffect
<1>2. sweeps' = sweeps
  BY DEF TakeSweep, core1Vars
<1>3. ASSUME NEW i \in 1..Len(updateQueue')
      PROVE  /\ updateQueue'[i].number <= sweeps
             /\ updateQueue'[i].number + (Len(updateQueue') - i) >= sweeps
             /\ Newer(updateQueue'[i], updateQueue[1])
             /\ \A j \in 1..i - 1 : Newer(updateQueue'[i], updateQueue'[j])
  <2>1. /\ updateQueue'[i] = updateQueue[i + 1]
        /\ i + 1 \in 1..Len(updateQueue)
        /\ 1 \in 1..(i + 1) - 1
        /\ \A j \in 1..i - 1 : /\ updateQueue'[j] = updateQueue[j + 1]
                               /\ j + 1 \in 1..(i + 1) - 1
        /\ Len(updateQueue') - i = Len(updateQueue) - (i + 1)
    BY <1>1
  <2>2. QED
    BY <2>1 DEF SweepsInOrder
<1>4. latest'.number <= sweeps'
  BY <1>1, <1>2 DEF SweepsInOrder
<1>5. QED
  BY <1>1, <1>2, <1>3, <1>4 DEF SweepsInOrder, Newer

LEMMA SweepsInOrderStep ==
  ASSUME TypeInv, SweepsInOrder, [Next]_vars
  PROVE  SweepsInOrder'
<1>1. CASE SendSweep
  BY <1>1, SendKeepsOrder
<1>2. CASE TakeSweep
  BY <1>2, TakeKeepsOrder
<1>3. CASE ~SendSweep /\ ~TakeSweep
  <2>1. UNCHANGED <<updateQueue, updateRead, sweeps>>
    BY <1>3
       DEF Next, Core0, Core1, Network, NoSweep, Publish, TakeCommand,
           HandleCommand, NoCommand, UpdateGroup, Connect, LoseConnection,
           ReceiveCommand, Updates!GetNothing, vars, updateVars, core1Vars
  <2>2. QED
    BY <2>1 DEF SweepsInOrder, Newer, latest
<1>4. QED
  BY <1>1, <1>2, <1>3

(* Every sweep that core 0 takes to publish is newer than all that it took *)
(* before, and fewer than UpdateMessages sweeps behind core 1              *)
(* (multicore_mailbox.cpp:18-24).                                          *)
THEOREM TakenInOrder == Spec => FreshInOrder
<1>1. Init => TypeInv /\ SweepsInOrder
  <2> SUFFICES ASSUME Init PROVE SweepsInOrder
    BY TypeInvInit
  <2>1. updateQueue = << >> /\ latest = NoSweepYet /\ sweeps = 0
    BY DEF Init, Updates!Init, latest
  <2>2. QED
    BY <2>1 DEF SweepsInOrder, NoSweepYet
<1>2. ASSUME TypeInv, SweepsInOrder, TakeSweep
      PROVE  /\ latest'.number > latest.number \/ latest'.number = MaxSweeps
             /\ latest'.number + UpdateMessages > sweeps
  <2>1. latest' = updateQueue[1] /\ 1 \in 1..Len(updateQueue)
    BY <1>2, TakeSweepEffect
  <2>2. /\ Newer(latest', latest)
        /\ latest'.number + (Len(updateQueue) - 1) >= sweeps
    BY <1>2, <2>1 DEF SweepsInOrder
  <2>3. /\ Len(updateQueue) \in 0..UpdateMessages /\ sweeps \in 0..MaxSweeps
        /\ latest'.number \in 0..MaxSweeps
    BY <1>2, <2>1, SweepTypes
  <2>4. QED
    BY <2>2, <2>3, Constants DEF Newer
<1>3. QED
  BY <1>1, <1>2, TypeInvStep, SweepsInOrderStep, PTL DEF Spec, FreshInOrder

----------------------------------------------------------------------------
(* The order of effects.  Pending commands are newer than the one that     *)
(* core 1 took last, each than those before it, so settings only grow.     *)
CommandsInOrder ==
  /\ command.number <= commands
  /\ \A h \in Handles : setting[h] <= command.number
  /\ \A i \in 1..Len(controlQueue) :
       /\ command.number < controlQueue[i].number
       /\ \A j \in 1..i - 1 : controlQueue[j].number < controlQueue[i].number

(* A reading goes from the sensor over the cache, the queue and the sweep  *)
(* that core 0 took to the broker.  What is further on the way is no newer *)
(* than what is behind it, unless there is no reading there.               *)
Before(a, b) == b # NoReading => a <= b

InOrder(h) ==
  /\ published[h] <= setting[h]
  /\ latest.data[h] <= setting[h]
  /\ cached[h] <= setting[h]
  /\ Before(published[h], latest.data[h])
  /\ Before(published[h], cached[h])
  /\ Before(latest.data[h], cached[h])
  /\ \A i \in 1..Len(updateQueue) :
       /\ updateQueue[i].data[h] <= setting[h]
       /\ Before(published[h], updateQueue[i].data[h])
       /\ Before(latest.data[h], updateQueue[i].data[h])
       /\ Before(updateQueue[i].data[h], cached[h])
       /\ \A j \in 1..i - 1 : Before(updateQueue[j].data[h], updateQueue[i].data[h])

EffectsInOrder == \A h \in Handles : InOrder(h)

LEMMA CommandTypes ==
  ASSUME TypeInv
  PROVE  /\ Len(controlQueue) \in Nat
         /\ \A i \in 1..Len(controlQueue) :
              controlQueue[i].number \in Nat /\ controlQueue[i].number <= commands
         /\ command.number \in Nat
         /\ commands \in Nat
         /\ \A h \in Handles : setting[h] \in Nat
<1>1. /\ controlQueue \in Seq(Command)
      /\ command \in Command /\ commands \in 0..MaxCommands
      /\ setting \in Settings
      /\ \A i \in 1..Len(controlQueue) : controlQueue[i].number \in 1..commands
  BY DEF TypeInv, TypeOK, CommandsAreNumbered, command
<1>2. \A m \in Command : m.number \in Nat
  BY DEF Command
<1>3. QED
  BY <1>1, <1>2, Constants DEF Settings

LEMMA DataTypes ==
  ASSUME TypeInv, NEW h \in Handles
  PROVE  /\ Len(updateQueue) \in Nat
         /\ \A i \in 1..Len(updateQueue) : updateQueue[i].data[h] \in Int
         /\ latest.data[h] \in Int /\ cached[h] \in Int /\ published[h] \in Int
         /\ setting[h] \in Nat
<1>1. \A r \in Readings : r[h] \in Int
  BY Constants DEF Readings, NoReading
<1>2. \A m \in Sweep : m.data \in Readings
  BY DEF Sweep
<1>3. /\ updateQueue \in Seq(Sweep)
      /\ latest \in Sweep
      /\ published \in Readings /\ cached \in Readings /\ setting \in Settings
  BY DEF TypeInv, TypeOK, latest
<1>4. QED
  BY <1>1, <1>2, <1>3, Constants DEF Settings

LEMMA CommandsInOrderStep ==
  ASSUME TypeInv, CommandsInOrder, [Next]_vars
  PROVE  CommandsInOrder' /\ \A h \in Handles : setting[h] <= setting'[h]
<1>1. ASSUME NEW t \in Topics, ReceiveCommand(t)
      PROVE  CommandsInOrder' /\ setting' = setting
  <2>1. command' = command /\ setting' = setting
    BY <1>1 DEF ReceiveCommand, Commands!Put, command, core1Vars
  <2>2. /\ commands' = commands + 1
        /\ Len(controlQueue') \in Nat \ {0}
        /\ controlQueue'[Len(controlQueue')].number = commands + 1
        /\ \A i \in 1..Len(controlQueue') - 1 :
             i \in 1..Len(controlQueue) /\ controlQueue'[i] = controlQueue[i]
    <3>1. /\ commands' = commands + 1
          /\ Len(controlQueue') =
               IF Len(controlQueue) < ControlMessages THEN Len(controlQueue) + 1 ELSE 1
          /\ controlQueue'[Len(controlQueue')].number = commands + 1
          /\ \A i \in 1..Len(controlQueue') - 1 :
               Len(controlQueue) < ControlMessages /\ controlQueue'[i] = controlQueue[i]
      BY <1>1, ReceiveCommandEffect
    <3>2. Len(controlQueue) \in Nat
      BY CommandTypes
    <3>3. QED
      BY <3>1, <3>2
  <2>3. ASSUME NEW i \in 1..Len(controlQueue')
        PROVE  /\ command.number < controlQueue'[i].number
               /\ \A j \in 1..i - 1 : controlQueue'[j].number < controlQueue'[i].number
    <3>1. CASE i = Len(controlQueue')
      <4>1. command.number < controlQueue'[i].number
        BY <2>2, <3>1, CommandTypes DEF CommandsInOrder
      <4>2. ASSUME NEW j \in 1..i - 1
            PROVE  controlQueue'[j].number < controlQueue'[i].number
        <5>1. j \in 1..Len(controlQueue) /\ controlQueue'[j] = controlQueue[j]
          BY <2>2, <3>1
        <5>2. QED
          BY <2>2, <3>1, <5>1, CommandTypes
      <4>3. QED
        BY <4>1, <4>2
    <3>2. CASE i # Len(controlQueue')
      <4>1. /\ i \in 1..Len(controlQueue) /\ controlQueue'[i] = controlQueue[i]
            /\ \A j \in 1..i - 1 : controlQueue'[j] = controlQueue[j]
        BY <2>2, <3>2
      <4>2. QED
        BY <4>1 DEF CommandsInOrder
    <3>3. QED
      BY <3>1, <3>2
  <2>4. command'.number <= commands'
    BY <2>1, <2>2, CommandTypes DEF CommandsInOrder
  <2>5. QED
    BY <2>1, <2>3, <2>4 DEF CommandsInOrder
<1>2. CASE TakeCommand
  <2>1. setting' = setting /\ commands' = commands
    BY <1>2 DEF TakeCommand, netVars
  <2>2. /\ Len(controlQueue) \in Nat \ {0}
        /\ Len(controlQueue') = Len(controlQueue) - 1
        /\ \A i \in 1..Len(controlQueue) - 1 : controlQueue'[i] = controlQueue[i + 1]
        /\ command' = controlQueue[1]
    BY <1>2, TakeCommandEffect
  <2>3. ASSUME NEW i \in 1..Len(controlQueue')
        PROVE  /\ command'.number < controlQueue'[i].number
               /\ \A j \in 1..i - 1 : controlQueue'[j].number < controlQueue'[i].number
    <3>1. /\ controlQueue'[i] = controlQueue[i + 1]
          /\ i + 1 \in 1..Len(controlQueue)
          /\ 1 \in 1..(i + 1) - 1
          /\ \A j \in 1..i - 1 : /\ controlQueue'[j] = controlQueue[j + 1]
                                 /\ j + 1 \in 1..(i + 1) - 1
      BY <2>2
    <3>2. QED
      BY <2>2, <3>1 DEF CommandsInOrder
  <2>4. /\ command'.number <= commands
        /\ \A h \in Handles : setting[h] <= command'.number
    <3>1. 1 \in 1..Len(controlQueue)
      BY <2>2
    <3>2. command.number < command'.number /\ command'.number \in Nat
          /\ command'.number <= commands
      BY <2>2, <3>1, CommandTypes DEF CommandsInOrder
    <3>3. QED
      BY <3>2, CommandTypes DEF CommandsInOrder
  <2>5. QED
    BY <2>1, <2>3, <2>4, CommandTypes DEF CommandsInOrder
<1>3. CASE HandleCommand
  <2>1. UNCHANGED <<controlQueue, command, commands>>
    BY <1>3 DEF HandleCommand, controlVars, netVars, command
  <2>2. \A h \in Handles : setting'[h] = command.number \/ setting'[h] = setting[h]
    BY <1>3 DEF HandleCommand
  <2>3. \A h \in Handles : setting'[h] <= command.number /\ setting[h] <= setting'[h]
    BY <2>2, CommandTypes DEF CommandsInOrder
  <2>4. QED
    BY <2>1, <2>3 DEF CommandsInOrder
<1>4. CASE ~TakeCommand /\ ~HandleCommand /\ ~\E t \in Topics : ReceiveCommand(t)
  <2>1. UNCHANGED <<controlQueue, controlRead, commands, setting>>
    BY <1>4
       DEF Next, Core0, Core1, Network, TakeSweep, NoSweep, Publish, NoCommand,
           UpdateGroup, SendSweep, Connect, LoseConnection,
           Commands!GetNothing, vars, controlVars, core1Vars, netVars
  <2>2. QED
    BY <2>1, CommandTypes DEF CommandsInOrder, command
<1>5. QED
  BY <1>1, <1>2, <1>3, <1>4, CommandTypes

LEMMA SendKeepsEffects ==
  ASSUME TypeInv, NEW h \in Handles, InOrder(h), SendSweep
  PROVE  InOrder(h)'
<1>1. UNCHANGED <<cached, setting, latest, published>>
  BY DEF SendSweep, Updates!Put, latest, core0Vars
<1>2. /\ Len(updateQueue') =
           IF Len(updateQueue) < UpdateMessages THEN Len(updateQueue) + 1 ELSE 1
      /\ updateQueue'[Len(updateQueue')] = [number |-> sweeps', data |-> cached]
      /\ \A i \in 1..Len(updateQueue') - 1 :
           Len(updateQueue) < UpdateMessages /\ updateQueue'[i] = updateQueue[i]
  BY SendSweepEffect
<1>3. /\ updateQueue'[Len(updateQueue')].data[h] = cached[h]
      /\ Len(updateQueue') \in Nat \ {0}
      /\ \A i \in 1..Len(updateQueue') - 1 :
           i \in 1..Len(updateQueue) /\ updateQueue'[i] = updateQueue[i]
  BY <1>2, DataTypes
<1>4. ASSUME NEW i \in 1..Len(updateQueue')
      PROVE  /\ updateQueue'[i].data[h] <= setting[h]
             /\ Before(published[h], updateQueue'[i].data[h])
             /\ Before(latest.data[h], updateQueue'[i].data[h])
             /\ Before(updateQueue'[i].data[h], cached[h])
             /\ \A j \in 1..i - 1 :
                  Before(updateQueue'[j].data[h], updateQueue'[i].data[h])
  <2>1. CASE i = Len(updateQueue')
    <3>1. ASSUME NEW j \in 1..i - 1
          PROVE  Before(updateQueue'[j].data[h], cached[h])
      <4>1. j \in 1..Len(updateQueue) /\ updateQueue'[j] = updateQueue[j]
        BY <1>3, <2>1
      <4>2. QED
        BY <4>1 DEF InOrder
    <3>2. /\ cached[h] <= setting[h]
          /\ Before(published[h], cached[h])
          /\ Before(latest.data[h], cached[h])
          /\ Before(cached[h], cached[h])
      BY DataTypes DEF InOrder, Before
    <3>3. QED
      BY <1>3, <2>1, <3>1, <3>2
  <2>2. CASE i # Len(updateQueue')
    <3>1. /\ i \in 1..Len(updateQueue) /\ updateQueue'[i] = updateQueue[i]
          /\ \A j \in 1..i - 1 : updateQueue'[j] = updateQueue[j]
      BY <1>3, <2>2
    <3>2. QED
      BY <3>1 DEF InOrder
  <2>3. QED
    BY <2>1, <2>2
<1>5. QED
  BY <1>1, <1>4 DEF InOrder, Before

LEMMA TakeKeepsEffects ==
  ASSUME TypeInv, NEW h \in Handles, InOrder(h), TakeSweep
  PROVE  InOrder(h)'
<1>1. UNCHANGED <<cached, setting, published>>
  BY DEF TakeSweep, core1Vars
<1>2. /\ Len(updateQueue) \in Nat \ {0}
      /\ Len(updateQueue') = Len(updateQueue) - 1
      /\ \A i \in 1..Len(updateQueue) - 1 : updateQueue'[i] = updateQueue[i + 1]
      /\ latest' = updateQueue[1]
  BY TakeSweepEffect
<1>3. 1 \in 1..Len(updateQueue)
  BY <1>2
<1>4. /\ latest'.data[h] <= setting[h]
      /\ Before(published[h], latest'.data[h])
      /\ Before(latest'.data[h], cached[h])
  BY <1>2, <1>3 DEF InOrder
<1>5. ASSUME NEW i \in 1..Len(updateQueue')
      PROVE  /\ updateQueue'[i].data[h] <= setting[h]
             /\ Before(published[h], updateQueue'[i].data[h])
             /\ Before(latest'.data[h], updateQueue'[i].data[h])
             /\ Before(updateQueue'[i].data[h], cached[h])
             /\ \A j \in 1..i - 1 :
                  Before(updateQueue'[j].data[h], updateQueue'[i].data[h])
  <2>1. /\ updateQueue'[i] = updateQueue[i + 1]
        /\ i + 1 \in 1..Len(updateQueue)
        /\ 1 \in 1..(i + 1) - 1
        /\ \A j \in 1..i - 1 : /\ updateQueue'[j] = updateQueue[j + 1]
                               /\ j + 1 \in 1..(i + 1) - 1
    BY <1>2
  <2>2. QED
    BY <1>2, <2>1 DEF InOrder
<1>6. QED
  BY <1>1, <1>4, <1>5 DEF InOrder, Before

LEMMA PublishKeepsEffects ==
  ASSUME TypeInv, NEW h \in Handles, InOrder(h), Publish
  PROVE  InOrder(h)' /\ published[h] <= published'[h]
<1>1. UNCHANGED <<cached, setting, latest, updateQueue>>
  BY DEF Publish, updateVars, core1Vars, latest
<1>2. CASE published'[h] = published[h]
  BY <1>1, <1>2, DataTypes DEF InOrder, Before
<1>3. CASE published'[h] # published[h]
  <2>1. published'[h] = latest.data[h] /\ latest.data[h] # NoReading
    BY <1>3 DEF Publish, Shows
  <2>2. QED
    BY <1>1, <2>1, DataTypes DEF InOrder, Before
<1>4. QED
  BY <1>2, <1>3

LEMMA UpdateKeepsEffects ==
  ASSUME TypeInv, NEW h \in Handles, InOrder(h), UpdateGroup
  PROVE  InOrder(h)'
<1>1. UNCHANGED <<setting, latest, updateQueue, published>>
  BY DEF UpdateGroup, updateVars, core0Vars, latest
<1>2. cached'[h] \in {setting[h], cached[h], NoReading}
  BY DEF UpdateGroup, Update, TypeInv, TypeOK, Readings
<1>3. cached'[h] <= setting[h]
  BY <1>2, DataTypes DEF InOrder, NoReading
<1>4. ASSUME NEW a \in Int, a <= setting[h], Before(a, cached[h])
      PROVE  Before(a, cached'[h])
  BY <1>2, <1>4 DEF Before
<1>5. /\ Before(published[h], cached'[h])
      /\ Before(latest.data[h], cached'[h])
      /\ \A i \in 1..Len(updateQueue) : Before(updateQueue[i].data[h], cached'[h])
  BY <1>4, DataTypes DEF InOrder
<1>6. QED
  BY <1>1, <1>3, <1>5 DEF InOrder, Before

LEMMA EffectsInOrderStep ==
  ASSUME TypeInv, CommandsInOrder, NEW h \in Handles, InOrder(h), [Next]_vars
  PROVE  InOrder(h)' /\ published[h] <= published'[h]
<1>1. CASE SendSweep
  <2>1. published' = published
    BY <1>1 DEF SendSweep, core0Vars
  <2>2. QED
    BY <1>1, <2>1, SendKeepsEffects, DataTypes
<1>2. CASE TakeSweep
  <2>1. published' = published
    BY <1>2 DEF TakeSweep
  <2>2. QED
    BY <1>2, <2>1, TakeKeepsEffects, DataTypes
<1>3. CASE Publish
  BY <1>3, PublishKeepsEffects
<1>4. CASE UpdateGroup
  <2>1. published' = published
    BY <1>4 DEF UpdateGroup, core0Vars
  <2>2. QED
    BY <1>4, <2>1, UpdateKeepsEffects, DataTypes
<1>5. CASE ~SendSweep /\ ~TakeSweep /\ ~Publish /\ ~UpdateGroup
  <2>1. UNCHANGED <<updateQueue, updateRead, published, cached>>
    BY <1>5
       DEF Next, Core0, Core1, Network, NoSweep, TakeCommand, HandleCommand,
           NoCommand, Connect, LoseConnection, ReceiveCommand,
           Updates!GetNothing, vars, updateVars, core0Vars, core1Vars
  <2>2. setting[h] <= setting'[h] /\ setting'[h] \in Nat
    BY CommandsInOrderStep, TypeInvStep, Constants DEF TypeInv, TypeOK, Settings
  <2>3. ASSUME NEW a \in Int, a <= setting[h]
        PROVE  a <= setting'[h]
    BY <2>2, <2>3, DataTypes
  <2>4. /\ published[h] <= setting'[h] /\ latest.data[h] <= setting'[h]
        /\ cached[h] <= setting'[h]
        /\ \A i \in 1..Len(updateQueue) : updateQueue[i].data[h] <= setting'[h]
    BY <2>3, DataTypes DEF InOrder
  <2>5. QED
    BY <2>1, <2>4, DataTypes DEF InOrder, Before, latest
<1>6. QED
  BY <1>1, <1>2, <1>3, <1>4, <1>5

(* No message takes back on the broker what an earlier one showed of the   *)
(* effect of a command, whatever overflows, whether or not sensors give    *)
(* data, and over connections that are lost (core_1_executor.cpp:39-81,    *)
(* core_0_executor.cpp:186-199).                                           *)
THEOREM NoEffectReverts == Spec => EffectsNeverRevert
<1>1. Init => TypeInv /\ CommandsInOrder /\ EffectsInOrder
  <2> SUFFICES ASSUME Init PROVE CommandsInOrder /\ EffectsInOrder
    BY TypeInvInit
  <2>1. /\ updateQueue = << >> /\ controlQueue = << >>
        /\ latest = NoSweepYet /\ command = NoCommandYet
        /\ published = [g \in Handles |-> NoReading]
        /\ commands = 0 /\ setting = [g \in Handles |-> 0]
        /\ cached = [g \in Handles |-> NoReading]
    BY DEF Init, Updates!Init, Commands!Init, latest, command
  <2>2. CommandsInOrder
    BY <2>1 DEF CommandsInOrder, NoCommandYet
  <2>3. EffectsInOrder
    BY <2>1 DEF EffectsInOrder, InOrder, Before, NoSweepYet, NoReading
  <2>4. QED
    BY <2>2, <2>3
<1>2. TypeInv /\ CommandsInOrder /\ EffectsInOrder /\ [Next]_vars =>
        EffectsInOrder' /\ [\A g \in Handles : published'[g] >= published[g]]_vars
  <2> SUFFICES ASSUME TypeInv, CommandsInOrder, EffectsInOrder, [Next]_vars
               PROVE  /\ EffectsInOrder'
                      /\ \A g \in Handles : published'[g] >= published[g]
    OBVIOUS
  <2>1. ASSUME NEW h \in Handles
        PROVE  InOrder(h)' /\ published'[h] >= published[h]
    <3>1. InOrder(h)' /\ published[h] <= published'[h]
      BY EffectsInOrderStep DEF EffectsInOrder
    <3>2. QED
      BY <3>1
  <2>2. QED
    BY <2>1 DEF EffectsInOrder
<1>3. QED
  BY <1>1, <1>2, TypeInvStep, CommandsInOrderStep, PTL DEF Spec, EffectsNeverRevert

----------------------------------------------------------------------------
(* The mutexes of the board, its interrupts and the lock out of core 1.    *)

(* What makes the two properties inductive: an owner is a context; one     *)
(* that waits for a mutex or holds it is of those that use it; and core 1  *)
(* is locked out only while core 0 is at a write.                          *)
OwnersAreContexts == owner \in [Mutexes -> Contexts \cup {Nobody}]

MutexIsUsed == \A c \in Contexts : pc[c] \in {"wait", "hold"} => mutex[c] \in Uses(c)

WriteIsCore0s ==
  /\ \A c \in Contexts : pc[c] \in WriteStages => c = "loop0"
  /\ lockout = "requested" => pc["loop0"] = "lockout"
  /\ lockout = "frozen" => pc["loop0"] \in {"lockout", "writing", "written"}
  /\ lockout = "released" => pc["loop0"] = "unlock"
  /\ pc["loop0"] = "written" => lockout = "frozen"

LocksInv ==
  /\ LocksTypeOK /\ OwnersAreContexts /\ MutexIsUsed /\ WriteIsCore0s
  /\ FlashIsWrittenAlone

LEMMA LocksInvInit == LocksInit => LocksInv
BY DEF LocksInit, LocksInv, LocksTypeOK, OwnersAreContexts, MutexIsUsed,
       WriteIsCore0s, FlashIsWrittenAlone, Contexts, Mutexes, Nobody, WriteStages

LEMMA LocksInvStep == LocksInv /\ [LocksNext]_locksVars => LocksInv'
<1> SUFFICES ASSUME LocksInv, [LocksNext]_locksVars PROVE LocksInv'
  OBVIOUS
<1> USE DEF LocksInv, LocksTypeOK, OwnersAreContexts, MutexIsUsed, WriteIsCore0s,
            FlashIsWrittenAlone, Contexts, Mutexes, Nobody, Runs, WriteStages
<1>1. ASSUME NEW c \in Contexts, NEW m \in Mutexes, Begin(c, m) PROVE LocksInv'
  BY <1>1 DEF Begin, InterruptsEnabled
<1>2. ASSUME NEW c \in Contexts, Enter(c) PROVE LocksInv'
  BY <1>2 DEF Enter
<1>3. ASSUME NEW c \in Contexts, Exit(c) PROVE LocksInv'
  BY <1>3 DEF Exit
<1>4. CASE StartLockout
  BY <1>4 DEF StartLockout
<1>5. CASE Freeze
  BY <1>5 DEF Freeze
<1>6. CASE DisableInterrupts
  BY <1>6 DEF DisableInterrupts
<1>7. CASE RestoreInterrupts
  BY <1>7 DEF RestoreInterrupts
<1>8. CASE EndLockout
  BY <1>8 DEF EndLockout
<1>9. CASE Thaw
  BY <1>9 DEF Thaw
<1>10. CASE EnableWatchdog
  BY <1>10 DEF EnableWatchdog
<1>11. CASE Restart
  <2>1. /\ pc' = [c \in Contexts |-> "idle"] /\ mutex' = [c \in Contexts |-> "debug"]
        /\ owner' = [m \in Mutexes |-> Nobody] /\ lockout' = "none"
    BY <1>11 DEF Restart
  <2>2. LocksTypeOK' /\ OwnersAreContexts'
    BY <2>1
  <2>3. MutexIsUsed' /\ WriteIsCore0s' /\ FlashIsWrittenAlone'
    BY <2>1
  <2>4. QED
    BY <2>2, <2>3
<1>12. CASE UNCHANGED locksVars
  BY <1>12 DEF locksVars, Uses
<1>13. QED
  BY <1>1, <1>2, <1>3, <1>4, <1>5, <1>6, <1>7, <1>8, <1>9, <1>10, <1>11, <1>12
     DEF LocksNext

LEMMA LocksInvHolds == LocksSpec => []LocksInv
<1>1. QED
  BY LocksInvInit, LocksInvStep, PTL DEF LocksSpec

(* While the flash is written nothing else executes (user_data.cpp:107).   *)
THEOREM FlashAlone == LocksSpec => []FlashIsWrittenAlone
<1>1. LocksInv => FlashIsWrittenAlone
  BY DEF LocksInv
<1>2. QED
  BY <1>1, LocksInvHolds, PTL

----------------------------------------------------------------------------
(* Who can block whom: no context blocks itself, the two loops never block *)
(* each other, and a callback is blocked by an owner of its mutex only.    *)
LEMMA BlockedByAnother ==
  ASSUME LocksInv, NEW c \in Contexts
  PROVE  ~Blocks(c, c)
BY DEF LocksInv, LocksTypeOK, OwnersAreContexts, Blocks, Contexts, Mutexes,
       WriteStages

LEMMA LoopsDoNotBlockEachOther ==
  ASSUME LocksInv, Blocks("loop0", "loop1"), Blocks("loop1", "loop0")
  PROVE  FALSE
<1>1. pc["loop0"] = "wait" /\ pc["loop1"] = "hold"
  BY DEF LocksInv, LocksTypeOK, OwnersAreContexts, Blocks, Contexts, Mutexes
<1>2. lockout = "none"
  BY <1>1 DEF LocksInv, LocksTypeOK, WriteIsCore0s
<1>3. QED
  BY <1>1, <1>2 DEF Blocks

(* A callback that waits for core 0's loop needs the one mutex they share. *)
LEMMA CallbackWaitsForLoop0 ==
  ASSUME LocksInv, Blocks("callback", "loop0")
  PROVE  CallbackWaitsFor("loop0") /\ mutex["callback"] = "debug"
<1>1. /\ pc["callback"] = "wait"
      /\ owner[mutex["callback"]] = "loop0"
      /\ mutex["callback"] \in Mutexes
  BY DEF Blocks, LocksInv, LocksTypeOK, Contexts
<1>2. pc["loop0"] = "hold" /\ mutex["loop0"] = mutex["callback"]
  BY <1>1 DEF LocksInv, LocksTypeOK, Contexts
<1>3. mutex["callback"] \in Uses("loop0") \cap Uses("callback")
  BY <1>1, <1>2 DEF LocksInv, MutexIsUsed, Contexts
<1>4. QED
  BY <1>1, <1>3 DEF Uses, CallbackWaitsFor

(* A callback that waits for core 1's loop, while that is blocked itself,  *)
(* finds it frozen with the mutex and interrupts enabled.                  *)
LEMMA CallbackWaitsForLoop1 ==
  ASSUME LocksInv, Blocks("callback", "loop1"), NEW d \in Contexts, Blocks("loop1", d)
  PROVE  /\ CallbackWaitsFor("loop1")
         /\ lockout = "frozen" /\ pc["loop0"] \in {"lockout", "written"}
<1>1. /\ pc["callback"] = "wait"
      /\ owner[mutex["callback"]] = "loop1"
      /\ mutex["callback"] \in Mutexes
  BY DEF Blocks, LocksInv, LocksTypeOK, Contexts
<1>2. pc["loop1"] = "hold"
  BY <1>1 DEF LocksInv, LocksTypeOK, Contexts
<1>3. lockout = "frozen"
  BY <1>2 DEF Blocks
<1>4. pc["loop0"] \in {"lockout", "written"}
  BY <1>1, <1>3 DEF LocksInv, WriteIsCore0s, FlashIsWrittenAlone
<1>5. QED
  BY <1>1, <1>3, <1>4 DEF CallbackWaitsFor

(* The program has just two deadlocks: a callback that prints interrupts a *)
(* print of its own core, and a callback needs a mutex that core 1 was     *)
(* frozen with, before or after the flash is written                       *)
(* (stopCore1AndWriteUserData, DEBUG_PRINT).                               *)
THEOREM JustTwoDeadlocks == LocksSpec => []OnlyTwoDeadlocks
<1>1. LocksInv => OnlyTwoDeadlocks
  <2> SUFFICES ASSUME LocksInv, Deadlocked
               PROVE  \/ CallbackWaitsFor("loop0") /\ mutex["callback"] = "debug"
                      \/ /\ CallbackWaitsFor("loop1")
                         /\ lockout = "frozen"
                         /\ pc["loop0"] \in {"lockout", "written"}
    BY DEF OnlyTwoDeadlocks
  <2>1. PICK stuck \in (SUBSET Contexts) \ {{}} :
          \A c \in stuck : \E d \in stuck : Blocks(c, d)
    BY DEF Deadlocked
  <2>2. "callback" \in stuck
    <3> SUFFICES ASSUME "callback" \notin stuck PROVE FALSE
      OBVIOUS
    <3>1. "loop0" \in stuck => Blocks("loop0", "loop1") /\ "loop1" \in stuck
      BY <2>1, BlockedByAnother DEF Contexts
    <3>2. "loop1" \in stuck => Blocks("loop1", "loop0") /\ "loop0" \in stuck
      BY <2>1, BlockedByAnother DEF Contexts
    <3>3. "loop0" \in stuck \/ "loop1" \in stuck
      BY <2>1 DEF Contexts
    <3>4. QED
      BY <3>1, <3>2, <3>3, LoopsDoNotBlockEachOther
  <2>3. PICK d \in stuck : Blocks("callback", d)
    BY <2>1, <2>2
  <2>4. CASE d = "loop0"
    BY <2>3, <2>4, CallbackWaitsForLoop0
  <2>5. CASE d = "loop1"
    BY <2>1, <2>3, <2>5, CallbackWaitsForLoop1
  <2>6. d # "callback"
    BY <2>3, BlockedByAnother DEF Contexts
  <2>7. QED
    BY <2>1, <2>4, <2>5, <2>6 DEF Contexts
<1>2. QED
  BY <1>1, LocksInvHolds, PTL

============================================================================
