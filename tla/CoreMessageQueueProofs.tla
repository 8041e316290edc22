---------------------- MODULE CoreMessageQueueProofs ----------------------
(***************************************************************************)
(* Proofs about the ring buffer of CoreMessageQueue, for every ring size,  *)
(* every set of threads and every number of messages.                      *)
(***************************************************************************)
EXTENDS CoreMessageQueue, SequenceTheorems, TLAPS

(* The steps that each thread may be at, by what it is: a writer is only   *)
(* ever inside addToQueue and a reader inside readFromQueue.               *)
Roles ==
  /\ \A w \in Writers : pc[w] \notin ReadSteps \cup {"enterRead"}
  /\ \A r \in Readers : pc[r] \notin AddSteps \cup {"enterAdd"}

(* TypeOK, and what it needs to be inductive: the cursors are -1 together, *)
(* except while addToQueue has moved mRear and not yet mFront.             *)
Cursors ==
  /\ ~Doing("initFront") => (mFront = -1 <=> mRear = -1)
  /\ Doing("initFront") => /\ mRear # -1
                           /\ mFront = -1 => mRear = 0
  /\ Doing("copyIn") => mRear # -1
  /\ Doing("advanceFront") => mFront # -1

TypeInv == TypeOK /\ Roles /\ MutualExclusion /\ Cursors

LEMMA TypeInvInit == Init => TypeInv
BY QueueAssumption
   DEF Init, TypeInv, TypeOK, Roles, MutualExclusion, Cursors, Doing, Slots,
       Threads, Critical, AddSteps, ReadSteps

LEMMA TypeInvStep == TypeInv /\ [Next]_vars => TypeInv'
<1> SUFFICES ASSUME TypeInv, [Next]_vars PROVE TypeInv'
  OBVIOUS
<1> USE QueueAssumption
    DEF TypeInv, TypeOK, Roles, MutualExclusion, Cursors, Doing, Slots,
        Threads, Critical, AddSteps, ReadSteps
<1>1. ASSUME NEW w \in Writers, CallAdd(w) PROVE TypeInv'
  BY <1>1 DEF CallAdd, Goto, ring
<1>2. ASSUME NEW w \in Writers, AdvanceRear(w) PROVE TypeInv'
  BY <1>2 DEF AdvanceRear, Goto, NextSlot
<1>3. ASSUME NEW w \in Writers, InitFront(w) PROVE TypeInv'
  BY <1>3 DEF InitFront, Goto
<1>4. ASSUME NEW w \in Writers, CopyIn(w) PROVE TypeInv'
  BY <1>4 DEF CopyIn, Goto
<1>5. ASSUME NEW r \in Readers, CallRead(r) PROVE TypeInv'
  BY <1>5 DEF CallRead, Goto, ring
<1>6. ASSUME NEW r \in Readers, FindNothing(r) PROVE TypeInv'
  BY <1>6 DEF FindNothing, Goto, ring
<1>7. ASSUME NEW r \in Readers, CopyOut(r) PROVE TypeInv'
  BY <1>7 DEF CopyOut, Goto, ring
<1>8. ASSUME NEW r \in Readers, AdvanceFront(r) PROVE TypeInv'
  BY <1>8, SMTT(30) DEF AdvanceFront, Goto, NextSlot
<1>9. ASSUME NEW t \in Threads, Enter(t) PROVE TypeInv'
  BY <1>9 DEF Enter, Goto, ring
<1>10. ASSUME NEW t \in Threads, Exit(t) PROVE TypeInv'
  BY <1>10 DEF Exit, Goto, ring
<1>11. CASE UNCHANGED vars
  BY <1>11 DEF vars
<1>12. QED
  BY <1>1, <1>2, <1>3, <1>4, <1>5, <1>6, <1>7, <1>8, <1>9, <1>10, <1>11
     DEF Next, Write, Read

----------------------------------------------------------------------------
(* How many messages are pending, and which: the numbers that tie the ring *)
(* to the count of messages sent and to what the readers have.             *)
Bounded ==
  /\ sent <= MaxMessages
  /\ Doing("advanceRear") => sent < MaxMessages

Carried == Doing("initFront") \/ Doing("copyIn") => message[mQueueMutex] = sent

Consumed ==
  /\ Backlog <= sent
  /\ \A r \in Readers : destination[r] + Backlog <= sent

Item(i) == Stored(Slot(front, i + skipped))

Contents == \A i \in 1..Backlog : Item(i) = (sent - Backlog) + i

IInv == TypeInv /\ Bounded /\ Carried /\ Consumed /\ Contents

LEMMA BacklogType ==
  ASSUME TypeInv
  PROVE  /\ Backlog \in 0..QueueSize
         /\ \A i \in 1..Backlog : Slot(front, i + skipped) \in Slots
         /\ skipped \in {0, 1}
         /\ front \in Slots \cup {-1}
         /\ front = -1 <=> mRear = -1
         /\ front = -1 => Backlog = 0 /\ skipped = 0
BY QueueAssumption
   DEF TypeInv, TypeOK, Cursors, MutualExclusion, Backlog, skipped, front, Span,
       Slot, Slots, Doing, Critical, AddSteps, ReadSteps, Threads

(* What a step of a thread inside the mutex says of the other threads.     *)
LEMMA Owner ==
  ASSUME TypeInv, NEW t \in Threads, pc[t] \in Critical
  PROVE  /\ mQueueMutex = t
         /\ t # NoOwner
         /\ \A step : Doing(step) <=> pc[t] = step
BY QueueAssumption DEF TypeInv, MutualExclusion, Doing, Threads

(* The same of the state after a step in which t keeps the mutex.          *)
LEMMA OwnerAfter ==
  ASSUME TypeInv, NEW t \in Threads, NEW to, mQueueMutex = t,
         mQueueMutex' = mQueueMutex, pc' = [pc EXCEPT ![t] = to]
  PROVE  \A step : Doing(step)' <=> to = step
BY QueueAssumption DEF TypeInv, TypeOK, Doing, Threads

(* The steps that are no operation of the abstract queue leave what is     *)
(* pending as it was.                                                      *)
Same == /\ Backlog' = Backlog
        /\ \A i \in 1..Backlog : Item(i)' = Item(i)

LEMMA SameOutside ==
  ASSUME TypeInv, UNCHANGED ring, UNCHANGED message,
         \A step \in {"initFront", "copyIn", "advanceFront"} :
           ~Doing(step) /\ ~Doing(step)'
  PROVE  Same
BY DEF Same, Item, Stored, Backlog, Slot, Span, front, skipped, ring

LEMMA SameInitFront ==
  ASSUME TypeInv, NEW w \in Writers, InitFront(w)
  PROVE  Same
<1>1. /\ mQueueMutex = w /\ w \in Threads
      /\ \A step : Doing(step) <=> "initFront" = step
  BY Owner DEF InitFront, Goto, Critical, AddSteps, Threads
<1>2. \A step : Doing(step)' <=> "copyIn" = step
  BY <1>1, OwnerAfter DEF InitFront, Goto
<1>3. front' = front
  <2>1. front = IF mFront = -1 THEN 0 ELSE mFront
    BY <1>1 DEF front
  <2>2. front' = mFront'
    BY <1>2 DEF front
  <2>3. QED
    BY <2>1, <2>2 DEF InitFront
<1>4. skipped = 0 /\ skipped' = 0
  BY <1>1, <1>2 DEF skipped
<1>5. \A s : Stored(s)' = Stored(s)
  BY <1>1, <1>2 DEF InitFront, Stored
<1>6. QED
  BY <1>3, <1>4, <1>5 DEF Same, Item, Backlog, Slot, Span, InitFront

LEMMA SameCopyIn ==
  ASSUME TypeInv, NEW w \in Writers, CopyIn(w)
  PROVE  Same
<1>1. /\ mQueueMutex = w /\ w \in Threads
      /\ \A step : Doing(step) <=> "copyIn" = step
  BY Owner DEF CopyIn, Goto, Critical, AddSteps, Threads
<1>2. \A step : Doing(step)' <=> "exit" = step
  BY <1>1, OwnerAfter DEF CopyIn, Goto
<1>3. front' = front /\ skipped' = skipped /\ Backlog' = Backlog
  BY <1>1, <1>2 DEF CopyIn, front, skipped, Backlog, Span
<1>4. \A s \in Slots : Stored(s)' = Stored(s)
  BY <1>1, <1>2 DEF CopyIn, Stored, TypeInv, TypeOK
<1>5. QED
  BY <1>3, <1>4, BacklogType DEF Same, Item, Slot

LEMMA SameAdvanceFront ==
  ASSUME TypeInv, NEW r \in Readers, AdvanceFront(r)
  PROVE  Same
<1>1. /\ mQueueMutex = r /\ r \in Threads
      /\ \A step : Doing(step) <=> "advanceFront" = step
  BY Owner DEF AdvanceFront, Goto, Critical, ReadSteps, Threads
<1>2. \A step : Doing(step)' <=> "exit" = step
  BY <1>1, OwnerAfter DEF AdvanceFront, Goto
<1>3. /\ front = mFront /\ front' = mFront'
      /\ skipped = 1 /\ skipped' = 0
      /\ \A s : Stored(s) = mQueueEntries[s] /\ Stored(s)' = mQueueEntries[s]
  BY <1>1, <1>2 DEF AdvanceFront, front, skipped, Stored
<1>4. /\ mFront \in Slots /\ mRear \in Slots
      /\ QueueSize \in Nat \ {0}
  BY <1>1, QueueAssumption DEF TypeInv, TypeOK, Cursors, Slots
<1>5. CASE mFront = mRear
  <2>1. Backlog = 0 /\ Backlog' = 0
    BY <1>3, <1>4, <1>5 DEF AdvanceFront, Backlog, Span, Slots
  <2>2. QED
    BY <2>1 DEF Same
<1>6. CASE mFront # mRear
  <2>1. mRear' = mRear /\ mFront' = NextSlot(mFront)
    BY <1>6 DEF AdvanceFront
  <2>2. Backlog' = Backlog
    BY <2>1, <1>3, <1>4, <1>6 DEF Backlog, Span, Slots, NextSlot
  <2>3. Backlog \in 0..(QueueSize - 1)
    BY <1>3, <1>4, <1>6 DEF Backlog, Span, Slots
  <2>4. \A i \in 1..Backlog : Slot(mFront', i + 0) = Slot(mFront, i + 1)
    BY <2>1, <2>3, <1>4 DEF Slot, NextSlot, Slots
  <2>5. \A i \in 1..Backlog : Item(i)' = Item(i)
    BY <2>4, <1>3 DEF Item, Slot
  <2>6. QED
    BY <2>2, <2>5 DEF Same
<1>7. QED
  BY <1>5, <1>6

LEMMA Silent ==
  ASSUME TypeInv,
         \/ \E w \in Writers : CallAdd(w) \/ InitFront(w) \/ CopyIn(w)
         \/ \E r \in Readers : CallRead(r) \/ FindNothing(r) \/ AdvanceFront(r)
         \/ \E t \in Threads : Enter(t) \/ Exit(t)
         \/ UNCHANGED vars
  PROVE  Same
<1> USE QueueAssumption
    DEF TypeInv, TypeOK, MutualExclusion, Doing,
        Threads, Critical, AddSteps, ReadSteps
<1>1. ASSUME NEW w \in Writers, CallAdd(w) PROVE Same
  <2>1. UNCHANGED ring /\ UNCHANGED message /\ UNCHANGED mQueueMutex
    BY <1>1 DEF CallAdd, ring
  <2>2. \A step \in {"initFront", "copyIn", "advanceFront"} : Doing(step)' = Doing(step)
    BY <1>1, <2>1 DEF CallAdd, Goto
  <2> QED
    BY <2>1, <2>2, ZenonT(30) DEF Same, Item, Stored, Backlog, Slot, Span, front, skipped, ring
<1>5. ASSUME NEW r \in Readers, CallRead(r) PROVE Same
  <2>1. UNCHANGED ring /\ UNCHANGED message /\ UNCHANGED mQueueMutex
    BY <1>5 DEF CallRead, ring
  <2>2. \A step \in {"initFront", "copyIn", "advanceFront"} : Doing(step)' = Doing(step)
    BY <1>5, <2>1 DEF CallRead, Goto
  <2> QED
    BY <2>1, <2>2, ZenonT(30) DEF Same, Item, Stored, Backlog, Slot, Span, front, skipped, ring
<1>6. ASSUME NEW r \in Readers, FindNothing(r) PROVE Same
  BY <1>6, SameOutside DEF FindNothing, Goto
<1>9. ASSUME NEW t \in Threads, Enter(t) PROVE Same
  BY <1>9, SameOutside DEF Enter, Goto
<1>10. ASSUME NEW t \in Threads, Exit(t) PROVE Same
  BY <1>10, SameOutside DEF Exit, Goto
<1>11. CASE UNCHANGED vars
  BY <1>11 DEF vars, Same, Item, Stored, Backlog, Slot, Span, front, skipped
<1>12. QED
  BY <1>1, <1>5, <1>6, <1>9, <1>10, <1>11,
     SameInitFront, SameCopyIn, SameAdvanceFront

(* addToQueue makes the new message the newest pending one, and the only   *)
(* one when every slot was pending.                                        *)
LEMMA AdvanceRearEffect ==
  ASSUME TypeInv, NEW w \in Writers, AdvanceRear(w)
  PROVE  /\ Backlog' = IF Backlog < QueueSize THEN Backlog + 1 ELSE 1
         /\ \A i \in 1..Backlog' :
              Item(i)' = IF i = Backlog' THEN sent + 1 ELSE Item(i)
<1>1. /\ mQueueMutex = w /\ w \in Threads
      /\ \A step : Doing(step) <=> "advanceRear" = step
  BY Owner DEF AdvanceRear, Goto, Critical, AddSteps, Threads
<1>2. \A step : Doing(step)' <=> "initFront" = step
  BY <1>1, OwnerAfter DEF AdvanceRear, Goto
<1>3. /\ front = mFront
      /\ front' = IF mFront = -1 THEN 0 ELSE mFront
      /\ skipped = 0 /\ skipped' = 0
      /\ mRear' = NextSlot(mRear)
  BY <1>1, <1>2 DEF AdvanceRear, front, skipped
<1>4. \A s : /\ Stored(s) = mQueueEntries[s]
             /\ Stored(s)' = IF s = mRear' THEN sent + 1 ELSE mQueueEntries[s]
  BY <1>1, <1>2 DEF AdvanceRear, Stored, TypeInv, TypeOK
<1>5. /\ mFront = -1 <=> mRear = -1
      /\ mFront \in Slots \cup {-1} /\ mRear \in Slots \cup {-1}
      /\ QueueSize \in Nat \ {0}
  BY <1>1, QueueAssumption DEF TypeInv, TypeOK, Cursors
<1>6. Backlog' = IF Backlog < QueueSize THEN Backlog + 1 ELSE 1
  BY <1>3, <1>5 DEF Backlog, Span, Slots, NextSlot
<1>7. Slot(front', Backlog') = mRear'
  BY <1>3, <1>5 DEF Backlog, Span, Slots, NextSlot, Slot
<1>8. \A i \in 1..Backlog' :
        i # Backlog' => /\ Slot(front', i) = Slot(front, i)
                        /\ Slot(front', i) # mRear'
  BY <1>3, <1>5 DEF Backlog, Span, Slots, NextSlot, Slot
<1>9. \A i \in 1..Backlog' :
        Item(i)' = IF i = Backlog' THEN sent + 1 ELSE Item(i)
  <2> SUFFICES ASSUME NEW i \in 1..Backlog'
               PROVE  Item(i)' = IF i = Backlog' THEN sent + 1 ELSE Item(i)
    OBVIOUS
  <2>1. Backlog' \in Nat /\ i \in Nat
    BY <1>6, BacklogType
  <2>2. Item(i) = mQueueEntries[Slot(front, i)]
    BY <2>1, <1>3, <1>4 DEF Item
  <2>3. Item(i)' = IF Slot(front', i) = mRear' THEN sent + 1
                   ELSE mQueueEntries[Slot(front', i)]
    BY <2>1, <1>3, <1>4 DEF Item, Slot
  <2>4. CASE i = Backlog'
    BY <2>3, <2>4, <1>7
  <2>5. CASE i # Backlog'
    <3>1. Slot(front', i) = Slot(front, i) /\ Slot(front', i) # mRear'
      BY <2>5, <1>8
    <3>2. QED
      BY <3>1, <2>2, <2>3, <2>5
  <2>6. QED
    BY <2>4, <2>5
<1>10. QED
  BY <1>6, <1>9

(* readFromQueue takes the oldest pending message.                         *)
LEMMA CopyOutEffect ==
  ASSUME TypeInv, NEW r \in Readers, CopyOut(r)
  PROVE  /\ Backlog > 0
         /\ Backlog' = Backlog - 1
         /\ \A i \in 1..Backlog' : Item(i)' = Item(i + 1)
         /\ destination' = [destination EXCEPT ![r] = Item(1)]
<1>1. /\ mQueueMutex = r /\ r \in Threads
      /\ \A step : Doing(step) <=> "copyOut" = step
  BY Owner DEF CopyOut, Goto, Critical, ReadSteps, Threads
<1>2. \A step : Doing(step)' <=> "advanceFront" = step
  BY <1>1, OwnerAfter DEF CopyOut, Goto
<1>3. /\ front = mFront /\ front' = mFront
      /\ skipped = 0 /\ skipped' = 1
      /\ mRear' = mRear
  BY <1>1, <1>2 DEF CopyOut, front, skipped, ring
<1>4. \A s : Stored(s) = mQueueEntries[s] /\ Stored(s)' = mQueueEntries[s]
  BY <1>1, <1>2 DEF CopyOut, Stored, ring
<1>5. /\ mFront \in Slots /\ mRear \in Slots
      /\ QueueSize \in Nat \ {0}
  BY <1>1, QueueAssumption DEF TypeInv, TypeOK, Cursors, CopyOut
<1>6. Backlog > 0 /\ Backlog' = Backlog - 1
  BY <1>3, <1>5 DEF Backlog, Span, Slots
<1>7. \A i \in 1..Backlog' : Item(i)' = Item(i + 1)
  BY <1>3, <1>4 DEF Item, Slot
<1>8. Slot(front, 1) = mFront
  BY <1>3, <1>5 DEF Slot, Slots
<1>9. destination' = [destination EXCEPT ![r] = Item(1)]
  <2>1. Item(1) = mQueueEntries[mFront]
    BY <1>3, <1>4, <1>8 DEF Item
  <2>2. QED
    BY <2>1 DEF CopyOut
<1>10. QED
  BY <1>6, <1>7, <1>9

----------------------------------------------------------------------------
LEMMA IInvInit == Init => IInv
<1> SUFFICES ASSUME Init PROVE IInv
  OBVIOUS
<1>1. TypeInv
  BY TypeInvInit
<1>2. Backlog = 0
  BY DEF Init, Backlog, Span, front, skipped, Doing
<1>3. Bounded /\ Carried /\ Consumed /\ Contents
  BY <1>2, QueueAssumption
     DEF Init, Bounded, Carried, Consumed, Contents, Doing
<1>4. QED
  BY <1>1, <1>3 DEF IInv

(* A step that adds no message.                                            *)
LEMMA SentUnchanged ==
  ASSUME TypeInv, [Next]_vars, ~(\E w \in Writers : AdvanceRear(w))
  PROVE  sent' = sent
BY DEF Next, Write, Read, vars, ring, CallAdd, InitFront, CopyIn, CallRead,
       FindNothing, CopyOut, AdvanceFront, Enter, Exit

LEMMA CarriedStep == TypeInv /\ Carried /\ [Next]_vars => Carried'
<1> SUFFICES ASSUME TypeInv, Carried, [Next]_vars PROVE Carried'
  OBVIOUS
<1> USE QueueAssumption
    DEF TypeInv, TypeOK, Roles, MutualExclusion, Doing, Carried,
        Threads, Critical, AddSteps, ReadSteps, Goto, ring
<1>1. ASSUME NEW w \in Writers, Write(w) PROVE Carried'
  BY <1>1 DEF Write, CallAdd, AdvanceRear, InitFront, CopyIn
<1>2. ASSUME NEW r \in Readers, Read(r) PROVE Carried'
  BY <1>2 DEF Read, CallRead, FindNothing, CopyOut, AdvanceFront
<1>3. ASSUME NEW t \in Threads, Enter(t) \/ Exit(t) PROVE Carried'
  BY <1>3 DEF Enter, Exit
<1>4. CASE UNCHANGED vars
  BY <1>4 DEF vars
<1>5. QED
  BY <1>1, <1>2, <1>3, <1>4 DEF Next

LEMMA BoundedStep == TypeInv /\ Bounded /\ [Next]_vars => Bounded'
<1> SUFFICES ASSUME TypeInv, Bounded, [Next]_vars PROVE Bounded'
  OBVIOUS
<1> USE QueueAssumption
    DEF TypeInv, TypeOK, Roles, MutualExclusion, Doing, Bounded,
        Threads, Critical, AddSteps, ReadSteps, Goto, ring
<1>1. ASSUME NEW w \in Writers, Write(w) PROVE Bounded'
  BY <1>1 DEF Write, CallAdd, AdvanceRear, InitFront, CopyIn
<1>2. ASSUME NEW r \in Readers, Read(r) PROVE Bounded'
  BY <1>2 DEF Read, CallRead, FindNothing, CopyOut, AdvanceFront
<1>3. ASSUME NEW t \in Threads, Enter(t) \/ Exit(t) PROVE Bounded'
  BY <1>3 DEF Enter, Exit
<1>4. CASE UNCHANGED vars
  BY <1>4 DEF vars
<1>5. QED
  BY <1>1, <1>2, <1>3, <1>4 DEF Next

LEMMA IInvStep == IInv /\ [Next]_vars => IInv'
<1> SUFFICES ASSUME IInv, [Next]_vars PROVE IInv'
  OBVIOUS
<1>1. TypeInv' /\ Bounded' /\ Carried'
  BY TypeInvStep, BoundedStep, CarriedStep DEF IInv
<1>2. /\ sent \in Nat /\ Backlog \in Nat
      /\ destination \in [Readers -> Nat]
      /\ QueueSize \in Nat \ {0}
  BY BacklogType, QueueAssumption DEF IInv, TypeInv, TypeOK
<1>3. ASSUME NEW w \in Writers, AdvanceRear(w) PROVE Consumed' /\ Contents'
  <2>1. /\ Backlog' = IF Backlog < QueueSize THEN Backlog + 1 ELSE 1
        /\ \A i \in 1..Backlog' :
             Item(i)' = IF i = Backlog' THEN sent + 1 ELSE Item(i)
    BY <1>3, AdvanceRearEffect DEF IInv
  <2>2. sent' = sent + 1 /\ destination' = destination
    BY <1>3 DEF AdvanceRear
  <2>3. Consumed'
    BY <1>2, <2>1, <2>2 DEF IInv, Consumed
  <2>4. Contents'
    BY <1>2, <2>1, <2>2 DEF IInv, Contents
  <2>5. QED
    BY <2>3, <2>4
<1>4. ASSUME NEW r \in Readers, CopyOut(r) PROVE Consumed' /\ Contents'
  <2>1. /\ Backlog > 0
        /\ Backlog' = Backlog - 1
        /\ \A i \in 1..Backlog' : Item(i)' = Item(i + 1)
        /\ destination' = [destination EXCEPT ![r] = Item(1)]
    BY <1>4, CopyOutEffect DEF IInv
  <2>2. sent' = sent
    BY <1>4 DEF CopyOut
  <2>3. Item(1) = (sent - Backlog) + 1
    BY <1>2, <2>1 DEF IInv, Contents
  <2>4. Consumed'
    BY <1>2, <2>1, <2>2, <2>3 DEF IInv, Consumed
  <2>5. Contents'
    BY <1>2, <2>1, <2>2 DEF IInv, Contents
  <2>6. QED
    BY <2>4, <2>5
<1>5. ASSUME ~(\E w \in Writers : AdvanceRear(w)),
             ~(\E r \in Readers : CopyOut(r))
      PROVE  Consumed' /\ Contents'
  <2>1. Same
    BY <1>5, Silent DEF Next, Write, Read, IInv
  <2>2. sent' = sent
    BY <1>5, SentUnchanged DEF IInv
  <2>3. destination' = destination
    BY <1>5 DEF Next, Write, Read, vars, ring, CallAdd, InitFront, CopyIn,
                CallRead, FindNothing, AdvanceFront, Enter, Exit
  <2>4. QED
    BY <2>1, <2>2, <2>3 DEF Same, IInv, Consumed, Contents
<1>6. QED
  BY <1>1, <1>3, <1>4, <1>5 DEF IInv

THEOREM Invariance == Spec => []IInv
<1>1. QED
  BY IInvInit, IInvStep, PTL DEF Spec

----------------------------------------------------------------------------
(* Every variable stays in its type: in particular neither cursor ever     *)
(* leaves the array of the queue.                                          *)
THEOREM TypeCorrect == Spec => []TypeOK
<1>1. IInv => TypeOK
  BY DEF IInv, TypeInv
<1>2. QED
  BY <1>1, Invariance, PTL

(* At most one thread is inside addToQueue or readFromQueue past           *)
(* mutex_enter_blocking.                                                   *)
THEOREM MutexExcludes == Spec => []MutualExclusion
<1>1. IInv => MutualExclusion
  BY DEF IInv, TypeInv
<1>2. QED
  BY <1>1, Invariance, PTL

(* The pending slots always hold the newest messages in the order they     *)
(* were sent, in the middle of a call too.                                 *)
THEOREM PendingAreNewest == Spec => []NewestPending
<1>1. IInv => NewestPending
  BY DEF IInv, Contents, Item, NewestPending, queue
<1>2. QED
  BY <1>1, Invariance, PTL

(* isFull, which reads only the cursors, tells exactly when every slot is  *)
(* pending.                                                                *)
THEOREM IsFullIsExact == Spec => []IsFullExact
<1>1. IInv => IsFullExact
  <2> SUFFICES ASSUME IInv, mQueueMutex = NoOwner
               PROVE  IsFull <=> Backlog = QueueSize
    BY DEF IsFullExact
  <2>1. front = mFront /\ skipped = 0
    BY DEF Doing, front, skipped
  <2>2. /\ mFront = -1 <=> mRear = -1
        /\ mFront \in Slots \cup {-1} /\ mRear \in Slots \cup {-1}
        /\ QueueSize \in Nat \ {0}
    BY QueueAssumption DEF IInv, TypeInv, TypeOK, Cursors, Doing
  <2>3. QED
    BY <2>1, <2>2 DEF IsFull, Backlog, Span, Slots
<1>2. QED
  BY <1>1, Invariance, PTL

----------------------------------------------------------------------------
(* Consecutive numbers up to a last one, without the first of them.        *)
LEMMA RunWithoutFirst ==
  ASSUME NEW n \in Nat \ {0}, NEW last \in Nat, n <= last, NEW run, NEW rest,
         run = [i \in 1..n |-> (last - n) + i],
         rest = [i \in 1..n - 1 |-> (last - (n - 1)) + i]
  PROVE  /\ rest \in Seq(Nat) /\ Len(rest) = n - 1
         /\ \A i \in 1..n - 1 : rest[i] = run[i + 1]
<1>1. n - 1 \in Nat /\ \A i \in 1..n - 1 : (last - (n - 1)) + i \in Nat
  OBVIOUS
<1>2. rest \in Seq(Nat) /\ Len(rest) = n - 1
  BY <1>1
<1>3. \A i \in 1..n - 1 : rest[i] = run[i + 1]
  OBVIOUS
<1> QED
  BY <1>2, <1>3

(* The refinement: the abstract queue holds the messages from              *)
(* sent - Backlog + 1 to sent.                                             *)
LEMMA QueueIs ==
  ASSUME IInv
  PROVE  /\ queue = [i \in 1..Backlog |-> (sent - Backlog) + i]
         /\ Backlog \in Nat /\ sent \in Nat /\ Backlog <= sent
         /\ queue \in Seq(Nat)
         /\ Len(queue) = Backlog
<1>1. Backlog \in Nat /\ sent \in Nat /\ Backlog <= sent
  BY BacklogType, QueueAssumption DEF IInv, TypeInv, TypeOK, Consumed
<1>2. queue = [i \in 1..Backlog |-> (sent - Backlog) + i]
  BY DEF IInv, Contents, Item, queue
<1>3. queue \in Seq(Nat) /\ Len(queue) = Backlog
  BY <1>1, <1>2
<1>4. QED
  BY <1>1, <1>2, <1>3

(* A step that is no operation of the abstract queue is a stutter of it.   *)
LEMMA StutterStep ==
  ASSUME IInv, [Next]_vars,
         ~(\E w \in Writers : AdvanceRear(w)),
         ~(\E r \in Readers : CopyOut(r))
  PROVE  queue' = queue /\ destination' = destination
<1>1. Same
  BY Silent DEF Next, Write, Read, IInv
<1>2. queue' = queue
  BY <1>1 DEF Same, queue, Item
<1>3. sent' = sent
  BY SentUnchanged DEF IInv
<1>4. destination' = destination
  BY DEF Next, Write, Read, vars, ring, CallAdd, InitFront, CopyIn,
         CallRead, FindNothing, AdvanceFront, Enter, Exit
<1>5. QED
  BY <1>2, <1>3, <1>4

LEMMA StepRefines == IInv /\ IInv' /\ [Next]_vars => [LQ!Next]_(LQ!vars)
<1> SUFFICES ASSUME IInv, IInv', [Next]_vars PROVE [LQ!Next]_(LQ!vars)
  OBVIOUS
<1>1. ASSUME NEW w \in Writers, AdvanceRear(w) PROVE LQ!Put(sent + 1) /\ sent + 1 \in 1..MaxMessages
  <2>1. /\ Backlog' = IF Backlog < QueueSize THEN Backlog + 1 ELSE 1
        /\ \A i \in 1..Backlog' :
             Item(i)' = IF i = Backlog' THEN sent + 1 ELSE Item(i)
    BY <1>1, AdvanceRearEffect DEF IInv
  <2>2. sent + 1 \in 1..MaxMessages
    <3>1. Doing("advanceRear")
      BY <1>1, Owner DEF AdvanceRear, Goto, IInv, Threads, Critical, AddSteps
    <3>2. QED
      BY <3>1, QueueAssumption DEF IInv, Bounded, TypeInv, TypeOK
  <2>3. sent' = sent + 1 /\ UNCHANGED <<destination, readValue>>
    BY <1>1 DEF AdvanceRear
  <2>4. queue' = [i \in 1..Backlog' |-> (sent' - Backlog') + i]
    BY DEF IInv, Contents, Item, queue
  <2>5. CASE Backlog < QueueSize
    <3>1. queue' = Append(queue, sent + 1)
      BY <2>1, <2>3, <2>4, <2>5, QueueIs
    <3>2. QED
      BY <3>1, <2>2, <2>3, <2>5, QueueIs DEF LQ!Put
  <2>6. CASE ~(Backlog < QueueSize)
    <3>1. queue' = <<sent + 1>>
      BY <2>1, <2>3, <2>4, <2>6, QueueIs
    <3>2. QED
      BY <3>1, <2>2, <2>3, <2>6, QueueIs DEF LQ!Put
  <2>7. QED
    BY <2>5, <2>6
<1>2. ASSUME NEW r \in Readers, CopyOut(r) PROVE LQ!Get(r)
  <2>1. /\ Backlog > 0
        /\ Backlog' = Backlog - 1
        /\ destination' = [destination EXCEPT ![r] = Item(1)]
    BY <1>2, CopyOutEffect DEF IInv
  <2>2. sent' = sent /\ readValue' = [readValue EXCEPT ![r] = TRUE]
    BY <1>2 DEF CopyOut
  <2>3. queue' = [i \in 1..Backlog' |-> (sent' - Backlog') + i]
    BY DEF IInv, Contents, Item, queue
  <2>4. queue # << >>
    BY <2>1, QueueIs
  <2>5. Head(queue) = Item(1)
    BY <2>1, QueueIs DEF IInv, Contents
  <2>6. queue' = Tail(queue)
    <3>1. /\ Tail(queue) \in Seq(Nat)
          /\ Len(Tail(queue)) = Backlog - 1
          /\ \A i \in 1..(Backlog - 1) : Tail(queue)[i] = queue[i + 1]
      BY <2>4, QueueIs, HeadTailProperties
    <3>2. /\ queue' \in Seq(Nat)
          /\ Len(queue') = Backlog - 1
          /\ \A i \in 1..(Backlog - 1) : queue'[i] = queue[i + 1]
      <4>1. /\ Backlog \in Nat \ {0} /\ sent \in Nat
            /\ Backlog <= sent
            /\ queue = [i \in 1..Backlog |-> (sent - Backlog) + i]
        BY <2>1, QueueIs DEF IInv
      <4>2. queue' = [i \in 1..(Backlog - 1) |-> (sent - (Backlog - 1)) + i]
        BY <2>1, <2>2, <2>3
      <4> QED
        BY <4>1, <4>2, RunWithoutFirst
    <3>3. QED
      BY <3>1, <3>2, SeqEqual
  <2>7. QED
    BY <2>1, <2>2, <2>4, <2>5, <2>6 DEF LQ!Get
<1>3. ASSUME NEW r \in Readers, FindNothing(r) PROVE LQ!GetNothing(r)
  <2>1. queue' = queue /\ destination' = destination
    <3>1. Same
      BY <1>3, Silent DEF IInv
    <3>2. QED
      BY <3>1, <1>3 DEF Same, queue, Item, FindNothing
  <2>2. queue = << >>
    <3>1. front = -1
      BY <1>3, Owner DEF IInv, front, FindNothing, Goto, Threads, Critical, ReadSteps
    <3>2. Backlog = 0
      BY <3>1, BacklogType DEF IInv
    <3>3. QED
      BY <3>2, QueueIs
  <2>3. QED
    BY <1>3, <2>1, <2>2 DEF LQ!GetNothing, FindNothing
<1>4. ASSUME ~(\E w \in Writers : AdvanceRear(w)),
             ~(\E r \in Readers : CopyOut(r)),
             ~(\E r \in Readers : FindNothing(r))
      PROVE  UNCHANGED LQ!vars
  <2>1. queue' = queue /\ destination' = destination
    BY <1>4, StutterStep
  <2>2. readValue' = readValue
    BY <1>4 DEF Next, Write, Read, vars, ring, CallAdd, InitFront, CopyIn,
                CallRead, AdvanceFront, Enter, Exit
  <2>3. QED
    BY <2>1, <2>2 DEF LQ!vars
<1>5. QED
  BY <1>1, <1>2, <1>3, <1>4 DEF LQ!Next

(* The ring buffer of core_message_queue.h, step by step under its mutex,  *)
(* is a queue of atomic operations that gives up its whole backlog on      *)
(* overflow.                                                               *)
THEOREM Refinement == Spec => ImplementsLossyQueue
<1>1. Init => LQ!Init
  <2> SUFFICES ASSUME Init PROVE LQ!Init
    OBVIOUS
  <2>1. Backlog = 0
    BY DEF Init, Backlog, Span, front, skipped, Doing
  <2>2. queue = << >>
    BY <2>1 DEF queue
  <2>3. QED
    BY <2>2 DEF Init, LQ!Init
<1>2. QED
  BY <1>1, StepRefines, Invariance, PTL DEF Spec, ImplementsLossyQueue, LQ!Spec

(* No reader is handed a message that it, or another reader, was handed    *)
(* before, or one older than such a message (readFromQueue,                *)
(* core_message_queue.h:41-66).                                            *)
THEOREM DeliveryInOrder == Spec => InOrderDelivery
<1>1. IInv /\ [Next]_vars =>
        [\A r \in Readers : CopyOut(r) =>
            \A s \in Readers : destination'[r] > destination[s]]_vars
  <2> SUFFICES ASSUME IInv, NEW r \in Readers, CopyOut(r), NEW s \in Readers
               PROVE  destination'[r] > destination[s]
    OBVIOUS
  <2>1. destination' = [destination EXCEPT ![r] = Item(1)] /\ Backlog > 0
    BY CopyOutEffect DEF IInv
  <2>2. destination'[r] = (sent - Backlog) + 1
    BY <2>1, QueueIs DEF IInv, TypeInv, TypeOK, Contents
  <2>3. destination[s] + Backlog <= sent /\ destination[s] \in Nat
    BY DEF IInv, Consumed, TypeInv, TypeOK
  <2>4. QED
    BY <2>2, <2>3, QueueIs
<1>2. QED
  BY <1>1, Invariance, PTL DEF Spec, InOrderDelivery

============================================================================
