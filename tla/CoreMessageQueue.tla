------------------------- MODULE CoreMessageQueue -------------------------
(***************************************************************************)
(* The ring buffer of messaging/core_message_queue.h, which carries fixed  *)
(* size messages between the two cores of the Pico.  Every operation runs  *)
(* under mQueueMutex; the model has one step per statement that touches    *)
(* shared state, so that what the mutex has to protect is visible.         *)
(*                                                                         *)
(* The data of a message is abstracted to the number of the addToQueue     *)
(* call that brought it; memcpy of a message is one step.                  *)
(***************************************************************************)
EXTENDS Integers

CONSTANTS
  QueueSize,    \* mQueueSize
  Writers,      \* threads that call addToQueue
  Readers,      \* threads that call readFromQueue
  NoOwner,      \* the value of a free mutex
  MaxMessages   \* bound on the number of addToQueue calls

Threads == Writers \cup Readers

ASSUME QueueAssumption ==
  /\ QueueSize \in Nat \ {0}
  /\ MaxMessages \in Nat
  /\ Writers \cap Readers = {}
  /\ NoOwner \notin Threads

VARIABLES
  mQueueEntries,  \* the slots; 0 in a slot that was never written
  mFront,         \* slot of the oldest pending message, -1 if none
  mRear,          \* slot of the newest pending message, -1 if none
  mQueueMutex,    \* the thread that owns the mutex, or NoOwner
  pc,             \* where each thread is in its current call
  message,        \* message[w]: the message writer w is adding
  destination,    \* destination[r]: what reader r copied out last
  readValue,      \* readValue[r]: the result of r's last readFromQueue
  sent            \* number of messages added so far

vars == <<mQueueEntries, mFront, mRear, mQueueMutex, pc, message,
          destination, readValue, sent>>

ring == <<mQueueEntries, mFront, mRear>>

Slots == 0..(QueueSize - 1)

AddSteps  == {"advanceRear", "initFront", "copyIn"}
ReadSteps == {"copyOut", "advanceFront"}
Critical  == AddSteps \cup ReadSteps \cup {"exit"}

(* CoreMessageQueue(numMessages), with no call in progress.                *)
Init ==
  /\ mQueueEntries = [s \in Slots |-> 0]
  /\ mFront = -1
  /\ mRear = -1
  /\ mQueueMutex = NoOwner
  /\ pc = [t \in Threads |-> "idle"]
  /\ message = [w \in Writers |-> 0]
  /\ destination = [r \in Readers |-> 0]
  /\ readValue = [r \in Readers |-> FALSE]
  /\ sent = 0

(* A mutant of NextSlot: the wrap at the end of the array is forgotten.    *)
NextSlotNoWrap(s) == s + 1

(* The slot after s: if(++s == mQueueSize) s = 0.                          *)
NextSlot(s) == IF s + 1 = QueueSize THEN 0 ELSE s + 1

Goto(t, from, to) ==
  /\ pc[t] = from
  /\ pc' = [pc EXCEPT ![t] = to]

----------------------------------------------------------------------------
(* A thread calls addToQueue or readFromQueue and waits for the mutex.     *)
CallAdd(w) ==
  /\ Goto(w, "idle", "enterAdd")
  /\ UNCHANGED <<ring, mQueueMutex, message, destination, readValue, sent>>

CallRead(r) ==
  /\ Goto(r, "idle", "enterRead")
  /\ UNCHANGED <<ring, mQueueMutex, message, destination, readValue, sent>>

(* A mutant of Enter: mutex_enter_blocking does not wait for the mutex.    *)
EnterNoWait(t) ==
  /\ mQueueMutex' = t
  /\ \/ sent < MaxMessages /\ Goto(t, "enterAdd", "advanceRear")
     \/ Goto(t, "enterRead", "copyOut")
  /\ UNCHANGED <<ring, message, destination, readValue, sent>>

(* mutex_enter_blocking: taken by a waiting thread when it is free.  The   *)
(* bound on messages keeps a writer waiting once it is reached.            *)
Enter(t) ==
  /\ mQueueMutex = NoOwner
  /\ mQueueMutex' = t
  /\ \/ sent < MaxMessages /\ Goto(t, "enterAdd", "advanceRear")
     \/ Goto(t, "enterRead", "copyOut")
  /\ UNCHANGED <<ring, message, destination, readValue, sent>>

(* mutex_exit and return.                                                  *)
Exit(t) ==
  /\ Goto(t, "exit", "idle")
  /\ mQueueMutex' = NoOwner
  /\ UNCHANGED <<ring, message, destination, readValue, sent>>

(* addToQueue: if(++mRear == mQueueSize) mRear = 0.  The call gets the     *)
(* next message number here.                                               *)
AdvanceRear(w) ==
  /\ Goto(w, "advanceRear", "initFront")
  /\ mRear' = NextSlot(mRear)
  /\ sent' = sent + 1
  /\ message' = [message EXCEPT ![w] = sent + 1]
  /\ UNCHANGED <<mQueueEntries, mFront, mQueueMutex, destination, readValue>>

(* addToQueue: if(mFront == -1) mFront = 0.                                *)
InitFront(w) ==
  /\ Goto(w, "initFront", "copyIn")
  /\ mFront' = IF mFront = -1 THEN 0 ELSE mFront
  /\ UNCHANGED <<mQueueEntries, mRear, mQueueMutex, message, destination,
                 readValue, sent>>

(* addToQueue: memcpy of the message into the rear slot.                   *)
CopyIn(w) ==
  /\ Goto(w, "copyIn", "exit")
  /\ mQueueEntries' = [mQueueEntries EXCEPT ![mRear] = message[w]]
  /\ UNCHANGED <<mFront, mRear, mQueueMutex, message, destination, readValue,
                 sent>>

(* readFromQueue on an empty queue.                                        *)
FindNothing(r) ==
  /\ mFront = -1
  /\ Goto(r, "copyOut", "exit")
  /\ readValue' = [readValue EXCEPT ![r] = FALSE]
  /\ UNCHANGED <<ring, mQueueMutex, message, destination, sent>>

(* readFromQueue: memcpy of the front message to the destination.          *)
CopyOut(r) ==
  /\ mFront # -1
  /\ Goto(r, "copyOut", "advanceFront")
  /\ destination' = [destination EXCEPT ![r] = mQueueEntries[mFront]]
  /\ readValue' = [readValue EXCEPT ![r] = TRUE]
  /\ UNCHANGED <<ring, mQueueMutex, message, sent>>

(* Mutants of AdvanceFront: mRear is not reset when the queue drains; the  *)
(* front stays where it is unless the queue drains.                        *)
AdvanceFrontKeepsRear(r) ==
  /\ Goto(r, "advanceFront", "exit")
  /\ mFront' = IF mFront = mRear THEN -1 ELSE NextSlot(mFront)
  /\ UNCHANGED <<mQueueEntries, mRear, mQueueMutex, message, destination,
                 readValue, sent>>

AdvanceFrontStays(r) ==
  /\ Goto(r, "advanceFront", "exit")
  /\ IF mFront = mRear
       THEN mFront' = -1 /\ mRear' = -1
       ELSE UNCHANGED <<mFront, mRear>>
  /\ UNCHANGED <<mQueueEntries, mQueueMutex, message, destination, readValue,
                 sent>>

(* readFromQueue: the queue is drained, or the front moves to the next     *)
(* slot.                                                                   *)
AdvanceFront(r) ==
  /\ Goto(r, "advanceFront", "exit")
  /\ IF mFront = mRear
       THEN mFront' = -1 /\ mRear' = -1
       ELSE mFront' = NextSlot(mFront) /\ UNCHANGED mRear
  /\ UNCHANGED <<mQueueEntries, mQueueMutex, message, destination, readValue,
                 sent>>

Write(w) == CallAdd(w) \/ AdvanceRear(w) \/ InitFront(w) \/ CopyIn(w)

Read(r) == CallRead(r) \/ FindNothing(r) \/ CopyOut(r) \/ AdvanceFront(r)

Next ==
  \/ \E w \in Writers : Write(w)
  \/ \E r \in Readers : Read(r)
  \/ \E t \in Threads : Enter(t) \/ Exit(t)

Spec == Init /\ [][Next]_vars

----------------------------------------------------------------------------
(* The queue that the ring represents.  An addToQueue call counts as done  *)
(* when it has moved mRear, a readFromQueue call when it has copied the    *)
(* message out; the rest of the call then only completes the bookkeeping.  *)

Doing(step) == mQueueMutex # NoOwner /\ pc[mQueueMutex] = step

front == IF Doing("initFront") /\ mFront = -1 THEN 0 ELSE mFront

skipped == IF Doing("advanceFront") THEN 1 ELSE 0

(* Number of slots from f to r, going round the ring.                      *)
Span(f, r) == IF f = -1 THEN 0
              ELSE IF f <= r THEN (r - f) + 1 ELSE (r - f) + 1 + QueueSize

(* The i-th slot counted from f, going round the ring.                     *)
Slot(f, i) == IF f + i <= QueueSize THEN f + i - 1 ELSE f + i - 1 - QueueSize

Stored(s) == IF s = mRear /\ (Doing("initFront") \/ Doing("copyIn"))
               THEN message[mQueueMutex] ELSE mQueueEntries[s]

Backlog == Span(front, mRear) - skipped

queue == [i \in 1..Backlog |-> Stored(Slot(front, i + skipped))]

(* isFull, evaluated by a thread that holds the mutex.                     *)
IsFull ==
  \/ mRear = QueueSize - 1 /\ mFront = 0
  \/ mRear = mFront - 1

----------------------------------------------------------------------------
TypeOK ==
  /\ sent \in Nat
  /\ mQueueEntries \in [Slots -> Nat]
  /\ mFront \in Slots \cup {-1}
  /\ mRear \in Slots \cup {-1}
  /\ mQueueMutex \in Threads \cup {NoOwner}
  /\ pc \in [Threads -> Critical \cup {"idle", "enterAdd", "enterRead"}]
  /\ message \in [Writers -> Nat]
  /\ destination \in [Readers -> Nat]
  /\ readValue \in [Readers -> BOOLEAN]

(* Only the owner of the mutex is between mutex_enter_blocking and         *)
(* mutex_exit.                                                             *)
MutualExclusion ==
  \A t \in Threads : pc[t] \in Critical <=> mQueueMutex = t

(* The slots from front to rear hold the newest messages, oldest first,    *)
(* with no gap, whatever was overwritten: the ring never exposes a slot    *)
(* left over from an earlier lap (addToQueue and readFromQueue,            *)
(* core_message_queue.h:24-66).                                            *)
NewestPending ==
  \A i \in 1..Backlog : queue[i] = (sent - Backlog) + i

(* isFull tells the truth whenever no call is in the middle of an update:  *)
(* it holds exactly when every slot is pending.                            *)
IsFullExact ==
  mQueueMutex = NoOwner => (IsFull <=> Backlog = QueueSize)

(* The ring buffer under its mutex behaves as the queue of atomic          *)
(* operations that its callers rely on.                                    *)
LQ == INSTANCE LossyQueue WITH Capacity <- QueueSize, NoMessage <- 0,
                               Messages <- 1..MaxMessages,
                               received <- destination, found <- readValue
ImplementsLossyQueue == LQ!Spec

(* Whenever a message is handed to a reader it is newer than all that any  *)
(* reader was handed before: sensor sweeps and control commands are never  *)
(* delivered twice or out of order (readFromQueue,                         *)
(* core_message_queue.h:41-66).                                            *)
InOrderDelivery ==
  [][\A r \in Readers : CopyOut(r) =>
        \A s \in Readers : destination'[r] > destination[s]]_vars

============================================================================
