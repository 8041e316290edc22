---------------------------- MODULE LossyQueue ----------------------------
(***************************************************************************)
(* What a CoreMessageQueue promises to its callers, as a queue of atomic   *)
(* operations: a first-in first-out queue that never blocks and never      *)
(* refuses a message.  A message that arrives while Capacity messages are  *)
(* pending takes the place of all of them.                                 *)
(***************************************************************************)
EXTENDS Naturals, Sequences

CONSTANTS
  Capacity,     \* the number of messages the queue holds (mQueueSize), >= 1
  Messages,     \* what may be added
  NoMessage,    \* what a reader has before its first message
  Readers       \* the threads that call readFromQueue

VARIABLES
  queue,        \* the pending messages, oldest first
  received,     \* received[r] is the last message handed to reader r
  found         \* found[r] is the result of r's last readFromQueue call

vars == <<queue, received, found>>

Init ==
  /\ queue = << >>
  /\ received = [r \in Readers |-> NoMessage]
  /\ found = [r \in Readers |-> FALSE]

(* Mutants of Put: a full queue refuses the message; one slot of the ring  *)
(* is never used; there is no test for a full queue.                       *)
PutRefuses(m) ==
  /\ queue' = IF Len(queue) < Capacity THEN Append(queue, m) ELSE queue
  /\ UNCHANGED <<received, found>>

PutOneShort(m) ==
  /\ queue' = IF Len(queue) + 1 < Capacity THEN Append(queue, m) ELSE <<m>>
  /\ UNCHANGED <<received, found>>

(* addToQueue: always succeeds; on a full queue every pending message is   *)
(* given up for the new one.                                               *)
Put(m) ==
  /\ queue' = IF Len(queue) < Capacity THEN Append(queue, m) ELSE <<m>>
  /\ UNCHANGED <<received, found>>

(* A mutant of Get: the newest message is handed out first.                *)
GetNewest(r) ==
  /\ queue # << >>
  /\ received' = [received EXCEPT ![r] = queue[Len(queue)]]
  /\ found' = [found EXCEPT ![r] = TRUE]
  /\ queue' = SubSeq(queue, 1, Len(queue) - 1)

(* readFromQueue that returns true: the oldest pending message is copied   *)
(* to the reader's destination.                                            *)
Get(r) ==
  /\ queue # << >>
  /\ received' = [received EXCEPT ![r] = Head(queue)]
  /\ found' = [found EXCEPT ![r] = TRUE]
  /\ queue' = Tail(queue)

(* readFromQueue that returns false: the destination is left alone.        *)
GetNothing(r) ==
  /\ queue = << >>
  /\ found' = [found EXCEPT ![r] = FALSE]
  /\ UNCHANGED <<queue, received>>

Next ==
  \/ \E m \in Messages : Put(m)
  \/ \E r \in Readers : Get(r) \/ GetNothing(r)

Spec == Init /\ [][Next]_vars

============================================================================
