----------------------------- MODULE CoreLocks -----------------------------
(***************************************************************************)
(* Who waits for whom.  Three contexts execute the program: the loop of    *)
(* core 0, lwIP's callbacks, which interrupt that loop (the program links  *)
(* pico_cyw43_arch_lwip_threadsafe_background), and the loop of core 1.    *)
(* They share the mutex of DEBUG_PRINT and those of the two queues of the  *)
(* mailbox, and core 0 stops core 1 and the interrupts to write the flash. *)
(*                                                                         *)
(* What happens inside a queue is in CoreMessageQueue, what is written to  *)
(* the flash in UserData.                                                  *)
(***************************************************************************)
EXTENDS Naturals

CONSTANTS
  DebugPrint,       \* DEBUG_PRINT_ON
  SettingsChange    \* whether the operator changes settings

ASSUME CoreLocksAssumption == {DebugPrint, SettingsChange} \subseteq BOOLEAN

Contexts == {"loop0", "callback", "loop1"}

Mutexes == {"debug", "control", "update"}

Nobody == "nobody"

(* The mutexes that a context takes, one at a time.                        *)
Uses(c) ==
  (IF DebugPrint THEN {"debug"} ELSE {}) \union
  CASE c = "loop0" -> {"update"}
    [] c = "callback" -> {"control"}
    [] c = "loop1" -> {"control", "update"}

(* The stages of a write of the settings: core 1 is asked to stop, has     *)
(* stopped and interrupts are disabled, are enabled again, core 1 is let   *)
(* go, and the watchdog is about to bite.                                  *)
WriteStages == {"lockout", "writing", "written", "unlock", "reset"}

VARIABLES
  pc,       \* "idle", "wait" or "hold"; for loop0 also one of WriteStages
  mutex,    \* the mutex that a context waits for or holds
  owner,    \* the context that holds a mutex
  lockout   \* of core 1: "none", "requested", "frozen" or "released"

locksVars == <<pc, mutex, owner, lockout>>

LocksInit ==
  /\ pc = [c \in Contexts |-> "idle"]
  /\ mutex = [c \in Contexts |-> "debug"]
  /\ owner = [m \in Mutexes |-> Nobody]
  /\ lockout = "none"

(* A callback runs to its end before the loop it interrupted continues; a  *)
(* frozen core does nothing until it has noticed its release.              *)
Runs(c) ==
  CASE c = "loop0" -> pc["callback"] = "idle"
    [] c = "callback" -> TRUE
    [] c = "loop1" -> lockout \notin {"frozen", "released"}

InterruptsEnabled == pc["loop0"] # "writing"

(* Context c comes to a DEBUG_PRINT or to an operation of a queue; for the *)
(* callbacks, an interrupt arrives.                                        *)
Begin(c, m) ==
  /\ Runs(c)
  /\ pc[c] = "idle"
  /\ m \in Uses(c)
  /\ c = "callback" => InterruptsEnabled
  /\ pc' = [pc EXCEPT ![c] = "wait"]
  /\ mutex' = [mutex EXCEPT ![c] = m]
  /\ UNCHANGED <<owner, lockout>>

(* mutex_enter_blocking: not recursive, also within one core.              *)
Enter(c) ==
  /\ Runs(c)
  /\ pc[c] = "wait"
  /\ owner[mutex[c]] = Nobody
  /\ pc' = [pc EXCEPT ![c] = "hold"]
  /\ owner' = [owner EXCEPT ![mutex[c]] = c]
  /\ UNCHANGED <<mutex, lockout>>

(* A mutant of Exit: the mutex is not given back.                          *)
ExitKeepsMutex(c) ==
  /\ Runs(c)
  /\ pc[c] = "hold"
  /\ pc' = [pc EXCEPT ![c] = "idle"]
  /\ UNCHANGED <<mutex, owner, lockout>>

\* mutex_exit
Exit(c) ==
  /\ Runs(c)
  /\ pc[c] = "hold"
  /\ pc' = [pc EXCEPT ![c] = "idle"]
  /\ owner' = [owner EXCEPT ![mutex[c]] = Nobody]
  /\ UNCHANGED <<mutex, lockout>>

----------------------------------------------------------------------------
(* stopCore1AndWriteUserData and writeToFlash.                             *)
StartLockout ==
  /\ SettingsChange
  /\ Runs("loop0")
  /\ pc["loop0"] = "idle"
  /\ pc' = [pc EXCEPT !["loop0"] = "lockout"]
  /\ lockout' = "requested"
  /\ UNCHANGED <<mutex, owner>>

(* The interrupt that freezes core 1 comes wherever its loop is.           *)
Freeze ==
  /\ lockout = "requested"
  /\ lockout' = "frozen"
  /\ UNCHANGED <<pc, mutex, owner>>

(* A mutant of DisableInterrupts: core 1's answer is not awaited.          *)
DisableInterruptsEarly ==
  /\ Runs("loop0")
  /\ pc["loop0"] = "lockout"
  /\ pc' = [pc EXCEPT !["loop0"] = "writing"]
  /\ UNCHANGED <<mutex, owner, lockout>>

DisableInterrupts ==
  /\ Runs("loop0")
  /\ pc["loop0"] = "lockout"
  /\ lockout = "frozen"
  /\ pc' = [pc EXCEPT !["loop0"] = "writing"]
  /\ UNCHANGED <<mutex, owner, lockout>>

(* The flash is written, and a callback that came up meanwhile may run.    *)
RestoreInterrupts ==
  /\ pc["loop0"] = "writing"
  /\ pc' = [pc EXCEPT !["loop0"] = "written"]
  /\ UNCHANGED <<mutex, owner, lockout>>

\* multicore_lockout_end_blocking: the request
EndLockout ==
  /\ Runs("loop0")
  /\ pc["loop0"] = "written"
  /\ pc' = [pc EXCEPT !["loop0"] = "unlock"]
  /\ lockout' = "released"
  /\ UNCHANGED <<mutex, owner>>

(* Core 1 returns from the interrupt that froze it.                        *)
Thaw ==
  /\ lockout = "released"
  /\ lockout' = "none"
  /\ UNCHANGED <<pc, mutex, owner>>

(* softwareReset: watchdog_enable, then nothing more on core 0's loop.     *)
EnableWatchdog ==
  /\ Runs("loop0")
  /\ pc["loop0"] = "unlock"
  /\ lockout = "none"
  /\ pc' = [pc EXCEPT !["loop0"] = "reset"]
  /\ UNCHANGED <<mutex, owner, lockout>>

(* The watchdog restarts the program, whatever the contexts are at.        *)
Restart ==
  /\ pc["loop0"] = "reset"
  /\ pc' = [c \in Contexts |-> "idle"]
  /\ mutex' = [c \in Contexts |-> "debug"]
  /\ owner' = [m \in Mutexes |-> Nobody]
  /\ UNCHANGED lockout

LocksNext ==
  \/ \E c \in Contexts : Enter(c) \/ Exit(c) \/ \E m \in Mutexes : Begin(c, m)
  \/ StartLockout \/ Freeze \/ DisableInterrupts \/ RestoreInterrupts
  \/ EndLockout \/ Thaw \/ EnableWatchdog \/ Restart

(* A context takes a mutex that is free again and again, and a callback    *)
(* leaves the loop time to run in.  Interrupts and settings may cease.     *)
Fairness ==
  /\ \A c \in Contexts : SF_locksVars(Enter(c)) /\ SF_locksVars(Exit(c))
  /\ SF_locksVars(DisableInterrupts) /\ WF_locksVars(RestoreInterrupts)
  /\ SF_locksVars(EndLockout) /\ SF_locksVars(EnableWatchdog)
  /\ WF_locksVars(Freeze) /\ WF_locksVars(Thaw) /\ WF_locksVars(Restart)

LocksSpec == LocksInit /\ [][LocksNext]_locksVars /\ Fairness

----------------------------------------------------------------------------
(* A context holds exactly the mutex that is owned by it.                  *)
LocksTypeOK ==
  /\ pc \in [Contexts -> {"idle", "wait", "hold"} \cup WriteStages]
  /\ mutex \in [Contexts -> Mutexes]
  /\ lockout \in {"none", "requested", "frozen", "released"}
  /\ \A c \in Contexts, m \in Mutexes : owner[m] = c <=> pc[c] = "hold" /\ mutex[c] = m

(* user_data.cpp:107: "we need to disable interrupts (and also the other   *)
(* core) while we are writing to flash": nothing else executes then.       *)
FlashIsWrittenAlone ==
  pc["loop0"] = "writing" => lockout = "frozen" /\ pc["callback"] = "idle"

(* d keeps c from going on: it owns the mutex c waits for, or interrupts   *)
(* c, or has frozen it.                                                    *)
Blocks(c, d) ==
  \/ pc[c] = "wait" /\ owner[mutex[c]] = d
  \/ c = "loop0" /\ d = "callback" /\ pc[d] # "idle"
  \/ c = "loop1" /\ d = "loop0" /\ lockout = "frozen"

(* Some contexts all wait for one of themselves.                           *)
Deadlocked ==
  \E stuck \in (SUBSET Contexts) \ {{}} : \A c \in stuck : \E d \in stuck : Blocks(c, d)

(* A callback waits for a mutex whose owner cannot run before it is done.  *)
CallbackWaitsFor(c) == pc["callback"] = "wait" /\ owner[mutex["callback"]] = c

(* There are just two deadlocks: a callback that prints interrupts a print *)
(* of its own core, and a callback needs a mutex that core 1 was frozen    *)
(* with, before the interrupts are disabled or after they are restored     *)
(* (core_0_executor.cpp:111-113, user_data.cpp:112-116).                   *)
OnlyTwoDeadlocks ==
  Deadlocked =>
    \/ CallbackWaitsFor("loop0") /\ mutex["callback"] = "debug"
    \/ /\ CallbackWaitsFor("loop1")
       /\ lockout = "frozen" /\ pc["loop0"] \in {"lockout", "written"}

(* When no more messages arrive, both loops go round for ever, however     *)
(* often the settings change.                                              *)
LoopsKeepRunning ==
  <>[](pc["callback"] = "idle") =>
    []<>(pc["loop0"] = "idle") /\ []<>(pc["loop1"] = "idle")

============================================================================
