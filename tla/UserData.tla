----------------------------- MODULE UserData -----------------------------
(***************************************************************************)
(* The settings: typed in over the serial port (SerialController), kept in *)
(* memory (UserData), written to flash and read back at the next boot      *)
(* (core 0's loop, stopCore1AndWriteUserData, softwareReset).  The power   *)
(* may fail at any time, also between the erasure of the flash and the     *)
(* programming of each of its pages.                                       *)
(*                                                                         *)
(* A string is a sequence of characters without its terminator, because    *)
(* one that is too long runs into the next one's place.  The lock out of   *)
(* core 1 during the write is in CoreLocks.                                *)
(***************************************************************************)
EXTENDS Naturals, Sequences, FiniteSetsExt, SequencesExt

CONSTANTS
  NUM_SENSOR_GROUPS,
  MaxLength,       \* MAX_SSID_LENGTH etc., by the command that sets the field
  KeyLength,       \* VALID_DATA_KEY_LENGTH
  PageSize,        \* FLASH_PAGE_SIZE
  Settable,        \* the commands the operator uses
  Strings          \* the parameters the operator types

(* The fields in the order in which they lie in the flash.                 *)
Fields == <<"SSID", "PASS", "NAME">>
            \o FlattenSeq([g \in 1..NUM_SENSOR_GROUPS |-> <<"GRPL", "GRPN">>])
            \o <<"BRKR">>

NUL == 0
Erased == 255
KeyByte == 200

ASSUME UserDataAssumption ==
  /\ NUM_SENSOR_GROUPS \in Nat
  /\ MaxLength \in [ToSet(Fields) -> Nat]
  /\ {KeyLength, PageSize} \subseteq Nat \ {0}
  /\ Settable \subseteq DOMAIN Fields
  /\ Strings \subseteq Seq(1..KeyByte - 1)
  /\ \A string \in Strings : Len(string) <= MaxLength["BRKR"]

(* Where a field, or behind the last one the key, begins.                  *)
Start(f) == MapThenSumSet(LAMBDA e : MaxLength[Fields[e]] + 1, 1..f-1)

KeyStart == Start(Len(Fields) + 1)

(* Mutants: the key is forgotten; the division is not rounded up.          *)
SizeWithoutKey == KeyStart

\* USER_DATA_FLASH_SIZE
Size == KeyStart + KeyLength + 1

PagesRoundedDown == Size \div PageSize

\* writeSize
Pages == (Size \div PageSize) + 1

VALID_DATA_KEY == [i \in 1..KeyLength |-> KeyByte]

Wiped == [f \in DOMAIN Fields |-> <<>>]

Overwrite(bytes, start, string) ==
  SubSeq(bytes, 1, start) \o string \o SubSeq(bytes, start + Len(string) + 1, Len(bytes))

(* serializeToByteArray.                                                   *)
Serialize(data) ==
  Overwrite(FoldLeft(LAMBDA bytes, f : Overwrite(bytes, Start(f), data[f]),
                     [i \in 1..Size |-> NUL],
                     [f \in DOMAIN Fields |-> f]),
            KeyStart, VALID_DATA_KEY)

(* The C string that begins behind the first start bytes.                  *)
ReadString(bytes, start) ==
  LET ends == {i \in start + 1 .. Len(bytes) : bytes[i] = NUL} IN
  SubSeq(bytes, start + 1, IF ends = {} THEN Len(bytes) ELSE Min(ends) - 1)

(* serializeFromByteArray.                                                 *)
ReadBack(bytes) ==
  IF ReadString(bytes, KeyStart) = VALID_DATA_KEY
    THEN [f \in DOMAIN Fields |-> ReadString(bytes, Start(f))]
    ELSE Wiped

VARIABLES
  pc,       \* "off", or the stage of core 0's loop
  user,     \* the strings of mUserData
  updated,  \* userDataUpdated of updateUserData
  flash,    \* the bytes at ADDR_PERSISTENT
  page,     \* the pages programmed so far
  saved,    \* history: the settings of the last write that was completed
  intact,   \* history: there was one, and no write has begun since
  dropped   \* history: a line that is no command followed a change

userDataVars == <<pc, user, updated, flash, page, saved, intact, dropped>>

UserDataInit ==
  /\ pc = "off"
  /\ user = Wiped
  /\ updated = FALSE
  /\ flash = [i \in 1..Pages * PageSize |-> Erased]
  /\ page = 0
  /\ saved = Wiped
  /\ intact = FALSE
  /\ dropped = FALSE

(* Core0Executor::initialize.                                              *)
Boot ==
  /\ pc = "off"
  /\ pc' = "loop"
  /\ user' = ReadBack(flash)
  /\ dropped' = FALSE
  /\ UNCHANGED <<updated, flash, page, saved, intact>>

----------------------------------------------------------------------------
(* updateUserData: one line after the other until no character comes.      *)
BeginUpdate ==
  /\ pc = "loop"
  /\ pc' = "serial"
  /\ updated' = FALSE
  /\ UNCHANGED <<user, flash, page, saved, intact, dropped>>

SetCommand(f, string) ==
  /\ pc = "serial"
  /\ f \in Settable
  /\ user' = [user EXCEPT ![f] = string]
  /\ updated' = TRUE
  /\ UNCHANGED <<pc, flash, page, saved, intact, dropped>>

(* A mutant of WipeCommand: it does not count as a change.                 *)
WipeCommandSilent ==
  /\ pc = "serial"
  /\ user' = Wiped
  /\ UNCHANGED <<pc, updated, flash, page, saved, intact, dropped>>

WipeCommand ==
  /\ pc = "serial"
  /\ user' = Wiped
  /\ updated' = TRUE
  /\ UNCHANGED <<pc, flash, page, saved, intact, dropped>>

(* A line that is too short or begins with no known prefix: its result,    *)
(* false, replaces that of the lines before it.                            *)
IgnoredLine ==
  /\ pc = "serial"
  /\ updated' = FALSE
  /\ dropped' = (dropped \/ updated)
  /\ UNCHANGED <<pc, user, flash, page, saved, intact>>

EndUpdate ==
  /\ pc = "serial"
  /\ pc' = IF updated THEN "erase" ELSE "loop"
  /\ UNCHANGED <<user, updated, flash, page, saved, intact, dropped>>

----------------------------------------------------------------------------
(* writeToFlash: erase, then program page by page from the first one on.   *)
Erase ==
  /\ pc = "erase"
  /\ pc' = "program"
  /\ flash' = [i \in DOMAIN flash |-> Erased]
  /\ page' = 0
  /\ intact' = FALSE
  /\ UNCHANGED <<user, updated, saved, dropped>>

Completed(n) == n = Pages

(* The scratch memory may end within the last page; whatever lies behind   *)
(* it in memory is programmed too and stands here as NUL.                  *)
Program ==
  /\ pc = "program"
  /\ ~Completed(page)
  /\ LET scratch == Serialize(user) IN
     flash' = [i \in DOMAIN flash |->
                 IF i \in page * PageSize + 1 .. (page + 1) * PageSize
                   THEN IF i <= Len(scratch) THEN scratch[i] ELSE NUL
                   ELSE flash[i]]
  /\ page' = page + 1
  /\ IF Completed(page')
       THEN saved' = user /\ intact' = TRUE
       ELSE UNCHANGED <<saved, intact>>
  /\ UNCHANGED <<pc, user, updated, dropped>>

SoftwareReset ==
  /\ pc = "program"
  /\ Completed(page)
  /\ pc' = "off"
  /\ user' = Wiped
  /\ UNCHANGED <<updated, flash, page, saved, intact, dropped>>

(* The power fails and returns.  Memory is lost.                           *)
PowerFailure ==
  /\ pc # "off"
  /\ pc' = "off"
  /\ user' = Wiped
  /\ UNCHANGED <<updated, flash, page, saved, intact, dropped>>

UserDataNext ==
  \/ Boot
  \/ BeginUpdate \/ EndUpdate \/ WipeCommand \/ IgnoredLine
  \/ \E f \in DOMAIN Fields, string \in Strings : SetCommand(f, string)
  \/ Erase \/ Program \/ SoftwareReset
  \/ PowerFailure

UserDataSpec == UserDataInit /\ [][UserDataNext]_userDataVars

----------------------------------------------------------------------------
(* Nothing outgrows the memory set aside for it: what serializeToByteArray *)
(* writes stays inside the scratch memory even when the fields overflow.   *)
UserDataTypeOK ==
  /\ pc \in {"off", "loop", "serial", "erase", "program"}
  /\ user \in [DOMAIN Fields -> Seq(1..Erased)]
  /\ updated \in BOOLEAN
  /\ Len(flash) = Pages * PageSize
  /\ Len(Serialize(user)) = Size
  /\ page \in 0..Pages

Fits(data) == \A f \in DOMAIN Fields : Len(data[f]) <= MaxLength[Fields[f]]

(* A board that boots has all of the settings that were saved last, or,    *)
(* when the write was cut short, none: never some from one write and some  *)
(* from another, wherever the power failed.  Too long a string may spoil   *)
(* other settings, but never the key, so that a complete write is always   *)
(* recognised (user_data.cpp:92-158).                                      *)
BootIsAllOrNothing ==
  [][Boot => /\ intact => ReadString(flash, KeyStart) = VALID_DATA_KEY
             /\ Fits(saved) => user' = saved \/ (user' = Wiped /\ ~intact)]_userDataVars

(* Outside updateUserData and the write, memory holds what the flash       *)
(* holds: no change stays in memory only (core_0_executor.cpp:72-76).      *)
ChangeIsWritten == pc = "loop" => user = ReadBack(flash)

(* A change stays in memory only because of a line that is no command and  *)
(* is read in the same call of updateUserData; the next change mends it.   *)
ChangeIsWrittenOrDropped == dropped \/ ChangeIsWritten

============================================================================
