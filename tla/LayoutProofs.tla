--------------------------- MODULE LayoutProofs ----------------------------
(***************************************************************************)
(* Theorems about the two places where the program lays out data in memory *)
(* one behind the other and looks for it later: the settings in the flash  *)
(* (UserData), and the results of a sweep in the array that passes between *)
(* the cores (SensorDataMessage).  The two have no variable in common.     *)
(***************************************************************************)
EXTENDS UserData, SensorDataMessage, FoldLemmas

(* The settings.  Until a call of updateUserData ends, a change that is    *)
(* not yet in the flash is either counted by userDataUpdated, and leads to *)
(* a write and a reset, or was dropped.                                    *)

ChangeInv ==
  /\ ChangeIsWrittenOrDropped
  /\ pc = "serial" =>
       updated \/ dropped \/ user = ReadBack(flash)

LEMMA ChangeInit == UserDataInit => ChangeInv
BY DEF UserDataInit, ChangeInv, ChangeIsWrittenOrDropped,
       ChangeIsWritten

LEMMA ChangeStep ==
  ASSUME ChangeInv, [UserDataNext]_userDataVars
  PROVE  ChangeInv'
<1> USE DEF ChangeInv, ChangeIsWrittenOrDropped,
            ChangeIsWritten
<1>1. CASE Boot
  BY <1>1 DEF Boot
<1>2. CASE BeginUpdate
  BY <1>2 DEF BeginUpdate
<1>3. CASE EndUpdate
  BY <1>3 DEF EndUpdate
<1>4. CASE WipeCommand
  BY <1>4 DEF WipeCommand
<1>5. CASE IgnoredLine
  BY <1>5 DEF IgnoredLine
<1>6. ASSUME NEW f, NEW string, SetCommand(f, string)
      PROVE  ChangeInv'
  BY <1>6 DEF SetCommand
<1>7. CASE Erase
  BY <1>7 DEF Erase
<1>8. CASE Program
  BY <1>8 DEF Program
<1>9. CASE SoftwareReset \/ PowerFailure
  BY <1>9 DEF SoftwareReset, PowerFailure
<1>10. CASE UNCHANGED userDataVars
  BY <1>10 DEF userDataVars
<1> QED
  BY <1>1, <1>2, <1>3, <1>4, <1>5, <1>6, <1>7, <1>8, <1>9, <1>10
  DEF UserDataNext

(* Outside a call of updateUserData and a write, memory holds what the     *)
(* flash holds, unless a line that is no command hid a change: for every   *)
(* layout of the settings, and wherever the power fails                    *)
(* (core_0_executor.cpp:72-76, serial_controller.cpp:19-50).               *)
THEOREM ChangesReachFlash ==
  UserDataSpec => []ChangeIsWrittenOrDropped
<1>1. ChangeInv => ChangeIsWrittenOrDropped
  BY DEF ChangeInv
<1> QED
  BY ChangeInit, ChangeStep, <1>1, PTL DEF UserDataSpec

----------------------------------------------------------------------------
(* What a write leaves in the flash, page by page.                         *)

FlashSize == Pages * PageSize

(* The scratch memory, and what is programmed of the memory behind it.     *)
Image(content) ==
  [i \in 1..FlashSize |->
     IF i <= Len(Serialize(content))
       THEN Serialize(content)[i] ELSE NUL]

FlashHoldsSaved == intact => flash = Image(saved)

(* While a write goes on, the pages programmed so far hold their part of   *)
(* the image of what is in memory, which does not change meanwhile.        *)
WriteInv ==
  /\ page \in Nat
  /\ flash = [i \in 1..FlashSize |-> flash[i]]
  /\ FlashHoldsSaved
  /\ pc = "program" =>
       /\ \A i \in 1..FlashSize :
            i <= page * PageSize => flash[i] = Image(user)[i]
       /\ Completed(page) \/ ~intact

LEMMA WriteInit == UserDataInit => WriteInv
BY DEF UserDataInit, WriteInv, FlashHoldsSaved, FlashSize

LEMMA WriteProgram ==
  ASSUME PageSize \in Nat, WriteInv, Program
  PROVE  WriteInv'
<1> DEFINE programmed(i) ==
             i \in page * PageSize + 1 .. (page + 1) * PageSize
<1>1. /\ pc = "program" /\ pc' = "program" /\ user' = user /\ ~intact
      /\ page \in Nat /\ page' = page + 1
      /\ IF Completed(page + 1)
           THEN saved' = user /\ intact' = TRUE
           ELSE intact' = intact /\ saved' = saved
  BY DEF WriteInv, Program
<1>2. flash' = [i \in 1..FlashSize |->
                  IF programmed(i) THEN Image(user)[i] ELSE flash[i]]
  BY DEF WriteInv, Program, Image
<1>3. ASSUME NEW i \in 1..FlashSize, i <= (page + 1) * PageSize
      PROVE  flash'[i] = Image(user)[i]
  <2>1. page * PageSize \in Nat /\ (page + 1) * PageSize \in Nat
    BY <1>1
  <2>2. programmed(i) \/ i <= page * PageSize
    BY <1>3, <2>1
  <2> HIDE DEF programmed
  <2> QED
    BY <1>1, <1>2, <2>2 DEF WriteInv
<1>4. flash' = [i \in 1..FlashSize |-> flash'[i]]
  BY <1>2
<1>5. CASE Completed(page + 1)
  <2>1. (page + 1) * PageSize = FlashSize
    BY <1>5 DEF Completed, FlashSize
  <2>2. \A i \in 1..FlashSize : flash'[i] = Image(user)[i]
    BY <1>1, <1>3, <2>1
  <2>3. Image(user) = [i \in 1..FlashSize |-> Image(user)[i]]
    BY DEF Image
  <2>4. flash' = Image(user)
    BY <1>4, <2>2, <2>3
  <2>5. Image(saved)' = Image(user) /\ Image(user)' = Image(user)
    BY <1>1, <1>5 DEF Image
  <2> QED
    BY <1>1, <1>3, <1>4, <1>5, <2>4, <2>5
    DEF WriteInv, FlashHoldsSaved, Completed
<1>6. CASE ~Completed(page + 1)
  <2>1. ~intact'
    BY <1>1, <1>6
  <2>2. Image(user)' = Image(user)
    BY <1>1 DEF Image
  <2> QED
    BY <1>1, <1>3, <1>4, <2>1, <2>2 DEF WriteInv, FlashHoldsSaved
<1> QED
  BY <1>5, <1>6

LEMMA WriteStep ==
  ASSUME PageSize \in Nat, WriteInv, [UserDataNext]_userDataVars
  PROVE  WriteInv'
<1>1. CASE Program
  BY <1>1, WriteProgram
<1>2. CASE Erase
  BY <1>2 DEF Erase, WriteInv, FlashHoldsSaved
<1>3. ASSUME UNCHANGED <<flash, page, saved, intact>>,
             pc' = "program" => pc = "program" /\ user' = user
      PROVE  WriteInv'
  BY <1>3 DEF WriteInv, FlashHoldsSaved, Image, Completed
<1>4. CASE Boot \/ BeginUpdate
  BY <1>3, <1>4 DEF Boot, BeginUpdate
<1>5. CASE EndUpdate \/ WipeCommand
           \/ IgnoredLine
  BY <1>3, <1>5 DEF EndUpdate, WipeCommand,
                    IgnoredLine
<1>6. ASSUME NEW f, NEW string, SetCommand(f, string)
      PROVE  WriteInv'
  BY <1>3, <1>6 DEF SetCommand
<1>7. CASE SoftwareReset \/ PowerFailure
  BY <1>3, <1>7 DEF SoftwareReset, PowerFailure
<1>8. CASE UNCHANGED userDataVars
  BY <1>3, <1>8 DEF userDataVars
<1> QED
  BY <1>1, <1>2, <1>4, <1>5, <1>6, <1>7, <1>8 DEF UserDataNext

(* A write that was completed is in the flash as a whole, whatever power   *)
(* failures came before and after it: no page of an earlier write and no   *)
(* erased page is left between its own, whatever the sizes of a page and   *)
(* of the settings are (user_data.cpp:92-117).                             *)
THEOREM WritesAreWhole ==
  ASSUME PageSize \in Nat
  PROVE  UserDataSpec => []FlashHoldsSaved
<1>1. UserDataInit => WriteInv
  BY WriteInit
<1>2. WriteInv /\ [UserDataNext]_userDataVars => WriteInv'
  BY WriteStep
<1>3. WriteInv => FlashHoldsSaved
  BY DEF WriteInv
<1> QED
  BY <1>1, <1>2, <1>3, PTL DEF UserDataSpec

----------------------------------------------------------------------------
(* Where the fields of the settings lie.                                   *)

FieldCount == Len(Fields)
Width == [f \in 1..FieldCount |-> MaxLength[Fields[f]] + 1]

(* The broker address is the last field, whatever groups there are.        *)
LEMMA FieldsAreASequence ==
  /\ FieldCount \in Nat \ {0}
  /\ DOMAIN Fields = 1..FieldCount
  /\ Fields[FieldCount] = "BRKR"
<1> DEFINE X == {"GRPL", "GRPN"}
           Group == <<"GRPL", "GRPN">>
           groups == [g \in 1..NUM_SENSOR_GROUPS |-> Group]
           All == X \cup {"SSID", "PASS", "NAME", "BRKR"}
           front == <<"SSID", "PASS", "NAME">>
           middle == FlattenSeq(groups)
           end == <<"BRKR">>
<1>1. NUM_SENSOR_GROUPS \in Nat
  BY UserDataAssumption
<1>2. Group \in Seq(X)
  OBVIOUS
<1>3. groups \in Seq(Seq(X))
  <2> HIDE DEF Group, X
  <2> QED
    BY <1>1, <1>2
<1>4. Len(groups) \in Nat
  <2> HIDE DEF groups, X
  <2> QED
    BY <1>3
<1>5. middle \in Seq(X)
  <2> HIDE DEF groups, X
  <2>1. PICK flat \in [0..Len(groups) -> Seq(X)] :
          FlattenSeq(groups) = flat[Len(groups)]
    BY <1>3, FlattenSteps
  <2> QED
    BY <1>4, <2>1
<1>6. /\ front \in Seq(All) /\ end \in Seq(All) /\ X \subseteq All
      /\ Len(end) = 1 /\ end[1] = "BRKR"
  OBVIOUS
<1>7. middle \in Seq(All)
  <2> HIDE DEF X, All, middle
  <2> QED
    BY <1>5, <1>6, SeqMonotonic
<1>8. /\ front \o middle \in Seq(All)
      /\ Fields = (front \o middle) \o end
  <2>1. Fields = (front \o middle) \o end
    BY DEF Fields
  <2> HIDE DEF front, middle, end, All
  <2> QED
    BY <1>6, <1>7, <2>1, ConcatProperties
<1> DEFINE body == front \o middle
<1>9. /\ Fields \in Seq(All) /\ Len(Fields) = Len(body) + 1 /\ Len(body) \in Nat
      /\ Fields[Len(body) + 1] = "BRKR"
  <2> HIDE DEF end, All, body
  <2>1. /\ body \o end \in Seq(All) /\ Len(body \o end) = Len(body) + Len(end)
        /\ \A i \in 1 .. Len(body) + Len(end) :
             (body \o end)[i] = IF i <= Len(body) THEN body[i] ELSE end[i - Len(body)]
    BY <1>6, <1>8, ConcatProperties DEF body
  <2>2. Len(body) \in Nat
    BY <1>8 DEF body
  <2>3. Fields = body \o end
    BY <1>8 DEF body
  <2>4. Len(body) + 1 \in 1..Len(body) + Len(end) /\ Len(body) + 1 - Len(body) = 1
    BY <1>6, <2>2
  <2>5. (body \o end)[Len(body) + 1] = end[1]
    BY <2>1, <2>2, <2>4
  <2> QED
    BY <1>6, <2>1, <2>2, <2>3, <2>5
<1> HIDE DEF body, All
<1> QED
  BY <1>9, LenProperties DEF FieldCount

LEMMA WidthType == Width \in [1..FieldCount -> Nat]
<1>1. ASSUME NEW f \in 1..FieldCount
      PROVE  MaxLength[Fields[f]] \in Nat
  BY FieldsAreASequence, UserDataAssumption DEF ToSet
<1> QED
  BY <1>1 DEF Width

(* Where the fields begin.                                                 *)
LEMMA Starts ==
  /\ Start(1) = 0
  /\ \A f \in 1..FieldCount + 1 : Start(f) \in Nat
  /\ \A f \in 1..FieldCount : Start(f + 1) = Start(f) + Width[f]
<1> DEFINE n == FieldCount
<1>1. n \in Nat
  BY FieldsAreASequence
<1>2. IsFiniteSet(1..n)
  BY <1>1, FS_Interval
<1>3. PICK it : Sums(1..n, Width, it)
  <2> HIDE DEF n
  <2> QED
    BY <1>2, WidthType, SumExists DEF n
<1> DEFINE D == 1..n
<1>10. Sums(D, Width, it)
  BY <1>3
<1>11. it \in [SUBSET D -> Nat]
  BY <1>10 DEF Sums
<1>4. AddsUp(D, Width, it)
  <2> HIDE DEF D
  <2> QED
    BY <1>10, SumRemove
<1>5. ASSUME NEW f \in 1..n + 1
      PROVE  Start(f) = it[1..f-1]
  <2> DEFINE T == 1..f-1
             Adds(jt) == jt = [s \in SUBSET T |->
                                 IF s = {} THEN 0
                                 ELSE LET x == CHOOSE x \in s : TRUE
                                      IN (MaxLength[Fields[x]] + 1) + jt[s \ {x}]]
  <2>1. T \in SUBSET (1..n)
    BY <1>1
  <2>2. IsFiniteSet(T)
    BY <1>1, FS_Interval
  <2> DEFINE h == [x \in T |-> Width[x]]
  <2>3. h \in [T -> Nat]
    BY <2>1, WidthType
  <2>4. PICK jt : Sums(T, h, jt)
    <3> HIDE DEF h, T
    <3> QED
      BY <2>2, <2>3, SumExists
  <2>5. ASSUME NEW kt
        PROVE  Adds(kt) <=> IsSum(T, h, kt)
    <3>1. ASSUME NEW x \in T
          PROVE  h[x] = MaxLength[Fields[x]] + 1
      BY <2>1 DEF Width
    <3>2. ASSUME NEW s \in SUBSET T, s # {}
          PROVE  LET x == CHOOSE x \in s : TRUE
                 IN (MaxLength[Fields[x]] + 1) + kt[s \ {x}] = h[x] + kt[s \ {x}]
      <4> DEFINE x == CHOOSE x \in s : TRUE
      <4>1. x \in T
        BY <3>2
      <4> HIDE DEF x, h
      <4>2. h[x] = MaxLength[Fields[x]] + 1
        BY <3>1, <4>1
      <4> QED
        BY <4>2 DEF x
    <3> HIDE DEF T, h
    <3> QED
      BY <3>2 DEF IsSum
  <2>6. \E kt : Adds(kt) /\ Start(f) = kt[T]
    <3>1. Adds(jt)
      BY <2>4, <2>5 DEF Sums
    <3> QED
      BY <3>1 DEF Start, MapThenSumSet, MapThenFoldSet
  <2>7. PICK kt : IsSum(T, h, kt) /\ Start(f) = kt[T]
    BY <2>5, <2>6
  <2> HIDE DEF T, Adds, n
  <2>8. SameOn(T, h, Width)
    BY DEF SameOn
  <2> HIDE DEF h
  <2>9. kt[T] = it[T]
    <3>1. T \in SUBSET D
      BY <2>1
    <3> HIDE DEF D
    <3> QED
      BY <1>10, <2>7, <2>8, <3>1, SumsAgree
  <2> QED
    BY <2>7, <2>9 DEF T
<1>6. Start(1) = 0
  <2>1. 1 \in 1..n + 1 /\ 1..1-1 = {}
    BY <1>1
  <2> QED
    BY <1>4, <1>5, <2>1 DEF AddsUp
<1>7. ASSUME NEW f \in 1..n + 1
      PROVE  Start(f) \in Nat
  <2>1. 1..f-1 \in SUBSET (1..n)
    BY <1>1
  <2> QED
    BY <1>5, <1>11, <2>1
<1>8. ASSUME NEW f \in 1..n
      PROVE  Start(f + 1) = Start(f) + Width[f]
  <2>1. /\ f + 1 \in 1..n + 1 /\ f \in 1..n + 1
        /\ f + 1 - 1 = f /\ 1..f \in SUBSET (1..n)
        /\ (1..f) \ {f} = 1..f-1 /\ f \in 1..f
    BY <1>1
  <2>2. Start(f + 1) = it[1..f] /\ Start(f) = it[1..f-1]
    BY <1>5, <2>1
  <2>3. it[1..f] = Width[f] + it[(1..f) \ {f}]
    <3>1. 1..f \in SUBSET D /\ f \in 1..f
      BY <2>1
    <3> HIDE DEF D
    <3> QED
      BY <1>4, <3>1 DEF AddsUp
  <2>4. Width[f] \in Nat /\ Start(f) \in Nat
    BY <1>7, <2>1, WidthType
  <2> QED
    <3>1. it[1..f] = Width[f] + Start(f)
      BY <2>1, <2>2, <2>3
    <3> QED
      BY <2>2, <2>4, <3>1
<1> QED
  BY <1>6, <1>7, <1>8


(* Later fields begin later, and the key begins behind all of them.        *)
LEMMA StartsAscend ==
  ASSUME NEW f \in 1..FieldCount + 1, NEW g \in f..FieldCount + 1
  PROVE  Start(f) <= Start(g)
<1> DEFINE S == {k \in Nat : f + k <= FieldCount + 1 => Start(f) <= Start(f + k)}
<1>1. FieldCount \in Nat
  BY FieldsAreASequence
<1>2. 0 \in S
  <2>1. Start(f) \in Nat /\ f + 0 = f
    BY Starts
  <2> QED
    BY <2>1
<1>3. ASSUME NEW k \in Nat, k \in S
      PROVE  k + 1 \in S
  <2> SUFFICES ASSUME f + (k + 1) <= FieldCount + 1
               PROVE  Start(f) <= Start(f + (k + 1))
    OBVIOUS
  <2>1. f + k \in 1..FieldCount /\ f + (k + 1) = (f + k) + 1
    BY <1>1
  <2>2. Start((f + k) + 1) = Start(f + k) + Width[f + k]
    BY <2>1, Starts
  <2>3. Width[f + k] \in Nat /\ Start(f + k) \in Nat /\ Start(f) \in Nat
    BY <1>1, <2>1, WidthType, Starts
  <2>4. Start(f) <= Start(f + k)
    BY <1>1, <1>3, <2>1
  <2> QED
    BY <2>1, <2>2, <2>3, <2>4
<1>4. g - f \in S
  <2>1. g - f \in Nat
    BY <1>1
  <2> HIDE DEF S
  <2> QED
    BY <1>2, <1>3, <2>1, Induction
<1>5. f + (g - f) = g
  BY <1>1
<1> QED
  BY <1>1, <1>4, <1>5

LEMMA KeyIsBehind ==
  /\ KeyStart \in Nat \ {0}
  /\ Size \in Nat /\ Size = KeyStart + KeyLength + 1
  /\ KeyLength \in Nat \ {0} /\ PageSize \in Nat \ {0}
  /\ \A f \in 1..FieldCount :
       /\ Start(f) \in Nat /\ Start(f) < KeyStart
       /\ Width[f] \in Nat \ {0}
       /\ Start(f) + Width[f] <= KeyStart
       /\ Start(f) + MaxLength["BRKR"] < KeyStart
  /\ MaxLength["BRKR"] \in Nat
<1>1. FieldCount \in Nat \ {0}
  BY FieldsAreASequence
<1>2. KeyStart = Start(FieldCount + 1)
  BY DEF KeyStart, FieldCount
<1>3. KeyStart \in Nat
  BY <1>1, <1>2, Starts
<1>4. ASSUME NEW f \in 1..FieldCount
      PROVE  /\ Start(f) \in Nat /\ Width[f] \in Nat \ {0}
             /\ Start(f) + Width[f] <= KeyStart
  <2>1. f \in 1..FieldCount + 1 /\ f + 1 \in 1..FieldCount + 1
    BY <1>1
  <2>2. Start(f) \in Nat /\ Start(f + 1) = Start(f) + Width[f]
    BY <2>1, Starts
  <2>3. Width[f] = MaxLength[Fields[f]] + 1 /\ MaxLength[Fields[f]] \in Nat
    BY FieldsAreASequence, UserDataAssumption DEF Width, ToSet
  <2>4. FieldCount + 1 \in (f + 1)..FieldCount + 1
    BY <1>1
  <2>5. Start(f + 1) <= KeyStart
    BY <1>2, <2>1, <2>4, StartsAscend
  <2> QED
    BY <2>2, <2>3, <2>5
<1>5. MaxLength["BRKR"] \in Nat /\ Width[FieldCount] = MaxLength["BRKR"] + 1
  <2>1. FieldCount \in 1..FieldCount
    BY <1>1
  <2>2. MaxLength[Fields[FieldCount]] \in Nat
    BY <2>1, FieldsAreASequence, UserDataAssumption DEF ToSet
  <2> QED
    BY <2>1, <2>2, FieldsAreASequence DEF Width
<1>6. ASSUME NEW f \in 1..FieldCount
      PROVE  Start(f) + MaxLength["BRKR"] < KeyStart
  <2>1. FieldCount \in f..FieldCount + 1 /\ f \in 1..FieldCount + 1
        /\ FieldCount \in 1..FieldCount
    BY <1>1
  <2>2. Start(f) <= Start(FieldCount)
    BY <2>1, StartsAscend
  <2>3. Start(FieldCount) + Width[FieldCount] <= KeyStart
    BY <1>4, <2>1
  <2>4. Start(FieldCount) \in Nat /\ Start(f) \in Nat
    BY <1>4, <2>1
  <2> QED
    BY <1>3, <1>5, <2>2, <2>3, <2>4
<1>7. KeyLength \in Nat \ {0} /\ PageSize \in Nat \ {0}
  BY UserDataAssumption
<1>8. KeyStart # 0
  BY <1>1, <1>3, <1>4
<1>9. \A f \in 1..FieldCount : Start(f) < KeyStart
  BY <1>3, <1>4
<1> QED
  BY <1>3, <1>4, <1>5, <1>6, <1>7, <1>8, <1>9 DEF Size

----------------------------------------------------------------------------
(* The bytes of the scratch memory and of the flash.                       *)
Byte == 0..Erased

LEMMA OverwriteBytes ==
  ASSUME NEW bytes \in Seq(Byte), NEW start \in Nat, NEW string \in Seq(Byte),
         start + Len(string) <= Len(bytes)
  PROVE  /\ Overwrite(bytes, start, string) \in Seq(Byte)
         /\ Len(Overwrite(bytes, start, string)) = Len(bytes)
         /\ \A i \in 1..Len(bytes) :
              Overwrite(bytes, start, string)[i] =
                IF start < i /\ i <= start + Len(string)
                  THEN string[i - start] ELSE bytes[i]
BY SpliceProperties DEF Overwrite, Splice, IsSplice

Memory == {bytes \in Seq(Byte) : Len(bytes) = Size}

Blank == [i \in 1..Size |-> NUL]

(* No string reaches the last byte before the key.                         *)
Placed(data) ==
  /\ data \in [1..FieldCount -> Seq(1..Erased)]
  /\ \A f \in 1..FieldCount : Start(f) + Len(data[f]) < KeyStart

LEMMA StringsAreBytes ==
  ASSUME NEW data, Placed(data), NEW f \in 1..FieldCount
  PROVE  /\ data[f] \in Seq(Byte) /\ data[f] \in Seq(1..Erased)
         /\ Len(data[f]) \in Nat
         /\ Start(f) + Len(data[f]) < KeyStart
         /\ \A i \in 1..Len(data[f]) : data[f][i] \in Byte /\ data[f][i] # NUL
<1>1. data[f] \in Seq(1..Erased) /\ Start(f) + Len(data[f]) < KeyStart
  BY DEF Placed
<1>2. 1..Erased \subseteq Byte
  BY DEF Byte, Erased
<1>3. data[f] \in Seq(Byte)
  BY <1>1, <1>2, SeqMonotonic
<1>4. \A i \in 1..Len(data[f]) : data[f][i] \in 1..Erased
  BY <1>1, ElementOfSeq
<1>5. \A i \in 1..Erased : i # NUL
  BY DEF NUL, Erased
<1> QED
  BY <1>1, <1>2, <1>3, <1>4, <1>5, LenProperties

LEMMA BlankMemory == Blank \in Memory
<1>1. Size \in Nat /\ NUL \in Byte
  BY KeyIsBehind DEF NUL, Byte, Erased
<1>2. Blank \in Seq(Byte) /\ Len(Blank) = Size
  BY <1>1 DEF Blank
<1> QED
  BY <1>2 DEF Memory

LEMMA FieldIntoMemory ==
  ASSUME NEW data, Placed(data), NEW f \in 1..FieldCount, NEW bytes \in Memory
  PROVE  /\ Overwrite(bytes, Start(f), data[f]) \in Memory
         /\ \A i \in 1..Size :
              Overwrite(bytes, Start(f), data[f])[i] =
                IF Start(f) < i /\ i <= Start(f) + Len(data[f])
                  THEN data[f][i - Start(f)] ELSE bytes[i]
<1>1. /\ Start(f) \in Nat /\ KeyStart \in Nat /\ KeyStart < Size
  BY KeyIsBehind
<1>2. bytes \in Seq(Byte) /\ Len(bytes) = Size
  BY DEF Memory
<1>3. /\ data[f] \in Seq(Byte) /\ Len(data[f]) \in Nat
      /\ Start(f) + Len(data[f]) < KeyStart
  BY StringsAreBytes
<1>4. Start(f) + Len(data[f]) <= Len(bytes)
  BY <1>1, <1>2, <1>3, KeyIsBehind
<1>5. /\ Overwrite(bytes, Start(f), data[f]) \in Seq(Byte)
      /\ Len(Overwrite(bytes, Start(f), data[f])) = Len(bytes)
      /\ \A i \in 1..Len(bytes) :
           Overwrite(bytes, Start(f), data[f])[i] =
             IF Start(f) < i /\ i <= Start(f) + Len(data[f])
               THEN data[f][i - Start(f)] ELSE bytes[i]
  BY <1>1, <1>2, <1>3, <1>4, OverwriteBytes
<1> QED
  BY <1>2, <1>5 DEF Memory

(* The memory after each of the fields.                                    *)
Stages(data, stage) ==
  /\ stage \in [0..FieldCount -> Memory]
  /\ stage[0] = Blank
  /\ \A k \in 1..FieldCount :
       stage[k] = Overwrite(stage[k-1], Start(k), data[k])
  /\ Serialize(data) = Overwrite(stage[FieldCount], KeyStart, VALID_DATA_KEY)

LEMMA SerializeStages ==
  ASSUME NEW data, Placed(data)
  PROVE  \E stage : Stages(data, stage)
<1> DEFINE n == FieldCount
           D == 1..n
           seq == [f \in D |-> f]
           op == [p \in D \X Memory |->
                    Overwrite(p[2], Start(p[1]), data[p[1]])]
           Folded(c) ==
             c = [s \in SUBSET D |->
                    IF s = {} THEN Blank
                    ELSE LET x == Max(s)
                         IN Overwrite(c[s \ {x}], Start(seq[x]), data[seq[x]])]
<1>1. n \in Nat /\ D = DOMAIN Fields /\ D = DOMAIN seq
  BY FieldsAreASequence
<1>2. op \in [D \X Memory -> Memory]
  <2> HIDE DEF n
  <2> QED
    BY FieldIntoMemory DEF n
<1>3. PICK it \in [SUBSET (1..n) -> Memory] : IsLeftFold(n, Blank, op, it)
  <2> DEFINE V == Memory
  <2>1. Blank \in V /\ op \in [(1..n) \X V -> V]
    BY <1>2, BlankMemory
  <2> HIDE DEF op, V, n
  <2>2. \E it \in [SUBSET (1..n) -> V] : IsLeftFold(n, Blank, op, it)
    BY <1>1, <2>1, LeftFoldExists
  <2> QED
    BY <2>2 DEF V
<1>4. Folded(it)
  <2>1. ASSUME NEW s \in SUBSET D, s # {}
        PROVE  op[<<Max(s), it[s \ {Max(s)}]>>]
                 = LET x == Max(s)
                   IN Overwrite(it[s \ {x}], Start(seq[x]), data[seq[x]])
    <3> DEFINE x == Max(s)
    <3>1. x \in s
      BY <1>1, <2>1, GreatestElement
    <3> HIDE DEF x
    <3>2. x \in D /\ s \ {x} \in SUBSET D
      BY <3>1
    <3>3. it[s \ {x}] \in Memory /\ seq[x] = x
      BY <3>2
    <3>4. op[<<x, it[s \ {x}]>>] = Overwrite(it[s \ {x}], Start(x), data[x])
      <4> HIDE DEF D
      <4> QED
        BY <3>2, <3>3
    <3> HIDE DEF op, seq
    <3> QED
      BY <3>3, <3>4 DEF x
  <2>2. ASSUME NEW s \in SUBSET D
        PROVE  it[s] = IF s = {} THEN Blank ELSE op[<<Max(s), it[s \ {Max(s)}]>>]
    <3> HIDE DEF op
    <3> QED
      BY <1>3 DEF IsLeftFold, IsFold
  <2>3. it = [s \in SUBSET D |-> it[s]]
    OBVIOUS
  <2> HIDE DEF op, seq, D
  <2> QED
    BY <2>1, <2>2, <2>3
<1>5. \E c : /\ Folded(c)
             /\ Serialize(data) = Overwrite(c[D], KeyStart, VALID_DATA_KEY)
  <2>1. DOMAIN Fields = D
    BY <1>1
  <2>2. DOMAIN seq = D
    BY <1>1
  <2> DEFINE c == CHOOSE c : Folded(c)
  <2>3. Folded(c)
    BY <1>4
  <2>4. Serialize(data) = Overwrite(c[D], KeyStart, VALID_DATA_KEY)
    <3> HIDE DEF D, op
    <3> QED
      BY <2>1, <2>2 DEF Serialize, FoldLeft, MapThenFoldSet, Blank
  <2> HIDE DEF c
  <2> QED
    BY <2>3, <2>4
<1>6. PICK c : /\ Folded(c)
               /\ Serialize(data) = Overwrite(c[D], KeyStart, VALID_DATA_KEY)
  BY <1>5
<1>7. c[1..0] = Blank
  <2>1. 1..0 = {} /\ {} \in SUBSET D
    OBVIOUS
  <2> HIDE DEF D, seq
  <2> QED
    BY <1>6, <2>1
<1>8. ASSUME NEW k \in 1..n
      PROVE  c[1..k] = Overwrite(c[1..k-1], Start(k), data[k])
  <2>1. 1..k \in SUBSET D /\ 1..k # {}
    BY <1>1, SMTT(30)
  <2>2. Max(1..k) \in 1..k /\ \A y \in 1..k : y <= Max(1..k)
    BY <1>1, <2>1, GreatestElement
  <2>3. Max(1..k) = k
    BY <1>1, <2>2
  <2>4. (1..k) \ {k} = 1..k-1 /\ seq[k] = k
    BY <1>1
  <2>5. ASSUME NEW s \in SUBSET D, s # {}
        PROVE  c[s] = Overwrite(c[s \ {Max(s)}], Start(seq[Max(s)]), data[seq[Max(s)]])
    <3> HIDE DEF D, seq
    <3> QED
      BY <1>6, <2>5
  <2>6. c[1..k] = Overwrite(c[(1..k) \ {Max(1..k)}], Start(seq[Max(1..k)]), data[seq[Max(1..k)]])
    <3> HIDE DEF D, seq
    <3> QED
      BY <2>1, <2>5
  <2> HIDE DEF D, seq
  <2> QED
    BY <2>3, <2>4, <2>6
<1> DEFINE stage == [k \in 0..n |-> c[1..k]]
<1>9. stage[0] = Blank
  BY <1>1, <1>7
<1>10. ASSUME NEW k \in 1..n
       PROVE  stage[k] = Overwrite(stage[k-1], Start(k), data[k])
  <2>1. k \in 0..n /\ k - 1 \in 0..n
    BY <1>1
  <2> QED
    BY <1>8, <2>1
<1>11. ASSUME NEW k \in 0..n
       PROVE  stage[k] \in Memory
  <2> DEFINE S == {j \in Nat : j <= n => stage[j] \in Memory}
  <2>1. 0 \in S
    BY <1>9, BlankMemory
  <2>2. ASSUME NEW j \in Nat, j \in S
        PROVE  j + 1 \in S
    <3> HIDE DEF stage
    <3> SUFFICES ASSUME j + 1 <= n
                 PROVE  stage[j + 1] \in Memory
      OBVIOUS
    <3>1. j + 1 \in 1..n /\ j + 1 - 1 = j /\ stage[j] \in Memory
      BY <1>1, <2>2
    <3>2. stage[j + 1] = Overwrite(stage[j], Start(j + 1), data[j + 1])
      BY <1>10, <3>1
    <3> QED
      BY <3>1, <3>2, FieldIntoMemory
  <2>3. k \in S
    <3>1. k \in Nat
      BY <1>1
    <3> HIDE DEF S
    <3> QED
      BY <2>1, <2>2, <3>1, Induction
  <2> QED
    BY <1>1, <2>3
<1>12. stage \in [0..FieldCount -> Memory]
  <2>1. stage = [k \in 0..n |-> stage[k]]
    OBVIOUS
  <2> HIDE DEF stage
  <2> QED
    BY <1>11, <2>1
<1>13. stage[FieldCount] = c[D]
  BY <1>1
<1> HIDE DEF stage, D
<1>14. Stages(data, stage)
  BY <1>6, <1>9, <1>10, <1>12, <1>13 DEF Stages
<1> QED
  BY <1>14

(* No string ever reaches the key, nor the byte before it.                 *)
LEMMA EndStaysBlank ==
  ASSUME NEW data, Placed(data), NEW stage, Stages(data, stage)
  PROVE  \A i \in KeyStart..Size : stage[FieldCount][i] = NUL
<1> DEFINE S == {k \in Nat : k <= FieldCount =>
                   \A i \in KeyStart..Size : stage[k][i] = NUL}
<1>1. FieldCount \in Nat /\ KeyStart \in Nat \ {0} /\ Size \in Nat
  BY FieldsAreASequence, KeyIsBehind
<1>2. 0 \in S
  <2>1. stage[0] = Blank
    BY DEF Stages
  <2>2. \A i \in KeyStart..Size : i \in 1..Size
    BY <1>1
  <2> QED
    BY <2>1, <2>2 DEF Blank
<1>3. ASSUME NEW k \in Nat, k \in S
      PROVE  k + 1 \in S
  <2> SUFFICES ASSUME k + 1 <= FieldCount, NEW i \in KeyStart..Size
               PROVE  stage[k + 1][i] = NUL
    OBVIOUS
  <2>1. k + 1 \in 1..FieldCount /\ k + 1 - 1 = k /\ k \in 0..FieldCount
        /\ i \in 1..Size /\ k <= FieldCount
    BY <1>1
  <2>2. stage[k] \in Memory
        /\ stage[k + 1] = Overwrite(stage[k], Start(k + 1), data[k + 1])
    BY <2>1 DEF Stages
  <2>3. stage[k + 1][i] =
          IF Start(k + 1) < i /\ i <= Start(k + 1) + Len(data[k + 1])
            THEN data[k + 1][i - Start(k + 1)] ELSE stage[k][i]
    BY <2>1, <2>2, FieldIntoMemory
  <2>4. /\ Len(data[k + 1]) \in Nat /\ Start(k + 1) \in Nat
        /\ Start(k + 1) + Len(data[k + 1]) < KeyStart
    BY <2>1, StringsAreBytes, KeyIsBehind
  <2>5. ~(i <= Start(k + 1) + Len(data[k + 1]))
    BY <1>1, <2>4
  <2>6. stage[k][i] = NUL
    BY <1>3, <2>1
  <2> QED
    BY <2>3, <2>5, <2>6
<1>4. FieldCount \in S
  <2> HIDE DEF S
  <2> QED
    BY <1>1, <1>2, <1>3, Induction
<1> QED
  BY <1>1, <1>4

(* Strings that fit lie one behind the other, each filled up with NULs.    *)
FieldBytes(data, f, bytes) ==
  \A i \in Start(f) + 1..Start(f) + Width[f] :
    bytes[i] = IF i <= Start(f) + Len(data[f])
                 THEN data[f][i - Start(f)] ELSE NUL

LEMMA FittingStage ==
  ASSUME NEW data, Placed(data), Fits(data),
         NEW k \in 1..FieldCount, NEW before \in Memory, NEW after,
         after = Overwrite(before, Start(k), data[k]),
         \A i \in Start(k) + 1..Size : before[i] = NUL,
         \A f \in 1..k-1 : FieldBytes(data, f, before)
  PROVE  /\ \A i \in Start(k + 1) + 1..Size : after[i] = NUL
         /\ \A f \in 1..k : FieldBytes(data, f, after)
<1>1. /\ Start(k) \in Nat /\ Width[k] \in Nat \ {0} /\ Size \in Nat
      /\ KeyStart \in Nat /\ KeyStart < Size
      /\ Start(k + 1) = Start(k) + Width[k]
      /\ Start(k) + Width[k] <= KeyStart
  BY KeyIsBehind, Starts
<1>2. Len(data[k]) \in Nat /\ Len(data[k]) < Width[k]
  <2>1. k \in DOMAIN Fields /\ MaxLength[Fields[k]] \in Nat
    BY FieldsAreASequence, UserDataAssumption DEF ToSet
  <2> QED
    BY <2>1, StringsAreBytes DEF Fits, Width
<1>3. \A i \in 1..Size :
        after[i] = IF Start(k) < i /\ i <= Start(k) + Len(data[k])
                     THEN data[k][i - Start(k)] ELSE before[i]
  BY FieldIntoMemory
<1>4. ASSUME NEW i \in Start(k + 1) + 1..Size
      PROVE  after[i] = NUL
  <2>1. i \in 1..Size /\ i \in Start(k) + 1..Size
        /\ ~(i <= Start(k) + Len(data[k]))
    BY <1>1, <1>2
  <2> QED
    BY <1>3, <2>1
<1>5. FieldBytes(data, k, after)
  <2> SUFFICES ASSUME NEW i \in Start(k) + 1..Start(k) + Width[k]
               PROVE  after[i] = IF i <= Start(k) + Len(data[k])
                                   THEN data[k][i - Start(k)] ELSE NUL
    BY DEF FieldBytes
  <2>1. i \in 1..Size /\ i \in Start(k) + 1..Size /\ Start(k) < i
    BY <1>1
  <2> QED
    BY <1>3, <2>1
<1>6. ASSUME NEW f \in 1..k-1
      PROVE  FieldBytes(data, f, after)
  <2> SUFFICES ASSUME NEW i \in Start(f) + 1..Start(f) + Width[f]
               PROVE  after[i] = before[i]
    BY <1>6 DEF FieldBytes
  <2>1. FieldCount \in Nat /\ f \in 1..FieldCount
    BY FieldsAreASequence
  <2>2. Start(f) \in Nat /\ Width[f] \in Nat /\ Start(f + 1) = Start(f) + Width[f]
    BY <2>1, KeyIsBehind, Starts
  <2>3. f + 1 \in 1..FieldCount + 1 /\ k \in (f + 1)..FieldCount + 1
    BY <2>1
  <2>4. Start(f + 1) <= Start(k)
    BY <2>3, StartsAscend
  <2>5. i \in 1..Size /\ ~(Start(k) < i)
    BY <1>1, <2>2, <2>4
  <2> QED
    BY <1>3, <2>5
<1>7. \A f \in 1..k : f = k \/ f \in 1..k-1
  OBVIOUS
<1> QED
  BY <1>4, <1>5, <1>6, <1>7

LEMMA FittingFields ==
  ASSUME NEW data, Placed(data), Fits(data), NEW stage, Stages(data, stage)
  PROVE  \A f \in 1..FieldCount : FieldBytes(data, f, stage[FieldCount])
<1> DEFINE S == {k \in Nat : k <= FieldCount =>
                   /\ \A i \in Start(k + 1) + 1..Size : stage[k][i] = NUL
                   /\ \A f \in 1..k : FieldBytes(data, f, stage[k])}
<1>1. FieldCount \in Nat /\ Size \in Nat
  BY FieldsAreASequence, KeyIsBehind
<1>2. 0 \in S
  <2>1. stage[0] = Blank /\ Start(1) = 0
    BY Starts DEF Stages
  <2>2. ASSUME NEW i \in Start(0 + 1) + 1..Size
        PROVE  stage[0][i] = NUL
    <3>1. i \in 1..Size
      BY <1>1, <2>1
    <3> QED
      BY <2>1, <3>1 DEF Blank
  <2>3. 1..0 = {}
    OBVIOUS
  <2> QED
    BY <2>2, <2>3
<1>3. ASSUME NEW k \in Nat, k \in S
      PROVE  k + 1 \in S
  <2> SUFFICES ASSUME k + 1 <= FieldCount
               PROVE  /\ \A i \in Start((k + 1) + 1) + 1..Size : stage[k + 1][i] = NUL
                      /\ \A f \in 1..(k + 1) : FieldBytes(data, f, stage[k + 1])
    OBVIOUS
  <2>1. k + 1 \in 1..FieldCount /\ k + 1 - 1 = k /\ k \in 0..FieldCount
        /\ k <= FieldCount
    BY <1>1
  <2>2. stage[k] \in Memory
        /\ stage[k + 1] = Overwrite(stage[k], Start(k + 1), data[k + 1])
    BY <2>1 DEF Stages
  <2>3. /\ \A i \in Start(k + 1) + 1..Size : stage[k][i] = NUL
        /\ \A f \in 1..(k + 1) - 1 : FieldBytes(data, f, stage[k])
    BY <1>3, <2>1
  <2> HIDE DEF S
  <2> QED
    BY <2>1, <2>2, <2>3, FittingStage
<1>4. FieldCount \in S
  <2> HIDE DEF S
  <2> QED
    BY <1>1, <1>2, <1>3, Induction
<1> QED
  BY <1>1, <1>4

----------------------------------------------------------------------------
(* What serializeToByteArray leaves in the scratch memory.                 *)
KeyBytes(bytes) ==
  /\ bytes[KeyStart] = NUL
  /\ \A i \in KeyStart + 1..KeyStart + KeyLength : bytes[i] = KeyByte
  /\ bytes[Size] = NUL

LEMMA SerializedBytes ==
  ASSUME NEW data, Placed(data)
  PROVE  /\ Serialize(data) \in Memory
         /\ KeyBytes(Serialize(data))
         /\ Fits(data) =>
              \A f \in 1..FieldCount : FieldBytes(data, f, Serialize(data))
<1>1. PICK stage : Stages(data, stage)
  BY SerializeStages
<1> DEFINE last == stage[FieldCount]
           all == Serialize(data)
<1>2. /\ FieldCount \in Nat /\ KeyStart \in Nat \ {0} /\ KeyLength \in Nat \ {0}
      /\ Size = KeyStart + KeyLength + 1
  BY FieldsAreASequence, KeyIsBehind
<1>3. /\ last \in Memory
      /\ all = Overwrite(last, KeyStart, VALID_DATA_KEY)
  BY <1>1, <1>2 DEF Stages
<1>4. /\ VALID_DATA_KEY \in Seq(Byte) /\ Len(VALID_DATA_KEY) = KeyLength
      /\ \A i \in 1..KeyLength : VALID_DATA_KEY[i] = KeyByte
  BY <1>2 DEF VALID_DATA_KEY, Byte, KeyByte, Erased
<1> HIDE DEF last, all
<1>5. /\ all \in Memory
      /\ \A i \in 1..Size :
           all[i] = IF KeyStart < i /\ i <= KeyStart + KeyLength
                      THEN VALID_DATA_KEY[i - KeyStart] ELSE last[i]
  <2>1. last \in Seq(Byte) /\ Len(last) = Size
    BY <1>3 DEF Memory
  <2>2. KeyStart \in Nat /\ KeyStart + Len(VALID_DATA_KEY) <= Len(last)
    BY <1>2, <1>4, <2>1
  <2>3. /\ all \in Seq(Byte) /\ Len(all) = Len(last)
        /\ \A i \in 1..Len(last) :
             all[i] = IF KeyStart < i /\ i <= KeyStart + Len(VALID_DATA_KEY)
                        THEN VALID_DATA_KEY[i - KeyStart] ELSE last[i]
    BY <1>3, <1>4, <2>1, <2>2, OverwriteBytes
  <2> QED
    BY <1>4, <2>1, <2>3 DEF Memory
<1>6. \A i \in KeyStart..Size : last[i] = NUL
  BY <1>1, EndStaysBlank DEF last
<1>7. KeyBytes(all)
  <2>1. all[KeyStart] = NUL
    <3>1. KeyStart \in 1..Size /\ ~(KeyStart < KeyStart) /\ KeyStart \in KeyStart..Size
      BY <1>2
    <3> QED
      BY <1>5, <1>6, <3>1
  <2>2. all[Size] = NUL
    <3>1. Size \in 1..Size /\ ~(Size <= KeyStart + KeyLength) /\ Size \in KeyStart..Size
      BY <1>2
    <3> QED
      BY <1>5, <1>6, <3>1
  <2>3. ASSUME NEW i \in KeyStart + 1..KeyStart + KeyLength
        PROVE  all[i] = KeyByte
    <3>1. /\ i \in 1..Size /\ KeyStart < i /\ i <= KeyStart + KeyLength
          /\ i - KeyStart \in 1..KeyLength
      BY <1>2
    <3> QED
      BY <1>4, <1>5, <3>1
  <2> QED
    BY <2>1, <2>2, <2>3 DEF KeyBytes
<1>8. ASSUME Fits(data), NEW f \in 1..FieldCount
      PROVE  FieldBytes(data, f, all)
  <2>1. FieldBytes(data, f, last)
    BY <1>1, <1>8, FittingFields DEF last
  <2>2. ASSUME NEW i \in Start(f) + 1..Start(f) + Width[f]
        PROVE  all[i] = last[i]
    <3>1. Start(f) \in Nat /\ Width[f] \in Nat /\ Start(f) + Width[f] <= KeyStart
      BY KeyIsBehind
    <3>2. i \in 1..Size /\ ~(KeyStart < i)
      BY <1>2, <3>1
    <3> QED
      BY <1>5, <3>2
  <2> QED
    BY <2>1, <2>2 DEF FieldBytes
<1> QED
  BY <1>5, <1>7, <1>8 DEF all

(* What a C string that is read ends with, or what it lacks.               *)
ReadsTo(bytes, start, end, string) ==
  /\ end \in start..Len(bytes)
  /\ string \in Seq(1..Erased) /\ Len(string) = end - start
  /\ \A i \in 1..end - start : string[i] = bytes[start + i]
  /\ end < Len(bytes) => bytes[end + 1] = NUL

LEMMA ReadStringBytes ==
  ASSUME NEW bytes \in Seq(Byte), NEW start \in 0..Len(bytes)
  PROVE  \E end : ReadsTo(bytes, start, end, ReadString(bytes, start))
<1> DEFINE ends == {i \in start + 1..Len(bytes) : bytes[i] = NUL}
           end == IF ends = {} THEN Len(bytes) ELSE Min(ends) - 1
           string == SubSeq(bytes, start + 1, end)
<1>1. Len(bytes) \in Nat /\ start \in Nat
      /\ \A i \in 1..Len(bytes) : bytes[i] \in Byte
  BY ElementOfSeq, LenProperties
<1>2. /\ end \in start..Len(bytes)
      /\ \A i \in start + 1..end : bytes[i] # NUL
      /\ end < Len(bytes) => bytes[end + 1] = NUL
  <2>1. CASE ends = {}
    <3>1. end = Len(bytes)
      BY <2>1
    <3> HIDE DEF end
    <3> QED
      BY <1>1, <2>1, <3>1
  <2>2. CASE ends # {}
    <3>1. ends \in SUBSET Nat
      BY <1>1
    <3>2. Min(ends) \in ends /\ \A y \in ends : Min(ends) <= y
      <4> HIDE DEF ends
      <4> QED
        BY <2>2, <3>1, LeastElement
    <3>3. end = Min(ends) - 1
      BY <2>2
    <3> DEFINE least == Min(ends)
    <3>4. /\ least \in start + 1..Len(bytes) /\ bytes[least] = NUL
          /\ end = least - 1
          /\ \A y \in start + 1..Len(bytes) : bytes[y] = NUL => least <= y
      BY <3>2, <3>3
    <3> HIDE DEF end, least
    <3>5. end \in start..Len(bytes) /\ end + 1 = least /\ end \in Nat
      BY <1>1, <3>4
    <3>6. ASSUME NEW i \in start + 1..end
          PROVE  bytes[i] # NUL
      BY <1>1, <3>4, <3>5
    <3> QED
      BY <3>4, <3>5, <3>6
  <2> QED
    BY <2>1, <2>2
<1> HIDE DEF end
<1>3. /\ end \in Nat /\ end <= Len(bytes)
      /\ \A i \in start + 1..end : bytes[i] \in 1..Erased
  <2>1. ASSUME NEW i \in start + 1..end
        PROVE  bytes[i] \in 1..Erased
    <3>1. bytes[i] \in Byte /\ bytes[i] # NUL
      BY <1>1, <1>2
    <3> QED
      BY <3>1 DEF Byte, NUL, Erased
  <2> QED
    BY <1>1, <1>2, <2>1
<1>4. /\ string \in Seq(1..Erased)
      /\ Len(string) = IF start + 1 <= end THEN end - (start + 1) + 1 ELSE 0
      /\ \A i \in 1..end - (start + 1) + 1 : string[i] = bytes[(start + 1) + i - 1]
  <2>1. start + 1 \in Int /\ end \in Int
    BY <1>1, <1>3
  <2> QED
    BY <1>3, <2>1, SubSeqProperties
<1> HIDE DEF string
<1>5. Len(string) = end - start
  BY <1>1, <1>2, <1>4
<1>6. ASSUME NEW i \in 1..end - start
      PROVE  string[i] = bytes[start + i]
  <2>1. i \in 1..end - (start + 1) + 1 /\ (start + 1) + i - 1 = start + i
    BY <1>1, <1>3
  <2> QED
    BY <1>4, <2>1
<1>7. ReadString(bytes, start) = string
  BY DEF ReadString, string, end
<1>8. ReadsTo(bytes, start, end, string)
  BY <1>2, <1>4, <1>5, <1>6 DEF ReadsTo
<1> QED
  BY <1>7, <1>8

LEMMA PagesHold ==
  /\ Pages \in Nat \ {0} /\ FlashSize \in Nat /\ Size < FlashSize
  /\ \A m \in 0..Pages : m * PageSize \in Nat /\ m * PageSize <= FlashSize
  /\ Size % PageSize # 0 =>
       \A m \in 0..Pages : m # Pages => m * PageSize < Size
<1> DEFINE q == Size \div PageSize
           r == Size % PageSize
<1>1. Size \in Nat /\ PageSize \in Nat /\ PageSize > 0
  BY KeyIsBehind
<1>2. q \in Nat /\ r \in 0..PageSize - 1 /\ Size = PageSize * q + r
  BY <1>1
<1>3. Pages = q + 1
  BY DEF Pages
<1> HIDE DEF q, r
<1>4. Pages \in Nat \ {0}
  BY <1>2, <1>3
<1>5. FlashSize = PageSize * q + PageSize
  BY <1>1, <1>2, <1>3 DEF FlashSize
<1>6. PageSize * q \in Nat
  BY <1>1, <1>2
<1>7. FlashSize \in Nat /\ Size < FlashSize
  BY <1>1, <1>2, <1>5, <1>6
<1>8. ASSUME NEW m \in 0..Pages
      PROVE  m * PageSize \in Nat /\ m * PageSize <= FlashSize
  BY <1>1, <1>4 DEF FlashSize
<1>9. ASSUME r # 0, NEW m \in 0..Pages, m # Pages
      PROVE  m * PageSize < Size
  <2>1. m \in 0..q
    BY <1>2, <1>3, <1>9
  <2>2. m * PageSize <= PageSize * q
    BY <1>1, <1>2, <2>1
  <2>3. m * PageSize \in Nat
    BY <1>8
  <2> QED
    BY <1>2, <1>6, <1>9, <2>2, <2>3
<1> QED
  BY <1>4, <1>7, <1>8, <1>9 DEF r

(* The flash after m pages of the image of data are programmed.            *)
Programmed(data, m) ==
  [i \in 1..FlashSize |-> IF i <= m * PageSize THEN Image(data)[i] ELSE Erased]

LEMMA ProgrammedBytes ==
  ASSUME NEW data, Placed(data), NEW m \in 0..Pages
  PROVE  /\ Programmed(data, m) \in Seq(Byte)
         /\ Len(Programmed(data, m)) = FlashSize
         /\ \A i \in 1..FlashSize :
              Programmed(data, m)[i] =
                IF ~(i <= m * PageSize) THEN Erased
                ELSE IF i <= Size THEN Serialize(data)[i] ELSE NUL
<1>1. FlashSize \in Nat /\ NUL \in Byte /\ Erased \in Byte
  BY PagesHold DEF NUL, Erased, Byte
<1>2. Serialize(data) \in Seq(Byte) /\ Len(Serialize(data)) = Size
      /\ Size \in Nat
  BY SerializedBytes, KeyIsBehind DEF Memory
<1>3. ASSUME NEW i \in 1..FlashSize
      PROVE  Image(data)[i] = IF i <= Size THEN Serialize(data)[i] ELSE NUL
  BY <1>2 DEF Image
<1>4. ASSUME NEW i \in 1..FlashSize
      PROVE  Image(data)[i] \in Byte
  <2>1. i <= Size => Serialize(data)[i] \in Byte
    BY <1>2, ElementOfSeq
  <2> QED
    BY <1>1, <1>3, <2>1
<1>5. ASSUME NEW i \in 1..FlashSize
      PROVE  /\ Programmed(data, m)[i] =
                  IF i <= m * PageSize THEN Image(data)[i] ELSE Erased
             /\ Programmed(data, m)[i] \in Byte
  BY <1>1, <1>4 DEF Programmed
<1>6. Programmed(data, m) = [i \in 1..FlashSize |-> Programmed(data, m)[i]]
  BY DEF Programmed
<1> DEFINE bytes == Programmed(data, m)
<1>7. bytes \in Seq(Byte) /\ Len(bytes) = FlashSize
  <2>1. bytes = [i \in 1..FlashSize |-> bytes[i]]
    BY <1>6
  <2>2. \A i \in 1..FlashSize : bytes[i] \in Byte
    BY <1>5
  <2> HIDE DEF bytes
  <2>3. bytes \in [1..FlashSize -> Byte]
    BY <2>1, <2>2
  <2> QED
    BY <1>1, <2>3
<1> QED
  BY <1>3, <1>5, <1>7

LEMMA KeyIsASequence ==
  /\ VALID_DATA_KEY \in Seq(Byte) /\ Len(VALID_DATA_KEY) = KeyLength
  /\ \A i \in 1..KeyLength : VALID_DATA_KEY[i] = KeyByte
BY KeyIsBehind DEF VALID_DATA_KEY, Byte, KeyByte, Erased

Recognised(bytes) == ReadString(bytes, KeyStart) = VALID_DATA_KEY

(* Where the key is, the byte before it is programmed too, so that no      *)
(* string that is read passes it.                                          *)
LEMMA RecognisedIsPlaced ==
  ASSUME NEW data, Placed(data), NEW m \in 0..Pages,
         Recognised(Programmed(data, m))
  PROVE  Placed(ReadBack(Programmed(data, m)))
<1> DEFINE bytes == Programmed(data, m)
           read == ReadBack(bytes)
<1>1. /\ KeyStart \in Nat \ {0} /\ KeyLength \in Nat \ {0} /\ Size \in Nat
      /\ Size = KeyStart + KeyLength + 1 /\ FlashSize \in Nat
      /\ Size < FlashSize /\ m * PageSize \in Nat
  BY KeyIsBehind, PagesHold
<1>2. /\ bytes \in Seq(Byte) /\ Len(bytes) = FlashSize
      /\ \A i \in 1..FlashSize :
           bytes[i] = IF ~(i <= m * PageSize) THEN Erased
                      ELSE IF i <= Size THEN Serialize(data)[i] ELSE NUL
  BY ProgrammedBytes
<1>3. Recognised(bytes)
  OBVIOUS
<1>4. read = [f \in DOMAIN Fields |-> ReadString(bytes, Start(f))]
  BY <1>3 DEF ReadBack, Recognised
<1> HIDE DEF bytes, read
<1>5. KeyStart + 1 <= m * PageSize
  <2>1. PICK end : ReadsTo(bytes, KeyStart, end, VALID_DATA_KEY)
    <3>1. KeyStart \in 0..Len(bytes)
      BY <1>1, <1>2
    <3> QED
      BY <1>2, <1>3, <3>1, ReadStringBytes DEF Recognised
  <2>2. end - KeyStart = KeyLength
    BY <2>1, KeyIsASequence DEF ReadsTo
  <2>3. VALID_DATA_KEY[1] = bytes[KeyStart + 1]
    BY <1>1, <2>1, <2>2 DEF ReadsTo
  <2>4. bytes[KeyStart + 1] = KeyByte
    BY <1>1, <2>3, KeyIsASequence
  <2>5. KeyByte # Erased
    BY DEF KeyByte, Erased
  <2>6. KeyStart + 1 \in 1..FlashSize
    BY <1>1
  <2> QED
    BY <1>2, <2>4, <2>5, <2>6
<1>6. bytes[KeyStart] = NUL
  <2>1. KeyStart \in 1..FlashSize /\ KeyStart <= m * PageSize /\ KeyStart <= Size
    BY <1>1, <1>5
  <2> QED
    BY <1>2, <2>1, SerializedBytes DEF KeyBytes
<1>7. ASSUME NEW f \in 1..FieldCount
      PROVE  /\ read[f] \in Seq(1..Erased)
             /\ Start(f) + Len(read[f]) < KeyStart
  <2>1. /\ Start(f) \in Nat /\ Start(f) < KeyStart
    BY KeyIsBehind
  <2>2. PICK end : ReadsTo(bytes, Start(f), end, ReadString(bytes, Start(f)))
    <3>1. Start(f) \in 0..Len(bytes)
      BY <1>1, <1>2, <2>1
    <3> QED
      BY <1>2, <3>1, ReadStringBytes
  <2>3. read[f] = ReadString(bytes, Start(f))
    BY <1>4, FieldsAreASequence
  <2>4. /\ end \in Start(f)..FlashSize /\ Len(read[f]) = end - Start(f)
        /\ read[f] \in Seq(1..Erased)
        /\ \A i \in 1..end - Start(f) : read[f][i] = bytes[Start(f) + i]
    BY <1>2, <2>2, <2>3 DEF ReadsTo
  <2>5. end < KeyStart
    <3>1. SUFFICES ASSUME KeyStart <= end
                   PROVE  FALSE
      BY <1>1, <2>1, <2>4
    <3>2. KeyStart - Start(f) \in 1..end - Start(f)
          /\ Start(f) + (KeyStart - Start(f)) = KeyStart
      BY <1>1, <2>1, <2>4, <3>1
    <3>3. read[f][KeyStart - Start(f)] = NUL
      BY <1>6, <2>4, <3>2
    <3>4. read[f][KeyStart - Start(f)] \in 1..Erased
      BY <2>4, <3>2, ElementOfSeq
    <3> QED
      BY <3>3, <3>4 DEF NUL
  <2> QED
    BY <1>1, <2>1, <2>4, <2>5
<1>8. read \in [1..FieldCount -> Seq(1..Erased)]
  <2>1. read = [f \in 1..FieldCount |-> read[f]]
    BY <1>4, FieldsAreASequence
  <2> QED
    BY <1>7, <2>1
<1>9. Placed(read)
  BY <1>7, <1>8 DEF Placed
<1> QED
  BY <1>9 DEF read, bytes

(* A key without its end is not taken for one.                             *)
LEMMA InterruptedIsNotRecognised ==
  ASSUME Size % PageSize # 0,
         NEW data, Placed(data), NEW m \in 0..Pages, m # Pages
  PROVE  ~Recognised(Programmed(data, m))
<1> DEFINE bytes == Programmed(data, m)
<1>1. /\ KeyStart \in Nat \ {0} /\ KeyLength \in Nat \ {0} /\ Size \in Nat
      /\ Size = KeyStart + KeyLength + 1 /\ FlashSize \in Nat
      /\ Size < FlashSize /\ m * PageSize \in Nat /\ m * PageSize < Size
  BY KeyIsBehind, PagesHold
<1>2. /\ bytes \in Seq(Byte) /\ Len(bytes) = FlashSize
      /\ \A i \in 1..FlashSize :
           bytes[i] = IF ~(i <= m * PageSize) THEN Erased
                      ELSE IF i <= Size THEN Serialize(data)[i] ELSE NUL
  BY ProgrammedBytes
<1> HIDE DEF bytes
<1>3. SUFFICES ASSUME Recognised(bytes)
               PROVE  FALSE
  BY DEF bytes
<1>4. PICK end : ReadsTo(bytes, KeyStart, end, VALID_DATA_KEY)
  <2>1. KeyStart \in 0..Len(bytes)
    BY <1>1, <1>2
  <2> QED
    BY <1>2, <1>3, <2>1, ReadStringBytes DEF Recognised
<1>5. end - KeyStart = KeyLength /\ end \in KeyStart..FlashSize
  BY <1>2, <1>4, KeyIsASequence DEF ReadsTo
<1>6. end < Len(bytes) /\ end + 1 = Size
  BY <1>1, <1>2, <1>5
<1>7. bytes[Size] = NUL
  BY <1>4, <1>6 DEF ReadsTo
<1>8. bytes[Size] = Erased
  <2>1. Size \in 1..FlashSize /\ ~(Size <= m * PageSize)
    BY <1>1
  <2> QED
    BY <1>2, <2>1
<1> QED
  BY <1>7, <1>8 DEF NUL, Erased

(* The end of a string that is read is where its first NUL is.             *)
LEMMA ReadsUntilNUL ==
  ASSUME NEW bytes \in Seq(Byte), NEW start \in 0..Len(bytes),
         NEW string \in Seq(Byte), start + Len(string) < Len(bytes),
         \A i \in 1..Len(string) :
           bytes[start + i] = string[i] /\ string[i] # NUL,
         bytes[start + Len(string) + 1] = NUL
  PROVE  ReadString(bytes, start) = string
<1> DEFINE read == ReadString(bytes, start)
<1>1. PICK end : ReadsTo(bytes, start, end, read)
  BY ReadStringBytes
<1> HIDE DEF read
<1>2. Len(string) \in Nat /\ Len(bytes) \in Nat /\ start \in Nat
      /\ \A i \in 1..Len(string) : string[i] \in Byte
  BY LenProperties, ElementOfSeq
<1>3. /\ end \in start..Len(bytes) /\ read \in Seq(1..Erased)
      /\ Len(read) = end - start
      /\ \A i \in 1..end - start : read[i] = bytes[start + i]
      /\ end < Len(bytes) => bytes[end + 1] = NUL
  BY <1>1 DEF ReadsTo
<1>4. ~(end < start + Len(string))
  <2>1. SUFFICES ASSUME end < start + Len(string)
                 PROVE  FALSE
    OBVIOUS
  <2>2. bytes[end + 1] = NUL
    BY <1>2, <1>3, <2>1
  <2>3. (end + 1) - start \in 1..Len(string) /\ start + ((end + 1) - start) = end + 1
    BY <1>2, <1>3, <2>1
  <2> QED
    BY <2>2, <2>3
<1>5. ~(end > start + Len(string))
  <2>1. SUFFICES ASSUME end > start + Len(string)
                 PROVE  FALSE
    OBVIOUS
  <2>2. Len(string) + 1 \in 1..end - start
        /\ start + (Len(string) + 1) = start + Len(string) + 1
    BY <1>2, <1>3, <2>1
  <2>3. read[Len(string) + 1] = NUL
    BY <1>3, <2>2
  <2>4. read[Len(string) + 1] \in 1..Erased
    BY <1>3, <2>2, ElementOfSeq
  <2> QED
    BY <2>3, <2>4 DEF NUL
<1>6. end - start = Len(string)
  BY <1>2, <1>3, <1>4, <1>5
<1>7. read \in Seq(Byte)
  <2>1. 1..Erased \subseteq Byte
    BY DEF Byte, Erased
  <2> QED
    BY <1>3, <2>1, SeqMonotonic
<1>8. Len(read) = Len(string) /\ \A i \in 1..Len(read) : read[i] = string[i]
  BY <1>3, <1>6
<1>9. read = string
  BY <1>7, <1>8, SeqEqual
<1> QED
  BY <1>9 DEF read

(* A complete write is recognised, and read back as it was if it fitted.   *)
LEMMA CompleteIsRecognised ==
  ASSUME NEW data, Placed(data)
  PROVE  /\ Recognised(Programmed(data, Pages))
         /\ Fits(data) => ReadBack(Programmed(data, Pages)) = data
<1> DEFINE bytes == Programmed(data, Pages)
           all == Serialize(data)
<1>1. /\ KeyStart \in Nat \ {0} /\ KeyLength \in Nat \ {0} /\ Size \in Nat
      /\ Size = KeyStart + KeyLength + 1 /\ FlashSize \in Nat
      /\ Size < FlashSize /\ Pages \in 0..Pages
  BY KeyIsBehind, PagesHold
<1>2. /\ bytes \in Seq(Byte) /\ Len(bytes) = FlashSize
      /\ \A i \in 1..FlashSize :
           bytes[i] = IF ~(i <= Pages * PageSize) THEN Erased
                      ELSE IF i <= Size THEN all[i] ELSE NUL
  BY <1>1, ProgrammedBytes
<1> HIDE DEF bytes
<1>3. \A i \in 1..Size : bytes[i] = all[i]
  BY <1>1, <1>2 DEF FlashSize
<1>4. KeyBytes(all)
  BY SerializedBytes
<1> HIDE DEF all
<1>5. Recognised(bytes)
  <2>1. KeyStart \in 0..Len(bytes) /\ KeyStart + Len(VALID_DATA_KEY) < Len(bytes)
    BY <1>1, <1>2, KeyIsASequence
  <2>2. ASSUME NEW i \in 1..Len(VALID_DATA_KEY)
        PROVE  bytes[KeyStart + i] = VALID_DATA_KEY[i] /\ VALID_DATA_KEY[i] # NUL
    <3>1. KeyStart + i \in KeyStart + 1..KeyStart + KeyLength
          /\ KeyStart + i \in 1..Size /\ i \in 1..KeyLength
      BY <1>1, KeyIsASequence
    <3>2. bytes[KeyStart + i] = KeyByte
      BY <1>3, <1>4, <3>1 DEF KeyBytes
    <3> QED
      BY <3>1, <3>2, KeyIsASequence DEF KeyByte, NUL
  <2>3. bytes[KeyStart + Len(VALID_DATA_KEY) + 1] = NUL
    <3>1. KeyStart + Len(VALID_DATA_KEY) + 1 = Size /\ Size \in 1..Size
      BY <1>1, KeyIsASequence
    <3> QED
      BY <1>3, <1>4, <3>1 DEF KeyBytes
  <2>4. ReadString(bytes, KeyStart) = VALID_DATA_KEY
    BY <1>2, <2>1, <2>2, <2>3, KeyIsASequence, ReadsUntilNUL
  <2> QED
    BY <2>4 DEF Recognised
<1>6. ASSUME Fits(data), NEW f \in 1..FieldCount
      PROVE  ReadString(bytes, Start(f)) = data[f]
  <2>1. /\ Start(f) \in Nat /\ Width[f] \in Nat \ {0}
        /\ Start(f) + Width[f] <= KeyStart
    BY KeyIsBehind
  <2>2. /\ data[f] \in Seq(Byte) /\ Len(data[f]) \in Nat
        /\ \A i \in 1..Len(data[f]) : data[f][i] # NUL
    BY StringsAreBytes
  <2>3. Len(data[f]) < Width[f]
    <3>1. f \in DOMAIN Fields /\ MaxLength[Fields[f]] \in Nat
      BY FieldsAreASequence, UserDataAssumption DEF ToSet
    <3> QED
      BY <1>6, <2>2, <3>1 DEF Fits, Width
  <2>4. FieldBytes(data, f, all)
    BY <1>6, SerializedBytes DEF all
  <2>5. Start(f) \in 0..Len(bytes) /\ Start(f) + Len(data[f]) < Len(bytes)
    BY <1>1, <1>2, <2>1, <2>2, <2>3
  <2>6. ASSUME NEW i \in 1..Len(data[f])
        PROVE  bytes[Start(f) + i] = data[f][i] /\ data[f][i] # NUL
    <3>1. /\ Start(f) + i \in Start(f) + 1..Start(f) + Width[f]
          /\ Start(f) + i \in 1..Size /\ (Start(f) + i) - Start(f) = i
          /\ Start(f) + i <= Start(f) + Len(data[f])
      BY <1>1, <2>1, <2>2, <2>3
    <3>2. all[Start(f) + i] = data[f][i]
      BY <2>4, <3>1 DEF FieldBytes
    <3> QED
      BY <1>3, <2>2, <3>1, <3>2
  <2>7. bytes[Start(f) + Len(data[f]) + 1] = NUL
    <3> DEFINE i == Start(f) + Len(data[f]) + 1
    <3>1. /\ i \in Start(f) + 1..Start(f) + Width[f]
          /\ i \in 1..Size /\ ~(i <= Start(f) + Len(data[f]))
      <4>1. i \in Nat /\ i <= Start(f) + Width[f] /\ Start(f) + 1 <= i
        BY <2>1, <2>2, <2>3
      <4>2. i <= Size
        BY <1>1, <2>1, <4>1
      <4> QED
        BY <2>1, <2>2, <4>1, <4>2
    <3> HIDE DEF i
    <3>2. all[i] = NUL
      BY <2>4, <3>1 DEF FieldBytes
    <3> QED
      BY <1>3, <3>1, <3>2 DEF i
  <2> QED
    BY <1>2, <2>2, <2>5, <2>6, <2>7, ReadsUntilNUL
<1>7. ASSUME Fits(data)
      PROVE  ReadBack(bytes) = data
  <2>1. ReadBack(bytes) = [f \in 1..FieldCount |-> ReadString(bytes, Start(f))]
    BY <1>5, FieldsAreASequence DEF ReadBack, Recognised
  <2>2. data = [f \in 1..FieldCount |-> data[f]]
    BY DEF Placed
  <2> QED
    BY <1>6, <1>7, <2>1, <2>2
<1> QED
  BY <1>5, <1>7 DEF bytes

(* The flash holds the first pages of one image: all of them, and the      *)
(* image of what was saved last, or not all.  While a write goes on it is  *)
(* the image of what is in memory.                                         *)
FlashHolds(data, m) ==
  /\ Placed(data)
  /\ flash = Programmed(data, m)
  /\ intact => m = Pages /\ data = saved
  /\ ~intact => m # Pages
  /\ pc = "program" => data = user /\ m = page

FlashInv ==
  /\ pc \in {"off", "loop", "serial", "erase", "program"}
  /\ updated \in BOOLEAN /\ intact \in BOOLEAN
  /\ page \in 0..Pages
  /\ Placed(user)
  /\ \E data : \E m \in 0..Pages : FlashHolds(data, m)

LEMMA WipedIsPlaced == Placed(Wiped)
<1>1. DOMAIN Fields = 1..FieldCount
  BY FieldsAreASequence
<1>2. <<>> \in Seq(1..Erased) /\ Len(<<>>) = 0
  OBVIOUS
<1>3. ASSUME NEW f \in 1..FieldCount
      PROVE  Wiped[f] = <<>> /\ Start(f) + Len(Wiped[f]) < KeyStart
  <2>1. Start(f) \in Nat /\ Start(f) < KeyStart
    BY KeyIsBehind
  <2>2. Wiped[f] = <<>>
    BY <1>1 DEF Wiped
  <2> QED
    BY <1>2, <2>1, <2>2
<1>4. Wiped \in [1..FieldCount -> Seq(1..Erased)]
  BY <1>1, <1>2 DEF Wiped
<1> QED
  BY <1>3, <1>4 DEF Placed

LEMMA BootIsPlaced ==
  ASSUME FlashInv
  PROVE  Placed(ReadBack(flash))
<1>1. PICK data, m : m \in 0..Pages /\ FlashHolds(data, m)
  BY DEF FlashInv
<1>2. Placed(data) /\ flash = Programmed(data, m)
  BY <1>1 DEF FlashHolds
<1>3. CASE Recognised(flash)
  BY <1>1, <1>2, <1>3, RecognisedIsPlaced
<1>4. CASE ~Recognised(flash)
  BY <1>4, WipedIsPlaced DEF ReadBack, Recognised
<1> QED
  BY <1>3, <1>4

LEMMA SetIsPlaced ==
  ASSUME Placed(user), NEW f \in Settable, NEW string \in Strings
  PROVE  Placed([user EXCEPT ![f] = string])
<1> DEFINE new == [user EXCEPT ![f] = string]
<1>1. f \in 1..FieldCount
  BY FieldsAreASequence, UserDataAssumption
<1>2. string \in Seq(1..Erased)
  <2>1. string \in Seq(1..KeyByte - 1)
    BY UserDataAssumption
  <2>2. 1..KeyByte - 1 \subseteq 1..Erased
    BY DEF KeyByte, Erased
  <2> QED
    BY <2>1, <2>2, SeqMonotonic
<1>3. Start(f) + Len(string) < KeyStart
  <2>1. Len(string) <= MaxLength["BRKR"]
    BY UserDataAssumption
  <2>2. /\ Start(f) + MaxLength["BRKR"] < KeyStart /\ KeyStart \in Nat
        /\ Start(f) \in Nat /\ MaxLength["BRKR"] \in Nat
    BY <1>1, KeyIsBehind
  <2>3. Len(string) \in Nat
    BY <1>2, LenProperties
  <2> QED
    BY <2>1, <2>2, <2>3
<1>4. user \in [1..FieldCount -> Seq(1..Erased)]
  BY DEF Placed
<1>5. /\ new \in [1..FieldCount -> Seq(1..Erased)]
      /\ \A g \in 1..FieldCount : new[g] = IF g = f THEN string ELSE user[g]
  BY <1>1, <1>2, <1>4
<1> HIDE DEF new
<1>6. \A g \in 1..FieldCount : Start(g) + Len(new[g]) < KeyStart
  BY <1>3, <1>5 DEF Placed
<1> QED
  BY <1>5, <1>6 DEF Placed, new

LEMMA ProgrammedNothing ==
  ASSUME NEW data
  PROVE  Programmed(data, 0) = [i \in 1..FlashSize |-> Erased]
<1>1. 0 * PageSize = 0 /\ FlashSize \in Nat
  BY KeyIsBehind, PagesHold
<1>2. \A i \in 1..FlashSize : ~(i <= 0 * PageSize)
  BY <1>1
<1> QED
  BY <1>2 DEF Programmed

LEMMA FlashInit == UserDataInit => FlashInv
<1> SUFFICES ASSUME UserDataInit
             PROVE  FlashInv
  OBVIOUS
<1>1. flash = Programmed(Wiped, 0)
  BY ProgrammedNothing DEF UserDataInit, FlashSize
<1>2. 0 \in 0..Pages /\ 0 # Pages
  BY PagesHold
<1>3. FlashHolds(Wiped, 0)
  BY <1>1, <1>2, WipedIsPlaced DEF UserDataInit, FlashHolds
<1> QED
  BY <1>2, <1>3, WipedIsPlaced DEF UserDataInit, FlashInv

LEMMA FlashErase ==
  ASSUME FlashInv, Erase
  PROVE  FlashInv'
<1>1. PICK data, m : m \in 0..Pages /\ FlashHolds(data, m)
  BY DEF FlashInv
<1>2. flash \in Seq(Byte) /\ Len(flash) = FlashSize
  BY <1>1, ProgrammedBytes DEF FlashHolds
<1>3. flash' = [i \in 1..FlashSize |-> Erased]
  BY <1>2 DEF Erase
<1>4. flash' = Programmed(user, 0)
  BY <1>3, ProgrammedNothing
<1>5. 0 \in 0..Pages /\ 0 # Pages
  BY PagesHold
<1>6. /\ pc' = "program" /\ page' = 0 /\ ~intact' /\ intact' \in BOOLEAN
      /\ UNCHANGED <<user, updated, saved>>
  BY DEF Erase
<1>7. FlashHolds(user, 0)'
  BY <1>4, <1>5, <1>6 DEF FlashHolds, FlashInv, Programmed, Image, Placed
<1> QED
  BY <1>5, <1>6, <1>7 DEF FlashInv, Placed

LEMMA FlashProgram ==
  ASSUME FlashInv, Program
  PROVE  FlashInv'
<1>1. PICK data, m : m \in 0..Pages /\ FlashHolds(data, m)
  BY DEF FlashInv
<1>2. /\ pc = "program" /\ pc' = "program" /\ page # Pages /\ page' = page + 1
      /\ user' = user /\ updated' = updated
      /\ IF page + 1 = Pages
           THEN saved' = user /\ intact' = TRUE
           ELSE saved' = saved /\ intact' = intact
  BY DEF Program, Completed
<1>3. /\ flash = Programmed(user, page) /\ Placed(user) /\ ~intact
      /\ page \in 0..Pages
  BY <1>1, <1>2 DEF FlashHolds, FlashInv
<1>4. page + 1 \in 0..Pages /\ Pages \in Nat
  BY <1>2, <1>3, PagesHold
<1> DEFINE written(i) == i \in page * PageSize + 1..(page + 1) * PageSize
<1>5. flash' = [i \in 1..FlashSize |-> IF written(i) THEN Image(user)[i] ELSE flash[i]]
  <2>1. DOMAIN flash = 1..FlashSize
    BY <1>3 DEF Programmed
  <2> QED
    BY <2>1 DEF Program, Image
<1>6. ASSUME NEW i \in 1..FlashSize
      PROVE  flash'[i] = IF i <= (page + 1) * PageSize THEN Image(user)[i] ELSE Erased
  <2>1. /\ page * PageSize \in Nat /\ (page + 1) * PageSize \in Nat
        /\ page * PageSize <= (page + 1) * PageSize
    BY <1>3, <1>4, PagesHold, KeyIsBehind
  <2>2. flash[i] = IF i <= page * PageSize THEN Image(user)[i] ELSE Erased
    BY <1>3 DEF Programmed
  <2>3. written(i) <=> i > page * PageSize /\ i <= (page + 1) * PageSize
    BY <2>1
  <2> HIDE DEF written
  <2>4. flash'[i] = IF written(i) THEN Image(user)[i] ELSE flash[i]
    BY <1>5
  <2>5. CASE i <= page * PageSize
    BY <2>1, <2>2, <2>3, <2>4, <2>5
  <2>6. CASE ~(i <= page * PageSize)
    BY <2>1, <2>2, <2>3, <2>4, <2>6
  <2> QED
    BY <2>5, <2>6
<1>7. flash' = Programmed(user, page + 1)
  <2>1. flash' = [i \in 1..FlashSize |-> flash'[i]]
    BY <1>5
  <2> QED
    BY <1>6, <2>1 DEF Programmed
<1>8. Placed(user)'
  BY <1>2, <1>3 DEF Placed
<1>9. /\ flash' = Programmed(user', page')
      /\ intact' => page' = Pages /\ user' = saved'
      /\ ~intact' => page' # Pages
  BY <1>2, <1>3, <1>7
<1>10. FlashHolds(user, page)'
  BY <1>8, <1>9 DEF FlashHolds, Programmed, Image, Placed
<1> QED
  BY <1>2, <1>3, <1>4, <1>8, <1>10 DEF FlashInv

LEMMA FlashKeeps ==
  ASSUME FlashInv, UNCHANGED <<flash, page, saved, intact>>,
         pc' \in {"off", "loop", "serial", "erase", "program"},
         updated' \in BOOLEAN, Placed(user'),
         pc' = "program" => pc = "program" /\ user' = user
  PROVE  FlashInv'
<1>1. PICK data, m : m \in 0..Pages /\ FlashHolds(data, m)
  BY DEF FlashInv
<1>2. FlashHolds(data, m)'
  BY <1>1 DEF FlashHolds, Placed, Programmed, Image
<1>3. Placed(user)'
  BY DEF Placed
<1> QED
  BY <1>1, <1>2, <1>3 DEF FlashInv

LEMMA FlashStep ==
  ASSUME FlashInv, [UserDataNext]_userDataVars
  PROVE  FlashInv'
<1>1. Placed(user) /\ updated \in BOOLEAN
      /\ pc \in {"off", "loop", "serial", "erase", "program"}
  BY DEF FlashInv
<1>2. CASE Erase
  BY <1>2, FlashErase
<1>3. CASE Program
  BY <1>3, FlashProgram
<1>4. CASE Boot
  <2>1. Placed(user')
    BY <1>4, BootIsPlaced DEF Boot
  <2> QED
    BY <1>1, <1>4, <2>1, FlashKeeps DEF Boot
<1>5. CASE BeginUpdate
  BY <1>1, <1>5, FlashKeeps DEF BeginUpdate
<1>6. CASE EndUpdate
  BY <1>1, <1>6, FlashKeeps DEF EndUpdate
<1>7. CASE WipeCommand
  BY <1>1, <1>7, WipedIsPlaced, FlashKeeps DEF WipeCommand
<1>8. CASE IgnoredLine
  BY <1>1, <1>8, FlashKeeps DEF IgnoredLine
<1>9. ASSUME NEW f \in DOMAIN Fields, NEW string \in Strings,
             SetCommand(f, string)
      PROVE  FlashInv'
  <2>1. f \in Settable
    BY <1>9 DEF SetCommand
  <2>2. Placed(user')
    BY <1>1, <1>9, <2>1, SetIsPlaced DEF SetCommand
  <2> QED
    BY <1>1, <1>9, <2>2, FlashKeeps DEF SetCommand
<1>10. CASE SoftwareReset
  BY <1>1, <1>10, WipedIsPlaced, FlashKeeps DEF SoftwareReset
<1>11. CASE PowerFailure
  BY <1>1, <1>11, WipedIsPlaced, FlashKeeps DEF PowerFailure
<1>12. CASE UNCHANGED userDataVars
  BY <1>1, <1>12, FlashKeeps DEF userDataVars
<1> QED
  BY <1>2, <1>3, <1>4, <1>5, <1>6, <1>7, <1>8, <1>9, <1>10, <1>11, <1>12
  DEF UserDataNext

(* Nothing outgrows the memory set aside for it, however many groups there *)
(* are, whatever the fields may hold and wherever the power fails: not the *)
(* image that is written, although a string may overflow its field, as no  *)
(* typed string is longer than the last field (serial_controller.h:36,     *)
(* user_data.h:39, user_data.cpp:33-80).                                   *)
THEOREM SettingsKeepTheirPlace == UserDataSpec => []UserDataTypeOK
<1>1. ASSUME FlashInv
      PROVE  UserDataTypeOK
  <2>1. PICK data, m : m \in 0..Pages /\ FlashHolds(data, m)
    BY <1>1 DEF FlashInv
  <2>2. Len(flash) = FlashSize
    BY <2>1, ProgrammedBytes DEF FlashHolds
  <2>3. Len(Serialize(user)) = Size
    BY <1>1, SerializedBytes DEF FlashInv, Memory
  <2>4. user \in [DOMAIN Fields -> Seq(1..Erased)]
    BY <1>1, FieldsAreASequence DEF FlashInv, Placed
  <2> QED
    BY <1>1, <2>2, <2>3, <2>4 DEF FlashInv, UserDataTypeOK, FlashSize
<1>2. UserDataInit => FlashInv
  BY FlashInit
<1>3. FlashInv /\ [UserDataNext]_userDataVars => FlashInv'
  BY FlashStep
<1> QED
  BY <1>1, <1>2, <1>3, PTL DEF UserDataSpec

LEMMA BootStep ==
  ASSUME Size % PageSize # 0, FlashInv, Boot
  PROVE  /\ intact => ReadString(flash, KeyStart) = VALID_DATA_KEY
         /\ Fits(saved) => user' = saved \/ (user' = Wiped /\ ~intact)
<1>1. PICK data, m : m \in 0..Pages /\ FlashHolds(data, m)
  BY DEF FlashInv
<1>2. user' = ReadBack(flash) /\ flash = Programmed(data, m) /\ Placed(data)
  BY <1>1 DEF Boot, FlashHolds
<1>3. CASE intact
  <2>1. m = Pages /\ data = saved
    BY <1>1, <1>3 DEF FlashHolds
  <2>2. Recognised(flash) /\ (Fits(saved) => ReadBack(flash) = saved)
    BY <1>2, <2>1, CompleteIsRecognised
  <2> QED
    BY <1>2, <1>3, <2>2 DEF Recognised
<1>4. CASE ~intact
  <2>1. m # Pages
    BY <1>1, <1>4 DEF FlashHolds
  <2>2. ~Recognised(flash)
    BY <1>1, <1>2, <2>1, InterruptedIsNotRecognised
  <2>3. user' = Wiped
    BY <1>2, <2>2 DEF ReadBack, Recognised
  <2> QED
    BY <1>4, <2>3
<1> QED
  BY <1>3, <1>4

(* A board that boots has all of the settings that were saved last or,     *)
(* after a write that was cut short, none, for all sizes of pages and of   *)
(* settings of which the one does not divide the other, as in the code,    *)
(* where 256 does not divide 415 and 66 for each group: where it does, a   *)
(* last page without settings is programmed behind the key                 *)
(* (user_data.cpp:92-158).                                                 *)
THEOREM AllOrNothing ==
  ASSUME Size % PageSize # 0
  PROVE  UserDataSpec => BootIsAllOrNothing
<1>1. ASSUME FlashInv, [UserDataNext]_userDataVars
      PROVE  [Boot => /\ intact => ReadString(flash, KeyStart) = VALID_DATA_KEY
                      /\ Fits(saved) => user' = saved \/ (user' = Wiped /\ ~intact)
             ]_userDataVars
  BY <1>1, BootStep
<1>2. UserDataInit => FlashInv
  BY FlashInit
<1>3. FlashInv /\ [UserDataNext]_userDataVars => FlashInv'
  BY FlashStep
<1> QED
  BY <1>1, <1>2, <1>3, PTL DEF UserDataSpec, BootIsAllOrNothing

----------------------------------------------------------------------------
(* The results of a sweep.                                                 *)

Kind == [size : Nat, statuses : SUBSET Nat]

LayoutOK == layout \in Seq(Seq(Kind)) \ {<<>>}

(* The sensors of a group, and those of the groups before it.             *)
OfGroup(g) == {s \in Sensors : s[1] = g}

BeforeGroup(g) == {s \in Sensors : s[1] < g}

LEMMA SensorsType ==
  ASSUME LayoutOK
  PROVE  /\ Groups = 1..Len(layout)
         /\ Len(layout) \in Nat \ {0}
         /\ IsFiniteSet(Sensors)
         /\ \A g \in Groups :
              /\ Len(layout[g]) \in Nat
              /\ DOMAIN layout[g] = 1..Len(layout[g])
              /\ \A i \in 1..Len(layout[g]) :
                   <<g, i>> \in Sensors /\ layout[g][i] \in Kind
         /\ \A s \in Sensors :
              /\ s[1] \in Groups
              /\ s[2] \in 1..Len(layout[s[1]])
              /\ s = <<s[1], s[2]>>
              /\ DataSize(s) \in Nat
<1> DEFINE Indices(g) == DOMAIN layout[g]
<1>1. Groups = 1..Len(layout) /\ Len(layout) \in Nat \ {0}
  BY DEF LayoutOK, Groups
<1>2. ASSUME NEW g \in Groups
      PROVE  /\ layout[g] \in Seq(Kind)
             /\ Len(layout[g]) \in Nat
             /\ DOMAIN layout[g] = 1..Len(layout[g])
  BY <1>1 DEF LayoutOK
<1>3. ASSUME NEW g \in Groups, NEW i \in 1..Len(layout[g])
      PROVE  <<g, i>> \in Sensors /\ layout[g][i] \in Kind
  <2>1. layout[g][i] \in Kind
    BY <1>2
  <2>2. i \in DOMAIN layout[g]
    BY <1>2
  <2>3. <<g, i>> \in Groups \X UNION {DOMAIN layout[h] : h \in Groups}
    BY <2>2
  <2> QED
    BY <2>1, <2>2, <2>3 DEF Sensors
<1>4. ASSUME NEW s \in Sensors
      PROVE  /\ s[1] \in Groups
             /\ s[2] \in 1..Len(layout[s[1]])
             /\ s = <<s[1], s[2]>>
             /\ DataSize(s) \in Nat
  <2>1. /\ s \in Groups \X UNION {DOMAIN layout[h] : h \in Groups}
        /\ s[2] \in DOMAIN layout[s[1]]
    BY DEF Sensors
  <2>2. s[1] \in Groups /\ s = <<s[1], s[2]>>
    BY <2>1
  <2>3. s[2] \in 1..Len(layout[s[1]])
    BY <1>2, <2>1, <2>2
  <2>4. layout[s[1]][s[2]] \in Kind
    BY <1>3, <2>2, <2>3
  <2>5. DataSize(s) \in Nat
    BY <2>4 DEF DataSize, Kind
  <2> QED
    BY <2>2, <2>3, <2>5
<1>5. IsFiniteSet(Sensors)
  <2> DEFINE images == {Indices(h) : h \in Groups}
  <2>1. IsFiniteSet(Groups)
    BY <1>1, FS_Interval
  <2>2. \A h \in Groups : IsFiniteSet(Indices(h))
    BY <1>2, FS_Interval
  <2>3. IsFiniteSet(images)
    <3> DEFINE f == [h \in Groups |-> Indices(h)]
    <3>1. f \in Surjection(Groups, images)
      BY DEF Surjection
    <3> HIDE DEF f, images
    <3> QED
      BY <2>1, <3>1, FS_Surjection
  <2>4. IsFiniteSet(UNION images)
    BY <2>2, <2>3, FS_UNION
  <2>5. IsFiniteSet(Groups \X UNION images)
    BY <2>1, <2>4, FS_Product
  <2> QED
    BY <2>5, FS_Subset DEF Sensors
<1> QED
  BY <1>1, <1>2, <1>3, <1>4, <1>5

----------------------------------------------------------------------------
(* Every place in the array is a sum over a set of sensors.                *)
Measure == [s \in Sensors |-> DataSize(s) + 2]

Measures(it) == Sums(Sensors, Measure, it)

LEMMA MeasureExists ==
  ASSUME LayoutOK
  PROVE  \E it : Measures(it)
<1>1. IsFiniteSet(Sensors)
  BY SensorsType
<1>2. Measure \in [Sensors -> Nat]
  BY SensorsType DEF Measure
<1> HIDE DEF Measure
<1> QED
  BY <1>1, <1>2, SumExists DEF Measures

LEMMA FramedMeasures ==
  ASSUME LayoutOK, NEW it, Measures(it), NEW g
  PROVE  RawDataSize(g) = it[OfGroup(g)]
<1> DEFINE T == {s \in Sensors : s[1] = g}
           Adds(jt) == jt = [s \in SUBSET T |->
                               IF s = {} THEN 0
                               ELSE LET x == CHOOSE x \in s : TRUE
                                    IN Framed(x) + jt[s \ {x}]]
<1>1. T \in SUBSET Sensors
  OBVIOUS
<1>2. ASSUME NEW kt
      PROVE  Adds(kt) <=> IsSum(T, Measure, kt)
  <2>1. ASSUME NEW s \in SUBSET T, s # {}
        PROVE  LET x == CHOOSE x \in s : TRUE
               IN Framed(x) + kt[s \ {x}] = Measure[x] + kt[s \ {x}]
    <3> DEFINE x == CHOOSE x \in s : TRUE
    <3>1. x \in Sensors
      BY <2>1
    <3> HIDE DEF x
    <3>2. Measure[x] = Framed(x)
      BY <3>1 DEF Measure, Framed
    <3> QED
      BY <3>2 DEF x
  <2> HIDE DEF T
  <2> QED
    BY <2>1 DEF IsSum
<1>3. PICK jt : IsSum(T, Measure, jt)
  <2> HIDE DEF T
  <2> QED
    BY <1>1, SumRestrict DEF Measures
<1>4. PICK kt : Adds(kt) /\ RawDataSize(g) = kt[T]
  <2>1. Adds(jt)
    BY <1>2, <1>3
  <2> QED
    BY <2>1 DEF RawDataSize, MapThenSumSet, MapThenFoldSet
<1>5. kt[T] = it[T]
  <2>1. IsSum(T, Measure, kt) /\ SameOn(T, Measure, Measure)
    BY <1>2, <1>4 DEF SameOn
  <2> HIDE DEF T
  <2> QED
    BY <1>1, <2>1, SumsAgree DEF Measures
<1> QED
  BY <1>4, <1>5 DEF OfGroup

LEMMA TotalMeasures ==
  ASSUME LayoutOK, NEW it, Measures(it)
  PROVE  Total = it[Sensors]
<1> DEFINE T == Sensors
           Adds(jt) == jt = [s \in SUBSET T |->
                               IF s = {} THEN 0
                               ELSE LET x == CHOOSE x \in s : TRUE
                                    IN (DataSize(x) + 2) + jt[s \ {x}]]
<1>1. T \in SUBSET Sensors
  OBVIOUS
<1>2. ASSUME NEW kt
      PROVE  Adds(kt) <=> IsSum(T, Measure, kt)
  <2>1. ASSUME NEW s \in SUBSET T, s # {}
        PROVE  LET x == CHOOSE x \in s : TRUE
               IN (DataSize(x) + 2) + kt[s \ {x}] = Measure[x] + kt[s \ {x}]
    <3> DEFINE x == CHOOSE x \in s : TRUE
    <3>1. x \in Sensors
      BY <2>1
    <3> HIDE DEF x
    <3>2. Measure[x] = DataSize(x) + 2
      BY <3>1 DEF Measure
    <3> QED
      BY <3>2 DEF x
  <2> HIDE DEF T
  <2> QED
    BY <2>1 DEF IsSum
<1>3. PICK jt : IsSum(T, Measure, jt)
  <2> HIDE DEF T
  <2> QED
    BY <1>1, SumRestrict DEF Measures
<1>4. PICK kt : Adds(kt) /\ Total = kt[T]
  <2>1. Adds(jt)
    BY <1>2, <1>3
  <2> QED
    BY <2>1 DEF Total, MapThenSumSet, MapThenFoldSet
<1>5. kt[T] = it[T]
  <2>1. IsSum(T, Measure, kt) /\ SameOn(T, Measure, Measure)
    BY <1>2, <1>4 DEF SameOn
  <2> HIDE DEF T
  <2> QED
    BY <1>1, <2>1, SumsAgree DEF Measures
<1> QED
  BY <1>4, <1>5

LEMMA ReadStartMeasures ==
  ASSUME LayoutOK, NEW it, Measures(it), NEW sensor \in Sensors
  PROVE  ReadStart(sensor) = Offset(sensor[1]) + it[Before(sensor)]
<1> DEFINE T == Before(sensor)
           Adds(jt) == jt = [s \in SUBSET T |->
                               IF s = {} THEN 0
                               ELSE LET x == CHOOSE x \in s : TRUE
                                    IN (2 + DataSize(x)) + jt[s \ {x}]]
<1>1. T \in SUBSET Sensors
  BY DEF Before
<1>2. ASSUME NEW kt
      PROVE  Adds(kt) <=> IsSum(T, Measure, kt)
  <2>1. ASSUME NEW s \in SUBSET T, s # {}
        PROVE  LET x == CHOOSE x \in s : TRUE
               IN (2 + DataSize(x)) + kt[s \ {x}] = Measure[x] + kt[s \ {x}]
    <3> DEFINE x == CHOOSE x \in s : TRUE
    <3>1. x \in Sensors
      BY <1>1, <2>1
    <3> HIDE DEF x
    <3>2. DataSize(x) \in Nat
      BY <3>1, SensorsType
    <3>3. Measure[x] = 2 + DataSize(x)
      BY <3>1, <3>2 DEF Measure
    <3> QED
      BY <3>3 DEF x
  <2> HIDE DEF T
  <2> QED
    BY <2>1 DEF IsSum
<1>3. PICK jt : IsSum(T, Measure, jt)
  <2> HIDE DEF T
  <2> QED
    BY <1>1, SumRestrict DEF Measures
<1>4. PICK kt : Adds(kt) /\ ReadStart(sensor) = Offset(sensor[1]) + kt[T]
  <2>1. Adds(jt)
    BY <1>2, <1>3
  <2> QED
    BY <2>1 DEF ReadStart, MapThenSumSet, MapThenFoldSet
<1>5. kt[T] = it[T]
  <2>1. IsSum(T, Measure, kt) /\ SameOn(T, Measure, Measure)
    BY <1>2, <1>4 DEF SameOn
  <2> HIDE DEF T
  <2> QED
    BY <1>1, <2>1, SumsAgree DEF Measures
<1> QED
  BY <1>4, <1>5

LEMMA MeasuresType ==
  ASSUME LayoutOK, NEW it, Measures(it)
  PROVE  /\ it \in [SUBSET Sensors -> Nat]
         /\ AddsUp(Sensors, Measure, it)
         /\ \A g : OfGroup(g) \in SUBSET Sensors /\ BeforeGroup(g) \in SUBSET Sensors
         /\ \A s : Before(s) \in SUBSET Sensors
         /\ it[{}] = 0
<1>1. AddsUp(Sensors, Measure, it)
  BY SumRemove DEF Measures
<1> QED
  BY <1>1 DEF Measures, Sums, OfGroup, BeforeGroup, Before, AddsUp

LEMMA OffsetMeasures ==
  ASSUME LayoutOK, NEW it, Measures(it), NEW g \in Groups
  PROVE  /\ Offset(g) = it[BeforeGroup(g)]
         /\ it[BeforeGroup(g + 1)] = it[BeforeGroup(g)] + it[OfGroup(g)]
<1> DEFINE raw == [h \in Groups |-> RawDataSize(h)]
           T == 1..g-1
           Adds(jt) == jt = [s \in SUBSET T |->
                               IF s = {} THEN 0
                               ELSE LET x == CHOOSE x \in s : TRUE
                                    IN RawDataSize(x) + jt[s \ {x}]]
<1>0. g \in Nat /\ Groups = 1..Len(layout) /\ Len(layout) \in Nat
  BY SensorsType
<1>1. T \in SUBSET Groups
  BY <1>0
<1>2. ASSUME NEW h \in Groups
      PROVE  raw[h] = it[OfGroup(h)] /\ raw[h] \in Nat
  BY FramedMeasures, MeasuresType
<1>3. PICK sum : Sums(Groups, raw, sum)
  <2>1. IsFiniteSet(Groups)
    BY <1>0, FS_Interval
  <2>2. raw \in [Groups -> Nat]
    BY <1>2
  <2> HIDE DEF raw
  <2> QED
    BY <2>1, <2>2, SumExists
<1>4. ASSUME NEW kt
      PROVE  Adds(kt) <=> IsSum(T, raw, kt)
  <2>1. ASSUME NEW s \in SUBSET T, s # {}
        PROVE  LET x == CHOOSE x \in s : TRUE
               IN RawDataSize(x) + kt[s \ {x}] = raw[x] + kt[s \ {x}]
    <3> DEFINE x == CHOOSE x \in s : TRUE
    <3>1. x \in Groups
      BY <1>1, <2>1
    <3> HIDE DEF x
    <3>2. raw[x] = RawDataSize(x)
      BY <3>1
    <3> QED
      BY <3>2 DEF x
  <2> HIDE DEF T, raw
  <2> QED
    BY <2>1 DEF IsSum
<1>5. PICK jt : IsSum(T, raw, jt)
  <2> HIDE DEF T, raw
  <2> QED
    BY <1>1, <1>3, SumRestrict
<1>6. PICK kt : Adds(kt) /\ Offset(g) = kt[T]
  <2>1. Adds(jt)
    BY <1>4, <1>5
  <2> QED
    BY <2>1 DEF Offset, MapThenSumSet, MapThenFoldSet
<1>7. Offset(g) = sum[T]
  <2>1. IsSum(T, raw, kt)
    BY <1>4, <1>6
  <2>2. SameOn(T, raw, raw)
    BY DEF SameOn
  <2>3. kt[T] = sum[T]
    <3> HIDE DEF T, raw, Adds
    <3> QED
      BY <1>1, <1>3, <2>1, <2>2, SumsAgree
  <2> QED
    BY <1>6, <2>3
<1>8. AddsUp(Groups, raw, sum)
  <2> HIDE DEF raw
  <2> QED
    BY <1>3, SumRemove
<1> HIDE DEF raw, T, Adds
<1>9. ASSUME NEW h \in Groups
      PROVE  it[BeforeGroup(h + 1)] = it[BeforeGroup(h)] + it[OfGroup(h)]
  <2>1. /\ BeforeGroup(h + 1) = BeforeGroup(h) \cup OfGroup(h)
        /\ BeforeGroup(h) \cap OfGroup(h) = {}
    BY <1>0, SensorsType DEF BeforeGroup, OfGroup
  <2>2. BeforeGroup(h) \in SUBSET Sensors /\ OfGroup(h) \in SUBSET Sensors
    BY MeasuresType
  <2> QED
    BY <2>1, <2>2, SumUnion DEF Measures
<1> DEFINE S == {k \in Nat : k <= Len(layout) => sum[1..k] = it[BeforeGroup(k + 1)]}
<1>10. 0 \in S
  <2>1. 1..0 = {} /\ BeforeGroup(0 + 1) = {}
    BY <1>0, SensorsType DEF BeforeGroup
  <2> QED
    BY <1>8, <2>1, MeasuresType DEF AddsUp
<1>11. ASSUME NEW k \in Nat, k \in S
       PROVE  k + 1 \in S
  <2> SUFFICES ASSUME k + 1 <= Len(layout)
               PROVE  sum[1..k + 1] = it[BeforeGroup((k + 1) + 1)]
    OBVIOUS
  <2>1. /\ 1..k + 1 \in SUBSET Groups /\ k + 1 \in 1..k + 1 /\ k + 1 \in Groups
        /\ (1..k + 1) \ {k + 1} = 1..k
    BY <1>0
  <2>2. sum[1..k + 1] = raw[k + 1] + sum[1..k]
    <3> DEFINE U == 1..k + 1
    <3>1. sum[U] = raw[k + 1] + sum[U \ {k + 1}]
      <4>1. U \in SUBSET Groups /\ k + 1 \in U
        BY <2>1
      <4> HIDE DEF U, S
      <4> QED
        BY <1>8, <4>1 DEF AddsUp
    <3> QED
      BY <2>1, <3>1
  <2>3. sum[1..k] = it[BeforeGroup(k + 1)]
    BY <1>0, <1>11
  <2>4. /\ it[BeforeGroup(k + 1)] \in Nat /\ it[OfGroup(k + 1)] \in Nat
    BY MeasuresType
  <2>5. raw[k + 1] = it[OfGroup(k + 1)]
    BY <1>2, <2>1
  <2>6. it[BeforeGroup((k + 1) + 1)] = it[BeforeGroup(k + 1)] + it[OfGroup(k + 1)]
    BY <1>9, <2>1
  <2> QED
    BY <2>2, <2>3, <2>4, <2>5, <2>6
<1>12. g - 1 \in S
  <2>1. g - 1 \in Nat
    BY <1>0
  <2> HIDE DEF S
  <2> QED
    BY <1>10, <1>11, <2>1, Induction
<1>13. sum[T] = it[BeforeGroup(g)]
  <2>1. g - 1 <= Len(layout) /\ g - 1 + 1 = g
    BY <1>0
  <2> QED
    BY <1>12, <2>1 DEF T
<1> QED
  BY <1>7, <1>9, <1>13

(* The groups lie one behind the other, and the last ends with the array.  *)
LEMMA GroupsAreApart ==
  ASSUME LayoutOK
  PROVE  /\ Total \in Nat
         /\ \A g \in Groups :
              /\ Offset(g) \in Nat /\ RawDataSize(g) \in Nat
              /\ Offset(g) + RawDataSize(g) <= Total
         /\ \A g, h \in Groups : g < h => Offset(g) + RawDataSize(g) <= Offset(h)
<1>1. PICK it : Measures(it)
  BY MeasureExists
<1>2. ASSUME NEW T \in SUBSET Sensors, NEW U \in SUBSET Sensors, T \subseteq U
      PROVE  it[T] <= it[U]
  <2>1. T \cup (U \ T) = U /\ T \cap (U \ T) = {} /\ U \ T \in SUBSET Sensors
    BY <1>2
  <2>2. it[U] = it[T] + it[U \ T]
    BY <1>1, <2>1, SumUnion DEF Measures
  <2>3. it[T] \in Nat /\ it[U \ T] \in Nat
    BY <1>1, <2>1, MeasuresType
  <2> QED
    BY <2>2, <2>3
<1>3. Total = it[Sensors] /\ Total \in Nat
  BY <1>1, TotalMeasures, MeasuresType
<1>4. ASSUME NEW g \in Groups
      PROVE  /\ Offset(g) = it[BeforeGroup(g)] /\ RawDataSize(g) = it[OfGroup(g)]
             /\ Offset(g) \in Nat /\ RawDataSize(g) \in Nat
             /\ it[BeforeGroup(g + 1)] = Offset(g) + RawDataSize(g)
  BY <1>1, OffsetMeasures, FramedMeasures, MeasuresType
<1>5. ASSUME NEW g \in Groups
      PROVE  Offset(g) + RawDataSize(g) <= Total
  <2>1. it[BeforeGroup(g + 1)] <= it[Sensors]
    BY <1>1, <1>2, MeasuresType
  <2> QED
    BY <1>3, <1>4, <2>1
<1>6. ASSUME NEW g \in Groups, NEW h \in Groups, g < h
      PROVE  Offset(g) + RawDataSize(g) <= Offset(h)
  <2>1. BeforeGroup(g + 1) \subseteq BeforeGroup(h)
    BY <1>6, SensorsType DEF BeforeGroup
  <2>2. it[BeforeGroup(g + 1)] <= it[BeforeGroup(h)]
    BY <1>1, <1>2, <2>1, MeasuresType
  <2> QED
    BY <1>4, <2>2
<1> QED
  BY <1>3, <1>4, <1>5, <1>6

(* What the reader skips in front of each sensor of a group.               *)
Skips(g, skip) ==
  /\ skip \in [0..Len(layout[g]) -> Nat]
  /\ skip[0] = 0
  /\ skip[Len(layout[g])] = RawDataSize(g)
  /\ \A i \in 1..Len(layout[g]) :
       /\ skip[i] = skip[i-1] + (2 + DataSize(<<g, i>>))
       /\ ReadStart(<<g, i>>) = Offset(g) + skip[i-1]

LEMMA SkipsExist ==
  ASSUME LayoutOK, NEW g \in Groups
  PROVE  \E skip : Skips(g, skip)
<1> DEFINE First(i) == {s \in Sensors : s[1] = g /\ s[2] <= i}
           n == Len(layout[g])
<1>1. PICK it : Measures(it)
  BY MeasureExists
<1> DEFINE ahead == [i \in 0..n |-> it[First(i)]]
<1>2. n \in Nat /\ \A s \in Sensors : s[1] = g => s[2] \in 1..n /\ s = <<g, s[2]>>
  BY SensorsType
<1>3. \A i : First(i) \in SUBSET Sensors
  OBVIOUS
<1>4. ahead \in [0..n -> Nat]
  <2> HIDE DEF n, First
  <2> QED
    BY <1>1, <1>3, MeasuresType
<1>5. ahead[0] = 0
  <2>1. First(0) = {} /\ 0 \in 0..n
    BY <1>2
  <2> HIDE DEF First, n
  <2> QED
    BY <1>1, <2>1, MeasuresType
<1>6. ahead[n] = RawDataSize(g)
  <2>1. First(n) = OfGroup(g) /\ n \in 0..n
    BY <1>2 DEF OfGroup
  <2> HIDE DEF First, n
  <2> QED
    BY <1>1, <2>1, FramedMeasures
<1>7. ASSUME NEW i \in 1..n
      PROVE  /\ ahead[i] = ahead[i-1] + (2 + DataSize(<<g, i>>))
             /\ ReadStart(<<g, i>>) = Offset(g) + ahead[i-1]
  <2>1. <<g, i>> \in Sensors /\ DataSize(<<g, i>>) \in Nat
    BY SensorsType
  <2>2. /\ <<g, i>> \in First(i) /\ First(i) \ {<<g, i>>} = First(i-1)
        /\ Before(<<g, i>>) = First(i-1)
        /\ i \in 0..n /\ i - 1 \in 0..n
    BY <1>2, <2>1 DEF Before
  <2> HIDE DEF First, n
  <2>3. it[First(i)] = Measure[<<g, i>>] + it[First(i-1)]
    BY <1>1, <1>3, <2>2, MeasuresType DEF AddsUp
  <2>4. Measure[<<g, i>>] = DataSize(<<g, i>>) + 2
    BY <2>1 DEF Measure
  <2>5. it[First(i-1)] \in Nat
    BY <1>1, <1>3, MeasuresType
  <2>6. ReadStart(<<g, i>>) = Offset(g) + it[First(i-1)]
    BY <1>1, <2>1, <2>2, ReadStartMeasures
  <2> QED
    BY <2>1, <2>2, <2>3, <2>4, <2>5, <2>6
<1> HIDE DEF ahead
<1>8. Skips(g, ahead)
  BY <1>4, <1>5, <1>6, <1>7 DEF Skips
<1> QED
  BY <1>8

(* A cached reading is whole, or there is none.                            *)
CacheOK ==
  /\ DOMAIN cached = Sensors
  /\ \A s \in Sensors :
       /\ cached[s] \in [status : Nat, data : Seq(Nat)]
       /\ cached[s].data = <<>> \/ Len(cached[s].data) = DataSize(s)

HasData(s) == cached[s].data # <<>>

LEMMA PackedType ==
  ASSUME LayoutOK, CacheOK, NEW s \in Sensors
  PROVE  /\ Packed(s) \in Seq(Nat)
         /\ Len(Packed(s)) = 2 + Len(cached[s].data)
         /\ Len(cached[s].data) \in Nat
         /\ Len(Packed(s)) <= 2 + DataSize(s)
         /\ HasData(s) => Len(Packed(s)) = 2 + DataSize(s)
         /\ Packed(s)[1] = cached[s].status
         /\ Packed(s)[2] = Len(cached[s].data)
         /\ \A j \in 1..Len(cached[s].data) : Packed(s)[2 + j] = cached[s].data[j]
<1> DEFINE data == cached[s].data
           head == <<cached[s].status, Len(cached[s].data)>>
           whole == head \o data
<1>1. data \in Seq(Nat) /\ cached[s].status \in Nat /\ Len(data) \in Nat
  BY DEF CacheOK
<1>2. head \in Seq(Nat) /\ Len(head) = 2 /\ head[1] = cached[s].status
      /\ head[2] = Len(data)
  BY <1>1
<1> HIDE DEF data, head
<1>3. /\ whole \in Seq(Nat) /\ Len(whole) = Len(head) + Len(data)
      /\ \A i \in 1..Len(head) + Len(data) :
           whole[i] = IF i <= Len(head) THEN head[i] ELSE data[i - Len(head)]
  BY <1>1, <1>2, ConcatProperties
<1> HIDE DEF whole
<1>4. Packed(s) = whole
  BY DEF Packed, whole, head, data
<1>5. DataSize(s) \in Nat
  BY SensorsType
<1>6. Len(data) <= DataSize(s) /\ (HasData(s) => Len(data) = DataSize(s))
  BY <1>1, <1>5 DEF CacheOK, HasData, data
<1>7. whole[1] = head[1] /\ whole[2] = head[2]
  BY <1>1, <1>2, <1>3
<1>8. ASSUME NEW j \in 1..Len(data)
      PROVE  whole[2 + j] = data[j]
  <2>1. 2 + j \in 1..Len(head) + Len(data) /\ ~(2 + j <= Len(head))
        /\ 2 + j - Len(head) = j
    BY <1>1, <1>2
  <2> QED
    BY <1>3, <2>1
<1>9. Len(whole) = 2 + Len(data) /\ Len(whole) <= 2 + DataSize(s)
      /\ (HasData(s) => Len(whole) = 2 + DataSize(s))
  BY <1>1, <1>2, <1>3, <1>5, <1>6
<1> QED
  BY <1>1, <1>2, <1>3, <1>4, <1>7, <1>8, <1>9 DEF data

PackedGroup(g) == FlattenSeq([i \in DOMAIN layout[g] |-> Packed(<<g, i>>)])

(* A sensor stands at the place k of what is packed for its group.         *)
StandsAt(s, k, packed) ==
  /\ k + Len(Packed(s)) <= Len(packed)
  /\ \A j \in 1..Len(Packed(s)) : packed[k + j] = Packed(s)[j]

LEMMA PackedBehindData ==
  ASSUME LayoutOK, CacheOK, NEW g \in Groups
  PROVE  /\ PackedGroup(g) \in Seq(Nat)
         /\ Len(PackedGroup(g)) \in Nat
         /\ Len(PackedGroup(g)) <= RawDataSize(g)
         /\ \A i \in 1..Len(layout[g]) :
              (\A t \in Before(<<g, i>>) : HasData(t)) =>
                \E k \in Nat : /\ ReadStart(<<g, i>>) = Offset(g) + k
                               /\ StandsAt(<<g, i>>, k, PackedGroup(g))
<1> DEFINE n == Len(layout[g])
           seqs == [i \in DOMAIN layout[g] |-> Packed(<<g, i>>)]
<1>1. n \in Nat /\ DOMAIN layout[g] = 1..n
  BY SensorsType
<1>2. ASSUME NEW i \in 1..n
      PROVE  /\ <<g, i>> \in Sensors
             /\ DataSize(<<g, i>>) \in Nat
             /\ Packed(<<g, i>>) \in Seq(Nat)
             /\ Len(Packed(<<g, i>>)) \in Nat
             /\ Len(Packed(<<g, i>>)) <= 2 + DataSize(<<g, i>>)
             /\ HasData(<<g, i>>) => Len(Packed(<<g, i>>)) = 2 + DataSize(<<g, i>>)
  <2>1. <<g, i>> \in Sensors
    BY SensorsType
  <2>2. DataSize(<<g, i>>) \in Nat
    BY <2>1, SensorsType
  <2> QED
    BY <2>1, <2>2, PackedType
<1> HIDE DEF n
<1>3. seqs \in Seq(Seq(Nat)) /\ Len(seqs) = n
  BY <1>1, <1>2
<1>4. \A i \in 1..n : seqs[i] = Packed(<<g, i>>)
  BY <1>1
<1> HIDE DEF seqs
<1>5. PICK place : Places(seqs, place)
  BY <1>3, FlattenPlaces
<1>6. PackedGroup(g) = FlattenSeq(seqs) /\ FlattenSeq(seqs) \in Seq(Nat)
  BY <1>3, FlattenPlaces DEF PackedGroup, seqs
<1>7. PICK skip : Skips(g, skip)
  BY SkipsExist
<1> DEFINE S == {k \in Nat : k <= n =>
                   /\ place[k] <= skip[k]
                   /\ (\A i \in 1..k : HasData(<<g, i>>)) => place[k] = skip[k]}
<1>8. 0 \in S
  BY <1>1, <1>5, <1>7 DEF Places, Skips
<1>9. ASSUME NEW k \in Nat, k \in S
      PROVE  k + 1 \in S
  <2> SUFFICES ASSUME k + 1 <= n
               PROVE  /\ place[k+1] <= skip[k+1]
                      /\ (\A i \in 1..k+1 : HasData(<<g, i>>)) => place[k+1] = skip[k+1]
    OBVIOUS
  <2>1. k + 1 \in 1..n /\ k + 1 - 1 = k /\ k \in 0..n /\ k + 1 \in 0..n
    BY <1>1
  <2>2. place[k+1] = place[k] + Len(Packed(<<g, k+1>>))
    BY <1>3, <1>4, <1>5, <2>1 DEF Places
  <2>3. skip[k+1] = skip[k] + (2 + DataSize(<<g, k+1>>))
    BY <1>7, <2>1 DEF Skips, n
  <2>4. place[k] \in Nat /\ skip[k] \in Nat
    BY <1>3, <1>5, <1>7, <2>1 DEF Places, Skips, n
  <2>5. /\ place[k] <= skip[k]
        /\ (\A i \in 1..k : HasData(<<g, i>>)) => place[k] = skip[k]
    BY <1>1, <1>9, <2>1
  <2>6. PICK len \in Nat, size \in Nat :
          /\ len = Len(Packed(<<g, k+1>>)) /\ size = DataSize(<<g, k+1>>)
          /\ len <= 2 + size
          /\ HasData(<<g, k+1>>) => len = 2 + size
    BY <1>2, <2>1
  <2>7. place[k+1] <= skip[k+1]
    BY <2>2, <2>3, <2>4, <2>5, <2>6
  <2>8. ASSUME \A i \in 1..k+1 : HasData(<<g, i>>)
        PROVE  place[k+1] = skip[k+1]
    <3>1. HasData(<<g, k+1>>)
      BY <2>8
    <3>2. \A i \in 1..k : HasData(<<g, i>>)
      BY <2>8
    <3> QED
      BY <2>2, <2>3, <2>4, <2>5, <2>6, <3>1, <3>2
  <2> QED
    BY <2>7, <2>8
<1>10. Nat \subseteq S
  <2> HIDE DEF S
  <2> QED
    BY <1>8, <1>9, Induction
<1>11. Len(PackedGroup(g)) <= RawDataSize(g)
  <2>1. n \in S
    BY <1>1, <1>10
  <2>2. place[n] <= skip[n]
    BY <1>1, <2>1
  <2> QED
    BY <1>3, <1>5, <1>6, <1>7, <2>2 DEF Places, Skips, n
<1>12. ASSUME NEW i \in 1..n, \A t \in Before(<<g, i>>) : HasData(t)
       PROVE  \E k \in Nat : /\ ReadStart(<<g, i>>) = Offset(g) + k
                             /\ StandsAt(<<g, i>>, k, PackedGroup(g))
  <2>1. i - 1 \in Nat /\ i - 1 <= n /\ i - 1 \in 0..n /\ i \in 0..n
    BY <1>1
  <2>2. ASSUME NEW j \in 1..i-1
        PROVE  HasData(<<g, j>>)
    <3>1. j \in 1..n /\ j < i
      BY <1>1
    <3>2. <<g, j>> \in Before(<<g, i>>)
      BY <1>2, <3>1 DEF Before
    <3> QED
      BY <1>12, <3>2
  <2>3. place[i-1] = skip[i-1]
    <3>1. i - 1 \in S
      BY <1>10, <2>1
    <3> QED
      BY <2>1, <2>2, <3>1
  <2>4. ReadStart(<<g, i>>) = Offset(g) + place[i-1]
    BY <1>7, <2>3 DEF Skips, n
  <2>5. place[i-1] \in Nat
    BY <1>3, <1>5, <2>1 DEF Places
  <2>6. StandsAt(<<g, i>>, place[i-1], PackedGroup(g))
    <3>1. /\ place[i] = place[i-1] + Len(seqs[i])
          /\ place[i] <= place[n] /\ place[n] = Len(FlattenSeq(seqs))
          /\ \A j \in 1..Len(seqs[i]) : FlattenSeq(seqs)[place[i-1] + j] = seqs[i][j]
      BY <1>3, <1>5 DEF Places
    <3>2. seqs[i] = Packed(<<g, i>>)
      BY <1>4
    <3> QED
      BY <1>6, <3>1, <3>2 DEF StandsAt
  <2> QED
    BY <2>4, <2>5, <2>6
<1> QED
  BY <1>6, <1>11, <1>12 DEF n

(* Whether the reader of s is not displaced, and whether what core 1       *)
(* packed of s is where that reader looks.                                 *)
BehindData(s) == \A t \in Before(s) : HasData(t)

Arrived(s) == StandsAt(s, ReadStart(s), mData)

(* Of a sensor that is not displaced, fillFromSensors leaves the reading   *)
(* where toMQTT looks for it, until every group is unpacked.               *)
MessageInv ==
  /\ LayoutOK
  /\ CacheOK
  /\ MessageTypeOK
  /\ phase = "fill" => \A s \in Sensors : s[1] < group /\ BehindData(s) => Arrived(s)
  /\ phase = "unpack" =>
       \A s \in Sensors : BehindData(s) => Arrived(s) /\ (s[1] < group => Faithful(s))
  /\ phase = "sent" => \A s \in Sensors : BehindData(s) => Faithful(s)

LEMMA MessageStarts == MessageInit => MessageInv
<1> SUFFICES ASSUME MessageInit
             PROVE  MessageInv
  OBVIOUS
<1> USE DEF MessageInit
<1>1. LayoutOK
  BY SensorDataMessageAssumption DEF LayoutOK, Kind
<1>2. CacheOK
  BY DEF CacheOK, SENSOR_OK
<1>3. Total \in Nat
  BY <1>1, GroupsAreApart
<1>4. mData \in Seq(Nat) /\ Len(mData) = Total
  <2> HIDE DEF MessageInit
  <2>1. mData = [p \in 1..Total |-> 0]
    BY DEF MessageInit
  <2> QED
    BY <1>3, <2>1
<1>5. group \in Groups
  BY <1>1, SensorsType
<1>6. MessageTypeOK
  BY <1>2, <1>4, <1>5 DEF MessageTypeOK, CacheOK
<1> QED
  BY <1>1, <1>2, <1>6 DEF MessageInv

(* What depends on the layout alone, and on the cache as well, stays with  *)
(* them.                                                                   *)
LEMMA LayoutStays ==
  ASSUME layout' = layout
  PROVE  /\ LayoutOK' = LayoutOK
         /\ Groups' = Groups /\ Sensors' = Sensors /\ Total' = Total
         /\ \A s : Before(s)' = Before(s)
         /\ \A s : DataSize(s)' = DataSize(s)
         /\ \A s : ReadStart(s)' = ReadStart(s)
<1>1. LayoutOK' = LayoutOK /\ Groups' = Groups
  BY DEF LayoutOK, Groups
<1>2. Sensors' = Sensors
  BY DEF Sensors, Groups
<1>3. Total' = Total
  BY DEF Total, Sensors, Groups, DataSize, MapThenSumSet, MapThenFoldSet
<1>4. \A s : Before(s)' = Before(s)
  BY DEF Before, Sensors, Groups
<1>5. \A s : DataSize(s)' = DataSize(s)
  BY DEF DataSize
<1>6. ASSUME NEW s
      PROVE  ReadStart(s)' = ReadStart(s)
  BY DEF ReadStart, Offset, RawDataSize, Framed, Before, Sensors, Groups,
         DataSize, MapThenSumSet, MapThenFoldSet
<1> QED
  BY <1>1, <1>2, <1>3, <1>4, <1>5, <1>6

LEMMA CacheStays ==
  ASSUME layout' = layout, cached' = cached
  PROVE  /\ CacheOK' = CacheOK
         /\ \A s : Packed(s)' = Packed(s)
         /\ \A s : BehindData(s)' = BehindData(s)
<1>1. \A s : Packed(s)' = Packed(s)
  BY DEF Packed
<1>2. \A s : HasData(s)' = HasData(s)
  BY DEF HasData
<1>3. \A s : BehindData(s)' = BehindData(s)
  BY <1>2, LayoutStays DEF BehindData
<1>4. CacheOK' = CacheOK
  BY LayoutStays DEF CacheOK
<1> QED
  BY <1>1, <1>3, <1>4

LEMMA MessageUpdate == MessageInv /\ Update => MessageInv'
<1> SUFFICES ASSUME MessageInv, Update
             PROVE  MessageInv'
  OBVIOUS
<1> USE DEF MessageInv
<1>1. /\ phase' = "fill" /\ group' = 1 /\ layout' = layout /\ named' = named
      /\ mData' = mData /\ outbound' = outbound
      /\ DOMAIN cached' = Sensors
      /\ \A s \in Sensors : cached'[s] \in Cacheable(s)
  BY DEF Update
<1>2. ASSUME NEW s \in Sensors
      PROVE  /\ cached'[s] \in [status : Nat, data : Seq(Nat)]
             /\ cached'[s].data = <<>> \/ Len(cached'[s].data) = DataSize(s)
  <2>1. /\ DataSize(s) \in Nat /\ s[1] \in Nat /\ s[2] \in Nat
        /\ layout[s[1]][s[2]].statuses \in SUBSET Nat
    BY SensorsType DEF Kind
  <2>2. ASSUME NEW r \in Samples
        PROVE  Reading(s, r) \in Seq(Nat) /\ Len(Reading(s, r)) = DataSize(s)
    <3>1. r \in Nat
      BY SensorDataMessageAssumption
    <3>2. \A k \in 1..DataSize(s) : 100 * (10 * s[1] + s[2]) + 20 * r + k \in Nat
      BY <2>1, <3>1
    <3> QED
      BY <2>1, <3>2 DEF Reading
  <2>3. cached'[s] \in [status : layout[s[1]][s[2]].statuses,
                        data : {Reading(s, r) : r \in Samples} \union {<<>>}]
    BY <1>1 DEF Cacheable
  <2>4. <<>> \in Seq(Nat)
    OBVIOUS
  <2> QED
    BY <2>1, <2>2, <2>3, <2>4
<1>3. CacheOK'
  BY <1>1, <1>2, LayoutStays DEF CacheOK
<1>4. LayoutOK'
  BY <1>1, LayoutStays
<1>5. Groups = 1..Len(layout) /\ Len(layout) \in Nat \ {0}
  BY SensorsType
<1>6. MessageTypeOK'
  BY <1>1, <1>5, LayoutStays DEF MessageTypeOK
<1>7. ASSUME NEW s \in Sensors'
      PROVE  ~(s[1] < group')
  <2>1. s[1] \in 1..Len(layout)
    BY <1>1, <1>5, LayoutStays, SensorsType
  <2> QED
    BY <1>1, <1>5, <2>1
<1> QED
  BY <1>1, <1>3, <1>4, <1>6, <1>7

(* The groups that are filled keep their bytes, and the next one gets its. *)
LEMMA FillArrives ==
  ASSUME MessageInv, phase = "fill", Fill
  PROVE  /\ mData' \in Seq(Nat)
         /\ Len(mData') = Total
         /\ \A s \in Sensors : s[1] <= group /\ BehindData(s) => Arrived(s)'
<1> USE DEF MessageInv
<1> DEFINE packed == PackedGroup(group)
           start == Offset(group)
<1>1. /\ layout' = layout /\ cached' = cached /\ group \in Groups
      /\ mData' = Splice(mData, start, packed)
  BY DEF Fill, Splice, PackedGroup, MessageTypeOK
<1>2. mData \in Seq(Nat) /\ Len(mData) = Total
  BY DEF MessageTypeOK
<1>3. /\ packed \in Seq(Nat) /\ Len(packed) \in Nat /\ Len(packed) <= RawDataSize(group)
  BY <1>1, PackedBehindData
<1>4. /\ start \in Nat /\ RawDataSize(group) \in Nat /\ Total \in Nat
      /\ start + RawDataSize(group) <= Total
  BY <1>1, GroupsAreApart
<1> HIDE DEF packed, start
<1>5. /\ mData' \in Seq(Nat) /\ Len(mData') = Total
      /\ \A i \in 1..Total :
           mData'[i] = IF start < i /\ i <= start + Len(packed)
                         THEN packed[i - start] ELSE mData[i]
  <2>1. start + Len(packed) <= Len(mData)
    BY <1>2, <1>3, <1>4
  <2>2. mData' \in Seq(Nat) /\ IsSplice(mData', mData, start, packed)
    <3> DEFINE X == Nat
    <3>1. mData \in Seq(X) /\ packed \in Seq(X)
      BY <1>2, <1>3
    <3>2. mData' \in Seq(X) /\ IsSplice(mData', mData, start, packed)
      <4> HIDE DEF X
      <4> QED
        BY <1>1, <1>4, <2>1, <3>1, SpliceProperties
    <3> QED
      BY <3>2
  <2> QED
    BY <1>2, <2>2 DEF IsSplice
<1>6. ASSUME NEW s \in Sensors, s[1] <= group, BehindData(s)
      PROVE  StandsAt(s, ReadStart(s), mData')
  <2> DEFINE p == Packed(s)
  <2>1. s[1] \in Groups /\ s[2] \in 1..Len(layout[s[1]]) /\ s = <<s[1], s[2]>>
    BY SensorsType
  <2>2. Len(p) \in Nat
    BY PackedType
  <2>3. PICK k \in Nat : /\ ReadStart(s) = Offset(s[1]) + k
                         /\ StandsAt(s, k, PackedGroup(s[1]))
    <3>1. \E k \in Nat : /\ ReadStart(<<s[1], s[2]>>) = Offset(s[1]) + k
                         /\ StandsAt(<<s[1], s[2]>>, k, PackedGroup(s[1]))
      <4>1. \A t \in Before(<<s[1], s[2]>>) : HasData(t)
        BY <1>6, <2>1 DEF BehindData
      <4> QED
        BY <2>1, <4>1, PackedBehindData
    <3> QED
      BY <2>1, <3>1
  <2>4. k + Len(p) <= Len(PackedGroup(s[1])) /\ Len(PackedGroup(s[1])) \in Nat
    BY <2>1, <2>3, PackedBehindData DEF StandsAt
  <2>5. CASE s[1] = group
    <3>1. ReadStart(s) = start + k /\ k + Len(p) <= Len(packed)
      BY <2>3, <2>4, <2>5 DEF start, packed
    <3>2. ReadStart(s) + Len(p) <= Total
      BY <1>3, <1>4, <2>2, <3>1
    <3>3. ASSUME NEW j \in 1..Len(p)
          PROVE  mData'[ReadStart(s) + j] = p[j]
      <4>1. /\ start + k + j \in 1..Total
            /\ start < start + k + j /\ start + k + j <= start + Len(packed)
            /\ start + k + j - start = k + j
        BY <1>3, <1>4, <2>2, <3>1
      <4>2. mData'[start + k + j] = packed[k + j]
        <5>1. PICK i \in 1..Total :
                /\ i = start + k + j
                /\ start < i /\ i <= start + Len(packed) /\ i - start = k + j
          BY <1>3, <1>4, <2>2, <4>1
        <5>2. mData'[i] = packed[i - start]
          BY <1>5, <5>1
        <5> QED
          BY <5>1, <5>2
      <4>3. packed[k + j] = p[j]
        BY <2>3, <2>5 DEF StandsAt, packed
      <4> QED
        BY <3>1, <4>2, <4>3
    <3> QED
      BY <1>5, <3>2, <3>3 DEF StandsAt
  <2>6. CASE s[1] < group
    <3>1. StandsAt(s, ReadStart(s), mData)
      BY <1>6, <2>6 DEF Arrived
    <3>2. PICK place \in Nat, after \in Nat :
            place = Offset(s[1]) /\ after = place + RawDataSize(s[1])
      BY <2>1, GroupsAreApart
    <3>3. after <= start
      BY <1>1, <2>1, <2>6, <3>2, GroupsAreApart DEF start
    <3>4. Len(PackedGroup(s[1])) <= RawDataSize(s[1]) /\ RawDataSize(s[1]) \in Nat
      BY <2>1, PackedBehindData, GroupsAreApart
    <3>5. ReadStart(s) \in Nat /\ ReadStart(s) + Len(p) <= start
      <4>1. ReadStart(s) = place + k
        BY <2>3, <3>2
      <4>2. Offset(s[1]) + Len(PackedGroup(s[1])) <= start
        BY <1>4, <3>2, <3>3, <3>4
      <4> QED
        BY <1>4, <2>2, <2>4, <3>2, <4>1, <4>2
    <3>6. ASSUME NEW j \in 1..Len(p)
          PROVE  mData'[ReadStart(s) + j] = p[j]
      <4>1. ReadStart(s) + j \in 1..Total /\ ~(start < ReadStart(s) + j)
        BY <1>4, <2>2, <3>5
      <4>2. mData'[ReadStart(s) + j] = mData[ReadStart(s) + j]
        BY <1>5, <4>1
      <4> QED
        BY <3>1, <4>2 DEF StandsAt
    <3> QED
      BY <1>2, <1>5, <3>1, <3>6 DEF StandsAt
  <2>7. s[1] \in Int /\ group \in Int
    BY <1>1, <2>1, SensorsType
  <2> QED
    BY <1>6, <2>5, <2>6, <2>7
<1>7. ASSUME NEW s \in Sensors, s[1] <= group, BehindData(s)
      PROVE  Arrived(s)'
  <2>1. ReadStart(s)' = ReadStart(s) /\ Packed(s)' = Packed(s)
    BY <1>1, LayoutStays, CacheStays
  <2> QED
    BY <1>6, <1>7, <2>1 DEF Arrived, StandsAt
<1> QED
  BY <1>5, <1>7

LEMMA MessageFill == MessageInv /\ Fill => MessageInv'
<1> SUFFICES ASSUME MessageInv, Fill
             PROVE  MessageInv'
  OBVIOUS
<1>1. /\ phase = "fill" /\ layout' = layout /\ named' = named /\ cached' = cached
      /\ outbound' = outbound
      /\ LayoutOK /\ CacheOK /\ MessageTypeOK
  BY DEF Fill, MessageInv
<1>2. /\ mData' \in Seq(Nat) /\ Len(mData') = Total
      /\ \A s \in Sensors : s[1] <= group /\ BehindData(s) => Arrived(s)'
  BY <1>1, FillArrives
<1>3. Groups = 1..Len(layout) /\ Len(layout) \in Nat \ {0} /\ group \in 1..Len(layout)
  BY <1>1, SensorsType DEF MessageTypeOK
<1>4. \/ group < Len(layout) /\ group' = group + 1 /\ phase' = phase
      \/ group = Len(layout) /\ group' = 1 /\ phase' = "unpack"
  BY <1>3 DEF Fill, NextGroup
<1>5. LayoutOK' /\ CacheOK'
  BY <1>1, LayoutStays, CacheStays
<1>6. MessageTypeOK'
  <2>1. group' \in 1..Len(layout) /\ phase' \in {"fill", "unpack"}
    BY <1>1, <1>3, <1>4
  <2> QED
    BY <1>1, <1>2, <1>3, <2>1, LayoutStays DEF MessageTypeOK
<1>7. ASSUME NEW s \in Sensors
      PROVE  s[1] \in 1..Len(layout)
  BY <1>1, <1>3, SensorsType
<1>8. CASE group < Len(layout)
  <2>1. group' = group + 1 /\ phase' = "fill"
    BY <1>1, <1>3, <1>4, <1>8
  <2>2. ASSUME NEW s \in Sensors, s[1] < group', BehindData(s)
        PROVE  Arrived(s)'
    <3>1. s[1] <= group
      BY <1>3, <1>7, <2>1, <2>2
    <3> QED
      BY <1>2, <2>2, <3>1
  <2>3. \A s \in Sensors' : s[1] < group' /\ BehindData(s)' => Arrived(s)'
    BY <1>1, <2>2, LayoutStays, CacheStays
  <2> QED
    BY <1>5, <1>6, <2>1, <2>3 DEF MessageInv
<1>9. CASE group = Len(layout)
  <2>1. group' = 1 /\ phase' = "unpack"
    BY <1>3, <1>4, <1>9
  <2>2. ASSUME NEW s \in Sensors, BehindData(s)
        PROVE  Arrived(s)' /\ ~(s[1] < group')
    <3>1. s[1] <= group /\ ~(s[1] < 1)
      BY <1>3, <1>7, <1>9
    <3> QED
      BY <1>2, <2>1, <2>2, <3>1
  <2>3. \A s \in Sensors' : BehindData(s)' => Arrived(s)' /\ ~(s[1] < group')
    BY <1>1, <2>2, LayoutStays, CacheStays
  <2> QED
    BY <1>5, <1>6, <2>1, <2>3 DEF MessageInv
<1> QED
  BY <1>3, <1>8, <1>9

(* What has arrived is read as it was packed.                              *)
LEMMA ArrivedIsRead ==
  ASSUME LayoutOK, CacheOK, NEW s \in Sensors, ReadStart(s) \in Nat, Arrived(s)
  PROVE  Unpacked(s) = cached[s]
<1> DEFINE data == cached[s].data
           start == ReadStart(s)
           len == Len(cached[s].data)
           size == DataSize(s)
           found == SubSeq(mData, start + 3, start + 2 + size)
<1>1. /\ cached[s] = [status |-> cached[s].status, data |-> data]
      /\ data \in Seq(Nat)
      /\ data = <<>> \/ len = size
  BY DEF CacheOK
<1>2. len \in Nat /\ size \in Nat /\ start \in Nat
  BY <1>1, SensorsType
<1>3. /\ Len(Packed(s)) = 2 + len
      /\ Packed(s)[1] = cached[s].status /\ Packed(s)[2] = len
      /\ \A j \in 1..len : Packed(s)[2 + j] = data[j]
  BY PackedType
<1>4. \A j \in 1..2 + len : mData[start + j] = Packed(s)[j]
  BY <1>3 DEF Arrived, StandsAt
<1>5. Unpacked(s) = [status |-> mData[start + 1],
                     data |-> IF mData[start + 2] # 0 THEN found ELSE <<>>]
  BY DEF Unpacked
<1> HIDE DEF start, size, found
<1>6. mData[start + 1] = cached[s].status /\ mData[start + 2] = len
  <2>1. 1 \in 1..2 + len /\ 2 \in 1..2 + len
    BY <1>2
  <2> QED
    BY <1>3, <1>4, <2>1
<1>7. CASE data = <<>>
  <2>1. len = 0
    BY <1>7
  <2> QED
    BY <1>1, <1>5, <1>6, <1>7, <2>1
<1>8. CASE data # <<>>
  <2>1. len # 0 /\ len = size
    BY <1>1, <1>8
  <2> HIDE DEF len, data
  <2>2. ASSUME NEW j \in 1..len
        PROVE  mData[start + 3 + j - 1] = data[j]
    <3>1. 2 + j \in 1..2 + len /\ start + 3 + j - 1 = start + (2 + j)
      BY <1>2
    <3>2. mData[start + (2 + j)] = Packed(s)[2 + j]
      BY <1>4, <3>1
    <3> QED
      BY <1>3, <3>1, <3>2
  <2>3. /\ found \in Seq(Nat) /\ Len(found) = len
        /\ \A j \in 1..len : found[j] = mData[start + 3 + j - 1]
    <3> DEFINE m == start + 3
               k == start + 2 + size
    <3>1. m \in Int /\ k \in Int /\ m <= k /\ k - m + 1 = len
      BY <1>2, <2>1
    <3>2. ASSUME NEW i \in m..k
          PROVE  mData[i] \in Nat
      <4>1. i - m + 1 \in 1..len /\ start + 3 + (i - m + 1) - 1 = i
        BY <1>2, <2>1
      <4>2. mData[i] = data[i - m + 1]
        BY <2>2, <4>1
      <4> QED
        BY <1>1, <4>1, <4>2 DEF len, data
    <3> HIDE DEF m, k
    <3>3. /\ SubSeq(mData, m, k) \in Seq(Nat)
          /\ Len(SubSeq(mData, m, k)) = IF m <= k THEN k - m + 1 ELSE 0
          /\ \A j \in 1..k - m + 1 : SubSeq(mData, m, k)[j] = mData[m + j - 1]
      BY <3>1, <3>2, SubSeqProperties
    <3> QED
      BY <3>1, <3>3 DEF found, m, k
  <2>5. found = data
    <3>1. data \in Seq(Nat) /\ Len(data) = len
      BY <1>1 DEF data, len
    <3>2. \A j \in 1..Len(found) : found[j] = data[j]
      BY <2>2, <2>3
    <3> QED
      BY <2>3, <3>1, <3>2, SeqEqual
  <2> QED
    BY <1>1, <1>2, <1>5, <1>6, <2>1, <2>5
<1> QED
  BY <1>7, <1>8

LEMMA MessageUnpack == MessageInv /\ Unpack => MessageInv'
<1> SUFFICES ASSUME MessageInv, Unpack
             PROVE  MessageInv'
  OBVIOUS
<1>1. /\ phase = "unpack" /\ layout' = layout /\ named' = named /\ cached' = cached
      /\ mData' = mData
      /\ LayoutOK /\ CacheOK /\ MessageTypeOK
      /\ \A s \in Sensors : BehindData(s) => Arrived(s) /\ (s[1] < group => Faithful(s))
      /\ outbound' = [outbound EXCEPT ![group] =
                        IF group \in named
                          THEN [i \in DOMAIN layout[group] |-> Unpacked(<<group, i>>)]
                          ELSE <<>>]
  BY DEF Unpack, MessageInv
<1>2. Groups = 1..Len(layout) /\ Len(layout) \in Nat \ {0} /\ group \in 1..Len(layout)
  BY <1>1, SensorsType DEF MessageTypeOK
<1>3. \/ group < Len(layout) /\ group' = group + 1 /\ phase' = phase
      \/ group = Len(layout) /\ group' = 1 /\ phase' = "sent"
  BY <1>2 DEF Unpack, NextGroup
<1>4. LayoutOK' /\ CacheOK'
  BY <1>1, LayoutStays, CacheStays
<1>5. DOMAIN outbound = Groups /\ DOMAIN outbound' = Groups
  BY <1>1 DEF MessageTypeOK
<1>6. MessageTypeOK'
  <2>1. group' \in 1..Len(layout) /\ phase' \in {"unpack", "sent"}
    BY <1>1, <1>2, <1>3
  <2> QED
    BY <1>1, <1>2, <1>5, <2>1, LayoutStays DEF MessageTypeOK
<1>7. ASSUME NEW s \in Sensors
      PROVE  /\ s[1] \in 1..Len(layout) /\ s[2] \in DOMAIN layout[s[1]]
             /\ s = <<s[1], s[2]>>
  BY <1>1, <1>2, SensorsType
<1>8. ASSUME NEW s \in Sensors, BehindData(s), s[1] <= group
      PROVE  s[1] \in named => outbound'[s[1]][s[2]] = cached[s]
  <2>1. CASE s[1] < group
    <3>1. Faithful(s)
      BY <1>1, <1>8, <2>1
    <3>2. outbound'[s[1]] = outbound[s[1]]
      BY <1>1, <1>2, <1>5, <1>7, <2>1
    <3> QED
      BY <3>1, <3>2 DEF Faithful
  <2>2. CASE s[1] = group
    <3> SUFFICES ASSUME s[1] \in named
                 PROVE  outbound'[s[1]][s[2]] = cached[s]
      OBVIOUS
    <3>1. outbound'[group] = [i \in DOMAIN layout[group] |-> Unpacked(<<group, i>>)]
      BY <1>1, <1>2, <1>5, <2>2
    <3>2. outbound'[s[1]][s[2]] = Unpacked(s)
      BY <1>7, <2>2, <3>1
    <3>3. ReadStart(s) \in Nat
      <4>1. PICK k \in Nat : ReadStart(s) = Offset(s[1]) + k
        <5>1. \A t \in Before(<<s[1], s[2]>>) : HasData(t)
          BY <1>7, <1>8 DEF BehindData
        <5>2. s[1] \in Groups /\ s[2] \in 1..Len(layout[s[1]])
          BY <1>1, SensorsType
        <5>3. \E k \in Nat : /\ ReadStart(<<s[1], s[2]>>) = Offset(s[1]) + k
                             /\ StandsAt(<<s[1], s[2]>>, k, PackedGroup(s[1]))
          BY <1>1, <5>1, <5>2, PackedBehindData
        <5> QED
          BY <1>7, <5>3
      <4>2. Offset(s[1]) \in Nat
        BY <1>1, <1>2, <1>7, GroupsAreApart
      <4> QED
        BY <4>1, <4>2
    <3>4. Unpacked(s) = cached[s]
      BY <1>1, <1>8, <3>3, ArrivedIsRead
    <3> QED
      BY <3>2, <3>4
  <2> QED
    BY <1>2, <1>7, <1>8, <2>1, <2>2
<1>9. ASSUME NEW s \in Sensors, BehindData(s), s[1] <= group
      PROVE  Faithful(s)'
  BY <1>1, <1>8, <1>9 DEF Faithful
<1>10. ASSUME NEW s \in Sensors, BehindData(s)
       PROVE  Arrived(s)'
  <2>1. Arrived(s) /\ ReadStart(s)' = ReadStart(s) /\ Packed(s)' = Packed(s)
    BY <1>1, <1>10, LayoutStays, CacheStays
  <2> QED
    BY <1>1, <2>1 DEF Arrived, StandsAt
<1>11. CASE group < Len(layout)
  <2>1. group' = group + 1 /\ phase' = "unpack"
    BY <1>1, <1>2, <1>3, <1>11
  <2>2. ASSUME NEW s \in Sensors, s[1] < group', BehindData(s)
        PROVE  Faithful(s)'
    <3>1. s[1] <= group
      BY <1>2, <1>7, <2>1, <2>2
    <3> QED
      BY <1>9, <2>2, <3>1
  <2>3. \A s \in Sensors' :
          BehindData(s)' => Arrived(s)' /\ (s[1] < group' => Faithful(s)')
    BY <1>1, <1>10, <2>2, LayoutStays, CacheStays
  <2> QED
    BY <1>4, <1>6, <2>1, <2>3 DEF MessageInv
<1>12. CASE group = Len(layout)
  <2>1. group' = 1 /\ phase' = "sent"
    BY <1>2, <1>3, <1>12
  <2>2. ASSUME NEW s \in Sensors, BehindData(s)
        PROVE  Faithful(s)'
    <3>1. s[1] <= group
      BY <1>2, <1>7, <1>12
    <3> QED
      BY <1>9, <2>2, <3>1
  <2>3. \A s \in Sensors' : BehindData(s)' => Faithful(s)'
    BY <1>1, <2>2, LayoutStays, CacheStays
  <2> QED
    BY <1>4, <1>6, <2>1, <2>3 DEF MessageInv
<1> QED
  BY <1>2, <1>11, <1>12

LEMMA MessageKeepsInv == MessageInv /\ [MessageNext]_messageVars => MessageInv'
<1> SUFFICES ASSUME MessageInv, [MessageNext]_messageVars
             PROVE  MessageInv'
  OBVIOUS
<1>1. CASE Sent
  <2>1. /\ phase' = "update" /\ layout' = layout /\ group' = group /\ named' = named
        /\ cached' = cached /\ mData' = mData /\ outbound' = outbound
    BY <1>1 DEF Sent
  <2>2. LayoutOK' /\ CacheOK'
    BY <2>1, LayoutStays, CacheStays DEF MessageInv
  <2>3. MessageTypeOK'
    BY <2>1, LayoutStays DEF MessageTypeOK, MessageInv
  <2> QED
    BY <2>1, <2>2, <2>3 DEF MessageInv
<1>2. CASE UNCHANGED messageVars
  <2>1. /\ phase' = phase /\ layout' = layout /\ group' = group /\ named' = named
        /\ cached' = cached /\ mData' = mData /\ outbound' = outbound
    BY <1>2 DEF messageVars
  <2>2. LayoutOK' /\ CacheOK'
    BY <2>1, LayoutStays, CacheStays DEF MessageInv
  <2>3. MessageTypeOK'
    BY <2>1, LayoutStays DEF MessageTypeOK, MessageInv
  <2>4. \A s : /\ Faithful(s)' = Faithful(s)
               /\ Arrived(s)' = Arrived(s)
    <3>1. \A s : Faithful(s)' = Faithful(s)
      BY <2>1 DEF Faithful
    <3>2. ASSUME NEW s
          PROVE  Arrived(s)' = Arrived(s)
      <4>1. ReadStart(s)' = ReadStart(s) /\ Packed(s)' = Packed(s)
        BY <2>1, LayoutStays, CacheStays
      <4> QED
        BY <2>1, <4>1 DEF Arrived, StandsAt
    <3> QED
      BY <3>1, <3>2
  <2>5. Sensors' = Sensors /\ \A s : BehindData(s)' = BehindData(s)
    BY <2>1, LayoutStays, CacheStays
  <2> QED
    BY <2>1, <2>2, <2>3, <2>4, <2>5 DEF MessageInv
<1> QED
  BY <1>1, <1>2, MessageUpdate, MessageFill, MessageUnpack DEF MessageNext

LEMMA MessageInvHolds == MessageSpec => []MessageInv
<1> QED
  BY MessageStarts, MessageKeepsInv, PTL DEF MessageSpec

(* No sensor writes beyond the array, and the array keeps its size, for    *)
(* any groups of any kinds of sensors: the places of the sensors add up to *)
(* TOTAL_RAW_DATA_SIZE (sensor_data_message.cpp:10-19,                     *)
(* sensor_group.cpp:37-61).                                                *)
THEOREM NoSensorWritesBeyond == MessageSpec => []MessageTypeOK
<1>1. MessageInv => MessageTypeOK
  BY DEF MessageInv
<1> QED
  BY <1>1, MessageInvHolds, PTL

(* A message says of every sensor whose predecessors in the group all have *)
(* data exactly what core 1 cached of it in this sweep, for any groups of  *)
(* any kinds of sensors, and whatever an earlier sweep left in the array   *)
(* (sensor_group.cpp:48-114, sensor_data_message.cpp:21-45).               *)
THEOREM FaithfulBehindData == MessageSpec => []RoundTripBehindData
<1>1. MessageInv => RoundTripBehindData
  BY DEF MessageInv, RoundTripBehindData, BehindData, HasData
<1> QED
  BY <1>1, MessageInvHolds, PTL

============================================================================
