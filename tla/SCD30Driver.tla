---------------------------- MODULE SCD30Driver ----------------------------
(***************************************************************************)
(* What passes between SCD30Sensor (sensors/sensor_types/scd30_sensor.cpp) *)
(* and the SCD30 itself: the control message that sets one of the sensor's *)
(* two calibrations, Sensirion's driver under it (hardware_interfaces/     *)
(* sensirion) and the transfers of I2CInterface.  PodSensors takes the     *)
(* same calls for ones that succeed or fail; here they are made of bytes,  *)
(* of which noise may garble some, and any transfer may fail.              *)
(*                                                                         *)
(* A number is the set of its bits, so that a byte is a subset of 0..7, a  *)
(* float the subset of 0..31 that represents it, and exclusive or is the   *)
(* symmetric difference.  A command is its name, without its two bytes,    *)
(* which have no checksum: a command that was acknowledged is the one that *)
(* was sent.  The sensor is external; what it does with a command, and the *)
(* checksum of a word, are those of docs/SCD30_Interface_Description.pdf   *)
(* (1.1.2, 1.1.3 and 1.3.1 to 1.3.8).                                      *)
(***************************************************************************)
EXTENDS Integers, FiniteSetsExt, SequencesExt

CONSTANTS
  Texts,         \* what is sent as the value of a control message, with its
                 \* meaning: hundredths, or NotANumber; digits and a point,
                 \* without the signs, exponents and names of numbers that
                 \* strtol and strtod know too
  Noise,         \* the sets of bits, of the 24 of a word, that noise changes:
                 \* bursts of up to eight, as many as the checksum has bits
  Measurements,  \* CO2 level, temperature and humidity, as floats
  Location,      \* the name of the sensor's location, as characters
  MaxCommands    \* bound on the control messages

NotANumber == -1

ASSUME SCD30DriverAssumption ==
  /\ Texts \subseteq [text : Seq(1..127), meaning : Nat \cup {NotANumber}]
  /\ \A noise \in Noise : \E k \in 0..16 : noise \subseteq k..k+7
  /\ \A m \in Measurements : m \in [1..3 -> SUBSET (0..31)]
  /\ Location \in Seq(1..127)
  /\ MaxCommands \in Nat

VARIABLES
  bus,        \* _I2C_INTERFACE is not null
  i2c,        \* the peripheral behind it is initialized
  todo,       \* the calls that the method of SCD30Sensor still makes
  written,    \* the command of the first of them is sent, the answer is not read
  mActive,
  typed,      \* the last control message
  commands,   \* how many there were
  answer,     \* what the last call returned, and what the sensor meant
  wire,       \* whether the last transfer was "clean" or "disturbed"
  settings,   \* of the SCD30, for each command that sets one
  measuring,
  data,       \* the last measurement
  ready,      \* it was not read yet
  received    \* the last command

driver == <<bus, i2c, mActive>>
message == <<typed, commands>>
device == <<settings, measuring, data, ready, received>>

driverVars == <<driver, todo, written, message, answer, wire, device>>

----------------------------------------------------------------------------
(* Numbers, and the bytes of the wire.                                     *)

Word(n) == {b \in 0..15 : (n \div 2^b) % 2 = 1}

Shifted(bits, by) == {b + by : b \in bits}

High(word) == {b - 8 : b \in word \ (0..7)}

Low(word) == word \cap (0..7)

CRC8_POLYNOMIAL == {0, 4, 5}

(* One of the eight rounds for a byte.                                     *)
Round(crc) ==
  LET shifted == Shifted(crc \ {7}, 1)
  IN  IF 7 \in crc THEN SymDiff(shifted, CRC8_POLYNOMIAL) ELSE shifted

EightRounds ==
  [crc \in SUBSET (0..7) |->
     Round(Round(Round(Round(Round(Round(Round(Round(crc))))))))]

generate_crc(bytes) ==
  FoldLeft(LAMBDA crc, byte : EightRounds[SymDiff(crc, byte)], 0..7, bytes)

(* A mutant of add_uint16_t_to_buffer: the word goes low byte first.       *)
LowByteFirst(word) ==
  <<Low(word), High(word), generate_crc(<<Low(word), High(word)>>)>>

(* What follows the command in the buffer: the word and its checksum.      *)
add_uint16_t_to_buffer(word) ==
  <<High(word), Low(word), generate_crc(<<High(word), Low(word)>>)>>

(* A mutant of CopyWord: the word is taken without a look at its checksum. *)
CopyUnchecked(result, i) ==
  [result EXCEPT !.buffer[2 * i - 1] = result.buffer[3 * i - 2],
                 !.buffer[2 * i] = result.buffer[3 * i - 1]]

(* One round of the loop of read_data_inplace, which checks the i-th word  *)
(* of the buffer and moves it to the front, over what was there.           *)
CopyWord(result, i) ==
  LET hi == result.buffer[3 * i - 2]
      lo == result.buffer[3 * i - 1]
  IN  IF result.error \/ generate_crc(<<hi, lo>>) # result.buffer[3 * i]
        THEN [result EXCEPT !.error = TRUE]
        ELSE [result EXCEPT !.buffer[2 * i - 1] = hi, !.buffer[2 * i] = lo]

read_data_inplace(bytes, expected_data_length) ==
  FoldLeft(CopyWord, [error |-> FALSE, buffer |-> bytes],
           [i \in 1..expected_data_length \div 2 |-> i])

bytes_to_uint16_t(bytes) == Shifted(bytes[1], 8) \cup bytes[2]

bytes_to_float(bytes, at) ==
  Shifted(bytes[at], 24) \cup Shifted(bytes[at + 1], 16)
    \cup Shifted(bytes[at + 2], 8) \cup bytes[at + 3]

(* What the caller of each of the functions that read is given.            *)
Decoded(command, bytes) ==
  CASE command = "data ready" -> <<bytes_to_uint16_t(bytes)>>
    [] command = "measurement" ->
         <<bytes_to_float(bytes, 1), bytes_to_float(bytes, 5),
           bytes_to_float(bytes, 9)>>
    [] command = "firmware version" -> <<bytes[1], bytes[2]>>

(***************************************************************************)
(* The functions of scd30_i2c.c: the command that each writes, the word    *)
(* that follows, and how many bytes it then expects.                       *)
(***************************************************************************)

Call(command, words, expected) ==
  [command |-> command, words |-> words, expected |-> expected,
   repeats |-> FALSE]

start_periodic_measurement(ambient_pressure) ==
  Call("start", <<ambient_pressure>>, 0)

stop_periodic_measurement == Call("stop", <<>>, 0)

set_measurement_interval(interval) ==
  Call("measurement interval", <<interval>>, 0)

force_recalibration(co2_ref_concentration) ==
  Call("recalibration", <<co2_ref_concentration>>, 0)

set_temperature_offset(temperature_offset) ==
  Call("temperature offset", <<temperature_offset>>, 0)

get_data_ready == Call("data ready", <<>>, 2)

read_measurement_data == Call("measurement", <<>>, 12)

read_firmware_version == Call("firmware version", <<>>, 2)

(* get_data_ready until there is some, which its caller repeats on errors. *)
await_data_ready == [get_data_ready EXCEPT !.repeats = TRUE]

(***************************************************************************)
(* The transfers of I2CInterface, of what the SDK returns: a count, which  *)
(* is that of all bytes, or an error.                                      *)
(***************************************************************************)

PICO_ERROR_TIMEOUT == -1
PICO_ERROR_GENERIC == -2

SDKResults(length) == {PICO_ERROR_TIMEOUT, PICO_ERROR_GENERIC, length}

writeI2CData(response, bufferLen) ==
  CASE response = PICO_ERROR_GENERIC -> "I2C_RESPONSE_ERROR"
    [] response = PICO_ERROR_TIMEOUT -> "I2C_RESPONSE_TIMEOUT"
    [] response = bufferLen -> "I2C_RESPONSE_OK"
    [] OTHER -> "I2C_RESPONSE_INCOMPLETE"

readFromI2C(response) ==
  CASE response = PICO_ERROR_GENERIC -> "I2C_RESPONSE_ERROR"
    [] response = PICO_ERROR_TIMEOUT -> "I2C_RESPONSE_TIMEOUT"
    [] OTHER -> "I2C_RESPONSE_OK"

(* Whether these two return an error.                                      *)
hal_write(response, count) == writeI2CData(response, count) # "I2C_RESPONSE_OK"

hal_read(response) == readFromI2C(response) # "I2C_RESPONSE_OK"

----------------------------------------------------------------------------
(* The SCD30.                                                              *)

(* x^k, modulo the checksum's polynomial.                                  *)
Residue[k \in 0..23] ==
  IF k < 8 THEN {k}
  ELSE LET power == Shifted(Residue[k - 1], 1)
       IN  IF 8 \in power THEN SymDiff(power \ {8}, {0, 4, 5}) ELSE power

(* The checksum of a word that begins with 0xFF.                           *)
Checksum(word) ==
  FoldSet(LAMBDA b, sum : SymDiff(Residue[b + 8], sum), {},
          SymDiff(word, 8..15))

Sent(word) == <<High(word), Low(word), Checksum(word)>>

Floats(values) ==
  FlattenSeq([i \in 1..3 |-> <<Shifted(values[i] \ (0..15), -16),
                               values[i] \cap (0..15)>>])

FirmwareVersion == <<{0, 1}, {1, 6}>>

(* What the SCD30 answers to the last command, and its words.              *)
Told ==
  CASE received = "data ready" -> <<IF ready THEN {0} ELSE {}>>
    [] received = "measurement" -> data
    [] received = "firmware version" -> FirmwareVersion

Words ==
  CASE received = "data ready" -> Told
    [] received = "measurement" -> Floats(Told)
    [] received = "firmware version" ->
         <<Shifted(FirmwareVersion[1], 8) \cup FirmwareVersion[2]>>

(* A word's bytes after noise, which counts bits in the order of the wire. *)
Garbled(bytes, noise) ==
  [i \in DOMAIN bytes |->
     SymDiff(bytes[i], {b \in 0..7 : 8 * (i - 1) + 7 - b \in noise})]

(* The commands that set something.                                        *)
Settings == {"measurement interval", "recalibration", "temperature offset",
             "start"}

(* A command arrives, with the three bytes of its word if it has one; the  *)
(* SCD30 ignores one whose checksum is wrong.                              *)
Obey(command, bytes) ==
  LET word == Shifted(bytes[1], 8) \cup bytes[2]
      good == bytes[3] = Checksum(word)
  IN  /\ settings' = IF command \in Settings /\ good
                       THEN [settings EXCEPT ![command] = word] ELSE settings
      /\ measuring' = CASE command = "start" /\ good -> TRUE
                        [] command = "stop" -> FALSE
                        [] OTHER -> measuring
      /\ received' = command
      /\ UNCHANGED <<data, ready>>

(* The SCD30 has taken a measurement.                                      *)
Measure ==
  /\ measuring
  /\ data' \in Measurements
  /\ ready' = TRUE
  /\ UNCHANGED <<driver, todo, written, message, answer, wire, settings,
                 measuring, received>>

----------------------------------------------------------------------------
(* The value of a control message.                                         *)

MAX_COMPONENT_LENGTH == 8

IsDigit(char) == char \in 48..57

AUTOBLOOMER_TOPIC_NAME == <<65, 117, 116, 111, 66, 108, 111, 111, 109, 101, 114>>

(* What begins the topic of the sensor's group.                            *)
Topic == AUTOBLOOMER_TOPIC_NAME \o <<47>> \o Location \o <<47, 0>>

(* mCommandParams and the memory after it, which is mControlTopic: at most *)
(* eight characters of the text, filled with zeros but not ended by one.   *)
CommandParams(text) ==
  [i \in 1..MAX_COMPONENT_LENGTH |-> IF i <= Len(text) THEN text[i] ELSE 0]
    \o Topic

NumberOfDigits(chars) ==
  Min({i \in 1..Len(chars) : ~IsDigit(chars[i])}) - 1

strtol(chars) ==
  FoldLeft(LAMBDA value, char : 10 * value + char - 48, 0,
           SubSeq(chars, 1, NumberOfDigits(chars)))

(* The digit of a fraction, or zero after its end.                         *)
FractionDigit(chars, i) ==
  IF \A j \in NumberOfDigits(chars) + 2..i : IsDigit(chars[j])
    THEN chars[i] - 48 ELSE 0

(* In hundredths, of which no text has a fraction.                         *)
strtod(chars) ==
  LET point == NumberOfDigits(chars) + 1
  IN  100 * strtol(chars)
        + IF chars[point] = 46
            THEN 10 * FractionDigit(chars, point + 1)
                   + FractionDigit(chars, point + 2)
            ELSE 0

(* What SCD30_SET_FRC and SCD30_SET_TEMP_OFFSET set.                       *)
Calibrations == {"recalibration", "temperature offset"}

(* Whether strtol, or strtod, finds a number at all.                       *)
Converts(command, chars) ==
  \/ NumberOfDigits(chars) > 0
  \/ /\ command = "temperature offset"
     /\ chars[1] = 46 /\ IsDigit(chars[2])

(* The product of a double that is not exact and 100 may be just below the *)
(* whole number, and is cut off there; of one that does not fit 16 bits    *)
(* the language does not say what remains.                                 *)
OffsetWords(hundredths) ==
  CASE hundredths >= 2^16 -> {Word(0), Word(hundredths % 2^16), Word(2^16 - 1)}
    [] hundredths % 25 = 0 -> {Word(hundredths)}
    [] OTHER -> {Word(hundredths - 1), Word(hundredths)}

(* The words that a command may come to; the recalibration's is a long,    *)
(* of which 16 bits are passed on.                                         *)
CalibrationWords(command, chars) ==
  IF command = "recalibration" THEN {Word(strtol(chars) % 2^16)}
  ELSE OffsetWords(strtod(chars))

----------------------------------------------------------------------------
(* SCD30Sensor: the calls that its methods make.                           *)

startReadings == <<set_measurement_interval(Word(2)), start_periodic_measurement({})>>

(* Those that make no transfer.                                            *)
Step(name) == Call(name, <<>>, 0)

Steps == {"hal_init", "hal_free", "bounce power"}

doInitialization == <<Step("hal_init"), await_data_ready, read_firmware_version>>

(* A mutant of Reset: the bus is freed before the last command.            *)
ResetFreesFirst ==
  <<Step("hal_free"), stop_periodic_measurement, Step("bounce power")>>
    \o doInitialization

(* reset(), with its shutdown() and the power bounce.                      *)
Reset ==
  <<stop_periodic_measurement, Step("hal_free"), Step("bounce power")>>
    \o doInitialization

(* setTemperatureOffset or setForcedRecalibrationValue.                    *)
Calibrate(command, word) ==
  <<stop_periodic_measurement,
    IF command = "recalibration" THEN force_recalibration(word)
    ELSE set_temperature_offset(word)>> \o startReadings

Nothing == [command |-> "none", error |-> FALSE, value |-> <<>>,
            told |-> [command |-> "none", value |-> <<>>]]

(* The sensor's power is on, and it is as its last use left it.            *)
DriverInit ==
  /\ bus = FALSE /\ i2c = FALSE
  /\ todo = doInitialization
  /\ written = FALSE
  /\ mActive = FALSE
  /\ typed = [command |-> "none", text |-> <<>>, meaning |-> NotANumber]
  /\ commands = 0
  /\ answer = Nothing
  /\ wire = "clean"
  /\ settings = [s \in Settings |-> {}]
  /\ measuring \in BOOLEAN
  /\ data \in Measurements
  /\ ready = FALSE
  /\ received = "none"

Calling(command) == todo # <<>> /\ Head(todo).command = command

(* A control message comes for an SCD30 between its updates.  A text that  *)
(* is not a number, or a sensor that is not active, ends it there.         *)
Command ==
  /\ todo = <<>>
  /\ commands < MaxCommands
  /\ \E command \in Calibrations, t \in Texts :
       /\ typed' = [command |-> command, text |-> t.text, meaning |-> t.meaning]
       /\ IF mActive /\ Converts(command, CommandParams(t.text))
            THEN \E word \in CalibrationWords(command, CommandParams(t.text)) :
                   todo' = Calibrate(command, word)
            ELSE UNCHANGED todo
  /\ commands' = commands + 1
  /\ UNCHANGED <<driver, written, answer, wire, device>>

(* doUpdate; Sensor::update initializes an inactive sensor again.          *)
Update ==
  /\ todo = <<>>
  /\ todo' = IF mActive THEN <<get_data_ready>> ELSE doInitialization
  /\ UNCHANGED <<driver, written, message, answer, wire, device>>

(* I2CInterface::resetSensorBus ends with the peripheral initialized.      *)
init_sensor_bus == i2c' = TRUE

resetSensorBus == i2c' = TRUE

hal_init ==
  /\ Calling("hal_init")
  /\ bus' = TRUE
  /\ init_sensor_bus
  /\ todo' = Tail(todo)
  /\ UNCHANGED <<mActive, written, message, answer, wire, device>>

hal_free ==
  /\ Calling("hal_free")
  /\ resetSensorBus
  /\ bus' = FALSE
  /\ todo' = Tail(todo)
  /\ UNCHANGED <<mActive, written, message, answer, wire, device>>

(* A measurement that was not read is lost with the power.                 *)
BouncePower ==
  /\ Calling("bounce power")
  /\ ready' = FALSE
  /\ todo' = Tail(todo)
  /\ UNCHANGED <<driver, written, message, answer, wire, settings, measuring,
                 data, received>>

(* The three outcomes of doUpdate's two calls.  A failure makes            *)
(* Sensor::update reset the sensor when its watchdog ran out.              *)
AfterDataReady(error, value) ==
  CASE error -> {<<>>, Reset}
    [] value = <<{}>> -> {<<>>}
    [] OTHER -> {<<read_measurement_data>>}

AfterMeasurement(error) == IF error THEN {<<>>, Reset} ELSE {<<>>}

(* What a reader's caller does with what it returned: the initialization   *)
(* repeats its wait, and the firmware's version shows it whether the       *)
(* sensor is active.                                                       *)
Returned(error, value) ==
  LET call == Head(todo)
  IN  /\ mActive' = IF call = read_firmware_version THEN ~error ELSE mActive
      /\ todo' \in
           CASE call = await_data_ready ->
                  {IF error \/ value = <<{}>> THEN todo ELSE Tail(todo)}
             [] call = read_firmware_version ->
                  {IF error THEN <<>> ELSE startReadings}
             [] call = get_data_ready -> AfterDataReady(error, value)
             [] call = read_measurement_data -> AfterMeasurement(error)

(* What a function of scd30_i2c.c writes behind the two bytes of its       *)
(* command.                                                                *)
Buffer(call) ==
  IF call.words = <<>> THEN <<>> ELSE add_uint16_t_to_buffer(Head(call.words))

(* A command is sent; a transfer that failed may have reached the sensor.  *)
(* The last of a function that reads nothing ends it, whether it failed or *)
(* not, since nobody looks at what it returns.                             *)
WriteCommand ==
  /\ todo # <<>> /\ Head(todo).command \notin Steps
  /\ ~written
  /\ LET call == Head(todo)
         length == 2 + Len(Buffer(call))
     IN  \E response \in SDKResults(length), reached \in BOOLEAN,
            noise \in {{}} \cup IF length > 2 THEN Noise ELSE {} :
           LET error == hal_write(response, length)
           IN  /\ reached \/ error
               /\ wire' = IF error \/ noise # {} THEN "disturbed" ELSE "clean"
               /\ IF reached
                    THEN Obey(call.command, Garbled(Buffer(call), noise))
                    ELSE UNCHANGED device
               /\ IF call.expected > 0 /\ error
                    THEN /\ answer' = [Nothing EXCEPT !.command = call.command,
                                                      !.error = TRUE]
                         /\ Returned(TRUE, <<>>)
                    ELSE /\ answer' = Nothing
                         /\ todo' = IF call.expected > 0 THEN todo ELSE Tail(todo)
                         /\ UNCHANGED mActive
               /\ written' = (call.expected > 0 /\ ~error)
  /\ UNCHANGED <<bus, i2c, message>>

(* The second half of a function that reads: the answer, unless that       *)
(* fails.  A measurement is gone once the sensor has sent it.              *)
ReadAnswer ==
  /\ written
  /\ LET call == Head(todo)
         size == 3 * (call.expected \div 2)
         frames == [i \in DOMAIN Words |-> Sent(Words[i])]
     IN  \E response \in SDKResults(size), at \in DOMAIN frames,
            noise \in {{}} \cup Noise :
           LET frame == [frames EXCEPT ![at] = Garbled(@, noise)]
               result == read_data_inplace(FlattenSeq(frame), call.expected)
               error == hal_read(response) \/ result.error
               value == IF error THEN <<>> ELSE Decoded(call.command, result.buffer)
           IN  /\ answer' = [command |-> call.command, error |-> error,
                             value |-> value,
                             told |-> [command |-> received, value |-> Told]]
               /\ wire' = IF hal_read(response) \/ noise # {}
                            THEN "disturbed" ELSE "clean"
               /\ Returned(error, value)
               /\ ready' \in IF received # "measurement" THEN {ready}
                             ELSE IF error THEN {ready, FALSE} ELSE {FALSE}
  /\ written' = FALSE
  /\ UNCHANGED <<bus, i2c, message, settings, measuring, data, received>>

DriverNext ==
  \/ Command \/ Update
  \/ hal_init \/ hal_free \/ BouncePower
  \/ WriteCommand \/ ReadAnswer
  \/ Measure

DriverSpec == DriverInit /\ [][DriverNext]_driverVars

----------------------------------------------------------------------------
DriverTypeOK ==
  /\ {bus, i2c, written, mActive, measuring, ready} \subseteq BOOLEAN
  /\ \A i \in DOMAIN todo : todo[i].words \in Seq(SUBSET (0..15))
  /\ commands \in 0..MaxCommands
  /\ wire \in {"clean", "disturbed"}
  /\ settings \in [Settings -> SUBSET (0..15)]
  /\ data \in Measurements

(* What a function of the driver returns as read is, bit for bit, what the *)
(* sensor answered to that very command, over failed transfers, a buffer   *)
(* that is compacted in place and noise in any of its words; and it fails  *)
(* only if the transfer did (sensirion_i2c.c:37-60, 266-294,               *)
(* scd30_i2c.c:151-194, 349-369).                                          *)
AnswersAreExact ==
  IF answer.error THEN wire = "disturbed"
  ELSE answer.told = [command |-> answer.command, value |-> answer.value]

(* The number that the last control message asks for, and the words that   *)
(* may stand for it: of an offset that is not exact as a binary fraction,  *)
(* also the one below.                                                     *)
AskedFor ==
  IF typed.command = "recalibration" THEN typed.meaning \div 100
  ELSE typed.meaning

AskedWords ==
  {Word(AskedFor)} \cup
    IF typed.command = "temperature offset" /\ AskedFor % 25 # 0
      THEN {Word(AskedFor - 1)} ELSE {}

Expressible ==
  /\ typed.meaning # NotANumber
  /\ Len(typed.text) <= MAX_COMPONENT_LENGTH
  /\ AskedFor < 2^16

(* What strtol, or strtod, makes of a text that both the parameter and 16  *)
(* bits can hold is the number that it means, or the one below of an       *)
(* offset that is cut off.                                                 *)
TextsMeanNumbers ==
  \A t \in Texts, command \in Calibrations :
    LET chars == CommandParams(t.text)
        asked == IF command = "recalibration" THEN t.meaning \div 100 ELSE t.meaning
    IN  Converts(command, chars) =>
          /\ t.meaning # NotANumber
          /\ Len(t.text) <= MAX_COMPONENT_LENGTH /\ asked < 2^16 =>
               CalibrationWords(command, chars) \subseteq
                 {Word(asked)} \cup
                   IF command = "temperature offset" /\ asked % 25 # 0
                     THEN {Word(asked - 1)} ELSE {}

(* The sensor's calibrations change only to the number of the last control *)
(* message for them, and do so when the transfer is clean, whatever noise  *)
(* and failures come between; but for texts of more than eight characters, *)
(* of which the first eight count, and numbers that do not fit 16 bits     *)
(* (sensor_control_message.cpp:24-33, scd30_sensor.cpp:99-133, 226-262).   *)
CalibrationIsWhatWasSent ==
  [][\A command \in Calibrations :
       LET sent == Calling(command) /\ todo' = Tail(todo)
       IN  /\ settings'[command] # settings[command] =>
                sent /\ typed.command = command /\ typed.meaning # NotANumber
           /\ sent /\ Expressible =>
                \/ settings'[command] \in AskedWords
                \/ wire' = "disturbed" /\ UNCHANGED settings]_driverVars

(* Every transfer and hal_free find a bus, and an initialized one, through *)
(* resets, initializations that are repeated and commands (the assertions  *)
(* of sensirion_pico_i2c_hal.c:79, 96 and 115).                            *)
TransfersHaveABus ==
  /\ todo # <<>> /\ Head(todo).command \notin {"hal_init", "bounce power"} => bus
  /\ bus => i2c

============================================================================
