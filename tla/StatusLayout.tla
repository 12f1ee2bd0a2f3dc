---------------------------- MODULE StatusLayout ----------------------------
(***************************************************************************)
(* The bytes of the messages that say what a spa has and does: which       *)
(* controls a device configuration makes, which bits of a status update    *)
(* each of them shows, which toggle code turns it, and which settings a    *)
(* status update holds.  A message is a function from the numbers of its   *)
(* bytes, as the code counts them, to their values.                        *)
(***************************************************************************)
EXTENDS Integers, Sequences

ControlBytes == {5, 10, 11, 12, 13, 14, 15}
StatusBytes  == ControlBytes \cup {3, 4, 9, 20}
DeviceBytes  == 0 .. 4

\* (byte >> offset) & mask
Bits(byte, offset, count) == (byte \div 2^offset) % 2^count

\* Mutant of ByteParser: nothing is masked.
ByteParserUnmasked(value, offset, count, bits) ==
  [i \in 1 .. count |-> value \div 2^((i - 1) * bits + offset)]

ByteParser(value, offset, count, bits) ==
  [i \in 1 .. count |-> Bits(value, (i - 1) * bits + offset, bits)]

----------------------------------------------------------------------------
(* Controls *)

\* How many states beyond "off" each control has that there may be.
OnStates(data) == [
  pump        |-> ByteParser(data[0], 0, 4, 2)
                    \o <<Bits(data[1], 0, 2), Bits(data[1], 6, 2),
                         Bits(data[1], 4, 2), Bits(data[1], 2, 2)>>,
  light       |-> ByteParser(data[2], 0, 4, 2),
  circulation |-> <<Bits(data[3], 7, 1)>>,
  blower      |-> ByteParser(data[3], 0, 2, 2),
  aux         |-> ByteParser(data[4], 0, 4, 1),
  mister      |-> ByteParser(data[4], 4, 3, 1)]

\* The controls, by type and index from 0, that there are by a configuration.
\* The heat mode and the temperature range are always there.
ControlsOf(data) ==
  {[type |-> "heat", index |-> 0], [type |-> "range", index |-> 0]}
    \cup UNION {{[type |-> t, index |-> i - 1] : i \in {j \in DOMAIN OnStates(data)[t] :
                                                         OnStates(data)[t][j] > 0}} :
                t \in DOMAIN OnStates(data)}

\* Mutant of StatesIn: misters and auxiliary outputs overlap.
StatesInOverlapping(data) == [
  range       |-> <<Bits(data[10], 2, 1)>>,
  light       |-> [i \in 1 .. 4 |-> ByteParser(data[14], 0, 4, 2)[i] \div 2],
  heat        |-> <<Bits(data[5], 0, 2)>>,
  pump        |-> ByteParser(data[11], 0, 4, 2) \o ByteParser(data[12], 0, 4, 2),
  circulation |-> <<Bits(data[13], 0, 2) \div 2>>,
  blower      |-> ByteParser(data[13], 1, 2, 2),
  mister      |-> ByteParser(data[15], 0, 3, 1),
  aux         |-> ByteParser(data[15], 2, 4, 1)]

\* The states that a status update gives for the controls of each type.
StatesIn(data) == [
  range       |-> <<Bits(data[10], 2, 1)>>,
  light       |-> [i \in 1 .. 4 |-> ByteParser(data[14], 0, 4, 2)[i] \div 2],
  heat        |-> <<Bits(data[5], 0, 2)>>,
  pump        |-> ByteParser(data[11], 0, 4, 2) \o ByteParser(data[12], 0, 4, 2),
  circulation |-> <<Bits(data[13], 0, 2) \div 2>>,
  blower      |-> ByteParser(data[13], 1, 2, 2),
  mister      |-> ByteParser(data[15], 0, 3, 1),
  aux         |-> ByteParser(data[15], 3, 4, 1)]

StateOf(control, data) == StatesIn(data)[control.type][control.index + 1]

\* CONTROL_TYPE_MAP with the values of ToggleItemCode.
FirstCode == [pump |-> 4, blower |-> 12, mister |-> 14, light |-> 17, aux |-> 22,
              circulation |-> 61, range |-> 80, heat |-> 81]

\* Mutant of ToggleCode: it forgets the index, as the heat mode may.
ToggleCodeOfType(control) == FirstCode[control.type]

ToggleCode(control) == FirstCode[control.type] + control.index

----------------------------------------------------------------------------
(* Settings *)

Unit(data) == IF Bits(data[9], 0, 1) = 0 THEN "fahrenheit" ELSE "celsius"
Is24(data) == Bits(data[9], 1, 1) = 1
TemperatureRange(data) == Bits(data[10], 2, 1)

\* Temperatures count in halves of a degree here.
TargetTemperature(data) == IF Unit(data) = "celsius" THEN data[20] ELSE 2 * data[20]

\* to_celsius(): the nearest half of a degree.
ToCelsius(fahrenheit) == (20 * (fahrenheit - 32) + 9) \div 18

\* What the status says of the settings that can be set.
SettingsIn(data) == [unit   |-> Unit(data), range |-> TemperatureRange(data),
                     target |-> TargetTemperature(data),
                     hour   |-> data[3], minute |-> data[4], is24 |-> Is24(data)]
=============================================================================
