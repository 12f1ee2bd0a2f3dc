---------------------------- MODULE SpaSettings ----------------------------
(***************************************************************************)
(* The settings of a spa (target temperature, temperature range and unit,  *)
(* clock), the calls that set them, and what a status update tells of them *)
(* and of the controls.  A call computes its message from what was last    *)
(* reported, in one run of the event loop, and nothing says whether the    *)
(* spa got it.                                                             *)
(*                                                                         *)
(* That every control shows the last status update is the subject of       *)
(* SpaConfiguration; what it then shows is StateOf of that update.         *)
(***************************************************************************)
EXTENDS StatusLayout, FiniteSets

CONSTANTS Reports,      \* the status updates that the spa may start with
          Device,       \* its device configuration
          Limits,       \* its limits, in degrees Fahrenheit, by range
          Temperatures, \* that callers ask for, in halves of a degree
          Clocks,       \* pairs of an hour and a minute
          None,
          MaxRequests, \* bounds on what is on its way to the spa,
          MaxReports,  \*   and back, and on what the environment does
          MaxEvents,   \*   calls, and changes of settings at the spa, or else
          MaxTurns,    \*   controls turned at the spa (not both in one behaviour),
          MaxDrops     \*   and connections lost

ASSUME SettingsAssumption ==
  /\ Reports \subseteq [StatusBytes -> 0 .. 255]
  /\ Device \in [DeviceBytes -> 0 .. 255]
  /\ Limits \in [0 .. 1 -> [low : 0 .. 255, high : 0 .. 255]]
  /\ Temperatures \subseteq 0 .. 510
  /\ Clocks \subseteq (0 .. 23) \X (0 .. 59)
  /\ None \notin [StatusBytes -> 0 .. 255]
  /\ {MaxRequests, MaxReports, MaxEvents, MaxTurns, MaxDrops} \subseteq Nat

VARIABLES
  spa,      \* the status of the spa itself
  toSpa,    \* messages on their way
  toClient, \* reports on their way
  previous, \* self._previous_status, and with it all that was parsed from it
  limits,   \* self._low_range and self._high_range
  controls, \* self._controls
  goal,     \* what each setting should become by the calls made (history)
  used      \* how much of its bounds the environment has used

queues == <<toSpa, toClient>>
client == <<previous, limits, controls>>
vars   == <<spa, toSpa, toClient, previous, limits, controls, goal, used>>

Fields == {"unit", "range", "target", "hour", "minute", "is24"}
Bounds == {"event", "turn", "drop"}

\* What setup parameters replace, and what the client has before any status.
DefaultLimits == [r \in 0 .. 1 |-> IF r = 0 THEN [low |-> 50, high |-> 99]
                                            ELSE [low |-> 80, high |-> 104]]
Known == IF previous = None THEN [p \in StatusBytes |-> 0] ELSE previous

Status == [StatusBytes -> 0 .. 255]

\* What is sent either way.
Message == [kind : {"temperature"}, value : 0 .. 255] \cup [kind : {"range"}]
             \cup [kind : {"unit"}, value : {"fahrenheit", "celsius"}]
             \cup [kind : {"time"}, hour : 0 .. 255, minute : 0 .. 255, is24 : BOOLEAN]
Report  == [kind : {"status"}, data : Status] \cup [kind : {"setup", "device"}]

TypeOK ==
  /\ spa \in Status
  /\ toSpa \in Seq(Message)
  /\ toClient \in Seq(Report)
  /\ previous \in Status \cup {None}
  /\ limits \in {DefaultLimits, Limits}
  /\ \A c \in controls : StateOf(c, Known) \in 0 .. 3
  /\ DOMAIN goal = Fields
  /\ used \in [Bounds -> Nat]

Spend(kind, limit) == used[kind] < limit /\ used' = [used EXCEPT ![kind] = @ + 1]

\* The settings that the spa changes on a message.
Changes == [temperature |-> {"target"}, range |-> {"range"}, unit |-> {"unit", "target"},
            time |-> {"hour", "minute", "is24"}]

\* The client knows the setting as it will be when its next message arrives.
Current(f) ==
  /\ SettingsIn(Known)[f] = SettingsIn(spa)[f]
  /\ \A i \in DOMAIN toSpa : f \notin Changes[toSpa[i].kind]

Void(fields) == goal' = [f \in Fields |-> IF f \in fields THEN None ELSE goal[f]]

\* A call expects the settings in DOMAIN sets to become what it says, if the
\* client knew those in reads.
Expect(sets, reads) ==
  goal' = [f \in Fields |-> IF f \notin DOMAIN sets THEN goal[f]
                            ELSE IF \A r \in reads[f] : Current(r) THEN sets[f] ELSE None]

\* send_message()
Sends(message) ==
  /\ Len(toSpa) < MaxRequests
  /\ toSpa' = Append(toSpa, message)

Calls ==
  /\ used["turn"] = 0 /\ Spend("event", MaxEvents)
  /\ UNCHANGED <<spa, toClient, client>>

----------------------------------------------------------------------------
(* The setters *)

\* temperature_minimum and temperature_maximum, in halves of a degree.
Minimum == LET low == limits[TemperatureRange(Known)].low
           IN  IF Unit(Known) = "celsius" THEN ToCelsius(low) ELSE 2 * low
Maximum == LET high == limits[TemperatureRange(Known)].high
           IN  IF Unit(Known) = "celsius" THEN ToCelsius(high) ELSE 2 * high

\* Mutant of Encoded: degrees are sent in either unit.
EncodedInDegrees(t) == t \div 2

\* The byte that stands for t halves of a degree in the unit last reported.
Encoded(t) == IF Unit(Known) = "celsius" THEN t ELSE t \div 2

\* set_temperature(): whatever is out of range raises ValueError.  Degrees
\* Fahrenheit lose their fraction.
SetTemperature == \E t \in Temperatures :
  /\ Calls
  /\ Minimum <= t /\ t <= Maximum
  /\ Sends([kind |-> "temperature", value |-> Encoded(t)])
  /\ Expect([target |-> IF Unit(spa) = "celsius" THEN t ELSE 2 * (t \div 2)],
            [target |-> {"unit"}])

\* set_temperature_range(): a toggle, unless the range is there already.
SetTemperatureRange == \E range \in 0 .. 1 :
  /\ Calls
  /\ IF TemperatureRange(Known) = range THEN UNCHANGED toSpa
                             ELSE Sends([kind |-> "range"])
  /\ Expect([range |-> range], [range |-> {"range"}])

\* set_temperature_unit()
SetTemperatureUnit == \E unit \in {"fahrenheit", "celsius"} :
  /\ Calls
  /\ Sends([kind |-> "unit", value |-> unit])
  /\ Expect([unit |-> unit, target |-> None], [unit |-> {}, target |-> {}])

SendsTime(hour, minute, is24) ==
  Sends([kind |-> "time", hour |-> hour, minute |-> minute, is24 |-> is24])

\* set_time(), with and without the format.
SetTime == \E clock \in Clocks, is24 \in BOOLEAN \cup {None} :
  /\ Calls
  /\ SendsTime(clock[1], clock[2], IF is24 = None THEN Is24(Known) ELSE is24)
  /\ Expect([hour |-> clock[1], minute |-> clock[2],
             is24 |-> IF is24 = None THEN Is24(spa) ELSE is24],
            [hour |-> {}, minute |-> {}, is24 |-> IF is24 = None THEN {"is24"} ELSE {}])

\* set_24_hour_time(): the clock is sent along, as it was last reported.  A time
\* that does not exist is a ValueError of set_time(), and nothing is sent.
Set24HourTime == \E is24 \in BOOLEAN :
  /\ Calls
  /\ Known[3] \in 0 .. 23 /\ Known[4] \in 0 .. 59
  /\ SendsTime(Known[3], Known[4], is24)
  /\ Expect([hour |-> spa[3], minute |-> spa[4], is24 |-> is24],
            [hour |-> {"hour"}, minute |-> {"minute"}, is24 |-> {}])

----------------------------------------------------------------------------
(* What comes in *)

\* Setup parameters and device configuration count once.
Receive ==
  /\ toClient # <<>>
  /\ toClient' = Tail(toClient)
  /\ LET m == Head(toClient)
     IN  \/ m.kind = "status" /\ previous' = m.data /\ UNCHANGED <<limits, controls>>
         \/ m.kind = "setup"  /\ limits' = Limits /\ UNCHANGED <<previous, controls>>
         \/ m.kind = "device" /\ controls' = ControlsOf(Device) /\ UNCHANGED <<previous, limits>>
  /\ UNCHANGED <<spa, toSpa, goal, used>>

----------------------------------------------------------------------------
(* The spa *)

Flip(data, p, bit) ==
  [data EXCEPT ![p] = IF Bits(@, bit, 1) = 0 THEN @ + 2^bit ELSE @ - 2^bit]

\* The spa takes a message for what its status would say.  How it converts its
\* target to another unit is not known here.
SpaTakes ==
  /\ toSpa # <<>>
  /\ toSpa' = Tail(toSpa)
  /\ LET m == Head(toSpa)
     IN  CASE m.kind = "temperature" -> spa' = [spa EXCEPT ![20] = m.value]
           [] m.kind = "range" -> spa' = Flip(spa, 10, 2)
           [] m.kind = "unit" ->
                IF m.value = Unit(spa) THEN UNCHANGED spa
                ELSE \E raw \in {r[20] : r \in Reports} :
                       spa' = Flip([spa EXCEPT ![20] = raw], 9, 0)
           [] m.kind = "time" ->
                spa' = IF m.is24 = Is24(spa)
                       THEN [spa EXCEPT ![3] = m.hour, ![4] = m.minute]
                       ELSE Flip([spa EXCEPT ![3] = m.hour, ![4] = m.minute], 9, 1)
  /\ UNCHANGED <<toClient, client, goal, used>>

\* (What the client ignores, because it has it already, is left out.)
SpaReports ==
  /\ Len(toClient) < MaxReports
  /\ \/ spa # previous /\ toClient' = Append(toClient, [kind |-> "status", data |-> spa])
     \/ limits # Limits /\ toClient' = Append(toClient, [kind |-> "setup"])
     \/ controls # ControlsOf(Device) /\ toClient' = Append(toClient, [kind |-> "device"])
  /\ UNCHANGED <<spa, toSpa, client, goal, used>>

\* Somebody at the panel changes a setting, or time passes.  In another unit, a
\* temperature on its way is another one.
Touch ==
  /\ used["turn"] = 0 /\ Spend("event", MaxEvents)
  /\ \/ \E bit \in 0 .. 1 : spa' = Flip(spa, 9, bit)
     \/ spa' = Flip(spa, 10, 2)
     \/ \E clock \in Clocks : spa' = [spa EXCEPT ![3] = clock[1], ![4] = clock[2]]
  /\ Void({f \in Fields : SettingsIn(spa)[f] # SettingsIn(spa')[f]}
            \cup (IF Unit(spa) = Unit(spa') THEN {} ELSE {"target"}))
  /\ UNCHANGED <<queues, client>>

\* Somebody turns a control, which changes a bit that it may or may not show.
Turn ==
  /\ used["event"] = 0 /\ Spend("turn", MaxTurns)
  /\ \E p \in ControlBytes \ {10}, bit \in 0 .. 7 : spa' = Flip(spa, p, bit)
  /\ UNCHANGED <<queues, client, goal>>

\* The connection is lost and made again.
Drop ==
  /\ Spend("drop", MaxDrops)
  /\ toSpa \o toClient # <<>>
  /\ toSpa' = <<>> /\ toClient' = <<>>
  /\ Void(UNION {Changes[toSpa[i].kind] : i \in DOMAIN toSpa})
  /\ UNCHANGED <<spa, client>>

----------------------------------------------------------------------------

Init ==
  /\ spa \in Reports
  /\ toSpa = <<>> /\ toClient = <<>>
  /\ previous = None
  /\ limits = DefaultLimits
  /\ controls = ControlsOf([p \in DeviceBytes |-> 0])
  /\ goal = [f \in Fields |-> None]
  /\ used = [b \in Bounds |-> 0]

Next ==
  \/ SetTemperature \/ SetTemperatureRange \/ SetTemperatureUnit
  \/ SetTime \/ Set24HourTime
  \/ Receive
  \/ SpaTakes \/ SpaReports \/ Touch \/ Turn \/ Drop

Spec == Init /\ [][Next]_vars

----------------------------------------------------------------------------
(* Properties *)

\* When the spa has taken all messages, each setting is what the last call on
\* it asked for, also if calls on different settings overlapped and each saw
\* old reports: unless the call read a setting that had changed, or somebody
\* else set it later.
InformedCallsArrive ==
  toSpa = <<>> => \A f \in Fields : goal[f] # None => SettingsIn(spa)[f] = goal[f]

\* A status that differs from the last one in one bit changes what at most one
\* control shows; but the bit of the circulation pump also shows as the first
\* blower's.
Shared == {[type |-> "circulation", index |-> 0], [type |-> "blower", index |-> 0]}

Changed(old, new) == {c \in controls : StateOf(c, old) # StateOf(c, new)}

OneBitOneControl ==
  [][previous # None /\ previous' # previous =>
       \A p \in ControlBytes, bit \in 0 .. 7 : previous' = Flip(previous, p, bit)
         => \/ Cardinality(Changed(previous, previous')) <= 1
            \/ p = 13 /\ bit = 1 /\ Changed(previous, previous') = Shared]_vars

\* A toggle turns one control, whatever the configuration makes.
CodesTellApart ==
  \A c, d \in controls : ToggleCode(c) = ToggleCode(d) => c = d

============================================================================
