---------------------------- MODULE DeviceClock ----------------------------
(***************************************************************************)
(* The time of day at the spa as a SpaClient knows it.  A status update    *)
(* carries an hour and a minute and no date; the client keeps how far they *)
(* are from the clock of its host (_time_offset), reckons the time of the  *)
(* spa from that (get_current_time()), and dates faults by it: an entry of *)
(* the fault log has a time of day and says how many days ago it was.      *)
(*                                                                         *)
(* Clocks count moments from a midnight; PerMinute of them make a minute,  *)
(* Minutes minutes a day.  The spa counts its days, and sends no date.     *)
(***************************************************************************)
EXTENDS Integers, FiniteSets

CONSTANTS PerMinute, Minutes,
          Leads,     \* by how many moments the clock of the spa may lead at first
          Shifts,    \* by how many moments the clock of the host may be moved
          Others,    \* what else a status update says
          Entries,   \* the entries of the fault log that the application asks for
          None,
          MaxTime,   \* bounds on the time that passes,
          MaxDelay,  \*   on how long a message is under way,
          MaxFaults, \*   on the faults,
          MaxSets    \*   and on how often a clock is set

\* A status update, of the `date` on which it was sent, which it does not carry,
\* and an entry of the fault log, about the minute `at`; `age` is how long they
\* have been under way, and `valid` whether the clock has been set meanwhile.  A
\* time that is None is an hour and a minute that do not exist.
Times  == (0 .. Minutes - 1) \cup {None}
Status == Times \X Others
Report == [status : Status, date : Int, age : 0 .. MaxDelay, valid : BOOLEAN]
Answer == [days : Int, time : Times, at : Int, date : Int, age : 0 .. MaxDelay]

ASSUME ClockAssumption ==
  /\ {PerMinute, Minutes} \subseteq Nat \ {0}
  /\ Leads \subseteq Int /\ Shifts \subseteq Int /\ Entries \subseteq Int
  /\ {MaxTime, MaxDelay, MaxFaults, MaxSets} \subseteq Nat
  /\ None \notin Int /\ None \notin Status /\ None \notin Answer

VARIABLES
  host,     \* the clock of the host
  device,   \* the clock of the spa
  faults,   \* the minutes at which the spa had a fault
  report,   \* the status update under way
  asked,    \* whether the spa has been asked for an entry of its fault log
  answer,   \* the fault log entry under way
  hears,    \* whether the connection's listener is alive
  previous, \* self._previous_status
  offset,   \* self._time_offset, in minutes
  fault,    \* self._fault.fault_datetime, in minutes
  loaded,   \* whether self._configuration_loaded is set
  known,    \* what the update behind the offset is worth (history)
  passed, sets \* the time that passed, how often a clock was set

clocks == <<host, device, faults>>
client == <<previous, offset, fault, loaded>>
vars   == <<host, device, faults, report, asked, answer, hears, previous, offset, fault, loaded,
            known, passed, sets>>

Day == PerMinute * Minutes
Minute(moment) == moment \div PerMinute
TimeOfDay(minute) == minute % Minutes
Date(minute) == minute \div Minutes

TypeOK ==
  /\ {host, device} \subseteq Int /\ faults \subseteq Int
  /\ report \in Report \cup {None} /\ answer \in Answer \cup {None}
  /\ previous \in Status \cup {None}
  /\ offset \in 1 - Minutes .. Minutes - 1
  /\ fault \in Int \cup {None}
  /\ asked \in BOOLEAN /\ hears \in BOOLEAN
  /\ loaded \in BOOLEAN /\ (loaded => previous # None)
  /\ known \in [late : 0 .. MaxDelay, apart : Int] \cup {None}

-----------------------------------------------------------------------------
(* The client.                                                             *)

\* get_current_time()
CurrentTime == host + offset * PerMinute

\* The offset is a difference of two times of the day that it is at the host.
OffsetTo(minute) == minute - TimeOfDay(Minute(host))

\* _parse_status_update(): an update like the one before is not looked at.
TakeStatus ==
  /\ hears /\ report # None
  /\ report' = None
  /\ \/ /\ report.status = previous
        /\ UNCHANGED <<previous, offset, known>>
     \/ /\ report.status # previous /\ report.status[1] # None
        /\ previous' = report.status
        /\ offset' = OffsetTo(report.status[1])
        /\ known' = IF report.valid
                    THEN [late |-> report.age, apart |-> Date(Minute(host)) - report.date]
                    ELSE None
  /\ UNCHANGED <<clocks, asked, answer, hears, fault, loaded, passed, sets>>

\* What a message is parsed for raises: the listener ends, nothing is read any more.
ListenerEnds ==
  /\ hears /\ hears' = FALSE
  /\ report' = None /\ answer' = None
  /\ UNCHANGED <<clocks, asked, offset, fault, loaded, known, passed, sets>>

\* replace() raises, after the update has been stored.
StatusRaises ==
  /\ report # None
  /\ report.status # previous /\ report.status[1] = None
  /\ previous' = report.status
  /\ ListenerEnds

\* Mutants of Reprocess: it takes the time again; it needs no update before.
ReprocessTime ==
  /\ hears /\ previous # None /\ previous[1] # None
  /\ loaded' = TRUE
  /\ offset' = OffsetTo(previous[1])
  /\ UNCHANGED <<clocks, report, asked, answer, hears, previous, fault, known, passed, sets>>
ReprocessNothing ==
  /\ hears
  /\ loaded' = TRUE
  /\ UNCHANGED <<clocks, report, asked, answer, hears, previous, offset, fault, known, passed, sets>>

\* The last part of the configuration arrives: the last update is parsed once
\* more, and says nothing new of the time, which may not exist.
Reprocess ==
  /\ hears /\ previous # None
  /\ loaded' = TRUE
  /\ UNCHANGED <<clocks, report, asked, answer, hears, previous, offset, fault, known, passed, sets>>

\* Mutant of DateOfFault: the time of the host.
DateOfFaultAtHost(entry) == (Date(Minute(host)) - entry.days) * Minutes + entry.time

\* _parse_fault_log() and FaultLog.__post_init__()
DateOfFault(entry) == (Date(Minute(CurrentTime)) - entry.days) * Minutes + entry.time
TakeFault ==
  /\ hears /\ answer # None /\ answer.time # None
  /\ fault' = DateOfFault(answer)
  /\ answer' = None
  /\ UNCHANGED <<clocks, report, asked, hears, previous, offset, loaded, known, passed, sets>>

\* time() raises: there is no new fault.
FaultRaises ==
  /\ answer # None /\ answer.time = None
  /\ ListenerEnds
  /\ UNCHANGED previous

\* A new connection has a new listener.
Reconnect ==
  /\ ~hears /\ hears' = TRUE
  /\ asked' = FALSE
  /\ UNCHANGED <<clocks, client, report, answer, known, passed, sets>>

-----------------------------------------------------------------------------
(* The spa, and time.                                                      *)

\* (What a client does not hear any more is left out.)
SendStatus(other) ==
  /\ hears /\ report = None
  /\ \E time \in {TimeOfDay(Minute(device)), None} :
       report' = [status |-> <<time, other>>, date |-> Date(Minute(device)),
                  age |-> 0, valid |-> TRUE]
  /\ UNCHANGED <<clocks, client, asked, answer, hears, known, passed, sets>>

Fault ==
  /\ Cardinality(faults) < MaxFaults
  /\ faults' = faults \cup {Minute(device)}
  /\ UNCHANGED <<host, device, report, asked, answer, hears, client, known, passed, sets>>

\* request_fault_log() of the application: one of the 24 entries, or 255 for the
\* last one.  Any other number is a ValueError, and asks for nothing.
RequestFault(entry) ==
  /\ ~asked
  /\ entry \in 0 .. 23 \cup {255}
  /\ asked' = TRUE
  /\ UNCHANGED <<clocks, report, answer, hears, client, known, passed, sets>>

\* The spa answers with one of its faults; `at` is what the time and the number of
\* days stand for.
SpaAnswers(at) ==
  /\ hears /\ asked /\ answer = None
  /\ at \in faults
  /\ asked' = FALSE
  /\ \E time \in {TimeOfDay(at), None} :
       answer' = [days |-> Date(Minute(device)) - Date(at), time |-> time,
                  at |-> at, date |-> Date(Minute(device)), age |-> 0]
  /\ UNCHANGED <<clocks, report, hears, client, known, passed, sets>>

Aged(message) == IF message = None THEN None ELSE [message EXCEPT !.age = @ + 1]
Tick ==
  /\ passed < MaxTime
  /\ \A m \in {report, answer} : m # None => m.age < MaxDelay
  /\ passed' = passed + 1
  /\ host' = host + 1 /\ device' = device + 1
  /\ report' = Aged(report) /\ answer' = Aged(answer)
  /\ UNCHANGED <<faults, asked, hears, client, known, sets>>

\* A clock is set: of what is under way or was taken in before, nothing is known.
Set ==
  /\ sets < MaxSets
  /\ sets' = sets + 1
  /\ known' = None
  /\ UNCHANGED <<faults, asked, answer, hears, client, passed>>

\* ... at the spa, or by set_time() of any client, to a minute of the same day.
SetDevice(minute) ==
  /\ Set
  /\ device' = (Date(Minute(device)) * Minutes + minute) * PerMinute
  /\ report' = IF report = None THEN None ELSE [report EXCEPT !.valid = FALSE]
  /\ UNCHANGED host

\* ... at the host, which may change its zone or begin or end its summer time.
SetHost(shift) ==
  /\ Set
  /\ host' = host + shift
  /\ UNCHANGED <<device, report>>

-----------------------------------------------------------------------------
Init ==
  /\ host = Day /\ \E lead \in Leads : device = Day + lead
  /\ faults = {} /\ report = None /\ asked = FALSE /\ answer = None /\ hears = TRUE
  /\ previous = None /\ offset = 0 /\ fault = None /\ loaded = FALSE
  /\ known = None /\ passed = 0 /\ sets = 0

Next ==
  \/ TakeStatus \/ StatusRaises \/ Reprocess \/ TakeFault \/ FaultRaises \/ Reconnect
  \/ Fault \/ Tick
  \/ \E other \in Others : SendStatus(other)
  \/ \E entry \in Entries : RequestFault(entry)
  \/ \E at \in faults : SpaAnswers(at)
  \/ \E minute \in 0 .. Minutes - 1 : SetDevice(minute)
  \/ \E shift \in Shifts : SetHost(shift)

Spec == Init /\ [][Next]_vars

-----------------------------------------------------------------------------
(* Properties.                                                             *)

\* Once an update has been parsed, get_current_time() tells the time of day at
\* the spa: it is less than a minute ahead, and behind by less than a minute and
\* what the update took to arrive, for as long as nobody sets a clock, and
\* whatever is parsed again, skipped as a repetition, or stored and not taken in
\* because its time does not exist (client.py:689, :699, :700).  The date is wrong
\* by as many days as the dates were apart when it came.
TellsTimeOfDay ==
  known # None =>
    CurrentTime - device - known.apart * Day \in 1 - PerMinute - known.late .. PerMinute - 1

\* A fault that is taken in is dated on the day it happened by the calendar of the
\* spa, provided that host and spa were on the same date when the update behind the
\* offset was taken in, and that midnight is neither near when the entry is, nor was
\* passed since it was sent: the offset has no date, and the entry counts its days
\* from when it was sent (control.py:239).
AwayFromMidnight ==
  /\ device % Day \in known.late + PerMinute .. Day - PerMinute
  /\ Date(Minute(device)) = answer.date
DatesFaults ==
  [][answer # None /\ answer' = None /\ hears' /\ known # None /\ known.apart = 0 /\ AwayFromMidnight
       => fault' = answer.at]_vars
=============================================================================
