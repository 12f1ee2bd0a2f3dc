--------------------------- MODULE FilterSchedule ---------------------------
(***************************************************************************)
(* The two filter cycles of a spa, and the client's record of them.  The   *)
(* protocol only knows a message that sets both cycles at once: a call     *)
(* that is about one cycle fills in the other from the client's record,    *)
(* and asks the spa for its new schedule afterwards.                       *)
(*                                                                         *)
(* Times count from midnight, in units of which Day make a day (the code's *)
(* unit is the minute; it sends hours and minutes apart).  Messages travel *)
(* in order, and are lost with the connection.                             *)
(***************************************************************************)
EXTENDS Integers, Sequences

CONSTANTS Day,        \* 24 hours
          Shortest,   \* 15 minutes
          Schedules,  \* the schedules that the spa may have been given
          Durations,  \* the durations that callers ask for
          Callers,    \* tasks that change the schedule
          Ask,        \* a request for the schedule
          None,
          MaxWire,    \* bounds: messages under way in either direction,
          MaxCalls,   \*   calls,
          MaxEvents,  \*   changes made at the spa and connections lost,
          MaxFaults   \*   answers with a time that does not exist

Cycles == {1, 2}
Times == 0 .. Day - 1
Lasts == 0 .. Day

\* start[n] and last[n] describe cycle n; only the second can be disabled.
Schedule == [start : [Cycles -> Times], last : [Cycles -> Lasts], on : BOOLEAN]

\* The client's record, and an answer of the spa: a start that is None is not
\* known, or is an hour and a minute that do not exist.
Record == [start : [Cycles -> Times \cup {None}], last : [Cycles -> Lasts], on : BOOLEAN]

ASSUME FilterAssumption ==
  /\ Day \in Nat \ {0} /\ Shortest \in 1 .. Day
  /\ Schedules \subseteq Schedule
  /\ Durations \subseteq Lasts
  /\ None \notin Int \cup BOOLEAN \cup Schedule /\ Ask \notin Schedule
  /\ {MaxWire, MaxCalls, MaxEvents, MaxFaults} \subseteq Nat

VARIABLES
  connected, \* the client's property
  hears,     \* whether the connection's listener is alive
  spa,       \* the schedule of the spa
  record,    \* the client's: _filter_cycle_1_start, ...
  loaded,    \* _filter_cycle_loaded
  toSpa,     \* messages on their way: schedules, and requests
  toClient,  \* answers on their way
  asking,    \* the calls that have yet to send their request
  wanted,    \* the schedule that all calls together ask for, None if they
             \*   are not alone, or before the first
  informed,  \* whether they all knew the spa's schedule
  touched,   \* whether the spa or the network acted since the spa's last answer
  used       \* how much of its bounds the environment has used

history == <<wanted, informed, touched>>
vars == <<connected, hears, spa, record, loaded, toSpa, toClient, asking, wanted, informed,
          touched, used>>

Bounds == {"call", "event", "fault"}
Spend(kind, limit) == used[kind] < limit /\ used' = [used EXCEPT ![kind] = @ + 1]

TypeOK ==
  /\ connected \in BOOLEAN /\ hears \in BOOLEAN
  /\ spa \in Schedule
  /\ record \in Record
  /\ loaded \in BOOLEAN /\ (loaded => record \in Schedule)
  /\ toSpa \in Seq(Schedule \cup {Ask})
  /\ toClient \in Seq(Record)
  /\ asking \subseteq Callers
  /\ wanted \in Schedule \cup {None}
  /\ informed \in BOOLEAN /\ touched \in BOOLEAN
  /\ used \in [Bounds -> Nat]

----------------------------------------------------------------------------
(* set_filter_cycle() *)

\* What a call changes: values for some of the parts of a schedule, where None
\* leaves a part as it is in the record.
NoChange == [start |-> [n \in Cycles |-> None], last |-> [n \in Cycles |-> None], on |-> None]

Default(value, old) == IF value = None THEN old ELSE value

\* Mutants of Message: the cycles are mixed up; a duration is filled in without
\* the modulus, and is a whole day too long.
MessageMixed(change, old) ==
  [start |-> [n \in Cycles |-> Default(change.start[n], old.start[1])],
   last  |-> [n \in Cycles |-> Default(change.last[n], old.last[n] % Day)],
   on    |-> Default(change.on, old.on)]

MessageLong(change, old) ==
  [start |-> [n \in Cycles |-> Default(change.start[n], old.start[n])],
   last  |-> [n \in Cycles |-> Default(change.last[n], old.last[n] + Day)],
   on    |-> Default(change.on, old.on)]

\* The message: `timedelta.seconds` of a duration leaves whole days out.
Message(change, old) ==
  [start |-> [n \in Cycles |-> Default(change.start[n], old.start[n])],
   last  |-> [n \in Cycles |-> Default(change.last[n], old.last[n] % Day)],
   on    |-> Default(change.on, old.on)]

\* What the change asks for, given the schedule that it is to change.
Change(change, old) ==
  [start |-> [n \in Cycles |-> Default(change.start[n], old.start[n])],
   last  |-> [n \in Cycles |-> Default(change.last[n], old.last[n])],
   on    |-> Default(change.on, old.on)]

\* Nothing is under way that the client does not know of.
Quiet == connected /\ toSpa = <<>> /\ toClient = <<>> /\ asking = {}

\* A start time that is neither known nor in the change: ValueError.  Without a
\* connection nothing is sent.
SetFilterCycle(u, change) ==
  /\ change # NoChange
  /\ \A n \in Cycles : Default(change.start[n], record.start[n]) # None
  /\ toSpa' = IF connected THEN Append(toSpa, Message(change, record)) ELSE toSpa
  /\ Len(toSpa') <= MaxWire
  /\ asking' = asking \cup {u}
  /\ wanted' = IF ~connected THEN None
               ELSE Change(change, IF wanted = None THEN spa ELSE wanted)
  /\ informed' = ((wanted = None \/ informed) /\ Quiet /\ record = spa)
  /\ UNCHANGED <<connected, hears, spa, record, loaded, toClient, touched>>

\* Mutant of Asks: it does not.
AsksNothing(u) ==
  /\ u \in asking
  /\ asking' = asking \ {u}
  /\ UNCHANGED <<connected, hears, spa, record, loaded, toSpa, toClient, history, used>>

\* The rest of the call, after drain(): request_filter_cycle().
Asks(u) ==
  /\ u \in asking
  /\ asking' = asking \ {u}
  /\ toSpa' = IF connected THEN Append(toSpa, Ask) ELSE toSpa
  /\ Len(toSpa') <= MaxWire
  /\ UNCHANGED <<connected, hears, spa, record, loaded, toClient, history, used>>

----------------------------------------------------------------------------
(* configure_filter_cycle() *)

\* calculate_time_difference() and its special case
Lasting(start, end) == IF start = end THEN Day ELSE (end - start) % Day

\* The parameters that the first checks let through; at most one of end and
\* last, and for cycle 1 not `enabled` alone.
Requests == {r \in [cycle : Cycles, start : Times \cup {None}, end : Times \cup {None},
                    last : Durations \cup {None}, on : BOOLEAN \cup {None}] :
  /\ r.end = None \/ r.last = None
  /\ r.cycle = 1 => r.on # FALSE /\ ~(r.start = None /\ r.end = None /\ r.last = None)
  /\ ~(r.start = None /\ r.end = None /\ r.last = None /\ r.on = None)
  /\ r.last # None => r.last \in Shortest .. Day}

\* Start and end as the parameters give them, or else as they are on record; a
\* duration gives the end.
StartOf(r) == Default(r.start, record.start[r.cycle])

EndOf(r) == IF r.end # None THEN r.end
            ELSE IF r.last # None THEN (StartOf(r) + r.last) % Day
            ELSE IF record.start[r.cycle] = None THEN None
            ELSE (record.start[r.cycle] + record.last[r.cycle]) % Day

ConfigureFilterCycle(u, r) ==
  /\ StartOf(r) # None /\ EndOf(r) # None
  /\ Lasting(StartOf(r), EndOf(r)) >= Shortest
  /\ SetFilterCycle(u,
       [start |-> [NoChange.start EXCEPT ![r.cycle] = StartOf(r)],
        last  |-> [NoChange.last EXCEPT ![r.cycle] = Lasting(StartOf(r), EndOf(r))],
        on    |-> IF r.cycle = 2 THEN r.on ELSE None])

\* set_filter_cycle() called by the application itself, for a part of a cycle.
SetPart(u) ==
  \/ \E n \in Cycles, t \in Times : SetFilterCycle(u, [NoChange EXCEPT !.start[n] = t])
  \/ \E n \in Cycles, d \in Durations : SetFilterCycle(u, [NoChange EXCEPT !.last[n] = d])
  \/ \E b \in BOOLEAN : SetFilterCycle(u, [NoChange EXCEPT !.on = b])

Calls(u) ==
  /\ u \notin asking
  /\ Spend("call", MaxCalls)
  /\ SetPart(u) \/ \E r \in Requests : ConfigureFilterCycle(u, r)

----------------------------------------------------------------------------
(* The listener, the spa and the connection *)

\* _parse_filter_cycle() of an answer: it is stored, and loaded at last.
TakeRecord ==
  /\ hears /\ toClient # <<>>
  /\ \A n \in Cycles : Head(toClient).start[n] # None
  /\ record' = Head(toClient)
  /\ loaded' = TRUE
  /\ toClient' = Tail(toClient)
  /\ UNCHANGED <<connected, hears, spa, toSpa, asking, history, used>>

\* The record with what is stored of an answer before its second start.
WithFirstHalf(answer) ==
  [record EXCEPT !.start[1] = answer.start[1], !.last[1] = answer.last[1], !.on = answer.on]

\* time() raises for the first start, before anything is stored, or for the
\* second one.  That ends the listener: nothing is read any more.
TakeRaises ==
  /\ hears /\ toClient # <<>>
  /\ \/ /\ Head(toClient).start[1] = None
        /\ UNCHANGED record
     \/ /\ Head(toClient).start[1] # None /\ Head(toClient).start[2] = None
        /\ record' = WithFirstHalf(Head(toClient))
  /\ hears' = FALSE
  /\ toClient' = <<>>
  /\ UNCHANGED <<connected, spa, loaded, toSpa, asking, history, used>>

SpaObeys ==
  /\ toSpa # <<>> /\ Head(toSpa) # Ask
  /\ spa' = Head(toSpa)
  /\ toSpa' = Tail(toSpa)
  /\ UNCHANGED <<connected, hears, record, loaded, toClient, asking, history, used>>

\* The spa answers a request.
Answers(schedule) ==
  /\ toSpa # <<>> /\ Head(toSpa) = Ask
  /\ Len(toClient) < MaxWire
  /\ toSpa' = Tail(toSpa)
  /\ toClient' = IF hears THEN Append(toClient, schedule) ELSE toClient
  /\ touched' = FALSE
  /\ UNCHANGED <<connected, hears, spa, record, loaded, asking, wanted, informed>>

SpaAnswers == Answers(spa) /\ UNCHANGED used

\* ... with a time that does not exist.
SpaFalters ==
  /\ Spend("fault", MaxFaults)
  /\ \E n \in Cycles : Answers([spa EXCEPT !.start[n] = None])

\* request_all_configuration() of a new connection, again and again until the
\* record is loaded, and never after.
AsksFirst ==
  /\ connected /\ ~loaded
  /\ Len(toSpa) < MaxWire
  /\ toSpa' = Append(toSpa, Ask)
  /\ UNCHANGED <<connected, hears, spa, record, loaded, toClient, asking, history, used>>

\* Somebody sets the schedule at the panel.
SpaTouched ==
  /\ Spend("event", MaxEvents)
  /\ spa' \in Schedules \ {spa}
  /\ wanted' = None
  /\ touched' = TRUE
  /\ UNCHANGED <<connected, hears, record, loaded, toSpa, toClient, asking, informed>>

Drop ==
  /\ connected
  /\ Spend("event", MaxEvents)
  /\ connected' = FALSE
  /\ toSpa' = <<>> /\ toClient' = <<>>
  /\ wanted' = None
  /\ touched' = TRUE
  /\ UNCHANGED <<hears, spa, record, loaded, asking, informed>>

\* A new connection has a new listener.
Reconnect ==
  /\ ~connected
  /\ connected' = TRUE
  /\ hears' = TRUE
  /\ UNCHANGED <<spa, record, loaded, toSpa, toClient, asking, history, used>>

----------------------------------------------------------------------------

Init ==
  /\ connected = TRUE /\ hears = TRUE
  /\ spa \in Schedules
  /\ record = [start |-> NoChange.start, last |-> [n \in Cycles |-> 0], on |-> FALSE]
  /\ loaded = FALSE
  /\ toSpa = <<>> /\ toClient = <<>>
  /\ asking = {}
  /\ wanted = None
  /\ informed = FALSE
  /\ touched = TRUE
  /\ used = [b \in Bounds |-> 0]

Next ==
  \/ \E u \in Callers :
       \/ Calls(u)
       \/ Asks(u)
  \/ TakeRecord \/ TakeRaises \/ AsksFirst
  \/ SpaObeys \/ SpaAnswers \/ SpaFalters \/ SpaTouched
  \/ Drop \/ Reconnect

Spec == Init /\ [][Next]_vars

----------------------------------------------------------------------------
(* Properties *)

\* When nothing is under way, no answer has ended the listener, and since the
\* spa's last answer nobody has touched the spa and no connection was lost, the
\* client's record is the spa's schedule, however the calls of several tasks
\* interleaved, and although an answer may be stored in part.
RecordIsTrue == Quiet /\ hears /\ ~touched => record = spa

\* Calls that all knew the spa's schedule, and were alone, have changed what
\* they ask for and nothing else of the schedule, up to whole days.
SameButDays(s, t) ==
  /\ s.start = t.start /\ s.on = t.on
  /\ \A n \in Cycles : s.last[n] % Day = t.last[n] % Day

InformedCallsAddUp == Quiet /\ informed /\ wanted # None => SameButDays(spa, wanted)

\* "Invalid duration ... (must be between 15 minutes and 24 hours)", says
\* configure_filter_cycle(): 24 hours are a valid duration.  Calls that all knew
\* the schedule leave a cycle of 24 hours a cycle of 24 hours.
FullDayStays ==
  Quiet /\ informed /\ wanted # None
    => \A n \in Cycles : wanted.last[n] = Day => spa.last[n] = Day
============================================================================
