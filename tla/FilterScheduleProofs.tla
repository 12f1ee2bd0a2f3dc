------------------------ MODULE FilterScheduleProofs ------------------------
(***************************************************************************)
(* What holds of FilterSchedule for any length of the day, any number of   *)
(* tasks and calls, and any number of messages under way.                  *)
(***************************************************************************)
EXTENDS FilterSchedule, SequenceTheorems, TLAPS

(***************************************************************************)
(* Types                                                                   *)
(***************************************************************************)

\* Values for some of the parts of a schedule.
Parts == [start : [Cycles -> Times \cup {None}], last : [Cycles -> Lasts \cup {None}],
          on : BOOLEAN \cup {None}]

\* A duration that is computed from a start and an end lasts at most a day.
LEMMA LastingType ==
  ASSUME NEW s \in Times, NEW e \in Times
  PROVE  Lasting(s, e) \in Lasts
  <1> USE FilterAssumption
  <1>1. CASE s = e
    BY <1>1 DEF Lasting, Lasts
  <1>2. CASE s # e
    <2>1. (e - s) % Day \in 0 .. Day - 1
      BY DEF Times
    <2> QED
      BY <1>2, <2>1 DEF Lasting, Lasts
  <1> QED
    BY <1>1, <1>2

\* Filling the gaps of a change from a schedule makes a schedule, whether or
\* not whole days are lost on the way.
LEMMA FillingType ==
  ASSUME NEW change \in Parts, NEW old \in Record,
         \A n \in Cycles : Default(change.start[n], old.start[n]) # None
  PROVE  Message(change, old) \in Schedule /\ Change(change, old) \in Schedule
  <1> USE FilterAssumption
  <1>1. \A n \in Cycles : old.last[n] % Day \in Lasts
    BY DEF Record, Lasts
  <1>2. \A n \in Cycles : /\ Default(change.start[n], old.start[n]) \in Times
                          /\ Default(change.last[n], old.last[n] % Day) \in Lasts
                          /\ Default(change.last[n], old.last[n]) \in Lasts
    BY <1>1 DEF Default, Parts, Record
  <1>3. Default(change.on, old.on) \in BOOLEAN
    BY DEF Default, Parts, Record
  <1> QED
    BY <1>2, <1>3 DEF Message, Change, Schedule

\* A schedule is a record that knows both starts, which leaves no gaps.
LEMMA SchedulesAreRecords ==
  ASSUME NEW s \in Schedule
  PROVE  /\ s \in Record
         /\ \A n \in Cycles : s.start[n] # None
         /\ \A change \in Parts, n \in Cycles : Default(change.start[n], s.start[n]) # None
  BY FilterAssumption DEF Schedule, Record, Times, Default

\* set_filter_cycle() keeps the types.
LEMMA SetFilterCycleType ==
  ASSUME TypeOK, NEW u \in Callers, NEW change \in Parts, SetFilterCycle(u, change),
         used' \in [Bounds -> Nat]
  PROVE  TypeOK'
  <1>1. Message(change, record) \in Schedule
    BY FillingType DEF SetFilterCycle, TypeOK
  <1>2. toSpa' \in Seq(Schedule \cup {Ask})
    BY <1>1 DEF SetFilterCycle, TypeOK
  <1>3. wanted' \in Schedule \cup {None}
    <2>1. Change(change, IF wanted = None THEN spa ELSE wanted) \in Schedule
      BY FillingType, SchedulesAreRecords DEF TypeOK
    <2> QED
      BY <2>1 DEF SetFilterCycle
  <1>4. informed' \in BOOLEAN
    BY DEF SetFilterCycle
  <1>5. asking' \subseteq Callers
    BY DEF SetFilterCycle, TypeOK
  <1>6. UNCHANGED <<connected, hears, spa, record, loaded, toClient, touched>>
    BY DEF SetFilterCycle
  <1> QED
    BY <1>2, <1>3, <1>4, <1>5, <1>6 DEF TypeOK

\* Both ways to call it pass a change.
LEMMA CallsPassParts ==
  ASSUME TypeOK, NEW u \in Callers, Calls(u)
  PROVE  \E change \in Parts : SetFilterCycle(u, change)
  <1> USE FilterAssumption
  <1>0. NoChange \in Parts
    BY DEF NoChange, Parts
  <1>1. CASE SetPart(u)
    <2>1. \A n \in Cycles, t \in Times : [NoChange EXCEPT !.start[n] = t] \in Parts
      BY <1>0 DEF Parts
    <2>2. \A n \in Cycles, d \in Durations : [NoChange EXCEPT !.last[n] = d] \in Parts
      BY <1>0 DEF Parts
    <2>3. \A b \in BOOLEAN : [NoChange EXCEPT !.on = b] \in Parts
      BY <1>0 DEF Parts
    <2> QED
      BY <1>1, <2>1, <2>2, <2>3 DEF SetPart
  <1>2. ASSUME NEW r \in Requests, ConfigureFilterCycle(u, r)
        PROVE  \E change \in Parts : SetFilterCycle(u, change)
    <2>1. r.cycle \in Cycles /\ r.on \in BOOLEAN \cup {None}
      BY DEF Requests
    <2>2. StartOf(r) \in Times
      <3>1. r.start \in Times \cup {None}
        BY DEF Requests
      <3>2. record.start[r.cycle] \in Times \cup {None}
        BY <2>1 DEF TypeOK, Record
      <3> QED
        BY <1>2, <3>1, <3>2 DEF ConfigureFilterCycle, StartOf, Default
    <2>3. EndOf(r) \in Times
      <3>1. r.end \in Times \cup {None} /\ (r.last # None => r.last \in Int)
        BY DEF Requests, Lasts
      <3>2. record.start[r.cycle] \in Int \cup {None} /\ record.last[r.cycle] \in Int
        <4>1. record.start[r.cycle] \in Times \cup {None} /\ record.last[r.cycle] \in Lasts
          BY <2>1 DEF TypeOK, Record
        <4> QED
          BY <4>1 DEF Times, Lasts
      <3>3. \A i \in Int : i % Day \in Times
        BY DEF Times
      <3>4. StartOf(r) \in Int
        BY <2>2 DEF Times
      <3>5. CASE r.end # None
        BY <3>1, <3>5 DEF EndOf
      <3>6. CASE r.end = None /\ r.last # None
        <4>1. StartOf(r) + r.last \in Int
          BY <3>1, <3>4, <3>6
        <4> QED
          BY <3>3, <3>6, <4>1 DEF EndOf
      <3>7. CASE r.end = None /\ r.last = None
        <4>1. record.start[r.cycle] # None
          BY <1>2, <3>7 DEF ConfigureFilterCycle, EndOf
        <4>2. record.start[r.cycle] + record.last[r.cycle] \in Int
          BY <3>2, <4>1
        <4> QED
          BY <3>3, <3>7, <4>1, <4>2 DEF EndOf
      <3> QED
        BY <3>5, <3>6, <3>7
    <2>4. Lasting(StartOf(r), EndOf(r)) \in Lasts
      BY <2>2, <2>3, LastingType
    <2>5. [start |-> [NoChange.start EXCEPT ![r.cycle] = StartOf(r)],
           last |-> [NoChange.last EXCEPT ![r.cycle] = Lasting(StartOf(r), EndOf(r))],
           on |-> IF r.cycle = 2 THEN r.on ELSE None] \in Parts
      BY <1>0, <2>1, <2>2, <2>4 DEF Parts
    <2> QED
      BY <1>2, <2>5 DEF ConfigureFilterCycle
  <1> QED
    BY <1>1, <1>2 DEF Calls

\* Every call of the application keeps the types.
LEMMA CallsType ==
  ASSUME TypeOK, NEW u \in Callers, Calls(u)
  PROVE  TypeOK'
  <1>1. used' \in [Bounds -> Nat]
    BY DEF Calls, Spend, TypeOK, Bounds
  <1>2. PICK change \in Parts : SetFilterCycle(u, change)
    BY CallsPassParts
  <1> QED
    BY <1>1, <1>2, SetFilterCycleType

\* An answer with a time that does not exist is not a schedule.
LEMMA FalteringType ==
  ASSUME NEW s \in Schedule, NEW n \in Cycles
  PROVE  [s EXCEPT !.start[n] = None] \in Record \ Schedule
  <1>1. [s EXCEPT !.start[n] = None] \in Record
    BY DEF Schedule, Record
  <1>2. [s EXCEPT !.start[n] = None].start[n] = None
    BY DEF Schedule
  <1> QED
    BY <1>1, <1>2, SchedulesAreRecords

\* So does every step.
LEMMA TypeKept ==
  ASSUME TypeOK, [Next]_vars
  PROVE  TypeOK'
  <1> USE FilterAssumption
  <1>1. ASSUME NEW u \in Callers, Calls(u) PROVE TypeOK'
    BY <1>1, CallsType
  <1>2. ASSUME NEW u \in Callers, Asks(u) PROVE TypeOK'
    <2>1. toSpa' \in Seq(Schedule \cup {Ask})
      BY <1>2 DEF Asks, TypeOK
    <2> QED
      BY <1>2, <2>1 DEF Asks, TypeOK, history
  <1>3. CASE TakeRecord
    <2>1. Head(toClient) \in Record /\ Tail(toClient) \in Seq(Record)
      BY <1>3 DEF TakeRecord, TypeOK
    <2>2. Head(toClient) \in Schedule
      BY <1>3, <2>1 DEF TakeRecord, Record, Schedule
    <2> QED
      BY <1>3, <2>1, <2>2 DEF TakeRecord, TypeOK, history
  <1>4. CASE TakeRaises
    <2>1. Head(toClient) \in Record
      BY <1>4 DEF TakeRaises, TypeOK
    <2>2. ASSUME NEW answer \in Record
          PROVE  /\ WithFirstHalf(answer) \in Record
                 /\ record \in Schedule /\ answer.start[1] # None
                      => WithFirstHalf(answer) \in Schedule
      <3>1. record \in Record /\ 1 \in Cycles
        BY DEF TypeOK, Cycles
      <3> QED
        BY <3>1 DEF WithFirstHalf, Record, Schedule
    <2>3. record' \in Record /\ (loaded => record' \in Schedule)
      BY <1>4, <2>1, <2>2 DEF TakeRaises, TypeOK
    <2>4. toClient' = <<>> /\ hears' = FALSE
      BY <1>4 DEF TakeRaises
    <2>5. toClient' \in Seq(Record)
      BY <2>4
    <2>6. hears' \in BOOLEAN
      BY <2>4, Zenon
    <2> QED
      BY <1>4, <2>3, <2>5, <2>6 DEF TakeRaises, TypeOK, history
  <1>5. CASE AsksFirst
    <2>1. toSpa' \in Seq(Schedule \cup {Ask})
      BY <1>5 DEF AsksFirst, TypeOK
    <2> QED
      BY <1>5, <2>1 DEF AsksFirst, TypeOK, history
  <1>6. CASE SpaObeys
    <2>1. Head(toSpa) \in Schedule /\ Tail(toSpa) \in Seq(Schedule \cup {Ask})
      BY <1>6 DEF SpaObeys, TypeOK
    <2> QED
      BY <1>6, <2>1 DEF SpaObeys, TypeOK, history
  <1>7. ASSUME NEW schedule \in Record, Answers(schedule), used' \in [Bounds -> Nat]
        PROVE  TypeOK'
    <2>1. Tail(toSpa) \in Seq(Schedule \cup {Ask}) /\ Append(toClient, schedule) \in Seq(Record)
      BY <1>7 DEF Answers, TypeOK
    <2> QED
      BY <1>7, <2>1 DEF Answers, TypeOK
  <1>8. ASSUME NEW kind \in Bounds, NEW limit, Spend(kind, limit)
        PROVE  used' \in [Bounds -> Nat]
    BY <1>8 DEF Spend, TypeOK
  <1>9. CASE SpaAnswers
    BY <1>7, <1>9, SchedulesAreRecords DEF SpaAnswers, TypeOK
  <1>10. CASE SpaFalters
    BY <1>7, <1>8, <1>10, FalteringType DEF SpaFalters, Bounds, TypeOK
  <1>11. CASE SpaTouched
    <2>1. used' \in [Bounds -> Nat] /\ spa' \in Schedule
      BY <1>8, <1>11 DEF SpaTouched, Bounds
    <2> QED
      BY <1>11, <2>1 DEF SpaTouched, TypeOK
  <1>12. CASE Drop
    <2>1. used' \in [Bounds -> Nat]
      BY <1>8, <1>12 DEF Drop, Bounds
    <2>2. toSpa' \in Seq(Schedule \cup {Ask}) /\ toClient' \in Seq(Record)
      BY <1>12 DEF Drop
    <2> QED
      BY <1>12, <2>1, <2>2 DEF Drop, TypeOK
  <1>13. CASE Reconnect
    BY <1>13 DEF Reconnect, TypeOK, history
  <1>14. CASE UNCHANGED vars
    BY <1>14 DEF vars, TypeOK
  <1> QED
    BY <1>1, <1>2, <1>3, <1>4, <1>5, <1>6, <1>9, <1>10, <1>11, <1>12, <1>13, <1>14 DEF Next

\* The initial state has the types.
LEMMA TypeInit ==
  ASSUME Init
  PROVE  TypeOK
  <1>1. used \in [Bounds -> Nat]
    BY DEF Init
  <1>2. toSpa \in Seq(Schedule \cup {Ask}) /\ toClient \in Seq(Record)
    BY DEF Init
  <1>3. spa \in Schedule
    BY FilterAssumption DEF Init
  <1>4. record \in Record
    BY FilterAssumption DEF Init, NoChange, Record, Lasts
  <1> QED
    BY <1>1, <1>2, <1>3, <1>4 DEF Init, TypeOK

\* Every schedule that the client remembers, sends, or is sent has start times
\* within the day and durations of at most a day: whatever parameters callers
\* combine, and although durations are computed around midnight.
THEOREM TypeCorrect == Spec => []TypeOK
  <1>1. Init => TypeOK
    BY TypeInit
  <1>2. TypeOK /\ [Next]_vars => TypeOK'
    BY TypeKept
  <1> QED
    BY <1>1, <1>2, PTL DEF Spec

(***************************************************************************)
(* The client's record                                                     *)
(***************************************************************************)

LastOf(s) == s[Len(s)]

\* Unless some call has yet to ask, nothing but a request ends the queue to the
\* spa; and when that queue is empty and nobody has touched the spa since its
\* last answer, the last answer, taken in or still under way, is true, unless it
\* ends the listener.
RecordInv ==
  /\ TypeOK
  /\ ~connected => touched /\ toSpa = <<>> /\ toClient = <<>>
  /\ asking = {} /\ toSpa # <<>> => LastOf(toSpa) = Ask
  /\ hears /\ ~touched /\ asking = {} /\ toSpa = <<>>
       => IF toClient = <<>> THEN record = spa
          ELSE LastOf(toClient) \in Schedule => LastOf(toClient) = spa

\* Nothing has been answered in the initial state.
LEMMA RecordInit ==
  ASSUME Init
  PROVE  RecordInv
  BY TypeInit DEF Init, RecordInv

\* The last element of a queue that is appended to, or served.
LEMMA LastOfQueue ==
  ASSUME NEW S, NEW s \in Seq(S)
  PROVE  /\ \A x \in S : Append(s, x) # <<>> /\ LastOf(Append(s, x)) = x
         /\ s # <<>> /\ Tail(s) # <<>> => LastOf(Tail(s)) = LastOf(s)
         /\ s # <<>> /\ Tail(s) = <<>> => LastOf(s) = Head(s)
  <1>1. ASSUME NEW x \in S
        PROVE  Append(s, x) # <<>> /\ LastOf(Append(s, x)) = x
    <2>1. Len(Append(s, x)) = Len(s) + 1 /\ Append(s, x)[Len(s) + 1] = x
      OBVIOUS
    <2> QED
      BY <2>1 DEF LastOf
  <1>2. ASSUME s # <<>>, Tail(s) # <<>>
        PROVE  LastOf(Tail(s)) = LastOf(s)
    <2>1. /\ Tail(s) \in Seq(S) /\ Len(Tail(s)) = Len(s) - 1
          /\ \A i \in 1 .. Len(Tail(s)) : Tail(s)[i] = s[i + 1]
      BY <1>2, HeadTailProperties
    <2>2. Len(Tail(s)) \in Nat \ {0} /\ Len(s) \in Nat
      BY <1>2, <2>1, EmptySeq
    <2> QED
      BY <2>1, <2>2 DEF LastOf
  <1>3. ASSUME s # <<>>, Tail(s) = <<>>
        PROVE  LastOf(s) = Head(s)
    <2>1. Len(Tail(s)) = Len(s) - 1 /\ Len(Tail(s)) = 0
      BY <1>3, HeadTailProperties, EmptySeq
    <2>2. Len(s) = 1
      BY <2>1
    <2> QED
      BY <2>2 DEF LastOf
  <1> QED
    BY <1>1, <1>2, <1>3

\* Every step keeps the invariant.
LEMMA RecordKept ==
  ASSUME RecordInv, [Next]_vars
  PROVE  RecordInv'
  <1> USE FilterAssumption
  <1>1. TypeOK /\ TypeOK'
    BY TypeKept DEF RecordInv
  <1>2. ASSUME NEW u \in Callers, Calls(u) PROVE RecordInv'
    <2>1. PICK change \in Parts : SetFilterCycle(u, change)
      BY <1>1, <1>2, CallsPassParts
    <2>2. asking' # {}
      BY <2>1 DEF SetFilterCycle
    <2>3. UNCHANGED <<connected, hears, toClient, touched>> /\ (~connected => toSpa' = toSpa)
      BY <2>1 DEF SetFilterCycle
    <2> QED
      BY <1>1, <2>2, <2>3 DEF RecordInv
  <1>3. ASSUME NEW u \in Callers, Asks(u) PROVE RecordInv'
    <2>1. UNCHANGED <<connected, hears, spa, record, toClient, touched>>
      BY <1>3 DEF Asks, history
    <2>2. CASE connected
      <3>1. toSpa' = Append(toSpa, Ask) /\ toSpa' # <<>> /\ LastOf(toSpa') = Ask
        <4>1. toSpa' = Append(toSpa, Ask)
          BY <1>3, <2>2 DEF Asks
        <4>2. toSpa \in Seq(Schedule \cup {Ask}) /\ Ask \in Schedule \cup {Ask}
          BY <1>1 DEF TypeOK
        <4> QED
          BY <4>1, <4>2, LastOfQueue
      <3> QED
        BY <1>1, <2>1, <2>2, <3>1 DEF RecordInv
    <2>3. CASE ~connected
      BY <1>1, <1>3, <2>1, <2>3 DEF RecordInv, Asks
    <2> QED
      BY <2>2, <2>3
  <1>4. CASE TakeRecord
    <2>1. UNCHANGED <<connected, hears, spa, toSpa, asking, touched>>
      BY <1>4 DEF TakeRecord, history
    <2>2. connected
      BY <1>4 DEF TakeRecord, RecordInv
    <2>3. toClient # <<>> /\ toClient \in Seq(Record)
          /\ toClient' = Tail(toClient) /\ record' = Head(toClient)
          /\ Head(toClient) \in Schedule
      BY <1>1, <1>4 DEF TakeRecord, TypeOK
    <2>4. IF toClient' = <<>> THEN record' = LastOf(toClient) ELSE LastOf(toClient') = LastOf(toClient)
      BY <2>3, LastOfQueue
    <2> QED
      BY <1>1, <2>1, <2>2, <2>3, <2>4 DEF RecordInv
  <1>5. CASE AsksFirst
    <2>1. toSpa' # <<>> /\ LastOf(toSpa') = Ask
      BY <1>1, <1>5, LastOfQueue DEF AsksFirst, TypeOK
    <2> QED
      BY <1>1, <1>5, <2>1 DEF AsksFirst, RecordInv, history
  <1>6. CASE SpaObeys
    <2>1. toSpa # <<>> /\ toSpa \in Seq(Schedule \cup {Ask})
          /\ toSpa' = Tail(toSpa) /\ Head(toSpa) # Ask
      BY <1>1, <1>6 DEF SpaObeys, TypeOK
    <2>2. IF toSpa' = <<>> THEN LastOf(toSpa) = Head(toSpa) ELSE LastOf(toSpa') = LastOf(toSpa)
      BY <2>1, LastOfQueue
    <2>3. connected /\ UNCHANGED <<connected, hears, record, toClient, asking, touched>>
      BY <1>6 DEF SpaObeys, RecordInv, history
    <2> QED
      BY <1>1, <2>1, <2>2, <2>3 DEF RecordInv
  <1>7. ASSUME NEW schedule \in Record, Answers(schedule),
               schedule \in Schedule => schedule = spa
        PROVE  RecordInv'
    <2>1. toSpa # <<>> /\ toSpa \in Seq(Schedule \cup {Ask}) /\ toSpa' = Tail(toSpa)
      BY <1>1, <1>7 DEF Answers, TypeOK
    <2>2. toSpa' # <<>> => LastOf(toSpa') = LastOf(toSpa)
      BY <2>1, LastOfQueue
    <2>3. hears => toClient' # <<>> /\ LastOf(toClient') = schedule
      BY <1>1, <1>7, LastOfQueue DEF Answers, TypeOK
    <2>4. connected /\ UNCHANGED <<connected, hears, spa, record, asking>>
      BY <1>7 DEF Answers, RecordInv
    <2> QED
      BY <1>1, <1>7, <2>1, <2>2, <2>3, <2>4 DEF RecordInv
  <1>8. CASE SpaAnswers
    BY <1>1, <1>7, <1>8, SchedulesAreRecords DEF SpaAnswers, TypeOK
  <1>9. CASE SpaFalters
    BY <1>1, <1>7, <1>9, FalteringType DEF SpaFalters, TypeOK
  <1>10. CASE TakeRaises
    <2>1. /\ ~hears' /\ toClient' = <<>> /\ connected
          /\ UNCHANGED <<connected, toSpa, asking, touched>>
      BY <1>10 DEF TakeRaises, history, RecordInv
    <2> QED
      BY <1>1, <2>1 DEF RecordInv
  <1>11. CASE SpaTouched
    BY <1>1, <1>11 DEF SpaTouched, RecordInv
  <1>12. CASE Drop
    BY <1>1, <1>12 DEF Drop, RecordInv
  <1>13. CASE Reconnect
    BY <1>1, <1>13 DEF Reconnect, RecordInv, history
  <1>14. CASE UNCHANGED vars
    BY <1>1, <1>14 DEF vars, RecordInv
  <1> QED
    BY <1>2, <1>3, <1>4, <1>5, <1>6, <1>8, <1>9, <1>10, <1>11, <1>12, <1>13, <1>14 DEF Next

\* However many tasks set the schedule and however their sends and requests
\* interleave: once all is quiet, and unless the spa was touched or a connection
\* lost since the spa last answered, the client's record is the spa's schedule.
THEOREM RecordIsAlwaysTrue == Spec => []RecordIsTrue
  <1>1. Init => RecordInv
    BY RecordInit
  <1>2. RecordInv /\ [Next]_vars => RecordInv'
    BY RecordKept
  <1>3. RecordInv => RecordIsTrue
    BY DEF RecordInv, RecordIsTrue, Quiet
  <1> QED
    BY <1>1, <1>2, <1>3, PTL DEF Spec

(***************************************************************************)
(* What informed calls add up to                                           *)
(***************************************************************************)

\* The schedule that the spa is going to have when it has obeyed the first
\* message in the queue.
Coming == IF toSpa # <<>> /\ Head(toSpa) # Ask THEN Head(toSpa) ELSE spa

\* While all calls were informed, at most one of them is under way, and ahead of
\* all requests: whoever calls before the spa has obeyed is not informed.
InformedInv ==
  /\ TypeOK
  /\ informed /\ wanted # None =>
       /\ connected
       /\ \A i \in 2 .. Len(toSpa) : toSpa[i] = Ask
       /\ SameButDays(Coming, wanted)

\* A change brings schedules that differ by whole days to schedules that do,
\* although the message loses the whole days.
LEMMA MessageLosesDaysOnly ==
  ASSUME NEW change \in Parts, NEW s \in Schedule, NEW t \in Schedule, SameButDays(s, t)
  PROVE  SameButDays(Message(change, s), Change(change, t))
  <1> USE FilterAssumption
  <1>1. \A x \in Lasts : (x % Day) % Day = x % Day
    <2>1. \A x \in Lasts : x % Day \in 0 .. Day - 1
      BY DEF Lasts
    <2>2. \A y \in 0 .. Day - 1 : y % Day = y
      OBVIOUS
    <2> QED
      BY <2>1, <2>2
  <1>2. /\ \A n \in Cycles : s.last[n] \in Lasts /\ s.last[n] % Day = t.last[n] % Day
        /\ \A n \in Cycles : s.start[n] = t.start[n]
        /\ s.on = t.on
    BY DEF Schedule, SameButDays
  <1>3. ASSUME NEW n \in Cycles
        PROVE  /\ Default(change.last[n], s.last[n] % Day) % Day = Default(change.last[n], t.last[n]) % Day
               /\ Default(change.start[n], s.start[n]) = Default(change.start[n], t.start[n])
    BY <1>1, <1>2 DEF Default
  <1> DEFINE m == Message(change, s)
             c == Change(change, t)
  <1>4. m.start = c.start
    BY <1>3 DEF Message, Change
  <1>5. \A n \in Cycles : m.last[n] % Day = c.last[n] % Day
    BY <1>3 DEF Message, Change
  <1>6. m.on = c.on
    BY <1>2 DEF Message, Change
  <1> QED
    BY <1>4, <1>5, <1>6 DEF SameButDays

\* The first element of a queue, and of a queue that has no other.
LEMMA FirstInQueue ==
  ASSUME NEW S
  PROVE  /\ \A x \in S : /\ Len(Append(<<>>, x)) = 1 /\ Append(<<>>, x) # <<>>
                         /\ Head(Append(<<>>, x)) = x
         /\ \A s \in Seq(S) : s # <<>> => 1 \in 1 .. Len(s) /\ Head(s) = s[1]
  OBVIOUS

\* An informed call that is made of what other informed calls have asked for
\* asks for that and its own change.
LEMMA InformedCall ==
  ASSUME InformedInv, NEW u \in Callers, NEW change \in Parts, SetFilterCycle(u, change), TypeOK'
  PROVE  InformedInv'
  <1> USE FilterAssumption
  <1>1. SUFFICES ASSUME informed', wanted' # None
                 PROVE  /\ connected'
                        /\ \A i \in 2 .. Len(toSpa') : toSpa'[i] = Ask
                        /\ SameButDays(Coming', wanted')
    BY DEF InformedInv
  <1>2. /\ wanted = None \/ informed
        /\ Quiet /\ record = spa /\ spa \in Schedule
        /\ connected' = connected /\ connected /\ toSpa = <<>>
    BY <1>1 DEF SetFilterCycle, InformedInv, TypeOK, Quiet
  <1> DEFINE base == IF wanted = None THEN spa ELSE wanted
  <1>3. toSpa' = Append(<<>>, Message(change, spa)) /\ wanted' = Change(change, base)
    BY <1>2 DEF SetFilterCycle
  <1>4. base \in Schedule /\ SameButDays(spa, base)
    <2>1. wanted # None => SameButDays(spa, wanted)
      BY <1>2 DEF InformedInv, Coming
    <2>2. SameButDays(spa, spa)
      BY DEF SameButDays
    <2>3. wanted \in Schedule \cup {None}
      BY DEF InformedInv, TypeOK
    <2> QED
      BY <1>2, <2>1, <2>2, <2>3
  <1> HIDE DEF base
  <1>5. Message(change, spa) \in Schedule /\ Message(change, spa) # Ask
    BY <1>2, FillingType, SchedulesAreRecords
  <1>6. Len(toSpa') = 1 /\ toSpa' # <<>> /\ Head(toSpa') = Message(change, spa)
    BY <1>3, <1>5, FirstInQueue
  <1>7. Coming' = Message(change, spa)
    BY <1>5, <1>6 DEF Coming
  <1>8. \A i \in 2 .. Len(toSpa') : toSpa'[i] = Ask
    BY <1>6
  <1> QED
    BY <1>2, <1>3, <1>4, <1>7, <1>8, MessageLosesDaysOnly

\* A request that joins the queue, wherever it comes from, is behind the message.
LEMMA AskedBehind ==
  ASSUME InformedInv, TypeOK', toSpa' = Append(toSpa, Ask),
         UNCHANGED <<connected, spa, wanted, informed>>
  PROVE  InformedInv'
  <1>1. toSpa \in Seq(Schedule \cup {Ask})
    BY DEF InformedInv, TypeOK
  <1>2. /\ Len(toSpa') = Len(toSpa) + 1 /\ toSpa' # <<>> /\ Len(toSpa) \in Nat
        /\ toSpa'[Len(toSpa) + 1] = Ask
        /\ \A i \in 1 .. Len(toSpa) : toSpa'[i] = toSpa[i]
    BY <1>1
  <1>3. Head(toSpa') = IF toSpa = <<>> THEN Ask ELSE Head(toSpa)
    BY <1>1
  <1>4. Coming' = Coming
    BY <1>2, <1>3 DEF Coming
  <1>5. ASSUME \A i \in 2 .. Len(toSpa) : toSpa[i] = Ask
        PROVE  \A i \in 2 .. Len(toSpa') : toSpa'[i] = Ask
    BY <1>2, <1>5
  <1> QED
    BY <1>4, <1>5 DEF InformedInv

\* Only requests are behind the first message, also when it has been taken.
LEMMA RestAsks ==
  ASSUME TypeOK, toSpa # <<>>, \A i \in 2 .. Len(toSpa) : toSpa[i] = Ask
  PROVE  /\ Tail(toSpa) # <<>> => Head(Tail(toSpa)) = Ask
         /\ \A i \in 2 .. Len(Tail(toSpa)) : Tail(toSpa)[i] = Ask
  <1>1. toSpa \in Seq(Schedule \cup {Ask})
    BY DEF TypeOK
  <1>2. /\ Tail(toSpa) \in Seq(Schedule \cup {Ask}) /\ Len(Tail(toSpa)) = Len(toSpa) - 1
        /\ \A i \in 1 .. Len(Tail(toSpa)) : Tail(toSpa)[i] = toSpa[i + 1]
    BY <1>1, HeadTailProperties
  <1>3. Len(toSpa) \in Nat /\ Len(Tail(toSpa)) \in Nat
    BY <1>1, <1>2
  <1>4. \A i \in 1 .. Len(Tail(toSpa)) : Tail(toSpa)[i] = Ask
    BY <1>2, <1>3
  <1>5. ASSUME Tail(toSpa) # <<>>
        PROVE  Head(Tail(toSpa)) = Ask
    <2>1. 1 \in 1 .. Len(Tail(toSpa)) /\ Head(Tail(toSpa)) = Tail(toSpa)[1]
      BY <1>2, <1>5, FirstInQueue
    <2> QED
      BY <1>4, <2>1
  <1> QED
    BY <1>3, <1>4, <1>5

\* Every step keeps the invariant.
LEMMA InformedKept ==
  ASSUME InformedInv, [Next]_vars
  PROVE  InformedInv'
  <1> USE FilterAssumption
  <1>1. TypeOK /\ TypeOK'
    BY TypeKept DEF InformedInv
  <1>2. ASSUME NEW u \in Callers, Calls(u) PROVE InformedInv'
    BY <1>1, <1>2, CallsPassParts, InformedCall
  <1>3. ASSUME NEW u \in Callers, Asks(u) PROVE InformedInv'
    <2>1. CASE connected
      BY <1>1, <1>3, <2>1, AskedBehind DEF Asks, history
    <2>2. CASE ~connected
      BY <1>1, <1>3, <2>2 DEF Asks, history, InformedInv
    <2> QED
      BY <2>1, <2>2
  <1>4. CASE TakeRecord
    BY <1>1, <1>4 DEF TakeRecord, history, InformedInv, Coming
  <1>5. CASE AsksFirst
    BY <1>1, <1>5, AskedBehind DEF AsksFirst, history
  <1>6. CASE SpaObeys
    <2>1. toSpa # <<>> /\ Head(toSpa) # Ask /\ spa' = Head(toSpa) /\ toSpa' = Tail(toSpa)
          /\ UNCHANGED <<connected, wanted, informed>>
      BY <1>6 DEF SpaObeys, history
    <2>2. SUFFICES ASSUME informed, wanted # None
                   PROVE  /\ \A i \in 2 .. Len(toSpa') : toSpa'[i] = Ask
                          /\ SameButDays(Coming', wanted)
      BY <1>1, <2>1 DEF InformedInv
    <2>3. \A i \in 2 .. Len(toSpa') : toSpa'[i] = Ask
      BY <1>1, <2>1, <2>2, RestAsks DEF InformedInv
    <2>4. Coming' = Coming
      <3>1. toSpa' # <<>> => Head(toSpa') = Ask
        BY <1>1, <2>1, <2>2, RestAsks DEF InformedInv
      <3> QED
        BY <2>1, <3>1 DEF Coming
    <2> QED
      BY <2>2, <2>3, <2>4 DEF InformedInv
  <1>7. ASSUME NEW schedule, Answers(schedule) PROVE InformedInv'
    <2>1. toSpa # <<>> /\ Head(toSpa) = Ask /\ toSpa' = Tail(toSpa)
          /\ UNCHANGED <<connected, spa, wanted, informed>>
      BY <1>7 DEF Answers
    <2>2. SUFFICES ASSUME informed, wanted # None
                   PROVE  /\ \A i \in 2 .. Len(toSpa') : toSpa'[i] = Ask
                          /\ SameButDays(Coming', wanted)
      BY <1>1, <2>1 DEF InformedInv
    <2>3. \A i \in 2 .. Len(toSpa') : toSpa'[i] = Ask
      BY <1>1, <2>1, <2>2, RestAsks DEF InformedInv
    <2>4. Coming' = Coming
      <3>1. toSpa' # <<>> => Head(toSpa') = Ask
        BY <1>1, <2>1, <2>2, RestAsks DEF InformedInv
      <3> QED
        BY <2>1, <3>1 DEF Coming
    <2> QED
      BY <2>2, <2>3, <2>4 DEF InformedInv
  <1>8. CASE SpaAnswers
    BY <1>7, <1>8 DEF SpaAnswers
  <1>9. CASE SpaFalters
    BY <1>7, <1>9 DEF SpaFalters
  <1>10. CASE TakeRaises
    BY <1>1, <1>10 DEF TakeRaises, history, InformedInv, Coming
  <1>11. CASE SpaTouched
    BY <1>1, <1>11 DEF SpaTouched, InformedInv
  <1>12. CASE Drop
    BY <1>1, <1>12 DEF Drop, InformedInv
  <1>13. CASE Reconnect
    BY <1>1, <1>13 DEF Reconnect, history, InformedInv
  <1>14. CASE UNCHANGED vars
    BY <1>1, <1>14 DEF vars, InformedInv, Coming
  <1> QED
    BY <1>2, <1>3, <1>4, <1>5, <1>6, <1>8, <1>9, <1>10, <1>11, <1>12, <1>13, <1>14 DEF Next

\* Calls of any number of tasks, each about a part of one cycle, that were made
\* when the client knew the schedule and nothing was under way: once all is quiet
\* the spa has what they ask for together, up to whole days, and the rest of its
\* schedule is what it was.
THEOREM InformedCallsAlwaysAddUp == Spec => []InformedCallsAddUp
  <1>1. Init => InformedInv
    BY TypeInit DEF Init, InformedInv
  <1>2. InformedInv /\ [Next]_vars => InformedInv'
    BY InformedKept
  <1>3. InformedInv => InformedCallsAddUp
    BY DEF InformedInv, InformedCallsAddUp, Quiet, Coming
  <1> QED
    BY <1>1, <1>2, <1>3, PTL DEF Spec
=============================================================================
