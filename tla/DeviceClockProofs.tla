------------------------- MODULE DeviceClockProofs -------------------------
(***************************************************************************)
(* What holds of DeviceClock for minutes and days of any length, clocks    *)
(* that are any distance apart, and messages that take any time.           *)
(***************************************************************************)
EXTENDS DeviceClock, TLAPS

(***************************************************************************)
(* Days, minutes and moments                                               *)
(***************************************************************************)

\* Division with remainder, and that there is only one.
LEMMA Division ==
  ASSUME NEW d \in Nat \ {0}, NEW x \in Int
  PROVE  x \div d \in Int /\ x % d \in 0 .. d - 1 /\ x = d * (x \div d) + (x % d)
  OBVIOUS

LEMMA ProductGrows ==
  ASSUME NEW d \in Nat \ {0}, NEW a \in Int, NEW b \in Int, a < b
  PROVE  d * a \in Int /\ d * b \in Int /\ d * a + d <= d * b
  <1>1. PICK k \in Nat : b = a + 1 + k
    BY SMT
  <1>2. d * b = d * a + d + d * k /\ d * k \in Nat /\ d * a \in Int
    BY <1>1
  <1> QED
    BY <1>2

LEMMA DivisionUnique ==
  ASSUME NEW d \in Nat \ {0}, NEW q \in Int, NEW r \in 0 .. d - 1
  PROVE  (d * q + r) \div d = q /\ (d * q + r) % d = r
  <1> DEFINE x == d * q + r
             p == x \div d
             s == x % d
  <1>1. x \in Int
    OBVIOUS
  <1>2. p \in Int /\ s \in 0 .. d - 1 /\ x = d * p + s
    BY <1>1, Division
  <1>3. d * q \in Int /\ d * p \in Int /\ d * p + s = d * q + r
    BY <1>2
  <1> HIDE DEF p, s, x
  <1>4. ~(p < q)
    <2>1. SUFFICES ASSUME p < q PROVE FALSE
      OBVIOUS
    <2>2. d * p + d <= d * q
      BY <1>2, <2>1, ProductGrows
    <2> QED
      BY <1>2, <1>3, <2>2
  <1>5. ~(q < p)
    <2>1. SUFFICES ASSUME q < p PROVE FALSE
      OBVIOUS
    <2>2. d * q + d <= d * p
      BY <1>2, <2>1, ProductGrows
    <2> QED
      BY <1>2, <1>3, <2>2
  <1>6. p = q
    BY <1>2, <1>4, <1>5
  <1>7. s = r
    BY <1>2, <1>3, <1>6
  <1> QED
    BY <1>6, <1>7 DEF p, s, x

\* The lengths of a minute and of a day.
LEMMA Lengths ==
  /\ PerMinute \in Nat \ {0} /\ Minutes \in Nat \ {0} /\ Day \in Nat \ {0}
  /\ Day = PerMinute * Minutes
  <1>1. PerMinute \in Nat \ {0} /\ Minutes \in Nat \ {0}
    BY ClockAssumption
  <1>2. PerMinute * Minutes \in Nat \ {0}
    BY <1>1
  <1> QED
    BY <1>1, <1>2 DEF Day

\* A moment is so many days, minutes and moments after the midnight it counts from.
LEMMA Moment ==
  ASSUME NEW x \in Int
  PROVE  /\ Minute(x) \in Int
         /\ Date(Minute(x)) \in Int /\ TimeOfDay(Minute(x)) \in 0 .. Minutes - 1
         /\ x % PerMinute \in 0 .. PerMinute - 1
         /\ x = Day * Date(Minute(x)) + PerMinute * TimeOfDay(Minute(x)) + (x % PerMinute)
  <1> DEFINE m == Minute(x)
             q == Date(m)
             t == TimeOfDay(m)
             s == x % PerMinute
  <1>1. m \in Int /\ s \in 0 .. PerMinute - 1 /\ x = PerMinute * m + s
    BY Lengths, Division DEF Minute
  <1>2. q \in Int /\ t \in 0 .. Minutes - 1 /\ m = Minutes * q + t
    BY <1>1, Lengths, Division DEF Date, TimeOfDay
  <1> HIDE DEF m, q, t, s
  <1>3. PerMinute * (Minutes * q + t) = (PerMinute * Minutes) * q + PerMinute * t
    BY <1>2, Lengths
  <1>4. x = Day * q + PerMinute * t + s
    BY <1>1, <1>2, <1>3, Lengths
  <1> QED
    BY <1>1, <1>2, <1>4 DEF m, q, t, s

\* The date of a moment is the number of whole days.
LEMMA DateOfMoment ==
  ASSUME NEW q \in Int, NEW w \in 0 .. Day - 1
  PROVE  Date(Minute(Day * q + w)) = q /\ (Day * q + w) % Day = w
  <1> DEFINE x == Day * q + w
             p == Date(Minute(x))
             t == TimeOfDay(Minute(x))
             s == x % PerMinute
  <1>1. x \in Int
    BY Lengths
  <1>2. p \in Int /\ t \in 0 .. Minutes - 1 /\ s \in 0 .. PerMinute - 1
        /\ x = Day * p + PerMinute * t + s
    BY <1>1, Moment
  <1> HIDE DEF p, t, s, x
  <1>3. PerMinute * t + s \in 0 .. Day - 1
    <2>1. PerMinute * t \in Nat /\ t < Minutes
      BY <1>2, Lengths
    <2>2. PerMinute * t + PerMinute <= PerMinute * Minutes
      BY <1>2, <2>1, Lengths, ProductGrows
    <2> QED
      BY <1>2, <2>1, <2>2, Lengths
  <1>4. x = Day * p + (PerMinute * t + s)
    BY <1>2, <1>3, Lengths
  <1>5. x \div Day = p
    BY <1>2, <1>3, <1>4, Lengths, DivisionUnique
  <1>6. x \div Day = q /\ x % Day = w
    BY Lengths, DivisionUnique DEF x
  <1> QED
    BY <1>5, <1>6 DEF p, x

(***************************************************************************)
(* Types                                                                   *)
(***************************************************************************)

LEMMA BoundsAreNatural == MaxTime \in Nat /\ MaxDelay \in Nat /\ MaxSets \in Nat
  BY ClockAssumption

\* Minutes have a date and a time of day.
LEMMA MinuteType ==
  ASSUME NEW m \in Int
  PROVE  /\ Date(m) \in Int /\ TimeOfDay(m) \in 0 .. Minutes - 1
         /\ m = Minutes * Date(m) + TimeOfDay(m)
  BY Lengths, Division DEF Date, TimeOfDay

LEMMA TypeInit ==
  ASSUME Init
  PROVE  TypeOK
  <1>1. {host, device} \subseteq Int
    BY Lengths, ClockAssumption DEF Init
  <1>2. offset \in 1 - Minutes .. Minutes - 1
    BY Lengths DEF Init
  <1> QED
    BY <1>1, <1>2 DEF Init, TypeOK

\* A status update brings an offset of less than a day.
LEMMA OffsetType ==
  ASSUME TypeOK, report # None, report.status[1] # None
  PROVE  /\ report \in Report /\ report.status \in Status /\ report.status # None
         /\ report.status[1] \in 0 .. Minutes - 1
         /\ OffsetTo(report.status[1]) \in 1 - Minutes .. Minutes - 1
  <1>1. report \in Report /\ report.status \in Status /\ report.status # None
    BY ClockAssumption DEF TypeOK, Report
  <1>2. report.status[1] \in 0 .. Minutes - 1
    BY <1>1 DEF Status, Times
  <1>3. TimeOfDay(Minute(host)) \in 0 .. Minutes - 1
    BY Moment DEF TypeOK
  <1> QED
    BY <1>1, <1>2, <1>3, Lengths DEF OffsetTo

LEMMA TypeKept ==
  ASSUME TypeOK, [Next]_vars
  PROVE  TypeOK'
  <1> USE Lengths, BoundsAreNatural
  <1>1. CASE TakeStatus
    <2>1. report \in Report /\ report.age \in 0 .. MaxDelay
      BY <1>1 DEF TakeStatus, TypeOK, Report
    <2>2. CASE UNCHANGED <<previous, offset, known>>
      BY <1>1, <2>2 DEF TakeStatus, clocks, TypeOK
    <2>3. CASE ~UNCHANGED <<previous, offset, known>>
      <3>0. /\ report.status[1] # None /\ report # None
            /\ previous' = report.status /\ offset' = OffsetTo(report.status[1])
            /\ known' = IF report.valid
                        THEN [late |-> report.age, apart |-> Date(Minute(host)) - report.date]
                        ELSE None
        BY <1>1, <2>3 DEF TakeStatus
      <3>1. previous' \in Status /\ previous' # None /\ offset' \in 1 - Minutes .. Minutes - 1
        BY <3>0, OffsetType
      <3>2. known' \in [late : 0 .. MaxDelay, apart : Int] \cup {None}
        <4>1. Date(Minute(host)) - report.date \in Int
          BY <2>1, Moment DEF TypeOK, Report
        <4> QED
          BY <2>1, <3>0, <4>1
      <3>3. report' = None /\ UNCHANGED <<host, device, faults, asked, answer, hears, fault, loaded>>
        BY <1>1 DEF TakeStatus, clocks
      <3> QED
        BY <3>1, <3>2, <3>3 DEF TypeOK
    <2> QED
      BY <2>2, <2>3
  <1>2. ASSUME ListenerEnds, previous' \in Status \cup {None}, loaded => previous' # None
         PROVE  TypeOK'
    <2>1. hears' = FALSE /\ report' = None /\ answer' = None
      BY <1>2 DEF ListenerEnds
    <2>2. hears' \in BOOLEAN
      BY <2>1, Zenon
    <2> QED
      BY <1>2, <2>1, <2>2 DEF ListenerEnds, clocks, TypeOK
  <1>3. CASE StatusRaises
    <2>1. report.status \in Status /\ report.status # None
      BY <1>3, ClockAssumption DEF StatusRaises, TypeOK, Report
    <2> QED
      BY <1>2, <1>3, <2>1 DEF StatusRaises
  <1>4. CASE FaultRaises
    BY <1>2, <1>4 DEF FaultRaises, TypeOK
  <1>5. CASE Reconnect
    <2>1. hears' = TRUE /\ asked' = FALSE
      BY <1>5 DEF Reconnect
    <2>2. hears' \in BOOLEAN /\ asked' \in BOOLEAN
      BY <2>1, Zenon
    <2> QED
      BY <1>5, <2>2 DEF Reconnect, clocks, client, TypeOK
  <1>6. CASE Reprocess
    BY <1>6 DEF Reprocess, clocks, TypeOK
  <1>7. CASE TakeFault
    <2>1. fault' \in Int
      <3>1. answer.days \in Int /\ answer.time \in Int
        BY <1>7 DEF TakeFault, TypeOK, Answer, Times
      <3>2. CurrentTime \in Int
        BY DEF CurrentTime, TypeOK
      <3>3. Date(Minute(CurrentTime)) \in Int
        BY <3>2, Moment
      <3> QED
        BY <1>7, <3>1, <3>3 DEF TakeFault, DateOfFault
    <2> QED
      BY <1>7, <2>1 DEF TakeFault, clocks, TypeOK
  <1>8. CASE Fault
    <2>1. Minute(device) \in Int
      BY Moment DEF TypeOK
    <2> QED
      BY <1>8, <2>1 DEF Fault, client, TypeOK
  <1>9. CASE Tick
    <2>1. report' \in Report \cup {None}
      <3>1. CASE report = None
        BY <1>9, <3>1 DEF Tick, Aged
      <3>2. CASE report # None
        BY <1>9, <3>2 DEF Tick, Aged, TypeOK, Report
      <3> QED
        BY <3>1, <3>2
    <2>2. answer' \in Answer \cup {None}
      <3>1. CASE answer = None
        BY <1>9, <3>1 DEF Tick, Aged
      <3>2. CASE answer # None
        BY <1>9, <3>2 DEF Tick, Aged, TypeOK, Answer
      <3> QED
        BY <3>1, <3>2
    <2> QED
      BY <1>9, <2>1, <2>2 DEF Tick, client, TypeOK
  <1>10. ASSUME NEW other \in Others, SendStatus(other) PROVE TypeOK'
    <2>1. report' \in Report
      BY <1>10, Moment DEF SendStatus, Report, Status, Times, TypeOK
    <2> QED
      BY <1>10, <2>1 DEF SendStatus, clocks, client, TypeOK
  <1>11. ASSUME NEW entry \in Entries, RequestFault(entry) PROVE TypeOK'
    BY <1>11 DEF RequestFault, clocks, client, TypeOK
  <1>12. ASSUME NEW at \in faults, SpaAnswers(at) PROVE TypeOK'
    <2>1. at \in Int /\ Date(Minute(device)) \in Int
      BY Moment DEF TypeOK
    <2>2. answer' \in Answer
      BY <1>12, <2>1, MinuteType DEF SpaAnswers, Answer, Times
    <2> QED
      BY <1>12, <2>2 DEF SpaAnswers, clocks, client, TypeOK
  <1>13. ASSUME NEW minute \in 0 .. Minutes - 1, SetDevice(minute) PROVE TypeOK'
    <2>1. device' \in Int
      <3>1. Date(Minute(device)) \in Int
        BY Moment DEF TypeOK
      <3> QED
        BY <1>13, <3>1 DEF SetDevice
    <2>2. report' \in Report \cup {None}
      BY <1>13 DEF SetDevice, TypeOK, Report
    <2> QED
      BY <1>13, <2>1, <2>2 DEF SetDevice, Set, client, TypeOK
  <1>14. ASSUME NEW shift \in Shifts, SetHost(shift) PROVE TypeOK'
    <2>1. host' \in Int
      BY <1>14, ClockAssumption DEF SetHost, TypeOK
    <2> QED
      BY <1>14, <2>1 DEF SetHost, Set, client, TypeOK
  <1>15. CASE UNCHANGED vars
    BY <1>15 DEF vars, TypeOK
  <1> QED
    BY <1>1, <1>3, <1>4, <1>5, <1>6, <1>7, <1>8, <1>9, <1>10, <1>11, <1>12, <1>13, <1>14, <1>15 DEF Next

\* The offset of the client never exceeds a day, its record of an update is there
\* once the configuration is loaded, and what it dates faults by are whole minutes.
THEOREM TypeCorrect == Spec => []TypeOK
  <1>1. Init => TypeOK
    BY TypeInit
  <1>2. TypeOK /\ [Next]_vars => TypeOK'
    BY TypeKept
  <1> QED
    BY <1>1, <1>2, PTL DEF Spec

(***************************************************************************)
(* The time of the spa                                                     *)
(***************************************************************************)

\* A status update says what it was when it was sent, as long as the clock has not
\* been set, and that its time exists; so does an entry of the fault log.
ClockInv ==
  /\ TypeOK
  /\ report # None /\ report.valid =>
       /\ report.status[1] \in {None, TimeOfDay(Minute(device - report.age))}
       /\ report.date = Date(Minute(device - report.age))
  /\ answer # None => /\ answer.days = answer.date - Date(answer.at)
                      /\ answer.time \in {None, TimeOfDay(answer.at)}
  /\ TellsTimeOfDay

LEMMA ClockInit ==
  ASSUME Init
  PROVE  ClockInv
  BY TypeInit DEF Init, ClockInv, TellsTimeOfDay

\* What the estimate is worth when an update has come in: the day of the host, the
\* minute of the day at the spa when it sent the update, and the moment of the
\* minute at the host.
LEMMA EstimateIsNear ==
  ASSUME ClockInv, TakeStatus, ~UNCHANGED <<previous, offset, known>>, report.valid
  PROVE  TellsTimeOfDay'
  <1> DEFINE sent == device - report.age
             h == Date(Minute(host))
             d == Date(Minute(sent))
             th == TimeOfDay(Minute(host))
             td == TimeOfDay(Minute(sent))
             mh == host % PerMinute
             md == sent % PerMinute
  <1>0. report # None /\ report \in Report /\ report.age \in 0 .. MaxDelay
    BY DEF TakeStatus, ClockInv, TypeOK, Report
  <1>1. host \in Int /\ device \in Int /\ sent \in Int /\ report.age \in Nat
    BY <1>0, BoundsAreNatural DEF ClockInv, TypeOK
  <1>2. /\ h \in Int /\ th \in Int /\ mh \in 0 .. PerMinute - 1
        /\ host = Day * h + PerMinute * th + mh
    BY <1>1, Moment
  <1>3. /\ d \in Int /\ td \in Int /\ md \in 0 .. PerMinute - 1
        /\ sent = Day * d + PerMinute * td + md
    BY <1>1, Moment
  <1>4. report.status[1] = td /\ report.date = d
    BY <1>0 DEF TakeStatus, ClockInv
  <1>5. /\ host' = host /\ device' = device /\ offset' = td - th
        /\ known' = [late |-> report.age, apart |-> h - d]
    BY <1>4 DEF TakeStatus, OffsetTo, clocks
  <1>6. CurrentTime' = host + (td - th) * PerMinute
    BY <1>5 DEF CurrentTime
  <1> HIDE DEF h, d, th, td, mh, md
  <1>7. device = sent + report.age
    BY <1>1
  <1> HIDE DEF sent
  <1>8. (td - th) * PerMinute = PerMinute * td - PerMinute * th
        /\ PerMinute * td \in Int /\ PerMinute * th \in Int
    BY <1>2, <1>3, Lengths
  <1>9. (h - d) * Day = Day * h - Day * d /\ Day * h \in Int /\ Day * d \in Int
    BY <1>2, <1>3, Lengths
  <1>10. CurrentTime' - device - (h - d) * Day = mh - md - report.age
    BY <1>1, <1>2, <1>3, <1>6, <1>7, <1>8, <1>9, Lengths
  <1>11. mh - md - report.age \in 1 - PerMinute - report.age .. PerMinute - 1
    BY <1>1, <1>2, <1>3, Lengths
  <1>12. known'.late = report.age /\ known'.apart = h - d /\ Day' = Day /\ PerMinute' = PerMinute
    BY <1>5 DEF Day
  <1> QED
    BY <1>5, <1>10, <1>11, <1>12 DEF TellsTimeOfDay

\* Every step keeps the invariant.
LEMMA ClockKept ==
  ASSUME ClockInv, [Next]_vars
  PROVE  ClockInv'
  <1> USE Lengths, BoundsAreNatural
  <1>1. TypeOK /\ TypeOK'
    BY TypeKept DEF ClockInv
  <1>2. ASSUME UNCHANGED <<host, device, offset, known>>
        PROVE  TellsTimeOfDay'
    BY <1>2 DEF ClockInv, TellsTimeOfDay, CurrentTime, Day
  <1>3. CASE TakeStatus
    <2>1. report' = None /\ UNCHANGED <<host, device, answer>>
      BY <1>3 DEF TakeStatus, clocks
    <2>2. TellsTimeOfDay'
      <3>1. CASE UNCHANGED <<previous, offset, known>>
        BY <1>2, <2>1, <3>1
      <3>2. CASE ~UNCHANGED <<previous, offset, known>> /\ ~report.valid
        BY <1>3, <3>2 DEF TakeStatus, TellsTimeOfDay
      <3>3. CASE ~UNCHANGED <<previous, offset, known>> /\ report.valid
        BY <1>3, <3>3, EstimateIsNear
      <3> QED
        BY <3>1, <3>2, <3>3
    <2> QED
      BY <1>1, <2>1, <2>2 DEF ClockInv
  <1>4. CASE StatusRaises \/ FaultRaises
    <2>1. report' = None /\ answer' = None /\ UNCHANGED <<host, device, offset, known>>
      BY <1>4 DEF StatusRaises, FaultRaises, ListenerEnds, clocks
    <2> QED
      BY <1>1, <1>2, <2>1 DEF ClockInv
  <1>5. CASE Reconnect
    BY <1>1, <1>2, <1>5 DEF Reconnect, clocks, client, ClockInv
  <1>6. CASE Reprocess
    BY <1>1, <1>2, <1>6 DEF Reprocess, clocks, ClockInv
  <1>7. CASE TakeFault
    BY <1>1, <1>2, <1>7 DEF TakeFault, clocks, ClockInv
  <1>8. CASE Fault
    BY <1>1, <1>2, <1>8 DEF Fault, client, ClockInv
  <1>9. CASE Tick
    <2>1. /\ host' = host + 1 /\ device' = device + 1 /\ UNCHANGED <<offset, known>>
          /\ report' = Aged(report) /\ answer' = Aged(answer)
      BY <1>9 DEF Tick, client
    <2>2. host \in Int /\ device \in Int /\ offset \in Int
      BY <1>1 DEF TypeOK
    <2>3. TellsTimeOfDay'
      <3>1. CurrentTime' - device' = CurrentTime - device /\ CurrentTime \in Int
        BY <2>1, <2>2 DEF CurrentTime
      <3> QED
        BY <2>1, <3>1 DEF ClockInv, TellsTimeOfDay, Day
    <2>4. ASSUME report' # None, report'.valid
          PROVE  /\ report'.status[1] \in {None, TimeOfDay(Minute(device' - report'.age))}
                 /\ report'.date = Date(Minute(device' - report'.age))
      <3>1. report # None /\ report \in Report
        BY <1>1, <2>1, <2>4 DEF Aged, TypeOK
      <3>2. report' = [report EXCEPT !.age = @ + 1]
        BY <2>1, <3>1 DEF Aged
      <3>3. report.age \in Int
        BY <3>1 DEF Report
      <3>4. /\ report'.status = report.status /\ report'.date = report.date
            /\ report'.valid = report.valid /\ report'.age = report.age + 1
        BY <3>1, <3>2 DEF Report
      <3>5. device' - report'.age = device - report.age
        BY <2>1, <2>2, <3>3, <3>4
      <3> QED
        BY <2>4, <3>1, <3>4, <3>5 DEF ClockInv
    <2>5. ASSUME answer' # None
          PROVE  /\ answer'.days = answer'.date - Date(answer'.at)
                 /\ answer'.time \in {None, TimeOfDay(answer'.at)}
      <3>1. answer # None /\ answer \in Answer
        BY <1>1, <2>1, <2>5 DEF Aged, TypeOK
      <3>2. answer' = [answer EXCEPT !.age = @ + 1]
        BY <2>1, <3>1 DEF Aged
      <3>3. /\ answer'.days = answer.days /\ answer'.date = answer.date
            /\ answer'.at = answer.at /\ answer'.time = answer.time
        BY <3>1, <3>2 DEF Answer
      <3> QED
        BY <3>1, <3>3 DEF ClockInv
    <2> QED
      BY <1>1, <2>3, <2>4, <2>5 DEF ClockInv, Minute, Date, TimeOfDay
  <1>10. ASSUME NEW other \in Others, SendStatus(other) PROVE ClockInv'
    <2>1. /\ UNCHANGED <<host, device, offset, known, answer>>
          /\ \E time \in {None, TimeOfDay(Minute(device))} :
               report' = [status |-> <<time, other>>, date |-> Date(Minute(device)),
                          age |-> 0, valid |-> TRUE]
      BY <1>10 DEF SendStatus, clocks, client
    <2>2. device' - report'.age = device
      BY <1>1, <2>1 DEF TypeOK
    <2> QED
      BY <1>1, <1>2, <2>1, <2>2 DEF ClockInv
  <1>11. ASSUME NEW entry \in Entries, RequestFault(entry) PROVE ClockInv'
    BY <1>1, <1>2, <1>11 DEF RequestFault, clocks, client, ClockInv
  <1>12. ASSUME NEW at \in faults, SpaAnswers(at) PROVE ClockInv'
    <2>1. /\ UNCHANGED <<host, device, offset, known, report>>
          /\ \E time \in {None, TimeOfDay(at)} :
               answer' = [days |-> Date(Minute(device)) - Date(at), time |-> time,
                          at |-> at, date |-> Date(Minute(device)), age |-> 0]
      BY <1>12 DEF SpaAnswers, clocks, client
    <2> QED
      BY <1>1, <1>2, <2>1 DEF ClockInv
  <1>13. ASSUME NEW minute \in 0 .. Minutes - 1, SetDevice(minute) PROVE ClockInv'
    <2>1. known' = None /\ answer' = answer
          /\ report' = IF report = None THEN None ELSE [report EXCEPT !.valid = FALSE]
      BY <1>13 DEF SetDevice, Set
    <2>2. report' # None => ~report'.valid
      <3>1. CASE report = None
        BY <2>1, <3>1
      <3>2. CASE report # None
        BY <1>1, <2>1, <3>2 DEF TypeOK, Report
      <3> QED
        BY <3>1, <3>2
    <2> QED
      BY <1>1, <2>1, <2>2 DEF ClockInv, TellsTimeOfDay
  <1>14. ASSUME NEW shift \in Shifts, SetHost(shift) PROVE ClockInv'
    BY <1>1, <1>14 DEF SetHost, Set, ClockInv, TellsTimeOfDay
  <1>15. CASE UNCHANGED vars
    BY <1>1, <1>2, <1>15 DEF vars, ClockInv
  <1> QED
    BY <1>3, <1>4, <1>5, <1>6, <1>7, <1>8, <1>9, <1>10, <1>11, <1>12, <1>13, <1>14, <1>15 DEF Next

\* get_current_time() tells the time of day at the spa, less than a minute and the
\* delay of one update off: however far the two clocks are apart, in whichever
\* order updates are taken in, skipped and parsed again, and for any length of time
\* in which nobody sets a clock.
THEOREM TimeOfDayIsTold == Spec => []TellsTimeOfDay
  <1>1. Init => ClockInv
    BY ClockInit
  <1>2. ClockInv /\ [Next]_vars => ClockInv'
    BY ClockKept
  <1>3. ClockInv => TellsTimeOfDay
    BY DEF ClockInv
  <1> QED
    BY <1>1, <1>2, <1>3, PTL DEF Spec

\* Away from midnight, the estimate is of the same date as the clock of the spa.
LEMMA SameDate ==
  ASSUME NEW c \in Int, NEW x \in Int, NEW late \in Nat,
         c - x \in 1 - PerMinute - late .. PerMinute - 1,
         x % Day \in late + PerMinute .. Day - PerMinute
  PROVE  Date(Minute(c)) = Date(Minute(x))
  <1> DEFINE q == x \div Day
             w == x % Day
  <1>1. q \in Int /\ w \in 0 .. Day - 1 /\ x = Day * q + w
    <2>1. Day \in Nat \ {0}
      BY Lengths
    <2> QED
      BY <2>1, Division
  <1>2. w \in late + PerMinute .. Day - PerMinute
    OBVIOUS
  <1> HIDE DEF q, w
  <1>3. Day * q \in Int
    BY <1>1, Lengths
  <1>4. w + (c - x) \in 0 .. Day - 1
    BY <1>1, <1>2, Lengths
  <1>5. c = Day * q + (w + (c - x))
    BY <1>1, <1>3
  <1> QED
    BY <1>1, <1>4, <1>5, DateOfMoment

\* An entry that is taken in then is dated right.
LEMMA FaultDated ==
  ASSUME ClockInv, Next, answer # None, answer' = None, hears', known # None, known.apart = 0,
         AwayFromMidnight
  PROVE  fault' = answer.at
  <1> USE Lengths, BoundsAreNatural
  <1>1. answer \in Answer
    BY DEF ClockInv, TypeOK
  <1>2. TakeFault
    <2>1. ~Tick
      <3>1. SUFFICES ASSUME Tick PROVE FALSE
        OBVIOUS
      <3>2. TypeOK'
        BY TypeKept DEF ClockInv
      <3>3. answer' = [answer EXCEPT !.age = @ + 1] /\ answer.age < MaxDelay
        BY <3>1 DEF Tick, Aged
      <3>4. answer' \in Answer
        BY <1>1, <3>3 DEF Answer
      <3> QED
        BY <3>4, ClockAssumption
    <2>2. ~ \E at \in faults : SpaAnswers(at)
      BY DEF SpaAnswers
    <2>3. ~StatusRaises /\ ~FaultRaises
      BY DEF StatusRaises, FaultRaises, ListenerEnds
    <2> QED
      BY <2>1, <2>2, <2>3 DEF Next, Reconnect, TakeStatus, Reprocess, Fault, RequestFault, SendStatus, SetDevice, SetHost, Set
  <1>3. CurrentTime \in Int /\ device \in Int
    BY DEF CurrentTime, ClockInv, TypeOK
  <1>4. Date(Minute(CurrentTime)) = answer.date
    <2>1. known.late \in Nat
      BY DEF ClockInv, TypeOK
    <2>2. CurrentTime - device \in 1 - PerMinute - known.late .. PerMinute - 1
      BY <1>3 DEF ClockInv, TellsTimeOfDay
    <2> QED
      BY <1>3, <2>1, <2>2, SameDate DEF AwayFromMidnight
  <1>5. answer.at \in Int /\ answer.date \in Int
    BY <1>1 DEF Answer
  <1>6. /\ Date(answer.at) \in Int /\ TimeOfDay(answer.at) \in Int
        /\ answer.at = Minutes * Date(answer.at) + TimeOfDay(answer.at)
    <2>1. /\ TimeOfDay(answer.at) \in 0 .. Minutes - 1 /\ Date(answer.at) \in Int
          /\ answer.at = Minutes * Date(answer.at) + TimeOfDay(answer.at)
      BY ONLY <1>5, MinuteType
    <2> QED
      BY <2>1
  <1>7. answer.date - answer.days = Date(answer.at) /\ answer.time = TimeOfDay(answer.at)
    BY <1>2, <1>5, <1>6 DEF ClockInv, TakeFault
  <1>8. fault' = (answer.date - answer.days) * Minutes + answer.time
    BY <1>2, <1>4 DEF TakeFault, DateOfFault
  <1> QED
    BY <1>6, <1>7, <1>8

\* Faults are dated on the day and at the minute they happened, under the
\* conditions that the property names: they are all that is needed.
THEOREM FaultsAreDated == Spec => DatesFaults
  <1>1. Init => ClockInv
    BY ClockInit
  <1>2. ClockInv /\ [Next]_vars => ClockInv'
    BY ClockKept
  <1>3. ClockInv /\ [Next]_vars =>
          [answer # None /\ answer' = None /\ hears' /\ known # None /\ known.apart = 0
             /\ AwayFromMidnight => fault' = answer.at]_vars
    BY FaultDated
  <1> QED
    BY <1>1, <1>2, <1>3, PTL DEF Spec, DatesFaults
=============================================================================
