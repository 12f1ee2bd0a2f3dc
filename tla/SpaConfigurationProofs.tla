----------------------- MODULE SpaConfigurationProofs -----------------------
(***************************************************************************)
(* What holds of SpaConfiguration for any number of status updates,        *)
(* request tasks, losses and calls.                                        *)
(***************************************************************************)
EXTENDS SpaConfiguration, TLAPS

(***************************************************************************)
(* The event is set with what completes the settings and the status, and   *)
(* then the controls show the last status update.                          *)
(***************************************************************************)
Views == [Groups -> Statuses \cup {None}]

Complete(flags, last, view) ==
  /\ Settings \subseteq flags
  /\ last \in Statuses \ (BadHeat \cup BadWiFi)
  /\ view["range"] = last

\* A status update whose clock is bad is shown only by a check that was complete:
\* without that part, an update could be heard because its like had been shown.
StateInv ==
  /\ loaded \subseteq Settings
  /\ status \in Statuses \cup {None}
  /\ shown \in Views
  /\ configured \in BOOLEAN
  /\ configured => Settings \subseteq loaded /\ status # None
  /\ Complete(loaded, status, shown) => configured
  /\ shown["range"] \in BadClock \ (BadHeat \cup BadWiFi) => configured
  /\ status \in Statuses \ BadClock => shown["range"] = status
  /\ ControlsShowStatus

LoadedInv ==
  /\ StateInv
  /\ spa \in Statuses
  /\ asked \subseteq Settings
  /\ wire \in Seq(Messages)

\* The device configuration is asked for, and the status update is not.
LEMMA SettingsKnown ==
  /\ "device" \in Settings /\ "status" \notin Settings
  /\ \A i \in 1 .. Len(Requests) : Requests[i] \in Settings
  /\ None \notin Settings \cup Statuses \cup {Broken}
  <1>1. Requests \in Seq({"module", "system", "setup", "device", "filter"})
    BY ConfigurationAssumption
  <1>2. DOMAIN Requests = 1 .. Len(Requests)
        /\ \A i \in 1 .. Len(Requests) : Requests[i] \in {"module", "system", "setup", "device", "filter"}
    BY <1>1
  <1>3. "device" \in Settings
    BY ConfigurationAssumption
  <1>4. "status" \notin {"module", "system", "setup", "device", "filter"}
    OBVIOUS
  <1>5. None \notin Settings \cup Statuses \cup {Broken}
    BY ConfigurationAssumption DEF Messages
  <1> QED
    BY <1>2, <1>3, <1>4, <1>5 DEF Settings

\* What the controls show of an update that is parsed for the first time, and of
\* one that is parsed again.
LEMMA FirstParseShows ==
  ASSUME NEW flags, NEW s \in Statuses, NEW view \in Views
  PROVE  /\ Parsed(flags, s, view, FALSE) \in Views
         /\ s \in BadClock => Parsed(flags, s, view, FALSE) = view
         /\ s \notin BadClock => Parsed(flags, s, view, FALSE)["range"] = s
         /\ s \notin BadClock \cup BadHeat /\ "device" \in flags
              => \A g \in Groups : Parsed(flags, s, view, FALSE)[g] = s
  <1>1. CASE s \in BadClock
    BY <1>1 DEF Parsed
  <1>2. CASE s \notin BadClock /\ s \in BadHeat
    <2>1. Parsed(flags, s, view, FALSE) = [view EXCEPT !["range"] = s]
      BY <1>2 DEF Parsed
    <2> QED
      BY <1>2, <2>1 DEF Views, Groups
  <1>3. CASE s \notin BadClock /\ s \notin BadHeat
    <2>1. Parsed(flags, s, view, FALSE)
            = [g \in Groups |-> IF g \in Existing(flags) THEN s ELSE view[g]]
      BY <1>3 DEF Parsed
    <2>2. "range" \in Existing(flags) /\ "range" \in Groups
      BY DEF Existing, Groups
    <2>3. "device" \in flags => Existing(flags) = Groups
      BY DEF Existing
    <2> QED
      BY <1>3, <2>1, <2>2, <2>3 DEF Views
  <1> QED
    BY <1>1, <1>2, <1>3

LEMMA SecondParseShows ==
  ASSUME NEW flags, NEW s \in Statuses, NEW view \in Views
  PROVE  /\ Parsed(flags, s, view, TRUE) \in Views
         /\ Parsed(flags, s, view, TRUE)["range"] = s
         /\ s \notin BadHeat /\ "device" \in flags
              => \A g \in Groups : Parsed(flags, s, view, TRUE)[g] = s
  <1>1. CASE s \in BadHeat
    <2>1. Parsed(flags, s, view, TRUE) = [view EXCEPT !["range"] = s]
      BY <1>1 DEF Parsed
    <2> QED
      BY <1>1, <2>1 DEF Views, Groups
  <1>2. CASE s \notin BadHeat
    <2>1. Parsed(flags, s, view, TRUE)
            = [g \in Groups |-> IF g \in Existing(flags) THEN s ELSE view[g]]
      BY <1>2 DEF Parsed
    <2>2. "range" \in Existing(flags) /\ "range" \in Groups
      BY DEF Existing, Groups
    <2>3. "device" \in flags => Existing(flags) = Groups
      BY DEF Existing
    <2> QED
      BY <1>2, <2>1, <2>2, <2>3 DEF Views
  <1> QED
    BY <1>1, <1>2

\* A test of completeness leaves the event and the controls as they should be.
LEMMA CheckLoads ==
  ASSUME configured \in BOOLEAN,
         NEW flags, NEW last \in Statuses \cup {None}, NEW view \in Views,
         configured => Settings \subseteq flags /\ last # None,
         Check(flags, last, view)
  PROVE  /\ configured' \in BOOLEAN
         /\ shown' \in Views
         /\ configured' <=> configured \/ Complete(flags, last, shown')
         /\ configured' /\ last \notin BadHeat => \A g \in Groups : shown'[g] = last
         /\ IF Settings \subseteq flags /\ last # None THEN shown'["range"] = last
            ELSE shown' = view /\ configured' = configured
  <1>1. CASE Settings \subseteq flags /\ last # None
    <2>1. shown' = Parsed(flags, last, view, TRUE) /\ last \in Statuses /\ "device" \in flags
      BY <1>1, SettingsKnown DEF Check
    <2>2. shown' \in Views /\ shown'["range"] = last
          /\ (last \notin BadHeat => \A g \in Groups : shown'[g] = last)
      BY <2>1, SecondParseShows
    <2>3. configured' = (configured \/ last \notin BadHeat \cup BadWiFi)
      BY <1>1 DEF Check, Raises
    <2> QED
      BY <1>1, <2>1, <2>2, <2>3 DEF Complete
  <1>2. CASE ~(Settings \subseteq flags /\ last # None)
    <2>1. shown' = view /\ configured' = configured /\ ~configured
      BY <1>2 DEF Check
    <2>2. ~Complete(flags, last, view)
      BY <1>2, SettingsKnown DEF Complete
    <2> QED
      BY <1>2, <2>1, <2>2
  <1> QED
    BY <1>1, <1>2

\* Taking a setting in: the flag is set, and with the last one the event.
LEMMA SettingLoads ==
  ASSUME StateInv, NEW k \in Settings, TakeSetting(k)
  PROVE  /\ StateInv'
         /\ loaded' = loaded \cup {k} /\ status' = status
         /\ configured' = (configured \/ Complete(loaded', status', shown'))
         /\ shown["range"] = status => shown'["range"] = status
  <1>1. status' = status
    BY DEF TakeSetting
  <1>2. CASE k \in {"device", "setup"} /\ k \in loaded
    <2>1. loaded' = loaded /\ shown' = shown /\ configured' = configured
      BY <1>2 DEF TakeSetting
    <2> QED
      BY <1>1, <1>2, <2>1 DEF StateInv, ControlsShowStatus, Complete
  <1>3. CASE ~(k \in {"device", "setup"} /\ k \in loaded)
    <2>1. loaded' = loaded \cup {k} /\ Check(loaded', status, shown)
      BY <1>3, Zenon DEF TakeSetting
    <2>2. configured => Settings \subseteq loaded' /\ status # None
      BY <2>1 DEF StateInv
    <2>3. /\ configured' \in BOOLEAN
          /\ shown' \in Views
          /\ configured' <=> configured \/ Complete(loaded', status, shown')
          /\ configured' /\ status \notin BadHeat => \A g \in Groups : shown'[g] = status
          /\ IF Settings \subseteq loaded' /\ status # None THEN shown'["range"] = status
             ELSE shown' = shown /\ configured' = configured
      BY <2>1, <2>2, CheckLoads DEF StateInv
    <2>4. configured' = (configured \/ Complete(loaded', status', shown'))
      BY <1>1, <2>3 DEF StateInv
    <2>5. configured' => Settings \subseteq loaded' /\ status' # None
      BY <1>1, <2>2, <2>4, SettingsKnown DEF Complete
    <2>6. shown'["range"] \in BadClock \ (BadHeat \cup BadWiFi) => configured'
      <3>1. CASE Settings \subseteq loaded' /\ status # None
        BY <1>1, <2>3, <2>4, <3>1 DEF StateInv, Complete
      <3>2. CASE ~(Settings \subseteq loaded' /\ status # None)
        BY <2>3, <3>2 DEF StateInv
      <3> QED
        BY <3>1, <3>2
    <2>7. status' \in Statuses \ BadClock => shown'["range"] = status'
      BY <1>1, <2>3, SettingsKnown DEF StateInv
    <2>8. ControlsShowStatus'
      BY <1>1, <2>3 DEF ControlsShowStatus
    <2>9. shown["range"] = status => shown'["range"] = status
      BY <2>3
    <2>10. loaded' \subseteq Settings
      BY <2>1 DEF StateInv
    <2> QED
      BY <1>1, <2>1, <2>3, <2>4, <2>5, <2>6, <2>7, <2>8, <2>9, <2>10 DEF StateInv
  <1> QED
    BY <1>2, <1>3

\* Taking a status update in: it is remembered, and shown unless it raises.
LEMMA StatusLoads ==
  ASSUME StateInv, NEW s \in Statuses, TakeStatus(s)
  PROVE  /\ StateInv'
         /\ loaded' = loaded /\ status' = s
         /\ configured' = (configured \/ Complete(loaded', status', shown'))
  <1> USE ConfigurationAssumption
  <1>0. loaded' = loaded /\ s # None
    BY SettingsKnown DEF TakeStatus
  <1> DEFINE view == Parsed(loaded, s, shown, FALSE)
  <1>1. /\ view \in Views
        /\ s \in BadClock => view = shown
        /\ s \notin BadClock => view["range"] = s
        /\ s \notin BadClock \cup BadHeat /\ "device" \in loaded => \A g \in Groups : view[g] = s
    BY FirstParseShows DEF StateInv
  <1>2. CASE s = status
    <2>1. status' = status /\ shown' = shown /\ configured' = configured
      BY <1>2 DEF TakeStatus
    <2> QED
      BY <1>0, <1>2, <2>1 DEF StateInv, ControlsShowStatus, Complete
  <1>3. configured => "device" \in loaded
    BY SettingsKnown DEF StateInv
  <1> HIDE DEF view
  <1>4. ASSUME s # status, status' = s, shown' = view, configured' = configured,
               Complete(loaded, s, view) => configured
        PROVE  /\ StateInv'
               /\ configured' = (configured \/ Complete(loaded', status', shown'))
    <2>1. ControlsShowStatus'
      BY <1>1, <1>3, <1>4 DEF ControlsShowStatus
    <2>2. view["range"] \in BadClock \ (BadHeat \cup BadWiFi) => configured
      BY <1>1 DEF StateInv
    <2>3. configured' => Settings \subseteq loaded' /\ status' # None
      BY <1>0, <1>4 DEF StateInv
    <2>4. Complete(loaded', status', shown') => configured'
      BY <1>0, <1>4 DEF Complete
    <2>5. status' \in Statuses \ BadClock => shown'["range"] = status'
      BY <1>1, <1>4
    <2> QED
      BY <1>0, <1>1, <1>4, <2>1, <2>2, <2>3, <2>4, <2>5 DEF StateInv
  <1>5. CASE s # status /\ Raises(s, FALSE)
    <2>1. status' = s /\ shown' = view /\ configured' = configured
      BY <1>5 DEF TakeStatus, view
    <2>2. Complete(loaded, s, view) => configured
      BY <1>1, <1>5 DEF Raises, Complete, StateInv
    <2> QED
      BY <1>0, <1>4, <1>5, <2>1, <2>2
  <1>6. CASE s # status /\ ~Raises(s, FALSE) /\ configured
    <2>1. status' = s /\ shown' = view /\ configured' = configured
      BY <1>6 DEF TakeStatus, view
    <2> QED
      BY <1>0, <1>4, <1>6, <2>1
  <1>7. CASE s # status /\ ~Raises(s, FALSE) /\ ~configured
    <2>1. status' = s /\ Check(loaded, s, view)
      BY <1>7 DEF TakeStatus, view
    <2>2. /\ configured' \in BOOLEAN
          /\ shown' \in Views
          /\ configured' <=> Complete(loaded, s, shown')
          /\ configured' /\ s \notin BadHeat => \A g \in Groups : shown'[g] = s
          /\ IF Settings \subseteq loaded THEN shown'["range"] = s
             ELSE shown' = view /\ configured' = configured
      BY <1>0, <1>1, <1>7, <2>1, CheckLoads DEF StateInv
    <2>3. s \notin BadClock \cup BadHeat \cup BadWiFi
      BY <1>7 DEF Raises
    <2>4. shown'["range"] = s
      BY <1>1, <2>2, <2>3
    <2>5. ControlsShowStatus'
      BY <2>1, <2>2, <2>3 DEF ControlsShowStatus
    <2>6. configured' => Settings \subseteq loaded' /\ status' # None
      BY <1>0, <2>1, <2>2 DEF Complete
    <2>7. configured' = (configured \/ Complete(loaded', status', shown'))
      BY <1>0, <1>7, <2>1, <2>2
    <2> QED
      BY <1>0, <2>1, <2>2, <2>3, <2>4, <2>5, <2>6, <2>7 DEF StateInv
  <1> QED
    BY <1>0, <1>2, <1>5, <1>6, <1>7 DEF TakeStatus

\* A message that raises at once leaves everything as it was.
LEMMA SameState ==
  ASSUME StateInv, UNCHANGED state
  PROVE  StateInv'
  BY DEF state, StateInv, ControlsShowStatus, Complete

\* One message more is still a sequence of messages.
LEMMA AppendKept ==
  ASSUME NEW Sort, NEW q \in Seq(Sort), NEW m \in Sort
  PROVE  Append(q, m) \in Seq(Sort)
  OBVIOUS

\* Every step keeps the invariant.
LEMMA LoadedInvKept ==
  ASSUME LoadedInv, [Next]_vars
  PROVE  LoadedInv'
  <1> USE ConfigurationAssumption
  <1>1. CASE Receive
    <2>1. Head(wire) \in Messages /\ wire' \in Seq(Messages)
      BY <1>1 DEF Receive, LoadedInv
    <2>2. spa' = spa /\ asked' = asked
      BY <1>1 DEF Receive
    <2>3. StateInv'
      <3>1. CASE Head(wire) \in Settings /\ TakeSetting(Head(wire))
        BY <3>1, SettingLoads DEF LoadedInv
      <3>2. CASE Head(wire) \in Statuses /\ TakeStatus(Head(wire))
        BY <3>2, StatusLoads DEF LoadedInv
      <3>3. CASE TakeBroken
        BY <3>3, SameState DEF TakeBroken, state, LoadedInv
      <3> QED
        BY <1>1, <3>1, <3>2, <3>3 DEF Receive
    <2> QED
      BY <2>1, <2>2, <2>3 DEF LoadedInv
  <1>2. ASSUME UNCHANGED state, wire' \in Seq(Messages), spa' \in Statuses, asked' \subseteq Settings
        PROVE  LoadedInv'
    BY <1>2, SameState DEF LoadedInv
  <1>3. CASE Connect \/ Call
    BY <1>2, <1>3 DEF Connect, Call, LoadedInv
  <1>4. CASE Drop
    <2>1. UNCHANGED <<state, spa>> /\ wire' \in Seq(Messages) /\ asked' \subseteq Settings
      BY <1>4 DEF Drop
    <2> QED
      BY <1>2, <2>1 DEF LoadedInv
  <1>5. ASSUME NEW r \in Requesters, Requesting(r)
        PROVE  LoadedInv'
    <2>1. UNCHANGED <<state, wire, spa>>
      BY <1>5 DEF Requesting, Request, Finish, Retry, GiveUp, Overflow, network
    <2>2. CASE Request(r)
      <3>1. Requests[requester[r].at] \in Settings
        BY <2>2, SettingsKnown DEF Request
      <3>2. asked' \subseteq Settings
        BY <2>2, <3>1 DEF Request, LoadedInv
      <3> QED
        BY <1>2, <2>1, <3>2 DEF LoadedInv
    <2>3. CASE ~Request(r)
      <3>1. asked' = asked
        BY <1>5, <2>3 DEF Requesting, Finish, Retry, GiveUp, Overflow, network
      <3> QED
        BY <1>2, <2>1, <3>1 DEF LoadedInv
    <2> QED
      BY <2>2, <2>3
  <1>6. ASSUME NEW k \in Settings, SpaAnswers(k) \/ SpaIgnores(k)
        PROVE  LoadedInv'
    <2>1. UNCHANGED <<state, spa>>
      BY <1>6 DEF SpaAnswers, SpaIgnores
    <2>2. asked' \subseteq Settings
      BY <1>6 DEF SpaAnswers, SpaIgnores, LoadedInv
    <2>3. k \in Messages /\ wire \in Seq(Messages)
      BY DEF Messages, LoadedInv
    <2>4. wire' = Append(wire, k) \/ wire' = wire
      BY <1>6 DEF SpaAnswers, SpaIgnores, Sends
    <2>5. wire' \in Seq(Messages)
      BY <2>3, <2>4, AppendKept
    <2> QED
      BY <1>2, <2>1, <2>2, <2>5 DEF LoadedInv
  <1>10. CASE SpaFalters
    <2>1. UNCHANGED <<state, spa>> /\ wire' \in Seq(Messages)
      BY <1>10 DEF SpaFalters, Sends, LoadedInv, Messages
    <2>2. asked' \subseteq Settings
      BY <1>10 DEF SpaFalters, LoadedInv
    <2> QED
      BY <1>2, <2>1, <2>2 DEF LoadedInv
  <1>7. CASE SpaReports
    <2>1. UNCHANGED <<state, spa, asked>> /\ wire' \in Seq(Messages)
      BY <1>7 DEF SpaReports, Sends, LoadedInv, Messages
    <2> QED
      BY <1>2, <2>1 DEF LoadedInv
  <1>8. CASE SpaChanges
    <2>1. UNCHANGED <<state, wire, asked>> /\ spa' \in Statuses
      BY <1>8 DEF SpaChanges
    <2> QED
      BY <1>2, <2>1 DEF LoadedInv
  <1>9. CASE UNCHANGED vars
    <2>1. UNCHANGED state /\ UNCHANGED <<wire, spa, asked>>
      BY <1>9 DEF vars, state
    <2> QED
      BY <1>2, <2>1 DEF LoadedInv
  <1> QED
    BY <1>1, <1>3, <1>4, <1>5, <1>6, <1>7, <1>8, <1>9, <1>10 DEF Next

\* Nothing is loaded, and nothing shown, before the first message.
LEMMA InitLoaded ==
  ASSUME Init
  PROVE  LoadedInv
  <1>1. loaded = {} /\ status = None /\ configured = FALSE /\ shown \in Views /\ shown["range"] = None
    BY DEF Init, Views, Groups
  <1>2. ~Complete(loaded, status, shown) /\ None \notin Statuses
    BY <1>1, SettingsKnown DEF Complete
  <1>3. wire \in Seq(Messages) /\ spa \in Statuses /\ asked \subseteq Settings
    BY DEF Init
  <1>4. ControlsShowStatus
    BY <1>1, Zenon DEF ControlsShowStatus
  <1>5. shown["range"] \notin BadClock \ (BadHeat \cup BadWiFi)
    BY <1>1, <1>2, ConfigurationAssumption
  <1> QED
    BY <1>1, <1>2, <1>3, <1>4, <1>5 DEF LoadedInv, StateInv

\* Whatever arrives in whatever order, however often, over however many
\* connections: a client whose configuration is loaded shows in every control
\* the last status update it has received, unless that one raised on the way.
THEOREM ControlsAreCurrent == Spec => []ControlsShowStatus
  <1>1. Init => LoadedInv
    BY InitLoaded
  <1>2. LoadedInv /\ [Next]_vars => LoadedInv'
    BY LoadedInvKept
  <1>3. LoadedInv => ControlsShowStatus
    BY DEF LoadedInv, StateInv
  <1> QED
    BY <1>1, <1>2, <1>3, PTL DEF Spec

(***************************************************************************)
(* configuration_loaded implements ConfigurationGate.                      *)
(***************************************************************************)

\* The gate's condition after a step is the client's.
LEMMA HeardAllNext ==
  ASSUME loaded' \subseteq Settings
  PROVE  Heard' = Settings \cup {"status"} <=> Complete(loaded', status', shown')
  <1>1. "status" \notin Settings
    BY SettingsKnown
  <1>2. StatusHeard' <=> /\ status' \in Statuses \ (BadHeat \cup BadWiFi)
                         /\ shown'["range"] = status'
    BY DEF StatusHeard
  <1>3. Heard' = loaded' \cup (IF StatusHeard' THEN {"status"} ELSE {})
    BY DEF Heard
  <1> QED
    BY <1>1, <1>2, <1>3 DEF Complete

\* Taking any message in is a step of the gate.
LEMMA GateHears ==
  ASSUME StateInv, StateInv', NEW ps \in SUBSET (Settings \cup {"status"}),
         configured' = (configured \/ Complete(loaded', status', shown')),
         Heard' = Heard \cup ps
  PROVE  Gate!Next
  <1>1. Heard' = Settings \cup {"status"} <=> Complete(loaded', status', shown')
    BY HeardAllNext DEF StateInv
  <1>2. configured' = (configured \/ Heard' = Settings \cup {"status"})
    BY <1>1
  <1>3. Gate!Hear(ps)
    BY <1>2 DEF Gate!Hear
  <1> QED
    BY <1>3 DEF Gate!Next

\* A setting is heard, and with it perhaps the last status update.
LEMMA SettingHeard ==
  ASSUME StateInv, NEW k \in Settings, TakeSetting(k)
  PROVE  Gate!Next
  <1>1. /\ StateInv'
        /\ loaded' = loaded \cup {k} /\ status' = status
        /\ configured' = (configured \/ Complete(loaded', status', shown'))
        /\ shown["range"] = status => shown'["range"] = status
    BY SettingLoads
  <1>2. StatusHeard => StatusHeard'
    BY <1>1 DEF StatusHeard
  <1> DEFINE ps == {k} \cup (IF StatusHeard' THEN {"status"} ELSE {})
  <1>3. ps \in SUBSET (Settings \cup {"status"})
    OBVIOUS
  <1>4. Heard' = Heard \cup ps
    BY <1>1, <1>2 DEF Heard
  <1> HIDE DEF ps
  <1> QED
    BY <1>1, <1>3, <1>4, GateHears

\* A status update is heard, or voids the one before it.
LEMMA StatusIsHeard ==
  ASSUME StateInv, NEW s \in Statuses, TakeStatus(s)
  PROVE  Gate!Next
  <1>1. /\ StateInv'
        /\ loaded' = loaded /\ status' = s
        /\ configured' = (configured \/ Complete(loaded', status', shown'))
    BY StatusLoads
  <1>2. CASE StatusHeard'
    <2>1. Heard' = Heard \cup {"status"}
      BY <1>1, <1>2 DEF Heard
    <2> QED
      BY <1>1, <2>1, GateHears
  <1>3. CASE ~StatusHeard'
    <2>1. Heard' = Heard \ {"status"}
      BY <1>1, <1>3, SettingsKnown DEF Heard, StateInv
    <2>2. ~Complete(loaded', status', shown')
      BY <1>3 DEF Complete, StatusHeard
    <2>3. configured' = configured
      BY <1>1, <2>2 DEF StateInv
    <2>4. Gate!Void("status")
      BY <2>1, <2>3 DEF Gate!Void
    <2> QED
      BY <2>4 DEF Gate!Next
  <1> QED
    BY <1>2, <1>3

\* Every step of the client is a step of the gate or leaves it alone.
LEMMA GateStep ==
  ASSUME LoadedInv, [Next]_vars
  PROVE  Gate!Next \/ UNCHANGED <<Heard, configured>>
  <1> USE ConfigurationAssumption
  <1>1. CASE Receive
    <2>1. CASE Head(wire) \in Settings /\ TakeSetting(Head(wire))
      BY <2>1, SettingHeard DEF LoadedInv
    <2>2. CASE Head(wire) \in Statuses /\ TakeStatus(Head(wire))
      BY <2>2, StatusIsHeard DEF LoadedInv
    <2>3. CASE TakeBroken
      BY <2>3 DEF TakeBroken, Heard, StatusHeard
    <2> QED
      BY <1>1, <2>1, <2>2, <2>3 DEF Receive
  <1>2. CASE UNCHANGED state
    BY <1>2 DEF state, Heard, StatusHeard
  <1>3. CASE UNCHANGED vars
    BY <1>3 DEF vars, Heard, StatusHeard
  <1>4. ASSUME NEW r \in Requesters, Requesting(r)
        PROVE  UNCHANGED state
    BY <1>4 DEF Requesting, Request, Finish, Retry, GiveUp, Overflow, state
  <1>5. ASSUME NEW k \in Settings, SpaAnswers(k) \/ SpaIgnores(k)
        PROVE  UNCHANGED state
    BY <1>5 DEF SpaAnswers, SpaIgnores, state
  <1>6. CASE Connect \/ Drop \/ Call \/ SpaFalters \/ SpaReports \/ SpaChanges
    BY <1>2, <1>6 DEF Connect, Drop, Call, SpaFalters, SpaReports, SpaChanges
  <1> QED
    BY <1>1, <1>2, <1>3, <1>4, <1>5, <1>6 DEF Next

\* For any number of statuses, tasks, losses and calls, the loaded event of the
\* client behaves as the abstract gate does: it opens with the message that
\* completes the six kinds, in whatever order they come, and never closes.
THEOREM ClientImplementsGate == Spec => ImplementsGate
  <1>1. Init => LoadedInv
    BY InitLoaded
  <1>2. LoadedInv /\ [Next]_vars => LoadedInv'
    BY LoadedInvKept
  <1>3. Init => Gate!Init
    BY SettingsKnown DEF Init, Gate!Init, Heard, StatusHeard
  <1>4. LoadedInv /\ [Next]_vars => [Gate!Next]_<<Heard, configured>>
    BY GateStep
  <1> QED
    BY <1>1, <1>2, <1>3, <1>4, PTL DEF Spec, ImplementsGate, Gate!Spec

(***************************************************************************)
(* Types                                                                   *)
(***************************************************************************)

LEMMA LengthsAreNatural ==
  Len(Requests) \in Nat /\ RecursionLimit \in Nat /\ MaxWire \in Nat
  <1>1. Requests \in Seq({"module", "system", "setup", "device", "filter"})
    BY ConfigurationAssumption
  <1> QED
    BY <1>1, ConfigurationAssumption

\* What the network does to the queue.
LEMMA WireKept ==
  ASSUME LoadedInv, Len(wire) <= MaxWire, [Next]_vars
  PROVE  Len(wire') <= MaxWire
  <1> USE LengthsAreNatural
  <1>1. wire \in Seq(Messages) /\ Len(wire) \in Nat
    BY DEF LoadedInv
  <1>2. CASE Receive
    <2>1. wire' = Tail(wire) /\ wire # <<>>
      BY <1>2 DEF Receive
    <2>2. Len(Tail(wire)) = Len(wire) - 1
      BY <1>1, <2>1
    <2> QED
      BY <1>1, <2>1, <2>2
  <1>3. ASSUME NEW m \in Messages, Sends(m) PROVE Len(wire') <= MaxWire
    BY <1>1, <1>3 DEF Sends
  <1>4. ASSUME NEW k \in Settings, SpaAnswers(k) PROVE Len(wire') <= MaxWire
    BY <1>3, <1>4 DEF SpaAnswers, Messages
  <1>5. CASE SpaReports \/ SpaFalters
    BY <1>3, <1>5 DEF SpaReports, SpaFalters, Messages, LoadedInv
  <1>6. CASE Drop
    BY <1>6 DEF Drop
  <1>7. CASE UNCHANGED wire
    BY <1>7
  <1>8. Connect \/ Call \/ SpaChanges \/ (\E k \in Settings : SpaIgnores(k))
          \/ (\E r \in Requesters : Requesting(r)) \/ UNCHANGED vars => UNCHANGED wire
    BY DEF Connect, Call, SpaChanges, SpaIgnores, Requesting, Request, Finish, Retry, GiveUp,
           Overflow, network, vars
  <1> QED
    BY <1>2, <1>4, <1>5, <1>6, <1>7, <1>8 DEF Next

\* Whatever is taken in, the listener lives or does not.
LEMMA ListeningKept ==
  ASSUME Receive, listening \in BOOLEAN
  PROVE  listening' \in BOOLEAN
  BY DEF Receive, TakeSetting, TakeStatus, TakeBroken, Check

\* The request tasks: none calls itself more often than the limit allows.
LEMMA RequestersKept ==
  ASSUME requester \in [Requesters -> RequesterStates], [Next]_vars
  PROVE  requester' \in [Requesters -> RequesterStates]
  <1> USE LengthsAreNatural DEF Waiting
  <1>1. Idle \in RequesterStates
    BY DEF Idle, RequesterStates
  <1>2. ASSUME NEW wait \in BOOLEAN, Start(wait)
        PROVE  requester' \in [Requesters -> RequesterStates]
    <2>1. [at |-> 1, wait |-> wait, depth |-> 0] \in RequesterStates
      BY DEF RequesterStates
    <2> QED
      BY <1>2, <2>1 DEF Start
  <1>3. ASSUME NEW r \in Requesters, Requesting(r)
        PROVE  requester' \in [Requesters -> RequesterStates]
    <2>1. /\ requester[r] \in RequesterStates /\ requester[r].at \in 0 .. Waiting
          /\ requester[r].depth \in 0 .. RecursionLimit
      BY DEF RequesterStates
    <2>2. CASE Request(r)
      <3>1. [requester[r] EXCEPT !.at = @ + 1] \in RequesterStates
        BY <2>1, <2>2 DEF Request, RequesterStates
      <3> QED
        BY <2>2, <3>1 DEF Request
    <2>3. CASE Finish(r) \/ GiveUp(r) \/ Overflow(r)
      BY <1>1, <2>3 DEF Finish, GiveUp, Overflow
    <2>4. CASE Retry(r)
      <3>1. requester[r].depth + 1 \in 0 .. RecursionLimit /\ 1 \in 0 .. Waiting
        BY <2>1, <2>4 DEF Retry
      <3>2. [at |-> 1, wait |-> TRUE, depth |-> requester[r].depth + 1] \in RequesterStates
        BY <3>1 DEF RequesterStates
      <3> QED
        BY <2>4, <3>2 DEF Retry
    <2> QED
      BY <1>3, <2>2, <2>3, <2>4 DEF Requesting
  <1>4. CASE Connect \/ Call
    BY <1>2, <1>4 DEF Connect, Call
  <1>5. ASSUME NEW k \in Settings, SpaAnswers(k) \/ SpaIgnores(k)
        PROVE  requester' = requester
    BY <1>5 DEF SpaAnswers, SpaIgnores
  <1>6. CASE Drop \/ Receive \/ SpaFalters \/ SpaReports \/ SpaChanges \/ UNCHANGED vars
    BY <1>6 DEF Drop, Receive, SpaFalters, SpaReports, SpaChanges, vars
  <1> QED
    BY <1>3, <1>4, <1>5, <1>6 DEF Next

\* The rest: flags of the network, and what the environment has used.
LEMMA NetworkKept ==
  ASSUME TypeOK, [Next]_vars
  PROVE  connected' \in BOOLEAN /\ used' \in [Bounds -> Nat] /\ (~Receive => listening' \in BOOLEAN)
  <1>1. ASSUME NEW kind \in Bounds, NEW limit, Spend(kind, limit)
        PROVE  used' \in [Bounds -> Nat]
    BY <1>1 DEF Spend, TypeOK
  <1>2. CASE Drop \/ SpaFalters \/ SpaChanges \/ Call
    BY <1>1, <1>2 DEF Drop, SpaFalters, SpaChanges, Call, Bounds, TypeOK
  <1>3. CASE Connect \/ Receive \/ SpaReports \/ UNCHANGED vars
    BY <1>3 DEF Connect, Receive, SpaReports, vars, TypeOK
  <1>4. ASSUME NEW r \in Requesters, Requesting(r)
        PROVE  UNCHANGED <<connected, used, listening>>
    BY <1>4 DEF Requesting, Request, Finish, Retry, GiveUp, Overflow, network
  <1>5. ASSUME NEW k \in Settings, SpaAnswers(k) \/ SpaIgnores(k)
        PROVE  used' \in [Bounds -> Nat] /\ UNCHANGED <<connected, listening>>
    BY <1>1, <1>5 DEF SpaAnswers, SpaIgnores, Bounds, TypeOK
  <1> QED
    BY <1>2, <1>3, <1>4, <1>5 DEF Next, TypeOK

\* However often the configuration is asked for, answered and lost, every task is
\* at one of the requests or waits, at a depth within the recursion limit, and no
\* control shows what was not a status update.
THEOREM TypeCorrect == Spec => []TypeOK
  <1>1. Init => LoadedInv /\ TypeOK
    <2>1. ASSUME Init PROVE TypeOK
      <3>1. Idle \in RequesterStates
        BY LengthsAreNatural DEF Idle, RequesterStates, Waiting
      <3>2. requester \in [Requesters -> RequesterStates]
        BY <2>1, <3>1 DEF Init
      <3>3. wire \in Seq(Messages) /\ Len(wire) <= MaxWire
        BY <2>1, LengthsAreNatural DEF Init
      <3>4. used \in [Bounds -> Nat] /\ shown \in [Groups -> Statuses \cup {None}]
        BY <2>1 DEF Init
      <3> QED
        BY <2>1, <3>2, <3>3, <3>4 DEF Init, TypeOK
    <2> QED
      BY <2>1, InitLoaded
  <1>2. LoadedInv /\ TypeOK /\ [Next]_vars => LoadedInv' /\ TypeOK'
    <2>1. ASSUME LoadedInv, TypeOK, [Next]_vars PROVE TypeOK'
      <3>1. LoadedInv'
        BY <2>1, LoadedInvKept
      <3>2. Len(wire') <= MaxWire
        BY <2>1, WireKept DEF TypeOK
      <3>3. requester' \in [Requesters -> RequesterStates]
        BY <2>1, RequestersKept DEF TypeOK
      <3>4. connected' \in BOOLEAN /\ used' \in [Bounds -> Nat]
        BY <2>1, NetworkKept
      <3>5. listening' \in BOOLEAN
        BY <2>1, ListeningKept, NetworkKept DEF TypeOK
      <3> QED
        BY <3>1, <3>2, <3>3, <3>4, <3>5 DEF TypeOK, LoadedInv, StateInv, Views
    <2> QED
      BY <2>1, LoadedInvKept
  <1> QED
    BY <1>1, <1>2, PTL DEF Spec
=============================================================================
