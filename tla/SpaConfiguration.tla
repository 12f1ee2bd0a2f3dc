-------------------------- MODULE SpaConfiguration --------------------------
(***************************************************************************)
(* How a SpaClient learns the configuration of its spa: the tasks that     *)
(* request it, the listener that takes the answers and the status updates  *)
(* in, the loaded flags, and the controls that a status update sets.       *)
(*                                                                         *)
(* The connection is SpaConnection's, seen from here: it is up or not, and *)
(* has one listener.  The spa answers when it likes, or not at all.  Of a  *)
(* status update only its identity matters, of the controls only which     *)
(* status update they show: the temperature range and the heat mode, which *)
(* exist from the start, and those that a device configuration adds.       *)
(***************************************************************************)
EXTENDS Naturals, Sequences

CONSTANTS Statuses,       \* contents of status updates
          BadClock,       \* those whose hour or minute does not exist,
          BadHeat,        \*   whose heat state bits are 3, which is no HeatState,
          BadWiFi,        \*   whose WiFi bits are no WiFiState
          Broken,         \* a filter cycle or fault log entry at a time that does not exist
          Requests,       \* the settings that are asked for, in this order
          Requesters,     \* request_all_configuration() tasks
          RecursionLimit, \* how often one of them may call itself
          MaxWire,        \* bounds: messages under way to the client,
          MaxDrops,       \*   connections lost or replaced,
          MaxChanges,     \*   changes of the spa's status,
          MaxCalls,       \*   calls of request_all_configuration(),
          MaxIgnores,     \*   requests that the spa does not answer,
          MaxFaults,      \*   broken messages
          None

\* The settings whose flags tell whether the configuration is loaded.
Settings == {Requests[i] : i \in DOMAIN Requests}
Messages == Settings \cup Statuses \cup {Broken}
Groups   == {"range", "mode", "device"}

ASSUME ConfigurationAssumption ==
  /\ Requests \in Seq({"module", "system", "setup", "device", "filter"})
  /\ "device" \in Settings
  /\ BadClock \cup BadHeat \cup BadWiFi \subseteq Statuses
  /\ None \notin Messages
  /\ Settings \cap Statuses = {} /\ Broken \notin Settings \cup Statuses
  /\ {RecursionLimit, MaxWire, MaxDrops, MaxChanges, MaxCalls, MaxIgnores, MaxFaults} \subseteq Nat

VARIABLES
  connected,  \* the property of that name
  listening,  \* whether the listener task lives
  wire,       \* messages on their way to the client
  asked,      \* settings that the spa has been asked for
  spa,        \* the status of the spa itself
  loaded,     \* the settings whose _..._loaded flag is set
  status,     \* self._previous_status
  shown,      \* the status update that each group of controls shows
  configured, \* the event self._configuration_loaded
  requester,  \* where each request_all_configuration() task is
  used        \* how much of its bounds the environment has used

network == <<connected, listening, wire, asked, spa, used>>
state   == <<loaded, status, shown, configured>>
vars    == <<connected, listening, wire, asked, spa, loaded, status, shown,
             configured, requester, used>>

\* A task is at one of the requests, waits for their effect, or does not run
\* (and may be started again).
Idle == [at |-> 0, wait |-> FALSE, depth |-> 0]
Waiting == Len(Requests) + 1
RequesterStates == [at : 0 .. Waiting, wait : BOOLEAN, depth : 0 .. RecursionLimit]

Bounds == {"drop", "change", "call", "ignore", "fault"}
Spend(kind, limit) == used[kind] < limit /\ used' = [used EXCEPT ![kind] = @ + 1]

TypeOK ==
  /\ connected \in BOOLEAN
  /\ listening \in BOOLEAN
  /\ wire \in Seq(Messages) /\ Len(wire) <= MaxWire
  /\ asked \subseteq Settings
  /\ spa \in Statuses
  /\ loaded \subseteq Settings
  /\ status \in Statuses \cup {None}
  /\ shown \in [Groups -> Statuses \cup {None}]
  /\ configured \in BOOLEAN
  /\ requester \in [Requesters -> RequesterStates]
  /\ used \in [Bounds -> Nat]

----------------------------------------------------------------------------
(* Taking messages in *)

\* The groups of controls that exist.
Existing(flags) == IF "device" \in flags THEN Groups ELSE {"range", "mode"}

\* Where _parse_status_update() raises, and the listener with it ends.  The
\* clock is read the first time only, before any control is set; the heat state
\* after the temperature range; the WiFi state after all the controls.
Raises(s, again) == s \in BadHeat \cup BadWiFi \/ (s \in BadClock /\ ~again)

\* What the controls show then: every control that exists and is reached shows
\* the update.
Parsed(flags, s, view, again) ==
  IF s \in BadClock /\ ~again THEN view
  ELSE IF s \in BadHeat THEN [view EXCEPT !["range"] = s]
  ELSE [g \in Groups |-> IF g \in Existing(flags) THEN s ELSE view[g]]

\* Mutants of Check: the last status update is not parsed again; it need not
\* have arrived.
CheckWithoutReprocessing(flags, last, view) ==
  /\ shown' = view
  /\ configured' = (configured \/ (Settings \subseteq flags /\ last # None))
  /\ UNCHANGED listening

CheckWithoutStatus(flags, last, view) ==
  /\ shown' = view
  /\ configured' = (configured \/ Settings \subseteq flags)
  /\ UNCHANGED listening

\* _check_configuration_loaded(), given the flags, the last status update and
\* what the controls show: it parses that update once more and sets the event.
Check(flags, last, view) ==
  IF Settings \subseteq flags /\ last # None
  THEN /\ shown' = Parsed(flags, last, view, TRUE)
       /\ IF Raises(last, TRUE)
          THEN listening' = FALSE /\ UNCHANGED configured
          ELSE configured' = TRUE /\ UNCHANGED listening
  ELSE shown' = view /\ UNCHANGED <<configured, listening>>

\* A setting.  A second device configuration or a second set of setup
\* parameters is ignored; the others are taken in again, and checked again.
TakeSetting(k) ==
  /\ IF k \in {"device", "setup"} /\ k \in loaded
     THEN UNCHANGED <<loaded, shown, configured, listening>>
     ELSE /\ loaded' = loaded \cup {k}
          /\ Check(loaded', status, shown)
  /\ UNCHANGED status

\* A status update.  The same update again is ignored, also one that could not
\* be taken in: it is stored before anything raises.
TakeStatus(s) ==
  /\ IF s = status
     THEN UNCHANGED <<status, shown, configured, listening>>
     ELSE /\ status' = s
          /\ LET view == Parsed(loaded, s, shown, FALSE)
             IN  IF Raises(s, FALSE)
                 THEN shown' = view /\ listening' = FALSE /\ UNCHANGED configured
                 ELSE IF configured
                 THEN shown' = view /\ UNCHANGED <<configured, listening>>
                 ELSE Check(loaded, s, view)
  /\ UNCHANGED loaded

\* A message with a time that does not exist: time() or datetime.replace()
\* raises before the message has set a flag.
TakeBroken == listening' = FALSE /\ UNCHANGED <<loaded, status, shown, configured>>

Receive ==
  /\ connected /\ listening
  /\ wire # <<>>
  /\ wire' = Tail(wire)
  /\ \/ Head(wire) \in Settings /\ TakeSetting(Head(wire))
     \/ Head(wire) \in Statuses /\ TakeStatus(Head(wire))
     \/ Head(wire) = Broken /\ TakeBroken
  /\ UNCHANGED <<connected, asked, spa, requester, used>>

----------------------------------------------------------------------------
(* request_all_configuration() *)

\* A task that starts, as _connect() (with wait) and the application do.
Start(wait) == \E r \in Requesters :
  /\ requester[r] = Idle
  /\ requester' = [requester EXCEPT ![r] = [at |-> 1, wait |-> wait, depth |-> 0]]

Call ==
  /\ Spend("call", MaxCalls)
  /\ \E wait \in BOOLEAN : Start(wait)
  /\ UNCHANGED <<connected, listening, wire, asked, spa, state>>

\* The next request; send_message() sends nothing while not connected.
Request(r) ==
  /\ requester[r].at \in 1 .. Len(Requests)
  /\ LET k == Requests[requester[r].at]
     IN  asked' = IF connected /\ (k \notin loaded \/ ~requester[r].wait)
                  THEN asked \cup {k} ELSE asked
  /\ requester' = [requester EXCEPT ![r].at = @ + 1]
  /\ UNCHANGED <<connected, listening, wire, spa, used, state>>

\* async_configuration_loaded(3) says that the configuration is there, or the
\* task was not to wait for it.
Finish(r) ==
  /\ requester[r].at = Waiting
  /\ configured \/ ~requester[r].wait
  /\ requester' = [requester EXCEPT ![r] = Idle]
  /\ UNCHANGED <<network, state>>

\* Mutants of Retry: it counts its depth one too late; it asks no more.
RetryTooDeep(r) ==
  /\ requester[r].at = Waiting
  /\ requester[r].wait /\ ~configured
  /\ connected
  /\ requester[r].depth <= RecursionLimit
  /\ requester' = [requester EXCEPT ![r] = [at |-> 1, wait |-> TRUE, depth |-> @.depth + 1]]
  /\ UNCHANGED <<network, state>>

RetryNever(r) ==
  /\ requester[r].at = Waiting
  /\ requester[r].wait /\ ~configured
  /\ connected
  /\ requester' = [requester EXCEPT ![r] = Idle]
  /\ UNCHANGED <<network, state>>

\* It times out: ask again, one call deeper, if the connection is up.
Retry(r) ==
  /\ requester[r].at = Waiting
  /\ requester[r].wait /\ ~configured
  /\ connected
  /\ requester[r].depth < RecursionLimit
  /\ requester' = [requester EXCEPT ![r] = [at |-> 1, wait |-> TRUE, depth |-> @.depth + 1]]
  /\ UNCHANGED <<network, state>>

\* It times out and the connection is down.
GiveUp(r) ==
  /\ requester[r].at = Waiting
  /\ requester[r].wait /\ ~configured
  /\ ~connected
  /\ requester' = [requester EXCEPT ![r] = Idle]
  /\ UNCHANGED <<network, state>>

\* It times out, and one call more is one too many: a RecursionError ends the
\* task.
Overflow(r) ==
  /\ requester[r].at = Waiting
  /\ requester[r].wait /\ ~configured
  /\ connected
  /\ requester[r].depth = RecursionLimit
  /\ requester' = [requester EXCEPT ![r] = Idle]
  /\ UNCHANGED <<network, state>>

----------------------------------------------------------------------------
(* The connection and the spa *)

\* _connect() succeeds: a new reader, a new listener, a new request task.
\* Nothing that was learnt before is forgotten.
Connect ==
  /\ ~connected
  /\ connected' = TRUE
  /\ listening' = TRUE
  /\ Start(TRUE)
  /\ UNCHANGED <<wire, asked, spa, used, state>>

\* The connection is lost, or replaced by that of another call of connect(), which
\* then comes next.
Drop ==
  /\ connected
  /\ Spend("drop", MaxDrops)
  /\ connected' = FALSE
  /\ wire' = <<>>
  /\ asked' = {}
  /\ UNCHANGED <<listening, spa, requester, state>>

Sends(m) ==
  /\ connected
  /\ Len(wire) < MaxWire
  /\ wire' = Append(wire, m)

SpaAnswers(k) ==
  /\ k \in asked
  /\ Sends(k)
  /\ asked' = asked \ {k}
  /\ UNCHANGED <<connected, listening, spa, used, state, requester>>

SpaIgnores(k) ==
  /\ k \in asked
  /\ Spend("ignore", MaxIgnores)
  /\ asked' = asked \ {k}
  /\ UNCHANGED <<connected, listening, wire, spa, state, requester>>

\* In place of the filter cycle, or as the fault that the application asked for.
SpaFalters ==
  /\ Spend("fault", MaxFaults)
  /\ Sends(Broken)
  /\ asked' \in {asked, asked \ {"filter"}}
  /\ UNCHANGED <<connected, listening, spa, state, requester>>

SpaReports ==
  /\ Sends(spa)
  /\ UNCHANGED <<connected, listening, asked, spa, used, state, requester>>

SpaChanges ==
  /\ Spend("change", MaxChanges)
  /\ spa' \in Statuses \ {spa}
  /\ UNCHANGED <<connected, listening, wire, asked, state, requester>>

----------------------------------------------------------------------------

Init ==
  /\ connected = FALSE
  /\ listening = FALSE
  /\ wire = <<>>
  /\ asked = {}
  /\ spa \in Statuses
  /\ loaded = {}
  /\ status = None
  /\ shown = [g \in Groups |-> None]
  /\ configured = FALSE
  /\ requester = [r \in Requesters |-> Idle]
  /\ used = [b \in Bounds |-> 0]

Requesting(r) == Request(r) \/ Finish(r) \/ Retry(r) \/ GiveUp(r) \/ Overflow(r)

Next ==
  \/ Connect \/ Drop \/ Call
  \/ Receive
  \/ \E r \in Requesters : Requesting(r)
  \/ \E k \in Settings : SpaAnswers(k) \/ SpaIgnores(k)
  \/ SpaFalters \/ SpaReports \/ SpaChanges

Spec == Init /\ [][Next]_vars

\* The spa is quick: it has answered what it does not ignore, and reported its
\* status, which it does every second, within the three seconds that a task
\* waits, and the listener has taken that in.
Settled ==
  /\ asked = {} /\ status = spa
  /\ \A i \in DOMAIN wire : wire[i] \in Statuses
Prompt == \A r \in Requesters :
  Retry(r) \/ Overflow(r) => (connected /\ listening => Settled)

\* The event loop runs the tasks, and the monitor reconnects.
Fairness ==
  /\ WF_vars(Connect)
  /\ WF_vars(Receive)
  /\ \A r \in Requesters : WF_vars(Requesting(r) /\ Prompt)
  /\ \A k \in Settings : SF_vars(SpaAnswers(k))
  /\ SF_vars(SpaReports)

PromptSpec == Init /\ [][Next /\ Prompt]_vars /\ Fairness

----------------------------------------------------------------------------
(* Properties *)

\* The last status update has been parsed to its end, at once or by the check
\* that a setting brought about.
StatusHeard ==
  /\ status \in Statuses \ (BadHeat \cup BadWiFi)
  /\ shown["range"] = status

\* configuration_loaded is what ConfigurationGate says of the five settings
\* and the status update, whatever their order, repetition and the losses of
\* connections between them.  A status update that raises is not heard, and
\* takes the place of one that was; one that raised for its clock is heard when
\* it is parsed again.
Heard == loaded \cup (IF StatusHeard THEN {"status"} ELSE {})

Gate == INSTANCE ConfigurationGate WITH
  Parts <- Settings \cup {"status"}, heard <- Heard, open <- configured

ImplementsGate == Gate!Spec

\* Once the configuration is loaded, every control shows the last status update
\* received, unless that one raised on the way to the controls: also a control
\* whose device configuration came after that update, also after an update that
\* raised half way, and although a repeated update is ignored.
ControlsShowStatus ==
  configured /\ status \notin BadClock \cup BadHeat => \A g \in Groups : shown[g] = status

\* A connection that stays up, with its listener, gets the client configured,
\* although the spa leaves requests unanswered, as many in all as the recursion
\* limit lets a task repeat, requests and answers are lost with connections, and
\* tasks of earlier connections go on asking.
ConfigurationLoads ==
  <>[](connected /\ listening /\ spa \notin BadClock \cup BadHeat \cup BadWiFi) => <>configured

============================================================================
