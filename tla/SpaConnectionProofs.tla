------------------------ MODULE SpaConnectionProofs ------------------------
(***************************************************************************)
(* What holds of SpaConnection for any number of connections, callers,     *)
(* losses and failures.                                                    *)
(***************************************************************************)
EXTENDS SpaConnection, TLAPS

(***************************************************************************)
(* Type correctness.                                                       *)
(***************************************************************************)

\* What _connect() and the monitor's loop compute next is a state of the task.
LEMMA AfterConnectType ==
  ASSUME TypeOK, NEW t \in Tasks, NEW up \in BOOLEAN
  PROVE  /\ AfterConnect(t, up) \in CallerStates \cup MonitorStates
         /\ t \in Callers => AfterConnect(t, up) \in CallerStates
         /\ t \in Conns => AfterConnect(t, up) \in MonitorStates
         /\ LoopTop(up) \in MonitorStates
  BY ConnectionAssumption DEF TypeOK, AfterConnect, LoopTop, CallerStates, MonitorStates, Tasks

\* A monitor that runs is a connection's.
LEMMA RunningType ==
  ASSUME TypeOK, Running(monitorTask)
  PROVE  monitorTask \in Conns
  BY DEF TypeOK, Running

\* The steps of a task in _connect() preserve the types.
LEMMA ConnectingType ==
  ASSUME TypeOK, NEW t \in Tasks, Connecting(t)
  PROVE  TypeOK'
  <1> USE ConnectionAssumption
  <1>1. CASE OpenFails(t)
    <2>1. Connected \in BOOLEAN
      BY DEF Connected
    <2>2. AfterConnect(t, Connected) \in CallerStates \cup MonitorStates
          /\ (t \in Callers => AfterConnect(t, Connected) \in CallerStates)
          /\ (t \in Conns => AfterConnect(t, Connected) \in MonitorStates)
      BY <2>1, AfterConnectType
    <2> QED
      BY <1>1, <2>2 DEF TypeOK, OpenFails, Spend, client, hearing, Tasks, Bounds
  <1>2. CASE OpenFirst(t)
    <2>1. PICK c \in Conns : /\ Install(t, c)
                             /\ monitorTask' = c
                             /\ pc' = [pc EXCEPT ![c] = "new", ![t] = AfterConnect(t, TRUE)]
                             /\ UNCHANGED <<awaits, opened>>
      BY <1>2 DEF OpenFirst
    <2>2. AfterConnect(t, TRUE) \in CallerStates \cup MonitorStates
          /\ (t \in Callers => AfterConnect(t, TRUE) \in CallerStates)
          /\ (t \in Conns => AfterConnect(t, TRUE) \in MonitorStates)
      BY AfterConnectType
    <2> QED
      BY <2>1, <2>2 DEF TypeOK, Install, Tasks, TransportStates, ListenerStates, MonitorStates
  <1>3. CASE OpenCancels(t)
    <2>1. monitorTask \in Conns
      BY <1>3, RunningType DEF OpenCancels
    <2>2. PICK c \in Conns, fate \in {"cancelled", "opening"} :
            /\ Install(t, c)
            /\ pc' = [pc EXCEPT ![monitorTask] = fate, ![t] = "retiring"]
            /\ awaits' = [awaits EXCEPT ![t] = monitorTask]
            /\ opened' = [opened EXCEPT ![t] = c]
            /\ UNCHANGED monitorTask
      BY <1>3 DEF OpenCancels, CancelFates
    <2> QED
      BY <2>1, <2>2 DEF TypeOK, Install, Tasks, TransportStates, ListenerStates,
                        MonitorStates, CallerStates
  <1>4. CASE OpenCancelsItself(t)
    BY <1>4 DEF OpenCancelsItself, TypeOK, Install, Tasks, TransportStates, ListenerStates,
                MonitorStates, CallerStates
  <1>5. CASE OpenCollides(t)
    BY <1>5 DEF OpenCollides, TypeOK, Install, Tasks, TransportStates, ListenerStates,
                MonitorStates, CallerStates, AfterRaise
  <1>6. CASE Retired(t)
    <2>1. Connected \in BOOLEAN
      BY DEF Connected
    <2>2. AfterConnect(t, Connected) \in CallerStates \cup MonitorStates
          /\ (t \in Callers => AfterConnect(t, Connected) \in CallerStates)
          /\ (t \in Conns => AfterConnect(t, Connected) \in MonitorStates)
      BY <2>1, AfterConnectType
    <2> QED
      BY <1>6, <2>2 DEF TypeOK, Retired, net, hearing, Tasks, MonitorStates
  <1>7. CASE RetireRaises(t)
    BY <1>7 DEF RetireRaises, TypeOK, client, net, hearing, Tasks, MonitorStates, CallerStates,
                AfterRaise
  <1> QED
    BY <1>1, <1>2, <1>3, <1>4, <1>5, <1>6, <1>7 DEF Connecting, Open

\* The steps of a monitor's loop preserve the types.
LEMMA MonitoringType ==
  ASSUME TypeOK, NEW m \in Conns, Monitoring(m)
  PROVE  TypeOK'
  <1> USE ConnectionAssumption
  <1>1. AfterConnect(m, FALSE) \in MonitorStates /\ LoopTop(Connected) \in MonitorStates
    BY AfterConnectType DEF Tasks, Connected
  <1>2. \E s \in MonitorStates : pc' = [pc EXCEPT ![m] = s]
    BY <1>1 DEF Monitoring, MonitorStart, MonitorPoll, MonitorWakes, MonitorEnds, MonitorStates
  <1>3. attempt' \in [Conns -> Nat]
    <2>1. attempt' = attempt \/ attempt' = [attempt EXCEPT ![m] = @ + 1]
      BY Zenon DEF Monitoring, MonitorStart, MonitorPoll, MonitorWakes, MonitorEnds
    <2> QED
      BY <2>1 DEF TypeOK
  <1>4. UNCHANGED <<client, net, hearing, awaits, opened>>
    BY DEF Monitoring, MonitorStart, MonitorPoll, MonitorWakes, MonitorEnds
  <1> QED
    BY <1>2, <1>3, <1>4 DEF TypeOK, client, net, hearing, Tasks

\* The part of disconnect() from the cancellation of the listener on.
LEMMA UnhookType ==
  ASSUME TypeOK, NEW u \in Callers, Unhook(u)
  PROVE  /\ writer' \in Conns \cup {None}
         /\ listener' \in [Conns -> ListenerStates]
         /\ awaits' \in [Tasks -> Tasks \cup {None}]
         /\ \E s \in CallerStates : pc' = [pc EXCEPT ![u] = s]
  BY DEF TypeOK, Unhook, Forget, ListenerFates, ListenerStates, CallerStates, Tasks

\* The part of disconnect() from the closing of the writer on.
LEMMA CloseWriterType ==
  ASSUME TypeOK, NEW u \in Callers, CloseWriter(u)
  PROVE  /\ writer' \in Conns \cup {None}
         /\ transport' \in [Conns -> TransportStates]
         /\ listener' \in [Conns -> ListenerStates]
         /\ awaits' \in [Tasks -> Tasks \cup {None}]
         /\ \E s \in CallerStates : pc' = [pc EXCEPT ![u] = s]
  <1>1. CASE writer # None
    BY <1>1 DEF TypeOK, CloseWriter, TransportStates, CallerStates
  <1>2. CASE writer = None
    BY <1>2, UnhookType DEF TypeOK, CloseWriter
  <1> QED
    BY <1>1, <1>2

\* The calls of the application preserve the types.
LEMMA ApplicationType ==
  ASSUME TypeOK, NEW u \in Callers, Application(u)
  PROVE  TypeOK'
  <1> USE ConnectionAssumption
  <1>1. CASE Connect(u)
    <2>1. \E s \in CallerStates : pc' = [pc EXCEPT ![u] = s]
      BY <1>1 DEF Connect, CallerStates
    <2>2. used' \in [Bounds -> Nat]
      BY <1>1 DEF TypeOK, Connect, Spend, Bounds
    <2>3. disconnect' \in BOOLEAN
      BY <1>1 DEF TypeOK, Connect
    <2> QED
      BY <1>1, <2>1, <2>2, <2>3 DEF TypeOK, Connect, hearing, Tasks
  <1>2. CASE DisconnectCloses(u)
    BY <1>2, CloseWriterType DEF TypeOK, DisconnectCloses, BeginDisconnect, Spend, Bounds, Tasks
  <1>3. CASE DisconnectCancels(u)
    <2>1. monitorTask \in Conns
      BY <1>3, RunningType DEF DisconnectCancels
    <2> QED
      BY <1>3, <2>1 DEF TypeOK, DisconnectCancels, BeginDisconnect, CancelFates, Spend, Bounds,
                        CallerStates, MonitorStates, Tasks
  <1>4. CASE DisconnectCollides(u)
    BY <1>4 DEF TypeOK, DisconnectCollides, BeginDisconnect, Spend, Bounds, CallerStates, Tasks
  <1> QED
    BY <1>1, <1>2, <1>3, <1>4 DEF Application

\* The steps of disconnect() preserve the types.
LEMMA DisconnectingType ==
  ASSUME TypeOK, NEW u \in Callers, Disconnecting(u)
  PROVE  TypeOK'
  <1> USE ConnectionAssumption
  <1>1. CASE MonitorStopped(u)
    BY <1>1, CloseWriterType DEF TypeOK, MonitorStopped, Tasks
  <1>2. CASE StopRaises(u) \/ UnhookRaises(u)
    BY <1>2 DEF TypeOK, StopRaises, UnhookRaises, client, net, hearing, CallerStates, Tasks
  <1>3. CASE WriterClosed(u)
    BY <1>3, UnhookType DEF TypeOK, WriterClosed, net, Tasks
  <1>4. CASE ListenerUnhooked(u)
    BY <1>4 DEF TypeOK, ListenerUnhooked, Forget, net, hearing, CallerStates, Tasks
  <1> QED
    BY <1>1, <1>2, <1>3, <1>4 DEF Disconnecting

\* The steps of the listeners and of the network preserve the types.
LEMMA PeripheryType ==
  ASSUME TypeOK, NEW c \in Conns,
         Hearing(c) \/ ListenerCrashes(c) \/ KeepaliveFails(c) \/ Network(c)
  PROVE  TypeOK'
  <1>1. CASE Hearing(c) \/ ListenerCrashes(c) \/ KeepaliveFails(c)
    BY <1>1 DEF TypeOK, Hearing, ListenerAsserts, ListenerReads, ListenerCollides, ListenerStops,
                  ListenerReturns, ListenerEnds,
                ListenerCrashes, KeepaliveFails, Connected, Spend, client, net, locals,
                ListenerStates, TransportStates, Bounds
  <1>2. CASE Network(c)
    BY <1>2 DEF TypeOK, Network, PeerCloses, ConnectionLost, ReaderFills, Spend, client,
                hearing, locals, TransportStates, Bounds
  <1> QED
    BY <1>1, <1>2

\* Every variable keeps the type the code gives it: no interleaving makes a
\* caller take a monitor's state or a task await something that is no task.
THEOREM TypeCorrect == Spec => []TypeOK
  <1>1. Init => TypeOK
    <2> SUFFICES ASSUME Init
                 PROVE  TypeOK
      OBVIOUS
    <2>1. \A m \in Conns : pc[m] = "unborn"
      BY ConnectionAssumption DEF Init, Tasks
    <2>2. \A u \in Callers : pc[u] = "idle"
      BY DEF Init, Tasks
    <2>3. pc \in [Tasks -> CallerStates \cup MonitorStates]
      BY DEF Init, CallerStates, MonitorStates
    <2> QED
      BY <2>1, <2>2, <2>3 DEF Init, TypeOK, TransportStates, ListenerStates, CallerStates,
                              MonitorStates
  <1>2. TypeOK /\ [Next]_vars => TypeOK'
    <2> SUFFICES ASSUME TypeOK, [Next]_vars
                 PROVE  TypeOK'
      OBVIOUS
    <2>1. CASE Next
      BY <2>1, ConnectingType, ApplicationType, DisconnectingType, MonitoringType, PeripheryType
         DEF Next
    <2>2. CASE UNCHANGED vars
      BY <2>2 DEF vars, TypeOK
    <2> QED
      BY <2>1, <2>2
  <1> QED
    BY <1>1, <1>2, PTL DEF Spec

(***************************************************************************)
(* A tracked monitor awaits nobody but itself.                             *)
(***************************************************************************)

\* A step of disconnect() itself leaves the monitors and who they await alone.
LEMMA DisconnectSparesMonitors ==
  ASSUME TypeOK, NEW u \in Callers, CloseWriter(u) \/ Unhook(u) \/ (Forget(u) /\ UNCHANGED awaits)
  PROVE  \A m \in Conns : pc'[m] = pc[m] /\ awaits'[m] = awaits[m]
  BY ConnectionAssumption DEF TypeOK, CloseWriter, Unhook, Forget, Tasks

\* The steps of the listeners and the network leave all tasks alone.
LEMMA PeripherySparesTasks ==
  ASSUME NEW c \in Conns, Hearing(c) \/ ListenerCrashes(c) \/ KeepaliveFails(c) \/ Network(c)
  PROVE  UNCHANGED <<client, locals>>
  <1>1. CASE Hearing(c)
    BY <1>1 DEF Hearing, ListenerAsserts, ListenerReads, ListenerCollides, ListenerStops,
                  ListenerReturns, ListenerEnds
  <1>2. CASE ListenerCrashes(c) \/ KeepaliveFails(c)
    BY <1>2 DEF ListenerCrashes, KeepaliveFails
  <1>3. CASE Network(c)
    BY <1>3 DEF Network, PeerCloses, ConnectionLost, ReaderFills
  <1> QED
    BY <1>1, <1>2, <1>3

\* A tracked monitor that is in cancel_task() is there because it called
\* _connect() itself: the case in which cancel_task() does not cancel.
THEOREM TrackedMonitorAwaitsItself == Spec => []TrackedWaitsForItself
  <1>1. Init => TrackedWaitsForItself
    BY DEF Init, TrackedWaitsForItself
  <1>2. TypeOK /\ TrackedWaitsForItself /\ [Next]_vars => TrackedWaitsForItself'
    <2> SUFFICES ASSUME TypeOK, TrackedWaitsForItself, [Next]_vars
                 PROVE  TrackedWaitsForItself'
      OBVIOUS
    <2> USE ConnectionAssumption
    <2>1. ASSUME NEW t \in Tasks, Connecting(t)
          PROVE  TrackedWaitsForItself'
      <3>1. CASE OpenFails(t) \/ RetireRaises(t)
        BY <3>1 DEF OpenFails, RetireRaises, AfterConnect, AfterRaise, LoopTop, client,
                    TypeOK, TrackedWaitsForItself, Tasks
      <3>2. CASE OpenFirst(t)
        BY <3>2 DEF OpenFirst, Install, AfterConnect, LoopTop, TypeOK, TrackedWaitsForItself,
                    Tasks
      <3>3. CASE OpenCancels(t)
        BY <3>3 DEF OpenCancels, CancelFates, TypeOK, TrackedWaitsForItself, Tasks
      <3>4. CASE OpenCancelsItself(t)
        BY <3>4 DEF OpenCancelsItself, TypeOK, TrackedWaitsForItself, Tasks
      <3>5. CASE OpenCollides(t)
        BY <3>5 DEF OpenCollides, AfterRaise, TypeOK, TrackedWaitsForItself, Tasks
      <3>6. CASE Retired(t)
        BY <3>6 DEF Retired, AfterConnect, LoopTop, TypeOK, TrackedWaitsForItself, Tasks
      <3> QED
        BY <2>1, <3>1, <3>2, <3>3, <3>4, <3>5, <3>6 DEF Connecting, Open
    <2>2. ASSUME NEW u \in Callers, Application(u)
          PROVE  TrackedWaitsForItself'
      <3>1. CASE Connect(u) \/ DisconnectCollides(u)
        BY <3>1 DEF Connect, DisconnectCollides, BeginDisconnect, TypeOK, TrackedWaitsForItself,
                    Tasks
      <3>2. CASE DisconnectCloses(u)
        <4>1. \A m \in Conns : pc'[m] = pc[m] /\ awaits'[m] = awaits[m]
          BY <3>2, DisconnectSparesMonitors DEF DisconnectCloses
        <4>2. UNCHANGED monitorTask
          BY <3>2 DEF DisconnectCloses, BeginDisconnect
        <4> QED
          BY <4>1, <4>2 DEF TypeOK, TrackedWaitsForItself
      <3>3. CASE DisconnectCancels(u)
        BY <3>3 DEF DisconnectCancels, BeginDisconnect, CancelFates, TypeOK,
                    TrackedWaitsForItself, Tasks
      <3> QED
        BY <2>2, <3>1, <3>2, <3>3 DEF Application
    <2>3. ASSUME NEW u \in Callers, Disconnecting(u)
          PROVE  TrackedWaitsForItself'
      <3>1. CASE MonitorStopped(u) \/ WriterClosed(u) \/ ListenerUnhooked(u)
        <4>1. \A m \in Conns : pc'[m] = pc[m] /\ awaits'[m] = awaits[m]
          BY <3>1, DisconnectSparesMonitors DEF MonitorStopped, WriterClosed, ListenerUnhooked
        <4>2. UNCHANGED monitorTask
          BY <3>1 DEF MonitorStopped, WriterClosed, ListenerUnhooked
        <4> QED
          BY <4>1, <4>2 DEF TypeOK, TrackedWaitsForItself
      <3>2. CASE StopRaises(u) \/ UnhookRaises(u)
        BY <3>2 DEF StopRaises, UnhookRaises, client, TypeOK, TrackedWaitsForItself, Tasks
      <3> QED
        BY <2>3, <3>1, <3>2 DEF Disconnecting
    <2>4. ASSUME NEW m \in Conns, Monitoring(m)
          PROVE  TrackedWaitsForItself'
      BY <2>4 DEF Monitoring, MonitorStart, MonitorPoll, MonitorWakes, MonitorEnds, AfterConnect,
                  LoopTop, client, TypeOK, TrackedWaitsForItself, Tasks
    <2>5. ASSUME NEW c \in Conns,
                 Hearing(c) \/ ListenerCrashes(c) \/ KeepaliveFails(c) \/ Network(c)
          PROVE  TrackedWaitsForItself'
      BY <2>5, PeripherySparesTasks DEF client, locals, TrackedWaitsForItself
    <2>6. CASE UNCHANGED vars
      BY <2>6 DEF vars, TrackedWaitsForItself
    <2> QED
      BY <2>1, <2>2, <2>3, <2>4, <2>5, <2>6 DEF Next
  <1> QED
    BY <1>1, <1>2, TypeCorrect, PTL DEF Spec

(***************************************************************************)
(* After a disconnect().                                                   *)
(***************************************************************************)

\* Once nothing is open and nothing is being opened after a disconnect(), only
\* connect() ends that: neither a leaked monitor nor any other interrupted
\* call brings a connection back.
THEOREM DisconnectionIsFinal == Spec => StaysDisconnected
  <1>1. TypeOK /\ [Next]_vars => (Quiet /\ disconnect' => Quiet')
    <2> SUFFICES ASSUME TypeOK, [Next]_vars, Quiet, disconnect'
                 PROVE  Quiet'
      OBVIOUS
    <2> USE ConnectionAssumption
    <2>1. ASSUME NEW t \in Tasks, Connecting(t)
          PROVE  Quiet'
      <3>1. pc[t] # "opening"
        BY DEF Quiet
      <3>2. CASE Retired(t)
        BY <3>2 DEF Retired, AfterConnect, LoopTop, Quiet, TypeOK, Tasks
      <3>3. CASE RetireRaises(t)
        BY <3>3 DEF RetireRaises, AfterRaise, client, Quiet, TypeOK, Tasks
      <3> QED
        BY <2>1, <3>1, <3>2, <3>3 DEF Connecting, Open, OpenFails, OpenFirst, OpenCancels,
                                      OpenCancelsItself, OpenCollides, Install
    <2>2. ASSUME NEW u \in Callers, Application(u)
          PROVE  Quiet'
      BY <2>2 DEF Application, Connect, DisconnectCloses, DisconnectCancels, DisconnectCollides,
                  BeginDisconnect, CancelFates, CloseWriter, Unhook, Forget, Quiet, TypeOK, Tasks,
                  Running
    <2>3. ASSUME NEW u \in Callers, Disconnecting(u)
          PROVE  Quiet'
      BY <2>3 DEF Disconnecting, MonitorStopped, StopRaises, WriterClosed, ListenerUnhooked,
                  UnhookRaises, CloseWriter, Unhook, Forget, client, Quiet, TypeOK, Tasks
    <2>4. ASSUME NEW m \in Conns, Monitoring(m)
          PROVE  Quiet'
      BY <2>4 DEF Monitoring, MonitorStart, MonitorPoll, MonitorWakes, MonitorEnds, AfterConnect,
                  LoopTop, Connected, client, Quiet, TypeOK, Tasks
    <2>5. ASSUME NEW c \in Conns,
                 Hearing(c) \/ ListenerCrashes(c) \/ KeepaliveFails(c) \/ Network(c)
          PROVE  Quiet'
      BY <2>5, PeripherySparesTasks DEF client, locals, Quiet
    <2>6. CASE UNCHANGED vars
      BY <2>6 DEF vars, Quiet
    <2> QED
      BY <2>1, <2>2, <2>3, <2>4, <2>5, <2>6 DEF Next
  <1> QED
    BY <1>1, TypeCorrect, PTL DEF Spec, StaysDisconnected

(***************************************************************************)
(* What a task in cancel_task() waits for.                                 *)
(***************************************************************************)

\* A task in cancel_task() waits for a monitor or a listener, which is a
\* connection's.
AwaitsTask ==
  \A t \in Tasks : pc[t] \in {"retiring", "stopping", "unhooking"} => awaits[t] \in Conns

\* Both parts of disconnect() that can reach the cancellation of the listener.
LEMMA UnhookAwaits ==
  ASSUME TypeOK, AwaitsTask, NEW u \in Callers,
         Unhook(u) \/ CloseWriter(u) \/ (Forget(u) /\ UNCHANGED awaits)
  PROVE  AwaitsTask'
  BY DEF TypeOK, AwaitsTask, Unhook, CloseWriter, Forget, Tasks

\* In every reachable state, whoever waits in cancel_task() waits for such a task.
LEMMA AwaitsTaskAlways == Spec => []AwaitsTask
  <1>1. Init => AwaitsTask
    BY DEF Init, AwaitsTask
  <1>2. TypeOK /\ AwaitsTask /\ [Next]_vars => AwaitsTask'
    <2> SUFFICES ASSUME TypeOK, AwaitsTask, [Next]_vars
                 PROVE  AwaitsTask'
      OBVIOUS
    <2> USE ConnectionAssumption
    <2>1. ASSUME NEW t \in Tasks, Connecting(t)
          PROVE  AwaitsTask'
      <3>1. CASE OpenFails(t) \/ RetireRaises(t)
        BY <3>1 DEF OpenFails, RetireRaises, AfterConnect, AfterRaise, LoopTop, TypeOK, AwaitsTask
      <3>2. CASE OpenFirst(t)
        BY <3>2 DEF OpenFirst, AfterConnect, LoopTop, TypeOK, AwaitsTask, Tasks
      <3>3. CASE OpenCancels(t)
        BY <3>3, RunningType DEF OpenCancels, CancelFates, TypeOK, AwaitsTask, Tasks
      <3>4. CASE OpenCancelsItself(t)
        BY <3>4 DEF OpenCancelsItself, TypeOK, AwaitsTask, Tasks
      <3>5. CASE OpenCollides(t)
        BY <3>5 DEF OpenCollides, AfterRaise, TypeOK, AwaitsTask
      <3>6. CASE Retired(t)
        BY <3>6 DEF Retired, AfterConnect, LoopTop, TypeOK, AwaitsTask, Tasks
      <3> QED
        BY <2>1, <3>1, <3>2, <3>3, <3>4, <3>5, <3>6 DEF Connecting, Open
    <2>2. ASSUME NEW u \in Callers, Application(u)
          PROVE  AwaitsTask'
      <3>1. CASE Connect(u) \/ DisconnectCollides(u)
        BY <3>1 DEF Connect, DisconnectCollides, TypeOK, AwaitsTask
      <3>2. CASE DisconnectCloses(u)
        BY <3>2, UnhookAwaits DEF DisconnectCloses
      <3>3. CASE DisconnectCancels(u)
        BY <3>3, RunningType DEF DisconnectCancels, CancelFates, TypeOK, AwaitsTask, Tasks
      <3> QED
        BY <2>2, <3>1, <3>2, <3>3 DEF Application
    <2>3. ASSUME NEW u \in Callers, Disconnecting(u)
          PROVE  AwaitsTask'
      <3>1. CASE MonitorStopped(u) \/ WriterClosed(u) \/ ListenerUnhooked(u)
        BY <3>1, UnhookAwaits DEF MonitorStopped, WriterClosed, ListenerUnhooked
      <3>2. CASE StopRaises(u) \/ UnhookRaises(u)
        BY <3>2 DEF StopRaises, UnhookRaises, TypeOK, AwaitsTask
      <3> QED
        BY <2>3, <3>1, <3>2 DEF Disconnecting
    <2>4. ASSUME NEW m \in Conns, Monitoring(m)
          PROVE  AwaitsTask'
      BY <2>4 DEF Monitoring, MonitorStart, MonitorPoll, MonitorWakes, MonitorEnds, AfterConnect,
                  LoopTop, TypeOK, AwaitsTask
    <2>5. ASSUME NEW c \in Conns,
                 Hearing(c) \/ ListenerCrashes(c) \/ KeepaliveFails(c) \/ Network(c)
          PROVE  AwaitsTask'
      BY <2>5, PeripherySparesTasks DEF locals, AwaitsTask
    <2>6. CASE UNCHANGED vars
      BY <2>6 DEF vars, AwaitsTask
    <2> QED
      BY <2>1, <2>2, <2>3, <2>4, <2>5, <2>6 DEF Next
  <1> QED
    BY <1>1, <1>2, TypeCorrect, PTL DEF Spec

(***************************************************************************)
(* What has happened has happened.                                         *)
(***************************************************************************)

\* No step takes back what the environment has done: the counters only grow.
LEMMA CountersGrow ==
  ASSUME TypeOK, [Next]_vars, NEW b \in Bounds
  PROVE  used'[b] >= used[b]
  <1>1. ASSUME NEW kind \in Bounds, NEW limit, Spend(kind, limit)
        PROVE  used'[b] >= used[b]
    BY <1>1 DEF Spend, TypeOK
  <1>2. CASE UNCHANGED used
    BY <1>2 DEF TypeOK
  <1>3. UNCHANGED used \/ \E kind \in Bounds, limit \in Nat : Spend(kind, limit)
    <2>1. ASSUME NEW t \in Tasks, Connecting(t)
          PROVE  UNCHANGED used \/ Spend("failure", MaxFailures)
      BY <2>1 DEF Connecting, OpenFails, Open, OpenFirst, OpenCancels, OpenCancelsItself,
                  OpenCollides, Install, Retired, RetireRaises, net
    <2>2. ASSUME NEW u \in Callers, Application(u)
          PROVE  Spend("connect", MaxConnects) \/ Spend("disconnect", MaxDisconnects)
      BY <2>2 DEF Application, Connect, DisconnectCloses, DisconnectCancels, DisconnectCollides,
                  BeginDisconnect
    <2>3. ASSUME NEW u \in Callers, Disconnecting(u)
          PROVE  UNCHANGED used
      BY <2>3 DEF Disconnecting, MonitorStopped, StopRaises, WriterClosed, ListenerUnhooked,
                  UnhookRaises, net
    <2>4. ASSUME NEW c \in Conns,
                 Monitoring(c) \/ Hearing(c) \/ ListenerCrashes(c) \/ KeepaliveFails(c)
          PROVE  UNCHANGED used \/ Spend("fault", MaxFaults)
      BY <2>4 DEF Monitoring, MonitorStart, MonitorPoll, MonitorWakes, MonitorEnds, Hearing,
                  ListenerAsserts, ListenerReads, ListenerCollides, ListenerStops,
                  ListenerReturns, ListenerEnds, ListenerCrashes,
                  KeepaliveFails, net
    <2>5. ASSUME NEW c \in Conns, Network(c)
          PROVE  UNCHANGED used \/ Spend("loss", MaxLosses)
      BY <2>5 DEF Network, PeerCloses, ConnectionLost, ReaderFills
    <2>6. CASE UNCHANGED vars
      BY <2>6 DEF vars
    <2> QED
      BY <2>1, <2>2, <2>3, <2>4, <2>5, <2>6, ConnectionAssumption DEF Next, Bounds
  <1> QED
    BY <1>1, <1>2, <1>3

(***************************************************************************)
(* A connection that is up is heard.                                       *)
(***************************************************************************)

\* While no message has raised, the attachment of the listener is inductive: a
\* listener may fail the assertion it starts with, but that happens to an
\* unconnected client, and never to a listener that a disconnect() awaits, which
\* was cancelled before.
AwaitedLive ==
  /\ \A c \in Conns : transport[c] = "unused" => listener[c] = "none"
  /\ \A u \in Callers : pc[u] = "unhooking" =>
       awaits[u] \in Conns /\ listener[awaits[u]] \in {"ready", "reading", "cancelled", "stopped"}
Attached == Connected => Listening(writer) \/ \E u \in Callers : pc[u] = "unhooking"
Heard == Attached /\ AwaitedLive

\* A step that leaves the listeners alone, and begins to await none of them.
LEMMA AwaitedLiveKept ==
  ASSUME TypeOK, AwaitedLive, UNCHANGED listener,
         \A c \in Conns : transport'[c] = "unused" => transport[c] = "unused",
         \A u \in Callers : pc'[u] = "unhooking" => pc[u] = "unhooking" /\ awaits'[u] = awaits[u]
  PROVE  AwaitedLive'
  BY DEF AwaitedLive

\* The part of disconnect() from the cancellation of the listener on either
\* forgets the writer or is seen to be unhooking it.
LEMMA UnhookHeard ==
  ASSUME TypeOK, Heard, NEW u \in Callers, Unhook(u), UNCHANGED <<transport, listenerTask>>
  PROVE  /\ writer' = None \/ pc'[u] = "unhooking"
         /\ AwaitedLive'
  <1>1. CASE listenerTask # None /\ listener[listenerTask] \in {"new", "ready", "reading", "cancelled"}
    <2>1. /\ listenerTask \in Conns
          /\ awaits' = [awaits EXCEPT ![u] = listenerTask]
          /\ pc' = [pc EXCEPT ![u] = "unhooking"]
      BY <1>1 DEF Unhook, TypeOK
    <2>2. PICK fate \in {"cancelled", "reading"} : listener' = [listener EXCEPT ![listenerTask] = fate]
      BY <1>1 DEF Unhook, ListenerFates
    <2>3. \A c \in Conns : transport'[c] = "unused" => listener'[c] = "none"
      BY <1>1, <2>1, <2>2 DEF Heard, AwaitedLive, TypeOK
    <2>4. u \in Tasks /\ listener'[listenerTask] \in {"cancelled", "reading"}
      BY <2>1, <2>2 DEF TypeOK, Tasks
    <2>5. \A v \in Callers : pc'[v] = "unhooking" =>
            awaits'[v] \in Conns /\ listener'[awaits'[v]] \in {"ready", "reading", "cancelled", "stopped"}
      <3> TAKE v \in Callers
      <3>1. CASE v = u
        BY <2>1, <2>4, <3>1 DEF TypeOK
      <3>2. CASE v # u
        BY <2>1, <2>2, <2>4, <3>2 DEF TypeOK, Heard, AwaitedLive, Tasks
      <3> QED
        BY <3>1, <3>2
    <2> QED
      BY <2>1, <2>3, <2>4, <2>5 DEF AwaitedLive, TypeOK
  <1>2. CASE ~(listenerTask # None /\ listener[listenerTask] \in {"new", "ready", "reading", "cancelled"})
    <2>1. Forget(u) /\ UNCHANGED <<listener, awaits>>
      BY <1>2, Zenon DEF Unhook
    <2>2. writer' = None /\ pc' = [pc EXCEPT ![u] = "idle"]
      BY <2>1 DEF Forget
    <2> QED
      BY <2>1, <2>2, AwaitedLiveKept DEF Heard, TypeOK, Tasks
  <1> QED
    BY <1>1, <1>2

\* disconnect() makes the client unconnected, by closing or forgetting the
\* writer, or is seen to be unhooking the listener.
LEMMA CloseWriterHeard ==
  ASSUME TypeOK, Heard, NEW u \in Callers, CloseWriter(u), UNCHANGED listenerTask
  PROVE  /\ ~Connected' \/ pc'[u] = "unhooking"
         /\ AwaitedLive'
  <1>1. CASE writer # None
    <2>1. /\ transport' = [transport EXCEPT ![writer] = "closed"]
          /\ pc' = [pc EXCEPT ![u] = "closing"]
          /\ UNCHANGED <<writer, listener, awaits>>
      BY <1>1, Zenon DEF CloseWriter
    <2>2. AwaitedLive'
      BY <1>1, <2>1, AwaitedLiveKept DEF Heard, TypeOK, Tasks
    <2> QED
      BY <1>1, <2>1, <2>2 DEF TypeOK, Connected
  <1>2. CASE writer = None
    <2>1. Unhook(u) /\ UNCHANGED transport
      BY <1>2, Zenon DEF CloseWriter
    <2> QED
      BY <2>1, UnhookHeard DEF Connected
  <1> QED
    BY <1>1, <1>2

\* Until a message makes _process_message() raise, a client that counts as
\* connected has the listener of that very connection at work, or is being
\* disconnected.
THEOREM ConnectionIsHeard == Spec => []ListenerAttached
  <1> DEFINE HeardTillFault == used["fault"] = 0 => Heard
  <1>1. Init => HeardTillFault
    BY DEF Init, Heard, Attached, Connected, AwaitedLive, Tasks
  <1>2. TypeOK /\ HeardTillFault /\ [Next]_vars => HeardTillFault'
    <2> SUFFICES ASSUME TypeOK, HeardTillFault, [Next]_vars, used'["fault"] = 0
                 PROVE  Heard'
      OBVIOUS
    <2>0. used["fault"] = 0 /\ Heard
      BY CountersGrow DEF TypeOK, Bounds
    <2> USE ConnectionAssumption, <2>0
    <2>1. ASSUME NEW t \in Tasks, Open(t)
          PROVE  Heard'
      <3>1. PICK c \in Conns : Install(t, c)
        BY <2>1 DEF Open, OpenFirst, OpenCancels, OpenCancelsItself, OpenCollides
      <3>2. writer' \in Conns /\ Listening(writer)'
        BY <3>1 DEF Install, Listening, TypeOK
      <3>3. \A u \in Callers : pc'[u] = "unhooking" => pc[u] = "unhooking" /\ awaits'[u] = awaits[u]
        BY <2>1, RunningType DEF Open, OpenFirst, OpenCancels, OpenCancelsItself, OpenCollides, Install,
             CancelFates, AfterConnect, AfterRaise, LoopTop, TypeOK, Tasks
      <3>4. transport[c] = "unused" /\ listener' = [listener EXCEPT ![c] = "new"]
            /\ transport' = [transport EXCEPT ![c] = "open"]
        BY <3>1 DEF Install
      <3>5. AwaitedLive'
        BY <3>3, <3>4 DEF AwaitedLive, Heard, TypeOK
      <3> QED
        BY <3>2, <3>5 DEF Heard, Attached
    <2>2. ASSUME NEW t \in Tasks, OpenFails(t) \/ Retired(t) \/ RetireRaises(t)
          PROVE  Heard'
      <3>1. UNCHANGED <<writer, transport, listener>>
        BY <2>2 DEF OpenFails, Retired, RetireRaises, client, net, hearing
      <3>2. \A u \in Callers : pc[u] = "unhooking" => pc'[u] = "unhooking"
        BY <2>2 DEF OpenFails, Retired, RetireRaises, TypeOK, Tasks
      <3>3. \A u \in Callers : pc'[u] = "unhooking" => pc[u] = "unhooking" /\ awaits'[u] = awaits[u]
        BY <2>2 DEF OpenFails, Retired, RetireRaises, AfterConnect, AfterRaise, LoopTop, TypeOK, Tasks
      <3> QED
        BY <3>1, <3>2, <3>3, AwaitedLiveKept DEF Heard, Attached, Connected, Listening
    <2>3. ASSUME NEW u \in Callers, Application(u)
          PROVE  Heard'
      <3>1. CASE DisconnectCloses(u)
        BY <3>1, CloseWriterHeard DEF DisconnectCloses, BeginDisconnect, Heard, Attached
      <3>2. CASE Connect(u) \/ DisconnectCancels(u) \/ DisconnectCollides(u)
        <4>1. UNCHANGED <<writer, transport, listener>>
          BY <3>2 DEF Connect, DisconnectCancels, DisconnectCollides, hearing
        <4>2. \A v \in Callers : pc[v] = "unhooking" => pc'[v] = "unhooking"
          BY <3>2 DEF Connect, DisconnectCancels, DisconnectCollides, BeginDisconnect, Free,
                      Running, TypeOK, Tasks
        <4>3. \A v \in Callers : pc'[v] = "unhooking" => pc[v] = "unhooking" /\ awaits'[v] = awaits[v]
          BY <3>2, RunningType DEF Connect, DisconnectCancels, DisconnectCollides, BeginDisconnect,
                      CancelFates, TypeOK, Tasks
        <4> QED
          BY <4>1, <4>2, <4>3, AwaitedLiveKept DEF Heard, Attached, Connected, Listening
      <3> QED
        BY <2>3, <3>1, <3>2 DEF Application
    <2>4. ASSUME NEW u \in Callers, Disconnecting(u)
          PROVE  Heard'
      <3>1. CASE MonitorStopped(u)
        BY <3>1, CloseWriterHeard DEF MonitorStopped, Heard, Attached
      <3>2. CASE WriterClosed(u)
        BY <3>2, UnhookHeard DEF WriterClosed, net, Heard, Attached, Connected
      <3>3. CASE ListenerUnhooked(u)
        <4>1. AwaitedLive'
          BY <3>3, AwaitedLiveKept DEF ListenerUnhooked, Forget, net, hearing, Heard, TypeOK, Tasks
        <4> QED
          BY <3>3, <4>1 DEF ListenerUnhooked, Forget, Heard, Attached, Connected
      <3>4. CASE StopRaises(u)
        <4>1. AwaitedLive'
          BY <3>4, AwaitedLiveKept DEF StopRaises, net, hearing, Heard, TypeOK, Tasks
        <4> QED
          BY <3>4, <4>1 DEF StopRaises, client, net, hearing, Heard, Attached, Connected, Listening,
                            TypeOK, Tasks
      <3>5. CASE UnhookRaises(u)
        BY <3>5 DEF UnhookRaises, Heard, AwaitedLive
      <3> QED
        BY <2>4, <3>1, <3>2, <3>3, <3>4, <3>5 DEF Disconnecting
    <2>5. ASSUME NEW m \in Conns, Monitoring(m)
          PROVE  Heard'
      <3>1. UNCHANGED <<writer, transport, listener>>
        BY <2>5 DEF Monitoring, MonitorStart, MonitorPoll, MonitorWakes, MonitorEnds, client, net,
                    hearing
      <3>2. \A u \in Callers : pc'[u] = pc[u]
        BY <2>5 DEF Monitoring, MonitorStart, MonitorPoll, MonitorWakes, MonitorEnds, TypeOK, Tasks
      <3>3. \A u \in Callers : awaits'[u] = awaits[u]
        BY <2>5 DEF Monitoring, MonitorStart, MonitorPoll, MonitorWakes, MonitorEnds
      <3> QED
        BY <3>1, <3>2, <3>3, AwaitedLiveKept DEF Heard, Attached, Connected, Listening
    <2>6. ASSUME NEW k \in Conns, Hearing(k) \/ KeepaliveFails(k)
          PROVE  Heard'
      <3>1. UNCHANGED <<writer, pc, awaits>>
        BY <2>6, PeripherySparesTasks DEF client, locals
      <3>2. CASE ListenerAsserts(k)
        BY <3>1, <3>2 DEF ListenerAsserts, net, Heard, Attached, AwaitedLive, Connected, TypeOK
      <3>3. CASE ListenerReads(k)
        BY <3>1, <3>3 DEF ListenerReads, net, Heard, Attached, AwaitedLive, Connected,
                          Listening, TypeOK
      <3>4. CASE ListenerCollides(k)
        BY <3>1, <3>4 DEF ListenerCollides, net, Heard, Attached, AwaitedLive, Connected,
                          Listening, TypeOK
      <3>5. CASE ListenerStops(k)
        BY <3>1, <3>5 DEF ListenerStops, net, Heard, Attached, AwaitedLive, Connected,
                          Listening, TypeOK
      <3>6. CASE ListenerReturns(k)
        BY <3>1, <3>6 DEF ListenerReturns, net, Heard, Attached, AwaitedLive,
                          Connected, Listening, TypeOK
      <3>7. CASE ListenerEnds(k)
        BY <3>1, <3>7 DEF ListenerEnds, net, Heard, Attached, AwaitedLive, Connected,
                          Listening, TypeOK
      <3>8. CASE KeepaliveFails(k)
        BY <3>1, <3>8 DEF KeepaliveFails, Heard, Attached, AwaitedLive, Connected,
                          Listening, TypeOK
      <3> QED
        BY <2>6, <3>2, <3>3, <3>4, <3>5, <3>6, <3>7, <3>8 DEF Hearing
    <2>7. ASSUME NEW k \in Conns, ListenerCrashes(k)
          PROVE  Heard'
      BY <2>7 DEF ListenerCrashes, Spend, TypeOK, Bounds
    <2>8. ASSUME NEW c \in Conns, Network(c)
          PROVE  Heard'
      <3>1. UNCHANGED <<writer, pc, listener, awaits>>
        BY <2>8 DEF Network, PeerCloses, ConnectionLost, ReaderFills, client, locals, hearing
      <3>2. Connected' => Connected
        BY <2>8 DEF Network, PeerCloses, ConnectionLost, ReaderFills, client, Connected, TypeOK
      <3>3. \A d \in Conns : transport'[d] = "unused" => transport[d] = "unused"
        BY <2>8 DEF Network, PeerCloses, ConnectionLost, ReaderFills, TypeOK
      <3> QED
        BY <3>1, <3>2, <3>3, AwaitedLiveKept DEF Heard, Attached, Listening
    <2>9. CASE UNCHANGED vars
      BY <2>9 DEF vars, Heard, Attached, AwaitedLive, Connected, Listening
    <2> QED
      BY <2>1, <2>2, <2>3, <2>4, <2>5, <2>6, <2>7, <2>8, <2>9 DEF Next, Connecting
  <1>3. HeardTillFault => ListenerAttached
    BY DEF Heard, Attached, ListenerAttached
  <1> QED
    BY <1>1, <1>2, <1>3, TypeCorrect, PTL DEF Spec

(***************************************************************************)
(* Monitors are born once.                                                 *)
(***************************************************************************)

\* The monitor that a task in _connect() is going to create does not exist yet,
\* and is nobody else's to create: so no creation overwrites a living monitor.
Births ==
  /\ \A c \in Conns : transport[c] = "unused" => pc[c] = "unborn"
  /\ \A t \in Tasks : pc[t] = "retiring" =>
       opened[t] \in Conns /\ pc[opened[t]] = "unborn" /\ transport[opened[t]] # "unused"
  /\ \A s, t \in Tasks : pc[s] = "retiring" /\ pc[t] = "retiring" /\ opened[s] = opened[t]
       => s = t

\* A step that creates no connection and no monitor leaves Births alone.
LEMMA BirthsKept ==
  ASSUME TypeOK, Births, UNCHANGED opened,
         \A c \in Conns : transport'[c] = "unused" => transport[c] = "unused",
         \A m \in Conns : pc[m] = "unborn" => pc'[m] = "unborn",
         \A t \in Tasks : pc'[t] = "retiring" => pc[t] = "retiring"
  PROVE  Births'
  BY DEF Births

\* In every reachable state, the monitor that _connect() creates is a new one.
LEMMA BirthsAlways == Spec => []Births
  <1>1. Init => Births
    BY ConnectionAssumption DEF Init, Births, Tasks
  <1>2. TypeOK /\ AwaitsTask /\ Births /\ [Next]_vars => Births'
    <2> SUFFICES ASSUME TypeOK, AwaitsTask, Births, [Next]_vars
                 PROVE  Births'
      OBVIOUS
    <2> USE ConnectionAssumption
    <2>1. ASSUME NEW t \in Tasks, Connecting(t)
          PROVE  Births'
      <3>1. CASE OpenFails(t) \/ RetireRaises(t)
        BY <3>1, BirthsKept DEF OpenFails, RetireRaises, AfterConnect, AfterRaise, LoopTop, net,
                                TypeOK, Tasks
      <3>2. CASE OpenFirst(t)
        <4>1. PICK c \in Conns : /\ Install(t, c)
                                 /\ pc' = [pc EXCEPT ![c] = "new", ![t] = AfterConnect(t, TRUE)]
                                 /\ UNCHANGED <<awaits, opened>>
          BY <3>2 DEF OpenFirst
        <4> QED
          BY <4>1 DEF Install, AfterConnect, LoopTop, Births, TypeOK, Tasks
      <3>3. CASE OpenCancels(t)
        <4>1. PICK c \in Conns, fate \in {"cancelled", "opening"} :
                /\ Install(t, c)
                /\ pc' = [pc EXCEPT ![monitorTask] = fate, ![t] = "retiring"]
                /\ opened' = [opened EXCEPT ![t] = c]
          BY <3>3 DEF OpenCancels, CancelFates
        <4>2. monitorTask \in Conns /\ monitorTask # t /\ pc[monitorTask] \notin {"unborn", "retiring"}
          BY <3>3, RunningType DEF OpenCancels, Running
        <4> QED
          BY <4>1, <4>2 DEF Install, Births, TypeOK, Tasks
      <3>4. CASE OpenCancelsItself(t)
        <4>1. PICK c \in Conns :
                /\ Install(t, c)
                /\ pc' = [pc EXCEPT ![t] = "retiring"]
                /\ opened' = [opened EXCEPT ![t] = c]
          BY <3>4 DEF OpenCancelsItself
        <4> QED
          BY <4>1 DEF Install, Births, TypeOK, Tasks
      <3>5. CASE OpenCollides(t)
        <4>1. PICK c \in Conns :
                /\ Install(t, c)
                /\ pc' = [pc EXCEPT ![t] = AfterRaise(t)]
                /\ UNCHANGED opened
          BY <3>5 DEF OpenCollides
        <4> QED
          BY <4>1 DEF Install, AfterRaise, Births, TypeOK, Tasks
      <3>6. CASE Retired(t)
        <4>1. opened[t] \in Conns /\ opened[t] # t /\ AfterConnect(t, Connected) # "retiring"
          BY <3>6 DEF Retired, Births, AfterConnect, LoopTop, TypeOK, Tasks
        <4> QED
          BY <3>6, <4>1 DEF Retired, net, Births, TypeOK, Tasks
      <3> QED
        BY <2>1, <3>1, <3>2, <3>3, <3>4, <3>5, <3>6 DEF Connecting, Open
    <2>2. ASSUME NEW u \in Callers, Application(u) \/ Disconnecting(u)
          PROVE  Births'
      <3>1. CASE Connect(u) \/ DisconnectCollides(u) \/ StopRaises(u) \/ UnhookRaises(u)
        BY <3>1, BirthsKept DEF Connect, DisconnectCollides, BeginDisconnect, StopRaises,
                                UnhookRaises, net, TypeOK, Tasks
      <3>2. CASE DisconnectCancels(u)
        <4>1. monitorTask \in Conns /\ pc[monitorTask] # "unborn"
          BY <3>2, RunningType DEF DisconnectCancels, Running
        <4> QED
          BY <3>2, <4>1, BirthsKept DEF DisconnectCancels, BeginDisconnect, CancelFates, TypeOK,
                                        Tasks
      <3>3. CASE DisconnectCloses(u) \/ MonitorStopped(u)
        <4>1. CloseWriter(u) /\ UNCHANGED opened
          BY <3>3 DEF DisconnectCloses, BeginDisconnect, MonitorStopped
        <4>2. \A c \in Conns : transport'[c] = "unused" => transport[c] = "unused"
          BY <4>1 DEF CloseWriter, TypeOK
        <4>3. \A m \in Conns : pc[m] = "unborn" => pc'[m] = "unborn"
          BY <4>1, DisconnectSparesMonitors
        <4>4. \A t \in Tasks : pc'[t] = "retiring" => pc[t] = "retiring"
          BY <4>1 DEF CloseWriter, Unhook, Forget, TypeOK
        <4> QED
          BY <4>1, <4>2, <4>3, <4>4, BirthsKept
      <3>4. CASE WriterClosed(u) \/ ListenerUnhooked(u)
        BY <3>4, BirthsKept DEF WriterClosed, ListenerUnhooked, Unhook, Forget, net, TypeOK, Tasks
      <3> QED
        BY <2>2, <3>1, <3>2, <3>3, <3>4 DEF Application, Disconnecting
    <2>3. ASSUME NEW m \in Conns, Monitoring(m)
          PROVE  Births'
      <3>1. UNCHANGED <<opened, transport>>
        BY <2>3 DEF Monitoring, MonitorStart, MonitorPoll, MonitorWakes, MonitorEnds, net
      <3>2. \A t \in Tasks : pc'[t] = "retiring" => pc[t] = "retiring"
        BY <2>3 DEF Monitoring, MonitorStart, MonitorPoll, MonitorWakes, MonitorEnds, AfterConnect,
                    LoopTop, TypeOK
      <3>3. \A c \in Conns : pc[c] = "unborn" => pc'[c] = "unborn"
        BY <2>3 DEF Monitoring, MonitorStart, MonitorPoll, MonitorWakes, MonitorEnds, TypeOK, Tasks
      <3> QED
        BY <3>1, <3>2, <3>3, BirthsKept
    <2>4. ASSUME NEW c \in Conns,
                 Hearing(c) \/ ListenerCrashes(c) \/ KeepaliveFails(c) \/ Network(c)
          PROVE  Births'
      <3>1. UNCHANGED <<pc, opened>>
        BY <2>4, PeripherySparesTasks DEF locals
      <3>2. \A d \in Conns : transport'[d] = "unused" <=> transport[d] = "unused"
        BY <2>4 DEF Hearing, ListenerAsserts, ListenerReads, ListenerCollides, ListenerStops,
                  ListenerReturns, ListenerEnds,
                    ListenerCrashes, KeepaliveFails, Network, PeerCloses, ConnectionLost,
                    ReaderFills, net, TypeOK
      <3> QED
        BY <3>1, <3>2, BirthsKept
    <2>5. CASE UNCHANGED vars
      BY <2>5 DEF vars, Births
    <2> QED
      BY <2>1, <2>2, <2>3, <2>4, <2>5 DEF Next
  <1> QED
    BY <1>1, <1>2, TypeCorrect, AwaitsTaskAlways, PTL DEF Spec

(***************************************************************************)
(* A client that nobody disconnects stays attended.                        *)
(***************************************************************************)

\* Somebody attends to a client that has once been connected.
Covered == writer # None => (\E t \in Tasks : Attends(t)) \/ Overflowed

\* Nobody has asked for a disconnect().
Wanted == ~disconnect /\ \A u \in Callers : pc[u] \in {"idle", "raised", "opening", "retiring"}

\* Then connect() is all that a caller does outside _connect().
LEMMA OnlyConnects ==
  ASSUME TypeOK, Wanted, used'["disconnect"] = 0,
         NEW u \in Callers, Application(u) \/ Disconnecting(u)
  PROVE  Connect(u)
  <1>1. ~BeginDisconnect(u)
    BY DEF BeginDisconnect, Spend, TypeOK, Bounds
  <1>2. pc[u] \notin {"stopping", "closing", "unhooking"}
    BY DEF Wanted
  <1> QED
    BY <1>1, <1>2 DEF Application, DisconnectCloses, DisconnectCancels, DisconnectCollides,
                      Disconnecting, MonitorStopped, StopRaises, WriterClosed, ListenerUnhooked,
                      UnhookRaises

\* Until the first disconnect(), the connection stays wanted.
WantedTillDisconnect == used["disconnect"] = 0 => Wanted

\* In every reachable state before the first disconnect(), it is.
LEMMA WantedAlways == Spec => []WantedTillDisconnect
  <1>1. Init => WantedTillDisconnect
    BY DEF Init, WantedTillDisconnect, Wanted, Tasks
  <1>2. TypeOK /\ WantedTillDisconnect /\ [Next]_vars => WantedTillDisconnect'
    <2> SUFFICES ASSUME TypeOK, WantedTillDisconnect, [Next]_vars, used'["disconnect"] = 0
                 PROVE  Wanted'
      BY DEF WantedTillDisconnect
    <2>0. used["disconnect"] = 0 /\ Wanted
      BY CountersGrow DEF TypeOK, Bounds, WantedTillDisconnect
    <2> USE <2>0
    <2> USE ConnectionAssumption
    <2>1. ASSUME NEW t \in Tasks, Connecting(t)
          PROVE  Wanted'
      <3>1. CASE OpenFails(t) \/ RetireRaises(t)
        <4>1. t \in Callers => AfterConnect(t, Connected) = "idle" /\ AfterRaise(t) = "raised"
          BY DEF AfterConnect, AfterRaise
        <4>2. ~disconnect'
          BY <3>1 DEF OpenFails, RetireRaises, client, Wanted
        <4>3. PICK s \in {AfterConnect(t, Connected), AfterRaise(t)} : pc' = [pc EXCEPT ![t] = s]
          BY <3>1 DEF OpenFails, RetireRaises
        <4>4. t \in Callers => s \in {"idle", "raised"}
          BY <4>1
        <4> QED
          BY <4>2, <4>3, <4>4 DEF Wanted, TypeOK, Tasks
      <3>2. CASE OpenFirst(t) \/ OpenCollides(t)
        <4>1. ~disconnect'
          BY <3>2 DEF OpenFirst, OpenCollides, Install, Wanted
        <4>2. t \in Callers => AfterConnect(t, TRUE) = "idle" /\ AfterRaise(t) = "raised"
          BY DEF AfterConnect, AfterRaise
        <4>3. CASE OpenFirst(t)
          BY <4>1, <4>2, <4>3 DEF OpenFirst, Wanted, TypeOK, Tasks
        <4>4. CASE OpenCollides(t)
          BY <4>1, <4>2, <4>4 DEF OpenCollides, Wanted, TypeOK, Tasks
        <4> QED
          BY <3>2, <4>3, <4>4
      <3>3. CASE OpenCancels(t)
        BY <3>3, RunningType DEF OpenCancels, Install, CancelFates, Wanted, TypeOK, Tasks
      <3>4. CASE OpenCancelsItself(t)
        BY <3>4 DEF OpenCancelsItself, Install, Wanted, TypeOK, Tasks
      <3>5. CASE Retired(t)
        <4>1. t \in Callers => AfterConnect(t, Connected) = "idle"
          BY DEF AfterConnect
        <4>2. opened[t] \notin Callers
          BY DEF TypeOK, Tasks
        <4> QED
          BY <3>5, <4>1, <4>2 DEF Retired, Wanted, TypeOK, Tasks
      <3> QED
        BY <2>1, <3>1, <3>2, <3>3, <3>4, <3>5 DEF Connecting, Open
    <2>2. ASSUME NEW u \in Callers, Application(u) \/ Disconnecting(u)
          PROVE  Wanted'
      <3>1. Connect(u)
        BY <2>2, OnlyConnects
      <3>2. ~disconnect'
        BY <3>1, Zenon DEF Connect, Wanted
      <3>3. \E s \in {"idle", "opening"} : pc' = [pc EXCEPT ![u] = s]
        BY <3>1 DEF Connect
      <3> QED
        BY <3>2, <3>3 DEF Wanted, TypeOK, Tasks
    <2>3. ASSUME NEW m \in Conns, Monitoring(m)
          PROVE  Wanted'
      BY <2>3 DEF Monitoring, MonitorStart, MonitorPoll, MonitorWakes, MonitorEnds, client, Wanted,
                  TypeOK, Tasks
    <2>4. ASSUME NEW c \in Conns,
                 Hearing(c) \/ ListenerCrashes(c) \/ KeepaliveFails(c) \/ Network(c)
          PROVE  Wanted'
      BY <2>4, PeripherySparesTasks DEF client, locals, Wanted
    <2>5. CASE UNCHANGED vars
      BY <2>5 DEF vars, Wanted
    <2> QED
      BY <2>1, <2>2, <2>3, <2>4, <2>5 DEF Next
  <1> QED
    BY <1>1, <1>2, TypeCorrect, PTL DEF Spec

\* A task that attends goes on attending while neither it nor, if it is in
\* cancel_task(), the task it awaits takes a step.
LEMMA AttendsOn ==
  ASSUME NEW t \in Tasks, Attends(t), pc'[t] = pc[t], awaits'[t] = awaits[t],
         pc[t] = "retiring" /\ pc[awaits[t]] \in {"cancelled", "done"}
           => pc'[awaits[t]] \in {"cancelled", "done"}
  PROVE  Attends(t)'
  BY DEF Attends

\* Whoever connects leaves the client attended, by itself or by another.
LEMMA ConnectingAttends ==
  ASSUME TypeOK, AwaitsTask, TrackedWaitsForItself, Births, Wanted, Covered,
         NEW t \in Tasks, Connecting(t)
  PROVE  Covered'
  <1> USE ConnectionAssumption
  <1>1. CASE OpenFirst(t)
    <2>1. PICK c \in Conns : /\ Install(t, c)
                             /\ pc' = [pc EXCEPT ![c] = "new", ![t] = AfterConnect(t, TRUE)]
      BY <1>1 DEF OpenFirst
    <2>2. c # t /\ pc'[c] = "new"
      BY <2>1 DEF Install, Births, TypeOK, Tasks
    <2> QED
      BY <2>2 DEF Covered, Attends, Tasks
  <1>2. CASE OpenCancels(t)
    <2>1. PICK fate \in CancelFates(monitorTask) :
            pc' = [pc EXCEPT ![monitorTask] = fate, ![t] = "retiring"]
      BY <1>2 DEF OpenCancels
    <2>2. monitorTask \in Conns /\ monitorTask # t /\ awaits'[t] = monitorTask
      BY <1>2, RunningType DEF OpenCancels, TypeOK
    <2>3. pc'[t] = "retiring" /\ pc'[monitorTask] \in {"cancelled", "opening"}
      BY <2>1, <2>2 DEF CancelFates, TypeOK, Tasks
    <2>4. UNCHANGED monitorTask
      BY <1>2 DEF OpenCancels
    <2>5. CASE pc'[monitorTask] = "opening"
      <3>1. Attends(monitorTask)'
        BY <2>2, <2>4, <2>5 DEF Attends
      <3> QED
        BY <2>2, <2>4, <3>1 DEF Covered, Tasks
    <2>6. CASE pc'[monitorTask] = "cancelled"
      <3>1. Attends(t)'
        BY <2>2, <2>3, <2>6 DEF Attends
      <3> QED
        BY <3>1 DEF Covered
    <2> QED
      BY <2>3, <2>5, <2>6
  <1>3. CASE OpenCancelsItself(t)
    <2>1. pc'[t] = "retiring" /\ awaits'[t] = t
      BY <1>3 DEF OpenCancelsItself, TypeOK, Tasks
    <2>2. Attends(t)'
      BY <2>1 DEF Attends
    <2> QED
      BY <2>2 DEF Covered
  <1>4. CASE OpenCollides(t)
    <2>1. monitorTask \in Conns /\ pc[monitorTask] = "retiring" /\ awaits[monitorTask] = monitorTask
      BY <1>4, RunningType DEF OpenCollides, TrackedWaitsForItself, TypeOK, Tasks
    <2>2. monitorTask # t
      BY <1>4, <2>1 DEF OpenCollides, Install
    <2>3. /\ pc'[monitorTask] = "retiring" /\ awaits'[monitorTask] = monitorTask
          /\ UNCHANGED monitorTask
      BY <1>4, <2>1, <2>2 DEF OpenCollides, TypeOK
    <2>4. Attends(monitorTask)'
      BY <2>3 DEF Attends
    <2> QED
      BY <2>1, <2>3, <2>4 DEF Covered, Tasks
  <1>5. CASE Retired(t)
    <2>1. opened[t] \in Conns /\ opened[t] # t
      BY <1>5 DEF Retired, Births
    <2>2. pc'[opened[t]] = "new"
      BY <1>5, <2>1 DEF Retired, TypeOK, Tasks
    <2> QED
      BY <2>1, <2>2 DEF Covered, Attends, Tasks
  <1>6. CASE OpenFails(t)
    <2>1. writer' = writer /\ awaits' = awaits /\ attempt' = attempt
      BY <1>6 DEF OpenFails, client
    <2>2. pc' = [pc EXCEPT ![t] = AfterConnect(t, Connected)] /\ pc[t] = "opening"
      BY <1>6 DEF OpenFails
    <2>3. CASE t \in Conns
      <3>1. pc'[t] \in {"watching", "backoff"} \/ (pc'[t] = "crashed" /\ attempt[t] >= FloatExponent)
        <4>1. pc'[t] = AfterConnect(t, Connected) /\ t \notin Callers
          BY <2>2, <2>3 DEF TypeOK, Tasks
        <4>2. attempt[t] \in Nat /\ ~disconnect
          BY <2>3 DEF TypeOK, Wanted
        <4> QED
          BY <4>1, <4>2 DEF AfterConnect, LoopTop
      <3> QED
        BY <2>1, <2>3, <3>1 DEF Covered, Attends, Overflowed, Tasks
    <2>4. CASE t \notin Conns
      <3>1. \A s \in Tasks : Attends(s) => Attends(s)'
        BY <2>1, <2>2, <2>4, AttendsOn DEF Attends, AwaitsTask, TypeOK
      <3>2. Overflowed => Overflowed'
        BY <2>1, <2>2, <2>4 DEF Overflowed, TypeOK, Tasks
      <3> QED
        BY <2>1, <3>1, <3>2 DEF Covered
    <2> QED
      BY <2>3, <2>4
  <1>7. CASE RetireRaises(t)
    <2>1. writer' = writer /\ awaits' = awaits /\ attempt' = attempt
      BY <1>7 DEF RetireRaises, client
    <2>2. /\ pc' = [pc EXCEPT ![t] = AfterRaise(t)] /\ pc[t] = "retiring"
          /\ awaits[t] # t /\ pc[awaits[t]] = "crashed"
      BY <1>7 DEF RetireRaises
    <2>3. \A s \in Tasks : Attends(s) => Attends(s)'
      BY <2>1, <2>2 DEF Attends, AwaitsTask, TypeOK, Tasks
    <2>4. Overflowed => Overflowed'
      BY <2>1, <2>2 DEF Overflowed, TypeOK, Tasks
    <2> QED
      BY <2>1, <2>3, <2>4 DEF Covered
  <1> QED
    BY <1>1, <1>2, <1>3, <1>4, <1>5, <1>6, <1>7 DEF Connecting, Open

\* A monitor that goes round its loop still attends; one that ends on a
\* cancellation leaves whoever cancelled it attending.
LEMMA MonitoringAttends ==
  ASSUME TypeOK, AwaitsTask, Wanted, Covered, NEW m \in Conns, Monitoring(m)
  PROVE  Covered'
  <1> USE ConnectionAssumption
  <1>1. writer' = writer /\ awaits' = awaits
    BY DEF Monitoring, MonitorStart, MonitorPoll, MonitorWakes, MonitorEnds, client
  <1>2. CASE MonitorEnds(m)
    <2>1. pc' = [pc EXCEPT ![m] = "done"] /\ pc[m] = "cancelled" /\ attempt' = attempt
      BY <1>2 DEF MonitorEnds
    <2>2. \A s \in Tasks : Attends(s) => Attends(s)'
      BY <1>1, <2>1 DEF Attends, AwaitsTask, TypeOK, Tasks
    <2>3. Overflowed => Overflowed'
      BY <2>1 DEF Overflowed, TypeOK, Tasks
    <2> QED
      BY <1>1, <2>2, <2>3 DEF Covered
  <1>3. CASE MonitorStart(m) \/ MonitorPoll(m) \/ MonitorWakes(m)
    <2>1. pc'[m] \in {"watching", "opening"}
      BY <1>3 DEF MonitorStart, MonitorPoll, MonitorWakes, LoopTop, Wanted, TypeOK, Tasks
    <2> QED
      BY <2>1 DEF Covered, Attends, Tasks
  <1> QED
    BY <1>2, <1>3 DEF Monitoring

\* Until the first disconnect(), a client that has been connected keeps a task
\* that will reconnect it, or until the pause of a monitor
\* overflows a float: leaking monitors and losing one to a collision of two
\* reconnects never costs the last one.
THEOREM ClientStaysAttended == Spec => []MonitorCoverage
  <1>1. Init => MonitorCoverage
    BY DEF Init, MonitorCoverage
  <1>2. /\ TypeOK /\ AwaitsTask /\ TrackedWaitsForItself /\ Births /\ WantedTillDisconnect
        /\ MonitorCoverage /\ [Next]_vars
        => MonitorCoverage'
    <2> SUFFICES ASSUME TypeOK, AwaitsTask, TrackedWaitsForItself, Births,
                        WantedTillDisconnect, MonitorCoverage, [Next]_vars,
                        used'["disconnect"] = 0
                 PROVE  Covered'
      BY DEF MonitorCoverage, Covered
    <2>0. used["disconnect"] = 0 /\ Wanted /\ Covered
      BY CountersGrow DEF TypeOK, Bounds, WantedTillDisconnect, MonitorCoverage, Covered
    <2> USE ConnectionAssumption
    <2>1. ASSUME NEW t \in Tasks, Connecting(t)
          PROVE  Covered'
      BY <2>0, <2>1, ConnectingAttends
    <2>2. ASSUME NEW u \in Callers, Application(u) \/ Disconnecting(u)
          PROVE  Covered'
      <3>1. Connect(u)
        BY <2>0, <2>2, OnlyConnects
      <3>2. UNCHANGED <<writer, awaits, attempt>>
        BY <3>1 DEF Connect
      <3>3. \E s \in {"idle", "opening"} : pc' = [pc EXCEPT ![u] = s]
        BY <3>1 DEF Connect
      <3>4. pc[u] \in {"idle", "raised"} /\ u \notin Conns
        BY <3>1 DEF Connect, Free
      <3>5. \A s \in Tasks : Attends(s) => Attends(s)'
        BY <3>2, <3>3, <3>4 DEF Attends, AwaitsTask, TypeOK, Tasks
      <3>6. Overflowed => Overflowed'
        BY <3>2, <3>3, <3>4 DEF Overflowed, TypeOK, Tasks
      <3> QED
        BY <2>0, <3>2, <3>5, <3>6 DEF Covered
    <2>3. ASSUME NEW m \in Conns, Monitoring(m)
          PROVE  Covered'
      BY <2>0, <2>3, MonitoringAttends
    <2>4. ASSUME NEW c \in Conns,
                 Hearing(c) \/ ListenerCrashes(c) \/ KeepaliveFails(c) \/ Network(c)
          PROVE  Covered'
      BY <2>0, <2>4, PeripherySparesTasks DEF client, locals, Covered, Attends, Overflowed
    <2>5. CASE UNCHANGED vars
      BY <2>0, <2>5 DEF vars, Covered, Attends, Overflowed
    <2> QED
      BY <2>1, <2>2, <2>3, <2>4, <2>5 DEF Next
  <1> QED
    BY <1>1, <1>2, TypeCorrect, AwaitsTaskAlways, TrackedMonitorAwaitsItself, BirthsAlways,
       WantedAlways, PTL DEF Spec

============================================================================
