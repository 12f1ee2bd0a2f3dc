--------------------------- MODULE SpaConnection ---------------------------
(***************************************************************************)
(* The life of the TCP connection that a SpaClient keeps to a spa: the     *)
(* asyncio tasks that call connect(), disconnect() and `async with`, the   *)
(* monitor tasks that reconnect, and the listener tasks that read.         *)
(*                                                                         *)
(* asyncio is cooperative: a task runs without interruption from one       *)
(* `await` that suspends to the next.  One action is one such run, so that *)
(* the interleavings are exactly those of the event loop.  The k-th        *)
(* successful open_connection() creates a transport, a listener task and   *)
(* (later, perhaps) a monitor task; all three carry its identifier, the    *)
(* k-th element of Conns.                                                  *)
(*                                                                         *)
(* Left out: what the listener reads (module SpaConfiguration and others)  *)
(* and the request_all_configuration() task, which never writes any of     *)
(* this state.                                                             *)
(***************************************************************************)
EXTENDS Naturals

CONSTANTS Conns,         \* numbers of the connections that may be opened
          Callers,       \* the application's tasks
          Closers,       \* those of them that also call disconnect()
          None,          \* Python's None
          FloatExponent, \* first attempt at which 2**attempt + uniform(0, 1)
                         \* raises OverflowError; 1024 for IEEE doubles
          MaxConnects,    \* bounds on what the environment does:
          MaxDisconnects, \*   calls of connect() and disconnect(),
          MaxLosses,      \*   connections lost,
          MaxFailures,    \*   opens that fail,
          MaxFaults       \*   messages whose processing raises

Tasks == Callers \cup Conns

ASSUME ConnectionAssumption ==
  /\ Conns \subseteq Nat
  /\ Closers \subseteq Callers
  /\ Conns \cap Callers = {}
  /\ None \notin Tasks
  /\ FloatExponent \in Nat
  /\ {MaxConnects, MaxDisconnects, MaxLosses, MaxFailures, MaxFaults} \subseteq Nat

VARIABLES
  disconnect,   \* self._disconnect
  writer,       \* self._reader and self._writer: the connection they belong to
  transport,    \* what each connection's transport knows of its peer
  listenerTask, \* self._listener
  listener,     \* where each listener task is
  reads,        \* the connection whose StreamReader each listener last read
  monitorTask,  \* self._connection_monitor
  pc,           \* where each caller and each monitor task is
  awaits,       \* the task that a task in cancel_task() awaits
  opened,       \* the connection that a task in _connect() has opened
  attempt,      \* the local variable of each _monitor()
  used          \* how much of its bounds the environment has used

net      == <<transport, used>>
client   == <<disconnect, writer, listenerTask, monitorTask>>
locals   == <<pc, awaits, opened, attempt>>
hearing  == <<listener, reads>>
vars     == <<disconnect, writer, transport, listenerTask, listener, reads,
              monitorTask, pc, awaits, opened, attempt, used>>

TransportStates == {"unused", "open", "eof", "paused", "closed"}
ListenerStates  == {"none", "new", "ready", "reading", "cancelled", "stopped", "crashed"}
CallerStates    == {"idle", "raised", "opening", "retiring", "stopping", "closing", "unhooking"}
MonitorStates   == {"unborn", "new", "watching", "opening", "retiring", "backoff",
                    "cancelled", "done", "crashed"}
Bounds          == {"connect", "disconnect", "loss", "failure", "fault"}

TypeOK ==
  /\ disconnect \in BOOLEAN
  /\ writer \in Conns \cup {None}
  /\ transport \in [Conns -> TransportStates]
  /\ listenerTask \in Conns \cup {None}
  /\ listener \in [Conns -> ListenerStates]
  /\ reads \in [Conns -> Conns \cup {None}]
  /\ monitorTask \in Conns \cup {None}
  /\ pc \in [Tasks -> CallerStates \cup MonitorStates]
  /\ \A u \in Callers : pc[u] \in CallerStates
  /\ \A m \in Conns : pc[m] \in MonitorStates
  /\ awaits \in [Tasks -> Tasks \cup {None}]
  /\ opened \in [Tasks -> Conns \cup {None}]
  /\ attempt \in [Conns -> Nat]
  /\ used \in [Bounds -> Nat]

----------------------------------------------------------------------------
(* What the code reads of that state *)

\* The property `connected`: transport.is_reading() also holds after the peer
\* has closed its side, because StreamReaderProtocol.eof_received() keeps the
\* transport open; it does not hold once close() or a flow-control pause came.
Connected == writer # None /\ transport[writer] \in {"open", "eof"}

Running(m) == m # None /\ pc[m] \notin {"unborn", "done", "crashed"}

Listening(k) == listener[k] \in {"new", "ready", "reading"}

\* Where task.cancel() takes a monitor.  asyncio.wait_for() lets the result of
\* an open_connection() that has just finished win over the cancellation.
CancelFates(m) == IF pc[m] = "opening" THEN {"cancelled", "opening"}
                                       ELSE {"cancelled"}

ListenerFates(k) == IF listener[k] = "reading" THEN {"cancelled", "reading"}
                                               ELSE {"cancelled"}

\* Mutant of LoopTop: `while True`.
LoopTopForever(up) == IF up THEN "watching" ELSE "opening"

\* The head of _monitor()'s loops, up to its first await: `up` is `connected`.
LoopTop(up) == IF disconnect THEN "done" ELSE IF up THEN "watching" ELSE "opening"

\* A mutant of AfterConnect: every task is taken for a monitor.
AfterConnectLoops(t, up) == IF up THEN LoopTop(TRUE) ELSE "backoff"

\* _connect() returns `up` to its caller.  A monitor that gets False computes
\* its pause first, and that float expression may overflow.
AfterConnect(t, up) ==
  IF t \in Callers THEN "idle"
  ELSE IF up THEN LoopTop(TRUE)
  ELSE IF attempt[t] < FloatExponent THEN "backoff"
  ELSE "crashed"

\* An exception leaves _connect(): no monitor catches it.
AfterRaise(t) == IF t \in Callers THEN "raised" ELSE "crashed"

\* The task is free to make a call: the last one returned, or raised.
Free(u) == pc[u] \in {"idle", "raised"}

Spend(kind, limit) == used[kind] < limit /\ used' = [used EXCEPT ![kind] = @ + 1]

----------------------------------------------------------------------------
(* connect() and _connect() *)

\* connect() clears _disconnect and __aenter__() does not; both then run
\* _connect() up to the await of open_connection().  (That __aenter__() turns a
\* False of _connect() into SpaConnectionError makes no difference here.)
Connect(u) ==
  /\ Free(u)
  /\ Spend("connect", MaxConnects)
  /\ disconnect' \in {FALSE, disconnect}
  /\ pc' = [pc EXCEPT ![u] = IF ~Connected /\ ~disconnect' THEN "opening" ELSE "idle"]
  /\ UNCHANGED <<writer, transport, listenerTask, hearing, monitorTask, awaits, opened, attempt>>

\* open_connection() fails or times out; _connect() returns `connected`, which
\* another task may have made true meanwhile.
OpenFails(t) ==
  /\ pc[t] = "opening"
  /\ Spend("failure", MaxFailures)
  /\ pc' = [pc EXCEPT ![t] = AfterConnect(t, Connected)]
  /\ UNCHANGED <<client, transport, hearing, awaits, opened, attempt>>

\* open_connection() succeeds: _reader, _writer and _listener are overwritten,
\* whatever they held and whatever was decided since _connect() began.
Install(t, c) ==
  /\ pc[t] = "opening"
  /\ transport[c] = "unused" /\ \A d \in Conns : transport[d] = "unused" => c <= d
  /\ transport' = [transport EXCEPT ![c] = "open"]
  /\ writer' = c
  /\ listenerTask' = c
  /\ listener' = [listener EXCEPT ![c] = "new"]
  /\ UNCHANGED <<disconnect, reads, attempt, used>>

\* There is no monitor to cancel: the new one is created in the same run.
OpenFirst(t) == \E c \in Conns :
  /\ Install(t, c)
  /\ ~Running(monitorTask)
  /\ monitorTask' = c
  /\ pc' = [pc EXCEPT ![c] = "new", ![t] = AfterConnect(t, TRUE)]
  /\ UNCHANGED <<awaits, opened>>

\* Mutant of OpenCancels: a monitor that reconnects puts itself back on record.
OpenCancelsAndStays(t) == \E c \in Conns :
  /\ Install(t, c)
  /\ Running(monitorTask) /\ monitorTask # t
  /\ pc[monitorTask] # "retiring"
  /\ \E fate \in CancelFates(monitorTask) :
       pc' = [pc EXCEPT ![monitorTask] = fate, ![t] = "retiring"]
  /\ awaits' = [awaits EXCEPT ![t] = monitorTask]
  /\ opened' = [opened EXCEPT ![t] = c]
  /\ monitorTask' = IF t \in Conns THEN t ELSE monitorTask

\* cancel_task() cancels another task and awaits it.
OpenCancels(t) == \E c \in Conns :
  /\ Install(t, c)
  /\ Running(monitorTask) /\ monitorTask # t
  /\ pc[monitorTask] # "retiring"
  /\ \E fate \in CancelFates(monitorTask) :
       pc' = [pc EXCEPT ![monitorTask] = fate, ![t] = "retiring"]
  /\ awaits' = [awaits EXCEPT ![t] = monitorTask]
  /\ opened' = [opened EXCEPT ![t] = c]
  /\ UNCHANGED monitorTask

\* _connect() runs in the monitor itself.  Awaiting itself makes asyncio throw
\* an error into the task at its next run, the pending cancellation replaces
\* that error, and cancel_task() swallows the cancellation: nothing is cancelled.
OpenCancelsItself(t) == \E c \in Conns :
  /\ Install(t, c)
  /\ monitorTask = t
  /\ pc' = [pc EXCEPT ![t] = "retiring"]
  /\ awaits' = [awaits EXCEPT ![t] = t]
  /\ opened' = [opened EXCEPT ![t] = c]
  /\ UNCHANGED monitorTask

\* The monitor to cancel is itself in that run between two event loop ticks:
\* awaiting it raises RuntimeError ("await wasn't used with future").
OpenCollides(t) == \E c \in Conns :
  /\ Install(t, c)
  /\ Running(monitorTask) /\ pc[monitorTask] = "retiring"
  /\ pc' = [pc EXCEPT ![t] = AfterRaise(t)]
  /\ UNCHANGED <<awaits, opened, monitorTask>>

\* Mutant of Retired: no new monitor if the connection is already gone again.
RetiredIfConnected(t) ==
  /\ pc[t] = "retiring"
  /\ awaits[t] = t \/ pc[awaits[t]] = "done"
  /\ IF Connected
     THEN /\ monitorTask' = opened[t]
          /\ pc' = [pc EXCEPT ![opened[t]] = "new", ![t] = AfterConnect(t, TRUE)]
     ELSE /\ pc' = [pc EXCEPT ![t] = AfterConnect(t, FALSE)]
          /\ UNCHANGED monitorTask
  /\ UNCHANGED <<disconnect, writer, listenerTask, net, hearing, awaits, opened, attempt>>

\* cancel_task() returns: the new monitor is created and tracked.
Retired(t) ==
  /\ pc[t] = "retiring"
  /\ awaits[t] = t \/ pc[awaits[t]] = "done"
  /\ monitorTask' = opened[t]
  /\ pc' = [pc EXCEPT ![opened[t]] = "new", ![t] = AfterConnect(t, Connected)]
  /\ UNCHANGED <<disconnect, writer, listenerTask, net, hearing, awaits, opened, attempt>>

\* The awaited monitor ended with an exception of its own, which cancel_task()
\* lets through.
RetireRaises(t) ==
  /\ pc[t] = "retiring"
  /\ awaits[t] # t /\ pc[awaits[t]] = "crashed"
  /\ pc' = [pc EXCEPT ![t] = AfterRaise(t)]
  /\ UNCHANGED <<client, net, hearing, awaits, opened, attempt>>

----------------------------------------------------------------------------
(* _monitor() *)

MonitorStart(m) ==
  /\ pc[m] = "new"
  /\ pc' = [pc EXCEPT ![m] = LoopTop(Connected)]
  /\ UNCHANGED <<client, net, hearing, awaits, opened, attempt>>

\* Mutant of MonitorPoll: a monitor reconnects without asking for _disconnect.
MonitorPollRegardless(m) ==
  /\ pc[m] = "watching"
  /\ ~Connected
  /\ pc' = [pc EXCEPT ![m] = "opening"]
  /\ UNCHANGED <<client, net, hearing, awaits, opened, attempt>>

\* A poll that finds the connection gone calls _connect(), which refuses
\* after a disconnect().  (A poll that finds it up changes nothing.)
MonitorPoll(m) ==
  /\ pc[m] = "watching"
  /\ ~Connected
  /\ pc' = [pc EXCEPT ![m] = IF disconnect THEN AfterConnect(m, FALSE) ELSE "opening"]
  /\ UNCHANGED <<client, net, hearing, awaits, opened, attempt>>

MonitorWakes(m) ==
  /\ pc[m] = "backoff"
  /\ attempt' = [attempt EXCEPT ![m] = @ + 1]
  /\ pc' = [pc EXCEPT ![m] = LoopTop(Connected)]
  /\ UNCHANGED <<client, net, hearing, awaits, opened>>

\* The CancelledError arrives.
MonitorEnds(m) ==
  /\ pc[m] = "cancelled"
  /\ pc' = [pc EXCEPT ![m] = "done"]
  /\ UNCHANGED <<client, net, hearing, awaits, opened, attempt>>

----------------------------------------------------------------------------
(* disconnect(): every step below runs on until a step has to wait *)

\* Mutant of Forget: the writer is kept.
ForgetNothing(u) ==
  /\ writer' = writer
  /\ pc' = [pc EXCEPT ![u] = "idle"]

\* self._reader = self._writer = None
Forget(u) ==
  /\ writer' = None
  /\ pc' = [pc EXCEPT ![u] = "idle"]

Unhook(u) ==
  IF listenerTask # None /\ listener[listenerTask] \in {"new", "ready", "reading", "cancelled"}
  THEN /\ \E fate \in ListenerFates(listenerTask) :
            listener' = [listener EXCEPT ![listenerTask] = fate]
       /\ awaits' = [awaits EXCEPT ![u] = listenerTask]
       /\ pc' = [pc EXCEPT ![u] = "unhooking"]
       /\ UNCHANGED writer
  ELSE /\ Forget(u)
       /\ UNCHANGED <<listener, awaits>>

CloseWriter(u) ==
  IF writer # None
  THEN /\ transport' = [transport EXCEPT ![writer] = "closed"]
       /\ pc' = [pc EXCEPT ![u] = "closing"]
       /\ UNCHANGED <<writer, listener, awaits>>
  ELSE /\ Unhook(u)
       /\ UNCHANGED transport

BeginDisconnect(u) ==
  /\ u \in Closers
  /\ Free(u)
  /\ Spend("disconnect", MaxDisconnects)
  /\ disconnect' = TRUE
  /\ UNCHANGED <<listenerTask, reads, monitorTask, opened, attempt>>

DisconnectCloses(u) ==
  /\ BeginDisconnect(u)
  /\ ~Running(monitorTask)
  /\ CloseWriter(u)

DisconnectCancels(u) ==
  /\ BeginDisconnect(u)
  /\ Running(monitorTask) /\ pc[monitorTask] # "retiring"
  /\ \E fate \in CancelFates(monitorTask) :
       pc' = [pc EXCEPT ![monitorTask] = fate, ![u] = "stopping"]
  /\ awaits' = [awaits EXCEPT ![u] = monitorTask]
  /\ UNCHANGED <<writer, transport, listener>>

\* As OpenCollides: the RuntimeError leaves disconnect() with nothing closed.
DisconnectCollides(u) ==
  /\ BeginDisconnect(u)
  /\ Running(monitorTask) /\ pc[monitorTask] = "retiring"
  /\ pc' = [pc EXCEPT ![u] = "raised"]
  /\ UNCHANGED <<writer, transport, listener, awaits>>

MonitorStopped(u) ==
  /\ pc[u] = "stopping"
  /\ pc[awaits[u]] = "done"
  /\ CloseWriter(u)
  /\ UNCHANGED <<disconnect, listenerTask, reads, monitorTask, opened, attempt, used>>

StopRaises(u) ==
  /\ pc[u] = "stopping"
  /\ pc[awaits[u]] = "crashed"
  /\ pc' = [pc EXCEPT ![u] = "raised"]
  /\ UNCHANGED <<client, net, hearing, awaits, opened, attempt>>

\* wait_closed() returns.
WriterClosed(u) ==
  /\ pc[u] = "closing"
  /\ Unhook(u)
  /\ UNCHANGED <<disconnect, listenerTask, net, reads, monitorTask, opened, attempt>>

ListenerUnhooked(u) ==
  /\ pc[u] = "unhooking"
  /\ listener[awaits[u]] = "stopped"
  /\ Forget(u)
  /\ UNCHANGED <<disconnect, listenerTask, net, hearing, monitorTask, awaits, opened, attempt>>

UnhookRaises(u) ==
  /\ pc[u] = "unhooking"
  /\ listener[awaits[u]] = "crashed"
  /\ pc' = [pc EXCEPT ![u] = "raised"]
  /\ UNCHANGED <<client, net, hearing, awaits, opened, attempt>>

----------------------------------------------------------------------------
(* _start_listener() *)

\* The reader is being read by another listener.
Taken == \E j \in Conns : listener[j] = "reading" /\ reads[j] = writer

\* A listener that starts after disconnect() has forgotten the reader, which was
\* its own if connect() made it meanwhile, fails its assertion.
ListenerAsserts(k) ==
  /\ listener[k] = "new"
  /\ writer = None
  /\ listener' = [listener EXCEPT ![k] = "crashed"]
  /\ UNCHANGED <<client, net, reads, locals>>

\* The loop reads self._reader afresh every time, whichever connection it
\* belongs to by now.
ListenerReads(k) ==
  /\ listener[k] \in {"new", "ready"}
  /\ Connected
  /\ ~Taken
  /\ listener' = [listener EXCEPT ![k] = "reading"]
  /\ reads' = [reads EXCEPT ![k] = writer]
  /\ UNCHANGED <<client, net, locals>>

\* A reader that is taken raises RuntimeError, which the loop logs and ignores;
\* for a listener that is in its loop already, nothing changes.
ListenerCollides(k) ==
  /\ listener[k] = "new"
  /\ Connected
  /\ Taken
  /\ listener' = [listener EXCEPT ![k] = "ready"]
  /\ UNCHANGED <<client, net, reads, locals>>

ListenerStops(k) ==
  /\ listener[k] = "ready" \/ (listener[k] = "new" /\ writer # None)
  /\ ~Connected
  /\ listener' = [listener EXCEPT ![k] = "stopped"]
  /\ UNCHANGED <<client, net, reads, locals>>

\* A message was read and processed, or the read failed or timed out.
ListenerReturns(k) ==
  /\ listener[k] = "reading"
  /\ listener' = [listener EXCEPT ![k] = "ready"]
  /\ UNCHANGED <<client, net, reads, locals>>

\* _process_message() raises, outside the try.
ListenerCrashes(k) ==
  /\ listener[k] = "reading"
  /\ Spend("fault", MaxFaults)
  /\ listener' = [listener EXCEPT ![k] = "crashed"]
  /\ UNCHANGED <<client, transport, reads, locals>>

\* The read timed out or ended; writing the keepalive to a peer that has gone
\* closes the transport.
KeepaliveFails(k) ==
  /\ listener[k] = "reading"
  /\ Connected /\ transport[writer] = "eof"
  /\ transport' = [transport EXCEPT ![writer] = "closed"]
  /\ listener' = [listener EXCEPT ![k] = "ready"]
  /\ UNCHANGED <<client, used, reads, locals>>

ListenerEnds(k) ==
  /\ listener[k] = "cancelled"
  /\ listener' = [listener EXCEPT ![k] = "stopped"]
  /\ UNCHANGED <<client, net, reads, locals>>

----------------------------------------------------------------------------
(* The network *)

\* The peer closes its side in order.
PeerCloses(c) ==
  /\ transport[c] = "open"
  /\ Spend("loss", MaxLosses)
  /\ transport' = [transport EXCEPT ![c] = "eof"]
  /\ UNCHANGED <<client, hearing, locals>>

\* The connection is reset or times out.
ConnectionLost(c) ==
  /\ transport[c] \in {"open", "eof"}
  /\ Spend("loss", MaxLosses)
  /\ transport' = [transport EXCEPT ![c] = "closed"]
  /\ UNCHANGED <<client, hearing, locals>>

\* Nobody reads any more, and the spa has sent more than the StreamReader
\* buffers: the transport pauses reading, and no longer counts as connected.
ReaderFills(c) ==
  /\ c = writer /\ transport[c] = "open"
  /\ \A k \in Conns : ~Listening(k)
  /\ transport' = [transport EXCEPT ![c] = "paused"]
  /\ UNCHANGED <<client, used, hearing, locals>>

----------------------------------------------------------------------------

Init ==
  /\ disconnect = FALSE
  /\ writer = None
  /\ transport = [c \in Conns |-> "unused"]
  /\ listenerTask = None
  /\ listener = [c \in Conns |-> "none"]
  /\ reads = [c \in Conns |-> None]
  /\ monitorTask = None
  /\ pc = [t \in Tasks |-> IF t \in Callers THEN "idle" ELSE "unborn"]
  /\ awaits = [t \in Tasks |-> None]
  /\ opened = [t \in Tasks |-> None]
  /\ attempt = [m \in Conns |-> 0]
  /\ used = [b \in Bounds |-> 0]

Open(t) == OpenFirst(t) \/ OpenCancels(t) \/ OpenCancelsItself(t) \/ OpenCollides(t)

\* What a task in _connect() does next.
Connecting(t) == OpenFails(t) \/ Open(t) \/ Retired(t) \/ RetireRaises(t)

Monitoring(m) == MonitorStart(m) \/ MonitorPoll(m) \/ MonitorWakes(m) \/ MonitorEnds(m)

Disconnecting(u) == MonitorStopped(u) \/ StopRaises(u) \/ WriterClosed(u)
                    \/ ListenerUnhooked(u) \/ UnhookRaises(u)

Hearing(k) == ListenerAsserts(k) \/ ListenerReads(k) \/ ListenerCollides(k) \/ ListenerStops(k)
              \/ ListenerReturns(k) \/ ListenerEnds(k)

Application(u) == Connect(u) \/ DisconnectCloses(u) \/ DisconnectCancels(u)
                  \/ DisconnectCollides(u)

Network(c) == PeerCloses(c) \/ ConnectionLost(c) \/ ReaderFills(c)

Next ==
  \/ \E t \in Tasks : Connecting(t)
  \/ \E u \in Callers : Application(u) \/ Disconnecting(u)
  \/ \E c \in Conns : \/ Monitoring(c)
                      \/ Hearing(c) \/ ListenerCrashes(c) \/ KeepaliveFails(c)
                      \/ Network(c)

Spec == Init /\ [][Next]_vars

\* The event loop runs every task that can run.  A listener whose connection
\* is silent tries the keepalive again and again.  Nothing is assumed of the
\* application, and of the network only that open_connection() ends.
Fairness ==
  /\ \A t \in Tasks : WF_vars(Connecting(t))
  /\ \A u \in Callers : WF_vars(Disconnecting(u))
  /\ \A c \in Conns : /\ WF_vars(Monitoring(c))
                      /\ WF_vars(Hearing(c))
                      /\ SF_vars(KeepaliveFails(c))

FairSpec == Spec /\ Fairness

----------------------------------------------------------------------------
(* Properties *)

\* A monitor that _connection_monitor refers to waits, if it is in
\* cancel_task() at all, for itself.  So at most the self-cancelling run of
\* _connect() stands between the tracked monitor and its loop, and nobody who
\* cancels the tracked monitor can become part of a cycle of waiting tasks.
TrackedWaitsForItself ==
  monitorTask # None /\ pc[monitorTask] = "retiring" => awaits[monitorTask] = monitorTask

\* Somebody will see to the connection: a monitor in its loop, or a task of
\* which nothing is left to do in cancel_task() but to return and create one.
Attends(t) ==
  \/ t \in Conns /\ pc[t] \in {"new", "watching", "opening", "backoff"}
  \/ pc[t] = "retiring" /\ (awaits[t] = t \/ pc[awaits[t]] \in {"cancelled", "done"})

Overflowed == \E m \in Conns : pc[m] = "crashed" /\ attempt[m] >= FloatExponent

\* Until the first disconnect(), a client that has once been connected is
\* never without a task that will reconnect it, however connects, losses and
\* reconnects interleave; the one exception is a monitor whose pause
\* overflowed a float.
MonitorCoverage ==
  used["disconnect"] = 0 /\ writer # None => (\E t \in Tasks : Attends(t)) \/ Overflowed

\* Until a message is received whose processing raises, a connection that
\* counts as connected has its own listener at work, unless a disconnect() is
\* taking it down, however connect() and disconnect() overlap and whichever
\* connection the listeners of older ones have moved on to.
ListenerAttached ==
  used["fault"] = 0 /\ Connected => Listening(writer) \/ \E u \in Callers : pc[u] = "unhooking"

\* Once a disconnect() has left no connection and no open_connection() under
\* way, no monitor that outlived it opens another: only a call of connect() does.
Quiet == disconnect /\ writer = None /\ \A t \in Tasks : pc[t] # "opening"
StaysDisconnected == [][Quiet /\ disconnect' => Quiet']_vars

\* A lost connection is replaced, until the first disconnect().
Recovers ==
  writer # None ~> \/ writer # None /\ transport[writer] = "open"
                   \/ Overflowed
                   \/ used["disconnect"] > 0

\* disconnect() ends, in every interleaving with other calls, monitors and
\* losses, but for two races with a connection that opens meanwhile: a monitor
\* whose cancellation was lost to its open_connection() lives on if a connect()
\* has taken the request back, and a listener whose cancellation was lost to a
\* message reads on if its connection is up; disconnect() waits for either.
DisconnectReturns ==
  \A u \in Closers :
    /\ pc[u] = "stopping" ~> pc[u] # "stopping" \/ ~disconnect
    /\ pc[u] \in {"closing", "unhooking"} ~> pc[u] \in {"idle", "raised"} \/ Connected

----------------------------------------------------------------------------
(* What the repository says, and this code does not do *)

\* disconnect() has returned and nobody called connect() since: the client is
\* not connected (its docstring: "Disconnect from the spa.").
DisconnectedIsOff ==
  disconnect /\ (\A u \in Callers : pc[u] = "idle") => ~Connected

============================================================================
