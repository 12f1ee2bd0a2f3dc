# A verification project for pybalboa

pybalboa is an asyncio client for the Wi-Fi modules of Balboa spas
(`src/pybalboa/`). This directory holds TLA+ specifications of it, the TLC
configurations that model-check them on small instances, and theorems about
them with proofs that TLAPS checks. The specifications are written from the
source; code that is not part of the repository (asyncio, the network, the spa)
is modelled from how `src/pybalboa` uses it.

* `tlc -config X.cfg M.tla` runs a check, `tlapm M.tla` checks the proofs of a
  `...Proofs` module, `tlasany M.tla` parses a module.
* `PROJECT.json` lists the components, the runs and their properties, one
  mutation of the specification per property that the property has to catch,
  the source lines of every definition, the findings, the hazards, the theorems.

## 1. Inventory

| Component | State | Operations | Module |
|---|---|---|---|
| Connection life cycle (`client.py` 384-494, `utils.py` 60-67) | `_disconnect`, `_reader`/`_writer`, `_listener`, `_connection_monitor`, the local `attempt` of each `_monitor()`, and where each task is suspended | `connect()`, `__aenter__()`, `_connect()`, `_monitor()`, `disconnect()`, `_start_listener()`, `cancel_task()` | `SpaConnection` |
| Configuration loading (`client.py` 384-407, 496-757, 792-852) | five `_..._loaded` flags, `_previous_status`, the controls, the event `_configuration_loaded` | `_process_message()`, the `_parse_...()` methods, `_check_configuration_loaded()`, `request_all_configuration()` | `SpaConfiguration`, abstractly `ConfigurationGate` |
| Controls (`control.py` 95-218) | `_state`, `_value`, the options | `update()`, `set_state()` of both classes | `SpaControl` |
| Events (`control.py` 69-92) | the class attribute `_listeners` | `on()`, `unsubscribe()`, `emit()` | `EventMixin` |
| Filter cycles (`client.py` 588-618, 899-1021) | start, duration and enablement of two cycles | `_parse_filter_cycle()`, `configure_filter_cycle()`, `set_filter_cycle()` | `FilterSchedule` |
| Discovery (`discovery.py`) | transport, timer handle, found spas, completion event | `broadcast()`, `datagram_received()`, `connection_lost()`, `async_discover()` | `Discovery` |
| Message framing (`utils.py` 77-92, `client.py` 473-515, 854-887) | the StreamReader's buffer, and in which read the listener is | `read_one_message()`, the listener's loop, `send_message()` | `SpaListener`, `Checksum` |
| Availability and keepalive (`client.py` 155-158, 484-488) | `_last_message_received`, `_last_message_sent` | `available`, the silent branch of the listener | `SpaListener`; the probe of a dead peer also in `SpaConnection` |
| Status decoding (`client.py` 517-566, 662-757, `utils.py` 16-26) | temperatures, modes, times, raw control states | the `_parse_...()` methods, `byte_parser()` | `StatusLayout`; the order of its effects and where it raises are in `SpaConfiguration` |
| Temperature and clock setters (`client.py` 297-307, 1023-1061) | cached unit, range, limits and clock | `set_temperature()`, `set_temperature_range()`, `set_temperature_unit()`, `set_time()`, `set_24_hour_time()` | `SpaSettings` |
| Device clock and fault log (`client.py` 380-382, 568-586, 693-700, 814-826, `control.py` 220-244) | `_time_offset`, `_fault` | `get_current_time()`, `request_fault_log()`, `_parse_fault_log()`, `FaultLog` | `DeviceClock` |
| Enumerations | constants | | as far as the models count with them |
| Exceptions, command line | | | not modelled |

How they interact. All of it runs on one event loop: a task is interrupted only
where it awaits something that suspends. `_connect()` starts a listener, a
request task and a monitor for every connection that it opens; the monitor calls
`_connect()` again, and thereby cancels and replaces itself. The listener
dispatches messages to the parsers, which set loaded flags and controls, emit
`update` events (the application's callbacks run within the listener), and set
the loaded event that the request task waits for. Controls and setters send
messages through the client, from what was last reported.

What is hard here:

* *connections*: calls of `connect()`, `disconnect()` and any number of monitors
  overlap at every `await`; tasks cancel and await each other, and themselves;
  `asyncio.wait_for()` may swallow a cancellation; losses come at any time;
* *configuration*: six kinds of messages in any order, repeated or missing, over
  several connections, with several request tasks at a time, and messages that
  raise half way;
* *controls and filter cycles*: the protocol has no way to set one control or
  one cycle, so the client computes what to send from what was last reported,
  while other calls, somebody at the panel, and reports are under way;
* *events*: callbacks change the list that is being iterated;
* *the byte stream*: noise makes the reader take a message to begin where none
  does, and wait for a body that is not one; silence, probes and the
  application's own messages race;
* *settings and clocks*: values are scaled with a unit, a range is reached by a
  toggle, a clock without a date is carried past midnight, all from a report
  that may be old;
* *discovery*: a timer, a timeout, datagrams and `close()` race.

The full list, with lines, is under "hazards" in `PROJECT.json`.

## 2. The modules

Each module begins with its CONSTANTS (with an `ASSUME` that proofs use and TLC
evaluates), its variables with the attribute they stand for, and `TypeOK`; then
one action per uninterrupted run of code. `used` counts what the environment has
done against the bounds `Max...`; no other variable is bounded by them.

**SpaConnection.** The k-th successful `open_connection()` has the number k, and
so have the listener and the monitor that `_connect()` makes for it; the tasks
are the callers (tasks of the application) and the monitors. `pc[t]` is the
`await` a task is suspended in:

| `pc` | where |
|---|---|
| `"opening"` | `_connect()`, in `wait_for(open_connection())` |
| `"retiring"` | `_connect()`, in `cancel_task(self._connection_monitor)` |
| `"new"`, `"watching"`, `"backoff"` | a monitor not started, in its poll, in its pause |
| `"cancelled"`, `"done"`, `"crashed"` | a monitor about to end, ended, ended by an exception |
| `"stopping"`, `"closing"`, `"unhooking"` | `disconnect()`, in its three awaits |
| `"idle"`, `"raised"` | a caller whose last call returned, or raised |

Four versions of the second half of `_connect()` differ in what
`cancel_task()` meets: no running monitor (`OpenFirst`), another task
(`OpenCancels`), the task itself (`OpenCancelsItself`), and a monitor that is at
this moment awaiting itself (`OpenCollides`). The third is the ordinary
reconnect: awaiting itself makes asyncio throw a `RuntimeError` into the task,
which the pending cancellation replaces, which `cancel_task()` swallows; so the
monitor is *not* cancelled, and one monitor more exists after every reconnect.
These details are those of CPython's C implementation of tasks, and of
`asyncio.wait_for()` up to Python 3.11 (the versions that `pyproject.toml`
allows include them): the result of an awaitable that finishes in the tick of
the cancellation wins over the cancellation (`CancelFates`, `ListenerFates`).
A listener that has not begun (`"new"`) may find `self._reader` forgotten by a
`disconnect()` that overlapped with the `connect()` that made it, and dies of its
assertion (`ListenerAsserts`); or it finds the reader being read by an older
listener, and tries again (`ListenerCollides`).

**SpaConfiguration.** The connection is reduced to `connected` and `listening`. A
setting is its kind, a status update is its identity (`Statuses`), and a control
is reduced to the status update it shows. The parsing of an update raises at one
of three places, and the exception ends the listener: `BadClock` are the updates
with an hour or a minute that does not exist (`client.py:699`, before any control
is set), `BadHeat` those whose heat state bits are 3, which `HeatState` refuses
(720, after the temperature range), and `BadWiFi` those that `WiFiState` refuses
(736, after all controls). All are stored as `_previous_status` by then, and the
clock is not looked at when the stored update is parsed again, so an update that
raised for its clock is taken in later by the check that a setting brings about.
`Raises` and `Parsed` say this; `Broken` is a filter cycle or a fault log entry
with a time that does not exist, which raises before a flag is set. `Check` is
`_check_configuration_loaded()`, and part of every action that takes a message
in, as it is in the code. `Requests` names the settings, in the order of
`request_all_configuration()`: all five in the code. `Connect` needs a free
member of `Requesters`, where the code always makes a new task: with two of them
a second connection, or a call of the application, may have to wait until a task
has ended. A connection that replaces another one is a `Drop` and a `Connect`.

**ConfigurationGate** is what `configuration_loaded` promises, abstractly: the
gate opens with the message that completes the kinds, at once, in any order, and
never closes. A message may complete several kinds at once (`Hear` of a setting
that has the stored status taken in with it), and make one void (a status update
that raises in the place of one that did not). `ImplementsGate` is the refinement
of it by `SpaConfiguration`, with `heard` for the flags that are set and the last
status update once it has been parsed to its end (`StatusHeard`), and `open` for
the event.

**SpaControl.** `control` says which control it is (`pump`, `heat` mode, or
`other`) and how many options it has; `Toggles` is the count that `set_state()`
computes, `OptionOf` what `update()` makes of a reported value. The spa itself
is modelled as the code takes it to be (`After`): a ring of states, except for
the heat mode, whose `READY_IN_REST` is left for `REST` and never entered by a
toggle. `Send` is one message, because `send_message()` may suspend after each.
`goal` and `informed` are history variables: the target of the last call, void
once somebody interferes, and whether that call counted from the control's true
state with nothing else under way.

**EventMixin.** One event and one list: `_listeners` is a class attribute, so
all clients and controls share it. An emission is an index into the list that is
being changed meanwhile, as a Python list iterator is. `stayed`, `removals` and
`gone` are history, of the emission that runs: who has been registered all the
time, and how many registrations went, in all and of each callback.

**FilterSchedule.** Both queues between client and spa are kept. Times count in
units of which `Day` make a day, so hours and minutes are one number; `Message`
is the body of `set_filter_cycle()`, including the modulus by which
`timedelta.seconds` leaves whole days out. An answer may have a start that is no
time (`None`): `_parse_filter_cycle()` then raises before it has stored anything,
or between the two cycles, so that the record is half of one answer and half of
another (`WithFirstHalf`), and the listener ends (`hears`). `loaded` is
`_filter_cycle_loaded`, which decides whether a new connection asks for the
record (`AsksFirst`). `wanted`, `informed` and `touched` are history variables.

**Discovery.** Time passes in intervals of `BROADCAST_INTERVAL`; `IntervalPasses`
waits until the event loop has run what is due.

**SpaListener.** `at` is the read in which the listener is suspended: the two
bytes of a header, the bytes up to a delimiter (`"resync"`), or the body, whose
length the header gave; `Ready` says whether the buffer lets it go on. Only the
first two have a timeout, as in the code. `heard` and `sent` are the ages of
`_last_message_received` and `_last_message_sent`, and `seen` is what
`available` was at the last `update` event, which is all that an application
that listens to events knows of it. `now` and the timeout are compared to the
microsecond in the code, so at an age of exactly 15 seconds the outcome is open
(`IdleOutcomes`). `Valid` has the tests of both length and checksum. One listener
reads: that listeners of older connections may read from the reader of a newer
one is `SpaConnection`'s subject, and here `Connect` waits until the last one has
ended. A message may come in in pieces: `coming` is what of it is still under
way, and each piece arrives when the event loop has nothing else to run. A read
that times out leaves its bytes in the buffer; one that finds the end of the
stream takes what is left with it; a listener that ends leaves its reader to
nobody. `Checksum` is the CRC of `utils.py:29`: `Shift` takes one bit into the
register, `Shifted` is the same as a table, and `Register` gives the register
after each bit of a message.

**StatusLayout** and **SpaSettings.** A status update and a device configuration
are functions from the positions of their bytes that matter to bytes.
`ControlsOf` and `StatesIn` are the two layouts, `SettingsIn` what a status says
of the settings. Temperatures count in halves of a degree. The calls send
messages through a queue, the spa takes them one by one, and reports through
another; `goal` is the history of what each setting should become by the calls
made: void when the call read a setting that was already changing, or when
somebody else has set it since. How the spa converts its target when its unit
changes is not known, so any target may follow; and somebody who changes the unit
at the panel voids a temperature that is still on its way, since that counts in
the unit in which it arrives. `Set24HourTime` sends the time last reported again,
and therefore raises when that does not exist, as `set_time()` does.

**DeviceClock.** Both clocks count moments from a midnight; the spa sends its
hour and minute, and no date. `OffsetTo` is `device_time - now` of
`client.py:700`, a difference of two times of the *same* date, which is right for
the time of day and wrong for the date when midnight lies between the two clocks.
`Reprocess` is the second parse of the last status by
`_check_configuration_loaded()`. A time may not exist (`None`): a status update
then raises after it was stored and before the offset is taken (`StatusRaises`),
a fault log entry before it becomes the fault (`FaultRaises`), and either ends
the listener (`hears`). `request_fault_log()` refuses an entry beyond the 24 and
255, and the spa answers it (`SpaAnswers`) when it likes. `known` is history:
whether the update behind the offset told the truth when it was sent, how long it
took (`late`), and how many days the host's date was ahead of the spa's
(`apart`). A clock that is set voids it, until the next update that differs from
the one before.

MC modules hold the sets for TLC and, where no liveness is checked, a symmetry.

## 3. The runs

| Run | Checks | Instance |
|---|---|---|
| `connection_races` | `TypeOK`, `TrackedWaitsForItself`, `ListenerAttached`, `MonitorCoverage`, `StaysDisconnected` | 2 tasks that both connect and disconnect, 3 connections, 2 connects, 1 disconnect, 1 loss, 1 failed attempt, 1 message that raises, pauses that overflow at the second attempt |
| `connection_liveness` | `Recovers`, `DisconnectReturns` | 2 tasks, one disconnects, 3 connections, 2 connects, 1 disconnect, 1 loss |
| `late_connection` (finding) | `DisconnectedIsOff` | 1 task, 3 connections, 2 losses, 1 disconnect |
| `configuration` | `TypeOK`, `ControlsShowStatus`, `ImplementsGate`, `ConfigurationLoads` | 2 of the settings (one that is taken in again and again, and the device configuration); 4 status updates: a good one, and one that raises at each of the three places; 1 change, 1 broken message, 1 request ignored, 1 loss, 1 call of the application, 2 request tasks that ask twice |
| `control` | `TypeOK`, `InformedCallArrives`, `ShowsControl` | a pump of 3 states, the heat mode, a light; 2 callers, 3 calls, 2 reports under way, 1 touch, 1 loss |
| `event_callbacks` | `TypeOK`, `MissesFewerThanRemoved`, `NoneRepeated` | 3 callbacks, 4 registrations at a time, 6 changes |
| `discovery` | `SearchTypeOK`, `ListedOnce`, `SilentAfterReturn`, `OneIsEnough`, `SearchEnds` | 3 spas and garbled datagrams, 5 datagrams, 4 intervals |
| `filter_calls` | `TypeOK`, `RecordIsTrue`, `InformedCallsAddUp` | days of 3 units, 2 callers, 2 calls, 3 messages each way, 1 touch or loss, 1 answer with a time that does not exist |
| `filter_full_day` (finding) | `FullDayStays` | 1 caller, 2 calls |
| `listener` | `TypeOK`, `TakenWasSent`, `InStep`, `Resynchronises`, `LearnsOfSilence` | frames of 7 bytes and a delimiter that counts as a length of 9; an ordinary status, and one whose checksum is the delimiter and whose processing raises; 1 garbled message, 1 message cut in two, 1 change, 1 end of the connection, 1 message of the application, a timeout of 2 units |
| `settings` | `TypeOK`, `InformedCallsArrive`, `CodesTellApart`, `OneBitOneControl` | a spa with every control; 2 initial statuses (of either unit), 2 temperatures, 2 times; 2 messages and 1 report under way, 3 calls or changes at the panel, or 1 control turned, 1 loss |
| `device_clock` | `TypeOK`, `TellsTimeOfDay`, `DatesFaults` | half minutes, days of 4 minutes, 8 moments from midnight on; leads of -3 and 4 moments, times that do not exist, 1 fault, 3 entries to ask for (one that is refused), 1 setting of a clock, messages that take up to 1 moment |

Why the bounds are enough to be interesting. Three connections are a first one,
its replacement, and one more that races with both: two monitors then reconnect
at a time, which is when they meet in `cancel_task()`; two connects and a
disconnect by two tasks reach all the awaits of both against each other; with
`FloatExponent` at 1 the overflow of the pause is reached at once. The
configuration needs one loss (flags survive it, requests do not), a good update
and one for each place where parsing raises (what is stored, shown and passed
over differs; the one that `WiFiState` refuses sets all controls, so two updates
may set them one after the other), a change from each of them to each other, and
settings of both sorts: the other three of the code's five are taken in as one of
these two is. One request ignored, with a recursion limit of one, is the most
that a task can make up for. Three calls of `set_state()` by two tasks overlap
and follow each other; two reports under way are an old and a new one. Four
registrations of three callbacks include a double one. Days of three units with
durations of one to three have the wrap at midnight and the whole day. With the
real delimiter 126 and frames of 31 bytes, a body that begins behind two
delimiters ends in the fourth byte of a later frame; 9 and 7 keep that relation,
so the reader gets out of step and back as the real one does. A timeout of two
units lets one pass between a probe and the next read. One cut per behaviour, at
any place, puts the end of a piece into each of the reads and lets a timeout or
the end of the connection come before the rest. Two messages and one report under
way are what makes a report old. Eight moments are a day, so that both clocks
pass midnight, apart from each other, and an update may repeat that of the day
before. What the theorems cover holds beyond these bounds.

Runs whose environment is exhausted at the end of its bounds, or in which the
system really stops (a search that has returned, a client without a listener and
with a full wire), say `CHECK_DEADLOCK FALSE`.

What the properties say:

* `TrackedWaitsForItself`: no cycle of waiting tasks can form around the monitor
  that `disconnect()` and `connect()` would cancel.
* `ListenerAttached`: a connection that counts as connected has its own
  listener, unless a `disconnect()` is taking it down.
* `MonitorCoverage`: until the first `disconnect()`, somebody is always left who
  will reconnect, in spite of monitors that cancel themselves and each other, and
  of collisions that end one of them.
* `StaysDisconnected`: a monitor that outlived a `disconnect()` does no harm
  once that has left nothing open and no attempt under way.
* `Recovers`, `DisconnectReturns`: the corresponding liveness, with the two
  races in which `disconnect()` does wait for ever spelled out.
* `ControlsShowStatus`: a loaded client shows the last status in *every*
  control, also in those that came into being after that status.
* `ImplementsGate`: the loaded event is set by the message that completes the
  configuration and by no other, although a message may complete it that is not
  new, and a status update may take away what an earlier one gave.
* `ConfigurationLoads`: loading ends over a connection that stays up with its
  listener, whatever was lost before, with a request left unanswered, and with
  request tasks of earlier connections and of the application still at work.
* `InformedCallArrives`, `ShowsControl`: `set_state()` counts right, whatever
  reports come in between its toggles, and reported values are understood.
* `MissesFewerThanRemoved`, `NoneRepeated`: the price of changing the list while
  it is iterated. Nothing is run more often than it is registered or was removed,
  whatever was registered meanwhile.
* `ListedOnce`, `SilentAfterReturn`, `OneIsEnough`, `SearchEnds`: the races of a
  search.
* `RecordIsTrue`, `InformedCallsAddUp`: the record of the filter cycles becomes
  true again, also where an answer was stored in part, and calls that knew the
  schedule change what they ask for only.
* `TakenWasSent`, `Resynchronises`, `LearnsOfSilence`: noise leads to no message
  that was not sent, and not to deafness, and silence is made known.
* `InStep`: without noise, no cut, timeout or end of a connection makes the
  reader refuse or search for anything.
* `InformedCallsArrive`: scaling, toggling and resending from a cached report are
  right as long as the report is.
* `CodesTellApart`, `OneBitOneControl`: the layouts and codes keep the controls
  apart, with the exception below.
* `TellsTimeOfDay`, `DatesFaults`: the estimate of the spa's time is right to the
  minute, and wrong in its date by exactly the days that the two dates were apart
  when the offset was taken; it is good enough to date faults, away from midnight.

Findings. Two runs end in a counterexample to what the repository says, quoted
in `PROJECT.json`: a connection comes up after `disconnect()` has returned, and
a filter cycle of 24 hours is set to none by a call on the other cycle.

Further behaviour of the models that the properties leave out by their
premises, because the code promises nothing of it:

* a message whose processing raises ends the listener; nothing replaces it while
  the connection is up (`ListenerAttached`, `ConfigurationLoads`, `RecordIsTrue`);
* a status update that raised is ignored when it is repeated, since it was
  stored before it was parsed, and the controls it did not reach go on showing
  the one before (`ControlsShowStatus`);
* a status update that ended the listener because its hour or minute does not
  exist may nevertheless complete the configuration, over the next connection,
  since its clock is not looked at again (`ImplementsGate` counts it as heard from
  then on);
* a spa that leaves more requests unanswered than `request_all_configuration()`
  can call itself ends the request task with a `RecursionError`, and the client
  stays unconfigured (`ConfigurationLoads` has fewer);
* a `connect()` that awaits a monitor whose cancellation got lost waits as long as
  that monitor lives (no property speaks of the end of `connect()`);
* a second call of an `unsubscribe()` removes another registration of the same
  callback (no property says whose it should be);
* two overlapping `set_state()` calls, or one from a stale report, miss their
  target (`InformedCallArrives` asks for an informed call);
* two calls on the filter cycles without the spa's answer between them lose the
  first one's change (`InformedCallsAddUp` asks for informed calls);
* after a reconnect, `cancel_task()` returns to a monitor that it has not
  cancelled, since it was asked to cancel its own task: one monitor more lives on
  (`TrackedWaitsForItself` and `MonitorCoverage` hold nevertheless);
* `emit()` passes over the callback behind one that unsubscribes itself
  (`MissesFewerThanRemoved` says how many can be missed);
* a listener that has lost the message boundaries does not find them while the
  spa repeats a status whose checksum is 126: the readout up to the delimiter then
  always ends at the checksum (`Resynchronises` asks for a status without a
  delimiter inside). While it is busy so, or waits for a body, the application is
  not told that the client has become unavailable (`LearnsOfSilence`);
* an application that keeps sending is not told either, since it keeps
  `_last_message_sent` young (`MaxSends` ends that in the model), and after a
  reconnect `available` is true by a message of the old connection;
* the bits of the blower begin at offset 1 of a byte whose bit 1 is the
  circulation pump's: turning that on shows as blower 1 too (`Shared`);
* with midnight between the clocks of host and spa, or passing while a fault log
  entry is under way, the fault is dated a day off (`DatesFaults` asks for a
  margin);
* after 1024 failed attempts the pause of a monitor overflows a float and ends
  it (`Overflowed`).

### Fairness

Only the liveness runs assume fairness. A task that can run is run by the event
loop (`WF` of the steps of each task: asyncio's ready queue is first in, first
out). `open_connection()` ends, since it is under `wait_for()`. A listener that
times out again and again tries the keepalive infinitely often, hence `SF` of
`KeepaliveFails`. Nothing is assumed of the application. Of the spa,
`ConfigurationLoads` and `ShowsControl` assume what `available` and the docs take
for granted, that it reports its status every second and answers what it is asked
(`SF`, since a lost connection interrupts both), and `ConfigurationLoads` also
that it is prompt (`Prompt`): when the three seconds of a request task are over,
whatever the spa does not ignore has been answered and taken in, if the
connection and its listener live. Without that, a task could use up its recursion
limit while the answers are on their way, which takes real tasks the better part
of an hour. The spa ignores at most `MaxIgnores` requests, in the run as many as
a task may repeat: with one more, the property fails, as the code does.
`ConfigurationLoads` has no other assumption on losses than its premise that one
connection stays up in the end, with its listener, and shows a status that can be
taken in. The run checks the safety properties of the configuration under the
same `PromptSpec`, which leaves out only the requests that are repeated while an
answer is under way; the theorems have them for `Spec`.

In discovery, time goes on; so it does for the listener, which runs whenever it
can (`WF` of `Listen` and `Tick`), while nothing is assumed of the spa and the
connection but what `Resynchronises` has as its premise.

## 4. The theorems

TLAPS proves, for every value of the constants that satisfies the `ASSUME` of the
module (any number of tasks, connections, messages, calls and losses):

* **SpaConnectionProofs.** `TypeCorrect`; `TrackedMonitorAwaitsItself`;
  `DisconnectionIsFinal`; `ConnectionIsHeard` (`ListenerAttached`) and
  `ClientStaysAttended` (`MonitorCoverage`). `TrackedWaitsForItself` is inductive
  with the types: `_connection_monitor` is assigned only a task that has not
  begun. `StaysDisconnected` is an action property, shown step by step. For the
  last two, what is inductive speaks of the state only: `Attached /\
  AwaitedLive`, and `Covered` given `Wanted` (no task is in `disconnect()`).
  `AwaitedLive` is there because a listener may die of its first assertion before
  any message has raised: one that a `disconnect()` awaits does not, as it was
  cancelled before. The premises, that no message has raised and nobody has
  disconnected *yet*, are handled by `CountersGrow`: counters that are zero after
  a step were zero before it. `Covered` rests on two further invariants:
  `AwaitsTask` (whoever is in `cancel_task()` awaits a task of a connection) and
  `Births` (the monitor that a task is about to create does not exist yet and is
  nobody else's to create, so that creating it overwrites no living task).
* **SpaConfigurationProofs.** `TypeCorrect`, and `ControlsAreCurrent`
  (`ControlsShowStatus`) by `LoadedInv`: when the event is set, all settings and a
  status update are there; when all settings are there and the stored update has
  been parsed to its end, the event is set; a status update with a bad clock is
  shown only by a client whose event is set, since only the check shows it; and an
  update without a bad clock is shown by the temperature range as soon as it is
  stored. The second and third parts are what makes the refinement work:
  `ClientImplementsGate` maps each step to `Hear` of some kinds, `Void`, or a
  stutter, and without the third an update could count as heard because its like
  had been shown before.
* **SpaControlProofs.** `TypeCorrect`, and `InformedCallsArrive`, for controls of
  every kind and 2 to 4 options. The invariant is `OnItsWay`: while an informed
  call is undisturbed, the toggles under way and those that one caller has yet to
  send lead from the control's state to the goal (`Reach`). `InformedCallArrives`
  says this only for a call that is over, and is not inductive.
* **EventMixinProofs.** `TypeCorrect`, `EmissionMissesFew`
  (`MissesFewerThanRemoved`) and `EmissionRepeatsNone` (`NoneRepeated`), for any
  callbacks and any number of changes. Both properties speak of what was run when
  the emission is over or at some index; what is inductive (`EmissionInv`) looks at
  the list instead. `Lost` are the callbacks that stay and were not run, and whose
  registrations all lie before the iterator by now: a removal moves one
  registration past it, so they are at most as many as the removals. And a
  callback has run at most once for each of its registrations `Behind` the iterator
  and each that is gone. What `RemoveAt` does to a list is `RemoveAtProperties`.
* **FilterScheduleProofs.** `TypeCorrect` (that computed durations and start
  times stay within a day is arithmetic, `LastingType` and `FillingType`);
  `RecordIsAlwaysTrue` by `RecordInv`: unless some call has yet to ask, nothing
  but a request ends the queue to the spa, and the last answer under way, or
  taken in, is true when that queue is empty, unless it will end the listener: a
  true answer replaces all of a record that was stored in part; and
  `InformedCallsAlwaysAddUp` by `InformedInv`: as long as all calls were informed
  and nobody interfered, the one message that may be on its way to the spa, or
  else the spa itself (`Coming`), has what the calls so far add up to.
* **NetworkProofs** is about what comes in: the listener's bytes, the checksum,
  and the searches of `Discovery`.
  - `TypeCorrect` is `SpaListener`'s, by `ListenerInv`: the listener waits for a
    body exactly when a header has given it a length that is not 0, and nothing is
    under way over a connection that has ended. A body of one byte would be a
    message without contents whose last byte, the length 1, is its checksum; it is
    never valid, because the checksum of no bytes is 0: an assumption on the
    constant, which TLC evaluates for the code's.
  - `ListenerStaysInStep` (`InStep`), for all statuses and checksums, by
    `StreamInv`: as long as there was no noise, what the reader has read of a
    message, what it holds (`Holds`) and what is still under way (`RestComes`)
    make up one frame, wherever that was cut. So a header is always one
    (`buffer[1]` is a delimiter, and the length is not 0), and a complete body is
    the contents and the checksum of a status (`WholeBody`).
  - `ChecksumTellsOneByte`: two messages that differ in one byte have different
    checksums. The registers agree up to that byte; a difference that has entered
    cannot leave within the eight bits of the byte (`ByteTakenIn`); and after that
    the same bits keep different registers apart, since a shift is one-to-one
    (`RegistersStayApart`). `OneChangedByteIsRefused` is what follows for a reader
    that has read the header of a frame, given that its `Checksum` is
    `CalculateChecksum`: with one byte of the contents or the checksum changed, the
    frame is not `Valid`.
  - The inductions over bits and bytes need no operator parameter: `Reaches` says
    of a *set* that it contains m if it contains 0 and, with each number below m,
    the next one. It follows from `FS_Injection`: a finite set has no one-to-one map
    onto a part of itself.
  - `SpasListedOnce`, `SearchesEndSilent`, `OneSpaIsEnough`, by `SearchInv`: a
    search that has returned has closed its transport, and one that has found what
    it was looking for knows that it is complete. `SearchTypeCorrect` says that a
    search sends at most one broadcast an interval; it needs `Paced`, that the timer
    which falls due as the time runs out finds a closed transport.
* **SpaSettingsProofs.** `TypeCorrect`, `CallsArrive` (`InformedCallsArrive`),
  `TogglesTurnOneControl` (`CodesTellApart`) and `BitsShowOnce`
  (`OneBitOneControl`), for every status, device configuration and limits.
  - The controls are always among those that the layout has room for
    (`Possible`), and the toggle codes leave room for all of these
    (`CodesApart`).
  - A byte is the sum of its digits (`DigitsOfByte`, `ByteOfDigits`), so a bit that
    is turned changes no other (`FlippedByte`). Each control shows the bits of one
    place (`StateInPlace`), and no two places overlap but two (`PlacesApart`).
  - `InformedCallsArrive` speaks of an empty queue. What is inductive
    (`SettingsInv`) says of every setting with a goal what becomes of it
    (`Arrives`): the last message under way that changes it makes it what it should
    be, and if there is none, it is that already. That is not enough by itself: a
    toggle counts from a state that another toggle under way would change, and a
    temperature in a unit that a message before it would change. Hence the two other
    conjuncts, that with a goal for the range at most one toggle is under way, and
    with a goal for the temperature no change of the unit.
* **DeviceClockProofs.** `TypeCorrect`, `TimeOfDayIsTold` (`TellsTimeOfDay`) and
  `FaultsAreDated` (`DatesFaults`), for minutes and days of any length, clocks any
  distance apart, and messages that take any time. A moment is taken apart into
  date, minute and rest (`Moment`, by `DivisionUnique`), so that a sum of an
  offset and a time of day can be compared with another moment (`EstimateIsNear`).
  `ClockInv` says of an update under way that it was true when it was sent or has a
  time that does not exist, of an entry of the fault log likewise, and contains
  `TellsTimeOfDay`: the offset is exact until a clock is set, because both
  clocks run alike.

Every invariant named here was first checked by TLC on the instance of the
component's run.

Only model-checked:

* all liveness (`Recovers`, `DisconnectReturns`, `ConfigurationLoads`,
  `ShowsControl`, `SearchEnds`, `Resynchronises`, `LearnsOfSilence`), which needs
  fairness and ENABLED;
* `TakenWasSent` under noise. It is not a theorem of the code for all frames: the
  checksum has eight bits, and a reader that lost a byte, or took a message to
  begin where none does, compares bytes of which nothing is known. On the run's
  frames it holds for one garbled message per behaviour, which loses a byte at
  any place or has one changed into 0 or the delimiter. Proved is that it holds
  without noise (`InStep` contains it), and that no changed byte of the contents
  or the checksum of a frame gets past a reader in step
  (`OneChangedByteIsRefused`).

## 5. Not modelled, and the plan

Left out for good: logging and formatting; what is only displayed (the measured
temperature, accessibility, running cycles, Wi-Fi state, the texts of module
identification and system information); enumerations and exceptions, beyond the
codes and branches that the models have; the example program in `__main__.py`.

The composition of all components in one model is beyond TLC: connection,
configuration and byte stream have around a million states each on their small
instances. Where they meet, each models what it needs of the other: the listener
that dies (`SpaConnection`, `SpaConfiguration`, `SpaListener`), the loss of a
connection (all), the reports of the spa (`SpaControl`, `FilterSchedule`,
`SpaSettings`, `DeviceClock`).

The order of the plan, most important first; what is done is marked.

1. `SpaConnection` and its proofs (done).
2. `SpaConfiguration`, `ConfigurationGate` and the refinement (done).
3. `SpaControl`, `FilterSchedule`, `EventMixin`, `Discovery` and their proofs
   (done).
4. `SpaListener` with `Checksum`, `SpaSettings` with `StatusLayout`,
   `DeviceClock`, and their proofs (done).
5. Left: which lost bytes, and which frames, `TakenWasSent` could be proved for.
