----------------------------- MODULE SpaControl -----------------------------
(***************************************************************************)
(* A control of the spa (a pump, a light, the heat mode, ...) and the      *)
(* client's picture of it.  The protocol has no message that sets a        *)
(* control, only one that toggles it to its next state: set_state() counts *)
(* from the state that it last heard of how many toggles will do.          *)
(*                                                                         *)
(* The spa reports the control's state at times of its own; reports and    *)
(* toggles travel in order and are lost with the connection.  A toggle     *)
(* reveals nothing but its number, so those under way are counted.         *)
(***************************************************************************)
EXTENDS Integers, Sequences

CONSTANTS Controls,    \* controls to be looked at: their kinds and numbers of options
          Callers,     \* tasks that call set_state()
          Unknown,     \* UnknownState.UNKNOWN
          None,
          MaxReports,  \* bounds: reports under way,
          MaxCalls,    \*   calls of set_state(),
          MaxTouches,  \*   changes made at the spa,
          MaxDrops     \*   connections lost

ASSUME ControlAssumption ==
  /\ Controls \subseteq [kind : {"pump", "heat", "other"}, states : 2 .. 4]
  /\ \A c \in Controls : c.kind = "heat" => c.states = 3
  /\ Unknown \notin Int /\ None \notin Int
  /\ {MaxReports, MaxCalls, MaxTouches, MaxDrops} \subseteq Nat

VARIABLES
  control,   \* which control this is, once and for all
  connected, \* the client's property
  spa,       \* the state of the control itself
  toggles,   \* how many toggles are on their way to the spa
  reports,   \* the values on their way to the client
  state,     \* self._state
  left,      \* how many toggles each call has yet to send
  goal,      \* the state of the last call, None once somebody else interferes
  informed,  \* what that call knew of the control's state, other calls included
  used       \* how much of its bounds the environment has used

vars == <<control, connected, spa, toggles, reports, state, left, goal, informed, used>>

AllOptions(c) == 0 .. c.states - 1

\* HeatModeSpaControl's custom_options leave READY_IN_REST out.
Options(c) == IF c.kind = "heat" THEN {0, 1} ELSE AllOptions(c)

\* A call may find the state unknown, perhaps out of date, or known for sure.
Knowledge == {"blind", "stale", "sure"}

Bounds == {"call", "touch", "drop"}
Spend(kind, limit) == used[kind] < limit /\ used' = [used EXCEPT ![kind] = @ + 1]

TypeOK ==
  /\ control \in Controls
  /\ connected \in BOOLEAN
  /\ spa \in AllOptions(control)
  /\ toggles \in Nat
  /\ reports \in Seq(0 .. 3) /\ Len(reports) <= MaxReports
  /\ state \in AllOptions(control) \cup {Unknown}
  /\ left \in [Callers -> 0 .. 3]
  /\ goal \in Options(control) \cup {None}
  /\ informed \in Knowledge
  /\ used \in [Bounds -> Nat]

----------------------------------------------------------------------------
(* The client *)

\* The option that update() takes a reported value for.
OptionOf(value) ==
  IF value \in AllOptions(control) THEN value
  ELSE IF control.kind = "pump" /\ value >= control.states THEN control.states - 1 ELSE Unknown

\* A mutant of Toggles: the heat mode is a ring as the others are.
TogglesRound(target) == IF state = Unknown THEN 1 ELSE (target - state) % control.states

\* How many toggles set_state() sends to get from `state` to another target.
Toggles(target) ==
  IF state = Unknown THEN 1
  ELSE IF control.kind = "heat" THEN IF state = 2 /\ target = 0 THEN 2 ELSE 1
  ELSE (target - state) % control.states

\* Nothing is under way that the client does not know of.
Quiet == toggles = 0 /\ reports = <<>> /\ \A u \in Callers : left[u] = 0

\* set_state(): nothing to do, or so many toggles to send.
SetState(u, target) ==
  /\ left[u] = 0
  /\ Spend("call", MaxCalls)
  /\ left' = [left EXCEPT ![u] = IF state = target THEN 0 ELSE Toggles(target)]
  /\ goal' = target
  /\ informed' = IF state = Unknown THEN "blind"
                 ELSE IF connected /\ Quiet /\ state = spa THEN "sure" ELSE "stale"
  /\ UNCHANGED <<control, connected, spa, toggles, reports, state>>

\* send_message() may suspend in drain() after every message, and sends
\* nothing without a connection: set_state() returns True all the same.
Send(u) ==
  /\ left[u] > 0
  /\ left' = [left EXCEPT ![u] = @ - 1]
  /\ toggles' = IF connected THEN toggles + 1 ELSE toggles
  /\ UNCHANGED <<control, connected, spa, reports, state, goal, informed, used>>

\* Mutants of Update: no option stands for the values from the last option on; the
\* reported value is kept as it is.
UpdateLow ==
  /\ reports # <<>>
  /\ state' = IF Head(reports) \in AllOptions(control) THEN Head(reports) ELSE Unknown
  /\ reports' = Tail(reports)
  /\ UNCHANGED <<control, connected, spa, toggles, left, goal, informed, used>>

UpdateRaw ==
  /\ reports # <<>>
  /\ state' = Head(reports)
  /\ reports' = Tail(reports)
  /\ UNCHANGED <<control, connected, spa, toggles, left, goal, informed, used>>

\* _update_control_states() and update()
Update ==
  /\ reports # <<>>
  /\ state' = OptionOf(Head(reports))
  /\ reports' = Tail(reports)
  /\ UNCHANGED <<control, connected, spa, toggles, left, goal, informed, used>>

----------------------------------------------------------------------------
(* The spa and the connection, as the code takes them to be *)

\* READY_IN_REST is left for REST, and never entered by a toggle.
After(c, s) == IF c.kind = "heat" THEN IF s = 1 THEN 0 ELSE 1
                                 ELSE (s + 1) % c.states

SpaToggles ==
  /\ toggles > 0
  /\ spa' = After(control, spa)
  /\ toggles' = toggles - 1
  /\ UNCHANGED <<control, connected, reports, state, left, goal, informed, used>>

\* The values that stand for a state: a pump may report its highest speed as
\* any value from there on.
Values(s) == IF control.kind = "pump" /\ s = control.states - 1 THEN s .. 3 ELSE {s}

SpaReports ==
  /\ connected
  /\ Len(reports) < MaxReports
  /\ \E value \in Values(spa) : reports' = Append(reports, value)
  /\ UNCHANGED <<control, connected, spa, toggles, state, left, goal, informed, used>>

\* Somebody at the panel, or a timer of the spa.
SpaTouched ==
  /\ Spend("touch", MaxTouches)
  /\ spa' \in AllOptions(control) \ {spa}
  /\ goal' = None
  /\ UNCHANGED <<control, connected, toggles, reports, state, left, informed>>

Drop ==
  /\ connected
  /\ Spend("drop", MaxDrops)
  /\ connected' = FALSE
  /\ toggles' = 0
  /\ reports' = <<>>
  /\ goal' = None
  /\ UNCHANGED <<control, spa, state, left, informed>>

Reconnect ==
  /\ ~connected
  /\ connected' = TRUE
  /\ UNCHANGED <<control, spa, toggles, reports, state, left, goal, informed, used>>

----------------------------------------------------------------------------

Init ==
  /\ control \in Controls
  /\ connected = TRUE
  /\ spa \in AllOptions(control)
  /\ toggles = 0
  /\ reports = <<>>
  /\ state = Unknown
  /\ left = [u \in Callers |-> 0]
  /\ goal = None
  /\ informed = "blind"
  /\ used = [b \in Bounds |-> 0]

Next ==
  \/ \E u \in Callers : Send(u) \/ \E target \in Options(control) : SetState(u, target)
  \/ Update
  \/ SpaToggles \/ SpaReports \/ SpaTouched
  \/ Drop \/ Reconnect

Spec == Init /\ [][Next]_vars

\* The event loop runs the tasks, the monitor reconnects, and the spa carries
\* out what it is told and reports every second.
Fairness ==
  /\ \A u \in Callers : WF_vars(Send(u))
  /\ WF_vars(Update)
  /\ WF_vars(SpaToggles)
  /\ SF_vars(SpaReports)
  /\ WF_vars(Reconnect)

FairSpec == Spec /\ Fairness

----------------------------------------------------------------------------
(* Properties *)

\* A call that knew the control's state, and that no other call, no hand at the
\* panel and no lost connection disturbs, has brought the control to the state
\* it was called for when its last toggle has been carried out: whatever
\* reports come and go between its toggles.
InformedCallArrives ==
  informed = "sure" /\ goal # None /\ toggles = 0 /\ (\A u \in Callers : left[u] = 0)
    => spa = goal

\* Without further calls and changes, the client comes to show the state the
\* control has, over any number of lost connections before.
ShowsControl ==
  \A s \in 0 .. 3 : <>[](spa = s) => <>[](state = s)

============================================================================
