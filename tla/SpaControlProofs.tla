-------------------------- MODULE SpaControlProofs --------------------------
(***************************************************************************)
(* What holds of controls of every kind, for any number of callers, calls, *)
(* reports and losses.                                                     *)
(***************************************************************************)
EXTENDS SpaControl, TLAPS

(***************************************************************************)
(* Toggling                                                                *)
(***************************************************************************)

\* Where up to three toggles take control c.
Reach(c, s, n) == IF n = 0 THEN s
                  ELSE IF n = 1 THEN After(c, s)
                  ELSE IF n = 2 THEN After(c, After(c, s))
                  ELSE After(c, After(c, After(c, s)))

\* The modulus, spelled out for the numbers that set_state() meets.
LEMMA Remainders ==
  ASSUME NEW n \in 2 .. 4, NEW s \in 0 .. n - 1, NEW t \in 0 .. n - 1
  PROVE  /\ (s + 1) % n = IF s + 1 = n THEN 0 ELSE s + 1
         /\ (t - s) % n = IF t >= s THEN t - s ELSE t - s + n
  <1>1. CASE n = 2
    BY <1>1
  <1>2. CASE n = 3
    BY <1>2
  <1>3. CASE n = 4
    BY <1>3
  <1> QED
    BY <1>1, <1>2, <1>3

\* A control has two to four options, the heat mode three.
LEMMA ControlType ==
  ASSUME control \in Controls
  PROVE  /\ control.states \in 2 .. 4
         /\ control.kind = "heat" => control.states = 3
         /\ AllOptions(control) \subseteq 0 .. 3 /\ Unknown \notin AllOptions(control)
         /\ Options(control) \subseteq AllOptions(control)
  <1>1. control.states \in 2 .. 4 /\ (control.kind = "heat" => control.states = 3)
    <2>1. control \in [kind : {"pump", "heat", "other"}, states : 2 .. 4]
      BY ControlAssumption
    <2>2. control.kind = "heat" => control.states = 3
      BY ControlAssumption
    <2> QED
      BY <2>1, <2>2
  <1>2. AllOptions(control) \subseteq 0 .. 3 /\ Options(control) \subseteq AllOptions(control)
    BY <1>1 DEF AllOptions, Options
  <1>3. Unknown \notin Int /\ 0 .. 3 \subseteq Int
    BY ControlAssumption
  <1> QED
    BY <1>1, <1>2, <1>3

\* A toggle leads to a state of the control.
LEMMA AfterType ==
  ASSUME control \in Controls, NEW s \in AllOptions(control)
  PROVE  After(control, s) \in AllOptions(control)
  BY Remainders, ControlType DEF After, AllOptions

\* One toggle carried out is one toggle less to go.
LEMMA ReachStep ==
  ASSUME NEW s, NEW n \in 1 .. 3
  PROVE  Reach(control, After(control, s), n - 1) = Reach(control, s, n)
  <1>1. CASE n = 1
    BY <1>1 DEF Reach
  <1>2. CASE n = 2
    BY <1>2 DEF Reach
  <1>3. CASE n = 3
    BY <1>3 DEF Reach
  <1> QED
    BY <1>1, <1>2, <1>3

\* The toggles that set_state() counts lead from the known state to its target.
LEMMA TogglesReach ==
  ASSUME control \in Controls, state \in AllOptions(control), NEW t \in Options(control), t # state
  PROVE  Toggles(t) \in 1 .. 3 /\ Reach(control, state, Toggles(t)) = t
  <1>1. state # Unknown /\ t \in AllOptions(control) /\ control.states \in 2 .. 4
    BY ControlType
  <1>2. CASE control.kind = "heat"
    BY <1>1, <1>2, ControlType DEF Toggles, Reach, After, Options, AllOptions
  <1>3. CASE control.kind # "heat"
    <2>1. Toggles(t) = IF t >= state THEN t - state ELSE t - state + control.states
      BY <1>1, <1>3, Remainders DEF Toggles, AllOptions
    <2>2. \A s \in AllOptions(control) : After(control, s) = IF s + 1 = control.states THEN 0 ELSE s + 1
      BY <1>1, <1>3, Remainders DEF After, AllOptions
    <2>3. CASE control.states = 2
      BY <1>1, <2>1, <2>2, <2>3 DEF Reach, AllOptions
    <2>4. CASE control.states = 3
      BY <1>1, <2>1, <2>2, <2>4 DEF Reach, AllOptions
    <2>5. CASE control.states = 4
      BY <1>1, <2>1, <2>2, <2>5 DEF Reach, AllOptions
    <2> QED
      BY <1>1, <2>3, <2>4, <2>5
  <1> QED
    BY <1>2, <1>3

\* From a state that is unknown one toggle is sent.
LEMMA TogglesType ==
  ASSUME control \in Controls, state \in AllOptions(control) \cup {Unknown}, NEW t \in Options(control), t # state
  PROVE  Toggles(t) \in 1 .. 3
  <1>1. CASE state = Unknown
    BY <1>1 DEF Toggles
  <1>2. CASE state # Unknown
    BY <1>2, TogglesReach
  <1> QED
    BY <1>1, <1>2

(***************************************************************************)
(* The invariant: what is still to be sent and what is under way leads     *)
(* from the control's state to the goal of an informed call.               *)
(***************************************************************************)

OnItsWay == \E u \in Callers :
  /\ \A v \in Callers \ {u} : left[v] = 0
  /\ toggles + left[u] \in 0 .. 3
  /\ Reach(control, spa, toggles + left[u]) = goal

ControlInv ==
  /\ control \in Controls
  /\ spa \in AllOptions(control)
  /\ state \in AllOptions(control) \cup {Unknown}
  /\ toggles \in Nat
  /\ reports \in Seq(0 .. 3)
  /\ left \in [Callers -> 0 .. 3]
  /\ goal \in Options(control) \cup {None}
  /\ informed = "sure" /\ goal # None => connected /\ OnItsWay

\* A reported value is taken for an option, or for none.
LEMMA OptionOfType ==
  ASSUME control \in Controls, NEW value \in 0 .. 3
  PROVE  OptionOf(value) \in AllOptions(control) \cup {Unknown}
  BY ControlType DEF OptionOf, AllOptions

\* set_state() keeps the invariant.
LEMMA SetStateKeeps ==
  ASSUME ControlInv, NEW u \in Callers, NEW t \in Options(control), SetState(u, t)
  PROVE  ControlInv'
  <1> USE ControlAssumption
  <1>1. UNCHANGED <<control, connected, spa, toggles, reports, state>> /\ goal' = t
    BY DEF SetState
  <1> DEFINE n == IF state = t THEN 0 ELSE Toggles(t)
  <1>2. n \in 0 .. 3
    BY TogglesType DEF ControlInv
  <1>3. left' = [left EXCEPT ![u] = n]
    BY DEF SetState
  <1> HIDE DEF n
  <1>4. left' \in [Callers -> 0 .. 3]
    BY <1>2, <1>3 DEF ControlInv
  <1>5. ASSUME informed' = "sure"
        PROVE  connected' /\ OnItsWay'
    <2>1. connected /\ Quiet /\ state = spa /\ state # Unknown
      BY <1>5 DEF SetState
    <2>2. Reach(control, spa, n) = t
      <3>1. CASE state = t
        BY <2>1, <3>1 DEF n, Reach
      <3>2. CASE state # t
        BY <2>1, <3>2, TogglesReach DEF n, ControlInv
      <3> QED
        BY <3>1, <3>2
    <2>3. toggles = 0 /\ \A v \in Callers : left[v] = 0
      BY <2>1 DEF Quiet
    <2>4. left'[u] = n /\ \A v \in Callers \ {u} : left'[v] = 0
      BY <1>3, <2>3 DEF ControlInv
    <2>5. toggles' + left'[u] = n
      BY <1>1, <1>2, <2>3, <2>4
    <2> QED
      BY <1>1, <1>2, <2>1, <2>2, <2>4, <2>5 DEF OnItsWay
  <1>6. goal' \in Options(control) \cup {None}
    BY <1>1
  <1> QED
    BY <1>1, <1>4, <1>5, <1>6 DEF ControlInv

\* So does sending a toggle.
LEMMA SendKeeps ==
  ASSUME ControlInv, NEW u \in Callers, Send(u)
  PROVE  ControlInv'
  <1>1. UNCHANGED <<control, connected, spa, reports, state, goal, informed>>
    BY DEF Send
  <1>2. left[u] \in 1 .. 3 /\ left' = [left EXCEPT ![u] = left[u] - 1]
    BY DEF Send, ControlInv
  <1>3. left' \in [Callers -> 0 .. 3] /\ toggles' \in Nat
    BY <1>2 DEF Send, ControlInv
  <1>4. ASSUME informed = "sure", goal # None
        PROVE  OnItsWay'
    <2>1. connected /\ toggles' = toggles + 1
      BY <1>4 DEF Send, ControlInv
    <2>2. PICK w \in Callers : /\ \A v \in Callers \ {w} : left[v] = 0
                               /\ toggles + left[w] \in 0 .. 3
                               /\ Reach(control, spa, toggles + left[w]) = goal
      BY <1>4 DEF ControlInv, OnItsWay
    <2>3. w = u
      BY <1>2, <2>2
    <2>4. toggles' + left'[u] = toggles + left[u] /\ \A v \in Callers \ {u} : left'[v] = 0
      BY <1>2, <2>1, <2>2, <2>3 DEF ControlInv
    <2> QED
      BY <1>1, <2>2, <2>3, <2>4 DEF OnItsWay
  <1> QED
    BY <1>1, <1>3, <1>4 DEF ControlInv

\* So does the spa when it carries one out.
LEMMA SpaTogglesKeeps ==
  ASSUME ControlInv, SpaToggles
  PROVE  ControlInv'
  <1>1. UNCHANGED <<control, connected, reports, state, left, goal, informed>>
        /\ spa' = After(control, spa) /\ toggles' = toggles - 1 /\ toggles \in Nat \ {0}
    BY DEF SpaToggles, ControlInv
  <1>2. spa' \in AllOptions(control)
    BY <1>1, AfterType DEF ControlInv
  <1>3. ASSUME informed = "sure", goal # None
        PROVE  OnItsWay'
    <2>1. PICK w \in Callers : /\ \A v \in Callers \ {w} : left[v] = 0
                               /\ toggles + left[w] \in 0 .. 3
                               /\ Reach(control, spa, toggles + left[w]) = goal
      BY <1>3 DEF ControlInv, OnItsWay
    <2>2. left[w] \in 0 .. 3
      BY DEF ControlInv
    <2> DEFINE n == toggles + left[w]
    <2>3. n \in 1 .. 3 /\ toggles' + left'[w] = n - 1
      BY <1>1, <2>1, <2>2
    <2>4. Reach(control, spa', n - 1) = Reach(control, spa, n)
      BY <1>1, <2>3, ReachStep
    <2> QED
      BY <1>1, <2>1, <2>3, <2>4 DEF OnItsWay
  <1> QED
    BY <1>1, <1>2, <1>3 DEF ControlInv

\* And every other step.
LEMMA ControlKept ==
  ASSUME ControlInv, [Next]_vars
  PROVE  ControlInv'
  <1> USE ControlAssumption
  <1>1. ASSUME NEW u \in Callers, Send(u) PROVE ControlInv'
    BY <1>1, SendKeeps
  <1>2. ASSUME NEW u \in Callers, NEW t \in Options(control), SetState(u, t) PROVE ControlInv'
    BY <1>2, SetStateKeeps
  <1>3. CASE Update
    <2>1. Head(reports) \in 0 .. 3 /\ Tail(reports) \in Seq(0 .. 3)
      BY <1>3 DEF Update, ControlInv
    <2>2. state' \in AllOptions(control) \cup {Unknown}
      BY <1>3, <2>1, OptionOfType DEF Update, ControlInv
    <2> QED
      BY <1>3, <2>1, <2>2 DEF Update, ControlInv, OnItsWay
  <1>4. CASE SpaToggles
    BY <1>4, SpaTogglesKeeps
  <1>5. CASE SpaReports
    <2>1. Values(spa) \subseteq 0 .. 3
      BY ControlType DEF Values, ControlInv
    <2>2. reports' \in Seq(0 .. 3)
      BY <1>5, <2>1 DEF SpaReports, ControlInv
    <2> QED
      BY <1>5, <2>2 DEF SpaReports, ControlInv, OnItsWay
  <1>6. CASE SpaTouched
    BY <1>6 DEF SpaTouched, ControlInv
  <1>7. CASE Drop
    <2>1. reports' \in Seq(0 .. 3)
      BY <1>7 DEF Drop
    <2> QED
      BY <1>7, <2>1 DEF Drop, ControlInv
  <1>8. CASE Reconnect
    BY <1>8 DEF Reconnect, ControlInv, OnItsWay
  <1>9. CASE UNCHANGED vars
    BY <1>9 DEF vars, ControlInv, OnItsWay
  <1> QED
    BY <1>1, <1>2, <1>3, <1>4, <1>5, <1>6, <1>7, <1>8, <1>9 DEF Next

\* No call has a goal to begin with.
LEMMA ControlInit ==
  ASSUME Init
  PROVE  ControlInv
  <1>1. reports \in Seq(0 .. 3) /\ left \in [Callers -> 0 .. 3]
    BY DEF Init
  <1> QED
    BY <1>1 DEF Init, ControlInv

\* A call of set_state() that knows the control's state and that nobody disturbs
\* brings a control of any kind to the state it was called for, however its
\* toggles, their effects and the reports of them interleave.
THEOREM InformedCallsArrive == Spec => []InformedCallArrives
  <1>1. ControlInv => InformedCallArrives
    <2> SUFFICES ASSUME ControlInv, informed = "sure", goal # None, toggles = 0,
                        \A u \in Callers : left[u] = 0
                 PROVE  spa = goal
      BY DEF InformedCallArrives
    <2>1. PICK w \in Callers : Reach(control, spa, toggles + left[w]) = goal
      BY DEF ControlInv, OnItsWay
    <2>2. toggles + left[w] = 0
      OBVIOUS
    <2> QED
      BY <2>1, <2>2 DEF Reach
  <1> QED
    BY <1>1, ControlInit, ControlKept, PTL DEF Spec

\* A control is always in a state it has, the client never takes it for one it has
\* not, whatever value the spa reports, and no call has more than three toggles to
\* send.
THEOREM TypeCorrect == Spec => []TypeOK
  <1> DEFINE Rest == /\ connected \in BOOLEAN /\ Len(reports) <= MaxReports
                     /\ informed \in Knowledge /\ used \in [Bounds -> Nat]
  <1>1. MaxReports \in Nat
    BY ControlAssumption
  <1>2. Init => Rest
    BY <1>1 DEF Init, Knowledge
  <1>3. ControlInv /\ Rest /\ [Next]_vars => Rest'
    <2> SUFFICES ASSUME ControlInv, Rest, [Next]_vars
                 PROVE  Rest'
      OBVIOUS
    <2>1. ASSUME NEW kind \in Bounds, NEW limit, Spend(kind, limit)
          PROVE  used' \in [Bounds -> Nat]
      BY <2>1 DEF Spend
    <2>2. reports \in Seq(0 .. 3) /\ Len(reports) \in Nat
      BY DEF ControlInv
    <2>3. ASSUME NEW u \in Callers, Send(u) PROVE Rest'
      BY <2>3 DEF Send
    <2>4. ASSUME NEW u \in Callers, NEW t \in Options(control), SetState(u, t) PROVE Rest'
      <3>1. informed' \in Knowledge
        BY <2>4 DEF SetState, Knowledge
      <3>2. used' \in [Bounds -> Nat]
        BY <2>1, <2>4 DEF SetState, Bounds
      <3> QED
        BY <2>4, <3>1, <3>2 DEF SetState
    <2>5. CASE Update
      <3>1. Len(reports') <= MaxReports
        <4>1. Len(Tail(reports)) = Len(reports) - 1
          BY <2>2, <2>5 DEF Update
        <4> QED
          BY <1>1, <2>2, <2>5, <4>1 DEF Update
      <3> QED
        BY <2>5, <3>1 DEF Update
    <2>6. CASE SpaToggles
      BY <2>6 DEF SpaToggles
    <2>7. CASE SpaReports
      <3>1. PICK value \in Values(spa) : reports' = Append(reports, value)
        BY <2>7 DEF SpaReports
      <3>2. value \in 0 .. 3
        BY ControlType DEF Values, ControlInv
      <3>3. Len(reports') = Len(reports) + 1
        BY <2>2, <3>1, <3>2
      <3> QED
        BY <1>1, <2>2, <2>7, <3>3 DEF SpaReports
    <2>8. CASE SpaTouched
      BY <2>1, <2>8 DEF SpaTouched, Bounds
    <2>9. CASE Drop
      <3>1. Len(reports') <= MaxReports
        BY <1>1, <2>9 DEF Drop
      <3>2. used' \in [Bounds -> Nat]
        BY <2>1, <2>9 DEF Drop, Bounds
      <3> QED
        BY <2>9, <3>1, <3>2 DEF Drop
    <2>10. CASE Reconnect \/ UNCHANGED vars
      BY <2>10 DEF Reconnect, vars
    <2> QED
      BY <2>3, <2>4, <2>5, <2>6, <2>7, <2>8, <2>9, <2>10 DEF Next
  <1>4. ControlInv /\ Rest => TypeOK
    BY DEF ControlInv, TypeOK
  <1> QED
    BY <1>2, <1>3, <1>4, ControlInit, ControlKept, PTL DEF Spec
=============================================================================
