--------------------------- MODULE MCSpaSettings ---------------------------
(***************************************************************************)
(* SpaSettings for TLC: a spa with every control that there may be, that   *)
(* begins at 80 degrees Fahrenheit or at 38 degrees Celsius.               *)
(***************************************************************************)
EXTENDS SpaSettings

Zero == [p \in StatusBytes |-> 0]
SomeReports == {[Zero EXCEPT ![9] = 0, ![20] = 80],
                [Zero EXCEPT ![9] = 3, ![10] = 4, ![20] = 76, ![3] = 23, ![4] = 59]}

FullDevice == [p \in DeviceBytes |-> 255]
SomeLimits == [r \in 0 .. 1 |-> IF r = 0 THEN [low |-> 51, high |-> 80]
                                         ELSE [low |-> 80, high |-> 104]]

\* 40 degrees Celsius, 51 1/2 degrees Fahrenheit.
SomeTemperatures == {80, 103}
SomeClocks == {<<0, 0>>, <<23, 59>>}
============================================================================
