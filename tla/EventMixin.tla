----------------------------- MODULE EventMixin -----------------------------
(***************************************************************************)
(* The event callbacks that clients and controls run.  There is one event, *)
(* and one list of callbacks: EventMixin keeps it in a class attribute, so *)
(* that all clients and all controls share it, whoever emits.              *)
(*                                                                         *)
(* emit() iterates that very list while the callbacks, which are the       *)
(* application's code, may add to it and remove from it.                   *)
(***************************************************************************)
EXTENDS Naturals, Sequences, FiniteSets, SequencesExt

CONSTANTS Callbacks,
          MaxListeners, \* bounds: registrations at one time,
          MaxChanges    \*   registrations and removals

ASSUME EventAssumption == {MaxListeners, MaxChanges} \subseteq Nat

VARIABLES
  listeners, \* _listeners["update"]
  at,        \* the index that emit() has reached, 0 outside of it
  inside,    \* whether it is running the callback at that index
  ended,     \* how the last emit() ended: "not", "whole" or "raised"
  ran,       \* how often it ran each callback
  stayed,    \* the callbacks that have been registered since it began
  removals,  \* how many registrations have been removed since it began
  gone,      \* how many of each callback (history, as are the two before)
  changes    \* how much of MaxChanges the application has used

vars == <<listeners, at, inside, ended, ran, stayed, removals, gone, changes>>
emission == <<at, inside, ended, ran>>

TypeOK ==
  /\ listeners \in Seq(Callbacks) /\ Len(listeners) <= MaxListeners
  /\ at \in 0 .. MaxListeners + 1
  /\ inside \in BOOLEAN
  /\ ended \in {"not", "whole", "raised"}
  /\ ran \in [Callbacks -> Nat]
  /\ stayed \subseteq Callbacks
  /\ gone \in [Callbacks -> Nat]
  /\ removals \in 0 .. changes /\ changes \in 0 .. MaxChanges

----------------------------------------------------------------------------

\* The application acts between emissions and from within a callback.
May == (at = 0 \/ inside) /\ changes < MaxChanges /\ changes' = changes + 1

\* on()
On(c) ==
  /\ May
  /\ Len(listeners) < MaxListeners
  /\ listeners' = Append(listeners, c)
  /\ UNCHANGED <<emission, stayed, removals, gone>>

\* unsubscribe(), called any number of times: the first registration of the
\* callback goes, whichever call of on() made it.
Unsubscribe(c) ==
  /\ May
  /\ \/ /\ c \notin ToSet(listeners)
        /\ UNCHANGED <<listeners, removals, gone, stayed>>
     \/ /\ \E i \in DOMAIN listeners :
             /\ listeners[i] = c /\ \A j \in 1 .. i - 1 : listeners[j] # c
             /\ listeners' = RemoveAt(listeners, i)
        /\ removals' = removals + 1
        /\ gone' = [gone EXCEPT ![c] = @ + 1]
        /\ stayed' = stayed \cap ToSet(listeners')
  /\ UNCHANGED emission

\* emit() begins to iterate.
Emit ==
  /\ at = 0
  /\ at' = 1
  /\ ended' = "not"
  /\ ran' = [c \in Callbacks |-> 0]
  /\ stayed' = ToSet(listeners)
  /\ removals' = 0 /\ gone' = [c \in Callbacks |-> 0]
  /\ UNCHANGED <<listeners, inside, changes>>

Calls ==
  /\ at > 0 /\ ~inside
  /\ at <= Len(listeners)
  /\ inside' = TRUE
  /\ ran' = [ran EXCEPT ![listeners[at]] = @ + 1]
  /\ UNCHANGED <<listeners, at, ended, stayed, removals, gone, changes>>

\* Mutants of Returns: after a removal the index is advanced once too often; it
\* is not advanced at all.
ReturnsFar ==
  /\ inside
  /\ inside' = FALSE
  /\ at' = IF removals > 0 THEN at + 2 ELSE at + 1
  /\ UNCHANGED <<listeners, ended, ran, stayed, removals, gone, changes>>

ReturnsBehind ==
  /\ inside
  /\ inside' = FALSE
  /\ at' = IF removals > 0 THEN at ELSE at + 1
  /\ UNCHANGED <<listeners, ended, ran, stayed, removals, gone, changes>>

\* The callback returns: on to the next index, whatever became of the list.
Returns ==
  /\ inside
  /\ inside' = FALSE
  /\ at' = at + 1
  /\ UNCHANGED <<listeners, ended, ran, stayed, removals, gone, changes>>

\* It raises, and the exception leaves emit() for whoever called it.
Raises ==
  /\ inside
  /\ inside' = FALSE
  /\ at' = 0
  /\ ended' = "raised"
  /\ UNCHANGED <<listeners, ran, stayed, removals, gone, changes>>

Ends ==
  /\ at > Len(listeners) /\ ~inside
  /\ at' = 0
  /\ ended' = "whole"
  /\ UNCHANGED <<listeners, inside, ran, stayed, removals, gone, changes>>

Init ==
  /\ listeners = <<>>
  /\ at = 0
  /\ inside = FALSE
  /\ ended = "not"
  /\ ran = [c \in Callbacks |-> 0]
  /\ stayed = {}
  /\ removals = 0 /\ gone = [c \in Callbacks |-> 0]
  /\ changes = 0

Next ==
  \/ \E c \in Callbacks : On(c) \/ Unsubscribe(c)
  \/ Emit \/ Calls \/ Returns \/ Raises \/ Ends

Spec == Init /\ [][Next]_vars

----------------------------------------------------------------------------
(* Properties *)

\* The callbacks that an emission has passed over.
Missed == {c \in stayed : ran[c] = 0}

\* An emission that no exception ended has passed over at most as many of the
\* callbacks that were registered all the time as registrations were removed
\* meanwhile; none, if none was.
MissesFewerThanRemoved == at = 0 /\ ended = "whole" => Cardinality(Missed) <= removals

\* An emission runs each registration at most once, whatever is registered and
\* removed meanwhile: removals make it skip, never repeat.
Registered(c) == Cardinality({i \in DOMAIN listeners : listeners[i] = c})
NoneRepeated == at > 0 => \A c \in Callbacks : ran[c] <= Registered(c) + gone[c]
============================================================================
