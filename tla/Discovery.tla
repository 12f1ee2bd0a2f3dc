----------------------------- MODULE Discovery -----------------------------
(***************************************************************************)
(* async_discover(): a UDP broadcast that is repeated until a spa answers  *)
(* (or the time is up), the datagrams that answer it, and the task that    *)
(* waits for them.  The protocol's callbacks and the task run one at a     *)
(* time on the event loop.                                                 *)
(*                                                                         *)
(* Time passes in intervals of BROADCAST_INTERVAL.  A datagram counts by   *)
(* the DiscoveredSpa it describes; one that cannot be decoded describes    *)
(* none, and one without "BWGS" in it is not even looked at.               *)
(*                                                                         *)
(* The names differ from those of SpaListener, so that a module can extend *)
(* both: what the network brings comes to one or the other.                *)
(***************************************************************************)
EXTENDS Naturals, Sequences, SequencesExt

CONSTANTS Spas,         \* what the datagrams describe
          Undecodable,  \* a datagram with "BWGS" that cannot be decoded
          SearchTime,   \* intervals that async_discover() waits
          MaxDatagrams  \* bound on the datagrams that come in

ASSUME DiscoveryAssumption ==
  /\ Undecodable \notin Spas
  /\ SearchTime \in Nat \ {0}
  /\ MaxDatagrams \in Nat

VARIABLES
  once,       \* return_once_found
  transport,  \* "open", "closing" or "lost"
  handle,     \* broadcast_handle: "none", "armed", "due", or "cancelled"
  complete,   \* discovery_complete
  spas,       \* the list that is returned in the end
  task,       \* async_discover(): "waiting" or "returned"
  elapsed,    \* intervals since it began to wait
  broadcasts, \* broadcasts sent
  datagrams   \* datagrams received

searchVars ==
  <<once, transport, handle, complete, spas, task, elapsed, broadcasts, datagrams>>

SearchTypeOK ==
  /\ once \in BOOLEAN
  /\ transport \in {"open", "closing", "lost"}
  /\ handle \in {"none", "armed", "due", "cancelled"}
  /\ complete \in BOOLEAN
  /\ spas \in Seq(Spas)
  /\ task \in {"waiting", "returned"}
  /\ elapsed \in 0 .. SearchTime
  /\ broadcasts \in 1 .. SearchTime + 1
  /\ datagrams \in 0 .. MaxDatagrams

----------------------------------------------------------------------------

\* Mutant of Broadcast: it does not look at the transport.
BroadcastRegardless ==
  /\ handle = "due"
  /\ IF once /\ spas # <<>>
     THEN complete' = TRUE /\ handle' = "none" /\ UNCHANGED broadcasts
     ELSE broadcasts' = broadcasts + 1 /\ handle' = "armed" /\ UNCHANGED complete
  /\ UNCHANGED <<once, transport, spas, task, elapsed, datagrams>>

\* broadcast(), from the timer: it ends with the first spa, or with the
\* transport, and otherwise sends and arms the timer again.
Broadcast ==
  /\ handle = "due"
  /\ IF once /\ spas # <<>>
     THEN complete' = TRUE /\ handle' = "none" /\ UNCHANGED broadcasts
     ELSE IF transport # "open"
     THEN handle' = "none" /\ UNCHANGED <<complete, broadcasts>>
     ELSE broadcasts' = broadcasts + 1 /\ handle' = "armed" /\ UNCHANGED complete
  /\ UNCHANGED <<once, transport, spas, task, elapsed, datagrams>>

\* Mutants of Receive: whatever comes in is added; a spa that was found completes
\* nothing.
ReceiveAnything(d) ==
  /\ transport = "open"
  /\ datagrams < MaxDatagrams
  /\ datagrams' = datagrams + 1
  /\ spas' = Append(spas, d)
  /\ complete' = (complete \/ once)
  /\ UNCHANGED <<once, transport, handle, task, elapsed, broadcasts>>

ReceiveQuietly(d) ==
  /\ transport = "open"
  /\ datagrams < MaxDatagrams
  /\ datagrams' = datagrams + 1
  /\ spas' = IF d = Undecodable \/ Contains(spas, d) THEN spas ELSE Append(spas, d)
  /\ UNCHANGED <<once, transport, complete, handle, task, elapsed, broadcasts>>

\* datagram_received(): a new spa is added, any spa completes a search for one.
Receive(d) ==
  /\ transport = "open"
  /\ datagrams < MaxDatagrams
  /\ datagrams' = datagrams + 1
  /\ IF d = Undecodable THEN UNCHANGED <<spas, complete>>
     ELSE /\ spas' = IF Contains(spas, d) THEN spas ELSE Append(spas, d)
          /\ complete' = (complete \/ once)
  /\ UNCHANGED <<once, transport, handle, task, elapsed, broadcasts>>

\* Mutant of Return: there is no timeout.
ReturnComplete ==
  /\ task = "waiting"
  /\ complete
  /\ task' = "returned"
  /\ transport' = "closing"
  /\ UNCHANGED <<once, handle, complete, spas, elapsed, broadcasts, datagrams>>

\* The wait ends, with the event or with the timeout; the transport is closed,
\* and no datagram is taken from it any more.
Return ==
  /\ task = "waiting"
  /\ complete \/ elapsed = SearchTime
  /\ task' = "returned"
  /\ transport' = "closing"
  /\ UNCHANGED <<once, handle, complete, spas, elapsed, broadcasts, datagrams>>

\* connection_lost(), which close() has scheduled.
ConnectionLost ==
  /\ transport = "closing"
  /\ transport' = "lost"
  /\ handle' = IF handle \in {"armed", "due"} THEN "cancelled" ELSE handle
  /\ UNCHANGED <<once, complete, spas, task, elapsed, broadcasts, datagrams>>

\* An interval passes: the timer falls due.  The loop runs what is due before
\* time goes on.
IntervalPasses ==
  /\ handle # "due" /\ transport # "closing"
  /\ ~(task = "waiting" /\ (complete \/ elapsed = SearchTime))
  /\ handle = "armed" \/ task = "waiting"
  /\ elapsed' = IF task = "waiting" THEN elapsed + 1 ELSE elapsed
  /\ handle' = IF handle = "armed" THEN "due" ELSE handle
  /\ UNCHANGED <<once, transport, complete, spas, task, broadcasts, datagrams>>

\* create_datagram_endpoint() has called connection_made(), which has broadcasts the
\* first broadcast.
SearchInit ==
  /\ once \in BOOLEAN
  /\ transport = "open"
  /\ handle = "armed"
  /\ complete = FALSE
  /\ spas = <<>>
  /\ task = "waiting"
  /\ elapsed = 0
  /\ broadcasts = 1
  /\ datagrams = 0

SearchNext ==
  \/ Broadcast \/ Return \/ ConnectionLost \/ IntervalPasses
  \/ \E d \in Spas \cup {Undecodable} : Receive(d)

SearchSpec == SearchInit /\ [][SearchNext]_searchVars

\* The event loop runs what is due, and time goes on.
Fairness ==
  /\ WF_searchVars(Broadcast \/ Return \/ ConnectionLost)
  /\ WF_searchVars(IntervalPasses)

FairSearch == SearchSpec /\ Fairness

----------------------------------------------------------------------------
(* Properties *)

\* A search that has returned broadcasts no more: neither the timer that is
\* already due when the transport closes nor the one that is armed sends.
SilentAfterReturn == [][task = "returned" => broadcasts' = broadcasts]_searchVars

\* Each spa is listed once, however often it answers the broadcasts.
ListedOnce == IsInjective(spas)

\* A search for one spa does not outlast the interval in which it finds one:
\* time does not go on, and nothing is broadcast, before it returns.
OneIsEnough ==
  [][once /\ spas # <<>> /\ task = "waiting" => UNCHANGED <<elapsed, broadcasts>>]_searchVars

\* Every search ends, and leaves no timer behind.
SearchEnds == <>[](task = "returned" /\ handle \in {"none", "cancelled"})
============================================================================
