---------------------------- MODULE SpaListener ----------------------------
(***************************************************************************)
(* What the listener of a SpaClient makes of the bytes that come in:       *)
(* where messages begin and end, what it does about noise and silence, and *)
(* what the application learns of it through `available` and the `update`  *)
(* event.                                                                  *)
(*                                                                         *)
(* Time passes in units of which Timeout make the 15 seconds of            *)
(* _start_listener() and `available`.  The event loop runs what can run    *)
(* before time passes and before more bytes arrive.                        *)
(*                                                                         *)
(* One listener reads.  Listeners that outlive their connection and read   *)
(* from the reader of the next one are SpaConnection's subject.            *)
(***************************************************************************)
EXTENDS Integers, SequencesExt

CONSTANTS Delimiter,   \* MESSAGE_DELIMETER, and what it says as a length
          Checksum(_), \* calculate_checksum()
          Bodies,      \* the status updates of the spa, from channel to payload
          BadBodies,   \* those of them whose processing raises
          NoiseBytes,  \* what noise turns a byte into
          Timeout,     \* 15 seconds
          None,
          MaxNoise,    \* bounds on what the environment does: garbled messages,
          MaxChanges,  \*   changes of the status,
          MaxLosses,   \*   ends of the connection,
          MaxSends,    \*   messages that the application sends,
          MaxSplits    \*   messages cut where the network likes

\* The layout of send_message(), which the spa uses too.
Contents(body) == <<Len(body) + 2>> \o body
Frame(body) == <<Delimiter>> \o Contents(body) \o <<Checksum(Contents(body)), Delimiter>>

ASSUME ListenerAssumption ==
  /\ Delimiter \in 1 .. 255
  /\ Bodies \subseteq Seq(0 .. 255) /\ BadBodies \subseteq Bodies
  /\ \A b \in Bodies : Frame(b) \in Seq(0 .. 255)
  /\ Checksum(<<>>) = 0
  /\ NoiseBytes \subseteq 0 .. 255
  /\ Timeout \in Nat \ {0}
  /\ None \notin Bodies
  /\ {MaxNoise, MaxChanges, MaxLosses, MaxSends, MaxSplits} \subseteq Nat

VARIABLES
  link,     \* the connection: "down", "up", or "eof" when the spa has closed it
  coming,   \* what of the spa's last message is still on its way
  buffer,   \* what the StreamReader holds
  at,       \* where the listener is: in which read, or how it ended
  need,     \* in the body of a message: how many bytes it waits for
  waited,   \* how long the read under way has waited
  heard,    \* the age of _last_message_received (None counts as old)
  sent,     \* the age of _last_message_sent (None counts as old)
  previous, \* self._previous_status
  seen,     \* what `available` was at the last update event
  spa,      \* the status that the spa reports
  used      \* how much of its bounds the environment has used

reader == <<buffer, at, need, waited>>
client == <<heard, sent, previous, seen>>
world  == <<link, coming, spa, used>>
vars   == <<link, coming, buffer, at, need, waited, heard, sent, previous, seen, spa, used>>

Reads  == {"header", "resync", "body"}
Bounds == {"noise", "change", "loss", "send", "split"}

TypeOK ==
  /\ link \in {"down", "up", "eof"}
  /\ coming \in Seq(0 .. 255)
  /\ buffer \in Seq(0 .. 255)
  /\ at \in Reads \cup {"stopped", "crashed"}
  /\ need \in 0 .. 255 /\ (need > 0 <=> at = "body")
  /\ waited \in 0 .. Timeout
  /\ heard \in 0 .. Timeout
  /\ sent \in 0 .. Timeout + 1
  /\ previous \in Seq(0 .. 255) \cup {None}
  /\ seen \in BOOLEAN
  /\ spa \in Bodies
  /\ used \in [Bounds -> Nat]

Spend(kind, limit) == used[kind] < limit /\ used' = [used EXCEPT ![kind] = @ + 1]

----------------------------------------------------------------------------
(* What the code reads of that state *)

\* The property `available`: connected, and something taken in within 15 s.
Available == link # "down" /\ heard < Timeout

\* sent + wait_time < utcnow().  What happened a whole Timeout of units ago
\* is older than that, or not, by fractions of a unit.
IdleOutcomes == {idle \in BOOLEAN : (sent > Timeout => idle) /\ (sent < Timeout => ~idle)}

\* The read under way has all the bytes it waits for.
Ready ==
  \/ at = "header" /\ Len(buffer) >= 2
  \/ at = "resync" /\ Contains(buffer, Delimiter)
  \/ at = "body" /\ Len(buffer) >= need

\* It waits for more bytes; for those of a body, as long as it takes.
Waits == link = "up" /\ at \in Reads /\ ~Ready
Timed == Waits /\ at # "body"

\* read_one_message() is over.  The loop goes on to read the next header, or ends;
\* then nobody reads what the reader still holds.
Goes(where, rest) ==
  /\ at' = where
  /\ buffer' = rest
  /\ need' = 0
  /\ waited' = 0

NextRead(rest) == Goes("header", rest)
Ends(how) == Goes(how, <<>>)

----------------------------------------------------------------------------
(* read_one_message() *)

\* Mutant of ReadHeader: a length of 0 is a length.
ReadHeaderAnyLength ==
  /\ at = "header" /\ Ready
  /\ buffer' = SubSeq(buffer, 3, Len(buffer))
  /\ waited' = 0
  /\ IF buffer[1] # Delimiter
     THEN at' = "resync" /\ UNCHANGED need
     ELSE at' = "body" /\ need' = buffer[2]
  /\ UNCHANGED <<client, world>>

\* Two bytes, which tell how many follow.  (A length that is the delimiter is
\* taken for a length.)
ReadHeader ==
  /\ at = "header" /\ Ready
  /\ buffer' = SubSeq(buffer, 3, Len(buffer))
  /\ waited' = 0
  /\ IF buffer[1] # Delimiter \/ buffer[2] = 0
     THEN at' = "resync" /\ UNCHANGED need
     ELSE at' = "body" /\ need' = buffer[2]
  /\ UNCHANGED <<client, world>>

IsNextDelimiter(end) ==
  buffer[end] = Delimiter /\ \A i \in 1 .. end - 1 : buffer[i] # Delimiter

\* Mutant of Resync: the delimiter is left to be the start of the next message.
ResyncKeeps ==
  /\ at = "resync" /\ Ready
  /\ \E end \in DOMAIN buffer :
       IsNextDelimiter(end) /\ NextRead(SubSeq(buffer, end, Len(buffer)))
  /\ UNCHANGED <<client, world>>

\* readuntil() the next delimiter, be it the end of a message or the start of
\* one; then SpaMessageError.
Resync ==
  /\ at = "resync" /\ Ready
  /\ \E end \in DOMAIN buffer :
       IsNextDelimiter(end) /\ NextRead(SubSeq(buffer, end + 1, Len(buffer)))
  /\ UNCHANGED <<client, world>>

\* The body as the code puts it together: the length, and all but the delimiter.
Data == <<need>> \o SubSeq(buffer, 1, need - 1)

\* Mutant of Valid: the last byte is compared with the delimiter.
ValidIfEnded == buffer[need] = Delimiter

Valid == Len(Data) = Data[1] /\ Last(Data) = Checksum(Front(Data))

\* SpaMessageError again.
Refuse ==
  /\ at = "body" /\ Ready
  /\ ~Valid
  /\ NextRead(SubSeq(buffer, need + 1, Len(buffer)))
  /\ UNCHANGED <<client, world>>

\* _process_message() of a status update.  The same again is no news.
TakeIn ==
  LET body == Tail(Front(Data))
  IN  /\ at = "body" /\ Ready
      /\ Valid
      /\ heard' = 0
      /\ previous' = body
      /\ IF body \in BadBodies /\ body # previous
         THEN Ends("crashed") /\ UNCHANGED seen
         ELSE /\ NextRead(SubSeq(buffer, need + 1, Len(buffer)))
              /\ seen' = IF body = previous THEN seen ELSE link # "down"
      /\ UNCHANGED <<sent, world>>

----------------------------------------------------------------------------
(* The rest of _start_listener() *)

\* Mutant of Probe: it keeps the connection alive, and tells nobody.
ProbeSilently ==
  /\ \E idle \in IdleOutcomes : sent' = IF idle THEN 0 ELSE sent
  /\ UNCHANGED <<heard, previous, seen, world>>

\* emit(EVENT_UPDATE) and send_device_present(), unless something was sent
\* within 15 s.
Probe ==
  /\ \E idle \in IdleOutcomes :
       IF idle THEN seen' = Available /\ sent' = 0 ELSE UNCHANGED <<seen, sent>>
  /\ UNCHANGED <<heard, previous, world>>

\* Mutant of TimesOut: what has come in of a message is lost with the read.
TimesOutDropping ==
  /\ Timed
  /\ waited = Timeout
  /\ NextRead(<<>>)
  /\ Probe

\* asyncio.TimeoutError.  The StreamReader keeps what has come in.
TimesOut ==
  /\ Timed
  /\ waited = Timeout
  /\ NextRead(buffer)
  /\ Probe

\* asyncio.IncompleteReadError, at once and again and again: whatever the
\* reader still held is lost.
ReadEnds ==
  /\ at \in Reads /\ ~Ready
  /\ link = "eof"
  /\ NextRead(<<>>)
  /\ Probe

\* The connection is gone: the read raises, the loop ends, the event is emitted.
Stop ==
  /\ at \in Reads
  /\ link = "down"
  /\ Ends("stopped")
  /\ seen' = FALSE
  /\ UNCHANGED <<heard, sent, previous, world>>

\* _connect() makes a reader and a listener, and request_all_configuration()
\* sends.  Nothing that was learnt before is forgotten.  The listener of the
\* last connection has ended: it is the only one here.
Connect ==
  /\ link = "down"
  /\ at \notin Reads
  /\ link' = "up"
  /\ NextRead(<<>>)
  /\ sent' = 0
  /\ UNCHANGED <<coming, heard, previous, seen, spa, used>>

\* send_message() on behalf of the application.
Send ==
  /\ link # "down"
  /\ Spend("send", MaxSends)
  /\ sent' = 0
  /\ UNCHANGED <<link, coming, reader, heard, previous, seen, spa>>

----------------------------------------------------------------------------
(* The spa, the network and the clock *)

\* A stream keeps the order of the bytes, and no more: a message may come in in
\* pieces.
Arrives(bytes, n) ==
  /\ Waits
  /\ buffer' = buffer \o SubSeq(bytes, 1, n)
  /\ coming' = SubSeq(bytes, n + 1, Len(bytes))
  /\ UNCHANGED <<link, at, need, waited, client, spa>>

Delivers(bytes) ==
  \/ Arrives(bytes, Len(bytes)) /\ UNCHANGED used
  \/ Spend("split", MaxSplits) /\ \E n \in 1 .. Len(bytes) - 1 : Arrives(bytes, n)

SpaReports == coming = <<>> /\ Delivers(Frame(spa))

RestArrives == coming # <<>> /\ Delivers(coming)

\* One byte is lost or changed, or the end of the message is missing.
Garbled(s) == {RemoveAt(s, i) : i \in DOMAIN s}
         \cup {ReplaceAt(s, i, b) : i \in DOMAIN s, b \in NoiseBytes}
         \cup {SubSeq(s, 1, n) : n \in 1 .. Len(s) - 1}

SpaGarbles ==
  /\ coming = <<>>
  /\ Spend("noise", MaxNoise)
  /\ \E bytes \in Garbled(Frame(spa)) : Arrives(bytes, Len(bytes))

SpaChanges ==
  /\ Spend("change", MaxChanges)
  /\ spa' \in Bodies \ {spa}
  /\ UNCHANGED <<link, coming, reader, client>>

\* The spa closes its side, or the connection is lost.
Lose ==
  /\ link # "down"
  /\ Spend("loss", MaxLosses)
  /\ link' \in {"eof", "down"} \ {link}
  /\ coming' = <<>>
  /\ UNCHANGED <<reader, client, spa>>

Older(age, limit) == IF age < limit THEN age + 1 ELSE age

Tick ==
  /\ ~Ready
  /\ ~(at \in Reads /\ link = "down")
  /\ Timed => waited < Timeout
  /\ waited' = IF Timed THEN waited + 1 ELSE waited
  /\ heard' = Older(heard, Timeout)
  /\ sent' = Older(sent, Timeout + 1)
  /\ UNCHANGED <<buffer, at, need, previous, seen, world>>

----------------------------------------------------------------------------

Init ==
  /\ link = "down"
  /\ coming = <<>>
  /\ buffer = <<>>
  /\ at = "stopped"
  /\ need = 0
  /\ waited = 0
  /\ heard = Timeout
  /\ sent = Timeout + 1
  /\ previous = None
  /\ seen = FALSE
  /\ spa \in Bodies
  /\ used = [b \in Bounds |-> 0]

Listen == ReadHeader \/ Resync \/ Refuse \/ TakeIn \/ TimesOut \/ ReadEnds \/ Stop

Next ==
  \/ Listen
  \/ Connect \/ Send
  \/ SpaReports \/ RestArrives \/ SpaGarbles \/ SpaChanges \/ Lose
  \/ Tick

Spec == Init /\ [][Next]_vars

\* The event loop runs the listener, and time passes.
FairSpec == Spec /\ WF_vars(Listen) /\ WF_vars(Tick)

----------------------------------------------------------------------------
(* Properties *)

\* Wherever the reader takes a message to begin after a message that has lost or
\* changed a byte or its end: what is taken in is a status that the spa has sent,
\* whole.
TakenWasSent == previous \in Bodies \cup {None}

\* In whatever pieces the bytes come in, whatever read times out in between, and
\* whatever is left half read when a connection ends: a reader to which no noise
\* came is in step with the spa.  It refuses nothing and searches for nothing,
\* and what it takes in is what the spa sent, be there delimiters inside or not.
\* (As long as it is the only one that reads from the connection's StreamReader.)
InStep ==
  used["noise"] = 0 =>
    /\ TakenWasSent
    /\ at # "resync"
    /\ at = "body" /\ Ready => Valid

\* Noise does not make the listener deaf: over a connection that stays up, with
\* a spa that goes on reporting a status without a delimiter inside, messages
\* are taken in again and again.
Plain(body) == ~Contains(Front(Tail(Frame(body))), Delimiter)

Resynchronises ==
  <>[](link = "up" /\ Plain(spa)) /\ []<><<SpaReports>>_vars
    => <>[](at = "crashed") \/ []<><<TakeIn>>_vars

\* An application that looks at `available` at each update event learns that
\* the spa has gone silent, unless the listener has died, waits for the rest of
\* a body, or is kept busy by bytes that make no message.
LearnsOfSilence ==
  <>[](link # "down" /\ ~Available)
    => \/ <>[](~seen)
       \/ <>[](at \in {"crashed", "body"})
       \/ []<>(at = "resync")

============================================================================
