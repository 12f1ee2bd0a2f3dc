--------------------------- MODULE NetworkProofs ---------------------------
(***************************************************************************)
(* What holds of the parts that take in what the network brings: of the    *)
(* listener, for any frames, any checksum and any pieces in which the      *)
(* stream is cut; of the checksum, for messages of any length; and of      *)
(* every search, for any number of spas, datagrams and intervals.          *)
(***************************************************************************)
EXTENDS SpaListener, Checksum, Discovery, FiniteSetTheorems, SequenceTheorems, TLAPS

Byte == 0 .. 255

----------------------------------------------------------------------------
(* Frames and pieces of them *)

\* Where a frame has what: delimiter, length, body, checksum, delimiter.
LEMMA FrameLayout ==
  ASSUME NEW b \in Bodies
  PROVE  /\ b \in Seq(Byte) /\ Len(b) \in 0 .. 253
         /\ Frame(b) \in Seq(Byte) /\ Len(Frame(b)) = Len(b) + 4
         /\ Frame(b)[1] = Delimiter /\ Frame(b)[2] = Len(b) + 2
         /\ \A i \in 1 .. Len(b) : Frame(b)[i + 2] = b[i]
         /\ Frame(b)[Len(b) + 3] = Checksum(Contents(b))
  <1>1. b \in Seq(Byte) /\ Len(b) \in Nat /\ Frame(b) \in Seq(Byte)
    BY ListenerAssumption DEF Byte
  <1> DEFINE c == Checksum(Contents(b))
             S == Int \cup {c}
  <1>2. b \in Seq(S) /\ <<Len(b) + 2>> \in Seq(S) /\ <<Delimiter>> \in Seq(S) /\ <<c, Delimiter>> \in Seq(S)
    <2> HIDE DEF c
    <2>1. Byte \subseteq S
      BY DEF Byte
    <2>2. Delimiter \in S /\ Len(b) + 2 \in S /\ c \in S
      BY <1>1, ListenerAssumption
    <2> HIDE DEF S
    <2>3. b \in Seq(S)
      BY <1>1, <2>1, SeqMonotonic
    <2> QED
      BY <2>2, <2>3
  <1>3. /\ Contents(b) \in Seq(S) /\ Len(Contents(b)) = Len(b) + 1
        /\ Contents(b)[1] = Len(b) + 2
        /\ \A i \in 1 .. Len(b) : Contents(b)[i + 1] = b[i]
    <2> HIDE DEF S
    <2>1. /\ Contents(b) \in Seq(S)
          /\ Len(Contents(b)) = Len(<<Len(b) + 2>>) + Len(b)
          /\ \A i \in 1 .. Len(<<Len(b) + 2>>) + Len(b) : Contents(b)[i] =
               IF i <= Len(<<Len(b) + 2>>) THEN <<Len(b) + 2>>[i] ELSE b[i - Len(<<Len(b) + 2>>)]
      BY <1>2, ConcatProperties DEF Contents
    <2> QED
      BY <1>1, <2>1
  <1> DEFINE head == <<Delimiter>> \o Contents(b)
  <1>4. /\ head \in Seq(S) /\ Len(head) = Len(b) + 2
        /\ head[1] = Delimiter /\ head[2] = Len(b) + 2
        /\ \A i \in 1 .. Len(b) : head[i + 2] = b[i]
    <2> HIDE DEF S
    <2>1. /\ head \in Seq(S)
          /\ Len(head) = Len(<<Delimiter>>) + Len(Contents(b))
          /\ \A i \in 1 .. Len(<<Delimiter>>) + Len(Contents(b)) : head[i] =
               IF i <= Len(<<Delimiter>>) THEN <<Delimiter>>[i] ELSE Contents(b)[i - Len(<<Delimiter>>)]
      BY <1>2, <1>3, ConcatProperties
    <2> HIDE DEF head
    <2>2. Len(head) = Len(b) + 2 /\ \A i \in 1 .. Len(b) + 1 : head[i + 1] = Contents(b)[i]
      BY <1>1, <1>3, <2>1
    <2> QED
      BY <1>1, <1>3, <2>1, <2>2
  <1>5. /\ Len(Frame(b)) = Len(b) + 4
        /\ \A i \in 1 .. Len(b) + 2 : Frame(b)[i] = head[i]
        /\ Frame(b)[Len(b) + 3] = c
    <2> HIDE DEF S, head, c
    <2>1. Frame(b) = head \o <<c, Delimiter>>
      BY DEF Frame, head, c
    <2>2. /\ Len(Frame(b)) = Len(head) + Len(<<c, Delimiter>>)
          /\ \A i \in 1 .. Len(head) + Len(<<c, Delimiter>>) : Frame(b)[i] =
               IF i <= Len(head) THEN head[i] ELSE <<c, Delimiter>>[i - Len(head)]
      BY <1>2, <1>4, <2>1, ConcatProperties
    <2> QED
      BY <1>1, <1>4, <2>2
  <1>6. Len(b) \in 0 .. 253
    <2> HIDE DEF head
    <2>1. Frame(b)[2] = Len(b) + 2 /\ 2 \in 1 .. Len(Frame(b))
      BY <1>1, <1>4, <1>5
    <2>2. Frame(b)[2] \in Byte
      BY <1>1, <2>1, ElementOfSeq
    <2>3. Len(b) + 2 \in 0 .. 255
      BY <2>1, <2>2, Zenon DEF Byte
    <2>4. \A n \in Nat : n + 2 \in 0 .. 255 => n \in 0 .. 253
      OBVIOUS
    <2> QED
      BY <1>1, <2>3, <2>4
  <1>7. \A i \in 1 .. Len(b) : Frame(b)[i + 2] = b[i]
    <2> HIDE DEF head
    <2>1. \A i \in 1 .. Len(b) : i + 2 \in 1 .. Len(b) + 2
      BY <1>1
    <2> QED
      BY <1>4, <1>5, <2>1
  <1>8. Frame(b)[1] = Delimiter /\ Frame(b)[2] = Len(b) + 2
    <2> HIDE DEF head
    <2> QED
      BY <1>1, <1>4, <1>5
  <1>9. Len(Frame(b)) = Len(b) + 4 /\ Frame(b)[Len(b) + 3] = Checksum(Contents(b))
    BY <1>5
  <1> QED
    BY <1>1, <1>6, <1>7, <1>8, <1>9

\* Pieces of byte sequences are byte sequences.
LEMMA Pieces ==
  ASSUME NEW s \in Seq(Byte), NEW m \in Nat \ {0}, NEW n \in Nat, n <= Len(s)
  PROVE  /\ SubSeq(s, m, n) \in Seq(Byte)
         /\ Len(SubSeq(s, m, n)) = IF m <= n THEN n - m + 1 ELSE 0
         /\ \A i \in 1 .. n - m + 1 : SubSeq(s, m, n)[i] = s[m + i - 1]
  <1>1. \A i \in m .. n : s[i] \in Byte
    BY ElementOfSeq
  <1> QED
    BY <1>1, SubSeqProperties

\* Noise makes bytes of bytes.
LEMMA GarbledBytes ==
  ASSUME NEW s \in Seq(Byte), NEW t \in Garbled(s)
  PROVE  t \in Seq(Byte)
  <1>0. DOMAIN s = 1 .. Len(s) /\ NoiseBytes \subseteq Byte
    BY ListenerAssumption DEF Byte
  <1>1. CASE \E i \in DOMAIN s : t = RemoveAt(s, i)
    <2>1. PICK i \in 1 .. Len(s) : t = SubSeq(s, 1, i - 1) \o SubSeq(s, i + 1, Len(s))
      BY <1>1, <1>0, Zenon DEF RemoveAt
    <2> DEFINE front == SubSeq(s, 1, i - 1)
               rear == SubSeq(s, i + 1, Len(s))
    <2>2. front \in Seq(Byte) /\ rear \in Seq(Byte)
      BY Pieces
    <2> HIDE DEF front, rear
    <2>3. front \o rear \in Seq(Byte)
      BY <2>2, ConcatProperties
    <2> QED
      BY <2>1, <2>3 DEF front, rear
  <1>2. CASE \E i \in DOMAIN s, b \in NoiseBytes : t = ReplaceAt(s, i, b)
    <2>1. PICK i \in 1 .. Len(s), b \in Byte : t = [s EXCEPT ![i] = b]
      BY <1>0, <1>2, Zenon DEF ReplaceAt
    <2>2. [s EXCEPT ![i] = b] \in Seq(Byte)
      BY ExceptSeq
    <2> QED
      BY <2>1, <2>2
  <1>3. CASE \E n \in 1 .. Len(s) - 1 : t = SubSeq(s, 1, n)
    <2>1. PICK n \in 1 .. Len(s) - 1 : t = SubSeq(s, 1, n)
      BY <1>3
    <2> QED
      BY <2>1, Pieces
  <1> QED
    BY <1>1, <1>2, <1>3 DEF Garbled

----------------------------------------------------------------------------
(* The types of the listener *)

\* Nothing is on its way over a connection that has ended.
ListenerInv ==
  /\ TypeOK
  /\ link # "up" => coming = <<>>

LEMMA ListenerInit ==
  ASSUME Init
  PROVE  ListenerInv
  <1>1. coming \in Seq(0 .. 255) /\ buffer \in Seq(0 .. 255)
    BY DEF Init
  <1>2. heard \in 0 .. Timeout /\ sent \in 0 .. Timeout + 1 /\ waited \in 0 .. Timeout
    BY ListenerAssumption DEF Init
  <1>3. used \in [Bounds -> Nat]
    BY DEF Init
  <1>4. previous \in Seq(0 .. 255) \cup {None} /\ need \in 0 .. 255 /\ ~(need > 0) /\ at # "body"
    BY DEF Init
  <1>5. TypeOK
    BY <1>1, <1>2, <1>3, <1>4, Zenon DEF Init, TypeOK
  <1> QED
    BY <1>5 DEF Init, ListenerInv

\* What is left of the buffer, and what it is taken for, when a body has come in.
LEMMA BodyRead ==
  ASSUME ListenerInv, at = "body", Ready
  PROVE  /\ need \in 1 .. 255 /\ need <= Len(buffer)
         /\ Data \in Seq(Byte) /\ Len(Data) = need
         /\ Data[1] = need /\ \A i \in 1 .. need - 1 : Data[i + 1] = buffer[i]
         /\ SubSeq(buffer, need + 1, Len(buffer)) \in Seq(Byte)
  <1>1. need \in 1 .. 255 /\ need <= Len(buffer) /\ buffer \in Seq(Byte)
    BY DEF ListenerInv, TypeOK, Ready, Byte
  <1> DEFINE got == SubSeq(buffer, 1, need - 1)
  <1>2. got \in Seq(Byte) /\ Len(got) = need - 1 /\ \A i \in 1 .. need - 1 : got[i] = buffer[i]
    BY <1>1, Pieces
  <1> HIDE DEF got
  <1>3. /\ Data \in Seq(Byte)
        /\ Len(Data) = Len(<<need>>) + Len(got)
        /\ \A i \in 1 .. Len(<<need>>) + Len(got) : Data[i] =
             IF i <= Len(<<need>>) THEN <<need>>[i] ELSE got[i - Len(<<need>>)]
    <2>1. <<need>> \in Seq(Byte)
      BY <1>1 DEF Byte
    <2>2. Data = <<need>> \o got
      BY DEF Data, got
    <2> QED
      BY <1>2, <2>1, <2>2, ConcatProperties
  <1>4. Len(Data) = need /\ Data[1] = need
    BY <1>1, <1>2, <1>3
  <1>5. \A i \in 1 .. need - 1 : Data[i + 1] = buffer[i]
    BY <1>1, <1>2, <1>3
  <1>6. SubSeq(buffer, need + 1, Len(buffer)) \in Seq(Byte)
    BY <1>1, Pieces
  <1> QED
    BY <1>1, <1>3, <1>4, <1>5, <1>6

\* No body of one byte is valid: the checksum of no bytes is 0.  So what is taken
\* in has bytes.
LEMMA TakenHasBytes ==
  ASSUME ListenerInv, at = "body", Ready, Valid
  PROVE  /\ need >= 2 /\ Front(Data) \in Seq(Byte) /\ Len(Front(Data)) = need - 1
         /\ \A i \in 1 .. need - 1 : Front(Data)[i] = Data[i]
         /\ Tail(Front(Data)) \in Seq(Byte) /\ Len(Tail(Front(Data))) = need - 2
         /\ \A i \in 1 .. need - 2 : Tail(Front(Data))[i] = Data[i + 1]
  <1>1. Len(Data) = need /\ Data \in Seq(Byte) /\ need \in 1 .. 255 /\ Data[1] = need
    BY BodyRead
  <1>2. /\ Front(Data) \in Seq(Byte) /\ Len(Front(Data)) = need - 1
        /\ \A i \in 1 .. need - 1 : Front(Data)[i] = Data[i]
    <2>1. /\ SubSeq(Data, 1, need - 1) \in Seq(Byte)
          /\ Len(SubSeq(Data, 1, need - 1)) = need - 1
          /\ \A i \in 1 .. need - 1 : SubSeq(Data, 1, need - 1)[i] = Data[i]
      BY <1>1, Pieces
    <2> QED
      BY <1>1, <2>1 DEF Front
  <1>3. need # 1
    <2> SUFFICES ASSUME need = 1 PROVE FALSE
      OBVIOUS
    <2>1. Front(Data) = <<>>
      BY <1>2
    <2>2. Last(Data) = 1
      BY <1>1 DEF Last
    <2> QED
      BY <2>1, <2>2, ListenerAssumption DEF Valid
  <1>4. need >= 2 /\ Front(Data) # <<>>
    BY <1>1, <1>2, <1>3
  <1> DEFINE f == Front(Data)
  <1>5. Tail(f) \in Seq(Byte) /\ Len(Tail(f)) = Len(f) - 1 /\ \A i \in 1 .. Len(Tail(f)) : Tail(f)[i] = f[i + 1]
    BY <1>2, <1>4, HeadTailProperties
  <1> HIDE DEF f
  <1>6. Len(Tail(f)) = need - 2 /\ \A i \in 1 .. need - 2 : Tail(f)[i] = Data[i + 1]
    BY <1>1, <1>2, <1>4, <1>5 DEF f
  <1> QED
    BY <1>2, <1>4, <1>5, <1>6 DEF f

\* The environment uses up its bounds one by one.
LEMMA Spent ==
  ASSUME NEW kind \in Bounds, NEW limit, Spend(kind, limit), used \in [Bounds -> Nat]
  PROVE  /\ used' \in [Bounds -> Nat] /\ used'[kind] > 0
         /\ \A k \in Bounds \ {kind} : used'[k] = used[k]
  BY DEF Spend

\* A piece of a message comes in, and the rest is on its way.
LEMMA ArrivesTypes ==
  ASSUME ListenerInv, NEW bytes \in Seq(Byte), NEW n \in 0 .. Len(bytes), Arrives(bytes, n),
         used' \in [Bounds -> Nat]
  PROVE  ListenerInv'
  <1> DEFINE piece == SubSeq(bytes, 1, n)
             rest  == SubSeq(bytes, n + 1, Len(bytes))
  <1>1. piece \in Seq(Byte) /\ rest \in Seq(Byte)
    BY Pieces
  <1>2. buffer' = buffer \o piece /\ coming' = rest /\ link = "up"
        /\ UNCHANGED <<link, at, need, waited, heard, sent, previous, seen, spa>>
    BY DEF Arrives, Waits, client
  <1> HIDE DEF piece, rest
  <1>3. buffer \o piece \in Seq(Byte)
    BY <1>1, ConcatProperties DEF ListenerInv, TypeOK, Byte
  <1>4. buffer' \in Seq(0 .. 255) /\ coming' \in Seq(0 .. 255)
    BY <1>1, <1>2, <1>3 DEF Byte
  <1>5. TypeOK'
    BY <1>2, <1>4 DEF ListenerInv, TypeOK
  <1> QED
    BY <1>2, <1>5 DEF ListenerInv

LEMMA DeliversTypes ==
  ASSUME ListenerInv, NEW bytes \in Seq(Byte), Delivers(bytes)
  PROVE  ListenerInv'
  <1>1. used \in [Bounds -> Nat] /\ Len(bytes) \in Nat
    BY DEF ListenerInv, TypeOK
  <1>2. CASE Arrives(bytes, Len(bytes)) /\ UNCHANGED used
    BY <1>1, <1>2, ArrivesTypes
  <1>3. CASE Spend("split", MaxSplits) /\ \E n \in 1 .. Len(bytes) - 1 : Arrives(bytes, n)
    <2>1. used' \in [Bounds -> Nat]
      BY <1>1, <1>3, Spent DEF Bounds
    <2>2. PICK n \in 1 .. Len(bytes) - 1 : Arrives(bytes, n)
      BY <1>3
    <2>3. n \in 0 .. Len(bytes)
      BY <1>1
    <2> QED
      BY <2>1, <2>2, <2>3, ArrivesTypes
  <1> QED
    BY <1>2, <1>3 DEF Delivers

\* A read is over, and the listener goes on with bytes.
LEMMA GoesTypes ==
  ASSUME ListenerInv, NEW where \in {"header", "stopped", "crashed"}, NEW rest \in Seq(Byte),
         Goes(where, rest)
  PROVE  /\ buffer' \in Seq(0 .. 255) /\ at' \in Reads \cup {"stopped", "crashed"}
         /\ need' \in 0 .. 255 /\ waited' \in 0 .. Timeout /\ ~(need' > 0) /\ at' # "body"
  <1>1. at' \in {"header", "stopped", "crashed"} /\ need' = 0 /\ waited' = 0 /\ buffer' = rest
    BY DEF Goes
  <1> QED
    BY <1>1, ListenerAssumption DEF Reads, Byte

\* Then the state keeps its types when the times and the world do.
LEMMA GoesKeeps ==
  ASSUME ListenerInv, NEW where \in {"header", "stopped", "crashed"}, NEW rest \in Seq(Byte),
         Goes(where, rest),
         sent' \in 0 .. Timeout + 1, seen' \in BOOLEAN,
         UNCHANGED <<heard, previous, link, coming, spa, used>>
  PROVE  ListenerInv'
  <1>1. /\ buffer' \in Seq(0 .. 255) /\ at' \in Reads \cup {"stopped", "crashed"}
        /\ need' \in 0 .. 255 /\ waited' \in 0 .. Timeout /\ ~(need' > 0) /\ at' # "body"
    BY GoesTypes
  <1>2. /\ link' \in {"down", "up", "eof"} /\ coming' \in Seq(0 .. 255)
        /\ heard' \in 0 .. Timeout /\ previous' \in Seq(0 .. 255) \cup {None}
        /\ spa' \in Bodies /\ used' \in [Bounds -> Nat] /\ (link' # "up" => coming' = <<>>)
    BY Zenon DEF ListenerInv, TypeOK
  <1>3. TypeOK'
    BY <1>1, <1>2, ZenonT(30) DEF TypeOK
  <1> QED
    BY <1>2, <1>3, Zenon DEF ListenerInv

\* Probing sets the time of the last message back, or leaves it.
LEMMA ProbeTypes ==
  ASSUME ListenerInv, Probe
  PROVE  /\ sent' \in 0 .. Timeout + 1 /\ seen' \in BOOLEAN
         /\ UNCHANGED <<heard, previous, link, coming, spa, used>>
  <1>1. UNCHANGED <<heard, previous, link, coming, spa, used>>
    BY DEF Probe, world
  <1>2. (seen' = Available /\ sent' = 0) \/ (seen' = seen /\ sent' = sent)
    BY Zenon DEF Probe
  <1>3. seen' \in BOOLEAN
    <2>1. Available \in BOOLEAN
      BY DEF Available
    <2> QED
      BY <1>2, <2>1, Zenon DEF ListenerInv, TypeOK
  <1>4. sent' \in 0 .. Timeout + 1
    <2>1. 0 \in 0 .. Timeout + 1
      BY ListenerAssumption
    <2> QED
      BY <1>2, <2>1, Zenon DEF ListenerInv, TypeOK
  <1> QED
    BY <1>1, <1>3, <1>4

\* Every step of the listener, of the application and of the world keeps the types.
LEMMA ListenerKept ==
  ASSUME ListenerInv, [Next]_vars
  PROVE  ListenerInv'
  <1> USE ListenerAssumption
  <1>0. buffer \in Seq(Byte) /\ coming \in Seq(Byte) /\ <<>> \in Seq(Byte)
        /\ used \in [Bounds -> Nat] /\ Len(buffer) \in Nat
    BY DEF ListenerInv, TypeOK, Byte
  <1>1. CASE ReadHeader
    <2>1. Len(buffer) >= 2 /\ UNCHANGED <<heard, sent, previous, seen, link, coming, spa, used>>
          /\ waited' = 0 /\ buffer' = SubSeq(buffer, 3, Len(buffer))
      BY <1>1 DEF ReadHeader, Ready, client, world
    <2>2. buffer' \in Seq(0 .. 255)
      <3>1. SubSeq(buffer, 3, Len(buffer)) \in Seq(Byte)
        BY <1>0, Pieces
      <3> QED
        BY <2>1, <3>1 DEF Byte
    <2>3. buffer[2] \in 0 .. 255
      <3>1. 2 \in 1 .. Len(buffer)
        BY <1>0, <2>1
      <3> QED
        BY <1>0, <3>1, ElementOfSeq DEF Byte
    <2>4. \/ at' = "resync" /\ need' = need /\ at = "header"
          \/ at' = "body" /\ need' = buffer[2] /\ buffer[2] # 0
      BY <1>1 DEF ReadHeader
    <2>5. at' \in Reads /\ need' \in 0 .. 255 /\ (need' > 0 <=> at' = "body")
      <3>1. CASE at' = "resync" /\ need' = need /\ at = "header"
        BY <3>1 DEF Reads, ListenerInv, TypeOK
      <3>2. CASE at' = "body" /\ need' = buffer[2] /\ buffer[2] # 0
        <4>1. \A n \in 0 .. 255 : n # 0 => n > 0
          OBVIOUS
        <4> QED
          BY <2>3, <3>2, <4>1, Zenon DEF Reads
      <3> QED
        BY <2>4, <3>1, <3>2
    <2> QED
      BY <2>1, <2>2, <2>5 DEF ListenerInv, TypeOK
  <1>2. CASE Resync
    <2>1. PICK end \in DOMAIN buffer : NextRead(SubSeq(buffer, end + 1, Len(buffer)))
      BY <1>2 DEF Resync
    <2>2. end \in 1 .. Len(buffer)
      BY <1>0
    <2> DEFINE rest == SubSeq(buffer, end + 1, Len(buffer))
    <2>3. rest \in Seq(Byte)
      BY <1>0, <2>2, Pieces
    <2>4. Goes("header", rest)
      BY <2>1 DEF NextRead
    <2> HIDE DEF rest
    <2>5. UNCHANGED <<heard, sent, previous, seen, link, coming, spa, used>>
      BY <1>2 DEF Resync, client, world
    <2>6. sent' \in 0 .. Timeout + 1 /\ seen' \in BOOLEAN
      BY <2>5, Zenon DEF ListenerInv, TypeOK
    <2> QED
      BY <2>3, <2>4, <2>5, <2>6, GoesKeeps
  <1>3. CASE Refuse
    <2> DEFINE rest == SubSeq(buffer, need + 1, Len(buffer))
    <2>1. at = "body" /\ Ready /\ Goes("header", rest)
          /\ UNCHANGED <<heard, sent, previous, seen, link, coming, spa, used>>
      BY <1>3 DEF Refuse, NextRead, client, world
    <2>2. rest \in Seq(Byte)
      BY <2>1, BodyRead
    <2> HIDE DEF rest
    <2>3. sent' \in 0 .. Timeout + 1 /\ seen' \in BOOLEAN
      BY <2>1, Zenon DEF ListenerInv, TypeOK
    <2> QED
      BY <2>1, <2>2, <2>3, GoesKeeps
  <1>4. CASE TakeIn
    <2> DEFINE rest == SubSeq(buffer, need + 1, Len(buffer))
               body == Tail(Front(Data))
    <2>1. at = "body" /\ Ready /\ Valid
          /\ UNCHANGED <<sent, link, coming, spa, used>> /\ heard' = 0 /\ previous' = body
      BY <1>4 DEF TakeIn, world
    <2>2. rest \in Seq(Byte) /\ body \in Seq(Byte)
      BY <2>1, BodyRead, TakenHasBytes
    <2>3. \/ Goes("crashed", <<>>) /\ seen' = seen
          \/ Goes("header", rest) /\ seen' = (IF body = previous THEN seen ELSE link # "down")
      BY <1>4 DEF TakeIn, Ends, NextRead
    <2> HIDE DEF rest, body
    <2>4. seen' \in BOOLEAN
      BY <2>3, ZenonT(30) DEF ListenerInv, TypeOK
    <2>5. /\ buffer' \in Seq(0 .. 255) /\ at' \in Reads \cup {"stopped", "crashed"}
          /\ need' \in 0 .. 255 /\ waited' \in 0 .. Timeout /\ ~(need' > 0) /\ at' # "body"
      BY <1>0, <2>2, <2>3, GoesTypes
    <2>6. previous' \in Seq(0 .. 255) \cup {None} /\ heard' \in 0 .. Timeout
      BY <2>1, <2>2 DEF Byte
    <2> QED
      BY <2>1, <2>4, <2>5, <2>6 DEF ListenerInv, TypeOK
  <1>5. CASE TimesOut
    <2>1. Goes("header", buffer) /\ Probe
      BY <1>5 DEF TimesOut, NextRead
    <2> QED
      BY <1>0, <2>1, GoesKeeps, ProbeTypes
  <1>6. CASE ReadEnds
    <2>1. Goes("header", <<>>) /\ Probe
      BY <1>6 DEF ReadEnds, NextRead
    <2> QED
      BY <1>0, <2>1, GoesKeeps, ProbeTypes
  <1>7. CASE Stop
    <2>1. Goes("stopped", <<>>) /\ seen' = FALSE
          /\ UNCHANGED <<heard, sent, previous, link, coming, spa, used>>
      BY <1>7 DEF Stop, Ends, world
    <2>2. sent' \in 0 .. Timeout + 1
      BY <2>1, Zenon DEF ListenerInv, TypeOK
    <2> QED
      BY <1>0, <2>1, <2>2, GoesKeeps
  <1>8. CASE Connect
    <2>1. Goes("header", <<>>) /\ sent' = 0 /\ link' = "up" /\ link = "down"
          /\ UNCHANGED <<coming, heard, previous, seen, spa, used>>
      BY <1>8 DEF Connect, NextRead
    <2>2. sent' \in 0 .. Timeout + 1
      BY <2>1
    <2> QED
      BY <1>0, <2>1, <2>2, GoesTypes, ZenonT(30) DEF ListenerInv, TypeOK
  <1>9. CASE Send
    <2>1. sent' = 0 /\ Spend("send", MaxSends)
          /\ UNCHANGED <<link, coming, buffer, at, need, waited, heard, previous, seen, spa>>
      BY <1>9 DEF Send, reader
    <2>2. used' \in [Bounds -> Nat] /\ sent' \in 0 .. Timeout + 1
      BY <1>0, <2>1, Spent DEF Bounds
    <2> QED
      BY <2>1, <2>2 DEF ListenerInv, TypeOK
  <1>10. CASE SpaReports
    <2>1. spa \in Bodies /\ Delivers(Frame(spa))
      BY <1>10 DEF SpaReports, ListenerInv, TypeOK
    <2> QED
      BY <2>1, FrameLayout, DeliversTypes
  <1>11. CASE RestArrives
    BY <1>0, <1>11, DeliversTypes DEF RestArrives
  <1>12. CASE SpaGarbles
    <2>1. PICK bytes \in Garbled(Frame(spa)) : Arrives(bytes, Len(bytes))
      BY <1>12 DEF SpaGarbles
    <2>2. used' \in [Bounds -> Nat]
      BY <1>0, <1>12, Spent DEF SpaGarbles, Bounds
    <2>3. Frame(spa) \in Seq(Byte)
      BY FrameLayout DEF ListenerInv, TypeOK
    <2>4. bytes \in Seq(Byte)
      BY <2>3, GarbledBytes
    <2>5. Len(bytes) \in 0 .. Len(bytes)
      BY <2>4
    <2> QED
      BY <2>1, <2>2, <2>4, <2>5, ArrivesTypes
  <1>13. CASE SpaChanges
    <2>1. spa' \in Bodies /\ Spend("change", MaxChanges)
          /\ UNCHANGED <<link, coming, buffer, at, need, waited, heard, sent, previous, seen>>
      BY <1>13 DEF SpaChanges, reader, client
    <2>2. used' \in [Bounds -> Nat]
      BY <1>0, <2>1, Spent DEF Bounds
    <2> QED
      BY <2>1, <2>2 DEF ListenerInv, TypeOK
  <1>14. CASE Lose
    <2>1. link' \in {"eof", "down"} /\ coming' = <<>> /\ Spend("loss", MaxLosses)
          /\ UNCHANGED <<buffer, at, need, waited, heard, sent, previous, seen, spa>>
      BY <1>14 DEF Lose, reader, client
    <2>2. used' \in [Bounds -> Nat] /\ coming' \in Seq(0 .. 255)
      BY <1>0, <2>1, Spent DEF Bounds, Byte
    <2> QED
      BY <2>1, <2>2 DEF ListenerInv, TypeOK
  <1>15. CASE Tick
    <2>1. UNCHANGED <<buffer, at, need, previous, seen, link, coming, spa, used>>
          /\ waited' = (IF Timed THEN waited + 1 ELSE waited) /\ (Timed => waited < Timeout)
          /\ heard' = Older(heard, Timeout) /\ sent' = Older(sent, Timeout + 1)
      BY <1>15 DEF Tick, world
    <2>2. waited' \in 0 .. Timeout /\ heard' \in 0 .. Timeout /\ sent' \in 0 .. Timeout + 1
      BY <2>1 DEF ListenerInv, TypeOK, Older
    <2> QED
      BY <2>1, <2>2 DEF ListenerInv, TypeOK
  <1>16. CASE UNCHANGED vars
    BY <1>16 DEF vars, ListenerInv, TypeOK
  <1> QED
    BY <1>1, <1>2, <1>3, <1>4, <1>5, <1>6, <1>7, <1>8, <1>9, <1>10, <1>11, <1>12, <1>13,
       <1>14, <1>15, <1>16 DEF Next, Listen

\* The state keeps its types: in particular, the listener waits for a body exactly
\* when a header has given it a length, and what is taken in, remembered and compared consists of bytes.
THEOREM TypeCorrect == Spec => []TypeOK
  <1>1. ListenerInv => TypeOK
    BY DEF ListenerInv
  <1> QED
    BY <1>1, ListenerInit, ListenerKept, PTL DEF Spec

----------------------------------------------------------------------------
(* A stream without noise *)

\* The reader has taken in the first m bytes of a frame: it stands before them all,
\* or behind the two of the header.
Holds(b, m) ==
  \/ at = "header" /\ buffer = SubSeq(Frame(b), 1, m)
  \/ at = "body" /\ need = Len(b) + 2 /\ m >= 2 /\ buffer = SubSeq(Frame(b), 3, m)

\* The rest of that frame is on its way; before the first byte, nothing is.
RestComes(b, m) ==
  link = "up" => coming = IF m = 0 THEN <<>> ELSE SubSeq(Frame(b), m + 1, Len(Frame(b)))

\* Without noise the reader, wherever it is, is within a frame.
StreamInv ==
  used["noise"] = 0 =>
    /\ TakenWasSent
    /\ at \in Reads =>
         \E b \in Bodies : \E m \in 0 .. Len(Frame(b)) : Holds(b, m) /\ RestComes(b, m)

\* A piece of a piece is a piece.
LEMMA PieceOfPiece ==
  ASSUME NEW s \in Seq(Byte), NEW k \in Nat \ {0}, NEW l \in Nat, k <= l + 1, l <= Len(s),
         NEW i \in Nat \ {0}, NEW j \in Nat, i <= j + 1, j <= l - k + 1
  PROVE  SubSeq(SubSeq(s, k, l), i, j) = SubSeq(s, k + i - 1, k + j - 1)
  <1> DEFINE p == SubSeq(s, k, l)
             q == SubSeq(p, i, j)
             r == SubSeq(s, k + i - 1, k + j - 1)
  <1>1. p \in Seq(Byte) /\ Len(p) = l - k + 1 /\ \A n \in 1 .. l - k + 1 : p[n] = s[k + n - 1]
    <2>1. /\ p \in Seq(Byte)
          /\ Len(p) = IF k <= l THEN l - k + 1 ELSE 0
          /\ \A n \in 1 .. l - k + 1 : p[n] = s[k + n - 1]
      BY Pieces, Zenon
    <2> HIDE DEF p
    <2>2. (IF k <= l THEN l - k + 1 ELSE 0) = l - k + 1
      OBVIOUS
    <2> QED
      BY <2>1, <2>2
  <1> HIDE DEF p
  <1>2. q \in Seq(Byte) /\ Len(q) = j - i + 1 /\ \A n \in 1 .. j - i + 1 : q[n] = p[i + n - 1]
    <2>1. /\ q \in Seq(Byte)
          /\ Len(q) = IF i <= j THEN j - i + 1 ELSE 0
          /\ \A n \in 1 .. j - i + 1 : q[n] = p[i + n - 1]
      <3>1. j <= Len(p)
        BY <1>1
      <3> QED
        BY <1>1, <3>1, Pieces, Zenon
    <2> HIDE DEF q
    <2>2. (IF i <= j THEN j - i + 1 ELSE 0) = j - i + 1
      OBVIOUS
    <2> QED
      BY <2>1, <2>2
  <1>3. r \in Seq(Byte) /\ Len(r) = j - i + 1 /\ \A n \in 1 .. j - i + 1 : r[n] = s[k + i - 1 + n - 1]
    <2>1. k + i - 1 \in Nat \ {0} /\ k + j - 1 \in Nat /\ k + j - 1 <= Len(s)
      <3>1. Len(s) \in Nat
        OBVIOUS
      <3> QED
        BY <3>1
    <2>2. /\ r \in Seq(Byte)
          /\ Len(r) = IF k + i - 1 <= k + j - 1 THEN (k + j - 1) - (k + i - 1) + 1 ELSE 0
          /\ \A n \in 1 .. (k + j - 1) - (k + i - 1) + 1 : r[n] = s[(k + i - 1) + n - 1]
      BY <2>1, Pieces, Zenon
    <2> HIDE DEF r
    <2>3. (k + j - 1) - (k + i - 1) + 1 = j - i + 1 /\ (k + i - 1 <= k + j - 1 <=> i <= j)
      OBVIOUS
    <2>4. \A n \in 1 .. j - i + 1 : (k + i - 1) + n - 1 = k + i - 1 + n - 1
      OBVIOUS
    <2> QED
      BY <2>2, <2>3, <2>4
  <1> HIDE DEF q, r
  <1>4. \A n \in 1 .. j - i + 1 : q[n] = r[n]
    <2> TAKE n \in 1 .. j - i + 1
    <2>1. i + n - 1 \in 1 .. l - k + 1 /\ k + (i + n - 1) - 1 = k + i - 1 + n - 1
      OBVIOUS
    <2> QED
      BY <1>1, <1>2, <1>3, <2>1
  <1>5. q = r
    BY <1>2, <1>3, <1>4, SeqEqual
  <1> QED
    BY <1>5 DEF p, q, r

\* A listener that waits has not yet got the whole frame.
LEMMA WaitsForRest ==
  ASSUME NEW b \in Bodies, NEW m \in 0 .. Len(Frame(b)), Holds(b, m), ~Ready
  PROVE  m < Len(Frame(b))
  <1>1. Frame(b) \in Seq(Byte) /\ Len(Frame(b)) = Len(b) + 4 /\ Len(b) \in Nat
    BY FrameLayout
  <1>2. CASE at = "header" /\ buffer = SubSeq(Frame(b), 1, m)
    <2>1. Len(buffer) = m
      BY <1>1, <1>2, Pieces
    <2> QED
      BY <1>1, <1>2, <2>1 DEF Ready
  <1>3. CASE at = "body" /\ need = Len(b) + 2 /\ m >= 2 /\ buffer = SubSeq(Frame(b), 3, m)
    <2>1. Len(buffer) = m - 2
      BY <1>1, <1>3, Pieces
    <2> QED
      BY <1>1, <1>3, <2>1 DEF Ready
  <1> QED
    BY <1>2, <1>3 DEF Holds

\* A piece of the rest comes in: more of the frame is there, and less is on its way.
LEMMA PieceArrives ==
  ASSUME NEW b \in Bodies, NEW m \in 0 .. Len(Frame(b)), Holds(b, m),
         NEW n \in Nat, n > 0, n <= Len(Frame(b)) - m,
         Arrives(SubSeq(Frame(b), m + 1, Len(Frame(b))), n)
  PROVE  Holds(b, m + n)' /\ RestComes(b, m + n)'
  <1> DEFINE f == Frame(b)
             L == Len(f)
             rest == SubSeq(f, m + 1, L)
  <1>1. f \in Seq(Byte) /\ L = Len(b) + 4 /\ Len(b) \in Nat
    BY FrameLayout
  <1>2. /\ buffer' = buffer \o SubSeq(rest, 1, n)
        /\ coming' = SubSeq(rest, n + 1, Len(rest))
        /\ UNCHANGED <<link, at, need>>
    BY DEF Arrives
  <1> HIDE DEF f
  <1>3. Len(rest) = L - m
    BY <1>1, Pieces DEF f
  <1>4. SubSeq(rest, 1, n) = SubSeq(f, m + 1, m + n)
    BY <1>1, PieceOfPiece DEF f
  <1>5. SubSeq(rest, n + 1, L - m) = SubSeq(f, m + n + 1, L)
    <2>1. SubSeq(rest, n + 1, L - m) = SubSeq(f, (m + 1) + (n + 1) - 1, (m + 1) + (L - m) - 1)
      BY <1>1, PieceOfPiece DEF f
    <2>2. (m + 1) + (n + 1) - 1 = m + n + 1 /\ (m + 1) + (L - m) - 1 = L
      BY <1>1 DEF f
    <2> QED
      BY <2>1, <2>2
  <1> HIDE DEF rest
  <1>6. RestComes(b, m + n)'
    <2>1. coming' = SubSeq(f, m + n + 1, L) /\ m + n # 0
      BY <1>2, <1>3, <1>5
    <2> QED
      BY <2>1 DEF RestComes, f
  <1>7. Holds(b, m + n)'
    <2>1. CASE at = "header" /\ buffer = SubSeq(f, 1, m)
      <3>1. SubSeq(f, 1, m) \o SubSeq(f, m + 1, m + n) = SubSeq(f, 1, m + n)
        BY <1>1, ConcatAdjacentSubSeq DEF f
      <3> QED
        BY <1>2, <1>4, <2>1, <3>1 DEF Holds, f
    <2>2. CASE at = "body" /\ need = Len(b) + 2 /\ m >= 2 /\ buffer = SubSeq(f, 3, m)
      <3>1. SubSeq(f, 3, m) \o SubSeq(f, m + 1, m + n) = SubSeq(f, 3, m + n)
        <4>1. 3 \in 1 .. Len(f) + 1 /\ m \in 3 - 1 .. Len(f) /\ m + n \in m .. Len(f)
          BY <1>1, <2>2 DEF f
        <4> QED
          BY <1>1, <4>1, ConcatAdjacentSubSeq
      <3> QED
        BY <1>2, <1>4, <2>2, <3>1 DEF Holds, f
    <2> QED
      BY <2>1, <2>2 DEF Holds, f
  <1> QED
    BY <1>6, <1>7

\* Contents(b) element by element.
LEMMA ContentsLayout ==
  ASSUME NEW b \in Bodies
  PROVE  /\ Contents(b) \in Seq(Byte) /\ Len(Contents(b)) = Len(b) + 1
         /\ Contents(b)[1] = Len(b) + 2
         /\ \A i \in 1 .. Len(b) : Contents(b)[i + 1] = b[i]
  <1>0. b \in Seq(Byte) /\ Len(b) \in 0 .. 253
    BY FrameLayout
  <1>1. <<Len(b) + 2>> \in Seq(Byte) /\ Len(b) \in Nat
    <2>0. \A n \in 0 .. 253 : n + 2 \in Byte
      BY DEF Byte
    <2>1. Len(b) + 2 \in Byte
      BY <1>0, <2>0, Zenon
    <2> QED
      BY <1>0, <2>1
  <1>2. /\ Contents(b) \in Seq(Byte)
        /\ Len(Contents(b)) = Len(<<Len(b) + 2>>) + Len(b)
        /\ \A i \in 1 .. Len(<<Len(b) + 2>>) + Len(b) : Contents(b)[i] =
             IF i <= Len(<<Len(b) + 2>>) THEN <<Len(b) + 2>>[i] ELSE b[i - Len(<<Len(b) + 2>>)]
    BY <1>0, <1>1, ConcatProperties DEF Contents
  <1> QED
    BY <1>1, <1>2

\* A body that has come in whole is what the spa put into the frame, and nothing
\* is left behind it.
LEMMA WholeBody ==
  ASSUME ListenerInv, NEW b \in Bodies, NEW m \in 0 .. Len(Frame(b)), Holds(b, m),
         at = "body", Ready
  PROVE  /\ Valid /\ Tail(Front(Data)) = b
         /\ SubSeq(buffer, need + 1, Len(buffer)) = <<>> /\ m = Len(Frame(b))
  <1>1. /\ Frame(b) \in Seq(Byte) /\ Len(Frame(b)) = Len(b) + 4 /\ Len(b) \in Nat /\ b \in Seq(Byte)
        /\ \A i \in 1 .. Len(b) : Frame(b)[i + 2] = b[i]
        /\ Frame(b)[Len(b) + 3] = Checksum(Contents(b))
    BY FrameLayout
  <1>2. need = Len(b) + 2 /\ m >= 2 /\ buffer = SubSeq(Frame(b), 3, m)
    BY DEF Holds
  <1>3. Len(buffer) = m - 2 /\ \A i \in 1 .. m - 2 : buffer[i] = Frame(b)[i + 2]
    <2>1. /\ Len(buffer) = IF 3 <= m THEN m - 3 + 1 ELSE 0
          /\ \A i \in 1 .. m - 3 + 1 : buffer[i] = Frame(b)[3 + i - 1]
      BY <1>1, <1>2, Pieces
    <2>2. m - 3 + 1 = m - 2 /\ \A i \in 1 .. m - 2 : 3 + i - 1 = i + 2
      BY <1>1
    <2> QED
      BY <1>1, <1>2, <2>1, <2>2
  <1>4. m = Len(Frame(b)) /\ Len(buffer) = need
    BY <1>1, <1>2, <1>3 DEF Ready
  <1>5. /\ Data \in Seq(Byte) /\ Len(Data) = need
        /\ Data[1] = need /\ \A i \in 1 .. need - 1 : Data[i + 1] = buffer[i]
    BY BodyRead
  <1>6. \A i \in 1 .. Len(b) : Data[i + 1] = b[i]
    <2> TAKE i \in 1 .. Len(b)
    <2>1. i \in 1 .. need - 1 /\ i \in 1 .. m - 2
      BY <1>1, <1>2, <1>4
    <2> QED
      BY <1>1, <1>3, <1>5, <2>1
  <1>7. Last(Data) = Checksum(Contents(b))
    <2>1. Len(b) + 1 \in 1 .. need - 1 /\ Len(b) + 1 \in 1 .. m - 2
      BY <1>1, <1>2, <1>4
    <2>2. Data[(Len(b) + 1) + 1] = Frame(b)[(Len(b) + 1) + 2]
      BY <1>3, <1>5, <2>1
    <2>3. (Len(b) + 1) + 1 = need /\ (Len(b) + 1) + 2 = Len(b) + 3
      BY <1>1, <1>2
    <2> QED
      BY <1>1, <1>5, <2>2, <2>3 DEF Last
  <1>8. Front(Data) = Contents(b)
    <2>1. /\ SubSeq(Data, 1, need - 1) \in Seq(Byte)
          /\ Len(SubSeq(Data, 1, need - 1)) = need - 1
          /\ \A i \in 1 .. need - 1 : SubSeq(Data, 1, need - 1)[i] = Data[1 + i - 1]
      BY <1>1, <1>2, <1>5, Pieces
    <2>2. Front(Data) = SubSeq(Data, 1, need - 1)
      BY <1>5 DEF Front
    <2>3. \A i \in 1 .. need - 1 : 1 + i - 1 = i
      OBVIOUS
    <2>4. /\ Front(Data) \in Seq(Byte) /\ Len(Front(Data)) = Len(b) + 1
          /\ \A i \in 1 .. Len(b) + 1 : Front(Data)[i] = Data[i]
      BY <1>1, <1>2, <2>1, <2>2, <2>3
    <2>5. \A i \in 1 .. Len(b) + 1 : Data[i] = Contents(b)[i]
      <3> TAKE i \in 1 .. Len(b) + 1
      <3>1. CASE i = 1
        BY <1>2, <1>5, <3>1, ContentsLayout
      <3>2. CASE i # 1
        <4>1. i - 1 \in 1 .. Len(b) /\ (i - 1) + 1 = i
          BY <1>1, <3>2
        <4>2. Data[(i - 1) + 1] = b[i - 1] /\ Contents(b)[(i - 1) + 1] = b[i - 1]
          BY <1>6, <4>1, ContentsLayout
        <4> QED
          BY <4>1, <4>2
      <3> QED
        BY <3>1, <3>2
    <2>6. Contents(b) \in Seq(Byte) /\ Len(Contents(b)) = Len(b) + 1
      BY ContentsLayout
    <2> QED
      BY <2>4, <2>5, <2>6, SeqEqual
  <1>9. Valid
    BY <1>5, <1>7, <1>8 DEF Valid
  <1>10. Tail(Front(Data)) = b
    <2> DEFINE t == Tail(Front(Data))
    <2>1. t \in Seq(Byte) /\ Len(t) = need - 2 /\ \A i \in 1 .. need - 2 : t[i] = Data[i + 1]
      BY <1>9, TakenHasBytes
    <2> HIDE DEF t
    <2>2. Len(t) = Len(b) /\ \A i \in 1 .. Len(t) : t[i] = b[i]
      BY <1>1, <1>2, <1>6, <2>1
    <2>3. t = b
      BY <1>1, <2>1, <2>2, SeqEqual
    <2> QED
      BY <2>3 DEF t
  <1>11. SubSeq(buffer, need + 1, Len(buffer)) = <<>>
    <2>1. need + 1 \in Int /\ Len(buffer) \in Int /\ Len(buffer) < need + 1
      BY <1>1, <1>2, <1>4
    <2> QED
      BY <2>1, SubSeqEmpty
  <1> QED
    BY <1>4, <1>9, <1>10, <1>11

\* Only SpaGarbles makes noise.
LEMMA StillNoNoise ==
  ASSUME ListenerInv, [Next]_vars, used'["noise"] = 0
  PROVE  used["noise"] = 0 /\ ~SpaGarbles
  <1>1. used \in [Bounds -> Nat] /\ "noise" \in Bounds
    BY DEF ListenerInv, TypeOK, Bounds
  <1>2. ~SpaGarbles
    <2>1. Spend("noise", MaxNoise) => used'["noise"] > 0
      BY <1>1, Spent
    <2>2. ~(used'["noise"] > 0)
      OBVIOUS
    <2>3. SpaGarbles => Spend("noise", MaxNoise)
      BY DEF SpaGarbles
    <2> QED
      BY <2>1, <2>2, <2>3, Zenon
  <1>3. CASE UNCHANGED used
    BY <1>2, <1>3
  <1>4. ASSUME NEW kind \in Bounds \ {"noise"}, NEW limit, Spend(kind, limit)
        PROVE  used["noise"] = 0
    BY <1>1, <1>4, Spent
  <1>5. \/ UNCHANGED used
        \/ Spend("send", MaxSends) \/ Spend("change", MaxChanges) \/ Spend("loss", MaxLosses)
        \/ Spend("split", MaxSplits)
    BY <1>2, Zenon DEF Next, Listen, ReadHeader, Resync, Refuse, TakeIn, TimesOut, ReadEnds, Stop,
       Connect, Send, SpaReports, RestArrives, Delivers, SpaChanges, Lose, Tick, Probe, vars, world
  <1> QED
    BY <1>2, <1>3, <1>4, <1>5 DEF Bounds

\* What is delivered of a frame is some bytes of it, and the reader stays within it.
LEMMA FrameDelivered ==
  ASSUME NEW b \in Bodies, NEW m \in 0 .. Len(Frame(b)), Holds(b, m), m < Len(Frame(b)),
         Delivers(SubSeq(Frame(b), m + 1, Len(Frame(b))))
  PROVE  \E k \in 0 .. Len(Frame(b)) : Holds(b, k)' /\ RestComes(b, k)'
  <1> DEFINE L == Len(Frame(b))
             rest == SubSeq(Frame(b), m + 1, L)
  <1>1. L \in Nat /\ Len(rest) = L - m /\ m \in Nat
    BY FrameLayout, Pieces
  <1>2. PICK n \in 1 .. Len(rest) : Arrives(rest, n)
    <2>1. Len(rest) \in 1 .. Len(rest) /\ \A n \in 1 .. Len(rest) - 1 : n \in 1 .. Len(rest)
      BY <1>1
    <2> HIDE DEF rest
    <2> QED
      BY <2>1 DEF Delivers, rest
  <1>3. Holds(b, m + n)' /\ RestComes(b, m + n)'
    BY <1>1, <1>2, PieceArrives
  <1>4. m + n \in 0 .. L
    BY <1>1, <1>2
  <1> QED
    BY <1>3, <1>4

\* Without noise every step leaves the reader within a frame of the spa.
LEMMA StreamKept ==
  ASSUME ListenerInv, StreamInv, [Next]_vars
  PROVE  StreamInv'
  <1> SUFFICES ASSUME used'["noise"] = 0
               PROVE  /\ TakenWasSent'
                      /\ at' \in Reads => \E b \in Bodies : \E m \in 0 .. Len(Frame(b)) :
                                            Holds(b, m)' /\ RestComes(b, m)'
    BY DEF StreamInv
  <1>0. /\ TakenWasSent
        /\ at \in Reads =>
             \E b \in Bodies : \E m \in 0 .. Len(Frame(b)) : Holds(b, m) /\ RestComes(b, m)
    BY StillNoNoise DEF StreamInv
  <1> DEFINE Within == \E b \in Bodies : \E m \in 0 .. Len(Frame(b)) : Holds(b, m)' /\ RestComes(b, m)'
  <1>a. ASSUME at' = "header", buffer' = <<>>, link' = "up" => coming' = <<>>
        PROVE  Within
    <2>1. PICK b \in Bodies : TRUE
      BY DEF ListenerInv, TypeOK
    <2>2. SubSeq(Frame(b), 1, 0) = <<>> /\ 0 \in 0 .. Len(Frame(b))
      BY FrameLayout, SubSeqEmpty
    <2>3. Holds(b, 0)' /\ RestComes(b, 0)'
      BY <1>a, <2>2 DEF Holds, RestComes
    <2> QED
      BY <2>2, <2>3
  <1>b. ASSUME UNCHANGED <<at, buffer, need>>, link' # "up" \/ UNCHANGED <<link, coming>>
        PROVE  at' \in Reads => Within
    <2> SUFFICES ASSUME at \in Reads PROVE Within
      BY <1>b
    <2>a. PICK b \in Bodies : \E m \in 0 .. Len(Frame(b)) : Holds(b, m) /\ RestComes(b, m)
      BY <1>0
    <2>1. PICK m \in 0 .. Len(Frame(b)) : Holds(b, m) /\ RestComes(b, m)
      BY <2>a
    <2>2. Holds(b, m)' /\ RestComes(b, m)'
      BY <1>b, <2>1 DEF Holds, RestComes
    <2> QED
      BY <2>2
  <1>1. CASE ReadHeader
    <2>1. /\ at = "header" /\ Len(buffer) >= 2
          /\ buffer' = SubSeq(buffer, 3, Len(buffer)) /\ UNCHANGED <<previous, link, coming>>
      BY <1>1 DEF ReadHeader, Ready, client, world
    <2>a. PICK b \in Bodies : \E m \in 0 .. Len(Frame(b)) : Holds(b, m) /\ RestComes(b, m)
      BY <1>0, <2>1 DEF Reads
    <2>2. PICK m \in 0 .. Len(Frame(b)) : Holds(b, m) /\ RestComes(b, m)
      BY <2>a
    <2>3. buffer = SubSeq(Frame(b), 1, m)
      BY <2>1, <2>2 DEF Holds
    <2>4. /\ Frame(b) \in Seq(Byte) /\ Len(Frame(b)) \in Nat /\ Len(b) \in 0 .. 253
          /\ Frame(b)[1] = Delimiter /\ Frame(b)[2] = Len(b) + 2
      BY FrameLayout
    <2>5. Len(buffer) = m /\ \A i \in 1 .. m : buffer[i] = Frame(b)[i]
      <3>1. /\ Len(buffer) = IF 1 <= m THEN m - 1 + 1 ELSE 0
            /\ \A i \in 1 .. m - 1 + 1 : buffer[i] = Frame(b)[1 + i - 1]
        BY <2>3, <2>4, Pieces
      <3>2. m - 1 + 1 = m /\ \A i \in 1 .. m : 1 + i - 1 = i
        BY <2>4
      <3> QED
        BY <2>4, <3>1, <3>2
    <2>6. m >= 2 /\ buffer[1] = Delimiter /\ buffer[2] = Len(b) + 2 /\ Len(b) + 2 # 0
      BY <2>1, <2>4, <2>5
    <2>7. at' = "body" /\ need' = Len(b) + 2
      BY <1>1, <2>6, Zenon DEF ReadHeader
    <2>8. buffer' = SubSeq(Frame(b), 3, m)
      <3>1. SubSeq(SubSeq(Frame(b), 1, m), 3, m) = SubSeq(Frame(b), 1 + 3 - 1, 1 + m - 1)
        BY <2>4, <2>6, PieceOfPiece
      <3>2. 1 + 3 - 1 = 3 /\ 1 + m - 1 = m
        BY <2>4
      <3> QED
        BY <2>1, <2>3, <2>5, <3>1, <3>2
    <2>9. Holds(b, m)' /\ RestComes(b, m)'
      BY <2>1, <2>2, <2>6, <2>7, <2>8 DEF Holds, RestComes
    <2> QED
      BY <1>0, <2>1, <2>9 DEF TakenWasSent
  <1>2. CASE Resync \/ Refuse \/ TakeIn
    <2>1. at \in {"resync", "body"} /\ Ready
      BY <1>2 DEF Resync, Refuse, TakeIn
    <2>a. PICK b \in Bodies : \E m \in 0 .. Len(Frame(b)) : Holds(b, m) /\ RestComes(b, m)
      BY <1>0, <2>1 DEF Reads
    <2>2. PICK m \in 0 .. Len(Frame(b)) : Holds(b, m) /\ RestComes(b, m)
      BY <2>a
    <2>3. at = "body"
      BY <2>1, <2>2 DEF Holds
    <2>4. /\ Valid /\ Tail(Front(Data)) = b /\ m = Len(Frame(b))
          /\ SubSeq(buffer, need + 1, Len(buffer)) = <<>>
      BY <2>1, <2>2, <2>3, WholeBody
    <2>5. TakeIn
      BY <1>2, <2>3, <2>4 DEF Resync, Refuse
    <2>6. previous' = b /\ UNCHANGED <<link, coming>>
      BY <2>4, <2>5 DEF TakeIn, world
    <2>7. TakenWasSent'
      BY <2>6 DEF TakenWasSent
    <2>8. link = "up" => coming = <<>>
      <3>1. Len(Frame(b)) \in Nat /\ Len(Frame(b)) # 0
        BY FrameLayout
      <3>2. SubSeq(Frame(b), Len(Frame(b)) + 1, Len(Frame(b))) = <<>>
        BY <3>1, SubSeqEmpty
      <3> QED
        BY <2>2, <2>4, <3>1, <3>2 DEF RestComes
    <2>9. at' = "crashed" \/ (at' = "header" /\ buffer' = <<>>)
      BY <2>4, <2>5 DEF TakeIn, Ends, NextRead, Goes
    <2>10. CASE at' = "crashed"
      BY <2>7, <2>10 DEF Reads
    <2>11. CASE at' = "header" /\ buffer' = <<>>
      BY <1>a, <2>6, <2>7, <2>8, <2>11
    <2> QED
      BY <2>9, <2>10, <2>11
  <1>3. CASE TimesOut
    <2>1. /\ at' = "header" /\ buffer' = buffer /\ at \in {"header", "resync"} /\ link = "up"
          /\ UNCHANGED <<previous, link, coming>>
      BY <1>3, ProbeTypes DEF TimesOut, NextRead, Goes, Timed, Waits, Reads
    <2>a. PICK b \in Bodies : \E m \in 0 .. Len(Frame(b)) : Holds(b, m) /\ RestComes(b, m)
      BY <1>0, <2>1 DEF Reads
    <2>2. PICK m \in 0 .. Len(Frame(b)) : Holds(b, m) /\ RestComes(b, m)
      BY <2>a
    <2>3. Holds(b, m)' /\ RestComes(b, m)'
      BY <2>1, <2>2 DEF Holds, RestComes
    <2> QED
      BY <1>0, <2>1, <2>3 DEF TakenWasSent
  <1>4. CASE ReadEnds
    <2>1. at' = "header" /\ buffer' = <<>> /\ link' # "up" /\ previous' = previous
      BY <1>4, ProbeTypes DEF ReadEnds, NextRead, Goes
    <2> QED
      BY <1>0, <1>a, <2>1 DEF TakenWasSent
  <1>5. CASE Stop
    BY <1>0, <1>5 DEF Stop, Ends, Goes, Reads, TakenWasSent
  <1>6. CASE Connect
    <2>1. at' = "header" /\ buffer' = <<>> /\ coming' = coming /\ coming = <<>> /\ previous' = previous
      BY <1>6 DEF Connect, NextRead, Goes, ListenerInv
    <2> QED
      BY <1>0, <1>a, <2>1 DEF TakenWasSent
  <1>7. CASE Send \/ SpaChanges \/ Lose \/ Tick \/ UNCHANGED vars
    <2>1. UNCHANGED <<at, buffer, need, previous>> /\ (link' # "up" \/ UNCHANGED <<link, coming>>)
      BY <1>7 DEF Send, SpaChanges, Lose, Tick, vars, reader, client, world
    <2> QED
      BY <1>0, <1>b, <2>1 DEF TakenWasSent
  <1>8. CASE SpaReports \/ RestArrives
    <2>1. Waits /\ UNCHANGED previous
      BY <1>8 DEF SpaReports, RestArrives, Delivers, Arrives, client
    <2>a. PICK b \in Bodies : \E m \in 0 .. Len(Frame(b)) : Holds(b, m) /\ RestComes(b, m)
      BY <1>0, <2>1 DEF Waits
    <2>2. PICK m \in 0 .. Len(Frame(b)) : Holds(b, m) /\ RestComes(b, m)
      BY <2>a
    <2>3. m < Len(Frame(b)) /\ link = "up"
      BY <2>1, <2>2, WaitsForRest DEF Waits
    <2>4. Frame(b) \in Seq(Byte) /\ Len(Frame(b)) \in Nat
      BY FrameLayout
    <2>5. m # 0 => coming # <<>>
      <3> SUFFICES ASSUME m # 0 PROVE coming # <<>>
        OBVIOUS
      <3>1. coming = SubSeq(Frame(b), m + 1, Len(Frame(b)))
        BY <2>2, <2>3 DEF RestComes
      <3>2. Len(coming) = Len(Frame(b)) - m
        BY <2>3, <2>4, <3>1, Pieces
      <3> QED
        BY <2>3, <2>4, <3>2
    <2>6. CASE SpaReports
      <3>1. m = 0 /\ Delivers(Frame(spa)) /\ spa \in Bodies
        BY <2>5, <2>6 DEF SpaReports, ListenerInv, TypeOK
      <3>2. SubSeq(Frame(b), 1, 0) = <<>>
        BY SubSeqEmpty
      <3>3. at = "header" /\ buffer = <<>>
        BY <2>2, <3>1, <3>2 DEF Holds
      <3>4. PICK c \in Bodies : c = spa
        BY <3>1
      <3>5. Frame(c) \in Seq(Byte) /\ Len(Frame(c)) \in Nat /\ Len(Frame(c)) > 0
        BY FrameLayout
      <3>6. SubSeq(Frame(c), 1, 0) = <<>> /\ SubSeq(Frame(c), 0 + 1, Len(Frame(c))) = Frame(c)
        BY <3>5, SubSeqEmpty, SubSeqFull
      <3>7. Holds(c, 0) /\ 0 \in 0 .. Len(Frame(c)) /\ 0 < Len(Frame(c))
        BY <3>3, <3>5, <3>6 DEF Holds
      <3>8. Delivers(SubSeq(Frame(c), 0 + 1, Len(Frame(c))))
        BY <3>1, <3>4, <3>6
      <3>9. Within
        BY <3>7, <3>8, FrameDelivered
      <3> QED
        BY <1>0, <2>1, <3>9 DEF TakenWasSent
    <2>7. CASE RestArrives
      <3>1. m # 0
        BY <2>2, <2>3, <2>7 DEF RestArrives, RestComes
      <3>2. Delivers(SubSeq(Frame(b), m + 1, Len(Frame(b))))
        BY <2>2, <2>3, <2>7, <3>1 DEF RestArrives, RestComes
      <3>3. Within
        BY <2>2, <2>3, <3>2, FrameDelivered
      <3> QED
        BY <1>0, <2>1, <3>3 DEF TakenWasSent
    <2> QED
      BY <1>8, <2>6, <2>7
  <1> QED
    BY <1>1, <1>2, <1>3, <1>4, <1>5, <1>6, <1>7, <1>8, StillNoNoise DEF Next, Listen

\* As long as no noise comes, the listener is in step with the spa, for all
\* statuses and checksums, wherever the stream is cut, and whatever times out or
\* ends in between: it refuses nothing, searches for nothing, and takes in what
\* the spa has sent.
THEOREM ListenerStaysInStep == Spec => []InStep
  <1>1. Init => StreamInv
    BY DEF Init, StreamInv, TakenWasSent, Reads
  <1>2. ListenerInv /\ StreamInv => InStep
    <2> SUFFICES ASSUME ListenerInv, StreamInv, used["noise"] = 0
                 PROVE  TakenWasSent /\ at # "resync" /\ (at = "body" /\ Ready => Valid)
      BY DEF InStep
    <2>1. TakenWasSent
      BY DEF StreamInv
    <2>2. at # "resync"
      BY DEF StreamInv, Reads, Holds
    <2>3. ASSUME at = "body", Ready
          PROVE  Valid
      <3>a. PICK b \in Bodies : \E m \in 0 .. Len(Frame(b)) : Holds(b, m)
        BY <2>3 DEF StreamInv, Reads
      <3>1. PICK m \in 0 .. Len(Frame(b)) : Holds(b, m)
        BY <3>a
      <3> QED
        BY <2>3, <3>1, WholeBody
    <2> QED
      BY <2>1, <2>2, <2>3
  <1> QED
    BY <1>1, <1>2, ListenerInit, ListenerKept, StreamKept, PTL DEF Spec

----------------------------------------------------------------------------
(* The checksum *)

\* What holds of 0, and of n + 1 with n, holds up to any m: were it not to hold of
\* m, n |-> n + 1 would map what it holds of up to m one-to-one into itself, and
\* yet never to 0.
LEMMA Reaches ==
  ASSUME NEW m \in Nat, NEW T, 0 \in T, \A n \in T \cap 0 .. m - 1 : n + 1 \in T
  PROVE  m \in T
  <1> SUFFICES ASSUME m \notin T PROVE FALSE
    OBVIOUS
  <1> DEFINE S == T \cap 0 .. m
             f == [n \in S |-> n + 1]
  <1>1. IsFiniteSet(S)
    <2>1. IsFiniteSet(0 .. m) /\ S \subseteq 0 .. m
      BY FS_Interval
    <2> QED
      BY <2>1, FS_Subset
  <1>2. f \in Injection(S, S)
    BY DEF Injection, IsInjective
  <1>3. 0 \in S /\ \A n \in S : f[n] # 0
    OBVIOUS
  <1> HIDE DEF S, f
  <1>4. f \in Surjection(S, S)
    BY <1>1, <1>2, FS_Injection
  <1> QED
    BY <1>3, <1>4 DEF Surjection

LEMMA ShiftedIsShift ==
  ASSUME NEW x \in Byte, NEW c \in 0 .. 1
  PROVE  Shifted[x][c] = Shift(x, c)
  BY DEF Shifted, Byte

\* A shift tells registers apart that it gets apart, or that take in different
\* bits, as long as the bit that leaves is the same.
LEMMA ShiftedApart ==
  ASSUME NEW x \in Byte, NEW y \in Byte, NEW c \in 0 .. 1, NEW d \in 0 .. 1,
         x # y \/ c # d, x \div 128 = y \div 128
  PROVE  Shifted[x][c] # Shifted[y][d]
  <1>1. Shift(x, c) # Shift(y, d)
    BY DEF Shift, Byte
  <1> QED
    BY <1>1, ShiftedIsShift

\* For registers that get the same bit, the bit that leaves does not matter.
LEMMA ShiftedInjective ==
  ASSUME NEW x \in Byte, NEW y \in Byte, NEW c \in 0 .. 1, x # y
  PROVE  Shifted[x][c] # Shifted[y][c]
  <1>1. Shift(x, c) # Shift(y, c)
    BY DEF Shift, Byte
  <1> QED
    BY <1>1, ShiftedIsShift

\* The register keeps its eight bits.
LEMMA ShiftedByte ==
  ASSUME NEW x \in Byte, NEW c \in 0 .. 1
  PROVE  Shifted[x][c] \in Byte
  <1>1. Shift(x, c) \in Byte
    BY DEF Shift, Byte
  <1> QED
    BY <1>1, ShiftedIsShift

\* Registers with the same high bits have them one place further on after a
\* shift, whatever enters at the low end.
LEMMA ShiftedHigh ==
  ASSUME NEW x \in Byte, NEW y \in Byte, NEW c \in 0 .. 1, NEW d \in 0 .. 1, NEW k \in 0 .. 6,
         x \div 2^k = y \div 2^k
  PROVE  Shifted[x][c] \div 2^(k + 1) = Shifted[y][d] \div 2^(k + 1)
  <1> SUFFICES Shift(x, c) \div 2^(k + 1) = Shift(y, d) \div 2^(k + 1)
    BY ShiftedIsShift
  <1> USE DEF Byte
  <1>1. CASE k = 0
    <2>1. 2^k = 1 /\ 2^(k + 1) = 2
      BY <1>1
    <2> QED
      BY <2>1, SMTT(90) DEF Shift
  <1>2. CASE k = 1
    <2>1. 2^k = 2 /\ 2^(k + 1) = 4
      BY <1>2
    <2> QED
      BY <2>1, SMTT(90) DEF Shift
  <1>3. CASE k = 2
    <2>1. 2^k = 4 /\ 2^(k + 1) = 8
      BY <1>3
    <2> QED
      BY <2>1, SMTT(90) DEF Shift
  <1>4. CASE k = 3
    <2>1. 2^k = 8 /\ 2^(k + 1) = 16
      BY <1>4
    <2> QED
      BY <2>1, SMTT(90) DEF Shift
  <1>5. CASE k = 4
    <2>1. 2^k = 16 /\ 2^(k + 1) = 32
      BY <1>5
    <2> QED
      BY <2>1, SMTT(90) DEF Shift
  <1>6. CASE k = 5
    <2>1. 2^k = 32 /\ 2^(k + 1) = 64
      BY <1>6
    <2> QED
      BY <2>1, SMTT(90) DEF Shift
  <1>7. CASE k = 6
    <2>1. 2^k = 64 /\ 2^(k + 1) = 128
      BY <1>7
    <2> QED
      BY <2>1, SMTT(90) DEF Shift
  <1> QED
    BY <1>1, <1>2, <1>3, <1>4, <1>5, <1>6, <1>7

\* Registers with the same high bits have the same highest bit.
LEMMA TopBit ==
  ASSUME NEW x \in Byte, NEW y \in Byte, NEW k \in 0 .. 7, x \div 2^k = y \div 2^k
  PROVE  x \div 128 = y \div 128
  <1> USE DEF Byte
  <1>1. CASE k = 0
    <2>1. 2^k = 1
      BY <1>1
    <2> QED
      BY <2>1
  <1>2. CASE k = 1
    <2>1. 2^k = 2
      BY <1>2
    <2> QED
      BY <2>1
  <1>3. CASE k = 2
    <2>1. 2^k = 4
      BY <1>3
    <2> QED
      BY <2>1
  <1>4. CASE k = 3
    <2>1. 2^k = 8
      BY <1>4
    <2> QED
      BY <2>1
  <1>5. CASE k = 4
    <2>1. 2^k = 16
      BY <1>5
    <2> QED
      BY <2>1
  <1>6. CASE k = 5
    <2>1. 2^k = 32
      BY <1>6
    <2> QED
      BY <2>1
  <1>7. CASE k = 6
    <2>1. 2^k = 64
      BY <1>7
    <2> QED
      BY <2>1
  <1>8. CASE k = 7
    <2>1. 2^k = 128
      BY <1>8
    <2> QED
      BY <2>1
  <1> QED
    BY <1>1, <1>2, <1>3, <1>4, <1>5, <1>6, <1>7, <1>8

\* Bytes with the same bits are the same.
LEMMA SameBits ==
  ASSUME NEW x \in Byte, NEW y \in Byte, \A i \in 0 .. 7 : Bit(x, i) = Bit(y, i)
  PROVE  x = y
  <1> USE DEF Byte
  <1>1. /\ Bit(x, 0) = (x \div 128) % 2 /\ Bit(x, 1) = (x \div 64) % 2
        /\ Bit(x, 2) = (x \div 32) % 2 /\ Bit(x, 3) = (x \div 16) % 2
        /\ Bit(x, 4) = (x \div 8) % 2 /\ Bit(x, 5) = (x \div 4) % 2
        /\ Bit(x, 6) = (x \div 2) % 2 /\ Bit(x, 7) = x % 2
    BY DEF Bit
  <1>2. /\ Bit(y, 0) = (y \div 128) % 2 /\ Bit(y, 1) = (y \div 64) % 2
        /\ Bit(y, 2) = (y \div 32) % 2 /\ Bit(y, 3) = (y \div 16) % 2
        /\ Bit(y, 4) = (y \div 8) % 2 /\ Bit(y, 5) = (y \div 4) % 2
        /\ Bit(y, 6) = (y \div 2) % 2 /\ Bit(y, 7) = y % 2
    BY DEF Bit
  <1>3. /\ Bit(x, 0) = Bit(y, 0) /\ Bit(x, 1) = Bit(y, 1) /\ Bit(x, 2) = Bit(y, 2)
        /\ Bit(x, 3) = Bit(y, 3) /\ Bit(x, 4) = Bit(y, 4) /\ Bit(x, 5) = Bit(y, 5)
        /\ Bit(x, 6) = Bit(y, 6) /\ Bit(x, 7) = Bit(y, 7)
    OBVIOUS
  <1>4. \A z \in Byte :
          /\ z \div 128 = (z \div 128) % 2
          /\ z \div 64 = 2 * (z \div 128) + ((z \div 64) % 2)
          /\ z \div 32 = 2 * (z \div 64) + ((z \div 32) % 2)
          /\ z \div 16 = 2 * (z \div 32) + ((z \div 16) % 2)
    OBVIOUS
  <1>5. \A z \in Byte :
          /\ z \div 8 = 2 * (z \div 16) + ((z \div 8) % 2)
          /\ z \div 4 = 2 * (z \div 8) + ((z \div 4) % 2)
          /\ z \div 2 = 2 * (z \div 4) + ((z \div 2) % 2)
          /\ z = 2 * (z \div 2) + (z % 2)
    OBVIOUS
  <1>6. /\ (x \div 128) % 2 = (y \div 128) % 2 /\ (x \div 64) % 2 = (y \div 64) % 2
        /\ (x \div 32) % 2 = (y \div 32) % 2 /\ (x \div 16) % 2 = (y \div 16) % 2
        /\ (x \div 8) % 2 = (y \div 8) % 2 /\ (x \div 4) % 2 = (y \div 4) % 2
        /\ (x \div 2) % 2 = (y \div 2) % 2 /\ x % 2 = y % 2
    BY <1>3, <1>1, <1>2
  <1>7. x \div 32 = y \div 32
    BY <1>4, <1>6, SMTT(30)
  <1>8. x \div 16 = y \div 16
    BY <1>4, <1>6, <1>7
  <1>9. x \div 4 = y \div 4
    BY <1>5, <1>6, <1>8, SMTT(30)
  <1> QED
    BY <1>5, <1>6, <1>9

LEMMA BitIsBit ==
  ASSUME NEW x \in Byte, NEW i \in 0 .. 7
  PROVE  Bit(x, i) \in 0 .. 1
  BY DEF Bit, Byte

\* The register is defined for every bit.
LEMMA RegisterExists ==
  ASSUME NEW bytes \in Seq(Byte)
  PROVE  LET N == 8 * Len(bytes)
             r == Register(bytes)
         IN  /\ r[0] = 181
             /\ \A n \in 0 .. N - 1 :
                  r[n + 1] = Shifted[r[n]][Bit(bytes[(n \div 8) + 1], n % 8)]
             /\ \A n \in 0 .. N : r[n] \in Byte
  <1> DEFINE N == 8 * Len(bytes)
             In(n) == Bit(bytes[((n - 1) \div 8) + 1], (n - 1) % 8)
             Is(g, m) == g = [n \in 0 .. m |-> IF n = 0 THEN 181 ELSE Shifted[g[n - 1]][In(n)]]
             T == {m \in 0 .. N : \E g : Is(g, m)}
  <1>1. N \in Nat
    OBVIOUS
  <1>2. 0 \in T
    <2> DEFINE g == [n \in 0 .. 0 |-> 181]
    <2>1. g = [n \in 0 .. 0 |-> IF n = 0 THEN 181 ELSE Shifted[g[n - 1]][In(n)]]
      OBVIOUS
    <2>2. Is(g, 0)
      BY <2>1
    <2>3. 0 \in 0 .. N
      BY <1>1
    <2> HIDE DEF g, Is
    <2> QED
      BY <2>2, <2>3
  <1>3. ASSUME NEW m \in T \cap 0 .. N - 1
        PROVE  m + 1 \in T
    <2>1. PICK g : Is(g, m)
      OBVIOUS
    <2> DEFINE h == [n \in 0 .. m + 1 |-> IF n = m + 1 THEN Shifted[g[m]][In(m + 1)] ELSE g[n]]
    <2>2. \A n \in 0 .. m + 1 : h[n] = IF n = 0 THEN 181 ELSE Shifted[h[n - 1]][In(n)]
      <3> HIDE DEF In
      <3>1. \A n \in 0 .. m : g[n] = IF n = 0 THEN 181 ELSE Shifted[g[n - 1]][In(n)]
        BY <2>1
      <3>2. \A n \in 0 .. m : h[n] = g[n]
        BY <1>1
      <3>3. h[m + 1] = Shifted[g[m]][In(m + 1)] /\ m + 1 # 0
        BY <1>1
      <3> HIDE DEF h
      <3> QED
        BY <1>1, <3>1, <3>2, <3>3, SMTT(30)
    <2>3. Is(h, m + 1)
      <3> HIDE DEF In
      <3>1. h = [n \in 0 .. m + 1 |-> h[n]]
        OBVIOUS
      <3> HIDE DEF h
      <3> QED
        BY <2>2, <3>1
    <2>4. m + 1 \in 0 .. N
      BY <1>1
    <2> QED
      BY <2>3, <2>4
  <1>4. N \in T
    <2> HIDE DEF T, N
    <2> QED
      BY <1>1, <1>2, <1>3, Reaches
  <1> DEFINE r == Register(bytes)
  <1>5. Is(r, N)
    BY <1>4 DEF Register
  <1> HIDE DEF r
  <1>6. \A n \in 0 .. N : r[n] = IF n = 0 THEN 181 ELSE Shifted[r[n - 1]][In(n)]
    <2> HIDE DEF In, N
    <2> QED
      BY <1>5
  <1>7. r[0] = 181
    BY <1>1, <1>6
  <1>8. ASSUME NEW n \in 0 .. N - 1
        PROVE  r[n + 1] = Shifted[r[n]][Bit(bytes[(n \div 8) + 1], n % 8)]
    <2>1. n + 1 \in 0 .. N /\ n + 1 # 0 /\ n + 1 - 1 = n
      BY <1>1
    <2>2. r[n + 1] = Shifted[r[n + 1 - 1]][In(n + 1)]
      BY <1>6, <2>1
    <2> QED
      BY <2>1, <2>2
  <1>9. \A n \in 0 .. N : r[n] \in Byte
    <2> SUFFICES ASSUME NEW m \in 0 .. N PROVE r[m] \in Byte
      OBVIOUS
    <2> DEFINE B == {n \in 0 .. N : r[n] \in Byte}
    <2>1. 0 \in B
      BY <1>1, <1>7 DEF Byte
    <2>2. ASSUME NEW n \in B \cap 0 .. m - 1
          PROVE  n + 1 \in B
      <3>1. n \in 0 .. N - 1 /\ n + 1 \in 0 .. N
        BY <1>1
      <3>2. (n \div 8) + 1 \in 1 .. Len(bytes) /\ n % 8 \in 0 .. 7
        BY <3>1
      <3>3. Bit(bytes[(n \div 8) + 1], n % 8) \in 0 .. 1
        BY <3>2, BitIsBit, ElementOfSeq
      <3> QED
        BY <1>8, <3>1, <3>3, ShiftedByte
    <2> HIDE DEF B
    <2>3. m \in B
      BY <1>1, <2>1, <2>2, Reaches
    <2> QED
      BY <2>3 DEF B
  <1> QED
    BY <1>7, <1>8, <1>9 DEF r

\* One byte in which two sequences of bytes differ leaves the registers apart: a
\* difference moves up with each of the eight bits, and does not leave before the
\* last of them is in.
LEMMA ByteTakenIn ==
  ASSUME NEW p \in Seq(Byte), NEW q \in Seq(Byte), Len(q) = Len(p),
         NEW i \in 1 .. Len(p), p[i] # q[i],
         Register(p)[8 * (i - 1)] = Register(q)[8 * (i - 1)]
  PROVE  Register(p)[8 * i] # Register(q)[8 * i]
  <1> DEFINE r(k) == Register(p)[8 * (i - 1) + k]
             s(k) == Register(q)[8 * (i - 1) + k]
             Differ(k) == \E j \in 0 .. k - 1 : Bit(p[i], j) # Bit(q[i], j)
  <1>1. p[i] \in Byte /\ q[i] \in Byte
    BY ElementOfSeq
  <1>2. \A k \in 0 .. 7 : Bit(p[i], k) \in 0 .. 1 /\ Bit(q[i], k) \in 0 .. 1
    BY <1>1, BitIsBit
  <1>3. \A k \in 0 .. 7 : /\ r(k + 1) = Shifted[r(k)][Bit(p[i], k)]
                          /\ s(k + 1) = Shifted[s(k)][Bit(q[i], k)]
    <2> SUFFICES ASSUME NEW k \in 0 .. 7
                 PROVE  /\ r(k + 1) = Shifted[r(k)][Bit(p[i], k)]
                        /\ s(k + 1) = Shifted[s(k)][Bit(q[i], k)]
      OBVIOUS
    <2> DEFINE n == 8 * (i - 1) + k
    <2>1. n \in 0 .. 8 * Len(p) - 1 /\ (n \div 8) + 1 = i /\ n % 8 = k
      OBVIOUS
    <2>2. 8 * (i - 1) + (k + 1) = n + 1
      OBVIOUS
    <2> HIDE DEF n
    <2>3. /\ Register(p)[n + 1] = Shifted[Register(p)[n]][Bit(p[i], k)]
          /\ Register(q)[n + 1] = Shifted[Register(q)[n]][Bit(q[i], k)]
      BY <2>1, RegisterExists
    <2> QED
      BY <2>2, <2>3 DEF n
  <1>4. \A k \in 0 .. 8 : r(k) \in Byte /\ s(k) \in Byte
    <2>1. \A k \in 0 .. 8 : 8 * (i - 1) + k \in 0 .. 8 * Len(p)
      OBVIOUS
    <2> QED
      BY <2>1, RegisterExists
  <1>5. r(0) = s(0)
    OBVIOUS
  <1> HIDE DEF r, s
  <1> DEFINE T == {k \in 0 .. 7 : r(k) \div 2^k = s(k) \div 2^k /\ (Differ(k) => r(k) # s(k))}
  <1>6. 0 \in T
    BY <1>5
  <1>7. \A k \in 0 .. 7 : r(k) \div 2^k = s(k) \div 2^k => r(k) \div 128 = s(k) \div 128
    <2> SUFFICES ASSUME NEW k \in 0 .. 7, r(k) \div 2^k = s(k) \div 2^k
                 PROVE  r(k) \div 128 = s(k) \div 128
      OBVIOUS
    <2>1. r(k) \in Byte /\ s(k) \in Byte
      BY <1>4
    <2> QED
      BY <2>1, TopBit, Zenon
  <1>8. ASSUME NEW k \in 0 .. 7, r(k) \div 2^k = s(k) \div 2^k, Differ(k) => r(k) # s(k)
        PROVE  Differ(k + 1) => r(k + 1) # s(k + 1)
    <2> SUFFICES ASSUME Differ(k + 1) PROVE r(k + 1) # s(k + 1)
      OBVIOUS
    <2>1. r(k) # s(k) \/ Bit(p[i], k) # Bit(q[i], k)
      BY <1>8
    <2>2. r(k) \div 128 = s(k) \div 128
      BY <1>7, <1>8
    <2>3. r(k) \in Byte /\ s(k) \in Byte
      BY <1>4
    <2>4. Bit(p[i], k) \in 0 .. 1 /\ Bit(q[i], k) \in 0 .. 1
          /\ r(k + 1) = Shifted[r(k)][Bit(p[i], k)] /\ s(k + 1) = Shifted[s(k)][Bit(q[i], k)]
      BY <1>2, <1>3
    <2>5. Shifted[r(k)][Bit(p[i], k)] # Shifted[s(k)][Bit(q[i], k)]
      BY <2>1, <2>2, <2>3, <2>4, ShiftedApart
    <2> QED
      BY <2>4, <2>5
  <1>9. ASSUME NEW k \in T \cap 0 .. 7 - 1
        PROVE  k + 1 \in T
    <2>1. r(k + 1) \div 2^(k + 1) = s(k + 1) \div 2^(k + 1)
      <3>1. k \in 0 .. 6 /\ r(k) \div 2^k = s(k) \div 2^k
        OBVIOUS
      <3>2. r(k) \in Byte /\ s(k) \in Byte
        BY <1>4
      <3>3. Bit(p[i], k) \in 0 .. 1 /\ Bit(q[i], k) \in 0 .. 1
            /\ r(k + 1) = Shifted[r(k)][Bit(p[i], k)] /\ s(k + 1) = Shifted[s(k)][Bit(q[i], k)]
        BY <1>2, <1>3
      <3>4. Shifted[r(k)][Bit(p[i], k)] \div 2^(k + 1) = Shifted[s(k)][Bit(q[i], k)] \div 2^(k + 1)
        BY <3>1, <3>2, <3>3, ShiftedHigh, Zenon
      <3> QED
        BY <3>3, <3>4
    <2>2. Differ(k + 1) => r(k + 1) # s(k + 1)
      BY <1>8
    <2> QED
      BY <2>1, <2>2
  <1>10. 7 \in T
    <2> HIDE DEF T
    <2> QED
      BY <1>6, <1>9, Reaches
  <1>11. Differ(7 + 1)
    BY <1>1, SameBits
  <1>12. r(7 + 1) # s(7 + 1)
    <2> HIDE DEF Differ
    <2> QED
      BY <1>8, <1>10, <1>11
  <1>13. 8 * (i - 1) + (7 + 1) = 8 * i
    OBVIOUS
  <1> QED
    BY <1>12, <1>13 DEF r, s

\* While the bytes are the same, so are the registers.
LEMMA RegistersAgree ==
  ASSUME NEW p \in Seq(Byte), NEW q \in Seq(Byte), Len(q) = Len(p),
         NEW i \in 1 .. Len(p), \A j \in 1 .. i - 1 : p[j] = q[j]
  PROVE  Register(p)[8 * (i - 1)] = Register(q)[8 * (i - 1)]
  <1> DEFINE m == 8 * (i - 1)
             T == {n \in 0 .. m : Register(p)[n] = Register(q)[n]}
  <1>1. m \in Nat /\ m <= 8 * Len(p)
    OBVIOUS
  <1>2. 0 \in T
    BY <1>1, RegisterExists
  <1>3. ASSUME NEW n \in T \cap 0 .. m - 1
        PROVE  n + 1 \in T
    <2>1. n \in 0 .. 8 * Len(p) - 1 /\ (n \div 8) + 1 \in 1 .. i - 1 /\ n + 1 \in 0 .. m
      BY <1>1
    <2>2. /\ Register(p)[n + 1] = Shifted[Register(p)[n]][Bit(p[(n \div 8) + 1], n % 8)]
          /\ Register(q)[n + 1] = Shifted[Register(q)[n]][Bit(q[(n \div 8) + 1], n % 8)]
      BY <2>1, RegisterExists
    <2>3. p[(n \div 8) + 1] = q[(n \div 8) + 1]
      BY <2>1
    <2> QED
      BY <2>1, <2>2, <2>3
  <1> HIDE DEF T, m
  <1>4. m \in T
    BY <1>1, <1>2, <1>3, Reaches
  <1> QED
    BY <1>4 DEF T, m

\* Registers that are apart stay so over bytes that are the same.
LEMMA RegistersStayApart ==
  ASSUME NEW p \in Seq(Byte), NEW q \in Seq(Byte), Len(q) = Len(p),
         NEW i \in 1 .. Len(p), \A j \in i + 1 .. Len(p) : p[j] = q[j],
         Register(p)[8 * i] # Register(q)[8 * i]
  PROVE  Register(p)[8 * Len(p)] # Register(q)[8 * Len(p)]
  <1> DEFINE m == 8 * (Len(p) - i)
             T == {n \in 0 .. m : Register(p)[8 * i + n] # Register(q)[8 * i + n]}
  <1>1. m \in Nat
    OBVIOUS
  <1>2. 0 \in T
    <2>1. 8 * i + 0 = 8 * i /\ 0 \in 0 .. m
      OBVIOUS
    <2> QED
      BY <2>1
  <1>3. ASSUME NEW n \in T \cap 0 .. m - 1
        PROVE  n + 1 \in T
    <2> DEFINE k == 8 * i + n
               j == (k \div 8) + 1
    <2>1. k \in 0 .. 8 * Len(p) - 1 /\ j \in i + 1 .. Len(p) /\ n + 1 \in 0 .. m
          /\ k % 8 \in 0 .. 7 /\ k + 1 = 8 * i + (n + 1) /\ k \in 0 .. 8 * Len(p) /\ j \in 1 .. Len(p)
      OBVIOUS
    <2>2. Register(p)[k] # Register(q)[k]
      OBVIOUS
    <2> HIDE DEF k
    <2>3. /\ Register(p)[k + 1] = Shifted[Register(p)[k]][Bit(p[j], k % 8)]
          /\ Register(q)[k + 1] = Shifted[Register(q)[k]][Bit(q[j], k % 8)]
      BY <2>1, RegisterExists, ZenonT(30)
    <2>4. Register(p)[k] \in Byte /\ Register(q)[k] \in Byte
      BY <2>1, RegisterExists
    <2> HIDE DEF j
    <2>5. p[j] = q[j] /\ Bit(p[j], k % 8) \in 0 .. 1
      BY <2>1, ElementOfSeq, BitIsBit
    <2>6. Register(p)[k + 1] # Register(q)[k + 1]
      BY <2>2, <2>3, <2>4, <2>5, ShiftedInjective
    <2> QED
      BY <2>1, <2>6
  <1> HIDE DEF T, m
  <1>4. m \in T
    BY <1>1, <1>2, <1>3, Reaches
  <1>5. 8 * i + m = 8 * Len(p)
    BY DEF m
  <1> QED
    BY <1>4, <1>5 DEF T

\* Two messages that differ in one byte have different checksums.
THEOREM ChecksumTellsOneByte ==
  ASSUME NEW data \in Seq(Byte), NEW i \in 1 .. Len(data), NEW byte \in Byte \ {data[i]}
  PROVE  CalculateChecksum([data EXCEPT ![i] = byte]) # CalculateChecksum(data)
  <1> DEFINE other == [data EXCEPT ![i] = byte]
             p == Append(data, 0)
             q == Append(other, 0)
             N == Len(data)
  <1>1. other \in Seq(Byte) /\ Len(other) = N /\ other[i] = byte
        /\ \A j \in 1 .. N \ {i} : other[j] = data[j]
    BY ExceptSeq
  <1> HIDE DEF other
  <1>2. p \in Seq(Byte) /\ Len(p) = N + 1 /\ p[N + 1] = 0 /\ \A j \in 1 .. N : p[j] = data[j]
    BY AppendProperties DEF Byte
  <1>3. q \in Seq(Byte) /\ Len(q) = N + 1 /\ q[N + 1] = 0 /\ \A j \in 1 .. N : q[j] = other[j]
    BY <1>1, AppendProperties DEF Byte
  <1> HIDE DEF p, q
  <1>4. i \in 1 .. Len(p) /\ p[i] # q[i] /\ N \in Nat
        /\ (\A j \in 1 .. i - 1 : p[j] = q[j]) /\ (\A j \in i + 1 .. Len(p) : p[j] = q[j])
    <2>1. \A j \in 1 .. N + 1 : j # i => p[j] = q[j]
      BY <1>1, <1>2, <1>3
    <2> QED
      BY <1>1, <1>2, <1>3, <2>1
  <1>5. Register(p)[8 * i] # Register(q)[8 * i]
    BY <1>2, <1>3, <1>4, RegistersAgree, ByteTakenIn
  <1>6. Register(p)[8 * Len(p)] # Register(q)[8 * Len(p)]
    BY <1>2, <1>3, <1>4, <1>5, RegistersStayApart
  <1> DEFINE a == Register(p)[8 * (N + 1)]
             b == Register(q)[8 * (N + 1)]
  <1>7. a # b
    BY <1>2, <1>6
  <1>8. a \in 0 .. 255 /\ b \in 0 .. 255
    <2>1. 8 * (N + 1) \in 0 .. 8 * Len(p) /\ 8 * (N + 1) \in 0 .. 8 * Len(q)
      BY <1>2, <1>3, <1>4
    <2>2. Register(p)[8 * (N + 1)] \in Byte
      BY <1>2, <2>1, RegisterExists
    <2>3. Register(q)[8 * (N + 1)] \in Byte
      BY <1>3, <2>1, RegisterExists
    <2> QED
      BY <2>2, <2>3 DEF Byte
  <1>9. /\ CalculateChecksum(data) = IF (a \div 2) % 2 = 1 THEN a - 2 ELSE a + 2
        /\ CalculateChecksum(other) = IF (b \div 2) % 2 = 1 THEN b - 2 ELSE b + 2
    BY <1>1 DEF CalculateChecksum, p, q
  <1> HIDE DEF a, b
  <1>10. CalculateChecksum(other) # CalculateChecksum(data)
    BY <1>7, <1>8, <1>9
  <1> QED
    BY <1>10 DEF other

\* A frame with one byte changed, be it of the body or the checksum itself, is
\* refused by a reader that has read its header: with the checksum of the code,
\* no noise of this kind is taken for a message.
THEOREM OneChangedByteIsRefused ==
  ASSUME \A s \in Seq(Byte) : Checksum(s) = CalculateChecksum(s),
         NEW b \in Bodies, NEW i \in 3 .. Len(b) + 3, NEW byte \in Byte \ {Frame(b)[i]},
         ListenerInv, at = "body", need = Len(b) + 2,
         buffer = SubSeq([Frame(b) EXCEPT ![i] = byte], 3, Len(b) + 4)
  PROVE  Ready /\ ~Valid
  <1> DEFINE f == [Frame(b) EXCEPT ![i] = byte]
             c == Contents(b)
  <1>1. /\ Frame(b) \in Seq(Byte) /\ Len(Frame(b)) = Len(b) + 4 /\ Len(b) \in Nat
        /\ \A j \in 1 .. Len(b) : Frame(b)[j + 2] = b[j]
        /\ Frame(b)[Len(b) + 3] = Checksum(c)
    BY FrameLayout
  <1>2. /\ f \in Seq(Byte) /\ Len(f) = Len(b) + 4 /\ f[i] = byte
        /\ \A j \in 1 .. Len(b) + 4 : j # i => f[j] = Frame(b)[j]
    BY <1>1, ExceptSeq
  <1> HIDE DEF f
  <1>3. Len(buffer) = Len(b) + 2 /\ \A j \in 1 .. Len(b) + 2 : buffer[j] = f[j + 2]
    <2>1. /\ buffer = SubSeq(f, 3, Len(b) + 4)
          /\ Len(b) + 4 \in Nat /\ Len(b) + 4 - 3 + 1 = Len(b) + 2
          /\ \A j \in 1 .. Len(b) + 2 : 3 + j - 1 = j + 2
      BY <1>1 DEF f
    <2> QED
      BY <1>1, <1>2, <2>1, Pieces
  <1>4. Ready
    BY <1>1, <1>3 DEF Ready
  <1>5. /\ Data \in Seq(Byte) /\ Len(Data) = Len(b) + 2 /\ Data[1] = Len(b) + 2
        /\ \A j \in 1 .. Len(b) + 1 : Data[j + 1] = buffer[j]
    BY <1>1, <1>4, BodyRead
  <1>6. \A j \in 1 .. Len(b) + 1 : Data[j + 1] = f[j + 2]
    <2> TAKE j \in 1 .. Len(b) + 1
    <2>1. j \in 1 .. Len(b) + 2
      BY <1>1
    <2> QED
      BY <1>3, <1>5, <2>1
  <1>7. Last(Data) = f[Len(b) + 3]
    <2>1. Len(b) + 1 \in 1 .. Len(b) + 1 /\ Len(b) + 1 + 1 = Len(b) + 2 /\ Len(b) + 1 + 2 = Len(b) + 3
      BY <1>1
    <2> QED
      BY <1>5, <1>6, <2>1 DEF Last
  <1>8. SUFFICES ASSUME Valid PROVE FALSE
    BY <1>4
  <1>9. /\ Front(Data) \in Seq(Byte) /\ Len(Front(Data)) = Len(b) + 1
        /\ \A j \in 1 .. Len(b) + 1 : Front(Data)[j] = Data[j]
    <2>1. need - 1 = Len(b) + 1
      BY <1>1
    <2> QED
      BY <1>4, <1>8, <2>1, TakenHasBytes
  <1>10. /\ c \in Seq(Byte) /\ Len(c) = Len(b) + 1 /\ c[1] = Len(b) + 2
         /\ \A j \in 1 .. Len(b) : c[j + 1] = b[j]
    BY ContentsLayout
  <1> HIDE DEF c
  <1>11. \A j \in 1 .. Len(b) + 1 : c[j] = IF j = 1 THEN Len(b) + 2 ELSE Frame(b)[j + 1]
    <2> TAKE j \in 1 .. Len(b) + 1
    <2>1. CASE j = 1
      BY <1>10, <2>1
    <2>2. CASE j # 1
      <3>1. j - 1 \in 1 .. Len(b) /\ (j - 1) + 1 = j /\ (j - 1) + 2 = j + 1
        BY <1>1, <2>2
      <3> QED
        BY <1>1, <1>10, <2>2, <3>1
    <2> QED
      BY <2>1, <2>2
  <1>12. \A j \in 1 .. Len(b) + 1 : Front(Data)[j] = IF j = 1 THEN Len(b) + 2 ELSE f[j + 1]
    <2> TAKE j \in 1 .. Len(b) + 1
    <2>1. CASE j = 1
      BY <1>5, <1>9, <2>1
    <2>2. CASE j # 1
      <3>1. j - 1 \in 1 .. Len(b) + 1 /\ (j - 1) + 1 = j /\ (j - 1) + 2 = j + 1
        BY <1>1, <2>2
      <3> QED
        BY <1>6, <1>9, <2>2, <3>1
    <2> QED
      BY <2>1, <2>2
  <1>13. CASE i = Len(b) + 3
    <2>1. \A j \in 1 .. Len(b) + 1 : Front(Data)[j] = c[j]
      BY <1>1, <1>2, <1>11, <1>12, <1>13
    <2>2. Front(Data) = c
      BY <1>9, <1>10, <2>1, SeqEqual
    <2>3. Last(Data) = byte /\ byte # Checksum(c)
      BY <1>1, <1>2, <1>7, <1>13 DEF c
    <2> QED
      BY <1>8, <2>2, <2>3 DEF Valid
  <1>14. CASE i # Len(b) + 3
    <2> DEFINE d == [c EXCEPT ![i - 1] = byte]
    <2>1. i - 1 \in 2 .. Len(b) + 1 /\ i - 1 \in 1 .. Len(c) /\ (i - 1) + 1 = i
      BY <1>1, <1>10, <1>14
    <2>2. /\ d \in Seq(Byte) /\ Len(d) = Len(b) + 1 /\ d[i - 1] = byte
          /\ \A j \in 1 .. Len(b) + 1 : j # i - 1 => d[j] = c[j]
      BY <1>10, <2>1, ExceptSeq
    <2> HIDE DEF d
    <2>3. \A j \in 1 .. Len(b) + 1 : Front(Data)[j] = d[j]
      <3> TAKE j \in 1 .. Len(b) + 1
      <3>1. CASE j = i - 1
        BY <1>2, <1>12, <2>1, <2>2, <3>1
      <3>2. CASE j # i - 1
        <4>1. j + 1 # i /\ j + 1 \in 1 .. Len(b) + 4
          BY <1>1, <3>2
        <4> QED
          BY <1>2, <1>11, <1>12, <2>2, <3>2, <4>1, SMTT(30)
      <3> QED
        BY <3>1, <3>2
    <2>4. Front(Data) = d
      BY <1>9, <2>2, <2>3, SeqEqual
    <2>5. c[i - 1] # byte
      <3>1. c[i - 1] = Frame(b)[(i - 1) + 1]
        BY <1>11, <2>1
      <3> QED
        BY <2>1, <3>1
    <2>6. CalculateChecksum(d) # CalculateChecksum(c)
      BY <1>10, <2>1, <2>5, ChecksumTellsOneByte DEF d
    <2>7. Last(Data) = Checksum(c)
      <3>1. Len(b) + 3 \in 1 .. Len(b) + 4
        BY <1>1
      <3> QED
        BY <1>1, <1>2, <1>7, <1>14, <3>1 DEF c
    <2>8. Checksum(c) = CalculateChecksum(c) /\ Checksum(d) = CalculateChecksum(d)
      BY <1>10, <2>2
    <2>9. Last(Data) = Checksum(d)
      BY <1>8, <2>4 DEF Valid
    <2> QED
      BY <2>6, <2>7, <2>8, <2>9
  <1> QED
    BY <1>13, <1>14

----------------------------------------------------------------------------
(* Searches *)

\* A search that has returned has closed its transport; while it waits, a
\* search for one spa has either found none or knows that it is complete.
SearchInv ==
  /\ task \in {"waiting", "returned"}
  /\ task = "returned" => transport # "open"
  /\ spas \in Seq(Spas)
  /\ ListedOnce
  /\ once /\ spas # <<>> => complete

\* Appending what is not yet in a sequence keeps its elements different.
LEMMA AppendNew ==
  ASSUME NEW s \in Seq(Spas), IsInjective(s), NEW d \in Spas, ~Contains(s, d)
  PROVE  IsInjective(Append(s, d))
  <1> DEFINE t == Append(s, d)
  <1>1. DOMAIN s = 1 .. Len(s) /\ Len(s) \in Nat /\ DOMAIN t = 1 .. Len(s) + 1
    OBVIOUS
  <1>2. \A i \in 1 .. Len(s) : t[i] = s[i] /\ t[i] # d
    BY DEF Contains
  <1>3. t[Len(s) + 1] = d
    OBVIOUS
  <1> HIDE DEF t
  <1>4. \A i, j \in 1 .. Len(s) : s[i] = s[j] => i = j
    BY <1>1 DEF IsInjective
  <1>5. ASSUME NEW i \in 1 .. Len(s) + 1, NEW j \in 1 .. Len(s) + 1, t[i] = t[j]
        PROVE  i = j
    <2>1. CASE i \in 1 .. Len(s) /\ j \in 1 .. Len(s)
      BY <1>2, <1>4, <1>5, <2>1
    <2>2. CASE i \notin 1 .. Len(s) \/ j \notin 1 .. Len(s)
      BY <1>1, <1>2, <1>3, <1>5, <2>2
    <2> QED
      BY <2>1, <2>2
  <1> QED
    BY <1>1, <1>5 DEF IsInjective, t

\* Every callback and every step of the task keeps the invariant.
LEMMA SearchKept ==
  ASSUME SearchInv, [SearchNext]_searchVars
  PROVE  SearchInv'
  <1>1. CASE Broadcast
    BY <1>1 DEF Broadcast, SearchInv, ListedOnce
  <1>2. CASE Return
    BY <1>2 DEF Return, SearchInv, ListedOnce
  <1>3. CASE ConnectionLost
    BY <1>3 DEF ConnectionLost, SearchInv, ListedOnce
  <1>4. CASE IntervalPasses
    BY <1>4 DEF IntervalPasses, SearchInv, ListedOnce
  <1>5. ASSUME NEW d \in Spas \cup {Undecodable}, Receive(d)
        PROVE  SearchInv'
    <2>1. UNCHANGED <<once, task, transport>>
      BY <1>5 DEF Receive
    <2>2. CASE d = Undecodable
      BY <1>5, <2>1, <2>2 DEF Receive, SearchInv, ListedOnce
    <2>3. CASE d # Undecodable
      <3>1. complete' = (complete \/ once)
            /\ spas' = IF Contains(spas, d) THEN spas ELSE Append(spas, d)
        BY <1>5, <2>3 DEF Receive
      <3>2. d \in Spas
        BY <2>3
      <3>3. spas' \in Seq(Spas) /\ IsInjective(spas')
        <4>1. CASE Contains(spas, d)
          BY <3>1, <4>1 DEF SearchInv, ListedOnce
        <4>2. CASE ~Contains(spas, d)
          <5>1. IsInjective(Append(spas, d))
            BY <3>2, <4>2, AppendNew DEF SearchInv, ListedOnce
          <5> QED
            BY <3>1, <3>2, <4>2, <5>1 DEF SearchInv
        <4> QED
          BY <4>1, <4>2
      <3>4. once' => complete'
        BY <2>1, <3>1
      <3> QED
        BY <2>1, <3>3, <3>4 DEF SearchInv, ListedOnce
    <2> QED
      BY <2>2, <2>3
  <1>6. CASE UNCHANGED searchVars
    BY <1>6 DEF searchVars, SearchInv, ListedOnce
  <1> QED
    BY <1>1, <1>2, <1>3, <1>4, <1>5, <1>6 DEF SearchNext

\* A search begins with nothing found.
LEMMA SearchBegins ==
  ASSUME SearchInit
  PROVE  SearchInv
  <1>1. ListedOnce
    BY DEF SearchInit, ListedOnce, IsInjective
  <1>2. spas \in Seq(Spas)
    BY DEF SearchInit
  <1> QED
    BY <1>1, <1>2 DEF SearchInit, SearchInv

\* No spa is listed twice, however many answers come in, in whatever order.
THEOREM SpasListedOnce == SearchSpec => []ListedOnce
  <1>1. SearchInv => ListedOnce
    BY DEF SearchInv
  <1> QED
    BY <1>1, SearchBegins, SearchKept, PTL DEF SearchSpec

\* A search that has returned is silent: the timer may be due already, or fall
\* due before connection_lost() cancels it, and sends nothing.
THEOREM SearchesEndSilent == SearchSpec => SilentAfterReturn
  <1>1. SearchInv /\ [SearchNext]_searchVars => (task = "returned" => broadcasts' = broadcasts)
    BY DEF SearchInv, SearchNext, Broadcast, Return, ConnectionLost,
       IntervalPasses, Receive, searchVars
  <1>2. SearchInv /\ [SearchNext]_searchVars => [task = "returned" => broadcasts' = broadcasts]_searchVars
    BY <1>1
  <1> QED
    BY <1>2, SearchBegins, SearchKept, PTL DEF SearchSpec, SilentAfterReturn

\* A search for one spa that has found one lets no time pass, and sends nothing,
\* before it returns.
THEOREM OneSpaIsEnough == SearchSpec => OneIsEnough
  <1>1. SearchInv /\ [SearchNext]_searchVars
          => (once /\ spas # <<>> /\ task = "waiting" => UNCHANGED <<elapsed, broadcasts>>)
    BY DEF SearchInv, SearchNext, Broadcast, Return, ConnectionLost,
       IntervalPasses, Receive, searchVars
  <1> QED
    BY <1>1, SearchBegins, SearchKept, PTL DEF SearchSpec, OneIsEnough

\* A broadcast needs an interval that has passed while the search still waits: the
\* timer that is due when it returns finds the transport closed.
Paced == task = "waiting" => broadcasts + (IF handle = "due" THEN 1 ELSE 0) <= elapsed + 1

\* A search sends one broadcast to begin with, and then at most one in every
\* interval of its time.
THEOREM SearchTypeCorrect == SearchSpec => []SearchTypeOK
  <1> USE DiscoveryAssumption DEF DiscoveryAssumption
  <1>1. SearchInit => SearchTypeOK /\ Paced
    <2> SUFFICES ASSUME SearchInit PROVE SearchTypeOK /\ Paced
      OBVIOUS
    <2>1. spas \in Seq(Spas)
      BY SearchBegins DEF SearchInv
    <2>2. elapsed \in 0 .. SearchTime /\ broadcasts \in 1 .. SearchTime + 1 /\ datagrams \in 0 .. MaxDatagrams
      BY DEF SearchInit
    <2>3. SearchTypeOK
      BY <2>1, <2>2 DEF SearchInit, SearchTypeOK
    <2>4. Paced
      BY DEF SearchInit, Paced
    <2> QED
      BY <2>3, <2>4
  <1>2. SearchInv /\ SearchTypeOK /\ Paced /\ [SearchNext]_searchVars => SearchTypeOK' /\ Paced'
    <2> SUFFICES ASSUME SearchInv, SearchTypeOK, Paced, [SearchNext]_searchVars PROVE SearchTypeOK' /\ Paced'
      OBVIOUS
    <2>0. elapsed \in 0 .. SearchTime /\ broadcasts \in 1 .. SearchTime + 1 /\ spas' \in Seq(Spas)
      BY SearchKept DEF SearchTypeOK, SearchInv
    <2>1. CASE Broadcast
      <3>1. CASE broadcasts' = broadcasts
        <4>0. ~(broadcasts' = broadcasts + 1)
          BY <2>0, <3>1
        <4>1. /\ handle = "due" /\ UNCHANGED <<once, transport, task, elapsed, datagrams>>
              /\ \/ complete' = TRUE /\ handle' = "none"
                 \/ handle' = "none" /\ complete' = complete
          BY <2>1, <4>0, Zenon DEF Broadcast
        <4>5. complete' \in BOOLEAN
          BY <4>1, Zenon DEF SearchTypeOK
        <4>2. SearchTypeOK'
          BY <2>0, <3>1, <4>1, <4>5 DEF SearchTypeOK
        <4>3. Paced'
          BY <2>0, <3>1, <4>1 DEF Paced
        <4> QED
          BY <4>2, <4>3
      <3>2. CASE broadcasts' # broadcasts
        <4>1. broadcasts' = broadcasts + 1 /\ handle' = "armed" /\ task = "waiting" /\ handle = "due"
              /\ UNCHANGED <<once, transport, complete, task, elapsed, datagrams>>
          BY <2>1, <3>2 DEF Broadcast, SearchInv, SearchTypeOK
        <4>2. broadcasts + 1 <= elapsed + 1
          BY <4>1 DEF Paced
        <4> QED
          BY <2>0, <4>1, <4>2 DEF SearchTypeOK, Paced
      <3> QED
        BY <3>1, <3>2
    <2>2. CASE Return
      BY <2>0, <2>2 DEF Return, SearchTypeOK, Paced
    <2>3. CASE ConnectionLost
      BY <2>0, <2>3 DEF ConnectionLost, SearchTypeOK, Paced
    <2>4. CASE IntervalPasses
      <3>1. elapsed' = (IF task = "waiting" THEN elapsed + 1 ELSE elapsed)
            /\ (task = "waiting" => elapsed < SearchTime) /\ handle # "due"
        BY <2>0, <2>4 DEF IntervalPasses
      <3> QED
        BY <2>0, <2>4, <3>1 DEF IntervalPasses, SearchTypeOK, Paced
    <2>5. ASSUME NEW d \in Spas \cup {Undecodable}, Receive(d)
          PROVE  SearchTypeOK' /\ Paced'
      <3>1. complete' \in BOOLEAN /\ datagrams' \in 0 .. MaxDatagrams
        BY <2>5 DEF Receive, SearchTypeOK
      <3> QED
        BY <2>0, <2>5, <3>1 DEF Receive, SearchTypeOK, Paced
    <2>6. CASE UNCHANGED searchVars
      BY <2>0, <2>6 DEF searchVars, SearchTypeOK, Paced
    <2> QED
      BY <2>1, <2>2, <2>3, <2>4, <2>5, <2>6 DEF SearchNext
  <1> QED
    BY <1>1, <1>2, SearchBegins, SearchKept, PTL DEF SearchSpec
============================================================================
