------------------------- MODULE SpaSettingsProofs -------------------------
(***************************************************************************)
(* What holds of SpaSettings for every device configuration, every status  *)
(* update, and any number of calls.                                        *)
(***************************************************************************)
EXTENDS SpaSettings, FiniteSetTheorems, SequenceTheorems, TLAPS

(***************************************************************************)
(* The controls that there may be                                          *)
(***************************************************************************)

\* The controls that a client may have, whatever a spa says of itself.
Count == [pump |-> 8, light |-> 4, circulation |-> 1, blower |-> 2, aux |-> 4,
          mister |-> 3, heat |-> 1, range |-> 1]
Possible == {c \in [type : DOMAIN Count, index : 0 .. 7] : c.index < Count[c.type]}

ControlsKnown == controls \subseteq Possible

\* The codes of the types leave room for the controls that each may have.
LEMMA CodesApart ==
  ASSUME NEW c \in Possible, NEW d \in Possible, ToggleCode(c) = ToggleCode(d)
  PROVE  c = d
  <1>1. /\ c.type \in DOMAIN Count /\ c.index \in 0 .. 7 /\ c.index < Count[c.type]
        /\ d.type \in DOMAIN Count /\ d.index \in 0 .. 7 /\ d.index < Count[d.type]
    BY DEF Possible
  <1>2. FirstCode[c.type] + c.index = FirstCode[d.type] + d.index
    BY DEF ToggleCode
  <1>3. DOMAIN Count = {"pump", "light", "circulation", "blower", "aux", "mister", "heat", "range"}
    BY DEF Count
  <1>4. c.type = d.type /\ c.index = d.index
    BY <1>1, <1>2, <1>3 DEF Count, FirstCode
  <1> QED
    BY <1>4 DEF Possible

\* A configuration names at most as many controls of a type as there are bits.
LEMMA StatesCounted ==
  ASSUME NEW data, NEW t \in DOMAIN OnStates(data)
  PROVE  t \in DOMAIN Count /\ DOMAIN OnStates(data)[t] = 1 .. Count[t]
  <1>1. DOMAIN OnStates(data) = {"pump", "light", "circulation", "blower", "aux", "mister"}
    BY DEF OnStates
  <1>2. CASE t = "pump"
    <2> DEFINE low  == ByteParser(data[0], 0, 4, 2)
               high == <<Bits(data[1], 0, 2), Bits(data[1], 6, 2),
                         Bits(data[1], 4, 2), Bits(data[1], 2, 2)>>
    <2>1. low = [i \in 1 .. 4 |-> Bits(data[0], (i - 1) * 2 + 0, 2)]
      BY DEF ByteParser
    <2>2. DOMAIN (low \o high) = 1 .. 8
      <3> DEFINE S == {low[i] : i \in 1 .. 4} \cup {high[i] : i \in 1 .. 4}
      <3>1. low \in [1 .. 4 -> S]
        BY <2>1
      <3>2. low \in Seq(S) /\ Len(low) = 4
        <4> HIDE DEF low, S
        <4>1. [1 .. 4 -> S] \in {[1 .. n -> S] : n \in Nat}
          BY 4 \in Nat, Zenon
        <4>2. [1 .. 4 -> S] \subseteq Seq(S)
          BY <4>1, SeqDef, Zenon
        <4>3. low \in Seq(S)
          BY <3>1, <4>2, Zenon
        <4> QED
          BY <3>1, <4>3
      <3>3. high \in Seq(S) /\ Len(high) = 4
        OBVIOUS
      <3> HIDE DEF low, high, S
      <3>4. Len(low \o high) = 8 /\ low \o high \in Seq(S)
        BY <3>2, <3>3, ConcatProperties
      <3> QED
        BY <3>4
    <2>3. OnStates(data)["pump"] = low \o high
      BY DEF OnStates
    <2> QED
      BY <1>2, <2>2, <2>3 DEF Count
  <1>3. CASE t = "light"
    BY <1>3 DEF OnStates, Count, ByteParser
  <1>4. CASE t = "circulation"
    BY <1>4 DEF OnStates, Count
  <1>5. CASE t = "blower"
    BY <1>5 DEF OnStates, Count, ByteParser
  <1>6. CASE t = "aux"
    BY <1>6 DEF OnStates, Count, ByteParser
  <1>7. CASE t = "mister"
    BY <1>7 DEF OnStates, Count, ByteParser
  <1> QED
    BY <1>1, <1>2, <1>3, <1>4, <1>5, <1>6, <1>7

LEMMA ControlsPossible ==
  ASSUME NEW data
  PROVE  ControlsOf(data) \subseteq Possible
  <1>1. ASSUME NEW t \in DOMAIN OnStates(data), NEW j \in DOMAIN OnStates(data)[t]
        PROVE  [type |-> t, index |-> j - 1] \in Possible
    <2>1. t \in DOMAIN Count /\ j \in 1 .. Count[t] /\ Count[t] \in 1 .. 8
      BY <1>1, StatesCounted DEF Count
    <2> QED
      BY <2>1 DEF Possible
  <1>2. /\ [type |-> "heat", index |-> 0] \in Possible
        /\ [type |-> "range", index |-> 0] \in Possible
    BY DEF Possible, Count
  <1> QED
    BY <1>1, <1>2 DEF ControlsOf

(***************************************************************************)
(* The bits of a byte                                                      *)
(***************************************************************************)

\* A byte in which one bit is turned.
Flipped(b, bit) == IF Bits(b, bit, 1) = 0 THEN b + 2^bit ELSE b - 2^bit

\* The byte of eight digits.
Digits == [0 .. 7 -> 0 .. 1]
Byte(c) == c[0] + 2 * c[1] + 4 * c[2] + 8 * c[3] + 16 * c[4] + 32 * c[5] + 64 * c[6] + 128 * c[7]

LEMMA DigitsOfByte ==
  ASSUME NEW c \in Digits
  PROVE  /\ Byte(c) \in 0 .. 255
         /\ \A o \in 0 .. 7 : Bits(Byte(c), o, 1) = c[o]
         /\ \A o \in 0 .. 6 : Bits(Byte(c), o, 2) = c[o] + 2 * c[o + 1]
  <1> DEFINE b == Byte(c)
  <1>1. /\ c[0] \in 0 .. 1 /\ c[1] \in 0 .. 1 /\ c[2] \in 0 .. 1 /\ c[3] \in 0 .. 1
        /\ c[4] \in 0 .. 1 /\ c[5] \in 0 .. 1 /\ c[6] \in 0 .. 1 /\ c[7] \in 0 .. 1
    BY DEF Digits
  <1>2. b \in 0 .. 255
    BY <1>1 DEF Byte
  <1>3. Bits(b, 0, 1) = c[0] /\ Bits(b, 0, 2) = c[0] + 2 * c[1]
    <2>1. b \div 2^0 = c[0] + 2 * c[1] + 4 * c[2] + 8 * c[3] + 16 * c[4] + 32 * c[5] + 64 * c[6] + 128 * c[7]
      BY <1>1 DEF Byte
    <2> QED
      BY <1>1, <2>1 DEF Bits
  <1>4. Bits(b, 1, 1) = c[1] /\ Bits(b, 1, 2) = c[1] + 2 * c[2]
    <2>1. b \div 2^1 = c[1] + 2 * c[2] + 4 * c[3] + 8 * c[4] + 16 * c[5] + 32 * c[6] + 64 * c[7]
      BY <1>1 DEF Byte
    <2> QED
      BY <1>1, <2>1 DEF Bits
  <1>5. Bits(b, 2, 1) = c[2] /\ Bits(b, 2, 2) = c[2] + 2 * c[3]
    <2>1. b \div 2^2 = c[2] + 2 * c[3] + 4 * c[4] + 8 * c[5] + 16 * c[6] + 32 * c[7]
      BY <1>1 DEF Byte
    <2> QED
      BY <1>1, <2>1 DEF Bits
  <1>6. Bits(b, 3, 1) = c[3] /\ Bits(b, 3, 2) = c[3] + 2 * c[4]
    <2>1. b \div 2^3 = c[3] + 2 * c[4] + 4 * c[5] + 8 * c[6] + 16 * c[7]
      BY <1>1 DEF Byte
    <2> QED
      BY <1>1, <2>1 DEF Bits
  <1>7. Bits(b, 4, 1) = c[4] /\ Bits(b, 4, 2) = c[4] + 2 * c[5]
    <2>1. b \div 2^4 = c[4] + 2 * c[5] + 4 * c[6] + 8 * c[7]
      BY <1>1 DEF Byte
    <2> QED
      BY <1>1, <2>1 DEF Bits
  <1>8. Bits(b, 5, 1) = c[5] /\ Bits(b, 5, 2) = c[5] + 2 * c[6]
    <2>1. b \div 2^5 = c[5] + 2 * c[6] + 4 * c[7]
      BY <1>1 DEF Byte
    <2> QED
      BY <1>1, <2>1 DEF Bits
  <1>9. Bits(b, 6, 1) = c[6] /\ Bits(b, 6, 2) = c[6] + 2 * c[7]
    <2>1. b \div 2^6 = c[6] + 2 * c[7]
      BY <1>1 DEF Byte
    <2> QED
      BY <1>1, <2>1 DEF Bits
  <1>10. Bits(b, 7, 1) = c[7] 
    <2>1. b \div 2^7 = c[7]
      BY <1>1 DEF Byte
    <2> QED
      BY <1>1, <2>1 DEF Bits
  <1> QED
    BY <1>2, <1>3, <1>4, <1>5, <1>6, <1>7, <1>8, <1>9, <1>10

LEMMA ByteOfDigits ==
  ASSUME NEW b \in 0 .. 255
  PROVE  /\ [o \in 0 .. 7 |-> Bits(b, o, 1)] \in Digits
         /\ b = Byte([o \in 0 .. 7 |-> Bits(b, o, 1)])
  BY DEF Bits, Digits, Byte

LEMMA FlippedByte ==
  ASSUME NEW b \in 0 .. 255, NEW bit \in 0 .. 7
  PROVE  /\ Flipped(b, bit) \in 0 .. 255
         /\ \A o \in 0 .. 7 : Bits(Flipped(b, bit), o, 1) = IF o = bit THEN 1 - Bits(b, o, 1) ELSE Bits(b, o, 1)
         /\ \A o \in 0 .. 6 : bit \notin {o, o + 1} => Bits(Flipped(b, bit), o, 2) = Bits(b, o, 2)
  <1> DEFINE c == [o \in 0 .. 7 |-> Bits(b, o, 1)]
             d == [c EXCEPT ![bit] = 1 - @]
  <1>1. c \in Digits /\ b = Byte(c) /\ c[bit] = Bits(b, bit, 1) /\ \A o \in 0 .. 7 : c[o] = Bits(b, o, 1)
    BY ByteOfDigits
  <1> HIDE DEF c
  <1>2. d \in Digits /\ d[bit] = 1 - c[bit] /\ \A o \in 0 .. 7 : o # bit => d[o] = c[o]
    BY <1>1 DEF Digits
  <1>3. Flipped(b, bit) = Byte(d)
    <2>1. bit \in {0, 1, 2, 3, 4, 5, 6, 7}
      OBVIOUS
    <2>2. Flipped(b, bit) = IF c[bit] = 0 THEN b + 2^bit ELSE b - 2^bit
      BY <1>1 DEF Flipped
    <2>3. c[bit] \in 0 .. 1
      BY <1>1 DEF Digits
    <2> HIDE DEF d
    <2>4. Flipped(b, bit) = b + 2^bit * (d[bit] - c[bit])
      BY <1>2, <2>2, <2>3
    <2>5. \A o \in 0 .. 7 : c[o] \in 0 .. 1 /\ d[o] \in 0 .. 1
      BY <1>1, <1>2 DEF Digits
    <2>6. CASE bit = 0
      BY <1>1, <1>2, <2>2, <2>3, <2>5, <2>6 DEF Byte
    <2>7. CASE bit = 1
      BY <1>1, <1>2, <2>2, <2>3, <2>5, <2>7 DEF Byte
    <2>8. CASE bit = 2
      BY <1>1, <1>2, <2>2, <2>3, <2>5, <2>8 DEF Byte
    <2>9. CASE bit = 3
      BY <1>1, <1>2, <2>2, <2>3, <2>5, <2>9 DEF Byte
    <2>10. CASE bit = 4
      BY <1>1, <1>2, <2>2, <2>3, <2>5, <2>10 DEF Byte
    <2>11. CASE bit = 5
      BY <1>1, <1>2, <2>2, <2>3, <2>5, <2>11 DEF Byte
    <2>12. CASE bit = 6
      BY <1>1, <1>2, <2>2, <2>3, <2>5, <2>12 DEF Byte
    <2>13. CASE bit = 7
      BY <1>1, <1>2, <2>2, <2>3, <2>5, <2>13 DEF Byte
    <2> QED
      BY <2>1, <2>6, <2>7, <2>8, <2>9, <2>10, <2>11, <2>12, <2>13
  <1> HIDE DEF d
  <1> QED
    BY <1>1, <1>2, <1>3, DigitsOfByte
(***************************************************************************)
(* The bits that controls show                                             *)
(***************************************************************************)

\* Where a status update shows the state of a control.
Place(c) ==
  CASE c.type = "pump"        -> [byte |-> IF c.index < 4 THEN 11 ELSE 12,
                                  from |-> 2 * (IF c.index < 4 THEN c.index ELSE c.index - 4),
                                  width |-> 2]
    [] c.type = "light"       -> [byte |-> 14, from |-> 2 * c.index + 1, width |-> 1]
    [] c.type = "circulation" -> [byte |-> 13, from |-> 1, width |-> 1]
    [] c.type = "blower"      -> [byte |-> 13, from |-> 2 * c.index + 1, width |-> 2]
    [] c.type = "aux"         -> [byte |-> 15, from |-> c.index + 3, width |-> 1]
    [] c.type = "mister"      -> [byte |-> 15, from |-> c.index, width |-> 1]
    [] c.type = "heat"        -> [byte |-> 5, from |-> 0, width |-> 2]
    [] c.type = "range"       -> [byte |-> 10, from |-> 2, width |-> 1]

LEMMA PlaceExists ==
  ASSUME NEW c \in Possible
  PROVE  /\ Place(c).byte \in ControlBytes /\ Place(c).width \in 1 .. 2
         /\ Place(c).from \in 0 .. 8 - Place(c).width
  <1>1. c.type \in DOMAIN Count /\ c.index \in 0 .. 7 /\ c.index < Count[c.type]
    BY DEF Possible
  <1>2. c.type \in {"pump", "light", "circulation", "blower", "aux", "mister", "heat", "range"}
    BY <1>1 DEF Count
  <1>3. CASE c.type = "pump"
    BY <1>1, <1>3 DEF Place, Count, ControlBytes
  <1>4. CASE c.type = "light"
    BY <1>1, <1>4 DEF Place, Count, ControlBytes
  <1>5. c.type \in {"circulation", "heat", "range"} => c.index = 0
    BY <1>1 DEF Count
  <1>8. CASE c.type = "circulation"
    BY <1>1, <1>5, <1>8 DEF Place, ControlBytes
  <1>9. CASE c.type = "heat"
    BY <1>1, <1>5, <1>9 DEF Place, ControlBytes
  <1>10. CASE c.type = "range"
    BY <1>1, <1>5, <1>10 DEF Place, ControlBytes
  <1>6. CASE c.type = "blower"
    BY <1>1, <1>6 DEF Place, Count, ControlBytes
  <1>7. CASE c.type = "aux"
    BY <1>1, <1>7 DEF Place, Count, ControlBytes
  <1>11. CASE c.type = "mister"
    BY <1>1, <1>11 DEF Place, Count, ControlBytes
  <1> QED
    BY <1>2, <1>3, <1>4, <1>6, <1>7, <1>8, <1>9, <1>10, <1>11

LEMMA UpperDigit ==
  ASSUME NEW b \in 0 .. 255, NEW o \in 0 .. 6
  PROVE  Bits(b, o, 2) \div 2 = Bits(b, o + 1, 1)
  <1> DEFINE c == [i \in 0 .. 7 |-> Bits(b, i, 1)]
  <1>1. c \in Digits /\ b = Byte(c)
    BY ByteOfDigits
  <1>3. c[o + 1] = Bits(b, o + 1, 1)
    <2>1. o + 1 \in 0 .. 7
      OBVIOUS
    <2> QED
      BY <2>1
  <1> HIDE DEF c
  <1>2. Bits(b, o, 2) = c[o] + 2 * c[o + 1] /\ c[o] \in 0 .. 1 /\ c[o + 1] \in 0 .. 1
    BY <1>1, DigitsOfByte DEF Digits
  <1> QED
    BY <1>2, <1>3

\* The states of the pumps, which take two bytes.
LEMMA PumpStates ==
  ASSUME NEW data, NEW i \in 0 .. 7
  PROVE  StatesIn(data).pump[i + 1] = IF i < 4 THEN Bits(data[11], 2 * i, 2)
                                               ELSE Bits(data[12], 2 * (i - 4), 2)
  <1> DEFINE low == ByteParser(data[11], 0, 4, 2)
             high == ByteParser(data[12], 0, 4, 2)
             S == {low[k] : k \in 1 .. 4} \cup {high[k] : k \in 1 .. 4}
  <1>1. /\ low = [k \in 1 .. 4 |-> Bits(data[11], (k - 1) * 2 + 0, 2)]
        /\ high = [k \in 1 .. 4 |-> Bits(data[12], (k - 1) * 2 + 0, 2)]
    BY DEF ByteParser
  <1>2. low \in [1 .. 4 -> S] /\ high \in [1 .. 4 -> S]
    BY <1>1
  <1>3. StatesIn(data).pump = low \o high
    BY DEF StatesIn
  <1>4. /\ i < 4 => low[i + 1] = Bits(data[11], 2 * i, 2)
        /\ i >= 4 => high[i + 1 - 4] = Bits(data[12], 2 * (i - 4), 2)
    <2>1. i < 4 => i + 1 \in 1 .. 4 /\ (i + 1 - 1) * 2 + 0 = 2 * i
      OBVIOUS
    <2>2. i >= 4 => i + 1 - 4 \in 1 .. 4 /\ (i + 1 - 4 - 1) * 2 + 0 = 2 * (i - 4)
      OBVIOUS
    <2> HIDE DEF low, high
    <2> QED
      BY <1>1, <2>1, <2>2
  <1> HIDE DEF low, high, S
  <1>5. [1 .. 4 -> S] \subseteq Seq(S)
    <2>1. [1 .. 4 -> S] \in {[1 .. n -> S] : n \in Nat}
      BY 4 \in Nat, Zenon
    <2> QED
      BY <2>1, SeqDef, Zenon
  <1>6. low \in Seq(S) /\ high \in Seq(S) /\ Len(low) = 4 /\ Len(high) = 4
    BY <1>2, <1>5
  <1>7. (low \o high)[i + 1] = IF i + 1 <= 4 THEN low[i + 1] ELSE high[i + 1 - 4]
    BY <1>6, ConcatProperties
  <1> QED
    BY <1>3, <1>4, <1>7

LEMMA StateInPlace ==
  ASSUME NEW c \in Possible, NEW data \in Status
  PROVE  StateOf(c, data) = Bits(data[Place(c).byte], Place(c).from, Place(c).width)
  <1>1. c.type \in DOMAIN Count /\ c.index \in 0 .. 7 /\ c.index < Count[c.type]
    BY DEF Possible
  <1>2. c.type \in {"pump", "light", "circulation", "blower", "aux", "mister", "heat", "range"}
    BY <1>1 DEF Count
  <1>3. \A p \in StatusBytes : data[p] \in 0 .. 255
    BY DEF Status
  <1>4. CASE c.type = "pump"
    BY <1>1, <1>4, PumpStates DEF StateOf, Place
  <1>5. CASE c.type = "light"
    <2>1. c.index \in 0 .. 3
      BY <1>1, <1>5 DEF Count
    <2>2. StateOf(c, data) = ByteParser(data[14], 0, 4, 2)[c.index + 1] \div 2
      BY <1>5, <2>1 DEF StateOf, StatesIn
    <2>3. ByteParser(data[14], 0, 4, 2)[c.index + 1] = Bits(data[14], 2 * c.index, 2)
      <3>1. PICK k \in 1 .. 4 : k = c.index + 1 /\ (k - 1) * 2 + 0 = 2 * c.index
        BY <2>1
      <3>2. ByteParser(data[14], 0, 4, 2)[k] = Bits(data[14], (k - 1) * 2 + 0, 2)
        BY <3>1 DEF ByteParser
      <3> QED
        BY <3>1, <3>2, Zenon
    <2>4. Bits(data[14], 2 * c.index, 2) \div 2 = Bits(data[14], 2 * c.index + 1, 1)
      BY <1>3, <2>1, UpperDigit DEF StatusBytes, ControlBytes
    <2> QED
      BY <1>5, <2>2, <2>3, <2>4 DEF Place
  <1>6. CASE c.type = "circulation"
    <2>1. c.index = 0
      BY <1>1, <1>6 DEF Count
    <2>2. StateOf(c, data) = Bits(data[13], 0, 2) \div 2
      BY <1>6, <2>1 DEF StateOf, StatesIn
    <2>3. Bits(data[13], 0, 2) \div 2 = Bits(data[13], 0 + 1, 1)
      BY <1>3, UpperDigit DEF StatusBytes, ControlBytes
    <2> QED
      BY <1>6, <2>2, <2>3 DEF Place
  <1>7. CASE c.type = "blower"
    <2>1. PICK k \in 1 .. 2 : k = c.index + 1 /\ (k - 1) * 2 + 1 = 2 * c.index + 1
      BY <1>1, <1>7 DEF Count
    <2>2. StateOf(c, data) = ByteParser(data[13], 1, 2, 2)[c.index + 1]
      BY <1>7 DEF StateOf, StatesIn
    <2>3. ByteParser(data[13], 1, 2, 2)[k] = Bits(data[13], (k - 1) * 2 + 1, 2)
      BY <2>1 DEF ByteParser
    <2> QED
      <3>1. StateOf(c, data) = Bits(data[13], 2 * c.index + 1, 2)
        BY <2>1, <2>2, <2>3, Zenon
      <3> QED
        BY <1>7, <3>1 DEF Place
  <1>8. CASE c.type = "aux"
    <2>1. PICK k \in 1 .. 4 : k = c.index + 1 /\ (k - 1) * 1 + 3 = c.index + 3
      BY <1>1, <1>8 DEF Count
    <2>2. StateOf(c, data) = ByteParser(data[15], 3, 4, 1)[c.index + 1]
      BY <1>8 DEF StateOf, StatesIn
    <2>3. ByteParser(data[15], 3, 4, 1)[k] = Bits(data[15], (k - 1) * 1 + 3, 1)
      BY <2>1 DEF ByteParser
    <2> QED
      <3>1. StateOf(c, data) = Bits(data[15], c.index + 3, 1)
        BY <2>1, <2>2, <2>3, Zenon
      <3> QED
        BY <1>8, <3>1 DEF Place
  <1>9. CASE c.type = "mister"
    <2>1. PICK k \in 1 .. 3 : k = c.index + 1 /\ (k - 1) * 1 + 0 = c.index
      BY <1>1, <1>9 DEF Count
    <2>2. StateOf(c, data) = ByteParser(data[15], 0, 3, 1)[c.index + 1]
      BY <1>9 DEF StateOf, StatesIn
    <2>3. ByteParser(data[15], 0, 3, 1)[k] = Bits(data[15], (k - 1) * 1 + 0, 1)
      BY <2>1 DEF ByteParser
    <2> QED
      <3>1. StateOf(c, data) = Bits(data[15], c.index, 1)
        BY <2>1, <2>2, <2>3, Zenon
      <3> QED
        BY <1>9, <3>1 DEF Place
  <1>10. CASE c.type = "heat"
    <2>1. c.index = 0
      BY <1>1, <1>10 DEF Count
    <2>2. StateOf(c, data) = Bits(data[5], 0, 2)
      BY <1>10, <2>1 DEF StateOf, StatesIn
    <2> QED
      BY <1>10, <2>2 DEF Place
  <1>11. CASE c.type = "range"
    <2>1. c.index = 0
      BY <1>1, <1>11 DEF Count
    <2>2. StateOf(c, data) = Bits(data[10], 2, 1)
      BY <1>11, <2>1 DEF StateOf, StatesIn
    <2> QED
      BY <1>11, <2>2 DEF Place
  <1> QED
    BY <1>2, <1>4, <1>5, <1>6, <1>7, <1>8, <1>9, <1>10, <1>11

LEMMA StateBounded ==
  ASSUME NEW c \in Possible, NEW data \in Status
  PROVE  StateOf(c, data) \in 0 .. 3
  <1> DEFINE place == Place(c)
  <1>1. /\ place.byte \in StatusBytes /\ place.width \in 1 .. 2 /\ place.from \in 0 .. 8 - place.width
    BY PlaceExists DEF StatusBytes
  <1>2. StateOf(c, data) = Bits(data[place.byte], place.from, place.width)
    BY StateInPlace
  <1>3. data[place.byte] \in 0 .. 255
    BY <1>1 DEF Status
  <1> HIDE DEF place
  <1> DEFINE b == data[place.byte]
             d == [o \in 0 .. 7 |-> Bits(b, o, 1)]
  <1>4. d \in Digits /\ b = Byte(d)
    BY <1>3, ByteOfDigits
  <1> HIDE DEF b, d
  <1>5. CASE place.width = 1
    <2>1. place.from \in 0 .. 7
      BY <1>1, <1>5
    <2>2. Bits(b, place.from, 1) \in 0 .. 1
      BY <1>4, <2>1, DigitsOfByte DEF Digits
    <2> QED
      BY <1>2, <1>5, <2>2 DEF b
  <1>6. CASE place.width = 2
    <2>1. place.from \in 0 .. 6 /\ place.from \in 0 .. 7 /\ place.from + 1 \in 0 .. 7
      BY <1>1, <1>6
    <2>2. Bits(b, place.from, 2) = d[place.from] + 2 * d[place.from + 1]
      BY <1>4, <2>1, DigitsOfByte
    <2>3. d[place.from] \in 0 .. 1 /\ d[place.from + 1] \in 0 .. 1
      BY <1>4, <2>1 DEF Digits
    <2>4. Bits(b, place.from, 2) \in 0 .. 3
      BY <2>2, <2>3
    <2> QED
      BY <1>2, <1>6, <2>4 DEF b
  <1> QED
    BY <1>1, <1>5, <1>6

LEMMA FlippedStatus ==
  ASSUME NEW data \in Status, NEW p \in StatusBytes, NEW bit \in 0 .. 7
  PROVE  /\ Flip(data, p, bit) \in Status
         /\ Flip(data, p, bit)[p] = Flipped(data[p], bit)
         /\ \A q \in StatusBytes : q # p => Flip(data, p, bit)[q] = data[q]
  <1>1. data[p] \in 0 .. 255
    BY DEF Status
  <1>2. Flipped(data[p], bit) \in 0 .. 255
    BY <1>1, FlippedByte
  <1>3. Flip(data, p, bit) = [data EXCEPT ![p] = Flipped(data[p], bit)]
    BY DEF Flip, Flipped, Status
  <1> QED
    BY <1>2, <1>3 DEF Status

\* A bit shows in the controls whose places it lies in.
Shows(c, p, bit) == Place(c).byte = p /\ Place(c).from <= bit /\ bit < Place(c).from + Place(c).width

LEMMA OthersUnchanged ==
  ASSUME NEW c \in Possible, NEW data \in Status, NEW p \in StatusBytes, NEW bit \in 0 .. 7,
         ~Shows(c, p, bit)
  PROVE  StateOf(c, Flip(data, p, bit)) = StateOf(c, data)
  <1> DEFINE new == Flip(data, p, bit)
             place == Place(c)
  <1>1. /\ place.byte \in StatusBytes /\ place.width \in 1 .. 2 /\ place.from \in 0 .. 8 - place.width
    BY PlaceExists DEF StatusBytes
  <1>2. /\ new \in Status /\ new[p] = Flipped(data[p], bit)
        /\ \A q \in StatusBytes : q # p => new[q] = data[q]
    BY FlippedStatus
  <1>3. /\ StateOf(c, data) = Bits(data[place.byte], place.from, place.width)
        /\ StateOf(c, new) = Bits(new[place.byte], place.from, place.width)
    BY <1>2, StateInPlace
  <1>4. data[p] \in 0 .. 255
    BY DEF Status
  <1>5. ~(place.byte = p /\ place.from <= bit /\ bit < place.from + place.width)
    BY DEF Shows
  <1> HIDE DEF new, place
  <1>6. CASE place.byte # p
    BY <1>1, <1>2, <1>3, <1>6 DEF new
  <1>7. CASE place.byte = p /\ place.width = 1
    <2>1. place.from \in 0 .. 7 /\ place.from # bit
      BY <1>1, <1>5, <1>7
    <2>2. Bits(Flipped(data[p], bit), place.from, 1) = Bits(data[p], place.from, 1)
      BY <1>4, <2>1, FlippedByte
    <2> QED
      BY <1>2, <1>3, <1>7, <2>2 DEF new
  <1>8. CASE place.byte = p /\ place.width = 2
    <2>1. place.from \in 0 .. 6 /\ bit \notin {place.from, place.from + 1}
      BY <1>1, <1>5, <1>8
    <2>2. Bits(Flipped(data[p], bit), place.from, 2) = Bits(data[p], place.from, 2)
      BY <1>4, <2>1, FlippedByte
    <2> QED
      BY <1>2, <1>3, <1>8, <2>2 DEF new
  <1> QED
    BY <1>1, <1>6, <1>7, <1>8

\* No two places overlap, but for those of the circulation pump and the first blower.
LEMMA PlacesApart ==
  ASSUME NEW c \in Possible, NEW d \in Possible, NEW p, NEW bit \in 0 .. 7,
         Shows(c, p, bit), Shows(d, p, bit)
  PROVE  \/ c = d
         \/ p = 13 /\ bit = 1 /\ c \in Shared /\ d \in Shared
  <1>1. /\ c.type \in DOMAIN Count /\ c.index \in 0 .. 7 /\ c.index < Count[c.type]
        /\ d.type \in DOMAIN Count /\ d.index \in 0 .. 7 /\ d.index < Count[d.type]
        /\ c = [type |-> c.type, index |-> c.index] /\ d = [type |-> d.type, index |-> d.index]
    BY DEF Possible
  <1>2. DOMAIN Count = {"pump", "light", "circulation", "blower", "aux", "mister", "heat", "range"}
    BY DEF Count
  <1>3. /\ Place(c).byte = Place(d).byte /\ Place(c).from <= bit /\ bit < Place(c).from + Place(c).width
        /\ Place(d).from <= bit /\ bit < Place(d).from + Place(d).width /\ p = Place(c).byte
    BY DEF Shows
  <1>4. CASE c.type = d.type
    <2>1. c.index = d.index
      BY <1>1, <1>2, <1>3, <1>4 DEF Place, Count
    <2> QED
      BY <1>1, <1>4, <2>1
  <1>5. CASE c.type # d.type
    BY <1>1, <1>2, <1>3, <1>5 DEF Place, Count, Shared
  <1> QED
    BY <1>4, <1>5

(***************************************************************************)
(* The types                                                               *)
(***************************************************************************)

LEMMA KnownIsStatus ==
  ASSUME TypeOK
  PROVE  Known \in Status
  <1>1. [p \in StatusBytes |-> 0] \in Status
    BY DEF Status
  <1> QED
    BY <1>1 DEF Known, TypeOK

\* What a limit can be, and so what a temperature can be that is let through.
LEMMA LetThroughFits ==
  ASSUME TypeOK, NEW t \in Temperatures, t <= Maximum
  PROVE  Encoded(t) \in 0 .. 255
  <1> DEFINE r == TemperatureRange(Known)
             high == limits[r].high
  <1>1. t \in 0 .. 510
    BY SettingsAssumption
  <1>2. r \in 0 .. 1
    <2>1. Known[10] \in 0 .. 255
      BY KnownIsStatus DEF Status, StatusBytes, ControlBytes
    <2> QED
      BY <2>1 DEF TemperatureRange, Bits
  <1>3. high \in 0 .. 255
    <2>1. CASE limits = DefaultLimits
      BY <1>2, <2>1 DEF DefaultLimits
    <2>2. CASE limits = Limits
      BY <1>2, <2>2, SettingsAssumption
    <2> QED
      BY <2>1, <2>2 DEF TypeOK
  <1> HIDE DEF high, r
  <1>4. CASE Unit(Known) = "celsius"
    <2>1. t <= (20 * (high - 32) + 9) \div 18
      BY <1>4 DEF Maximum, ToCelsius, high, r
    <2>2. t <= 248
      BY <1>1, <1>3, <2>1
    <2> QED
      BY <1>1, <1>4, <2>2 DEF Encoded
  <1>5. CASE Unit(Known) # "celsius"
    BY <1>1, <1>5 DEF Encoded
  <1> QED
    BY <1>4, <1>5

\* The messages that the calls send.
LEMMA SentIsMessage ==
  /\ \A v \in 0 .. 255 : [kind |-> "temperature", value |-> v] \in Message
  /\ [kind |-> "range"] \in Message
  /\ \A u \in {"fahrenheit", "celsius"} : [kind |-> "unit", value |-> u] \in Message
  /\ \A h, m \in 0 .. 255, b \in BOOLEAN :
       [kind |-> "time", hour |-> h, minute |-> m, is24 |-> b] \in Message
  BY DEF Message

LEMMA Sent ==
  ASSUME toSpa \in Seq(Message), NEW m \in Message, Sends(m)
  PROVE  toSpa' = Append(toSpa, m) /\ toSpa' \in Seq(Message)
  BY DEF Sends

\* The clock of a status, set.
LEMMA ClockSet ==
  ASSUME NEW data \in Status, NEW hour \in 0 .. 255, NEW minute \in 0 .. 255
  PROVE  /\ [data EXCEPT ![3] = hour, ![4] = minute] \in Status
         /\ [data EXCEPT ![3] = hour, ![4] = minute][3] = hour
         /\ [data EXCEPT ![3] = hour, ![4] = minute][4] = minute
         /\ \A q \in StatusBytes \ {3, 4} : [data EXCEPT ![3] = hour, ![4] = minute][q] = data[q]
  BY DEF Status, StatusBytes

\* The bits of the settings, turned: each turns its own setting, and no other.
LEMMA SettingTurned ==
  ASSUME NEW data \in Status
  PROVE  /\ Flip(data, 9, 0) \in Status
         /\ Unit(Flip(data, 9, 0)) # Unit(data) /\ Is24(Flip(data, 9, 0)) = Is24(data)
         /\ \A q \in StatusBytes \ {9} : Flip(data, 9, 0)[q] = data[q]
         /\ Flip(data, 9, 1) \in Status
         /\ Unit(Flip(data, 9, 1)) = Unit(data) /\ Is24(Flip(data, 9, 1)) = ~Is24(data)
         /\ \A q \in StatusBytes \ {9} : Flip(data, 9, 1)[q] = data[q]
         /\ Flip(data, 10, 2) \in Status
         /\ TemperatureRange(Flip(data, 10, 2)) = 1 - TemperatureRange(data)
         /\ \A q \in StatusBytes \ {10} : Flip(data, 10, 2)[q] = data[q]
  <1>1. 9 \in StatusBytes /\ 10 \in StatusBytes /\ 0 \in 0 .. 7 /\ 1 \in 0 .. 7 /\ 2 \in 0 .. 7
    BY DEF StatusBytes, ControlBytes
  <1>2. data[9] \in 0 .. 255 /\ data[10] \in 0 .. 255
    BY <1>1 DEF Status
  <1> DEFINE u == Flip(data, 9, 0)
             f == Flip(data, 9, 1)
             t == Flip(data, 10, 2)
  <1>3. u \in Status /\ u[9] = Flipped(data[9], 0) /\ \A q \in StatusBytes \ {9} : u[q] = data[q]
    BY <1>1, FlippedStatus
  <1>4. f \in Status /\ f[9] = Flipped(data[9], 1) /\ \A q \in StatusBytes \ {9} : f[q] = data[q]
    BY <1>1, FlippedStatus
  <1>5. t \in Status /\ t[10] = Flipped(data[10], 2) /\ \A q \in StatusBytes \ {10} : t[q] = data[q]
    BY <1>1, FlippedStatus
  <1> HIDE DEF u, f, t
  <1>6. /\ Bits(u[9], 0, 1) = 1 - Bits(data[9], 0, 1) /\ Bits(u[9], 1, 1) = Bits(data[9], 1, 1)
        /\ Bits(f[9], 0, 1) = Bits(data[9], 0, 1) /\ Bits(f[9], 1, 1) = 1 - Bits(data[9], 1, 1)
        /\ Bits(t[10], 2, 1) = 1 - Bits(data[10], 2, 1)
    <2>1. \A b \in 0 .. 255, bit \in 0 .. 7, o \in 0 .. 7 :
            Bits(Flipped(b, bit), o, 1) = IF o = bit THEN 1 - Bits(b, o, 1) ELSE Bits(b, o, 1)
      BY FlippedByte
    <2>2. /\ Bits(u[9], 0, 1) = 1 - Bits(data[9], 0, 1)
          /\ Bits(u[9], 1, 1) = Bits(data[9], 1, 1)
      BY <1>1, <1>2, <1>3, <2>1
    <2>3. /\ Bits(f[9], 0, 1) = Bits(data[9], 0, 1)
          /\ Bits(f[9], 1, 1) = 1 - Bits(data[9], 1, 1)
      BY <1>1, <1>2, <1>4, <2>1
    <2>4. Bits(t[10], 2, 1) = 1 - Bits(data[10], 2, 1)
      BY <1>1, <1>2, <1>5, <2>1
    <2> QED
      BY <2>2, <2>3, <2>4
  <1>7. Bits(data[9], 0, 1) \in 0 .. 1 /\ Bits(data[9], 1, 1) \in 0 .. 1
    BY <1>2 DEF Bits
  <1>8. Unit(u) # Unit(data) /\ Unit(f) = Unit(data)
    BY <1>6, <1>7 DEF Unit
  <1>9. Is24(u) = Is24(data)
    BY <1>6, Zenon DEF Is24
  <1>10. Is24(f) = ~Is24(data)
    <2>1. (Bits(f[9], 1, 1) = 1) <=> ~(Bits(data[9], 1, 1) = 1)
      BY <1>6, <1>7
    <2> QED
      BY <2>1, Zenon DEF Is24
  <1>11. TemperatureRange(t) = 1 - TemperatureRange(data)
    BY <1>6 DEF TemperatureRange
  <1> QED
    BY <1>3, <1>4, <1>5, <1>8, <1>9, <1>10, <1>11, Zenon DEF u, f, t

\* What the spa makes of a message is a status again.
LEMMA TakenIsStatus ==
  ASSUME SpaTakes, spa \in Status, Head(toSpa) \in Message
  PROVE  spa' \in Status
  <1> DEFINE m == Head(toSpa)
  <1>1. m \in Message
    OBVIOUS
  <1>2. {3, 4, 9, 10, 20} \subseteq StatusBytes
    BY DEF StatusBytes, ControlBytes
  <1>3. CASE m.kind = "temperature"
    <2>1. spa' = [spa EXCEPT ![20] = m.value] /\ m.value \in 0 .. 255
      BY <1>1, <1>3 DEF SpaTakes, Message
    <2> QED
      BY <1>2, <2>1 DEF Status
  <1>4. CASE m.kind = "range"
    <2>1. spa' = Flip(spa, 10, 2)
      BY <1>4 DEF SpaTakes
    <2> QED
      BY <2>1, SettingTurned
  <1>5. CASE m.kind = "unit"
    <2>1. spa' = spa \/ \E raw \in {r[20] : r \in Reports} :
                          spa' = Flip([spa EXCEPT ![20] = raw], 9, 0)
      BY <1>5 DEF SpaTakes
    <2>2. ASSUME NEW raw \in {r[20] : r \in Reports}
          PROVE  [spa EXCEPT ![20] = raw] \in Status
      <3>1. raw \in 0 .. 255
        BY <1>2, SettingsAssumption
      <3> QED
        BY <1>2, <3>1 DEF Status
    <2> QED
      BY <2>1, <2>2, SettingTurned
  <1>6. CASE m.kind = "time"
    <2>1. m.hour \in 0 .. 255 /\ m.minute \in 0 .. 255
      BY <1>1, <1>6 DEF Message
    <2> DEFINE new == [spa EXCEPT ![3] = m.hour, ![4] = m.minute]
    <2>2. spa' = new \/ spa' = Flip(new, 9, 1)
      BY <1>6, Zenon DEF SpaTakes
    <2>3. new \in Status
      BY <2>1, ClockSet
    <2> HIDE DEF new
    <2> QED
      BY <2>2, <2>3, SettingTurned
  <1> QED
    BY <1>1, <1>3, <1>4, <1>5, <1>6 DEF Message

\* A step that leaves what the client knows alone.
LEMMA StepKeepsTypes ==
  ASSUME TypeOK, UNCHANGED client, spa' \in Status, toSpa' \in Seq(Message),
         toClient' \in Seq(Report), DOMAIN goal' = Fields,
         used' = used \/ \E kind \in Bounds : used' = [used EXCEPT ![kind] = @ + 1]
  PROVE  TypeOK'
  <1>1. UNCHANGED <<previous, limits, controls>> /\ Known' = Known
    BY DEF client, Known
  <1>2. used' \in [Bounds -> Nat]
    <2>1. used \in [Bounds -> Nat]
      BY DEF TypeOK
    <2> QED
      BY <2>1
  <1> QED
    BY <1>1, <1>2 DEF TypeOK

\* A call leaves all else alone.
LEMMA CallKeepsTypes ==
  ASSUME TypeOK, Calls, toSpa' \in Seq(Message), DOMAIN goal' = Fields
  PROVE  TypeOK'
  <1>1. UNCHANGED <<spa, toClient, client>> /\ used' = [used EXCEPT !["event"] = @ + 1]
    BY DEF Calls, Spend
  <1>2. spa' \in Status /\ toClient' \in Seq(Report) /\ "event" \in Bounds
    BY <1>1 DEF TypeOK, Bounds
  <1> QED
    BY <1>1, <1>2, StepKeepsTypes

LEMMA ExpectDomain ==
  ASSUME NEW sets, NEW reads, Expect(sets, reads)
  PROVE  DOMAIN goal' = Fields
  BY DEF Expect

(***************************************************************************)
(* What becomes of a setting                                               *)
(***************************************************************************)

\* The messages in a queue that change a setting, and what one of them makes of it
\* at a spa with a given status.
Changers(f, queue) == {i \in DOMAIN queue : f \in Changes[queue[i].kind]}

Makes(f, m, data) ==
  CASE f = "unit"   -> m.value
    [] f = "range"  -> 1 - TemperatureRange(data)
    [] f = "target" -> IF Unit(data) = "celsius" THEN m.value ELSE 2 * m.value
    [] f = "hour"   -> m.hour
    [] f = "minute" -> m.minute
    [] f = "is24"   -> m.is24

\* The last of the messages that change a setting makes it what it should be.
Arrives(f, queue, data, g) ==
  /\ Changers(f, queue) = {} => SettingsIn(data)[f] = g
  /\ \A i \in Changers(f, queue) :
       (\A j \in Changers(f, queue) : j <= i) => Makes(f, queue[i], data) = g

\* A goal that was informed arrives.  A toggle is sent only when no other is on its
\* way, and a temperature is meant in the unit in which it arrives.
SettingsInv ==
  /\ \A f \in Fields : goal[f] # None => Arrives(f, toSpa, spa, goal[f])
  /\ goal["range"] # None => \A i, j \in Changers("range", toSpa) : i = j
  /\ goal["target"] # None => Changers("unit", toSpa) = {}

LEMMA SettingsFields ==
  ASSUME NEW data
  PROVE  /\ SettingsIn(data)["unit"] = Unit(data)
         /\ SettingsIn(data)["range"] = TemperatureRange(data)
         /\ SettingsIn(data)["target"] = TargetTemperature(data)
         /\ SettingsIn(data)["hour"] = data[3] /\ SettingsIn(data)["minute"] = data[4]
         /\ SettingsIn(data)["is24"] = Is24(data)
  BY Zenon DEF SettingsIn

\* The temperature range has two values.
LEMMA RangeIsOneOfTwo ==
  ASSUME NEW data \in Status
  PROVE  TemperatureRange(data) \in 0 .. 1
  <1>1. data[10] \in 0 .. 255
    BY DEF Status, StatusBytes, ControlBytes
  <1> QED
    BY <1>1 DEF TemperatureRange, Bits

\* A status in which a setting is the same takes messages the same way.
Same(f, old, new) ==
  /\ SettingsIn(new)[f] = SettingsIn(old)[f]
  /\ f = "target" => Unit(new) = Unit(old)

LEMMA MakesSameElse ==
  ASSUME NEW f \in Fields \ {"range"}, NEW old, NEW new, NEW m,
         f = "target" => Unit(new) = Unit(old)
  PROVE  Makes(f, m, new) = Makes(f, m, old)
  <1>3. CASE f = "target"
    BY <1>3, Zenon DEF Makes
  <1>4. CASE f = "unit"
    BY <1>4, Zenon DEF Makes
  <1>5. CASE f = "hour"
    BY <1>5, Zenon DEF Makes
  <1>6. CASE f = "minute"
    BY <1>6, Zenon DEF Makes
  <1>7. CASE f = "is24"
    BY <1>7, Zenon DEF Makes
  <1> QED
    BY <1>3, <1>4, <1>5, <1>6, <1>7 DEF Fields

LEMMA SameMakes ==
  ASSUME NEW f \in Fields, NEW old, NEW new, Same(f, old, new), NEW m
  PROVE  Makes(f, m, new) = Makes(f, m, old)
  <1>1. CASE f = "range"
    <2>1. TemperatureRange(new) = TemperatureRange(old)
      BY <1>1, SettingsFields DEF Same
    <2> QED
      BY <1>1, <2>1, Zenon DEF Makes
  <1>2. CASE f # "range"
    BY <1>2, MakesSameElse DEF Same
  <1> QED
    BY <1>1, <1>2

LEMMA SameArrives ==
  ASSUME NEW f \in Fields, NEW queue, NEW g, NEW old, NEW new, Same(f, old, new),
         Arrives(f, queue, old, g)
  PROVE  Arrives(f, queue, new, g)
  <1>1. \A m : Makes(f, m, new) = Makes(f, m, old)
    BY SameMakes
  <1> QED
    BY <1>1 DEF Arrives, Same

\* A message that is sent is the last one to change what it changes.
LEMMA AppendedChangers ==
  ASSUME NEW f, NEW queue \in Seq(Message), NEW m \in Message
  PROVE  /\ Append(queue, m)[Len(queue) + 1] = m
         /\ \A i \in DOMAIN queue : Append(queue, m)[i] = queue[i] /\ i \in 1 .. Len(queue)
         /\ f \in Changes[m.kind] =>
              Changers(f, Append(queue, m)) = Changers(f, queue) \cup {Len(queue) + 1}
         /\ f \notin Changes[m.kind] => Changers(f, Append(queue, m)) = Changers(f, queue)
  <1> DEFINE new == Append(queue, m)
  <1>1. /\ Len(queue) \in Nat /\ DOMAIN queue = 1 .. Len(queue)
        /\ DOMAIN new = 1 .. Len(queue) + 1
        /\ new[Len(queue) + 1] = m /\ \A i \in 1 .. Len(queue) : new[i] = queue[i]
    OBVIOUS
  <1> HIDE DEF new
  <1>2. ASSUME NEW i
        PROVE  i \in Changers(f, new) <=>
                 i \in Changers(f, queue) \/ (i = Len(queue) + 1 /\ f \in Changes[m.kind])
    <2>1. CASE i = Len(queue) + 1
      BY <1>1, <2>1 DEF Changers
    <2>2. CASE i # Len(queue) + 1
      <3>1. i \in DOMAIN new <=> i \in DOMAIN queue
        BY <1>1, <2>2
      <3> QED
        BY <1>1, <2>2, <3>1 DEF Changers
    <2> QED
      BY <2>1, <2>2
  <1>3. /\ f \in Changes[m.kind] => Changers(f, new) = Changers(f, queue) \cup {Len(queue) + 1}
        /\ f \notin Changes[m.kind] => Changers(f, new) = Changers(f, queue)
    BY <1>2
  <1> QED
    BY <1>1, <1>3 DEF new

LEMMA OtherArrives ==
  ASSUME NEW f, NEW queue \in Seq(Message), NEW m \in Message, NEW data, NEW g,
         f \notin Changes[m.kind], Arrives(f, queue, data, g)
  PROVE  Arrives(f, Append(queue, m), data, g)
  <1>1. Changers(f, Append(queue, m)) = Changers(f, queue)
    BY AppendedChangers
  <1>2. \A i \in Changers(f, queue) : Append(queue, m)[i] = queue[i]
    BY AppendedChangers DEF Changers
  <1> QED
    BY <1>1, <1>2 DEF Arrives

LEMMA SentArrives ==
  ASSUME NEW f, NEW queue \in Seq(Message), NEW m \in Message, NEW data, NEW g,
         f \in Changes[m.kind], Makes(f, m, data) = g
  PROVE  Arrives(f, Append(queue, m), data, g)
  <1> DEFINE new == Append(queue, m)
             last == Len(queue) + 1
  <1>1. Changers(f, new) = Changers(f, queue) \cup {last} /\ new[last] = m
    BY AppendedChangers
  <1>2. \A i \in Changers(f, queue) : i < last
    BY DEF Changers
  <1>3. last \in Nat
    OBVIOUS
  <1> HIDE DEF new, last
  <1>4. ASSUME NEW i \in Changers(f, new), \A j \in Changers(f, new) : j <= i
        PROVE  i = last
    <2>1. last <= i
      BY <1>1, <1>4
    <2>2. CASE i \in Changers(f, queue)
      <3>1. i \in Nat
        BY <2>2 DEF Changers
      <3> QED
        BY <1>2, <1>3, <2>1, <2>2, <3>1
    <2> QED
      BY <1>1, <2>2
  <1>5. Arrives(f, new, data, g)
    BY <1>1, <1>4 DEF Arrives
  <1> QED
    BY <1>5 DEF new

\* The first message is taken: it was the last one to change a setting, or another
\* one will come.
LEMMA TakenArrives ==
  ASSUME NEW f \in Fields, NEW queue \in Seq(Message), queue # <<>>, NEW g, NEW old, NEW new,
         Arrives(f, queue, old, g),
         SettingsIn(new)[f] = IF f \in Changes[Head(queue).kind]
                              THEN Makes(f, Head(queue), old) ELSE SettingsIn(old)[f],
         f = "target" => Unit(new) = Unit(old),
         f = "range" => \A i, j \in Changers(f, queue) : i = j
  PROVE  Arrives(f, Tail(queue), new, g)
  <1> DEFINE rest == Tail(queue)
  <1>1. /\ Len(queue) \in Nat \ {0} /\ DOMAIN queue = 1 .. Len(queue)
        /\ DOMAIN rest = 1 .. Len(queue) - 1 /\ Head(queue) = queue[1]
        /\ \A i \in 1 .. Len(queue) - 1 : rest[i] = queue[i + 1]
    OBVIOUS
  <1> HIDE DEF rest
  <1>2. /\ \A i \in Changers(f, rest) : i \in Nat \ {0} /\ i + 1 \in Changers(f, queue) /\ rest[i] = queue[i + 1]
        /\ \A i \in Changers(f, queue) : i # 1 => i - 1 \in Changers(f, rest)
        /\ \A i \in Changers(f, queue) : i \in Nat \ {0}
        /\ 1 \in Changers(f, queue) <=> f \in Changes[Head(queue).kind]
    <2>1. ASSUME NEW i \in Changers(f, rest)
          PROVE  i \in Nat \ {0} /\ i + 1 \in Changers(f, queue) /\ rest[i] = queue[i + 1]
      <3>1. i \in 1 .. Len(queue) - 1 /\ i + 1 \in 1 .. Len(queue)
        BY <1>1 DEF Changers
      <3> QED
        BY <1>1, <3>1 DEF Changers
    <2>2. ASSUME NEW i \in Changers(f, queue), i # 1
          PROVE  i - 1 \in Changers(f, rest)
      <3>1. i - 1 \in 1 .. Len(queue) - 1 /\ i - 1 + 1 = i
        BY <1>1, <2>2 DEF Changers
      <3>2. rest[i - 1] = queue[i]
        BY <1>1, <3>1
      <3> QED
        BY <1>1, <3>1, <3>2 DEF Changers
    <2>3. 1 \in Changers(f, queue) <=> f \in Changes[Head(queue).kind]
      BY <1>1 DEF Changers
    <2>4. \A i \in Changers(f, queue) : i \in Nat \ {0}
      BY <1>1 DEF Changers
    <2> QED
      BY <2>1, <2>2, <2>3, <2>4
  <1>3. ASSUME Changers(f, rest) = {}
        PROVE  SettingsIn(new)[f] = g
    <2>1. \A i \in Changers(f, queue) : i = 1
      BY <1>2, <1>3
    <2>2. CASE f \in Changes[Head(queue).kind]
      <3>1. 1 \in Changers(f, queue) /\ \A j \in Changers(f, queue) : j <= 1
        BY <1>2, <2>1, <2>2
      <3>2. Makes(f, queue[1], old) = g
        BY <3>1, Zenon DEF Arrives
      <3> QED
        BY <1>1, <2>2, <3>2, Zenon
    <2>3. CASE f \notin Changes[Head(queue).kind]
      <3>1. Changers(f, queue) = {}
        BY <1>2, <2>1, <2>3
      <3> QED
        BY <2>3, <3>1, Zenon DEF Arrives
    <2> QED
      BY <2>2, <2>3
  <1>4. ASSUME NEW i \in Changers(f, rest), \A j \in Changers(f, rest) : j <= i
        PROVE  Makes(f, rest[i], new) = g
    <2>1. i + 1 \in Changers(f, queue) /\ rest[i] = queue[i + 1] /\ i \in Nat \ {0}
      BY <1>2
    <2>2. ASSUME NEW j \in Changers(f, queue) PROVE j <= i + 1
      <3>1. CASE j = 1
        BY <2>1, <3>1
      <3>2. CASE j # 1
        BY <1>2, <1>4, <2>1, <3>2
      <3> QED
        BY <3>1, <3>2
    <2>3. Makes(f, rest[i], old) = g
      BY <2>1, <2>2, Zenon DEF Arrives
    <2>4. Makes(f, rest[i], new) = Makes(f, rest[i], old)
      <3>1. CASE f \notin Changes[Head(queue).kind]
        <4>1. Same(f, old, new)
          BY <3>1, Zenon DEF Same
        <4> QED
          BY <4>1, SameMakes
      <3>2. CASE f \in Changes[Head(queue).kind]
        <4>1. f # "range"
          BY <1>2, <2>1, <3>2
        <4> QED
          BY <4>1, MakesSameElse
      <3> QED
        BY <3>1, <3>2
    <2> QED
      BY <2>3, <2>4
  <1>5. Arrives(f, rest, new, g)
    BY <1>3, <1>4, Zenon DEF Arrives
  <1> QED
    BY <1>5 DEF rest

LEMMA CurrentMeans ==
  ASSUME NEW f, Current(f)
  PROVE  SettingsIn(Known)[f] = SettingsIn(spa)[f] /\ Changers(f, toSpa) = {}
  BY DEF Current, Changers

\* What each message changes.
LEMMA ChangedSettings ==
  /\ Changes["temperature"] = {"target"} /\ Changes["range"] = {"range"}
  /\ Changes["unit"] = {"unit", "target"} /\ Changes["time"] = {"hour", "minute", "is24"}
  BY DEF Changes

\* A call keeps the invariant if its message makes of each setting what the call
\* says.
LEMMA CallArrives ==
  ASSUME SettingsInv, toSpa \in Seq(Message), NEW m \in Message, toSpa' = Append(toSpa, m),
         spa' = spa,
         \A f \in Fields : goal'[f] # None =>
           IF f \in Changes[m.kind] THEN Makes(f, m, spa) = goal'[f] ELSE goal'[f] = goal[f],
         m.kind = "range" /\ goal'["range"] # None => Changers("range", toSpa) = {},
         m.kind = "unit" => goal'["target"] = None,
         m.kind = "temperature" /\ goal'["target"] # None => Changers("unit", toSpa) = {}
  PROVE  SettingsInv'
  <1>0. {"range", "target", "unit"} \subseteq Fields
    BY DEF Fields
  <1>1. ASSUME NEW f \in Fields, goal'[f] # None
        PROVE  Arrives(f, toSpa', spa', goal'[f])
    <2>1. CASE f \in Changes[m.kind]
      BY <1>1, <2>1, SentArrives
    <2>2. CASE f \notin Changes[m.kind]
      <3>1. goal'[f] = goal[f] /\ Arrives(f, toSpa, spa, goal[f])
        BY <1>1, <2>2 DEF SettingsInv
      <3> QED
        BY <2>2, <3>1, OtherArrives
    <2> QED
      BY <2>1, <2>2
  <1>2. ASSUME goal'["range"] # None
        PROVE  \A i, j \in Changers("range", toSpa') : i = j
    <2>1. CASE m.kind = "range"
      <3>1. Changers("range", toSpa') = {Len(toSpa) + 1}
        BY <1>2, <2>1, AppendedChangers, ChangedSettings
      <3> QED
        BY <3>1
    <2>2. CASE m.kind # "range"
      <3>1. "range" \notin Changes[m.kind]
        BY <2>2, ChangedSettings DEF Message
      <3>2. Changers("range", toSpa') = Changers("range", toSpa)
        BY <3>1, AppendedChangers
      <3>3. goal'["range"] = goal["range"]
        BY <1>0, <1>2, <3>1
      <3> QED
        BY <1>2, <3>2, <3>3 DEF SettingsInv
    <2> QED
      BY <2>1, <2>2
  <1>3. ASSUME goal'["target"] # None
        PROVE  Changers("unit", toSpa') = {}
    <2>1. m.kind # "unit"
      BY <1>3
    <2>2. "unit" \notin Changes[m.kind]
      BY <2>1, ChangedSettings DEF Message
    <2>3. Changers("unit", toSpa') = Changers("unit", toSpa)
      BY <2>2, AppendedChangers
    <2>4. CASE m.kind = "temperature"
      BY <1>3, <2>3, <2>4
    <2>5. CASE m.kind # "temperature"
      <3>1. "target" \notin Changes[m.kind]
        BY <2>1, <2>5, ChangedSettings DEF Message
      <3>2. goal'["target"] = goal["target"]
        BY <1>0, <1>3, <3>1
      <3> QED
        BY <1>3, <2>3, <3>2 DEF SettingsInv
    <2> QED
      BY <2>4, <2>5
  <1> QED
    BY <1>1, <1>2, <1>3 DEF SettingsInv

LEMMA SetTemperatureArrives ==
  ASSUME TypeOK, SettingsInv, SetTemperature
  PROVE  SettingsInv'
  <1>1. PICK t \in Temperatures :
          /\ Calls /\ t <= Maximum
          /\ Sends([kind |-> "temperature", value |-> Encoded(t)])
          /\ Expect([target |-> IF Unit(spa) = "celsius" THEN t ELSE 2 * (t \div 2)],
                    [target |-> {"unit"}])
    BY Zenon DEF SetTemperature
  <1> DEFINE m == [kind |-> "temperature", value |-> Encoded(t)]
             meant == IF Unit(spa) = "celsius" THEN t ELSE 2 * (t \div 2)
  <1>2. Encoded(t) \in 0 .. 255
    BY <1>1, LetThroughFits
  <1>3. m \in Message /\ m.kind = "temperature" /\ m.value = Encoded(t)
    BY <1>2, SentIsMessage
  <1>4. toSpa \in Seq(Message) /\ toSpa' = Append(toSpa, m) /\ spa' = spa
    BY <1>1 DEF TypeOK, Sends, Calls
  <1>5. /\ goal'["target"] = IF Current("unit") THEN meant ELSE None
        /\ \A f \in Fields \ {"target"} : goal'[f] = goal[f]
    BY <1>1 DEF Expect, Fields
  <1>6. Current("unit") => Makes("target", m, spa) = meant /\ Changers("unit", toSpa) = {}
    <2> SUFFICES ASSUME Current("unit")
                 PROVE  Makes("target", m, spa) = meant /\ Changers("unit", toSpa) = {}
      OBVIOUS
    <2>1. Unit(Known) = Unit(spa) /\ Changers("unit", toSpa) = {}
      BY CurrentMeans, SettingsFields
    <2>2. Makes("target", m, spa) = meant
      BY <1>3, <2>1 DEF Makes, Encoded
    <2> QED
      BY <2>1, <2>2
  <1> HIDE DEF m, meant
  <1>7. ASSUME NEW f \in Fields, goal'[f] # None
        PROVE  IF f \in Changes[m.kind] THEN Makes(f, m, spa) = goal'[f] ELSE goal'[f] = goal[f]
    <2>1. f \in Changes[m.kind] <=> f = "target"
      BY <1>3, ChangedSettings
    <2> QED
      BY <1>5, <1>6, <1>7, <2>1
  <1>8. goal'["target"] # None => Changers("unit", toSpa) = {}
    BY <1>5, <1>6
  <1> QED
    BY <1>3, <1>4, <1>7, <1>8, CallArrives

LEMMA SetTemperatureRangeArrives ==
  ASSUME TypeOK, SettingsInv, SetTemperatureRange
  PROVE  SettingsInv'
  <1>1. PICK range \in 0 .. 1 :
          /\ Calls
          /\ IF TemperatureRange(Known) = range THEN toSpa' = toSpa ELSE Sends([kind |-> "range"])
          /\ Expect([range |-> range], [range |-> {"range"}])
    BY DEF SetTemperatureRange
  <1> DEFINE m == [kind |-> "range"]
  <1>2. toSpa \in Seq(Message) /\ spa' = spa /\ m \in Message /\ m.kind = "range"
    BY <1>1, SentIsMessage DEF TypeOK, Calls
  <1>3. /\ goal'["range"] = IF Current("range") THEN range ELSE None
        /\ \A f \in Fields \ {"range"} : goal'[f] = goal[f]
    BY <1>1 DEF Expect, Fields
  <1>4. Current("range") =>
          TemperatureRange(Known) = TemperatureRange(spa) /\ Changers("range", toSpa) = {}
    BY CurrentMeans, SettingsFields
  <1>5. TemperatureRange(Known) \in 0 .. 1 /\ TemperatureRange(spa) \in 0 .. 1
    BY KnownIsStatus, RangeIsOneOfTwo DEF TypeOK
  <1> HIDE DEF m
  <1>6. CASE TemperatureRange(Known) = range
    <2>1. toSpa' = toSpa
      BY <1>1, <1>6
    <2>2. ASSUME NEW f \in Fields, goal'[f] # None
          PROVE  Arrives(f, toSpa', spa', goal'[f])
      <3>1. CASE f = "range"
        <4>1. Changers(f, toSpa) = {} /\ SettingsIn(spa)[f] = goal'[f]
          BY <1>3, <1>4, <1>6, <2>2, <3>1, SettingsFields
        <4> QED
          BY <1>2, <2>1, <4>1 DEF Arrives
      <3>2. CASE f # "range"
        BY <1>2, <1>3, <2>1, <2>2, <3>2 DEF SettingsInv
      <3> QED
        BY <3>1, <3>2
    <2>3. goal'["range"] # None => \A i, j \in Changers("range", toSpa') : i = j
      BY <1>3, <1>4, <2>1
    <2>4. goal'["target"] # None => Changers("unit", toSpa') = {}
      <3>1. goal'["target"] = goal["target"]
        BY <1>3 DEF Fields
      <3> QED
        BY <2>1, <3>1 DEF SettingsInv
    <2> QED
      BY <2>2, <2>3, <2>4 DEF SettingsInv
  <1>7. CASE TemperatureRange(Known) # range
    <2>1. toSpa' = Append(toSpa, m)
      BY <1>1, <1>7 DEF Sends, m
    <2>2. Current("range") => Makes("range", m, spa) = range
      BY <1>4, <1>5, <1>7 DEF Makes
    <2>3. ASSUME NEW f \in Fields, goal'[f] # None
          PROVE  IF f \in Changes[m.kind] THEN Makes(f, m, spa) = goal'[f] ELSE goal'[f] = goal[f]
      <3>1. f \in Changes[m.kind] <=> f = "range"
        BY <1>2, ChangedSettings
      <3> QED
        BY <1>3, <2>2, <2>3, <3>1
    <2>4. goal'["range"] # None => Changers("range", toSpa) = {}
      BY <1>3, <1>4
    <2> QED
      BY <1>2, <2>1, <2>3, <2>4, CallArrives
  <1> QED
    BY <1>6, <1>7

LEMMA SetTemperatureUnitArrives ==
  ASSUME TypeOK, SettingsInv, SetTemperatureUnit
  PROVE  SettingsInv'
  <1>1. PICK unit \in {"fahrenheit", "celsius"} :
          /\ Calls
          /\ Sends([kind |-> "unit", value |-> unit])
          /\ Expect([unit |-> unit, target |-> None], [unit |-> {}, target |-> {}])
    BY Zenon DEF SetTemperatureUnit
  <1> DEFINE m == [kind |-> "unit", value |-> unit]
  <1>2. /\ toSpa \in Seq(Message) /\ toSpa' = Append(toSpa, m) /\ spa' = spa
        /\ m \in Message /\ m.kind = "unit" /\ m.value = unit
    BY <1>1, SentIsMessage DEF TypeOK, Calls, Sends
  <1>3. /\ goal'["unit"] = unit /\ goal'["target"] = None
        /\ \A f \in Fields \ {"unit", "target"} : goal'[f] = goal[f]
    BY <1>1 DEF Expect, Fields
  <1> HIDE DEF m
  <1>4. ASSUME NEW f \in Fields, goal'[f] # None
        PROVE  IF f \in Changes[m.kind] THEN Makes(f, m, spa) = goal'[f] ELSE goal'[f] = goal[f]
    <2>1. f \in Changes[m.kind] <=> f \in {"unit", "target"}
      BY <1>2, ChangedSettings
    <2>2. Makes("unit", m, spa) = unit
      BY <1>2 DEF Makes
    <2> QED
      BY <1>3, <1>4, <2>1, <2>2
  <1> QED
    BY <1>2, <1>3, <1>4, CallArrives

\* The clock is sent whole: what a call does not say of it is as the client knows it.
LEMMA TimeArrives ==
  ASSUME TypeOK, SettingsInv, Calls, NEW hour \in 0 .. 255, NEW minute \in 0 .. 255,
         NEW is24 \in BOOLEAN, SendsTime(hour, minute, is24),
         goal'["hour"] # None => goal'["hour"] = hour,
         goal'["minute"] # None => goal'["minute"] = minute,
         goal'["is24"] # None => goal'["is24"] = is24,
         \A f \in Fields \ {"hour", "minute", "is24"} : goal'[f] = goal[f]
  PROVE  SettingsInv'
  <1> DEFINE m == [kind |-> "time", hour |-> hour, minute |-> minute, is24 |-> is24]
  <1>1. m \in Message
    BY SentIsMessage, Zenon
  <1>2. m.kind = "time" /\ m.hour = hour /\ m.minute = minute /\ m.is24 = is24
    BY Zenon
  <1>3. toSpa \in Seq(Message) /\ toSpa' = Append(toSpa, m) /\ spa' = spa
    BY Zenon DEF TypeOK, SendsTime, Sends, Calls
  <1> HIDE DEF m
  <1>4. ASSUME NEW f \in Fields, goal'[f] # None
        PROVE  IF f \in Changes[m.kind] THEN Makes(f, m, spa) = goal'[f] ELSE goal'[f] = goal[f]
    <2>1. f \in Changes[m.kind] <=> f \in {"hour", "minute", "is24"}
      BY <1>2, ChangedSettings
    <2>2. CASE f = "hour"
      BY <1>2, <1>4, <2>1, <2>2, Zenon DEF Makes
    <2>3. CASE f = "minute"
      BY <1>2, <1>4, <2>1, <2>3, Zenon DEF Makes
    <2>4. CASE f = "is24"
      BY <1>2, <1>4, <2>1, <2>4, Zenon DEF Makes
    <2>5. CASE f \notin {"hour", "minute", "is24"}
      BY <2>1, <2>5
    <2> QED
      BY <2>2, <2>3, <2>4, <2>5
  <1> QED
    BY <1>1, <1>2, <1>3, <1>4, CallArrives

LEMMA SetTimeArrives ==
  ASSUME TypeOK, SettingsInv, SetTime
  PROVE  SettingsInv'
  <1>1. PICK clock \in Clocks, is24 \in BOOLEAN \cup {None} :
          /\ Calls
          /\ SendsTime(clock[1], clock[2], IF is24 = None THEN Is24(Known) ELSE is24)
          /\ Expect([hour |-> clock[1], minute |-> clock[2],
                     is24 |-> IF is24 = None THEN Is24(spa) ELSE is24],
                    [hour |-> {}, minute |-> {}, is24 |-> IF is24 = None THEN {"is24"} ELSE {}])
    BY Zenon DEF SetTime
  <1> DEFINE sent == IF is24 = None THEN Is24(Known) ELSE is24
             meant == IF is24 = None THEN Is24(spa) ELSE is24
  <1>2. clock[1] \in 0 .. 255 /\ clock[2] \in 0 .. 255
    BY SettingsAssumption
  <1>3. sent \in BOOLEAN
    BY <1>1, Zenon DEF Is24
  <1>4. /\ goal'["hour"] = clock[1] /\ goal'["minute"] = clock[2]
        /\ goal'["is24"] =
             IF \A r \in (IF is24 = None THEN {"is24"} ELSE {}) : Current(r) THEN meant ELSE None
        /\ \A f \in Fields \ {"hour", "minute", "is24"} : goal'[f] = goal[f]
    BY <1>1 DEF Expect, Fields
  <1>5. goal'["is24"] # None => goal'["is24"] = sent
    <2>1. Current("is24") => Is24(Known) = Is24(spa)
      BY CurrentMeans, SettingsFields, Zenon
    <2>2. CASE is24 = None
      <3>1. goal'["is24"] = IF Current("is24") THEN Is24(spa) ELSE None
        BY <1>4, <2>2, Zenon
      <3> QED
        BY <2>1, <2>2, <3>1, Zenon
    <2>3. CASE is24 # None
      BY <1>4, <2>3, Zenon
    <2> QED
      BY <2>2, <2>3
  <1> HIDE DEF sent, meant
  <1>6. SendsTime(clock[1], clock[2], sent)
    BY <1>1, Zenon DEF sent
  <1> QED
    BY <1>1, <1>2, <1>3, <1>4, <1>5, <1>6, TimeArrives, Zenon

LEMMA Set24HourTimeArrives ==
  ASSUME TypeOK, SettingsInv, Set24HourTime
  PROVE  SettingsInv'
  <1>1. PICK is24 \in BOOLEAN :
          /\ Calls
          /\ SendsTime(Known[3], Known[4], is24)
          /\ Expect([hour |-> spa[3], minute |-> spa[4], is24 |-> is24],
                    [hour |-> {"hour"}, minute |-> {"minute"}, is24 |-> {}])
    BY Zenon DEF Set24HourTime
  <1>2. Known[3] \in 0 .. 255 /\ Known[4] \in 0 .. 255
    <2>1. 3 \in StatusBytes /\ 4 \in StatusBytes /\ Known \in Status
      BY KnownIsStatus DEF StatusBytes
    <2> QED
      BY <2>1 DEF Status
  <1>3. /\ goal'["hour"] = IF Current("hour") THEN spa[3] ELSE None
        /\ goal'["minute"] = IF Current("minute") THEN spa[4] ELSE None
        /\ goal'["is24"] = is24
        /\ \A f \in Fields \ {"hour", "minute", "is24"} : goal'[f] = goal[f]
    BY <1>1 DEF Expect, Fields
  <1>4. /\ Current("hour") => Known[3] = spa[3]
        /\ Current("minute") => Known[4] = spa[4]
    BY CurrentMeans, SettingsFields
  <1>5. /\ goal'["hour"] # None => goal'["hour"] = Known[3]
        /\ goal'["minute"] # None => goal'["minute"] = Known[4]
    BY <1>3, <1>4
  <1> QED
    BY <1>1, <1>2, <1>3, <1>5, TimeArrives, Zenon

\* Unit, format and target go by two bytes.
LEMMA BytesTell ==
  ASSUME NEW old, NEW new, new[9] = old[9]
  PROVE  /\ Unit(new) = Unit(old) /\ Is24(new) = Is24(old)
         /\ new[20] = old[20] => TargetTemperature(new) = TargetTemperature(old)
  <1>1. Unit(new) = Unit(old)
    BY Zenon DEF Unit
  <1>2. Is24(new) = Is24(old)
    BY Zenon DEF Is24
  <1>3. new[20] = old[20] => TargetTemperature(new) = TargetTemperature(old)
    BY <1>1, Zenon DEF TargetTemperature
  <1> QED
    BY <1>1, <1>2, <1>3

\* What a message makes of a setting at the spa is what it was sent for: but for a
\* temperature that was set before the unit changed.
LEMMA TakenMakes ==
  ASSUME SpaTakes, spa \in Status, toSpa \in Seq(Message), NEW f \in Fields,
         Head(toSpa).kind = "unit" => f # "target"
  PROVE  /\ SettingsIn(spa')[f] = IF f \in Changes[Head(toSpa).kind]
                                  THEN Makes(f, Head(toSpa), spa) ELSE SettingsIn(spa)[f]
         /\ f = "target" => Unit(spa') = Unit(spa)
  <1> DEFINE m == Head(toSpa)
  <1>1. m \in Message
    BY DEF SpaTakes
  <1>2. {3, 4, 9, 10, 20} \subseteq StatusBytes
    BY DEF StatusBytes, ControlBytes
  <1>3. CASE m.kind = "temperature"
    <2>1. spa' = [spa EXCEPT ![20] = m.value] /\ m.value \in 0 .. 255
      BY <1>1, <1>3 DEF SpaTakes, Message
    <2>2. spa'[20] = m.value /\ \A q \in {3, 4, 9, 10} : spa'[q] = spa[q]
      BY <1>2, <2>1 DEF Status
    <2>3. /\ Unit(spa') = Unit(spa) /\ TemperatureRange(spa') = TemperatureRange(spa)
          /\ Is24(spa') = Is24(spa) /\ TargetTemperature(spa') = Makes("target", m, spa)
      <3>1. Unit(spa') = Unit(spa)
        BY <2>2 DEF Unit
      <3>2. TemperatureRange(spa') = TemperatureRange(spa)
        BY <2>2 DEF TemperatureRange
      <3>3. Is24(spa') = Is24(spa)
        <4>1. spa'[9] = spa[9]
          BY <2>2
        <4> QED
          BY <4>1, Zenon DEF Is24
      <3>4. TargetTemperature(spa') = Makes("target", m, spa)
        BY <2>2, <3>1 DEF TargetTemperature, Makes
      <3> QED
        BY <3>1, <3>2, <3>3, <3>4
    <2>4. Changes[m.kind] = {"target"}
      BY <1>3, ChangedSettings
    <2> HIDE DEF m
    <2> QED
      BY <2>2, <2>3, <2>4, SettingsFields DEF Fields, m
  <1>4. CASE m.kind = "range"
    <2>1. spa' = Flip(spa, 10, 2)
      BY <1>4 DEF SpaTakes
    <2>2. \A q \in {3, 4, 9, 20} : spa'[q] = spa[q]
      <3>1. \A q \in StatusBytes \ {10} : spa'[q] = spa[q]
        BY <2>1, SettingTurned
      <3> QED
        BY <1>2, <3>1
    <2>3. TemperatureRange(spa') = Makes("range", m, spa)
      BY <2>1, SettingTurned DEF Makes
    <2>4. /\ Unit(spa') = Unit(spa) /\ TargetTemperature(spa') = TargetTemperature(spa)
          /\ Is24(spa') = Is24(spa)
      BY <2>2, BytesTell
    <2>5. Changes[m.kind] = {"range"}
      BY <1>4, ChangedSettings
    <2> HIDE DEF m
    <2> QED
      BY <2>2, <2>3, <2>4, <2>5, SettingsFields DEF Fields, m
  <1>5. CASE m.kind = "unit"
    <2>1. m.value \in {"fahrenheit", "celsius"}
      BY <1>1, <1>5 DEF Message
    <2>2. CASE m.value = Unit(spa)
      <3>1. spa' = spa
        BY <1>5, <2>2 DEF SpaTakes
      <3>2. Unit(spa') = Makes("unit", m, spa)
        BY <2>2, <3>1 DEF Makes
      <3>3. f # "target" /\ Changes[m.kind] = {"unit", "target"}
        BY <1>5, ChangedSettings
      <3> HIDE DEF m
      <3> QED
        BY <3>1, <3>2, <3>3, SettingsFields DEF Fields, m
    <2>3. CASE m.value # Unit(spa)
      <3>1. PICK raw \in {r[20] : r \in Reports} : spa' = Flip([spa EXCEPT ![20] = raw], 9, 0)
        BY <1>5, <2>3 DEF SpaTakes
      <3> DEFINE new == [spa EXCEPT ![20] = raw]
      <3>2. raw \in 0 .. 255
        <4>1. \A r \in [StatusBytes -> 0 .. 255] : r[20] \in 0 .. 255
          BY <1>2
        <4>2. Reports \subseteq [StatusBytes -> 0 .. 255]
          BY SettingsAssumption
        <4> QED
          BY <3>1, <4>1, <4>2, Zenon
      <3>3. new \in Status /\ \A q \in {3, 4, 9, 10} : new[q] = spa[q]
        BY <1>2, <3>2 DEF Status
      <3> HIDE DEF new
      <3>4. /\ Unit(spa') # Unit(new) /\ Is24(spa') = Is24(new)
            /\ \A q \in StatusBytes \ {9} : spa'[q] = new[q]
        BY <3>1, <3>3, SettingTurned DEF new
      <3>5. Unit(new) = Unit(spa) /\ Is24(new) = Is24(spa)
        BY <3>3, BytesTell
      <3>6. \A q \in {3, 4, 10} : spa'[q] = spa[q]
        BY <1>2, <3>3, <3>4
      <3>7. TemperatureRange(spa') = TemperatureRange(spa)
        BY <3>6 DEF TemperatureRange
      <3>8. Unit(spa') = Makes("unit", m, spa)
        <4>1. Unit(spa') \in {"fahrenheit", "celsius"} /\ Unit(spa) \in {"fahrenheit", "celsius"}
          BY DEF Unit
        <4> QED
          BY <2>1, <2>3, <3>4, <3>5, <4>1 DEF Makes
      <3>9. f # "target" /\ Changes[m.kind] = {"unit", "target"}
        BY <1>5, ChangedSettings
      <3>10. Is24(spa') = Is24(spa)
        BY <3>4, <3>5, Zenon
      <3> HIDE DEF m
      <3> QED
        BY <3>6, <3>7, <3>8, <3>9, <3>10, SettingsFields DEF Fields, m
    <2> QED
      BY <2>2, <2>3
  <1>6. CASE m.kind = "time"
    <2>1. m.hour \in 0 .. 255 /\ m.minute \in 0 .. 255 /\ m.is24 \in BOOLEAN
      BY <1>1, <1>6 DEF Message
    <2> DEFINE new == [spa EXCEPT ![3] = m.hour, ![4] = m.minute]
    <2>2. /\ new \in Status /\ new[3] = m.hour /\ new[4] = m.minute
          /\ \A q \in StatusBytes \ {3, 4} : new[q] = spa[q]
      <3>1. new \in Status
        BY <2>1, ClockSet
      <3>3. new[3] = m.hour /\ new[4] = m.minute
        BY <1>2, <2>1 DEF Status
      <3>2. \A q \in StatusBytes \ {3, 4} : new[q] = spa[q]
        BY <2>1 DEF Status
      <3> QED
        BY <3>1, <3>2, <3>3
    <2>3. spa' = IF m.is24 = Is24(spa) THEN new ELSE Flip(new, 9, 1)
      BY <1>6, Zenon DEF SpaTakes
    <2> HIDE DEF new
    <2>4. \A q \in {9, 10, 20} : new[q] = spa[q]
      BY <1>2, <2>2
    <2>5. /\ Unit(new) = Unit(spa) /\ Is24(new) = Is24(spa)
          /\ TargetTemperature(new) = TargetTemperature(spa)
      BY <2>4, BytesTell
    <2>6. \A q \in {3, 4, 10, 20} : spa'[q] = new[q]
      <3>1. \A q \in StatusBytes \ {9} : spa'[q] = new[q]
        BY <2>2, <2>3, SettingTurned
      <3> QED
        BY <1>2, <3>1
    <2>7. Unit(spa') = Unit(new)
      BY <2>2, <2>3, SettingTurned
    <2>8. Is24(spa') = m.is24
      <3>1. CASE m.is24 = Is24(spa)
        BY <2>3, <2>5, <3>1, Zenon
      <3>2. CASE m.is24 # Is24(spa)
        <4>1. Is24(spa') = ~Is24(new)
          BY <2>2, <2>3, <3>2, SettingTurned, Zenon
        <4>2. Is24(spa) \in BOOLEAN
          BY Zenon DEF Is24
        <4>3. m.is24 = ~Is24(spa)
          BY <2>1, <3>2, <4>2, Zenon
        <4> QED
          BY <2>5, <4>1, <4>3, Zenon
      <3> QED
        BY <3>1, <3>2, Zenon
    <2>9. /\ TemperatureRange(spa') = TemperatureRange(spa)
          /\ TargetTemperature(spa') = TargetTemperature(spa)
      BY <2>4, <2>5, <2>6, <2>7 DEF TemperatureRange, TargetTemperature
    <2>10. Changes[m.kind] = {"hour", "minute", "is24"}
      BY <1>6, ChangedSettings
    <2>11. spa'[3] = m.hour /\ spa'[4] = m.minute /\ Unit(spa') = Unit(spa)
      BY <2>2, <2>5, <2>6, <2>7
    <2>12. CASE f \in {"unit", "range", "target"}
      BY <2>9, <2>10, <2>11, <2>12, SettingsFields
    <2>13. CASE f = "hour"
      <3>1. Makes(f, m, spa) = m.hour
        BY <2>13, Zenon DEF Makes
      <3> QED
        BY <2>10, <2>11, <2>13, <3>1, SettingsFields
    <2>14. CASE f = "minute"
      <3>1. Makes(f, m, spa) = m.minute
        BY <2>14, Zenon DEF Makes
      <3> QED
        BY <2>10, <2>11, <2>14, <3>1, SettingsFields
    <2>15. CASE f = "is24"
      <3>1. Makes(f, m, spa) = m.is24
        BY <2>15, Zenon DEF Makes
      <3>2. SettingsIn(spa')[f] = m.is24 /\ f \in Changes[m.kind]
        BY <2>8, <2>10, <2>15, SettingsFields, Zenon
      <3> QED
        BY <2>15, <3>1, <3>2
    <2> QED
      BY <2>12, <2>13, <2>14, <2>15 DEF Fields
  <1> QED
    BY <1>1, <1>3, <1>4, <1>5, <1>6 DEF Message

LEMMA TakesArrive ==
  ASSUME TypeOK, SettingsInv, SpaTakes
  PROVE  SettingsInv'
  <1>1. /\ toSpa \in Seq(Message) /\ toSpa # <<>> /\ toSpa' = Tail(toSpa)
        /\ spa \in Status /\ goal' = goal
    BY DEF SpaTakes, TypeOK
  <1>2. Len(toSpa) \in Nat \ {0} /\ 1 \in DOMAIN toSpa /\ Head(toSpa) = toSpa[1]
    BY <1>1
  <1>3. goal["target"] # None => Head(toSpa).kind # "unit"
    <2>1. Head(toSpa).kind = "unit" => 1 \in Changers("unit", toSpa)
      BY <1>2, ChangedSettings DEF Changers
    <2> QED
      BY <2>1 DEF SettingsInv
  <1>4. ASSUME NEW f \in Fields, goal[f] # None
        PROVE  Arrives(f, Tail(toSpa), spa', goal[f])
    <2>1. Head(toSpa).kind = "unit" => f # "target"
      BY <1>3, <1>4
    <2>2. /\ SettingsIn(spa')[f] = IF f \in Changes[Head(toSpa).kind]
                                   THEN Makes(f, Head(toSpa), spa) ELSE SettingsIn(spa)[f]
          /\ f = "target" => Unit(spa') = Unit(spa)
      BY <1>1, <2>1, TakenMakes
    <2>3. f = "range" => \A i, j \in Changers(f, toSpa) : i = j
      BY <1>4 DEF SettingsInv
    <2>4. Arrives(f, toSpa, spa, goal[f])
      BY <1>4 DEF SettingsInv
    <2> QED
      BY <1>1, <2>2, <2>3, <2>4, TakenArrives
  <1>5. ASSUME NEW f, NEW i \in Changers(f, Tail(toSpa))
        PROVE  i \in Nat /\ i + 1 \in Changers(f, toSpa)
    <2>1. i \in 1 .. Len(toSpa) - 1 /\ i + 1 \in 1 .. Len(toSpa) /\ Tail(toSpa)[i] = toSpa[i + 1]
      BY <1>1 DEF Changers
    <2> QED
      BY <1>1, <2>1 DEF Changers
  <1>6. goal["range"] # None => \A i, j \in Changers("range", Tail(toSpa)) : i = j
    <2> SUFFICES ASSUME goal["range"] # None, NEW i \in Changers("range", Tail(toSpa)),
                        NEW j \in Changers("range", Tail(toSpa))
                 PROVE  i = j
      OBVIOUS
    <2>1. i + 1 = j + 1 /\ i \in Nat /\ j \in Nat
      BY <1>5 DEF SettingsInv
    <2> QED
      BY <2>1
  <1>7. goal["target"] # None => Changers("unit", Tail(toSpa)) = {}
    BY <1>5 DEF SettingsInv
  <1> QED
    BY <1>1, <1>4, <1>6, <1>7 DEF SettingsInv

\* Somebody else may change a setting of which no goal is left.
LEMMA VoidArrives ==
  ASSUME SettingsInv, toSpa' = toSpa, NEW S, goal' = [f \in Fields |-> IF f \in S THEN None ELSE goal[f]],
         \A f \in Fields \ S : Same(f, spa, spa')
  PROVE  SettingsInv'
  <1>0. {"range", "target"} \subseteq Fields
    BY DEF Fields
  <1>1. \A f \in Fields : goal'[f] # None => goal'[f] = goal[f] /\ f \notin S
    OBVIOUS
  <1>2. ASSUME NEW f \in Fields, goal'[f] # None
        PROVE  Arrives(f, toSpa', spa', goal'[f])
    <2>1. goal'[f] = goal[f] /\ Same(f, spa, spa') /\ Arrives(f, toSpa, spa, goal[f])
      BY <1>1, <1>2 DEF SettingsInv
    <2> QED
      BY <2>1, SameArrives
  <1> QED
    BY <1>0, <1>1, <1>2 DEF SettingsInv

(***************************************************************************)
(* The theorems                                                            *)
(***************************************************************************)


\* The controls are always among those that there may be: the inductive part of
\* what is said of them below.
LEMMA ControlsAreKnown == Spec => []ControlsKnown
  <1>1. Init => ControlsKnown
    BY ControlsPossible DEF Init, ControlsKnown
  <1>2. ControlsKnown /\ [Next]_vars => ControlsKnown'
    <2> SUFFICES ASSUME ControlsKnown, [Next]_vars
                 PROVE  controls' \subseteq Possible
      BY DEF ControlsKnown
    <2>1. CASE Receive
      <3>1. controls' \in {controls, ControlsOf(Device)}
        BY <2>1, Zenon DEF Receive
      <3> QED
        BY <3>1, ControlsPossible DEF ControlsKnown
    <2>2. CASE ~Receive
      <3>1. controls' = controls
        BY <2>2 DEF Next, SetTemperature, SetTemperatureRange, SetTemperatureUnit,
             SetTime, Set24HourTime, Calls, SpaTakes, SpaReports, Touch, Turn, Drop, client, vars
      <3> QED
        BY <3>1 DEF ControlsKnown
    <2> QED
      BY <2>1, <2>2
  <1> QED
    BY <1>1, <1>2, PTL DEF Spec

\* A toggle turns one control of a client, whatever the device configuration of
\* its spa: no two of its controls have the same code (control.py:190).
THEOREM TogglesTurnOneControl == Spec => []CodesTellApart
  <1>1. ControlsKnown => CodesTellApart
    BY CodesApart DEF CodesTellApart, ControlsKnown
  <1> QED
    BY <1>1, ControlsAreKnown, PTL

\* What is sent in both directions are messages and reports, the settings that
\* they make are bytes, and no control shows a state that it cannot have
\* (client.py:693).
THEOREM TypeCorrect == Spec => []TypeOK
  <1>1. Init /\ ControlsKnown => TypeOK
    <2> SUFFICES ASSUME Init, ControlsKnown PROVE TypeOK
      OBVIOUS
    <2>1. Known \in Status
      BY DEF Init, Known, Status
    <2>2. \A c \in controls : StateOf(c, Known) \in 0 .. 3
      BY <2>1, StateBounded DEF ControlsKnown
    <2>3. spa \in Status /\ previous \in Status \cup {None} /\ limits \in {DefaultLimits, Limits}
      BY SettingsAssumption DEF Init, Status
    <2>4. toSpa \in Seq(Message) /\ toClient \in Seq(Report)
      BY DEF Init
    <2>5. DOMAIN goal = Fields /\ used \in [Bounds -> Nat]
      BY DEF Init
    <2> QED
      BY <2>2, <2>3, <2>4, <2>5 DEF TypeOK
  <1>2. TypeOK /\ ControlsKnown /\ ControlsKnown' /\ [Next]_vars => TypeOK'
    <2> SUFFICES ASSUME TypeOK, ControlsKnown, ControlsKnown', [Next]_vars PROVE TypeOK'
      OBVIOUS
    <2>0. Known \in Status /\ toSpa \in Seq(Message) /\ spa \in Status
      BY KnownIsStatus DEF TypeOK
    <2>1. CASE SetTemperature
      <3>1. PICK t \in Temperatures :
              /\ Calls /\ t <= Maximum
              /\ Sends([kind |-> "temperature", value |-> Encoded(t)])
              /\ Expect([target |-> IF Unit(spa) = "celsius" THEN t ELSE 2 * (t \div 2)],
                        [target |-> {"unit"}])
        BY <2>1, Zenon DEF SetTemperature
      <3>2. Encoded(t) \in 0 .. 255
        BY <3>1, LetThroughFits
      <3>3. [kind |-> "temperature", value |-> Encoded(t)] \in Message
        BY <3>2, SentIsMessage, Zenon
      <3> QED
        BY <2>0, <3>1, <3>3, Sent, ExpectDomain, CallKeepsTypes, Zenon
    <2>2. CASE SetTemperatureRange
      <3>1. Calls /\ (toSpa' = toSpa \/ Sends([kind |-> "range"])) /\ DOMAIN goal' = Fields
        BY <2>2 DEF SetTemperatureRange, Expect
      <3>2. toSpa' \in Seq(Message)
        <4>1. Sends([kind |-> "range"]) => toSpa' \in Seq(Message)
          BY <2>0, SentIsMessage, Sent
        <4> QED
          BY <2>0, <3>1, <4>1, Zenon
      <3> QED
        BY <3>1, <3>2, CallKeepsTypes
    <2>3. CASE SetTemperatureUnit
      <3>1. PICK unit \in {"fahrenheit", "celsius"} :
              /\ Calls
              /\ Sends([kind |-> "unit", value |-> unit])
              /\ Expect([unit |-> unit, target |-> None], [unit |-> {}, target |-> {}])
        BY <2>3, Zenon DEF SetTemperatureUnit
      <3> QED
        BY <2>0, <3>1, SentIsMessage, Sent, ExpectDomain, CallKeepsTypes
    <2>4. CASE SetTime
      <3>1. PICK clock \in Clocks, is24 \in BOOLEAN \cup {None} :
              /\ Calls
              /\ SendsTime(clock[1], clock[2], IF is24 = None THEN Is24(Known) ELSE is24)
        BY <2>4, Zenon DEF SetTime
      <3>0. DOMAIN goal' = Fields
        BY <2>4 DEF SetTime, Expect
      <3>2. clock[1] \in 0 .. 255 /\ clock[2] \in 0 .. 255
        BY <3>1, SettingsAssumption
      <3>3. (IF is24 = None THEN Is24(Known) ELSE is24) \in BOOLEAN
        BY <3>1, Zenon DEF Is24
      <3>4. [kind |-> "time", hour |-> clock[1], minute |-> clock[2],
             is24 |-> IF is24 = None THEN Is24(Known) ELSE is24] \in Message
        BY <3>2, <3>3, SentIsMessage, Zenon
      <3> QED
        BY <2>0, <3>0, <3>1, <3>4, Sent, CallKeepsTypes, Zenon DEF SendsTime
    <2>5. CASE Set24HourTime
      <3>1. PICK is24 \in BOOLEAN :
              /\ Calls
              /\ SendsTime(Known[3], Known[4], is24)
              /\ Expect([hour |-> spa[3], minute |-> spa[4], is24 |-> is24],
                        [hour |-> {"hour"}, minute |-> {"minute"}, is24 |-> {}])
        BY <2>5, Zenon DEF Set24HourTime
      <3>0. DOMAIN goal' = Fields
        BY <2>5 DEF Set24HourTime, Expect
      <3>2. Known[3] \in 0 .. 255 /\ Known[4] \in 0 .. 255
        <4>1. 3 \in StatusBytes /\ 4 \in StatusBytes
          BY DEF StatusBytes
        <4> QED
          BY <2>0, <4>1 DEF Status
      <3>3. [kind |-> "time", hour |-> Known[3], minute |-> Known[4], is24 |-> is24] \in Message
        BY <3>2, SentIsMessage, Zenon
      <3> QED
        BY <2>0, <3>0, <3>1, <3>3, Sent, CallKeepsTypes, Zenon DEF SendsTime
    <2>6. CASE Receive
      <3>1. /\ toClient # <<>> /\ toClient' = Tail(toClient)
            /\ \/ /\ Head(toClient).kind = "status" /\ previous' = Head(toClient).data
                  /\ UNCHANGED <<limits, controls>>
               \/ limits' = Limits /\ UNCHANGED <<previous, controls>>
               \/ UNCHANGED <<previous, limits>>
            /\ UNCHANGED <<spa, toSpa, goal, used>>
        BY <2>6, Zenon DEF Receive
      <3>2. Head(toClient) \in Report /\ Tail(toClient) \in Seq(Report)
        BY <3>1 DEF TypeOK
      <3>3. Head(toClient).kind = "status" => Head(toClient).data \in Status
        BY <3>2 DEF Report
      <3>4. previous' \in Status \cup {None}
        BY <3>1, <3>3 DEF TypeOK
      <3>5. Known' \in Status
        BY <3>4 DEF Known, Status
      <3>6. \A c \in controls' : StateOf(c, Known') \in 0 .. 3
        BY <3>5, StateBounded DEF ControlsKnown
      <3> QED
        BY <3>1, <3>2, <3>4, <3>6 DEF TypeOK
    <2>7. CASE SpaTakes
      <3>1. toSpa # <<>> /\ toSpa' = Tail(toSpa) /\ UNCHANGED <<toClient, client, goal, used>>
        BY <2>7 DEF SpaTakes
      <3>2. Head(toSpa) \in Message /\ Tail(toSpa) \in Seq(Message)
        BY <2>0, <3>1
      <3>3. spa' \in Status
        BY <2>0, <2>7, <3>1, <3>2, TakenIsStatus
      <3> QED
        BY <3>1, <3>2, <3>3, StepKeepsTypes DEF TypeOK
    <2>8. CASE SpaReports
      <3>1. toClient' \in Seq(Report)
        <4>1. [kind |-> "status", data |-> spa] \in Report /\ [kind |-> "setup"] \in Report
              /\ [kind |-> "device"] \in Report
          BY <2>0 DEF Report
        <4>2. \E r \in Report : toClient' = Append(toClient, r)
          BY <2>8, <4>1 DEF SpaReports
        <4> QED
          BY <4>2 DEF TypeOK
      <3> QED
        BY <2>8, <3>1, StepKeepsTypes DEF SpaReports, TypeOK
    <2>9. CASE Touch
      <3>1. spa' \in Status
        <4>1. \/ \E bit \in 0 .. 1 : spa' = Flip(spa, 9, bit)
              \/ spa' = Flip(spa, 10, 2)
              \/ \E clock \in Clocks : spa' = [spa EXCEPT ![3] = clock[1], ![4] = clock[2]]
          BY <2>9, Zenon DEF Touch
        <4>2. ASSUME NEW bit \in 0 .. 1, spa' = Flip(spa, 9, bit) PROVE spa' \in Status
          BY <2>0, <4>2, FlippedStatus DEF StatusBytes
        <4>3. CASE spa' = Flip(spa, 10, 2)
          BY <2>0, <4>3, SettingTurned
        <4>4. ASSUME NEW clock \in Clocks, spa' = [spa EXCEPT ![3] = clock[1], ![4] = clock[2]]
              PROVE  spa' \in Status
          <5>1. clock[1] \in 0 .. 255 /\ clock[2] \in 0 .. 255
            BY SettingsAssumption
          <5>2. [spa EXCEPT ![3] = clock[1], ![4] = clock[2]] \in Status
            BY <2>0, <5>1, ClockSet
          <5> QED
            BY <4>4, <5>2, Zenon
        <4> QED
          BY <4>1, <4>2, <4>3, <4>4
      <3>2. DOMAIN goal' = Fields /\ UNCHANGED <<queues, client>>
            /\ used' = [used EXCEPT !["event"] = @ + 1]
        BY <2>9 DEF Touch, Void, Spend
      <3> QED
        BY <3>1, <3>2, StepKeepsTypes DEF TypeOK, queues, Bounds
    <2>10. CASE Turn
      <3>1. spa' \in Status
        <4>1. PICK p \in ControlBytes \ {10}, bit \in 0 .. 7 : spa' = Flip(spa, p, bit)
          BY <2>10 DEF Turn
        <4> QED
          BY <2>0, <4>1, FlippedStatus DEF StatusBytes
      <3>2. UNCHANGED <<queues, client, goal>> /\ used' = [used EXCEPT !["turn"] = @ + 1]
        BY <2>10 DEF Turn, Spend
      <3> QED
        BY <3>1, <3>2, StepKeepsTypes DEF TypeOK, queues, Bounds
    <2>11. CASE Drop
      <3>1. /\ toSpa' = <<>> /\ toClient' = <<>> /\ DOMAIN goal' = Fields
            /\ UNCHANGED <<spa, client>> /\ used' = [used EXCEPT !["drop"] = @ + 1]
        BY <2>11 DEF Drop, Void, Spend
      <3>2. toSpa' \in Seq(Message) /\ toClient' \in Seq(Report)
        BY <3>1
      <3> QED
        BY <2>0, <3>1, <3>2, StepKeepsTypes DEF Bounds
    <2>12. CASE UNCHANGED vars
      BY <2>12 DEF vars, TypeOK, Known
    <2> QED
      BY <2>1, <2>2, <2>3, <2>4, <2>5, <2>6, <2>7, <2>8, <2>9, <2>10, <2>11, <2>12 DEF Next
  <1> QED
    BY <1>1, <1>2, ControlsAreKnown, PTL DEF Spec

\* A status update that differs from the last one in one bit changes what at most
\* one control shows, but for the circulation pump and the first blower, whose
\* states overlap (client.py:740, 747).
THEOREM BitsShowOnce == Spec => OneBitOneControl
  <1>1. TypeOK /\ ControlsKnown =>
          (previous # None /\ previous' # previous =>
             \A p \in ControlBytes, bit \in 0 .. 7 : previous' = Flip(previous, p, bit)
               => \/ Cardinality(Changed(previous, previous')) <= 1
                  \/ p = 13 /\ bit = 1 /\ Changed(previous, previous') = Shared)
    <2> SUFFICES ASSUME TypeOK, ControlsKnown, previous # None,
                        NEW p \in ControlBytes, NEW bit \in 0 .. 7,
                        previous' = Flip(previous, p, bit)
                 PROVE  \/ Cardinality(Changed(previous, previous')) <= 1
                        \/ p = 13 /\ bit = 1 /\ Changed(previous, previous') = Shared
      OBVIOUS
    <2> DEFINE C == Changed(previous, previous')
    <2>1. \A c \in C : c \in Possible /\ Shows(c, p, bit)
      <3>1. previous \in Status /\ p \in StatusBytes
        BY DEF TypeOK, StatusBytes
      <3> QED
        BY <3>1, OthersUnchanged DEF Changed, ControlsKnown
    <2> HIDE DEF C
    <2>2. CASE \A c, d \in C : c = d
      <3>1. C = {} \/ \E c : C = {c}
        BY <2>2
      <3> QED
        <4>1. CASE C = {}
          BY <4>1, FS_EmptySet DEF C
        <4>2. ASSUME NEW c, C = {c} PROVE Cardinality(C) <= 1
          <5>1. Cardinality({c}) = 1
            BY FS_Singleton, Zenon
          <5> QED
            BY <4>2, <5>1
        <4> QED
          BY <3>1, <4>1, <4>2 DEF C
    <2>3. CASE \E c, d \in C : c # d
      <3>1. PICK c \in C, d \in C : c # d
        BY <2>3
      <3>2. p = 13 /\ bit = 1 /\ c \in Shared /\ d \in Shared
        BY <2>1, <3>1, PlacesApart
      <3>3. \A e \in C : e \in Shared
        BY <2>1, <3>1, <3>2, PlacesApart
      <3>4. Shared \subseteq {c, d}
        BY <3>1, <3>2 DEF Shared
      <3> QED
        BY <3>1, <3>2, <3>3, <3>4 DEF C
    <2> QED
      BY <2>2, <2>3
  <1> QED
    BY <1>1, TypeCorrect, ControlsAreKnown, PTL DEF OneBitOneControl

\* When the spa has taken all messages, each setting is what the last call on it
\* asked for, if that call was informed and nobody else set it later: for any
\* calls, any number of them under way, any status updates and any limits
\* (client.py:573, 596, 612, 620, 632).
THEOREM CallsArrive == Spec => []InformedCallsArrive
  <1>1. Init => SettingsInv
    <2> SUFFICES ASSUME Init PROVE SettingsInv
      OBVIOUS
    <2>1. \A f \in Fields : goal[f] = None
      BY DEF Init
    <2> QED
      BY <2>1 DEF SettingsInv, Fields
  <1>2. TypeOK /\ SettingsInv /\ [Next]_vars => SettingsInv'
    <2> SUFFICES ASSUME TypeOK, SettingsInv, [Next]_vars PROVE SettingsInv'
      OBVIOUS
    <2>1. CASE Receive \/ SpaReports \/ UNCHANGED vars
      <3>1. UNCHANGED <<spa, toSpa, goal>>
        BY <2>1 DEF Receive, SpaReports, vars
      <3> QED
        BY <3>1 DEF SettingsInv
    <2>2. CASE Touch
      <3> DEFINE S == {f \in Fields : SettingsIn(spa)[f] # SettingsIn(spa')[f]}
                        \cup (IF Unit(spa) = Unit(spa') THEN {} ELSE {"target"})
      <3>1. toSpa' = toSpa /\ goal' = [f \in Fields |-> IF f \in S THEN None ELSE goal[f]]
        BY <2>2, Zenon DEF Touch, queues, Void
      <3>2. \A f \in Fields \ S : Same(f, spa, spa')
        BY DEF Same
      <3> HIDE DEF S
      <3> QED
        BY <3>1, <3>2, VoidArrives
    <2>3. CASE Turn
      <3>1. PICK p \in ControlBytes \ {10}, bit \in 0 .. 7 : spa' = Flip(spa, p, bit)
        BY <2>3 DEF Turn
      <3>2. \A q \in {3, 4, 9, 10, 20} : spa'[q] = spa[q]
        <4>1. {3, 4, 9, 10, 20} \subseteq StatusBytes /\ p \in StatusBytes /\ p \notin {3, 4, 9, 10, 20}
          BY DEF StatusBytes, ControlBytes
        <4>2. \A q \in StatusBytes : q # p => spa'[q] = spa[q]
          <5>1. spa \in Status /\ p \in StatusBytes /\ bit \in 0 .. 7
            BY <3>1, <4>1 DEF TypeOK
          <5>2. \A q \in StatusBytes : q # p => Flip(spa, p, bit)[q] = spa[q]
            BY <5>1, FlippedStatus
          <5> QED
            BY <3>1, <5>2, Zenon
        <4> QED
          BY <4>1, <4>2
      <3>3. /\ Unit(spa') = Unit(spa) /\ TargetTemperature(spa') = TargetTemperature(spa)
            /\ Is24(spa') = Is24(spa) /\ TemperatureRange(spa') = TemperatureRange(spa)
        BY <3>2, BytesTell DEF TemperatureRange
      <3>4. \A f \in Fields : Same(f, spa, spa')
        BY <3>2, <3>3, SettingsFields DEF Same, Fields
      <3>5. UNCHANGED <<toSpa, goal>>
        BY <2>3 DEF Turn, queues
      <3> QED
        BY <3>4, <3>5, SameArrives DEF SettingsInv
    <2>4. CASE Drop
      <3> DEFINE S == UNION {Changes[toSpa[i].kind] : i \in DOMAIN toSpa}
      <3>1. toSpa' = <<>> /\ spa' = spa
            /\ goal' = [f \in Fields |-> IF f \in S THEN None ELSE goal[f]]
        BY <2>4, Zenon DEF Drop, Void
      <3>2. \A f : Changers(f, toSpa') = {}
        BY <3>1 DEF Changers
      <3>3. \A f \in Fields : f \notin S => Changers(f, toSpa) = {}
        BY DEF Changers
      <3> HIDE DEF S
      <3>4. ASSUME NEW f \in Fields, goal'[f] # None
            PROVE  Arrives(f, toSpa', spa', goal'[f])
        <4>1. goal'[f] = goal[f] /\ Changers(f, toSpa) = {}
          BY <3>1, <3>3, <3>4
        <4>2. SettingsIn(spa)[f] = goal[f]
          BY <3>4, <4>1 DEF SettingsInv, Arrives
        <4> QED
          BY <3>1, <3>2, <4>1, <4>2 DEF Arrives
      <3> QED
        BY <3>2, <3>4 DEF SettingsInv
    <2> QED
      BY <2>1, <2>2, <2>3, <2>4, SetTemperatureArrives, SetTemperatureRangeArrives,
         SetTemperatureUnitArrives, SetTimeArrives, Set24HourTimeArrives, TakesArrive DEF Next
  <1>3. SettingsInv => InformedCallsArrive
    <2> SUFFICES ASSUME SettingsInv, toSpa = <<>>, NEW f \in Fields, goal[f] # None
                 PROVE  SettingsIn(spa)[f] = goal[f]
      BY DEF InformedCallsArrive
    <2>1. Changers(f, toSpa) = {}
      BY DEF Changers
    <2> QED
      BY <2>1 DEF SettingsInv, Arrives
  <1> QED
    BY <1>1, <1>2, <1>3, TypeCorrect, PTL DEF Spec
=============================================================================
