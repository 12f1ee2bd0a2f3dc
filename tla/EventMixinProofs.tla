-------------------------- MODULE EventMixinProofs --------------------------
(***************************************************************************)
(* What holds of EventMixin for any callbacks, and any number of           *)
(* registrations and removals.                                             *)
(***************************************************************************)
EXTENDS EventMixin, FiniteSetTheorems, SequenceTheorems, TLAPS

(***************************************************************************)
(* The list of callbacks                                                   *)
(***************************************************************************)

\* What unsubscribe() leaves of a list: the registrations behind the one that
\* goes move one place to the front.
LEMMA RemoveAtProperties ==
  ASSUME NEW S, NEW s \in Seq(S), NEW k \in DOMAIN s
  PROVE  /\ RemoveAt(s, k) \in Seq(S)
         /\ Len(RemoveAt(s, k)) = Len(s) - 1
         /\ \A i \in 1 .. Len(s) - 1 : RemoveAt(s, k)[i] = IF i < k THEN s[i] ELSE s[i + 1]
  <1>0. Len(s) \in Nat /\ k \in 1 .. Len(s)
    BY LenProperties
  <1>1. SubSeq(s, 1, k - 1) \in Seq(S) /\ Len(SubSeq(s, 1, k - 1)) = k - 1
        /\ \A i \in 1 .. k - 1 : SubSeq(s, 1, k - 1)[i] = s[i]
    BY <1>0
  <1>2. SubSeq(s, k + 1, Len(s)) \in Seq(S) /\ Len(SubSeq(s, k + 1, Len(s))) = Len(s) - k
        /\ \A i \in 1 .. Len(s) - k : SubSeq(s, k + 1, Len(s))[i] = s[k + i]
    BY <1>0
  <1> DEFINE front == SubSeq(s, 1, k - 1)
             rear == SubSeq(s, k + 1, Len(s))
  <1>3. RemoveAt(s, k) = front \o rear
    BY DEF RemoveAt
  <1> HIDE DEF front, rear
  <1>4. /\ front \o rear \in Seq(S) /\ Len(front \o rear) = Len(front) + Len(rear)
        /\ \A i \in 1 .. Len(front) + Len(rear) :
             (front \o rear)[i] = IF i <= Len(front) THEN front[i] ELSE rear[i - Len(front)]
    BY <1>1, <1>2, ConcatProperties DEF front, rear
  <1>5. Len(front) = k - 1 /\ Len(rear) = Len(s) - k
    BY <1>1, <1>2 DEF front, rear
  <1>6. ASSUME NEW i \in 1 .. Len(s) - 1
        PROVE  (front \o rear)[i] = IF i < k THEN s[i] ELSE s[i + 1]
    <2>1. CASE i < k
      <3>1. i \in 1 .. k - 1 /\ i <= Len(front) /\ i \in 1 .. Len(front) + Len(rear)
        BY <1>0, <1>5, <2>1
      <3> QED
        BY <1>1, <1>4, <2>1, <3>1 DEF front
    <2>2. CASE ~(i < k)
      <3>1. /\ ~(i <= Len(front)) /\ i \in 1 .. Len(front) + Len(rear)
            /\ i - Len(front) = i + 1 - k /\ i + 1 - k \in 1 .. Len(s) - k
        BY <1>0, <1>5, <2>2
      <3>2. \A j \in 1 .. Len(s) - k : rear[j] = s[k + j]
        BY <1>2 DEF rear
      <3>3. k + (i + 1 - k) = i + 1
        BY <1>0
      <3>4. rear[i + 1 - k] = s[i + 1]
        BY <3>1, <3>2, <3>3
      <3> QED
        BY <1>4, <2>2, <3>1, <3>4
    <2> QED
      BY <2>1, <2>2
  <1> QED
    BY <1>0, <1>3, <1>4, <1>5, <1>6

\* The elements of a list are finitely many.
LEMMA ToSetFinite ==
  ASSUME NEW S, NEW s \in Seq(S)
  PROVE  IsFiniteSet(ToSet(s)) /\ ToSet(s) \subseteq S
  <1>1. IsFiniteSet(DOMAIN s)
    BY LenProperties, FS_Interval
  <1>2. [i \in DOMAIN s |-> s[i]] \in Surjection(DOMAIN s, ToSet(s))
    BY DEF Surjection, ToSet
  <1>3. ToSet(s) \subseteq S
    BY DEF ToSet
  <1> QED
    BY <1>1, <1>2, <1>3, FS_Surjection

(***************************************************************************)
(* The invariant                                                           *)
(***************************************************************************)

\* So far emit() has called what stands, or stood, at the indices up to here.
Passed == IF inside THEN at ELSE at - 1

\* The callbacks that have been registered all the time and not been called, and
\* that it will not come to any more; and the registrations that it is past.
Lost == {c \in stayed : ran[c] = 0 /\ \A i \in DOMAIN listeners : listeners[i] = c => i <= Passed}
Behind(c) == {i \in DOMAIN listeners : listeners[i] = c /\ i <= Passed}

EmissionInv ==
  /\ TypeOK
  /\ inside => at \in 1 .. MaxListeners
  /\ stayed \subseteq ToSet(listeners)
  /\ at > 0 => /\ Cardinality(Lost) <= removals
               /\ \A c \in Callbacks : ran[c] <= Cardinality(Behind(c)) + gone[c]
  /\ MissesFewerThanRemoved

LEMMA BoundsAreNatural == MaxListeners \in Nat /\ MaxChanges \in Nat
  BY EventAssumption

\* Finite sets are as good as numbers here.
LEMMA Finite ==
  ASSUME EmissionInv
  PROVE  /\ IsFiniteSet(stayed) /\ IsFiniteSet(Lost) /\ Cardinality(Lost) \in Nat
         /\ \A c : IsFiniteSet(Behind(c)) /\ Cardinality(Behind(c)) \in Nat
  <1>1. listeners \in Seq(Callbacks)
    BY DEF EmissionInv, TypeOK
  <1>2. IsFiniteSet(stayed)
    BY <1>1, ToSetFinite, FS_Subset DEF EmissionInv
  <1>3. IsFiniteSet(Lost)
    BY <1>2, FS_Subset DEF Lost
  <1>4. IsFiniteSet(DOMAIN listeners)
    BY <1>1, LenProperties, FS_Interval
  <1>5. ASSUME NEW c PROVE IsFiniteSet(Behind(c))
    BY <1>4, FS_Subset DEF Behind
  <1> QED
    BY <1>2, <1>3, <1>5, FS_CardinalityType

\* on() adds a registration at the end, where emit() has yet to come.
LEMMA OnKeeps ==
  ASSUME EmissionInv, NEW c \in Callbacks, On(c)
  PROVE  EmissionInv'
  <1> USE BoundsAreNatural
  <1>1. /\ listeners \in Seq(Callbacks) /\ listeners' = Append(listeners, c)
        /\ UNCHANGED <<at, inside, ended, ran, stayed, removals, gone>>
    BY DEF On, emission, EmissionInv, TypeOK
  <1>2. /\ listeners' \in Seq(Callbacks) /\ Len(listeners') = Len(listeners) + 1
        /\ Len(listeners) \in Nat /\ DOMAIN listeners = 1 .. Len(listeners)
        /\ DOMAIN listeners' = 1 .. Len(listeners) + 1
        /\ \A i \in 1 .. Len(listeners) : listeners'[i] = listeners[i]
    BY <1>1
  <1>3. TypeOK'
    BY <1>1, <1>2 DEF On, May, EmissionInv, TypeOK
  <1>4. stayed' \subseteq ToSet(listeners')
    BY <1>1, <1>2 DEF EmissionInv, ToSet
  <1>5. Passed' = Passed
    BY <1>1 DEF Passed
  <1>6. Cardinality(Lost') <= Cardinality(Lost) /\ Cardinality(Lost') \in Nat
    <2>1. Lost' \subseteq Lost
      BY <1>1, <1>2, <1>5 DEF Lost
    <2> QED
      BY <2>1, Finite, FS_Subset, FS_CardinalityType
  <1>7. ASSUME NEW d
        PROVE  Cardinality(Behind(d)) <= Cardinality(Behind(d)') /\ Cardinality(Behind(d)') \in Nat
    <2>1. Behind(d) \subseteq Behind(d)'
      BY <1>2, <1>5 DEF Behind
    <2>2. IsFiniteSet(Behind(d)')
      <3>1. IsFiniteSet(DOMAIN listeners')
        BY <1>2, FS_Interval
      <3> QED
        BY <3>1, FS_Subset DEF Behind
    <2> QED
      BY <2>1, <2>2, FS_Subset, FS_CardinalityType
  <1>8. ASSUME at' > 0
        PROVE  /\ Cardinality(Lost') <= removals'
               /\ \A d \in Callbacks : ran'[d] <= Cardinality(Behind(d)') + gone'[d]
    <2>1. Cardinality(Lost) <= removals /\ removals \in Nat
      BY <1>1, <1>8 DEF EmissionInv, TypeOK
    <2>2. ASSUME NEW d \in Callbacks
          PROVE  ran[d] <= Cardinality(Behind(d)) + gone[d] /\ ran[d] \in Nat /\ gone[d] \in Nat
      BY <1>1, <1>8 DEF EmissionInv, TypeOK
    <2> QED
      BY <1>1, <1>6, <1>7, <2>1, <2>2, Finite
  <1>9. MissesFewerThanRemoved'
    BY <1>1 DEF EmissionInv, MissesFewerThanRemoved, Missed
  <1> QED
    BY <1>1, <1>3, <1>4, <1>8, <1>9 DEF EmissionInv

\* A removal moves at most one registration past the index that emit() has
\* reached: the callback there may be lost, or the removed one itself; and those
\* that emit() is past remain so, but for the removed one.
LEMMA RemovalKeeps ==
  ASSUME EmissionInv, NEW c \in Callbacks, Unsubscribe(c), c \in ToSet(listeners)
  PROVE  EmissionInv'
  <1> USE BoundsAreNatural
  <1>1. PICK k \in DOMAIN listeners : listeners[k] = c /\ listeners' = RemoveAt(listeners, k)
    BY DEF Unsubscribe
  <1>2. /\ UNCHANGED <<at, inside, ended, ran>>
        /\ removals' = removals + 1 /\ gone' = [gone EXCEPT ![c] = @ + 1]
        /\ stayed' = stayed \cap ToSet(listeners')
    BY DEF Unsubscribe, emission
  <1>3. /\ listeners \in Seq(Callbacks) /\ removals \in Nat /\ at \in Nat
        /\ ran \in [Callbacks -> Nat] /\ gone \in [Callbacks -> Nat]
    BY DEF EmissionInv, TypeOK
  <1> DEFINE n == Len(listeners)
  <1>4. /\ n \in Nat /\ k \in 1 .. n /\ DOMAIN listeners = 1 .. n
        /\ listeners' \in Seq(Callbacks) /\ DOMAIN listeners' = 1 .. n - 1 /\ Len(listeners') = n - 1
    BY <1>1, <1>3, RemoveAtProperties, LenProperties
  <1>5. \A i \in 1 .. n - 1 : listeners'[i] = IF i < k THEN listeners[i] ELSE listeners[i + 1]
    BY <1>1, <1>3, RemoveAtProperties
  <1>6. TypeOK'
    <2>1. changes' \in 0 .. MaxChanges /\ removals' \in 0 .. changes'
      BY <1>2 DEF Unsubscribe, May, EmissionInv, TypeOK
    <2>2. gone' \in [Callbacks -> Nat]
      BY <1>2, <1>3
    <2>3. Len(listeners') <= MaxListeners
      BY <1>4 DEF EmissionInv, TypeOK
    <2>4. stayed' \subseteq Callbacks
      BY <1>2 DEF EmissionInv, TypeOK
    <2>5. removals' \in 0 .. changes' /\ changes' \in 0 .. MaxChanges
      BY <2>1
    <2> QED
      BY <1>2, <1>4, <2>2, <2>3, <2>4, <2>5 DEF EmissionInv, TypeOK
  <1>7. ASSUME at > 0
        PROVE  Cardinality(Lost') <= removals'
    <2>1. inside /\ Passed = at /\ Passed' = at
      BY <1>2, <1>7 DEF Unsubscribe, May, Passed
    <2> DEFINE x == IF k <= at THEN listeners[at + 1] ELSE c
    <2>2. ASSUME NEW d \in Lost', d \notin Lost
          PROVE  d = x
      <3>1. d \in stayed /\ ran[d] = 0 /\ \A i \in 1 .. n - 1 : listeners'[i] = d => i <= at
        BY <1>2, <1>4, <2>1, <2>2 DEF Lost
      <3>2. PICK i \in 1 .. n : listeners[i] = d /\ ~(i <= at)
        BY <1>4, <2>1, <2>2, <3>1 DEF Lost
      <3>3. ~(i < k)
        BY <1>4, <1>5, <3>1, <3>2
      <3>4. CASE i = k
        BY <1>1, <1>3, <1>4, <3>2, <3>4
      <3>5. CASE i > k
        <4>1. i - 1 \in 1 .. n - 1 /\ ~(i - 1 < k) /\ (i - 1) + 1 = i
          BY <1>4, <3>5
        <4>2. listeners'[i - 1] = d
          BY <1>5, <3>2, <4>1
        <4>3. i - 1 <= at
          BY <3>1, <4>1, <4>2
        <4>4. i = at + 1 /\ k <= at
          BY <1>3, <1>4, <3>2, <3>5, <4>3
        <4> QED
          BY <3>2, <4>4
      <3> QED
        BY <1>4, <3>3, <3>4, <3>5
    <2> HIDE DEF x
    <2>3. Lost' \subseteq Lost \cup {x}
      BY <2>2
    <2>4. IsFiniteSet(Lost \cup {x}) /\ Cardinality(Lost \cup {x}) <= Cardinality(Lost) + 1
      <3>1. IsFiniteSet(Lost) /\ Cardinality(Lost) \in Nat
        BY Finite
      <3>2. /\ IsFiniteSet(Lost \cup {x})
            /\ Cardinality(Lost \cup {x}) = IF x \in Lost THEN Cardinality(Lost)
                                                         ELSE Cardinality(Lost) + 1
        BY <3>1, FS_AddElement
      <3> HIDE DEF Lost
      <3> QED
        BY <3>1, <3>2
    <2>5. Cardinality(Lost') <= Cardinality(Lost \cup {x}) /\ IsFiniteSet(Lost')
      BY <2>3, <2>4, FS_Subset
    <2>6. Cardinality(Lost) <= removals
      BY <1>7 DEF EmissionInv
    <2> QED
      BY <1>2, <1>3, <2>4, <2>5, <2>6, Finite, FS_CardinalityType
  <1>8. ASSUME at > 0, NEW d \in Callbacks
        PROVE  ran'[d] <= Cardinality(Behind(d)') + gone'[d]
    <2>1. inside /\ Passed = at /\ Passed' = at
      BY <1>2, <1>8 DEF Unsubscribe, May, Passed
    <2> DEFINE B == Behind(d) \ {k}
               f == [i \in B |-> IF i < k THEN i ELSE i - 1]
    <2>2. ASSUME NEW i \in B
          PROVE  f[i] \in Behind(d)'
      <3>1. i \in 1 .. n /\ listeners[i] = d /\ i <= at /\ i # k
        BY <1>4, <2>1 DEF Behind
      <3>2. CASE i < k
        <4>1. i \in 1 .. n - 1 /\ i < k
          BY <1>4, <3>1, <3>2
        <4>2. listeners'[i] = d
          BY <1>5, <3>1, <4>1
        <4>3. f[i] = i
          BY <3>2
        <4> QED
          BY <1>4, <2>1, <3>1, <4>1, <4>2, <4>3 DEF Behind
      <3>3. CASE i > k
        <4>1. i - 1 \in 1 .. n - 1 /\ ~(i - 1 < k) /\ (i - 1) + 1 = i /\ i - 1 <= at
          BY <1>3, <1>4, <3>1, <3>3
        <4>2. listeners'[i - 1] = d
          BY <1>5, <3>1, <4>1
        <4>3. f[i] = i - 1
          BY <1>4, <3>1, <3>3
        <4> QED
          BY <1>4, <2>1, <4>1, <4>2, <4>3 DEF Behind
      <3> QED
        BY <1>4, <3>1, <3>2, <3>3
    <2>3. ASSUME NEW i \in B, NEW j \in B, f[i] = f[j]
          PROVE  i = j
      <3>1. i \in Int /\ j \in Int /\ i # k /\ j # k
        BY <1>4 DEF Behind
      <3> QED
        BY <1>4, <2>3, <3>1
    <2>4. f \in Injection(B, Behind(d)')
      <3>1. f \in [B -> Behind(d)']
        BY <2>2
      <3> HIDE DEF f, B
      <3> QED
        BY <2>3, <3>1 DEF Injection, IsInjective
    <2>5. IsFiniteSet(Behind(d)')
      <3>1. IsFiniteSet(DOMAIN listeners')
        BY <1>4, FS_Interval
      <3> QED
        BY <3>1, FS_Subset DEF Behind
    <2>6. Cardinality(B) <= Cardinality(Behind(d)') /\ Cardinality(Behind(d)') \in Nat
      BY <2>4, <2>5, FS_Injection, FS_CardinalityType
    <2>7. /\ Cardinality(Behind(d)) \in Nat
          /\ Cardinality(B) = IF k \in Behind(d) THEN Cardinality(Behind(d)) - 1
                                                 ELSE Cardinality(Behind(d))
      BY Finite, FS_RemoveElement
    <2>8. k \in Behind(d) => d = c
      BY <1>1 DEF Behind
    <2>9. ran[d] <= Cardinality(Behind(d)) + gone[d] /\ ran[d] \in Nat /\ gone[d] \in Nat
      BY <1>3, <1>8 DEF EmissionInv
    <2>10. ran'[d] = ran[d] /\ gone'[d] = IF d = c THEN gone[d] + 1 ELSE gone[d]
      BY <1>2, <1>3
    <2> HIDE DEF B, f
    <2> QED
      BY <2>6, <2>7, <2>8, <2>9, <2>10
  <1>9. MissesFewerThanRemoved'
    <2>1. Missed' \subseteq Missed /\ Missed \subseteq stayed
      BY <1>2 DEF Missed
    <2>2. Cardinality(Missed') <= Cardinality(Missed)
          /\ Cardinality(Missed') \in Nat /\ Cardinality(Missed) \in Nat
      BY <2>1, Finite, FS_Subset, FS_CardinalityType
    <2> QED
      BY <1>2, <1>3, <2>2 DEF EmissionInv, MissesFewerThanRemoved
  <1> QED
    BY <1>2, <1>6, <1>7, <1>8, <1>9 DEF EmissionInv

\* To call the callback that emit() has come to loses none.
LEMMA CallsKeeps ==
  ASSUME EmissionInv, Calls
  PROVE  EmissionInv'
  <1> USE BoundsAreNatural
  <1>1. /\ at \in Nat /\ at > 0 /\ ~inside /\ at <= Len(listeners) /\ inside' = TRUE
        /\ ran' = [ran EXCEPT ![listeners[at]] = @ + 1]
        /\ UNCHANGED <<listeners, at, ended, stayed, removals, gone, changes>>
    BY DEF Calls, EmissionInv, TypeOK
  <1>2. /\ listeners \in Seq(Callbacks) /\ removals \in Nat
        /\ ran \in [Callbacks -> Nat] /\ gone \in [Callbacks -> Nat]
    BY DEF EmissionInv, TypeOK
  <1>3. Len(listeners) \in Nat /\ DOMAIN listeners = 1 .. Len(listeners)
    BY <1>2, LenProperties
  <1>4. at \in 1 .. Len(listeners) /\ listeners[at] \in Callbacks
    BY <1>1, <1>2, <1>3
  <1>5. Len(listeners) <= MaxListeners
    BY DEF EmissionInv, TypeOK
  <1>6. Passed = at - 1 /\ Passed' = at
    BY <1>1 DEF Passed
  <1>7. TypeOK' /\ at' \in 1 .. MaxListeners
    <2>1. ran' \in [Callbacks -> Nat]
      BY <1>1, <1>2, <1>4
    <2>2. at' \in 1 .. MaxListeners
      BY <1>1, <1>3, <1>5
    <2> QED
      BY <1>1, <2>1, <2>2 DEF EmissionInv, TypeOK
  <1>8. Cardinality(Lost') <= removals'
    <2>1. ASSUME NEW d \in Lost'
          PROVE  d \in Lost
      <3>1. d \in stayed /\ ran'[d] = 0 /\ \A i \in DOMAIN listeners : listeners[i] = d => i <= at
        BY <1>1, <1>6 DEF Lost
      <3>2. d \in Callbacks
        BY <3>1 DEF EmissionInv, TypeOK
      <3>3. d # listeners[at] /\ ran[d] = 0
        BY <1>1, <1>2, <1>4, <3>1, <3>2
      <3>4. \A i \in DOMAIN listeners : listeners[i] = d => i <= at - 1
        BY <1>1, <1>3, <3>1, <3>3
      <3> QED
        BY <1>6, <3>1, <3>3, <3>4 DEF Lost
    <2>2. Cardinality(Lost') <= Cardinality(Lost) /\ Cardinality(Lost') \in Nat
      BY <2>1, Finite, FS_Subset, FS_CardinalityType
    <2>3. Cardinality(Lost) <= removals
      BY <1>1 DEF EmissionInv
    <2> QED
      BY <1>1, <1>2, <2>2, <2>3, Finite
  <1>9. ASSUME NEW d \in Callbacks
        PROVE  ran'[d] <= Cardinality(Behind(d)') + gone'[d]
    <2>1. ran[d] <= Cardinality(Behind(d)) + gone[d] /\ ran[d] \in Nat /\ gone[d] \in Nat
      BY <1>1, <1>2 DEF EmissionInv
    <2>2. CASE d = listeners[at]
      <3>1. Behind(d)' = Behind(d) \cup {at}
        BY <1>1, <1>3, <1>4, <1>6, <2>2 DEF Behind
      <3>2. at \notin Behind(d)
        BY <1>1, <1>6 DEF Behind
      <3>3. Cardinality(Behind(d)') = Cardinality(Behind(d)) + 1
        BY <3>1, <3>2, Finite, FS_AddElement
      <3> QED
        BY <1>1, <1>2, <2>1, <2>2, <3>3, Finite
    <2>3. CASE d # listeners[at]
      <3>1. Behind(d)' = Behind(d)
        BY <1>1, <1>3, <1>6, <2>3 DEF Behind
      <3> QED
        BY <1>1, <1>2, <2>1, <2>3, <3>1
    <2> QED
      BY <2>2, <2>3
  <1> QED
    BY <1>1, <1>7, <1>8, <1>9 DEF EmissionInv, MissesFewerThanRemoved

\* When emit() begins, all registrations are still to come.
LEMMA EmitKeeps ==
  ASSUME EmissionInv, Emit
  PROVE  EmissionInv'
  <1> USE BoundsAreNatural
  <1>1. /\ at' = 1 /\ ~inside /\ ended' = "not" /\ ran' = [c \in Callbacks |-> 0]
        /\ stayed' = ToSet(listeners) /\ removals' = 0 /\ gone' = [c \in Callbacks |-> 0]
        /\ UNCHANGED <<listeners, inside, changes>>
    BY DEF Emit, EmissionInv
  <1>2. listeners \in Seq(Callbacks) /\ Len(listeners) \in Nat /\ DOMAIN listeners = 1 .. Len(listeners)
    BY LenProperties DEF EmissionInv, TypeOK
  <1>3. TypeOK'
    BY <1>1, <1>2, ToSetFinite DEF EmissionInv, TypeOK
  <1>4. Passed' = 0
    BY <1>1 DEF Passed
  <1>5. Lost' = {}
    BY <1>1, <1>2, <1>4 DEF Lost, ToSet
  <1>6. \A c : IsFiniteSet(Behind(c)') /\ Cardinality(Behind(c)') \in Nat
    <2>1. IsFiniteSet(DOMAIN listeners')
      BY <1>1, <1>2, FS_Interval
    <2> QED
      BY <2>1, FS_Subset, FS_CardinalityType DEF Behind
  <1>7. Cardinality(Lost') = 0
    BY <1>5, FS_EmptySet
  <1> QED
    BY <1>1, <1>3, <1>6, <1>7 DEF EmissionInv, MissesFewerThanRemoved

\* When emit() ends, nothing is to come.
LEMMA EndsKeeps ==
  ASSUME EmissionInv, Ends
  PROVE  EmissionInv'
  <1>1. /\ at \in Nat /\ at > Len(listeners) /\ ~inside /\ at' = 0
        /\ UNCHANGED <<listeners, inside, ran, stayed, removals, gone, changes>>
    BY BoundsAreNatural DEF Ends, EmissionInv, TypeOK
  <1>2. listeners \in Seq(Callbacks) /\ Len(listeners) \in Nat /\ DOMAIN listeners = 1 .. Len(listeners)
    BY LenProperties DEF EmissionInv, TypeOK
  <1>3. TypeOK'
    BY <1>1, BoundsAreNatural DEF Ends, EmissionInv, TypeOK
  <1>4. Missed' = Lost
    <2>1. Passed = at - 1 /\ \A i \in DOMAIN listeners : i <= at - 1
      BY <1>1, <1>2 DEF Passed
    <2> QED
      BY <1>1, <2>1 DEF Missed, Lost
  <1>5. Cardinality(Lost) <= removals
    BY <1>1, <1>2 DEF EmissionInv
  <1> QED
    BY <1>1, <1>3, <1>4, <1>5 DEF EmissionInv, MissesFewerThanRemoved

\* Every step keeps the invariant.
LEMMA EmissionKept ==
  ASSUME EmissionInv, [Next]_vars
  PROVE  EmissionInv'
  <1> USE BoundsAreNatural
  <1>1. ASSUME NEW c \in Callbacks, On(c) PROVE EmissionInv'
    BY <1>1, OnKeeps
  <1>2. ASSUME NEW c \in Callbacks, Unsubscribe(c) PROVE EmissionInv'
    <2>1. CASE c \in ToSet(listeners)
      BY <1>2, <2>1, RemovalKeeps
    <2>2. CASE c \notin ToSet(listeners)
      <3>1. UNCHANGED <<listeners, at, inside, ended, ran, stayed, removals, gone>>
        <4>1. ~ \E i \in DOMAIN listeners : listeners[i] = c
          BY <2>2 DEF ToSet
        <4> QED
          BY <1>2, <4>1 DEF Unsubscribe, emission
      <3>2. TypeOK'
        BY <1>2, <3>1 DEF Unsubscribe, May, EmissionInv, TypeOK
      <3> QED
        BY <3>1, <3>2 DEF EmissionInv, MissesFewerThanRemoved, Missed, Lost, Behind, Passed
    <2> QED
      BY <2>1, <2>2
  <1>3. CASE Returns
    <2>1. inside /\ inside' = FALSE /\ at' = at + 1 /\ at \in 1 .. MaxListeners
          /\ UNCHANGED <<listeners, ended, ran, stayed, removals, gone, changes>>
      BY <1>3 DEF Returns, EmissionInv
    <2>2. at' \in 0 .. MaxListeners + 1 /\ at' > 0 /\ at' # 0 /\ at > 0
      BY <2>1
    <2>4. TypeOK'
      BY <2>1, <2>2 DEF EmissionInv, TypeOK
    <2>3. Passed' = Passed
      BY <2>1 DEF Passed
    <2>5. Lost' = Lost /\ \A c : Behind(c)' = Behind(c)
      BY <2>1, <2>3 DEF Lost, Behind
    <2> QED
      BY <2>1, <2>2, <2>4, <2>5 DEF EmissionInv, MissesFewerThanRemoved
  <1>4. CASE Raises
    <2>1. inside' = FALSE /\ at' = 0 /\ ended' = "raised"
          /\ UNCHANGED <<listeners, ran, stayed, removals, gone, changes>>
      BY <1>4 DEF Raises
    <2>2. at' \in 0 .. MaxListeners + 1
      BY <2>1
    <2>3. TypeOK'
      BY <2>1, <2>2 DEF EmissionInv, TypeOK
    <2> QED
      BY <2>1, <2>3 DEF EmissionInv, MissesFewerThanRemoved
  <1>5. CASE UNCHANGED vars
    BY <1>5 DEF vars, EmissionInv, TypeOK, MissesFewerThanRemoved, Missed, Lost, Behind, Passed
  <1> QED
    BY <1>1, <1>2, <1>3, <1>4, <1>5, CallsKeeps, EmitKeeps, EndsKeeps DEF Next

\* Nothing is registered and nothing emitted in the initial state.
LEMMA EmissionInit ==
  ASSUME Init
  PROVE  EmissionInv
  <1>1. listeners \in Seq(Callbacks) /\ Len(listeners) = 0
    BY DEF Init
  <1>2. at \in 0 .. MaxListeners + 1 /\ 0 \in 0 .. changes /\ changes \in 0 .. MaxChanges
    BY BoundsAreNatural DEF Init
  <1>3. Len(listeners) <= MaxListeners
    BY <1>1, BoundsAreNatural
  <1>4. TypeOK
    BY <1>1, <1>2, <1>3 DEF Init, TypeOK
  <1> QED
    BY <1>4 DEF Init, EmissionInv, MissesFewerThanRemoved

\* The list, the index and the counts stay what they are: emit() never comes
\* further than one past the longest list there may have been.
THEOREM TypeCorrect == Spec => []TypeOK
  <1>1. Init => EmissionInv
    BY EmissionInit
  <1>2. EmissionInv /\ [Next]_vars => EmissionInv'
    BY EmissionKept
  <1>3. EmissionInv => TypeOK
    BY DEF EmissionInv
  <1> QED
    BY <1>1, <1>2, <1>3, PTL DEF Spec

\* However the callbacks change the list while emit() goes through it, every
\* removal makes it pass over at most one callback that was registered all the
\* time; without a removal it misses none.
THEOREM EmissionMissesFew == Spec => []MissesFewerThanRemoved
  <1>1. Init => EmissionInv
    BY EmissionInit
  <1>2. EmissionInv /\ [Next]_vars => EmissionInv'
    BY EmissionKept
  <1>3. EmissionInv => MissesFewerThanRemoved
    BY DEF EmissionInv
  <1> QED
    BY <1>1, <1>2, <1>3, PTL DEF Spec

\* And it calls each registration at most once, those included that are made or
\* removed meanwhile.
THEOREM EmissionRepeatsNone == Spec => []NoneRepeated
  <1>1. Init => EmissionInv
    BY EmissionInit
  <1>2. EmissionInv /\ [Next]_vars => EmissionInv'
    BY EmissionKept
  <1>3. ASSUME EmissionInv
        PROVE  NoneRepeated
    <2>1. listeners \in Seq(Callbacks) /\ ran \in [Callbacks -> Nat] /\ gone \in [Callbacks -> Nat]
      BY <1>3 DEF EmissionInv, TypeOK
    <2>2. IsFiniteSet(DOMAIN listeners)
      BY <2>1, LenProperties, FS_Interval
    <2>3. ASSUME NEW c
          PROVE  Cardinality(Behind(c)) <= Registered(c) /\ Registered(c) \in Nat
      <3>1. Behind(c) \subseteq {i \in DOMAIN listeners : listeners[i] = c}
        BY DEF Behind
      <3>2. IsFiniteSet({i \in DOMAIN listeners : listeners[i] = c})
        BY <2>2, FS_Subset
      <3> QED
        BY <3>1, <3>2, FS_Subset, FS_CardinalityType DEF Registered
    <2>4. ASSUME at > 0, NEW c \in Callbacks
          PROVE  ran[c] <= Registered(c) + gone[c]
      <3>1. ran[c] <= Cardinality(Behind(c)) + gone[c] /\ ran[c] \in Nat /\ gone[c] \in Nat
        BY <1>3, <2>1, <2>4 DEF EmissionInv
      <3> QED
        BY <1>3, <2>3, <3>1, Finite
    <2> QED
      BY <2>4 DEF NoneRepeated
  <1>4. EmissionInv => NoneRepeated
    BY <1>3
  <1> QED
    BY <1>1, <1>2, <1>4, PTL DEF Spec
=============================================================================
