----------------------------- MODULE DataProofs -----------------------------
(***************************************************************************)
(* The parts of a worker that keep or carry something for the others, for  *)
(* every value of the constants.  They share no state but the ports:       *)
(*                                                                         *)
(*   - Wire: a message is understood as it was meant, for the seat of its  *)
(*     connection, or refused whole (WireAlwaysHolds);                     *)
(*   - Library: what the menu says of a disc is true of it                 *)
(*     (LibraryAlwaysTrue);                                                *)
(*   - Clip: what is kept for a clip fits, and what is played shows the    *)
(*     room (ClipAlwaysShows);                                             *)
(*   - Pipeline: the chain a picture goes through on the card              *)
(*     (PipelineAlwaysSound);                                              *)
(*   - PadPipe: what the emulator holds is the last state not dropped, and *)
(*     the pipe implements PadLevel (NoKeyStaysDown, PipeImplementsLevel); *)
(*   - Devices: the files, the pipes, the pages and a restart agree on     *)
(*     what each place presents (DevicesAlwaysAgree).                      *)
(***************************************************************************)
EXTENDS Wire, PadPipe, Devices, Library, Clip, Pipeline,
        FiniteSetTheorems, SequenceTheorems, WellFoundedInduction, TLAPS

-----------------------------------------------------------------------------
(* What a pad and a page say (protocol)                                     *)

WordValues == 0 .. BYTES * BYTES - 1
Axis == MIN + 1 .. Half - 1
StickSet == [x : Axis, y : Axis]

LEMMA Division ==
    ASSUME NEW a \in Nat, NEW b \in Nat \ {0}
    PROVE  a \div b \in Nat /\ a % b \in 0 .. b - 1 /\ a = b * (a \div b) + (a % b)
<1>1. a % b \in 0 .. b - 1
  OBVIOUS
<1>2. a = b * (a \div b) + (a % b)
  OBVIOUS
<1>3. a \div b \in Int
  OBVIOUS
<1>4. a \div b >= 0
  <2>1. ASSUME a \div b <= -1 PROVE FALSE
    <3>1. b * (a \div b) <= -b
      BY <1>3, <2>1
    <3> QED BY <1>1, <1>2, <1>3, <3>1
  <2> QED BY <1>3, <2>1
<1> QED BY <1>1, <1>2, <1>3, <1>4

LEMMA OneQuotient ==
    ASSUME NEW b \in Nat \ {0}, NEW q \in Nat, NEW r \in 0 .. b - 1
    PROVE  (r + b * q) \div b = q /\ (r + b * q) % b = r
OBVIOUS

LEMMA WireConstants ==
    /\ BYTES \in Nat /\ BYTES >= 8 /\ BYTES * BYTES \in Nat /\ BYTES * BYTES >= 64
    /\ Half \in Nat /\ Half >= 32 /\ 2 * Half = BYTES * BYTES /\ MIN = -Half
    /\ SEAT \in Nat /\ SEAT >= 1 /\ SEAT <= MAX_SLOT /\ MAX_SLOT \in Nat /\ MAX_SLOT < BYTES
<1>1. BYTES \in Nat /\ BYTES >= 8 /\ BYTES % 2 = 0
  BY WireAssumption
<1>2. PICK k \in Nat : BYTES = 2 * k
  <2> DEFINE h == BYTES \div 2
             odd == BYTES % 2
  <2>1. h \in Nat /\ BYTES = 2 * h + odd
    BY <1>1, Division
  <2>2. odd = 0
    BY <1>1
  <2> HIDE DEF h, odd
  <2>3. BYTES = 2 * h
    BY <2>1, <2>2
  <2> QED BY <2>1, <2>3
<1>3. BYTES * BYTES \in Nat /\ BYTES * BYTES >= 64
  <2>1. BYTES * BYTES >= 8 * BYTES
    BY <1>1
  <2> QED BY <1>1, <2>1
<1>4. BYTES * BYTES = 2 * (2 * (k * k)) /\ k * k \in Nat
  BY <1>2
<1>5. Half = 2 * (k * k)
  <2>1. (2 * (2 * (k * k))) \div 2 = 2 * (k * k)
    BY <1>4
  <2> QED BY <1>4, <2>1 DEF Half
<1>6. Half \in Nat /\ Half >= 32 /\ 2 * Half = BYTES * BYTES
  BY <1>3, <1>4, <1>5
<1> QED BY <1>1, <1>3, <1>6, WireAssumption DEF MIN

\* A word is cut in two bytes and put together again.
LEMMA BytesOfAWord ==
    ASSUME NEW w \in WordValues
    PROVE  /\ w % BYTES \in Byte /\ w \div BYTES \in Byte
           /\ (w % BYTES) + BYTES * (w \div BYTES) = w
<1>1. BYTES \in Nat \ {0} /\ w \in Nat /\ w < BYTES * BYTES
  BY WireConstants DEF WordValues
<1>2. w \div BYTES \in Nat /\ w % BYTES \in 0 .. BYTES - 1 /\ w = BYTES * (w \div BYTES) + (w % BYTES)
  BY <1>1, Division
<1>3. w \div BYTES < BYTES
  <2> SUFFICES ASSUME w \div BYTES >= BYTES PROVE FALSE
    BY <1>1, <1>2
  <2>1. BYTES * (w \div BYTES) >= BYTES * BYTES
    BY <1>1, <1>2
  <2> QED BY <1>1, <1>2, <2>1
<1> QED BY <1>1, <1>2, <1>3 DEF Byte

LEMMA WordOfBytes ==
    ASSUME NEW low \in Byte, NEW high \in Byte
    PROVE  /\ low + BYTES * high \in WordValues
           /\ (low + BYTES * high) % BYTES = low /\ (low + BYTES * high) \div BYTES = high
<1>1. BYTES \in Nat \ {0} /\ low \in 0 .. BYTES - 1 /\ high \in 0 .. BYTES - 1
  BY WireConstants DEF Byte
<1>2. (low + BYTES * high) \div BYTES = high /\ (low + BYTES * high) % BYTES = low
  BY <1>1, OneQuotient
<1>3. BYTES * high <= BYTES * (BYTES - 1)
  BY <1>1
<1>4. BYTES * (BYTES - 1) = BYTES * BYTES - BYTES
  BY <1>1
<1>5. BYTES * high \in Nat
  BY <1>1
<1> QED BY <1>1, <1>2, <1>3, <1>4, <1>5 DEF WordValues

\* Signs: an axis is a word, but for the one that has no opposite.
LEMMA WordsAreSigned ==
    ASSUME NEW w \in WordValues
    PROVE  /\ signed(w) \in MIN .. Half - 1 /\ unsigned(signed(w)) = w
           /\ signed(w) = MIN <=> w = Half
BY WireConstants DEF WordValues, signed, unsigned

LEMMA AxesAreWords ==
    ASSUME NEW i \in MIN .. Half - 1
    PROVE  unsigned(i) \in WordValues /\ signed(unsigned(i)) = i
BY WireConstants DEF WordValues, signed, unsigned

LEMMA SticksAreSound ==
    /\ Sticks \subseteq StickSet /\ stick(0, 0) \in StickSet /\ stick(1, -2) \in StickSet
    /\ \A x, y \in MIN .. Half - 1 : stick(x, y) \in StickSet
    /\ \A s \in StickSet : stick(s.x, s.y) = s
<1>1. ASSUME NEW x \in MIN .. Half - 1, NEW y \in MIN .. Half - 1 PROVE stick(x, y) \in StickSet
  <2>1. (IF x = MIN THEN MIN + 1 ELSE x) \in Axis /\ (IF y = MIN THEN MIN + 1 ELSE y) \in Axis
    BY WireConstants DEF Axis
  <2> QED BY <2>1 DEF stick, StickSet
<1>2. {0, 1, -2} \subseteq MIN .. Half - 1
  BY WireConstants
<1>3. \A w \in Words : signed(w) \in MIN .. Half - 1
  BY WireAssumption, WordsAreSigned DEF WordValues
<1>4. Sticks \subseteq StickSet
  BY <1>1, <1>3 DEF Sticks
<1>5. ASSUME NEW s \in StickSet PROVE stick(s.x, s.y) = s
  <2>1. s.x \in Axis /\ s.y \in Axis /\ s = [x |-> s.x, y |-> s.y]
    BY DEF StickSet
  <2>2. s.x # MIN /\ s.y # MIN
    BY <2>1, WireConstants DEF Axis
  <2> QED BY <2>1, <2>2 DEF stick
<1> QED BY <1>1, <1>2, <1>4, <1>5

\* Sequences of bytes put end to end.
Joined(s, t, st) ==
    /\ st \in Seq(Byte) /\ Len(st) = Len(s) + Len(t)
    /\ \A i \in 1 .. Len(s) : st[i] = s[i]
    /\ \A i \in 1 .. Len(t) : st[Len(s) + i] = t[i]

LEMMA EndToEnd ==
    ASSUME NEW s \in Seq(Byte), NEW t \in Seq(Byte) PROVE Joined(s, t, s \o t)
<1>1. Len(s) \in Nat /\ Len(t) \in Nat
  BY LenProperties
<1>2. /\ s \o t \in Seq(Byte) /\ Len(s \o t) = Len(s) + Len(t)
      /\ \A i \in 1 .. Len(s) + Len(t) : (s \o t)[i] = IF i <= Len(s) THEN s[i] ELSE t[i - Len(s)]
  BY ConcatProperties
<1>3. \A i \in 1 .. Len(s) : (s \o t)[i] = s[i]
  BY <1>1, <1>2
<1>4. ASSUME NEW i \in 1 .. Len(t) PROVE (s \o t)[Len(s) + i] = t[i]
  <2>1. Len(s) + i \in 1 .. Len(s) + Len(t) /\ ~(Len(s) + i <= Len(s)) /\ (Len(s) + i) - Len(s) = i
    BY <1>1
  <2> QED BY <1>2, <2>1
<1> QED BY <1>2, <1>3, <1>4 DEF Joined

LEMMA WordBytes ==
    ASSUME NEW w \in WordValues
    PROVE  le(w) \in Seq(Byte) /\ Len(le(w)) = 2 /\ le(w)[1] + BYTES * le(w)[2] = w
<1>1. w % BYTES \in Byte /\ w \div BYTES \in Byte /\ (w % BYTES) + BYTES * (w \div BYTES) = w
  BY BytesOfAWord
<1> DEFINE low == w % BYTES
           high == w \div BYTES
<1> HIDE DEF low, high
<1>2. <<low, high>> \in Seq(Byte) /\ Len(<<low, high>>) = 2
      /\ <<low, high>>[1] = low /\ <<low, high>>[2] = high
  BY <1>1 DEF low, high
<1>3. le(w) = <<low, high>>
  BY DEF le, low, high
<1> QED BY <1>1, <1>2, <1>3 DEF low, high

LEMMA AxesBytes ==
    ASSUME NEW s \in StickSet
    PROVE  /\ Axes(s) \in Seq(Byte) /\ Len(Axes(s)) = 4
           /\ word(Axes(s), 1) = unsigned(s.x) /\ word(Axes(s), 3) = unsigned(s.y)
<1> DEFINE a == le(unsigned(s.x))
           b == le(unsigned(s.y))
<1>1. unsigned(s.x) \in WordValues /\ unsigned(s.y) \in WordValues
  <2>1. s.x \in MIN .. Half - 1 /\ s.y \in MIN .. Half - 1
    BY WireConstants DEF StickSet, Axis
  <2> QED BY <2>1, AxesAreWords
<1>2. /\ a \in Seq(Byte) /\ Len(a) = 2 /\ a[1] + BYTES * a[2] = unsigned(s.x)
      /\ b \in Seq(Byte) /\ Len(b) = 2 /\ b[1] + BYTES * b[2] = unsigned(s.y)
  BY <1>1, WordBytes
<1>3. Axes(s) = a \o b
  BY DEF Axes
<1> HIDE DEF a, b
<1>4. Joined(a, b, Axes(s))
  BY <1>2, <1>3, EndToEnd
<1>5. /\ Axes(s) \in Seq(Byte) /\ Len(Axes(s)) = 4
      /\ Axes(s)[1] = a[1] /\ Axes(s)[2] = a[2] /\ Axes(s)[3] = b[1] /\ Axes(s)[4] = b[2]
  BY <1>2, <1>4 DEF Joined
<1> QED BY <1>2, <1>5 DEF word

\* The bytes of a Dolphin pad and of a Switch pad, each word at its place.
GoodPad == [is : {"pad"}, slot : 1 .. MAX_SLOT, buttons : WordValues, main : StickSet, c : StickSet,
            l : Byte, r : Byte]
GoodSwitchPad == [is : {"switch"}, slot : 1 .. MAX_SLOT, buttons : WordValues, left : StickSet,
                  right : StickSet]

PadBytes(m, b) ==
    /\ b \in Seq(Byte) /\ Len(b) = WIRE_LEN
    /\ word(b, 1) = m.buttons /\ b[3] = m.slot
    /\ word(b, 4) = unsigned(m.main.x) /\ word(b, 6) = unsigned(m.main.y)
    /\ word(b, 8) = unsigned(m.c.x) /\ word(b, 10) = unsigned(m.c.y)
    /\ b[12] = m.l /\ b[13] = m.r

LEMMA PadIsEncoded ==
    ASSUME NEW m \in GoodPad PROVE PadBytes(m, encode(m))
<1>0. /\ m.is = "pad" /\ m.slot \in 1 .. MAX_SLOT /\ m.buttons \in WordValues /\ m.main \in StickSet
      /\ m.c \in StickSet /\ m.l \in Byte /\ m.r \in Byte
  BY DEF GoodPad
<1> DEFINE s1 == le(m.buttons)
           s2 == <<m.slot>>
           s3 == Axes(m.main)
           s4 == Axes(m.c)
           s5 == <<m.l, m.r>>
<1>1. encode(m) = (((s1 \o s2) \o s3) \o s4) \o s5
  BY <1>0 DEF encode
<1>2. m.slot \in Byte
  BY <1>0, WireConstants DEF Byte
<1>3. s1 \in Seq(Byte) /\ Len(s1) = 2 /\ s1[1] + BYTES * s1[2] = m.buttons
  BY <1>0, WordBytes
<1>4. s2 \in Seq(Byte) /\ Len(s2) = 1 /\ s2[1] = m.slot
  BY <1>2
<1>5. s3 \in Seq(Byte) /\ Len(s3) = 4 /\ word(s3, 1) = unsigned(m.main.x) /\ word(s3, 3) = unsigned(m.main.y)
  BY <1>0, AxesBytes
<1>6. s4 \in Seq(Byte) /\ Len(s4) = 4 /\ word(s4, 1) = unsigned(m.c.x) /\ word(s4, 3) = unsigned(m.c.y)
  BY <1>0, AxesBytes
<1>7. s5 \in Seq(Byte) /\ Len(s5) = 2 /\ s5[1] = m.l /\ s5[2] = m.r
  BY <1>0
<1> HIDE DEF s1, s2, s3, s4, s5
<1> DEFINE j1 == s1 \o s2
           j2 == j1 \o s3
           j3 == j2 \o s4
           j4 == j3 \o s5
<1>8. j1 \in Seq(Byte) /\ Len(j1) = 3 /\ j1[1] = s1[1] /\ j1[2] = s1[2] /\ j1[3] = m.slot
  <2>1. Joined(s1, s2, j1)
    BY <1>3, <1>4, EndToEnd
  <2> HIDE DEF j1
  <2> QED BY <1>3, <1>4, <2>1 DEF Joined
<1>9. /\ j2 \in Seq(Byte) /\ Len(j2) = 7 /\ \A i \in 1 .. 3 : j2[i] = j1[i]
      /\ j2[4] = s3[1] /\ j2[5] = s3[2] /\ j2[6] = s3[3] /\ j2[7] = s3[4]
  <2>1. Joined(j1, s3, j2)
    BY <1>5, <1>8, EndToEnd
  <2> HIDE DEF j1, j2
  <2> QED BY <1>5, <1>8, <2>1 DEF Joined
<1>10. /\ j3 \in Seq(Byte) /\ Len(j3) = 11 /\ \A i \in 1 .. 7 : j3[i] = j2[i]
       /\ j3[8] = s4[1] /\ j3[9] = s4[2] /\ j3[10] = s4[3] /\ j3[11] = s4[4]
  <2>1. Joined(j2, s4, j3)
    BY <1>6, <1>9, EndToEnd
  <2> HIDE DEF j2, j3
  <2> QED BY <1>6, <1>9, <2>1 DEF Joined
<1>11. /\ j4 \in Seq(Byte) /\ Len(j4) = 13 /\ \A i \in 1 .. 11 : j4[i] = j3[i]
       /\ j4[12] = m.l /\ j4[13] = m.r
  <2>1. Joined(j3, s5, j4)
    BY <1>7, <1>10, EndToEnd
  <2> HIDE DEF j3, j4
  <2> QED BY <1>7, <1>10, <2>1 DEF Joined
<1>12. encode(m) = j4
  BY <1>1
<1> HIDE DEF j1, j2, j3, j4
<1>13. /\ j4[1] = s1[1] /\ j4[2] = s1[2] /\ j4[3] = m.slot
       /\ j4[4] = s3[1] /\ j4[5] = s3[2] /\ j4[6] = s3[3] /\ j4[7] = s3[4]
       /\ j4[8] = s4[1] /\ j4[9] = s4[2] /\ j4[10] = s4[3] /\ j4[11] = s4[4]
  BY <1>8, <1>9, <1>10, <1>11
<1>14. /\ word(j4, 1) = m.buttons
       /\ word(j4, 4) = unsigned(m.main.x) /\ word(j4, 6) = unsigned(m.main.y)
       /\ word(j4, 8) = unsigned(m.c.x) /\ word(j4, 10) = unsigned(m.c.y)
  BY <1>3, <1>5, <1>6, <1>13 DEF word
<1> QED BY <1>11, <1>12, <1>13, <1>14 DEF PadBytes, WIRE_LEN

SwitchBytes(m, b) ==
    /\ b \in Seq(Byte) /\ Len(b) = SWITCH_LEN
    /\ b[1] = SWITCH_TAG /\ b[2] = VERSION /\ b[3] = m.slot
    /\ word(b, 4) = m.buttons /\ b[6] = 0 /\ b[7] = 0
    /\ word(b, 8) = unsigned(m.left.x) /\ word(b, 10) = unsigned(m.left.y)
    /\ word(b, 12) = unsigned(m.right.x) /\ word(b, 14) = unsigned(m.right.y)

LEMMA SwitchPadIsEncoded ==
    ASSUME NEW m \in GoodSwitchPad PROVE SwitchBytes(m, encode(m))
<1>0. /\ m.is = "switch" /\ m.slot \in 1 .. MAX_SLOT /\ m.buttons \in WordValues
      /\ m.left \in StickSet /\ m.right \in StickSet
  BY DEF GoodSwitchPad
<1> DEFINE s1 == <<SWITCH_TAG, VERSION, m.slot>>
           s2 == le(m.buttons)
           s3 == <<0, 0>>
           s4 == Axes(m.left)
           s5 == Axes(m.right)
<1>1. encode(m) = (((s1 \o s2) \o s3) \o s4) \o s5
  BY <1>0 DEF encode
<1>2. m.slot \in Byte /\ SWITCH_TAG \in Byte /\ VERSION \in Byte /\ 0 \in Byte
  BY <1>0, WireConstants DEF Byte, SWITCH_TAG, VERSION
<1>3. s1 \in Seq(Byte) /\ Len(s1) = 3 /\ s1[1] = SWITCH_TAG /\ s1[2] = VERSION /\ s1[3] = m.slot
  BY <1>2
<1>4. s2 \in Seq(Byte) /\ Len(s2) = 2 /\ s2[1] + BYTES * s2[2] = m.buttons
  BY <1>0, WordBytes
<1>5. s3 \in Seq(Byte) /\ Len(s3) = 2 /\ s3[1] = 0 /\ s3[2] = 0
  BY <1>2
<1>6. s4 \in Seq(Byte) /\ Len(s4) = 4 /\ word(s4, 1) = unsigned(m.left.x) /\ word(s4, 3) = unsigned(m.left.y)
  BY <1>0, AxesBytes
<1>7. s5 \in Seq(Byte) /\ Len(s5) = 4 /\ word(s5, 1) = unsigned(m.right.x) /\ word(s5, 3) = unsigned(m.right.y)
  BY <1>0, AxesBytes
<1> HIDE DEF s1, s2, s3, s4, s5
<1> DEFINE j1 == s1 \o s2
           j2 == j1 \o s3
           j3 == j2 \o s4
           j4 == j3 \o s5
<1>8. /\ j1 \in Seq(Byte) /\ Len(j1) = 5 /\ \A i \in 1 .. 3 : j1[i] = s1[i]
      /\ j1[4] = s2[1] /\ j1[5] = s2[2]
  <2>1. Joined(s1, s2, j1)
    BY <1>3, <1>4, EndToEnd
  <2> HIDE DEF j1
  <2> QED BY <1>3, <1>4, <2>1 DEF Joined
<1>9. /\ j2 \in Seq(Byte) /\ Len(j2) = 7 /\ \A i \in 1 .. 5 : j2[i] = j1[i]
      /\ j2[6] = 0 /\ j2[7] = 0
  <2>1. Joined(j1, s3, j2)
    BY <1>5, <1>8, EndToEnd
  <2> HIDE DEF j1, j2
  <2> QED BY <1>5, <1>8, <2>1 DEF Joined
<1>10. /\ j3 \in Seq(Byte) /\ Len(j3) = 11 /\ \A i \in 1 .. 7 : j3[i] = j2[i]
       /\ j3[8] = s4[1] /\ j3[9] = s4[2] /\ j3[10] = s4[3] /\ j3[11] = s4[4]
  <2>1. Joined(j2, s4, j3)
    BY <1>6, <1>9, EndToEnd
  <2> HIDE DEF j2, j3
  <2> QED BY <1>6, <1>9, <2>1 DEF Joined
<1>11. /\ j4 \in Seq(Byte) /\ Len(j4) = 15 /\ \A i \in 1 .. 11 : j4[i] = j3[i]
       /\ j4[12] = s5[1] /\ j4[13] = s5[2] /\ j4[14] = s5[3] /\ j4[15] = s5[4]
  <2>1. Joined(j3, s5, j4)
    BY <1>7, <1>10, EndToEnd
  <2> HIDE DEF j3, j4
  <2> QED BY <1>7, <1>10, <2>1 DEF Joined
<1>12. encode(m) = j4
  BY <1>1
<1> HIDE DEF j1, j2, j3, j4
<1>13. /\ j4[1] = SWITCH_TAG /\ j4[2] = VERSION /\ j4[3] = m.slot
       /\ j4[4] = s2[1] /\ j4[5] = s2[2] /\ j4[6] = 0 /\ j4[7] = 0
       /\ j4[8] = s4[1] /\ j4[9] = s4[2] /\ j4[10] = s4[3] /\ j4[11] = s4[4]
  BY <1>3, <1>8, <1>9, <1>10, <1>11
<1>14. /\ word(j4, 4) = m.buttons
       /\ word(j4, 8) = unsigned(m.left.x) /\ word(j4, 10) = unsigned(m.left.y)
       /\ word(j4, 12) = unsigned(m.right.x) /\ word(j4, 14) = unsigned(m.right.y)
  BY <1>4, <1>6, <1>7, <1>11, <1>13 DEF word
<1> QED BY <1>11, <1>12, <1>13, <1>14 DEF SwitchBytes, SWITCH_LEN

\* What reading gives of bytes, form by form.
PadRead(b) == [is |-> "pad", slot |-> SEAT, buttons |-> word(b, 1), main |-> StickAt(b, 3),
               c |-> StickAt(b, 7), l |-> b[12], r |-> b[13]]
SwitchRead(b) == [is |-> "switch", slot |-> SEAT, buttons |-> word(b, 4),
                  left |-> StickAt(b, 7), right |-> StickAt(b, 11)]
IsEcho(b) == Len(b) = 9 /\ b[1] = TAG
IsCommand(b) == Len(b) = 2 /\ b[1] \in 1 .. 4
IsPad(b) == /\ Len(b) = 13 /\ format = "Dolphin" /\ IsKnown(word(b, 1)) /\ IsSlot(b[3])
IsSwitchPad(b) ==
    /\ Len(b) = 15 /\ format = "Switch" /\ b[1] = SWITCH_TAG /\ b[2] = VERSION /\ IsSlot(b[3])
    /\ IsSwitchKnown(word(b, 4) + BYTES * BYTES * word(b, 6))

LEMMA ReadingForms ==
    ASSUME NEW b \in Seq(Byte), format \in {"Dolphin", "Switch"}
    PROVE  /\ IsEcho(b) => reading(b) = [is |-> "echo", token |-> Tail(b)]
           /\ IsCommand(b) => reading(b) = [is |-> "command", order |-> Opcode[b[1]], argument |-> b[2]]
           /\ IsPad(b) => reading(b) = PadRead(b)
           /\ IsSwitchPad(b) => reading(b) = SwitchRead(b)
           /\ ~IsEcho(b) /\ ~IsCommand(b) /\ ~IsPad(b) /\ ~IsSwitchPad(b)
                => reading(b) \in {HangUpOn, Ignored}
<1>0. Len(b) \in Nat /\ DOMAIN Opcode = 1 .. 4
  BY LenProperties DEF Opcode
<1>1. Len(b) = 9 => reading(b) = bounce(b)
  BY DEF reading, ECHO, COMMAND
<1>2. Len(b) = 2 => reading(b) = decode_command(b)
  BY DEF reading, ECHO, COMMAND
<1>3. Len(b) # 9 /\ Len(b) # 2 => reading(b) = decode(b)
  BY DEF reading, ECHO, COMMAND
<1>4. format = "Dolphin" /\ Len(b) = 13 => decode(b) = decode_pad(b)
  BY DEF decode, WIRE_LEN
<1>5. format = "Switch" /\ Len(b) = 15 => decode(b) = decode_switch(b)
  BY DEF decode, WIRE_LEN, SWITCH_LEN
<1>6. ~(format = "Dolphin" /\ Len(b) = 13) /\ ~(format = "Switch" /\ Len(b) = 15)
        => decode(b) = HangUpOn
  BY DEF decode, WIRE_LEN, SWITCH_LEN
<1>7. IsPad(b) => decode_pad(b) = PadRead(b)
  BY DEF decode_pad, PadRead, IsPad
<1>8. IsSwitchPad(b) => decode_switch(b) = SwitchRead(b)
  BY DEF decode_switch, SwitchRead, IsSwitchPad
<1>9. format = "Dolphin" /\ Len(b) = 13 /\ ~IsPad(b) => decode_pad(b) = HangUpOn
  BY DEF decode_pad, IsPad
<1>10. format = "Switch" /\ Len(b) = 15 /\ ~IsSwitchPad(b) => decode_switch(b) = HangUpOn
  BY DEF decode_switch, IsSwitchPad
<1>11. /\ b[1] = TAG => bounce(b) = [is |-> "echo", token |-> Tail(b)]
       /\ b[1] # TAG => bounce(b) = Ignored
  BY DEF bounce
<1>12. /\ b[1] \in 1 .. 4 =>
            decode_command(b) = [is |-> "command", order |-> Opcode[b[1]], argument |-> b[2]]
       /\ b[1] \notin 1 .. 4 => decode_command(b) = HangUpOn
  BY <1>0 DEF decode_command
<1>13. IsPad(b) => Len(b) = 13 /\ format = "Dolphin"
  BY DEF IsPad
<1>14. IsSwitchPad(b) => Len(b) = 15 /\ format = "Switch"
  BY DEF IsSwitchPad
<1>15. IsEcho(b) => reading(b) = [is |-> "echo", token |-> Tail(b)]
  BY <1>1, <1>11 DEF IsEcho
<1>16. IsCommand(b) => reading(b) = [is |-> "command", order |-> Opcode[b[1]], argument |-> b[2]]
  BY <1>2, <1>12 DEF IsCommand
<1>17. IsPad(b) => reading(b) = PadRead(b)
  <2> SUFFICES ASSUME IsPad(b) PROVE reading(b) = PadRead(b)
    OBVIOUS
  <2>1. Len(b) = 13 /\ format = "Dolphin"
    BY <1>13
  <2>2. Len(b) # 9 /\ Len(b) # 2
    BY <2>1
  <2> QED BY <1>3, <1>4, <1>7, <2>1, <2>2
<1>18. IsSwitchPad(b) => reading(b) = SwitchRead(b)
  <2> SUFFICES ASSUME IsSwitchPad(b) PROVE reading(b) = SwitchRead(b)
    OBVIOUS
  <2>1. Len(b) = 15 /\ format = "Switch"
    BY <1>14
  <2>2. Len(b) # 9 /\ Len(b) # 2
    BY <2>1
  <2> QED BY <1>3, <1>5, <1>8, <2>1, <2>2
<1>19. ASSUME ~IsEcho(b), ~IsCommand(b), ~IsPad(b), ~IsSwitchPad(b)
       PROVE  reading(b) \in {HangUpOn, Ignored}
  <2>1. CASE Len(b) = 9
    BY <1>1, <1>11, <1>19, <2>1 DEF IsEcho
  <2>2. CASE Len(b) = 2
    BY <1>2, <1>12, <1>19, <2>2 DEF IsCommand
  <2>3. CASE Len(b) # 9 /\ Len(b) # 2
    <3>1. reading(b) = decode(b)
      BY <1>3, <2>3
    <3>2. decode(b) = HangUpOn
      BY <1>4, <1>5, <1>6, <1>9, <1>10, <1>19
    <3> QED BY <3>1, <3>2
  <2> QED BY <2>1, <2>2, <2>3
<1> QED BY <1>15, <1>16, <1>17, <1>18, <1>19

\* A page's message is heard as it was meant.
AsHeard(m) == IF m.is \in {"pad", "switch"} THEN [m EXCEPT !.slot = SEAT] ELSE m
Travels(m) ==
    /\ encode(m) \in Seq(Byte) /\ Len(encode(m)) \in 1 .. SWITCH_LEN
    /\ reading(encode(m)) = AsHeard(m)

LEMMA PadTravels ==
    ASSUME NEW m \in PadMessages, format = "Dolphin" PROVE Travels(m)
<1> DEFINE b == encode(m)
<1>1. m \in GoodPad
  <2>1. /\ m.is = "pad" /\ m.slot \in {1, MAX_SLOT} /\ m.buttons \in Words
        /\ m.main \in Sticks /\ m.c \in {stick(0, 0), stick(1, -2)} /\ m.l \in {0, TAG} /\ m.r = 0
        /\ m = [is |-> m.is, slot |-> m.slot, buttons |-> m.buttons, main |-> m.main, c |-> m.c,
                l |-> m.l, r |-> m.r]
    BY DEF PadMessages
  <2>2. m.slot \in 1 .. MAX_SLOT /\ m.l \in Byte /\ m.r \in Byte
    BY <2>1, WireConstants DEF Byte, TAG
  <2>3. m.buttons \in WordValues
    BY <2>1, WireAssumption DEF WordValues
  <2>4. m.main \in StickSet /\ m.c \in StickSet
    BY <2>1, SticksAreSound
  <2> QED BY <2>1, <2>2, <2>3, <2>4 DEF GoodPad
<1>2. PadBytes(m, b)
  BY <1>1, PadIsEncoded
<1>3. /\ m.is = "pad" /\ m.slot \in 1 .. MAX_SLOT /\ m.main \in StickSet /\ m.c \in StickSet
      /\ m = [is |-> m.is, slot |-> m.slot, buttons |-> m.buttons, main |-> m.main, c |-> m.c,
              l |-> m.l, r |-> m.r]
  BY <1>1 DEF GoodPad
<1>4. IsKnown(m.buttons)
  BY DEF PadMessages
<1> HIDE DEF b
<1>5. IsPad(b)
  <2>1. IsSlot(m.slot)
    BY <1>3, WireConstants DEF IsSlot
  <2> QED BY <1>2, <1>4, <2>1 DEF PadBytes, IsPad, WIRE_LEN
<1>6. StickAt(b, 3) = m.main /\ StickAt(b, 7) = m.c
  <2>1. StickAt(b, 3) = stick(signed(word(b, 4)), signed(word(b, 6)))
        /\ StickAt(b, 7) = stick(signed(word(b, 8)), signed(word(b, 10)))
    BY DEF StickAt
  <2>2. \A s \in StickSet : s.x \in MIN .. Half - 1 /\ s.y \in MIN .. Half - 1
    BY WireConstants DEF StickSet, Axis
  <2>3. /\ signed(word(b, 4)) = m.main.x /\ signed(word(b, 6)) = m.main.y
        /\ signed(word(b, 8)) = m.c.x /\ signed(word(b, 10)) = m.c.y
    BY <1>2, <1>3, <2>2, AxesAreWords DEF PadBytes
  <2> QED BY <1>3, <2>1, <2>3, SticksAreSound
<1>7. reading(b) = PadRead(b)
  BY <1>2, <1>5, ReadingForms DEF PadBytes
<1>8. PadRead(b) = AsHeard(m)
  <2>1. PadRead(b) = [is |-> "pad", slot |-> SEAT, buttons |-> m.buttons, main |-> m.main,
                      c |-> m.c, l |-> m.l, r |-> m.r]
    BY <1>2, <1>6 DEF PadRead, PadBytes
  <2>2. AsHeard(m) = [m EXCEPT !.slot = SEAT]
    BY <1>3 DEF AsHeard
  <2>3. [m EXCEPT !.slot = SEAT] = [is |-> "pad", slot |-> SEAT, buttons |-> m.buttons,
            main |-> m.main, c |-> m.c, l |-> m.l, r |-> m.r]
    BY <1>3
  <2> QED BY <2>1, <2>2, <2>3
<1>9. b \in Seq(Byte) /\ Len(b) \in 1 .. SWITCH_LEN
  BY <1>2 DEF PadBytes, WIRE_LEN, SWITCH_LEN
<1> QED BY <1>7, <1>8, <1>9 DEF Travels, b

LEMMA SwitchPadTravels ==
    ASSUME NEW m \in SwitchPadMessages, format = "Switch" PROVE Travels(m)
<1> DEFINE b == encode(m)
<1>1. m \in GoodSwitchPad
  <2>1. /\ m.is = "switch" /\ m.slot \in {1, MAX_SLOT} /\ m.buttons \in Words
        /\ m.left \in Sticks /\ m.right \in {stick(0, 0), stick(1, -2)}
        /\ m = [is |-> m.is, slot |-> m.slot, buttons |-> m.buttons, left |-> m.left,
                right |-> m.right]
    BY DEF SwitchPadMessages
  <2>2. m.slot \in 1 .. MAX_SLOT
    BY <2>1, WireConstants
  <2>3. m.buttons \in WordValues
    BY <2>1, WireAssumption DEF WordValues
  <2>4. m.left \in StickSet /\ m.right \in StickSet
    BY <2>1, SticksAreSound
  <2> QED BY <2>1, <2>2, <2>3, <2>4 DEF GoodSwitchPad
<1>2. SwitchBytes(m, b)
  BY <1>1, SwitchPadIsEncoded
<1>3. /\ m.is = "switch" /\ m.slot \in 1 .. MAX_SLOT /\ m.left \in StickSet
      /\ m.right \in StickSet /\ m.buttons \in WordValues
      /\ m = [is |-> m.is, slot |-> m.slot, buttons |-> m.buttons, left |-> m.left,
              right |-> m.right]
  BY <1>1 DEF GoodSwitchPad
<1> HIDE DEF b
<1>5. IsSwitchPad(b)
  <2>1. IsSlot(m.slot)
    BY <1>3, WireConstants DEF IsSlot
  <2>2. word(b, 6) = 0
    BY <1>2, WireConstants DEF SwitchBytes, word
  <2>3. word(b, 4) + BYTES * BYTES * word(b, 6) = m.buttons
    BY <1>2, <1>3, <2>2, WireConstants DEF SwitchBytes, WordValues
  <2>4. IsSwitchKnown(m.buttons)
    BY <1>3, WireConstants DEF IsSwitchKnown, SWITCH_KNOWN, WordValues
  <2> QED BY <1>2, <2>1, <2>3, <2>4 DEF SwitchBytes, IsSwitchPad, SWITCH_LEN
<1>6. StickAt(b, 7) = m.left /\ StickAt(b, 11) = m.right
  <2>1. StickAt(b, 7) = stick(signed(word(b, 8)), signed(word(b, 10)))
        /\ StickAt(b, 11) = stick(signed(word(b, 12)), signed(word(b, 14)))
    BY DEF StickAt
  <2>2. \A s \in StickSet : s.x \in MIN .. Half - 1 /\ s.y \in MIN .. Half - 1
    BY WireConstants DEF StickSet, Axis
  <2>3. /\ signed(word(b, 8)) = m.left.x /\ signed(word(b, 10)) = m.left.y
        /\ signed(word(b, 12)) = m.right.x /\ signed(word(b, 14)) = m.right.y
    BY <1>2, <1>3, <2>2, AxesAreWords DEF SwitchBytes
  <2> QED BY <1>3, <2>1, <2>3, SticksAreSound
<1>7. reading(b) = SwitchRead(b)
  BY <1>2, <1>5, ReadingForms DEF SwitchBytes
<1>8. SwitchRead(b) = AsHeard(m)
  <2>1. SwitchRead(b) = [is |-> "switch", slot |-> SEAT, buttons |-> m.buttons, left |-> m.left,
                         right |-> m.right]
    BY <1>2, <1>6 DEF SwitchRead, SwitchBytes
  <2>2. AsHeard(m) = [m EXCEPT !.slot = SEAT]
    BY <1>3 DEF AsHeard
  <2>3. [m EXCEPT !.slot = SEAT] = [is |-> "switch", slot |-> SEAT, buttons |-> m.buttons,
            left |-> m.left, right |-> m.right]
    BY <1>3
  <2> QED BY <2>1, <2>2, <2>3
<1>9. b \in Seq(Byte) /\ Len(b) \in 1 .. SWITCH_LEN
  BY <1>2 DEF SwitchBytes, SWITCH_LEN
<1> QED BY <1>7, <1>8, <1>9 DEF Travels, b

LEMMA CommandTravels ==
    ASSUME NEW m \in Commands, format \in {"Dolphin", "Switch"} PROVE Travels(m)
<1>0. DOMAIN Opcode = 1 .. 4
  BY DEF Opcode
<1>1. /\ m.is = "command" /\ m.argument \in {0, TAG}
      /\ m = [is |-> m.is, order |-> m.order, argument |-> m.argument]
      /\ \E o \in 1 .. 4 : Opcode[o] = m.order
  BY <1>0 DEF Commands
<1> DEFINE n == CHOOSE o \in DOMAIN Opcode : Opcode[o] = m.order
<1>2. n \in 1 .. 4 /\ Opcode[n] = m.order
  BY <1>0, <1>1
<1>3. encode(m) = <<n, m.argument>>
  BY <1>1 DEF encode
<1> HIDE DEF n
<1> DEFINE b == <<n, m.argument>>
<1>4. n \in Byte /\ m.argument \in Byte
  BY <1>1, <1>2, WireConstants DEF Byte, TAG
<1>5. b \in Seq(Byte) /\ Len(b) = 2 /\ b[1] = n /\ b[2] = m.argument
  BY <1>4
<1> HIDE DEF b
<1>6. reading(b) = [is |-> "command", order |-> Opcode[b[1]], argument |-> b[2]]
  BY <1>2, <1>5, ReadingForms DEF IsCommand
<1>7. reading(b) = m
  BY <1>1, <1>2, <1>5, <1>6
<1>8. AsHeard(m) = m
  BY <1>1 DEF AsHeard
<1>9. encode(m) = b
  BY <1>3 DEF b
<1> QED BY <1>5, <1>7, <1>8, <1>9 DEF Travels, SWITCH_LEN

LEMMA EchoTravels ==
    ASSUME NEW m \in Echoes, format \in {"Dolphin", "Switch"} PROVE Travels(m)
<1>1. PICK t \in {0, TAG} : m = [is |-> "echo", token |-> <<t, 0, 0, 0, 0, 0, 0, 1>>]
  BY DEF Echoes
<1>2. t \in Byte /\ 0 \in Byte /\ 1 \in Byte /\ TAG \in Byte
  BY <1>1, WireConstants DEF Byte, TAG
<1> DEFINE w == <<t, 0, 0, 0, 0, 0, 0, 1>>
<1>3. w \in Seq(Byte) /\ Len(w) = 8
  BY <1>2
<1>4. m.is = "echo" /\ m.token = w /\ m = [is |-> "echo", token |-> w]
  BY <1>1
<1> HIDE DEF w
<1>5. encode(m) = <<TAG>> \o w
  BY <1>4 DEF encode
<1> DEFINE b == <<TAG>> \o w
<1>6. b \in Seq(Byte) /\ Len(b) = 9 /\ b[1] = TAG /\ \A i \in 1 .. 8 : b[1 + i] = w[i]
  <2>1. <<TAG>> \in Seq(Byte) /\ Len(<<TAG>>) = 1 /\ <<TAG>>[1] = TAG
    BY <1>2
  <2>2. Joined(<<TAG>>, w, b)
    BY <1>3, <2>1, EndToEnd
  <2> HIDE DEF b
  <2> QED BY <1>3, <2>1, <2>2 DEF Joined
<1>7. encode(m) = b
  BY <1>5
<1> HIDE DEF b
<1>8. Tail(b) = w
  <2>1. b # <<>>
    BY <1>6, EmptySeq
  <2>2. /\ Tail(b) \in Seq(Byte) /\ Len(Tail(b)) = 8
        /\ \A i \in 1 .. Len(Tail(b)) : Tail(b)[i] = b[i + 1]
    BY <1>6, <2>1, HeadTailProperties
  <2>3. \A i \in 1 .. Len(Tail(b)) : Tail(b)[i] = w[i]
    <3> SUFFICES ASSUME NEW i \in 1 .. 8 PROVE Tail(b)[i] = w[i]
      BY <2>2
    <3>1. Tail(b)[i] = b[i + 1]
      BY <2>2
    <3>2. i + 1 = 1 + i
      OBVIOUS
    <3> QED BY <1>6, <3>1, <3>2
  <2> QED BY <1>3, <2>2, <2>3, SeqEqual
<1>9. reading(b) = [is |-> "echo", token |-> Tail(b)]
  BY <1>6, ReadingForms DEF IsEcho
<1>10. AsHeard(m) = m
  BY <1>4 DEF AsHeard
<1>11. Len(b) \in 1 .. SWITCH_LEN
  BY <1>6 DEF SWITCH_LEN
<1>12. reading(b) = m
  BY <1>4, <1>8, <1>9
<1> QED BY <1>6, <1>7, <1>10, <1>11, <1>12 DEF Travels

LEMMA MessagesTravel ==
    ASSUME NEW m \in Messages, format \in {"Dolphin", "Switch"} PROVE Travels(m)
<1>1. m \in Commands \/ m \in Echoes \/ (format = "Dolphin" /\ m \in PadMessages)
      \/ (format = "Switch" /\ m \in SwitchPadMessages)
  BY DEF Messages
<1> QED BY <1>1, CommandTravels, EchoTravels, PadTravels, SwitchPadTravels

LEMMA LengthsAdd == \A n : n \in 1 .. 15 => n <= 15 + 1 /\ n + 1 <= 15 + 1
OBVIOUS

WireInv ==
    /\ format \in Formats /\ bytes \in Seq(Byte) /\ Len(bytes) <= SWITCH_LEN + 1
    /\ meant # Silence => meant \in Messages /\ bytes = encode(meant)
    /\ heard # Silence => heard = reading(bytes) /\ bytes # <<>>

LEMMA TwoFormats == format \in Formats => format \in {"Dolphin", "Switch"}
BY WireAssumption

LEMMA WireBegins == WireInit => WireInv
<1>1. <<>> \in Seq(Byte) /\ Len(<<>>) = 0
  OBVIOUS
<1>2. 0 <= SWITCH_LEN + 1
  BY DEF SWITCH_LEN
<1> QED BY <1>1, <1>2 DEF WireInit, WireInv

LEMMA WireStep ==
    ASSUME WireInv, [WireNext]_wireVars PROVE WireInv'
<1>0. /\ format \in Formats /\ bytes \in Seq(Byte) /\ Len(bytes) <= SWITCH_LEN + 1
      /\ format \in {"Dolphin", "Switch"}
      /\ Len(bytes) \in Nat
  BY TwoFormats, LenProperties DEF WireInv
<1>1. ASSUME NEW m \in Messages, Say(m) PROVE WireInv'
  <2>1. meant' = m /\ bytes' = encode(m) /\ format' = format /\ heard' = heard /\ bytes = <<>>
    BY <1>1 DEF Say
  <2>2. encode(m) \in Seq(Byte) /\ Len(encode(m)) \in 1 .. SWITCH_LEN
    BY <1>0, MessagesTravel DEF Travels
  <2>3. Len(encode(m)) <= SWITCH_LEN + 1
    <3>1. Len(encode(m)) \in 1 .. 15
      BY <2>2 DEF SWITCH_LEN
    <3> QED BY <3>1, LengthsAdd DEF SWITCH_LEN
  <2>4. heard' = Silence
    BY <2>1 DEF WireInv
  <2>5. Messages' = Messages
    BY <2>1 DEF Messages
  <2>6. encode(m)' = encode(m)
    OBVIOUS
  <2> QED BY <1>0, <2>1, <2>2, <2>3, <2>4, <2>5 DEF WireInv
<1>2. ASSUME NEW offset \in DOMAIN bytes, NEW b \in Byte, Alter(offset, b) PROVE WireInv'
  <2>1. /\ meant' = Silence /\ bytes' = [bytes EXCEPT ![offset] = b] /\ format' = format
        /\ heard' = heard /\ heard = Silence
    BY <1>2 DEF Alter, Mistaken, Fresh
  <2>2. offset \in 1 .. Len(bytes)
    BY <1>0, LenProperties
  <2>3. bytes' \in Seq(Byte) /\ Len(bytes') = Len(bytes)
    BY <1>0, <2>1, <2>2, ExceptSeq
  <2> QED BY <1>0, <2>1, <2>3 DEF WireInv
<1>3. CASE Shorten
  <2>1. /\ meant' = Silence /\ bytes' = Tail(bytes) /\ format' = format
        /\ heard' = heard /\ heard = Silence /\ bytes # <<>>
    BY <1>3 DEF Shorten, Mistaken, Fresh
  <2>2. bytes' \in Seq(Byte) /\ Len(bytes') = Len(bytes) - 1
    BY <1>0, <2>1, HeadTailProperties
  <2>3. Len(bytes') <= SWITCH_LEN + 1
    BY <1>0, <2>2 DEF SWITCH_LEN
  <2> QED BY <1>0, <2>1, <2>2, <2>3 DEF WireInv
<1>4. CASE Lengthen
  <2>1. /\ meant' = Silence /\ bytes' = Append(bytes, 0) /\ format' = format
        /\ heard' = heard /\ heard = Silence /\ meant # Silence
    BY <1>4 DEF Lengthen, Mistaken, Fresh
  <2>2. Len(bytes) \in 1 .. SWITCH_LEN
    <3>1. meant \in Messages /\ bytes = encode(meant)
      BY <2>1 DEF WireInv
    <3> QED BY <1>0, <3>1, MessagesTravel DEF Travels
  <2>3. 0 \in Byte
    BY WireConstants DEF Byte
  <2>4. bytes' \in Seq(Byte) /\ Len(bytes') = Len(bytes) + 1
    BY <1>0, <2>1, <2>3, AppendProperties
  <2>5. Len(bytes') <= SWITCH_LEN + 1
    <3>1. Len(bytes) \in 1 .. 15 /\ Len(bytes') = Len(bytes) + 1
      BY <2>2, <2>4 DEF SWITCH_LEN
    <3> QED BY <3>1, LengthsAdd DEF SWITCH_LEN
  <2> QED BY <1>0, <2>1, <2>4, <2>5 DEF WireInv
<1>5. CASE Hear
  <2>1. heard' = reading(bytes) /\ bytes # <<>> /\ format' = format /\ meant' = meant /\ bytes' = bytes
    BY <1>5 DEF Hear, Fresh
  <2>2. reading(bytes)' = reading(bytes) /\ Messages' = Messages
    BY <2>1 DEF reading, bounce, decode_command, decode, decode_pad, decode_switch, word, StickAt, Messages
  <2> QED BY <1>0, <2>1, <2>2 DEF WireInv
<1>6. CASE UNCHANGED wireVars
  <2>1. format' = format /\ meant' = meant /\ bytes' = bytes /\ heard' = heard
    BY <1>6 DEF wireVars
  <2>2. reading(bytes)' = reading(bytes) /\ Messages' = Messages
    BY <2>1 DEF reading, bounce, decode_command, decode, decode_pad, decode_switch, word, StickAt, Messages
  <2> QED BY <1>0, <2>1, <2>2 DEF WireInv
<1> QED BY <1>1, <1>2, <1>3, <1>4, <1>5, <1>6 DEF WireNext

\* Two words that are equal have the same bytes.
LEMMA SameWordSameBytes ==
    ASSUME NEW s \in Seq(Byte), NEW t \in Seq(Byte), NEW offset \in Nat \ {0},
           offset + 1 <= Len(s), offset + 1 <= Len(t), word(s, offset) = word(t, offset)
    PROVE  s[offset] = t[offset] /\ s[offset + 1] = t[offset + 1]
<1>1. /\ s[offset] \in Byte /\ s[offset + 1] \in Byte /\ t[offset] \in Byte /\ t[offset + 1] \in Byte
  <2>1. offset \in 1 .. Len(s) /\ offset + 1 \in 1 .. Len(s) /\ offset \in 1 .. Len(t) /\ offset + 1 \in 1 .. Len(t)
    BY LenProperties
  <2> QED BY <2>1, ElementOfSeq
<1>2. s[offset] + BYTES * s[offset + 1] = t[offset] + BYTES * t[offset + 1]
  BY DEF word
<1> QED BY <1>1, <1>2, WordOfBytes

LEMMA WordsOfBytes ==
    ASSUME NEW b \in Seq(Byte), NEW offset \in Nat \ {0}, offset + 1 <= Len(b)
    PROVE  word(b, offset) \in WordValues
<1>1. b[offset] \in Byte /\ b[offset + 1] \in Byte
  <2>1. offset \in 1 .. Len(b) /\ offset + 1 \in 1 .. Len(b)
    BY LenProperties
  <2> QED BY <2>1, ElementOfSeq
<1> QED BY <1>1, WordOfBytes DEF word

\* A stick read from bytes: its axes have opposites, and say the bytes again.
LEMMA StickIsRead ==
    ASSUME NEW b \in Seq(Byte), NEW offset \in Nat, offset + 4 <= Len(b)
    PROVE  /\ StickAt(b, offset) \in StickSet
           /\ word(b, offset + 1) # Half => unsigned(StickAt(b, offset).x) = word(b, offset + 1)
           /\ word(b, offset + 3) # Half => unsigned(StickAt(b, offset).y) = word(b, offset + 3)
<1> DEFINE wx == word(b, offset + 1)
           wy == word(b, offset + 3)
<1>1. wx \in WordValues /\ wy \in WordValues
  <2>1. offset + 1 \in Nat \ {0} /\ (offset + 1) + 1 <= Len(b) /\ offset + 3 \in Nat \ {0} /\ (offset + 3) + 1 <= Len(b)
    BY LenProperties
  <2> QED BY <2>1, WordsOfBytes
<1>2. StickAt(b, offset) = stick(signed(wx), signed(wy))
  BY DEF StickAt
<1> HIDE DEF wx, wy
<1>3. signed(wx) \in MIN .. Half - 1 /\ signed(wy) \in MIN .. Half - 1
  BY <1>1, WordsAreSigned
<1>4. StickAt(b, offset) \in StickSet
  BY <1>2, <1>3, SticksAreSound
<1>5. ASSUME wx # Half PROVE unsigned(StickAt(b, offset).x) = wx
  <2>1. signed(wx) # MIN
    BY <1>1, <1>5, WordsAreSigned
  <2>2. StickAt(b, offset).x = signed(wx)
    BY <1>2, <2>1 DEF stick
  <2> QED BY <1>1, <2>2, WordsAreSigned
<1>6. ASSUME wy # Half PROVE unsigned(StickAt(b, offset).y) = wy
  <2>1. signed(wy) # MIN
    BY <1>1, <1>6, WordsAreSigned
  <2>2. StickAt(b, offset).y = signed(wy)
    BY <1>2, <2>1 DEF stick
  <2> QED BY <1>1, <2>2, WordsAreSigned
<1> QED BY <1>4, <1>5, <1>6 DEF wx, wy

LEMMA SticksInRange ==
    ASSUME NEW s \in StickSet PROVE InRange(s) /\ InRange([x |-> s.x, y |-> -s.y])
<1>1. s.x \in Axis /\ s.y \in Axis
  BY DEF StickSet
<1>2. /\ s.x \in MIN + 1 .. -(MIN + 1) /\ -s.x \in MIN + 1 .. -(MIN + 1)
      /\ s.y \in MIN + 1 .. -(MIN + 1) /\ -s.y \in MIN + 1 .. -(MIN + 1) /\ -(-s.y) = s.y
  BY <1>1, WireConstants DEF Axis
<1> QED BY <1>2 DEF InRange

\* What was heard, form by form.
LEMMA HeardForms ==
    ASSUME WireInv, heard # Silence
    PROVE  \/ heard \in {HangUpOn, Ignored}
           \/ IsEcho(bytes) /\ heard = [is |-> "echo", token |-> Tail(bytes)]
           \/ IsCommand(bytes)
              /\ heard = [is |-> "command", order |-> Opcode[bytes[1]], argument |-> bytes[2]]
           \/ IsPad(bytes) /\ heard = PadRead(bytes)
           \/ IsSwitchPad(bytes) /\ heard = SwitchRead(bytes)
<1>1. bytes \in Seq(Byte) /\ format \in {"Dolphin", "Switch"} /\ heard = reading(bytes)
  BY TwoFormats DEF WireInv
<1> QED BY <1>1, ReadingForms

\* The forms are told apart.
LEMMA FormsDiffer ==
    /\ Silence.is = "silence" /\ HangUpOn.is = "hang up" /\ Ignored.is = "ignored"
    /\ \A b : PadRead(b).is = "pad" /\ SwitchRead(b).is = "switch"
    /\ \A t : [is |-> "echo", token |-> t].is = "echo"
    /\ \A o, a : [is |-> "command", order |-> o, argument |-> a].is = "command"
BY DEF Silence, HangUpOn, Ignored, PadRead, SwitchRead

LEMMA PadIsGood ==
    ASSUME WireInv, IsPad(bytes)
    PROVE  PadRead(bytes) \in [is : {"pad"}, slot : {SEAT}, buttons : {w \in WordValues : IsKnown(w)},
                               main : StickSet, c : StickSet, l : Byte, r : Byte]
<1>1. bytes \in Seq(Byte) /\ Len(bytes) = 13 /\ IsKnown(word(bytes, 1))
  BY DEF WireInv, IsPad
<1>2. word(bytes, 1) \in WordValues /\ StickAt(bytes, 3) \in StickSet /\ StickAt(bytes, 7) \in StickSet
  <2>1. 1 \in Nat \ {0} /\ 1 + 1 <= Len(bytes) /\ 3 \in Nat /\ 3 + 4 <= Len(bytes)
        /\ 7 \in Nat /\ 7 + 4 <= Len(bytes)
    BY <1>1
  <2> QED BY <1>1, <2>1, WordsOfBytes, StickIsRead
<1>3. bytes[12] \in Byte /\ bytes[13] \in Byte
  <2>1. 12 \in 1 .. Len(bytes) /\ 13 \in 1 .. Len(bytes)
    BY <1>1
  <2> QED BY <1>1, <2>1, ElementOfSeq
<1> QED BY <1>1, <1>2, <1>3 DEF PadRead

LEMMA SwitchPadIsGood ==
    ASSUME WireInv, IsSwitchPad(bytes)
    PROVE  /\ SwitchRead(bytes) \in [is : {"switch"}, slot : {SEAT}, buttons : WordValues,
                                     left : StickSet, right : StickSet]
           /\ bytes[6] = 0 /\ bytes[7] = 0
<1>1. /\ bytes \in Seq(Byte) /\ Len(bytes) = 15
      /\ IsSwitchKnown(word(bytes, 4) + BYTES * BYTES * word(bytes, 6))
  BY DEF WireInv, IsSwitchPad
<1>2. /\ word(bytes, 4) \in WordValues /\ word(bytes, 6) \in WordValues /\ StickAt(bytes, 7) \in StickSet
      /\ StickAt(bytes, 11) \in StickSet
  <2>1. 4 \in Nat \ {0} /\ 4 + 1 <= Len(bytes) /\ 6 \in Nat \ {0} /\ 6 + 1 <= Len(bytes)
    BY <1>1
  <2>2. 7 \in Nat /\ 7 + 4 <= Len(bytes) /\ 11 \in Nat /\ 11 + 4 <= Len(bytes)
    BY <1>1
  <2>3. word(bytes, 4) \in WordValues /\ word(bytes, 6) \in WordValues
    BY <1>1, <2>1, WordsOfBytes
  <2> QED BY <1>1, <2>2, <2>3, StickIsRead
<1>3. bytes[6] \in Byte /\ bytes[7] \in Byte
  <2>1. 6 \in 1 .. Len(bytes) /\ 7 \in 1 .. Len(bytes)
    BY <1>1
  <2> QED BY <1>1, <2>1, ElementOfSeq
<1>4. word(bytes, 6) = 0
  <2> DEFINE low == word(bytes, 4)
             high == word(bytes, 6)
             B == BYTES * BYTES
  <2>1. low \in Nat /\ high \in Nat /\ B \in Nat /\ B >= 64
    BY <1>2, WireConstants DEF WordValues
  <2>2. low + B * high <= B - 1
    BY <1>1 DEF IsSwitchKnown, SWITCH_KNOWN
  <2> HIDE DEF low, high, B
  <2>3. ASSUME high >= 1 PROVE FALSE
    <3>1. B * high >= B
      BY <2>1, <2>3
    <3> QED BY <2>1, <2>2, <3>1
  <2>4. high = 0
    BY <2>1, <2>3
  <2> QED BY <2>4 DEF high
<1>5. bytes[6] = 0 /\ bytes[7] = 0
  <2>1. bytes[6] + BYTES * bytes[7] = 0
    BY <1>4 DEF word
  <2>2. 0 \in Byte
    BY WireConstants DEF Byte
  <2>3. 0 + BYTES * 0 = 0
    BY WireConstants
  <2>4. /\ (bytes[6] + BYTES * bytes[7]) % BYTES = bytes[6] /\ (bytes[6] + BYTES * bytes[7]) \div BYTES = bytes[7]
        /\ (0 + BYTES * 0) % BYTES = 0 /\ (0 + BYTES * 0) \div BYTES = 0
    BY <1>3, <2>2, WordOfBytes
  <2> QED BY <2>1, <2>3, <2>4
<1> QED BY <1>2, <1>5 DEF SwitchRead

LEMMA SoundWhenAccepted == WireInv => AcceptedIsSound
<1> SUFFICES ASSUME WireInv PROVE AcceptedIsSound
  OBVIOUS
<1>1. ASSUME heard.is = "pad"
      PROVE  heard.slot = SEAT /\ IsKnown(heard.buttons) /\ InRange(heard.main) /\ InRange(heard.c)
  <2>1. IsPad(bytes) /\ heard = PadRead(bytes)
    BY <1>1, HeardForms, FormsDiffer
  <2> QED BY <2>1, PadIsGood, SticksInRange
<1>2. ASSUME heard.is = "switch"
      PROVE  /\ command(heard).player = SEAT
             /\ InRange([x |-> command(heard).lx, y |-> command(heard).ly])
             /\ InRange([x |-> command(heard).rx, y |-> command(heard).ry])
  <2>1. IsSwitchPad(bytes) /\ heard = SwitchRead(bytes)
    BY <1>2, HeardForms, FormsDiffer
  <2>2. heard.slot = SEAT /\ heard.left \in StickSet /\ heard.right \in StickSet
    BY <2>1, SwitchPadIsGood
  <2>3. /\ command(heard).player = heard.slot /\ command(heard).lx = heard.left.x
        /\ command(heard).ly = -heard.left.y /\ command(heard).rx = heard.right.x
        /\ command(heard).ry = -heard.right.y
    BY DEF command
  <2> QED BY <2>2, <2>3, SticksInRange
<1> QED BY <1>1, <1>2 DEF AcceptedIsSound

LEMMA MeantIsHeard == WireInv => HeardAsMeant
<1> SUFFICES ASSUME WireInv, heard # Silence, meant # Silence PROVE heard = AsHeard(meant)
  BY DEF HeardAsMeant, AsHeard
<1>1. heard = reading(bytes) /\ meant \in Messages /\ bytes = encode(meant)
      /\ format \in {"Dolphin", "Switch"}
  BY TwoFormats DEF WireInv
<1> QED BY <1>1, MessagesTravel DEF Travels

LEMMA HeardIsTyped ==
    WireInv => heard.is \in {"silence", "hang up", "ignored", "echo", "command", "pad", "switch"}
<1> SUFFICES ASSUME WireInv
             PROVE  heard.is \in {"silence", "hang up", "ignored", "echo", "command", "pad", "switch"}
  OBVIOUS
<1>1. CASE heard = Silence
  BY <1>1, FormsDiffer
<1>2. CASE heard # Silence
  BY <1>2, HeardForms, FormsDiffer
<1> QED BY <1>1, <1>2

\* A word of what was heard, said again, is at its place, or was the one axis
\* without an opposite.
LEMMA WordSaidAgain ==
    ASSUME NEW s \in Seq(Byte), NEW t \in Seq(Byte), NEW offset \in Nat \ {0},
           offset + 1 <= Len(s), offset + 1 <= Len(t), word(t, offset) # Half => word(s, offset) = word(t, offset)
    PROVE  (s[offset] = t[offset] /\ s[offset + 1] = t[offset + 1]) \/ word(t, offset) = Half
BY SameWordSameBytes

AgainAt(again, offset) == (again[offset] = bytes[offset] /\ again[offset + 1] = bytes[offset + 1]) \/ Repaired(offset)

LEMMA PadSaidAgain ==
    ASSUME WireInv, heard # Silence, heard.is = "pad" PROVE NothingDropped
<1> DEFINE again == encode(heard)
<1>1. IsPad(bytes) /\ heard = PadRead(bytes)
  BY HeardForms, FormsDiffer
<1>2. bytes \in Seq(Byte) /\ Len(bytes) = 13
  BY <1>1 DEF WireInv, IsPad
<1>3. heard \in GoodPad
  <2>1. heard \in [is : {"pad"}, slot : {SEAT}, buttons : {w \in WordValues : IsKnown(w)},
                   main : StickSet, c : StickSet, l : Byte, r : Byte]
    BY <1>1, PadIsGood
  <2>2. SEAT \in 1 .. MAX_SLOT
    BY WireAssumption
  <2> QED BY <2>1, <2>2 DEF GoodPad
<1>4. PadBytes(heard, again)
  BY <1>3, PadIsEncoded
<1> HIDE DEF again
<1>5. again \in Seq(Byte) /\ Len(again) = 13
  BY <1>4 DEF PadBytes, WIRE_LEN
<1>6. /\ heard.buttons = word(bytes, 1) /\ heard.main = StickAt(bytes, 3)
      /\ heard.c = StickAt(bytes, 7) /\ heard.l = bytes[12] /\ heard.r = bytes[13]
  BY <1>1 DEF PadRead
<1>7. again[1] = bytes[1] /\ again[2] = bytes[2]
  <2>1. word(again, 1) = word(bytes, 1)
    BY <1>4, <1>6 DEF PadBytes
  <2>2. 1 \in Nat \ {0} /\ 1 + 1 <= Len(again) /\ 1 + 1 <= Len(bytes)
    BY <1>2, <1>5
  <2>3. again[1] = bytes[1] /\ again[1 + 1] = bytes[1 + 1]
    BY <1>2, <1>5, <2>1, <2>2, SameWordSameBytes
  <2> QED BY <2>3
<1>8. again[12] = bytes[12] /\ again[13] = bytes[13]
  BY <1>4, <1>6 DEF PadBytes
<1>9. /\ word(bytes, 4) # Half => word(again, 4) = word(bytes, 4)
      /\ word(bytes, 6) # Half => word(again, 6) = word(bytes, 6)
      /\ word(bytes, 8) # Half => word(again, 8) = word(bytes, 8)
      /\ word(bytes, 10) # Half => word(again, 10) = word(bytes, 10)
  <2>1. 3 \in Nat /\ 3 + 4 <= Len(bytes) /\ 7 \in Nat /\ 7 + 4 <= Len(bytes)
        /\ 3 + 1 = 4 /\ 3 + 3 = 6 /\ 7 + 1 = 8 /\ 7 + 3 = 10
    BY <1>2
  <2>2. /\ word(bytes, 4) # Half => unsigned(StickAt(bytes, 3).x) = word(bytes, 4)
        /\ word(bytes, 6) # Half => unsigned(StickAt(bytes, 3).y) = word(bytes, 6)
    BY <1>2, <2>1, StickIsRead
  <2>3. /\ word(bytes, 8) # Half => unsigned(StickAt(bytes, 7).x) = word(bytes, 8)
        /\ word(bytes, 10) # Half => unsigned(StickAt(bytes, 7).y) = word(bytes, 10)
    BY <1>2, <2>1, StickIsRead
  <2> QED BY <1>4, <1>6, <2>2, <2>3 DEF PadBytes
<1>10. ASSUME NEW offset \in {4, 6, 8, 10} PROVE AgainAt(again, offset)
  <2>1. offset \in Nat \ {0} /\ offset + 1 <= Len(again) /\ offset + 1 <= Len(bytes)
    BY <1>2, <1>5, <1>10
  <2>2. word(bytes, offset) # Half => word(again, offset) = word(bytes, offset)
    BY <1>9, <1>10
  <2> QED BY <1>2, <1>5, <2>1, <2>2, WordSaidAgain DEF AgainAt, Repaired
<1>11. ASSUME NEW i \in DOMAIN bytes
       PROVE  \/ again[i] = bytes[i]
              \/ i = 3
              \/ \E offset \in {4, 6, 8, 10} : i \in {offset, offset + 1} /\ Repaired(offset)
  <2>1. i \in 1 .. 13
    BY <1>2, <1>11, LenProperties
  <2>2. CASE i \in {1, 2, 3, 12, 13}
    BY <1>7, <1>8, <2>2
  <2>3. CASE i \in 4 .. 11
    <3>1. PICK offset \in {4, 6, 8, 10} : i = offset \/ i = offset + 1
      BY <2>3
    <3>2. AgainAt(again, offset)
      BY <1>10
    <3> QED BY <3>1, <3>2 DEF AgainAt
  <2>4. i \in {1, 2, 3, 12, 13} \/ i \in 4 .. 11
    BY <2>1
  <2> QED BY <2>2, <2>3, <2>4
<1> QED BY <1>2, <1>5, <1>11 DEF NothingDropped, again

LEMMA SwitchPadSaidAgain ==
    ASSUME WireInv, heard # Silence, heard.is = "switch" PROVE NothingDropped
<1> DEFINE again == encode(heard)
<1>1. IsSwitchPad(bytes) /\ heard = SwitchRead(bytes)
  BY HeardForms, FormsDiffer
<1>2. bytes \in Seq(Byte) /\ Len(bytes) = 15 /\ bytes[1] = SWITCH_TAG /\ bytes[2] = VERSION
  BY <1>1 DEF WireInv, IsSwitchPad
<1>3. heard \in GoodSwitchPad /\ bytes[6] = 0 /\ bytes[7] = 0
  <2>1. heard \in [is : {"switch"}, slot : {SEAT}, buttons : WordValues, left : StickSet,
                   right : StickSet] /\ bytes[6] = 0 /\ bytes[7] = 0
    BY <1>1, SwitchPadIsGood
  <2>2. SEAT \in 1 .. MAX_SLOT
    BY WireAssumption
  <2> QED BY <2>1, <2>2 DEF GoodSwitchPad
<1>4. SwitchBytes(heard, again)
  BY <1>3, SwitchPadIsEncoded
<1> HIDE DEF again
<1>5. again \in Seq(Byte) /\ Len(again) = 15
  BY <1>4 DEF SwitchBytes, SWITCH_LEN
<1>6. /\ heard.buttons = word(bytes, 4) /\ heard.left = StickAt(bytes, 7)
      /\ heard.right = StickAt(bytes, 11)
  BY <1>1 DEF SwitchRead
<1>7. again[4] = bytes[4] /\ again[5] = bytes[5]
  <2>1. word(again, 4) = word(bytes, 4)
    BY <1>4, <1>6 DEF SwitchBytes
  <2>2. 4 \in Nat \ {0} /\ 4 + 1 <= Len(again) /\ 4 + 1 <= Len(bytes)
    BY <1>2, <1>5
  <2>3. again[4] = bytes[4] /\ again[4 + 1] = bytes[4 + 1]
    BY <1>2, <1>5, <2>1, <2>2, SameWordSameBytes
  <2> QED BY <2>3
<1>8. /\ again[1] = bytes[1] /\ again[2] = bytes[2] /\ again[6] = bytes[6] /\ again[7] = bytes[7]
  BY <1>2, <1>3, <1>4 DEF SwitchBytes
<1>9. /\ word(bytes, 8) # Half => word(again, 8) = word(bytes, 8)
      /\ word(bytes, 10) # Half => word(again, 10) = word(bytes, 10)
      /\ word(bytes, 12) # Half => word(again, 12) = word(bytes, 12)
      /\ word(bytes, 14) # Half => word(again, 14) = word(bytes, 14)
  <2>1. 7 \in Nat /\ 7 + 4 <= Len(bytes) /\ 11 \in Nat /\ 11 + 4 <= Len(bytes)
        /\ 7 + 1 = 8 /\ 7 + 3 = 10 /\ 11 + 1 = 12 /\ 11 + 3 = 14
    BY <1>2
  <2>2. /\ word(bytes, 8) # Half => unsigned(StickAt(bytes, 7).x) = word(bytes, 8)
        /\ word(bytes, 10) # Half => unsigned(StickAt(bytes, 7).y) = word(bytes, 10)
    BY <1>2, <2>1, StickIsRead
  <2>3. /\ word(bytes, 12) # Half => unsigned(StickAt(bytes, 11).x) = word(bytes, 12)
        /\ word(bytes, 14) # Half => unsigned(StickAt(bytes, 11).y) = word(bytes, 14)
    BY <1>2, <2>1, StickIsRead
  <2> QED BY <1>4, <1>6, <2>2, <2>3 DEF SwitchBytes
<1>10. ASSUME NEW offset \in {8, 10, 12, 14} PROVE AgainAt(again, offset)
  <2>1. offset \in Nat \ {0} /\ offset + 1 <= Len(again) /\ offset + 1 <= Len(bytes)
    BY <1>2, <1>5, <1>10
  <2>2. word(bytes, offset) # Half => word(again, offset) = word(bytes, offset)
    BY <1>9, <1>10
  <2> QED BY <1>2, <1>5, <2>1, <2>2, WordSaidAgain DEF AgainAt, Repaired
<1>11. ASSUME NEW i \in DOMAIN bytes
       PROVE  \/ again[i] = bytes[i]
              \/ i = 3
              \/ \E offset \in {8, 10, 12, 14} : i \in {offset, offset + 1} /\ Repaired(offset)
  <2>1. i \in 1 .. 15
    BY <1>2, <1>11, LenProperties
  <2>2. CASE i \in {1, 2, 3, 4, 5, 6, 7}
    BY <1>7, <1>8, <2>2
  <2>3. CASE i \in 8 .. 15
    <3>1. PICK offset \in {8, 10, 12, 14} : i = offset \/ i = offset + 1
      BY <2>3
    <3>2. AgainAt(again, offset)
      BY <1>10
    <3> QED BY <3>1, <3>2 DEF AgainAt
  <2>4. i \in {1, 2, 3, 4, 5, 6, 7} \/ i \in 8 .. 15
    BY <2>1
  <2> QED BY <2>2, <2>3, <2>4
<1> QED BY <1>2, <1>5, <1>11 DEF NothingDropped, again

LEMMA CommandSaidAgain ==
    ASSUME WireInv, heard # Silence, heard.is = "command" PROVE NothingDropped
<1>1. /\ IsCommand(bytes)
      /\ heard = [is |-> "command", order |-> Opcode[bytes[1]], argument |-> bytes[2]]
  BY HeardForms, FormsDiffer
<1>2. bytes \in Seq(Byte) /\ Len(bytes) = 2 /\ bytes[1] \in 1 .. 4
  BY <1>1 DEF WireInv, IsCommand
<1>3. ASSUME NEW n \in 1 .. 4, NEW o \in 1 .. 4, Opcode[o] = Opcode[n] PROVE o = n
  BY <1>3 DEF Opcode
<1>4. DOMAIN Opcode = 1 .. 4
  BY DEF Opcode
<1> DEFINE again == encode(heard)
<1>5. again = <<CHOOSE o \in DOMAIN Opcode : Opcode[o] = Opcode[bytes[1]], bytes[2]>>
  BY <1>1 DEF encode
<1>6. (CHOOSE o \in DOMAIN Opcode : Opcode[o] = Opcode[bytes[1]]) = bytes[1]
  BY <1>2, <1>3, <1>4
<1>7. again = <<bytes[1], bytes[2]>>
  BY <1>5, <1>6
<1> HIDE DEF again
<1>8. Len(again) = 2 /\ again[1] = bytes[1] /\ again[2] = bytes[2]
  BY <1>7
<1>9. \A i \in DOMAIN bytes : again[i] = bytes[i]
  BY <1>2, <1>8, LenProperties
<1> QED BY <1>2, <1>8, <1>9 DEF NothingDropped, again

LEMMA EchoSaidAgain ==
    ASSUME WireInv, heard # Silence, heard.is = "echo" PROVE NothingDropped
<1>1. IsEcho(bytes) /\ heard = [is |-> "echo", token |-> Tail(bytes)]
  BY HeardForms, FormsDiffer
<1>2. bytes \in Seq(Byte) /\ Len(bytes) = 9 /\ bytes[1] = TAG
  BY <1>1 DEF WireInv, IsEcho
<1> DEFINE w == Tail(bytes)
           again == encode(heard)
<1>3. /\ w \in Seq(Byte) /\ Len(w) = 8 /\ \A i \in 1 .. Len(w) : w[i] = bytes[i + 1]
  <2>1. bytes # <<>>
    BY <1>2, EmptySeq
  <2> QED BY <1>2, <2>1, HeadTailProperties
<1>4. again = <<TAG>> \o w
  BY <1>1 DEF encode
<1>5. TAG \in Byte
  BY WireConstants DEF Byte, TAG
<1> HIDE DEF w
<1>6. Len(again) = 9 /\ again[1] = TAG /\ \A i \in 1 .. 8 : again[1 + i] = w[i]
  <2>1. <<TAG>> \in Seq(Byte) /\ Len(<<TAG>>) = 1 /\ <<TAG>>[1] = TAG
    BY <1>5
  <2>2. Joined(<<TAG>>, w, again)
    BY <1>3, <1>4, <2>1, EndToEnd
  <2> HIDE DEF again
  <2> QED BY <1>3, <2>1, <2>2 DEF Joined
<1> HIDE DEF again
<1>7. ASSUME NEW i \in DOMAIN bytes PROVE again[i] = bytes[i]
  <2>1. i \in 1 .. 9
    BY <1>2, <1>7, LenProperties
  <2>2. CASE i = 1
    BY <1>2, <1>6, <2>2
  <2>3. CASE i # 1
    <3>1. i - 1 \in 1 .. 8 /\ 1 + (i - 1) = i /\ (i - 1) + 1 = i
      BY <2>1, <2>3
    <3>2. again[i] = w[i - 1] /\ w[i - 1] = bytes[i]
      BY <1>3, <1>6, <3>1
    <3> QED BY <3>2
  <2> QED BY <2>2, <2>3
<1> QED BY <1>2, <1>6, <1>7 DEF NothingDropped, again

WireHolds == WireTypeOK /\ HeardAsMeant /\ AcceptedIsSound /\ NothingDropped

LEMMA WireInvGives == WireInv => WireHolds
<1> SUFFICES ASSUME WireInv PROVE WireHolds
  OBVIOUS
<1>1. WireTypeOK
  BY HeardIsTyped DEF WireInv, WireTypeOK
<1>2. NothingDropped
  <2>1. heard.is \in {"echo", "command", "pad", "switch"} => heard # Silence
    BY FormsDiffer
  <2>2. heard.is \in {"echo", "command", "pad", "switch"} => NothingDropped
    BY <2>1, EchoSaidAgain, CommandSaidAgain, PadSaidAgain, SwitchPadSaidAgain
  <2> QED BY <2>2 DEF NothingDropped
<1> QED BY <1>1, <1>2, MeantIsHeard, SoundWhenAccepted DEF WireHolds

\* A message is understood as it was meant or refused whole, whatever bytes the
\* network hands over, for any size of a byte and any seat.
THEOREM WireAlwaysHolds == WireSpec => []WireHolds
<1> USE DEF wireVars
<1>1. WireInit => WireInv
  BY WireBegins
<1>2. WireInv /\ [WireNext]_wireVars => WireInv'
  BY WireStep
<1>3. WireInv => WireHolds
  BY WireInvGives
<1> QED BY <1>1, <1>2, <1>3, PTL DEF WireSpec


-----------------------------------------------------------------------------
(* What the menu says of the discs (library.rs, disc.rs, banner.rs)         *)

KeyHere(q) == <<q[2], SizeOf[shelf[q]]>>

\* A key nothing speaks against stands for one file, and what is kept under it is
\* true of that file.
TrueOf(q) ==
    /\ \A r \in Full_shelves : KeyHere(r) = KeyHere(q) => r = q
    /\ consoles[KeyHere(q)] \in {"nothing", "cut", ConsoleOf[shelf[q]]}
    /\ \/ banners[KeyHere(q)] = "nothing"
       \/ banners[KeyHere(q)] = shelf[q] /\ shelf[q] \in Bannered
       \/ banners[KeyHere(q)] = "refused" /\ shelf[q] \notin Bannered
       \/ banners[KeyHere(q)] \in {"refused", "cut"} /\ KeyHere(q) \in spoilt
CacheInv == \A q \in Full_shelves : KeyHere(q) \notin doubtful => TrueOf(q)

\* A folder of saves that stood for one disc holds no banner but that disc's, and
\* only that disc is being played on it.
FolderOf(q) == SaveFolder[q[2]]
SavesOf(q) ==
    /\ \A r \in Full_shelves : FolderOf(r) = FolderOf(q) => r = q
    /\ \A slot \in SaveSlots : saved[FolderOf(q)][slot] \in {"nothing", "cut", shelf[q]}
SavedInv == \A q \in Full_shelves : FolderOf(q) \notin mixed => SavesOf(q)
PlayInv ==
    \A i \in DOMAIN games, q \in Full_shelves :
        Playing(i) /\ FolderOf(q) = SaveFolder[FileAt(i)] /\ FolderOf(q) \notin mixed =>
            shelf[q] = games[i].disc

\* While a start reads the discs they are where it found them.
ListInv ==
    /\ games \in Seq([place : Shelves, disc : Discs])
    /\ start \in {"discs", "art"} =>
         \A i \in DOMAIN games : /\ games[i].place \in Full_shelves
                                 /\ games[i].disc = shelf[games[i].place]
    /\ start \in {"art", "open"} => Len(shown_as) = Len(games)
    /\ start = "open" => Len(art) = Len(games)

ShownOf(i) ==
    /\ i <= Len(shown_as) => /\ shown_as[i] \in {"?", ConsoleOf[games[i].disc]}
                             /\ clear => shown_as[i] = ConsoleOf[games[i].disc]
    /\ i <= Len(art) =>
         /\ shown_as[i] # "wii" \/ SureOfSave(i) => art[i] \in {NoDisc, games[i].disc}
         /\ clear /\ shown_as[i] = "switch" => art[i] = Truly(games[i].disc)
         /\ clear /\ shown_as[i] = "gc" /\ KeyOf(i) \notin spoilt => art[i] = Truly(games[i].disc)
ListedInv == start # "off" => \A i \in DOMAIN games : Sure(i) => ShownOf(i)

AskInv ==
    /\ fresh => start = "open" /\ page = [i \in DOMAIN games |-> FileAt(i)]
    /\ meantFile # NoFile => choice = meantFile
    /\ AskedIsPlayed

LibraryInv ==
    LibraryTypeOK /\ ListInv /\ CacheInv /\ SavedInv /\ PlayInv /\ ListedInv /\ AskInv

LEMMA DiscsAre ==
    ASSUME NEW d \in Discs
    PROVE  /\ ConsoleOf[d] \in {"gc", "wii", "switch", "?"}
           /\ d # NoDisc /\ d \notin {"nothing", "refused", "cut"}
BY LibraryAssumption

LEMMA ShelfFacts ==
    ASSUME LibraryTypeOK, NEW q \in Full_shelves
    PROVE  /\ q \in Shelves /\ shelf[q] \in Discs /\ KeyHere(q) \in Keys
           /\ KeyHere(q) = cache_file(q, shelf[q]) /\ FolderOf(q) \in Folders
BY DEF LibraryTypeOK, Full_shelves, KeyHere, Keys, Files_of_shelves, cache_file, FolderOf, Folders

LEMMA GameFacts ==
    ASSUME LibraryTypeOK, ListInv, NEW i \in DOMAIN games
    PROVE  /\ i \in Nat \ {0} /\ i <= Len(games)
           /\ games[i].disc \in Discs /\ games[i].place \in Shelves
           /\ KeyOf(i) = cache_file(games[i].place, games[i].disc)
           /\ start \in {"discs", "art"} =>
                /\ games[i].place \in Full_shelves /\ games[i].disc = shelf[games[i].place]
                /\ KeyOf(i) = KeyHere(games[i].place)
           /\ SaveFolder[FileAt(i)] = FolderOf(games[i].place) /\ SaveFolder[FileAt(i)] \in Folders
<1> DEFINE G == [place : Shelves, disc : Discs]
<1>1. games \in Seq(G)
  BY DEF ListInv
<1>2. i \in 1 .. Len(games) /\ Len(games) \in Nat /\ games[i] \in G
  <2> HIDE DEF G
  <2> QED BY <1>1
<1>3. KeyOf(i) = cache_file(games[i].place, games[i].disc)
  BY DEF KeyOf, FileAt, cache_file
<1>4. ASSUME start \in {"discs", "art"}
      PROVE  /\ games[i].place \in Full_shelves /\ games[i].disc = shelf[games[i].place]
             /\ KeyOf(i) = KeyHere(games[i].place)
  BY <1>4 DEF ListInv, KeyOf, FileAt, KeyHere
<1>5. SaveFolder[FileAt(i)] = FolderOf(games[i].place) /\ SaveFolder[FileAt(i)] \in Folders
  BY <1>2 DEF FileAt, FolderOf, Folders, Files_of_shelves
<1> QED BY <1>2, <1>3, <1>4, <1>5

LEMMA SureIs == \A i : Sure(i) <=> KeyOf(i) \notin doubtful
BY DEF Sure, KeyOf

LEMMA SequenceFacts ==
    ASSUME LibraryTypeOK, ListInv
    PROVE  /\ Len(games) \in Nat /\ Len(shown_as) \in Nat /\ Len(art) \in Nat
           /\ DOMAIN games = 1 .. Len(games) /\ DOMAIN shown_as = 1 .. Len(shown_as)
           /\ DOMAIN art = 1 .. Len(art)
           /\ Len(art) <= Len(shown_as) /\ Len(shown_as) <= Len(games)
BY DEF LibraryTypeOK, ListInv

LEMMA LibraryBegins == LibraryInit => LibraryInv
<1> SUFFICES ASSUME LibraryInit PROVE LibraryInv
  OBVIOUS
<1>1. /\ shelf \in [Shelves -> Discs \cup {NoDisc}] /\ start = "off" /\ fresh = FALSE
      /\ consoles = [k \in Keys |-> "nothing"] /\ banners = [k \in Keys |-> "nothing"]
      /\ games = << >> /\ shown_as = << >> /\ art = << >> /\ doubtful = {} /\ spoilt = {} /\ meantFile = NoFile
      /\ saved = [f \in Folders |-> [slot \in SaveSlots |-> "nothing"]]
      /\ mixed = {f \in Folders : \E p, q \in Full_shelves :
                                   p # q /\ SaveFolder[p[2]] = f /\ SaveFolder[q[2]] = f}
  BY DEF LibraryInit
<1>2. LibraryTypeOK /\ ListInv
  <2>1. saved \in [Folders -> [SaveSlots -> Discs \cup {"nothing", "cut"}]] /\ mixed \subseteq Folders
    BY <1>1
  <2> QED BY <1>1, <2>1 DEF LibraryTypeOK, ListInv
<1>5. SavedInv
  <2> SUFFICES ASSUME NEW q \in Full_shelves, FolderOf(q) \notin mixed PROVE SavesOf(q)
    BY DEF SavedInv
  <2>1. FolderOf(q) \in Folders
    BY <1>2, ShelfFacts
  <2>2. \A r \in Full_shelves : FolderOf(r) = FolderOf(q) => r = q
    BY <1>1, <2>1 DEF FolderOf
  <2>3. \A slot \in SaveSlots : saved[FolderOf(q)][slot] = "nothing"
    BY <1>1, <2>1
  <2> QED BY <2>2, <2>3 DEF SavesOf
<1>6. PlayInv
  BY <1>1 DEF PlayInv, Playing
<1>3. CacheInv
  <2> SUFFICES ASSUME NEW q \in Full_shelves PROVE TrueOf(q)
    BY DEF CacheInv
  <2>1. ASSUME NEW r \in Full_shelves, KeyHere(r) = KeyHere(q) PROVE r = q
    <3>1. r[2] = q[2] /\ r \in Shelves /\ q \in Shelves /\ shelf[r] # NoDisc /\ shelf[q] # NoDisc
      BY <2>1 DEF KeyHere, Full_shelves
    <3> QED BY <3>1 DEF LibraryInit
  <2>2. consoles[KeyHere(q)] = "nothing" /\ banners[KeyHere(q)] = "nothing"
    BY <1>1, <1>2, ShelfFacts
  <2> QED BY <2>1, <2>2 DEF TrueOf
<1>4. ListedInv /\ AskInv
  BY <1>1 DEF ListedInv, AskInv, AskedIsPlayed
<1> QED BY <1>2, <1>3, <1>4, <1>5, <1>6 DEF LibraryInv

\* What stays said when nothing of it changed but that more is doubted, a trouble
\* came or the start ended.
LEMMA StillShown ==
    ASSUME ListedInv, UNCHANGED <<games, shown_as, art>>, doubtful \subseteq doubtful',
           mixed \subseteq mixed', spoilt \subseteq spoilt', clear' => clear, start' = "off" \/ start # "off"
    PROVE  ListedInv'
<1> SUFFICES ASSUME start' # "off", NEW i \in DOMAIN games, KeyOf(i) \notin doubtful
             PROVE  ShownOf(i)'
  BY SureIs DEF ListedInv, Sure, KeyOf, FileAt
<1>1. ShownOf(i)
  BY SureIs DEF ListedInv
<1> QED BY <1>1 DEF ShownOf, SureOfSave, KeyOf, FileAt

\* What stays asked.
LEMMA StillAsked ==
    ASSUME AskInv, UNCHANGED <<games, choice, meantFile>>,
           fresh' = FALSE \/ (fresh' = fresh /\ page' = page /\ start' = start),
           start' = "open" => start = "open" /\ current' = current
    PROVE  AskInv'
<1>1. (fresh => start = "open" /\ page = [i \in DOMAIN games |-> FileAt(i)])'
  BY DEF AskInv, FileAt
<1>2. (meantFile # NoFile => choice = meantFile)'
  BY DEF AskInv
<1>3. AskedIsPlayed'
  BY DEF AskInv, AskedIsPlayed, PlaceOf, FileAt
<1> QED BY <1>1, <1>2, <1>3 DEF AskInv

\* What is kept stays true of a shelf when neither changed.
LEMMA StillTrue ==
    ASSUME CacheInv, UNCHANGED <<shelf, consoles, banners>>, doubtful \subseteq doubtful',
           spoilt \subseteq spoilt'
    PROVE  CacheInv'
BY DEF CacheInv, TrueOf, KeyHere, Full_shelves

\* Saves nobody writes stay those of their disc, and what is not started is not played.
LEMMA StillSaved ==
    ASSUME SavedInv, PlayInv, UNCHANGED <<shelf, saved, mixed>>,
           \/ start' # "open"
           \/ start' = start /\ games' = games /\ current' = current
    PROVE  SavedInv' /\ PlayInv'
<1>1. SavedInv'
  BY DEF SavedInv, SavesOf, FolderOf, Full_shelves
<1>2. PlayInv'
  BY DEF PlayInv, Playing, FolderOf, FileAt, Full_shelves
<1> QED BY <1>1, <1>2

\* One console more.
LEMMA OneConsoleMore ==
    ASSUME LibraryInv, ReadingDiscs, NEW c \in {"gc", "wii", "switch", "?"}, Says(c),
           UNCHANGED <<games, art, start, choice, meantFile, fresh, page, current, doubtful, shelf,
                       mixed, spoilt>>,
           clear' => clear,
           KeyOf(Next_rom) \notin doubtful =>
               /\ c \in {"?", ConsoleOf[games[Next_rom].disc]}
               /\ clear' => c = ConsoleOf[games[Next_rom].disc]
    PROVE  /\ ListedInv' /\ ListInv' /\ shown_as' \in Seq({"gc", "wii", "switch", "?"})
           /\ Len(shown_as') = Len(shown_as) + 1 /\ Len(shown_as') <= Len(games)
<1> DEFINE n == Next_rom
<1>0. LibraryTypeOK /\ ListInv /\ ListedInv
  BY DEF LibraryInv
<1>1. /\ Len(games) \in Nat /\ Len(shown_as) \in Nat /\ Len(art) \in Nat
      /\ DOMAIN games = 1 .. Len(games)
      /\ Len(art) <= Len(shown_as) /\ Len(shown_as) <= Len(games)
  BY <1>0, SequenceFacts
<1>2. n = Len(shown_as) + 1 /\ n <= Len(games) /\ start = "discs"
  BY DEF Next_rom, ReadingDiscs
<1>3. shown_as \in Seq({"gc", "wii", "switch", "?"})
  BY <1>0 DEF LibraryTypeOK
<1>4. /\ shown_as' \in Seq({"gc", "wii", "switch", "?"}) /\ Len(shown_as') = Len(shown_as) + 1
      /\ shown_as'[n] = c /\ \A i \in 1 .. Len(shown_as) : shown_as'[i] = shown_as[i]
  BY <1>1, <1>2, <1>3 DEF Says
<1> HIDE DEF n
<1>5. ListInv'
  BY <1>0, <1>2 DEF ListInv, Full_shelves
<1>6. ListedInv'
  <2> SUFFICES ASSUME NEW i \in DOMAIN games, KeyOf(i) \notin doubtful PROVE ShownOf(i)'
    BY DEF ListedInv, Sure, KeyOf, FileAt
  <2>0. i \in Nat \ {0} /\ i <= Len(games)
    BY <1>1
  <2>1. ShownOf(i)
    BY <1>0, <1>2, SureIs DEF ListedInv
  <2>2. CASE i <= Len(shown_as)
    <3>1. shown_as'[i] = shown_as[i]
      BY <1>1, <1>4, <2>0, <2>2
    <3> QED BY <2>1, <2>2, <3>1 DEF ShownOf, SureOfSave, KeyOf, FileAt
  <2>3. CASE i = n
    <3>1. ~(i <= Len(art))
      BY <1>1, <1>2, <2>3
    <3>2. shown_as'[i] = c
      BY <1>4, <2>3
    <3> QED BY <2>3, <3>1, <3>2 DEF ShownOf, n
  <2>4. CASE i > n
    <3>1. ~(i <= Len(art)) /\ ~(i <= Len(shown_as'))
      BY <1>1, <1>2, <1>4, <2>0, <2>4
    <3> QED BY <3>1 DEF ShownOf
  <2> QED BY <1>1, <1>2, <2>0, <2>2, <2>3, <2>4
<1> QED BY <1>1, <1>2, <1>4, <1>5, <1>6

\* One cover more.
LEMMA OneCoverMore ==
    ASSUME LibraryInv, Gathering, NEW d \in Discs \cup {NoDisc}, Shows(d),
           UNCHANGED <<games, shown_as, start, choice, meantFile, fresh, page, current, shelf, mixed,
                       doubtful>>,
           spoilt \subseteq spoilt', clear' => clear,
           KeyOf(Next_art) \notin doubtful =>
               /\ shown_as[Next_art] # "wii" \/ SureOfSave(Next_art) => d \in {NoDisc, games[Next_art].disc}
               /\ clear' /\ shown_as[Next_art] = "switch" => d = Truly(games[Next_art].disc)
               /\ clear' /\ shown_as[Next_art] = "gc" /\ KeyOf(Next_art) \notin spoilt' =>
                      d = Truly(games[Next_art].disc)
    PROVE  /\ ListedInv' /\ ListInv' /\ art' \in Seq(Discs \cup {NoDisc})
           /\ Len(art') = Len(art) + 1 /\ Len(art') <= Len(shown_as)
<1> DEFINE n == Next_art
<1>0. LibraryTypeOK /\ ListInv /\ ListedInv
  BY DEF LibraryInv
<1>1. /\ Len(games) \in Nat /\ Len(shown_as) = Len(games) /\ Len(art) \in Nat
      /\ DOMAIN games = 1 .. Len(games)
      /\ Len(art) <= Len(shown_as)
  <2>1. Len(shown_as) = Len(games)
    BY <1>0 DEF ListInv, Gathering
  <2> QED BY <1>0, <2>1, SequenceFacts
<1>2. n = Len(art) + 1 /\ n <= Len(games) /\ start = "art"
  BY DEF Next_art, Gathering
<1>3. art \in Seq(Discs \cup {NoDisc})
  BY <1>0 DEF LibraryTypeOK
<1>4. /\ art' \in Seq(Discs \cup {NoDisc}) /\ Len(art') = Len(art) + 1
      /\ art'[n] = d /\ \A i \in 1 .. Len(art) : art'[i] = art[i]
  BY <1>1, <1>2, <1>3 DEF Shows
<1> HIDE DEF n
<1>5. ListInv'
  BY <1>0, <1>2 DEF ListInv, Full_shelves
<1>6. ListedInv'
  <2> SUFFICES ASSUME NEW i \in DOMAIN games, KeyOf(i) \notin doubtful PROVE ShownOf(i)'
    BY DEF ListedInv, Sure, KeyOf, FileAt
  <2>0. i \in Nat \ {0} /\ i <= Len(games)
    BY <1>1
  <2>1. ShownOf(i)
    BY <1>0, <1>2, SureIs DEF ListedInv
  <2>2. CASE i <= Len(art)
    <3>1. art'[i] = art[i]
      BY <1>1, <1>4, <2>0, <2>2
    <3> QED BY <2>1, <2>2, <3>1 DEF ShownOf, SureOfSave, KeyOf, FileAt
  <2>3. CASE i = n
    <3>2. art'[i] = d
      BY <1>4, <2>3
    <3> QED BY <2>1, <2>3, <3>2 DEF ShownOf, n, SureOfSave, KeyOf, FileAt
  <2>4. CASE i > n
    <3>1. ~(i <= Len(art'))
      BY <1>1, <1>2, <1>4, <2>0, <2>4
    <3> QED BY <2>1, <3>1 DEF ShownOf, SureOfSave, KeyOf, FileAt
  <2> QED BY <1>1, <1>2, <2>0, <2>2, <2>3, <2>4
<1> QED BY <1>1, <1>2, <1>4, <1>5, <1>6

\* What a key is given is true of the file it stands for, so what is kept stays true.
LEMMA ConsoleKept ==
    ASSUME LibraryInv, NEW q \in Full_shelves, shelf' = shelf, banners' = banners,
           NEW c, consoles' = [consoles EXCEPT ![KeyHere(q)] = c],
           UNCHANGED <<doubtful, spoilt>>, c \in {"cut", ConsoleOf[shelf[q]]}
    PROVE  CacheInv'
<1> SUFFICES ASSUME NEW r \in Full_shelves, KeyHere(r) \notin doubtful' PROVE TrueOf(r)'
  BY DEF CacheInv, Full_shelves, KeyHere
<1>1. KeyHere(r) \in Keys /\ KeyHere(q) \in Keys /\ consoles \in [Keys -> {"nothing", "gc", "wii", "cut"}]
  BY ShelfFacts DEF LibraryInv, LibraryTypeOK
<1>2. TrueOf(r)
  BY DEF LibraryInv, CacheInv
<1>3. CASE KeyHere(q) = KeyHere(r)
  <2>1. q = r /\ consoles'[KeyHere(r)] \in {"cut", ConsoleOf[shelf[r]]}
    BY <1>1, <1>2, <1>3 DEF TrueOf
  <2> QED BY <1>2, <2>1 DEF TrueOf, KeyHere, Full_shelves
<1>4. CASE KeyHere(q) # KeyHere(r)
  <2>1. consoles'[KeyHere(r)] = consoles[KeyHere(r)]
    BY <1>1, <1>4
  <2> QED BY <1>2, <2>1 DEF TrueOf, KeyHere, Full_shelves
<1> QED BY <1>3, <1>4

LEMMA BannerKept ==
    ASSUME LibraryInv, NEW q \in Full_shelves, shelf' = shelf, consoles' = consoles,
           NEW b, banners' = [banners EXCEPT ![KeyHere(q)] = b],
           doubtful' = doubtful, spoilt \subseteq spoilt',
           \/ b = shelf[q] /\ shelf[q] \in Bannered
           \/ b = "refused" /\ shelf[q] \notin Bannered
           \/ b \in {"refused", "cut"} /\ KeyHere(q) \in spoilt'
    PROVE  CacheInv'
<1> SUFFICES ASSUME NEW r \in Full_shelves, KeyHere(r) \notin doubtful' PROVE TrueOf(r)'
  BY DEF CacheInv, Full_shelves, KeyHere
<1>1. /\ KeyHere(r) \in Keys /\ KeyHere(q) \in Keys
      /\ banners \in [Keys -> Discs \cup {"nothing", "refused", "cut"}]
  BY ShelfFacts DEF LibraryInv, LibraryTypeOK
<1>2. TrueOf(r)
  BY DEF LibraryInv, CacheInv
<1>3. CASE KeyHere(q) = KeyHere(r)
  <2>1. q = r /\ banners'[KeyHere(r)] = b
    BY <1>1, <1>2, <1>3 DEF TrueOf
  <2> QED BY <1>2, <2>1 DEF TrueOf, KeyHere, Full_shelves
<1>4. CASE KeyHere(q) # KeyHere(r)
  <2>1. banners'[KeyHere(r)] = banners[KeyHere(r)]
    BY <1>1, <1>4
  <2> QED BY <1>2, <2>1 DEF TrueOf, KeyHere, Full_shelves
<1> QED BY <1>3, <1>4

\* A file put down is doubted when anything was said under its key.
LEMMA PutKeeps ==
    ASSUME LibraryInv, NEW p \in Shelves, NEW d \in Discs \cup {NoDisc}, Put(p, d)
    PROVE  LibraryInv'
<1>0. LibraryTypeOK /\ ListInv /\ CacheInv /\ ListedInv /\ AskInv
  BY DEF LibraryInv
<1>9. SavedInv /\ PlayInv
  BY DEF LibraryInv
<1>1. /\ start \in {"off", "open"} /\ shelf' = [shelf EXCEPT ![p] = d]
      /\ doubtful' = doubtful \cup IF d = NoDisc THEN {} ELSE Doubts(p, d)
      /\ mixed' = mixed \cup IF d = NoDisc THEN {} ELSE Mixes(p)
      /\ UNCHANGED <<consoles, banners, saved, spoilt, start, games, shown_as, art, choice, current, page, fresh,
                     meantFile, clear>>
  BY DEF Put, caches
<1>2. /\ shelf \in [Shelves -> Discs \cup {NoDisc}]
      /\ consoles \in [Keys -> {"nothing", "gc", "wii", "cut"}]
      /\ banners \in [Keys -> Discs \cup {"nothing", "refused", "cut"}]
  BY <1>0 DEF LibraryTypeOK
<1>3. LibraryTypeOK'
  <2>1. d # NoDisc => Doubts(p, d) \subseteq Keys
    BY DEF Doubts, Keys, Files_of_shelves
  <2>2. doubtful' \subseteq Keys
    BY <1>0, <1>1, <2>1 DEF LibraryTypeOK
  <2>4. mixed' \subseteq Folders
    BY <1>0, <1>1 DEF LibraryTypeOK, Mixes, Folders, Files_of_shelves
  <2>3. shelf' \in [Shelves -> Discs \cup {NoDisc}]
    BY <1>1, <1>2
  <2> QED BY <1>0, <1>1, <2>2, <2>3, <2>4 DEF LibraryTypeOK
<1>4. ListInv'
  BY <1>0, <1>1 DEF ListInv
<1>5. ListedInv'
  BY <1>0, <1>1, StillShown
<1>6. AskInv'
  BY <1>0, <1>1, StillAsked
<1>7. CacheInv'
  <2> SUFFICES ASSUME NEW q \in Full_shelves', KeyHere(q)' \notin doubtful' PROVE TrueOf(q)'
    BY DEF CacheInv
  <2>1. /\ \A r \in Shelves : r # p => shelf'[r] = shelf[r]
        /\ shelf'[p] = d
    BY <1>1, <1>2
  <2>2. \A r \in Full_shelves' : r # p => r \in Full_shelves /\ KeyHere(r)' = KeyHere(r)
    BY <2>1 DEF Full_shelves, KeyHere
  <2>3. p \in Full_shelves' => KeyHere(p)' = <<p[2], SizeOf[d]>> /\ d # NoDisc
    BY <2>1 DEF Full_shelves, KeyHere
  <2>4. ASSUME p \in Full_shelves', KeyHere(p)' \notin doubtful'
        PROVE  /\ consoles[KeyHere(p)'] = "nothing" /\ banners[KeyHere(p)'] = "nothing"
               /\ \A r \in Full_shelves : KeyHere(r) # KeyHere(p)'
    <3>1. Doubts(p, d) = {}
      BY <1>1, <2>3, <2>4 DEF Doubts
    <3>2. \A r \in Full_shelves : ~(r[2] = p[2] /\ SizeOf[shelf[r]] = SizeOf[d])
      BY <3>1 DEF Doubts
    <3>3. consoles[<<p[2], SizeOf[d]>>] = "nothing" /\ banners[<<p[2], SizeOf[d]>>] = "nothing"
      BY <3>1 DEF Doubts
    <3> QED BY <2>3, <2>4, <3>2, <3>3 DEF KeyHere
  <2>5. CASE q = p
    <3>1. \A r \in Full_shelves' : KeyHere(r)' = KeyHere(q)' => r = q
      BY <2>2, <2>4, <2>5
    <3> QED BY <1>1, <2>4, <2>5, <3>1 DEF TrueOf
  <2>6. CASE q # p
    <3>1. q \in Full_shelves /\ KeyHere(q)' = KeyHere(q) /\ shelf'[q] = shelf[q]
      BY <2>1, <2>2, <2>6 DEF Full_shelves
    <3>2. TrueOf(q)
      BY <1>0, <1>1, <3>1 DEF CacheInv
    <3>3. ASSUME NEW r \in Full_shelves', KeyHere(r)' = KeyHere(q)' PROVE r = q
      <4>1. CASE r = p
        BY <2>4, <3>1, <3>3, <4>1
      <4>2. CASE r # p
        BY <2>2, <3>1, <3>2, <3>3, <4>2 DEF TrueOf
      <4> QED BY <4>1, <4>2
    <3> QED BY <1>1, <3>1, <3>2, <3>3 DEF TrueOf
  <2> QED BY <2>5, <2>6
<1>8. SavedInv' /\ PlayInv'
  <2>1. /\ \A r \in Shelves : r # p => shelf'[r] = shelf[r]
        /\ shelf'[p] = d
    BY <1>1, <1>2
  <2>2. \A r \in Full_shelves' : r # p => r \in Full_shelves
    BY <2>1 DEF Full_shelves
  <2>3. p \in Full_shelves' => d # NoDisc
    BY <2>1 DEF Full_shelves
  <2>4. ASSUME p \in Full_shelves', FolderOf(p) \notin mixed'
        PROVE  /\ \A slot \in SaveSlots : saved[FolderOf(p)][slot] = "nothing"
               /\ \A r \in Full_shelves : FolderOf(r) # FolderOf(p)
               /\ \A i \in DOMAIN games : Playing(i) => SaveFolder[FileAt(i)] # FolderOf(p)
    BY <1>1, <2>3, <2>4 DEF Mixes, FolderOf
  <2>5. ASSUME NEW q \in Full_shelves', FolderOf(q) \notin mixed' PROVE SavesOf(q)'
    <3>1. CASE q = p
      <4>1. \A r \in Full_shelves' : FolderOf(r) = FolderOf(q) => r = q
        BY <2>2, <2>4, <2>5, <3>1
      <4>2. \A slot \in SaveSlots : saved[FolderOf(q)][slot] = "nothing"
        BY <2>4, <2>5, <3>1
      <4> QED BY <1>1, <4>1, <4>2 DEF SavesOf, FolderOf
    <3>2. CASE q # p
      <4>1. q \in Full_shelves /\ shelf'[q] = shelf[q]
        BY <2>1, <2>2, <2>5, <3>2 DEF Full_shelves
      <4>2. SavesOf(q)
        BY <1>1, <1>9, <2>5, <4>1 DEF SavedInv
      <4>3. \A r \in Full_shelves' : FolderOf(r) = FolderOf(q) => r = q
        BY <2>2, <2>4, <2>5, <4>1, <4>2 DEF SavesOf
      <4> QED BY <1>1, <4>1, <4>2, <4>3 DEF SavesOf, FolderOf
    <3> QED BY <3>1, <3>2
  <2>6. ASSUME NEW i \in DOMAIN games, NEW q \in Full_shelves', Playing(i),
               FolderOf(q) = SaveFolder[FileAt(i)], FolderOf(q) \notin mixed'
        PROVE  shelf'[q] = games[i].disc
    <3>1. q # p
      BY <2>4, <2>6
    <3>2. q \in Full_shelves /\ shelf'[q] = shelf[q] /\ FolderOf(q) \notin mixed
      BY <1>1, <2>1, <2>2, <2>6, <3>1 DEF Full_shelves
    <3> QED BY <1>9, <2>6, <3>2 DEF PlayInv
  <2> QED BY <1>1, <2>5, <2>6 DEF SavedInv, PlayInv, Playing, FileAt, FolderOf
<1> QED BY <1>3, <1>4, <1>5, <1>6, <1>7, <1>8 DEF LibraryInv

\* The catalogue of a start: a list of places that are full.
LEMMA ScanFacts ==
    ASSUME LibraryTypeOK, NEW g \in scan_all
    PROVE  /\ g \in Seq([place : Shelves, disc : Discs])
           /\ \A i \in DOMAIN g : g[i].place \in Full_shelves /\ g[i].disc = shelf[g[i].place]
<1>1. PICK s \in SetToSeqs(Listed) : g = [i \in DOMAIN s |-> [place |-> s[i], disc |-> shelf[s[i]]]]
  BY DEF scan_all
<1>2. Listed \subseteq Full_shelves /\ Listed \subseteq Shelves
  BY DEF Listed, Full_shelves
<1>3. Cardinality(Listed) \in Nat
  BY <1>2, LibraryAssumption, FS_Subset, FS_CardinalityType
<1>4. s \in [1 .. Cardinality(Listed) -> Listed]
  BY DEF SetToSeqs
<1>5. \A i \in 1 .. Cardinality(Listed) : s[i] \in Full_shelves /\ s[i] \in Shelves /\ shelf[s[i]] \in Discs
  BY <1>2, <1>4, ShelfFacts
<1>6. g = [i \in 1 .. Cardinality(Listed) |-> [place |-> s[i], disc |-> shelf[s[i]]]]
  BY <1>1, <1>4
<1>7. g \in [1 .. Cardinality(Listed) -> [place : Shelves, disc : Discs]]
  BY <1>5, <1>6
<1>8. g \in Seq([place : Shelves, disc : Discs])
  <2> DEFINE G == [place : Shelves, disc : Discs]
  <2>1. g \in [1 .. Cardinality(Listed) -> G]
    BY <1>7
  <2> HIDE DEF G
  <2>2. g \in Seq(G)
    BY <1>3, <2>1
  <2> QED BY <2>2 DEF G
<1>9. \A i \in DOMAIN g : g[i].place \in Full_shelves /\ g[i].disc = shelf[g[i].place]
  BY <1>5, <1>6
<1> QED BY <1>8, <1>9

LEMMA LibraryStep ==
    ASSUME LibraryInv, [LibraryNext]_libraryVars
    PROVE  LibraryInv'
<1>0. LibraryTypeOK /\ ListInv /\ CacheInv /\ ListedInv /\ AskInv
  BY DEF LibraryInv
<1>p. SavedInv /\ PlayInv
  BY DEF LibraryInv
<1>t. /\ shelf \in [Shelves -> Discs \cup {NoDisc}] /\ start \in {"off", "discs", "art", "open"}
      /\ consoles \in [Keys -> {"nothing", "gc", "wii", "cut"}]
      /\ banners \in [Keys -> Discs \cup {"nothing", "refused", "cut"}]
      /\ saved \in [Folders -> [SaveSlots -> Discs \cup {"nothing", "cut"}]]
      /\ doubtful \subseteq Keys /\ spoilt \subseteq Keys /\ mixed \subseteq Folders
      /\ shown_as \in Seq({"gc", "wii", "switch", "?"}) /\ art \in Seq(Discs \cup {NoDisc})
      /\ Len(art) <= Len(shown_as) /\ Len(shown_as) <= Len(games)
  BY <1>0 DEF LibraryTypeOK
<1>s. /\ Len(games) \in Nat /\ Len(shown_as) \in Nat /\ Len(art) \in Nat
      /\ DOMAIN games = 1 .. Len(games)
  BY <1>0, SequenceFacts
<1>1. CASE UNCHANGED libraryVars
  <2>1. UNCHANGED <<shelf, consoles, banners, start, games, shown_as, art, choice, current, page, fresh,
                    meantFile, clear, doubtful, saved, mixed, spoilt>>
    BY <1>1 DEF libraryVars
  <2>2. LibraryTypeOK' /\ ListInv'
    BY <1>0, <2>1 DEF LibraryTypeOK, ListInv, Full_shelves
  <2>3. ListedInv'
    BY <1>0, <2>1 DEF ListedInv, ShownOf, Sure, SureOfSave, KeyOf, FileAt
  <2>4. SavedInv' /\ PlayInv'
    BY <1>p, <2>1, StillSaved
  <2> QED BY <1>0, <2>1, <2>2, <2>3, <2>4, StillTrue, StillAsked DEF LibraryInv
<1>2. ASSUME NEW p \in Shelves, NEW d \in Discs \cup {NoDisc}, Put(p, d) PROVE LibraryInv'
  BY <1>2, PutKeeps
<1>3. CASE Scan
  <2>1. /\ games' \in scan_all /\ start' = "discs" /\ shown_as' = << >> /\ art' = << >>
        /\ fresh' = FALSE
        /\ UNCHANGED <<shelf, consoles, banners, choice, page, meantFile, doubtful, saved, mixed, spoilt>>
    BY <1>3 DEF Scan, caches, doubts
  <2>2. /\ games' \in Seq([place : Shelves, disc : Discs])
        /\ \A i \in DOMAIN games' : games'[i].place \in Full_shelves /\ games'[i].disc = shelf[games'[i].place]
    BY <1>0, <2>1, ScanFacts
  <2>3. Len(games') \in Nat /\ DOMAIN games' = 1 .. Len(games')
    BY <2>2
  <2>4. LibraryTypeOK'
    <3>1. shown_as' \in Seq({"gc", "wii", "switch", "?"}) /\ art' \in Seq(Discs \cup {NoDisc})
          /\ Len(art') = 0 /\ Len(shown_as') = 0
      BY <2>1
    <3> QED BY <1>t, <2>1, <2>3, <3>1 DEF LibraryTypeOK
  <2>5. ListInv'
    BY <2>1, <2>2 DEF ListInv, Full_shelves
  <2>6. ListedInv'
    <3>1. \A i \in DOMAIN games' : ~(i <= Len(shown_as')) /\ ~(i <= Len(art'))
      BY <2>1, <2>3
    <3> QED BY <3>1 DEF ListedInv, ShownOf
  <2>7. AskInv'
    BY <1>0, <2>1 DEF AskInv, AskedIsPlayed
  <2>8. CacheInv'
    BY <1>0, <2>1, StillTrue
  <2>9. SavedInv' /\ PlayInv'
    BY <1>p, <2>1, StillSaved
  <2> QED BY <2>4, <2>5, <2>6, <2>7, <2>8, <2>9 DEF LibraryInv
<1>4. CASE DiscKnown
  <2> DEFINE n == Next_rom
             d == games[n].disc
             q == games[n].place
  <2>1. /\ ReadingDiscs /\ UNCHANGED <<consoles, doubtful, saved, mixed, spoilt, troubles, clear>>
        /\ UNCHANGED <<shelf, banners, start, games, art, choice, current, page, fresh, meantFile>>
        /\ \/ ConsoleOf[d] = "switch" /\ Says("switch")
           \/ /\ ConsoleOf[d] # "switch" /\ consoles[cache_file(q, d)] \in {"gc", "wii"}
              /\ Says(consoles[cache_file(q, d)])
    BY <1>4 DEF DiscKnown, DiscsRest, NoTrouble, Known, doubts
  <2>2. n \in DOMAIN games /\ start = "discs"
    BY <1>s, <2>1 DEF ReadingDiscs, Next_rom
  <2>3. /\ q \in Full_shelves /\ d = shelf[q] /\ d \in Discs
        /\ KeyOf(n) = KeyHere(q) /\ KeyOf(n) = cache_file(q, d)
    BY <1>0, <2>2, GameFacts
  <2>4. KeyOf(n) \notin doubtful => TrueOf(q)
    BY <1>0, <2>3 DEF CacheInv
  <2>5. PICK c \in {"gc", "wii", "switch", "?"} :
            Says(c) /\ (KeyOf(n) \notin doubtful => c = ConsoleOf[d])
    BY <2>1, <2>3, <2>4 DEF TrueOf
  <2> HIDE DEF q, d
  <2>6. /\ ListedInv' /\ ListInv' /\ shown_as' \in Seq({"gc", "wii", "switch", "?"})
        /\ Len(shown_as') = Len(shown_as) + 1 /\ Len(shown_as') <= Len(games)
    BY <2>1, <2>5, OneConsoleMore DEF d
  <2>7. LibraryTypeOK'
    <3>1. Len(art') <= Len(shown_as') /\ Len(shown_as') <= Len(games')
      BY <1>s, <1>t, <2>1, <2>6
    <3> QED BY <1>t, <2>1, <2>6, <3>1 DEF LibraryTypeOK
  <2>8. CacheInv' /\ AskInv'
    BY <1>0, <2>1, StillTrue, StillAsked
  <2>9. SavedInv' /\ PlayInv'
    BY <1>p, <2>1, StillSaved
  <2> QED BY <2>6, <2>7, <2>8, <2>9 DEF LibraryInv
<1>5. CASE DiscRead
  <2> DEFINE n == Next_rom
             d == games[n].disc
             q == games[n].place
             k == cache_file(q, d)
  <2>1. /\ ReadingDiscs /\ UNCHANGED <<doubtful, saved, mixed, spoilt>>
        /\ UNCHANGED <<shelf, banners, start, games, art, choice, current, page, fresh, meantFile>>
        /\ ConsoleOf[d] # "switch"
        /\ \/ UNCHANGED clear /\ Says(ConsoleOf[d]) /\ consoles' = Kept(k, ConsoleOf[d])
           \/ clear' = FALSE /\ Says("?") /\ consoles' = consoles
           \/ /\ clear' = FALSE /\ Says(ConsoleOf[d])
              /\ consoles' \in {consoles, [consoles EXCEPT ![k] = "cut"]}
    BY <1>5 DEF DiscRead, DiscsRest, NoTrouble, Trouble, Kept, Asks_tool, doubts, Cut
  <2>2. n \in DOMAIN games /\ start = "discs"
    BY <1>s, <2>1 DEF ReadingDiscs, Next_rom
  <2>3. /\ q \in Full_shelves /\ d = shelf[q] /\ d \in Discs
        /\ KeyOf(n) = KeyHere(q) /\ KeyOf(n) = k
        /\ ConsoleOf[d] \in {"gc", "wii", "switch", "?"}
    BY <1>0, <2>2, GameFacts, DiscsAre
  <2> HIDE DEF q, d, k
  <2>5. PICK c \in {"gc", "wii", "switch", "?"} :
            Says(c) /\ c \in {"?", ConsoleOf[d]} /\ (clear' => c = ConsoleOf[d])
    BY <2>1, <2>3
  <2>6. /\ ListedInv' /\ ListInv' /\ shown_as' \in Seq({"gc", "wii", "switch", "?"})
        /\ Len(shown_as') = Len(shown_as) + 1 /\ Len(shown_as') <= Len(games)
    BY <2>1, <2>5, OneConsoleMore DEF d
  <2>7. CacheInv' /\ consoles' \in [Keys -> {"nothing", "gc", "wii", "cut"}]
    <3>1. CASE consoles' = consoles
      BY <1>0, <1>t, <2>1, <3>1, StillTrue
    <3>2. CASE consoles' # consoles
      <4>1. PICK w \in {"gc", "wii", "cut"} :
                consoles' = [consoles EXCEPT ![k] = w] /\ w \in {"cut", ConsoleOf[d]}
        BY <2>1, <2>3, <3>2 DEF Kept
      <4>2. CacheInv'
        BY <2>1, <2>3, <4>1, ConsoleKept
      <4> QED BY <1>t, <4>1, <4>2
    <3> QED BY <3>1, <3>2
  <2>8. LibraryTypeOK'
    <3>1. Len(art') <= Len(shown_as') /\ Len(shown_as') <= Len(games')
      BY <1>s, <1>t, <2>1, <2>6
    <3> QED BY <1>t, <2>1, <2>6, <2>7, <3>1 DEF LibraryTypeOK
  <2>9. AskInv'
    BY <1>0, <2>1, StillAsked
  <2>10. SavedInv' /\ PlayInv'
    BY <1>p, <2>1, StillSaved
  <2> QED BY <2>6, <2>7, <2>8, <2>9, <2>10 DEF LibraryInv
<1>6. CASE DiscsDone
  <2>1. /\ start = "discs" /\ start' = "art" /\ Next_rom > Len(games)
        /\ UNCHANGED <<shelf, consoles, banners, games, shown_as, art, choice, current, page, fresh,
                       meantFile, doubtful, saved, mixed, spoilt, clear>>
    BY <1>6 DEF DiscsDone, NoTrouble, caches, doubts
  <2>2. Len(shown_as) = Len(games)
    BY <1>s, <1>t, <2>1 DEF Next_rom
  <2>3. LibraryTypeOK' /\ ListInv'
    BY <1>0, <2>1, <2>2 DEF LibraryTypeOK, ListInv, Full_shelves
  <2>4. CacheInv' /\ ListedInv' /\ AskInv'
    <3>1. AskInv'
      BY <1>0, <2>1 DEF AskInv, AskedIsPlayed
    <3> QED BY <1>0, <2>1, <3>1, StillTrue, StillShown
  <2>5. SavedInv' /\ PlayInv'
    BY <1>p, <2>1, StillSaved
  <2> QED BY <2>3, <2>4, <2>5 DEF LibraryInv
<1>7. CASE CoverOfItsOwn
  <2> DEFINE n == Next_art
             d == games[n].disc
  <2>1. /\ Gathering /\ UNCHANGED <<consoles, banners, doubtful, saved, mixed, spoilt, clear>>
        /\ UNCHANGED <<shelf, start, games, shown_as, choice, current, page, fresh, meantFile>>
        /\ shown_as[n] = "switch" /\ Shows(Truly(d))
    BY <1>7 DEF CoverOfItsOwn, ArtRest, NoTrouble
  <2>2. n \in DOMAIN games /\ start = "art"
    BY <1>s, <2>1 DEF Gathering, Next_art
  <2>3. d \in Discs
    BY <1>0, <2>2, GameFacts
  <2> HIDE DEF d
  <2>5. PICK e \in Discs \cup {NoDisc} : Shows(e) /\ e \in {NoDisc, d} /\ e = Truly(d)
    BY <2>1, <2>3 DEF Truly
  <2>6. /\ ListedInv' /\ ListInv' /\ art' \in Seq(Discs \cup {NoDisc})
        /\ Len(art') = Len(art) + 1 /\ Len(art') <= Len(shown_as)
    BY <2>1, <2>5, OneCoverMore DEF d
  <2>7. LibraryTypeOK'
    BY <1>t, <2>1, <2>6 DEF LibraryTypeOK
  <2>8. CacheInv' /\ AskInv'
    BY <1>0, <2>1, StillTrue, StillAsked
  <2>9. SavedInv' /\ PlayInv'
    BY <1>p, <2>1, StillSaved
  <2> QED BY <2>6, <2>7, <2>8, <2>9 DEF LibraryInv
<1>14. CASE CoverFromSave
  <2> DEFINE n == Next_art
             d == games[n].disc
  <2>1. /\ Gathering /\ UNCHANGED <<consoles, banners, doubtful, saved, mixed, spoilt, clear>>
        /\ UNCHANGED <<shelf, start, games, shown_as, choice, current, page, fresh, meantFile>>
        /\ shown_as[n] = "wii" /\ Shows(InSave(SaveFolder[FileAt(n)]))
    BY <1>14 DEF CoverFromSave, ArtRest, NoTrouble
  <2>2. n \in DOMAIN games /\ start = "art"
    BY <1>s, <2>1 DEF Gathering, Next_art
  <2>3. d \in Discs
    BY <1>0, <2>2, GameFacts
  <2>4. /\ InSave(SaveFolder[FileAt(n)]) \in Discs \cup {NoDisc}
        /\ SureOfSave(n) => InSave(SaveFolder[FileAt(n)]) \in {NoDisc, d}
    <3>1. /\ games[n].place \in Full_shelves /\ d = shelf[games[n].place]
          /\ SaveFolder[FileAt(n)] = FolderOf(games[n].place)
      BY <1>0, <2>2, GameFacts
    <3>2. SureOfSave(n) => SavesOf(games[n].place)
      BY <1>p, <3>1 DEF SureOfSave, SavedInv
    <3>3. "nothing" \notin Discs /\ "cut" \notin Discs /\ 1 \in SaveSlots /\ 2 \in SaveSlots
      BY LibraryAssumption DEF SaveSlots
    <3> QED BY <3>1, <3>2, <3>3 DEF SavesOf, InSave
  <2> HIDE DEF d
  <2>5. PICK e \in Discs \cup {NoDisc} : Shows(e) /\ (SureOfSave(n) => e \in {NoDisc, d})
    BY <2>1, <2>3, <2>4
  <2>6. /\ ListedInv' /\ ListInv' /\ art' \in Seq(Discs \cup {NoDisc})
        /\ Len(art') = Len(art) + 1 /\ Len(art') <= Len(shown_as)
    BY <2>1, <2>5, OneCoverMore DEF d
  <2>7. LibraryTypeOK'
    BY <1>t, <2>1, <2>6 DEF LibraryTypeOK
  <2>8. CacheInv' /\ AskInv'
    BY <1>0, <2>1, StillTrue, StillAsked
  <2>9. SavedInv' /\ PlayInv'
    BY <1>p, <2>1, StillSaved
  <2> QED BY <2>6, <2>7, <2>8, <2>9 DEF LibraryInv
<1>8. CASE CoverFromDisc
  <2> DEFINE n == Next_art
             d == games[n].disc
             q == games[n].place
             k == cache_file(q, d)
  <2>1. /\ Gathering
        /\ UNCHANGED <<shelf, consoles, start, games, shown_as, choice, current, page, fresh, meantFile,
                       saved, mixed, doubtful>>
        /\ \/ /\ banners[k] # "nothing" /\ UNCHANGED <<clear, banners, spoilt>>
              /\ Shows(IF banners[k] \in Discs THEN banners[k] ELSE NoDisc)
           \/ /\ d \in Bannered /\ UNCHANGED <<clear, spoilt>>
              /\ Shows(d) /\ banners' = [banners EXCEPT ![k] = d]
           \/ /\ d \notin Bannered /\ UNCHANGED <<clear, spoilt>>
              /\ Shows(NoDisc) /\ banners' = [banners EXCEPT ![k] = "refused"]
           \/ clear' = FALSE /\ UNCHANGED <<banners, spoilt>> /\ Shows(NoDisc)
           \/ clear' = FALSE /\ UNCHANGED <<banners, spoilt>> /\ Shows(d)
           \/ /\ clear' = FALSE /\ Shows(d) /\ banners' = [banners EXCEPT ![k] = "cut"]
              /\ spoilt' = spoilt \cup {k}
           \/ /\ clear' = FALSE /\ Shows(NoDisc) /\ banners' = [banners EXCEPT ![k] = "refused"]
              /\ spoilt' = spoilt \cup {k}
    BY <1>8 DEF CoverFromDisc, ArtRest, NoTrouble, Trouble, Marked, Cut
  <2>2. n \in DOMAIN games /\ start = "art"
    BY <1>s, <2>1 DEF Gathering, Next_art
  <2>3. /\ q \in Full_shelves /\ d = shelf[q] /\ d \in Discs
        /\ KeyOf(n) = KeyHere(q) /\ KeyOf(n) = k /\ KeyHere(q) = k
    BY <1>0, <2>2, GameFacts
  <2>4. k \notin doubtful => TrueOf(q)
    BY <1>0, <2>3 DEF CacheInv
  <2>5. k \in Keys /\ d \notin {"nothing", "refused", "cut"}
    BY <1>0, <2>3, ShelfFacts, DiscsAre
  <2> HIDE DEF q, d, k
  <2>6. spoilt \subseteq spoilt' /\ (clear' => clear) /\ spoilt' \subseteq Keys
    BY <1>t, <2>1, <2>5
  <2>7. PICK e \in Discs \cup {NoDisc} :
            /\ Shows(e)
            /\ k \notin doubtful => e \in {NoDisc, d} /\ (clear' /\ k \notin spoilt' => e = Truly(d))
    <3>1. CASE /\ banners[k] # "nothing" /\ UNCHANGED <<clear, banners, spoilt>>
               /\ Shows(IF banners[k] \in Discs THEN banners[k] ELSE NoDisc)
      <4>1. ASSUME k \notin doubtful
            PROVE  \/ banners[k] = d /\ d \in Bannered
                   \/ banners[k] = "refused" /\ d \notin Bannered
                   \/ banners[k] \in {"refused", "cut"} /\ k \in spoilt
        BY <2>3, <2>4, <3>1, <4>1 DEF TrueOf
      <4>2. "refused" \notin Discs /\ "cut" \notin Discs
        BY LibraryAssumption
      <4> QED BY <2>3, <3>1, <4>1, <4>2 DEF Truly
    <3>2. CASE d \in Bannered /\ Shows(d)
      BY <2>3, <3>2 DEF Truly
    <3>3. CASE d \notin Bannered /\ Shows(NoDisc)
      BY <3>3 DEF Truly
    <3>4. CASE clear' = FALSE /\ (Shows(NoDisc) \/ Shows(d))
      BY <2>3, <3>4
    <3> QED BY <2>1, <3>1, <3>2, <3>3, <3>4
  <2>8. /\ ListedInv' /\ ListInv' /\ art' \in Seq(Discs \cup {NoDisc})
        /\ Len(art') = Len(art) + 1 /\ Len(art') <= Len(shown_as)
    <3>1. shown_as[n] \in {"gc", "?"}
      BY <1>8 DEF CoverFromDisc
    <3> QED BY <2>1, <2>3, <2>6, <2>7, <3>1, OneCoverMore DEF d
  <2>9. CacheInv' /\ banners' \in [Keys -> Discs \cup {"nothing", "refused", "cut"}]
    <3>1. CASE UNCHANGED banners
      BY <1>0, <1>t, <2>1, <2>6, <3>1, StillTrue
    <3>2. ASSUME NEW b, banners' = [banners EXCEPT ![k] = b],
                 \/ b = d /\ d \in Bannered
                 \/ b = "refused" /\ d \notin Bannered
                 \/ b \in {"refused", "cut"} /\ k \in spoilt'
          PROVE  CacheInv' /\ banners' \in [Keys -> Discs \cup {"nothing", "refused", "cut"}]
      <4>1. CacheInv'
        BY <2>1, <2>3, <2>6, <3>2, BannerKept
      <4> QED BY <1>t, <2>3, <3>2, <4>1
    <3> QED BY <2>1, <3>1, <3>2
  <2>10. LibraryTypeOK'
    BY <1>t, <2>1, <2>6, <2>8, <2>9 DEF LibraryTypeOK
  <2>11. AskInv'
    BY <1>0, <2>1, StillAsked
  <2>12. SavedInv' /\ PlayInv'
    BY <1>p, <2>1, StillSaved
  <2> QED BY <2>8, <2>9, <2>10, <2>11, <2>12 DEF LibraryInv
<1>9. CASE Open
  <2>1. /\ start = "art" /\ start' = "open" /\ Next_art > Len(games)
        /\ current' = IF chosen_rom \in {games[i].place : i \in DOMAIN games} THEN chosen_rom ELSE NoFile
        /\ UNCHANGED <<shelf, consoles, banners, games, shown_as, art, choice, page, fresh,
                       meantFile, doubtful, saved, mixed, spoilt, clear>>
    BY <1>9 DEF Open, NoTrouble, caches, doubts
  <2>2. Len(art) = Len(games) /\ Len(shown_as) = Len(games)
    <3>1. Len(shown_as) = Len(games)
      BY <1>0, <2>1 DEF ListInv
    <3> QED BY <1>s, <1>t, <2>1, <3>1 DEF Next_art
  <2>3. LibraryTypeOK' /\ ListInv'
    BY <1>0, <2>1, <2>2 DEF LibraryTypeOK, ListInv, Full_shelves
  <2>4. CacheInv' /\ ListedInv'
    BY <1>0, <2>1, StillTrue, StillShown
  <2>5. AskInv'
    <3>1. AskedIsPlayed'
      <4> SUFFICES ASSUME meantFile # NoFile, PlaceOf(meantFile) # {} PROVE current' \in PlaceOf(meantFile)
        BY <2>1 DEF AskedIsPlayed, PlaceOf, FileAt
      <4>1. choice = meantFile /\ chosen_rom \in PlaceOf(choice)
        BY <1>0 DEF AskInv, chosen_rom
      <4>2. PlaceOf(choice) \subseteq {games[i].place : i \in DOMAIN games}
        BY DEF PlaceOf
      <4> QED BY <2>1, <4>1, <4>2
    <3> QED BY <1>0, <2>1, <3>1 DEF AskInv
  <2>6. SavedInv'
    BY <1>p, <2>1 DEF SavedInv, SavesOf, FolderOf, Full_shelves
  <2>7. PlayInv'
    <3> SUFFICES ASSUME NEW i \in DOMAIN games, NEW q \in Full_shelves,
                        FolderOf(q) = SaveFolder[FileAt(i)], FolderOf(q) \notin mixed
                 PROVE  shelf[q] = games[i].disc
      BY <2>1 DEF PlayInv, Playing, FileAt, FolderOf, Full_shelves
    <3>1. /\ games[i].place \in Full_shelves /\ games[i].disc = shelf[games[i].place]
          /\ SaveFolder[FileAt(i)] = FolderOf(games[i].place)
      BY <1>0, <2>1, GameFacts
    <3>2. games[i].place = q
      BY <1>p, <3>1 DEF SavedInv, SavesOf
    <3> QED BY <3>1, <3>2
  <2> QED BY <2>3, <2>4, <2>5, <2>6, <2>7 DEF LibraryInv
<1>10. CASE LibraryDies
  <2>1. /\ start' = "off" /\ fresh' = FALSE /\ clear' = FALSE /\ start \in {"discs", "art"}
        /\ UNCHANGED <<shelf, games, shown_as, art, choice, current, page, meantFile, saved, mixed, doubtful>>
    BY <1>10 DEF LibraryDies, Trouble, Stops, DieRest
  <2>2. /\ spoilt \subseteq spoilt' /\ spoilt' \subseteq Keys /\ CacheInv'
        /\ consoles' \in [Keys -> {"nothing", "gc", "wii", "cut"}]
        /\ banners' \in [Keys -> Discs \cup {"nothing", "refused", "cut"}]
    <3> DEFINE key(i) == cache_file(games[i].place, games[i].disc)
    <3>0. ASSUME NEW i \in DOMAIN games
          PROVE  \E q \in Full_shelves : KeyHere(q) = key(i) /\ KeyHere(q) \in Keys
      BY <1>0, <2>1, GameFacts, ShelfFacts
    <3>1. CASE UNCHANGED <<consoles, banners, spoilt>>
      BY <1>0, <1>t, <2>1, <3>1, StillTrue
    <3>2. ASSUME NEW i \in DOMAIN games, UNCHANGED <<banners, spoilt>>,
                 consoles' = [consoles EXCEPT ![key(i)] = "cut"]
          PROVE  CacheInv' /\ consoles' \in [Keys -> {"nothing", "gc", "wii", "cut"}]
      <4>1. PICK q \in Full_shelves : KeyHere(q) = key(i) /\ KeyHere(q) \in Keys
        BY <3>0
      <4> HIDE DEF key
      <4>3. CacheInv'
        BY <2>1, <3>2, <4>1, ConsoleKept
      <4> QED BY <1>t, <3>2, <4>1, <4>3
    <3>3. ASSUME NEW i \in DOMAIN games, consoles' = consoles,
                 banners' = [banners EXCEPT ![key(i)] = "cut"], spoilt' = spoilt \cup {key(i)}
          PROVE  /\ spoilt' \subseteq Keys /\ CacheInv'
                 /\ banners' \in [Keys -> Discs \cup {"nothing", "refused", "cut"}]
      <4>1. PICK q \in Full_shelves : KeyHere(q) = key(i) /\ KeyHere(q) \in Keys
        BY <3>0
      <4> HIDE DEF key
      <4>3. CacheInv'
        BY <2>1, <3>3, <4>1, BannerKept
      <4> QED BY <1>t, <3>3, <4>1, <4>3
    <3>4. /\ ReadingDiscs => Next_rom \in DOMAIN games
          /\ Gathering => Next_art \in DOMAIN games
      BY <1>s DEF ReadingDiscs, Gathering, Next_rom, Next_art
    <3>5. \/ UNCHANGED <<consoles, banners, spoilt>>
          \/ \E i \in DOMAIN games : /\ UNCHANGED <<banners, spoilt>>
                                     /\ consoles' = [consoles EXCEPT ![key(i)] = "cut"]
          \/ \E i \in DOMAIN games : /\ consoles' = consoles /\ spoilt' = spoilt \cup {key(i)}
                                     /\ banners' = [banners EXCEPT ![key(i)] = "cut"]
      BY <1>10, <3>4 DEF LibraryDies, caches, Cut
    <3> QED BY <1>t, <3>1, <3>2, <3>3, <3>5
  <2>3. LibraryTypeOK'
    BY <1>t, <2>1, <2>2 DEF LibraryTypeOK
  <2>4. ListInv'
    BY <1>0, <2>1 DEF ListInv
  <2>5. ListedInv' /\ AskInv'
    BY <1>0, <2>1, <2>2, StillShown, StillAsked
  <2>6. SavedInv' /\ PlayInv'
    BY <1>p, <2>1, StillSaved
  <2> QED BY <2>2, <2>3, <2>4, <2>5, <2>6 DEF LibraryInv
<1>11. CASE Load
  <2>1. /\ start = "open" /\ page' = [i \in DOMAIN games |-> FileAt(i)] /\ fresh' = TRUE
        /\ UNCHANGED <<shelf, consoles, banners, start, games, shown_as, art, choice, current, meantFile,
                       clear, doubtful, saved, mixed, spoilt>>
    BY <1>11 DEF Load, caches, doubts
  <2>2. LibraryTypeOK' /\ ListInv'
    BY <1>0, <2>1 DEF LibraryTypeOK, ListInv, Full_shelves
  <2>3. CacheInv' /\ ListedInv'
    BY <1>0, <2>1, StillTrue, StillShown
  <2>4. AskInv'
    BY <1>0, <2>1 DEF AskInv, AskedIsPlayed, PlaceOf, FileAt
  <2>5. SavedInv' /\ PlayInv'
    BY <1>p, <2>1, StillSaved
  <2> QED BY <2>2, <2>3, <2>4, <2>5 DEF LibraryInv
<1>12. ASSUME NEW i \in DOMAIN page, Ask(i) PROVE LibraryInv'
  <2>1. /\ start' = "off" /\ fresh' = FALSE
        /\ choice' \in Remembered(i) /\ meantFile' = IF fresh THEN page[i] ELSE NoFile
        /\ UNCHANGED <<shelf, consoles, banners, games, shown_as, art, current, page, clear, doubtful,
                       saved, mixed, spoilt>>
    BY <1>12 DEF Ask, Stops, caches, doubts
  <2>2. LibraryTypeOK' /\ ListInv'
    BY <1>0, <2>1 DEF LibraryTypeOK, ListInv, Full_shelves
  <2>3. CacheInv' /\ ListedInv'
    BY <1>0, <2>1, StillTrue, StillShown
  <2>4. AskInv'
    <3>1. i \in DOMAIN games /\ choice' = FileAt(i)
      BY <2>1 DEF Remembered
    <3>2. fresh => page[i] = FileAt(i)
      BY <1>0, <3>1 DEF AskInv
    <3> QED BY <2>1, <3>1, <3>2 DEF AskInv, AskedIsPlayed
  <2>5. SavedInv' /\ PlayInv'
    BY <1>p, <2>1, StillSaved
  <2> QED BY <2>2, <2>3, <2>4, <2>5 DEF LibraryInv
<1>13. CASE Leave_open
  <2>1. /\ start' = "off" /\ fresh' = FALSE
        /\ UNCHANGED <<shelf, consoles, banners, games, shown_as, art, choice, current, page, meantFile,
                       clear, doubtful, saved, mixed, spoilt>>
    BY <1>13 DEF Leave_open, Stops, DieRest, caches
  <2>2. LibraryTypeOK' /\ ListInv'
    BY <1>0, <2>1 DEF LibraryTypeOK, ListInv, Full_shelves
  <2>3. CacheInv' /\ ListedInv' /\ AskInv'
    BY <1>0, <2>1, StillTrue, StillShown, StillAsked
  <2>4. SavedInv' /\ PlayInv'
    BY <1>p, <2>1, StillSaved
  <2> QED BY <2>2, <2>3, <2>4 DEF LibraryInv
<1>15. ASSUME NEW slot \in SaveSlots, SaveBanner(slot) PROVE LibraryInv'
  <2>1. PICK i \in DOMAIN games, said \in Discs \cup {"cut"} :
            /\ Playing(i) /\ said \in {games[i].disc, "cut"}
            /\ saved' = [saved EXCEPT ![SaveFolder[FileAt(i)]][slot] = said]
    <3>1. \A i \in DOMAIN games : games[i].disc \in Discs
      BY <1>0, GameFacts
    <3> QED BY <1>15, <3>1 DEF SaveBanner
  <2>2. UNCHANGED <<shelf, consoles, banners, start, games, shown_as, art, choice, current, page, fresh,
                    meantFile, clear, doubtful, mixed, spoilt>>
    BY <1>15 DEF SaveBanner, caches, doubts
  <2>3. SaveFolder[FileAt(i)] \in Folders
    BY <1>0, GameFacts
  <2>4. LibraryTypeOK' /\ ListInv'
    <3>1. saved' \in [Folders -> [SaveSlots -> Discs \cup {"nothing", "cut"}]]
      BY <1>t, <2>1, <2>3
    <3> QED BY <1>0, <2>2, <3>1 DEF LibraryTypeOK, ListInv, Full_shelves
  <2>5. CacheInv' /\ ListedInv' /\ AskInv'
    BY <1>0, <2>2, StillTrue, StillShown, StillAsked
  <2>6. PlayInv'
    BY <1>p, <2>2 DEF PlayInv, Playing, FolderOf, FileAt, Full_shelves
  <2>7. SavedInv'
    <3> SUFFICES ASSUME NEW q \in Full_shelves, FolderOf(q) \notin mixed PROVE SavesOf(q)'
      BY <2>2 DEF SavedInv, FolderOf, Full_shelves
    <3>1. SavesOf(q)
      BY <1>p DEF SavedInv
    <3>2. \A s \in SaveSlots : saved'[FolderOf(q)][s] \in {"nothing", "cut", shelf[q]}
      <4>1. CASE FolderOf(q) = SaveFolder[FileAt(i)]
        <5>1. said \in {"cut", shelf[q]}
          BY <1>p, <2>1, <4>1 DEF PlayInv
        <5>2. \A s \in SaveSlots : saved'[FolderOf(q)][s] \in {saved[FolderOf(q)][s], said}
          BY <1>t, <2>1, <2>3, <4>1
        <5> QED BY <3>1, <5>1, <5>2 DEF SavesOf
      <4>2. CASE FolderOf(q) # SaveFolder[FileAt(i)]
        <5>1. FolderOf(q) \in Folders
          BY <1>0, ShelfFacts
        <5>2. saved'[FolderOf(q)] = saved[FolderOf(q)]
          BY <1>t, <2>1, <4>2, <5>1
        <5> QED BY <3>1, <5>2 DEF SavesOf
      <4> QED BY <4>1, <4>2
    <3> QED BY <2>2, <3>1, <3>2 DEF SavesOf, FolderOf, Full_shelves
  <2> QED BY <2>4, <2>5, <2>6, <2>7 DEF LibraryInv
<1> QED BY <1>1, <1>2, <1>3, <1>4, <1>5, <1>6, <1>7, <1>8, <1>9, <1>10, <1>11, <1>12, <1>13, <1>14, <1>15
        DEF LibraryNext

LEMMA LibraryInvGives ==
    LibraryInv => LibraryTypeOK /\ ShownIsTheDisc /\ TroubleIsForgotten /\ AskedIsPlayed
<1> SUFFICES ASSUME LibraryInv PROVE LibraryTypeOK /\ ShownIsTheDisc /\ TroubleIsForgotten /\ AskedIsPlayed
  OBVIOUS
<1>1. LibraryTypeOK /\ ListInv /\ ListedInv /\ AskedIsPlayed
  BY DEF LibraryInv, AskInv
<1>2. ASSUME start = "open", NEW i \in DOMAIN games, Sure(i)
      PROVE  ShownOf(i) /\ i <= Len(shown_as) /\ i <= Len(art)
  <2>1. i <= Len(games) /\ Len(shown_as) = Len(games) /\ Len(art) = Len(games)
    BY <1>1, <1>2, GameFacts DEF ListInv
  <2> QED BY <1>1, <1>2, <2>1 DEF ListedInv
<1>3. ShownIsTheDisc /\ TroubleIsForgotten
  BY <1>2 DEF ShownIsTheDisc, TroubleIsForgotten, ShownOf
<1> QED BY <1>1, <1>3

\* What the menu says of a disc is that disc's, whatever the shelves hold, are
\* given and lose, and the game asked is the game played (library.rs, disc.rs).
THEOREM LibraryAlwaysTrue ==
    LibrarySpec => [](LibraryTypeOK /\ ShownIsTheDisc /\ TroubleIsForgotten /\ AskedIsPlayed)
<1>1. LibraryInv /\ [LibraryNext]_libraryVars => LibraryInv'
  BY LibraryStep
<1> QED BY <1>1, LibraryBegins, LibraryInvGives, PTL DEF LibrarySpec


-----------------------------------------------------------------------------
(* The clip (clip.rs)                                                       *)

Filmed == [age : 0 .. KEEPS, key : BOOLEAN]

\* What is kept gets older towards its beginning and ends with what came last.
FilmInv ==
    /\ film \in Seq(Filmed)
    /\ film # <<>> => film[Len(film)].age = 0
    /\ \A i, j \in 1 .. Len(film) : i < j => film[i].age > film[j].age
    /\ filmBytes = WeightOf(film) /\ filmBytes <= HOLDS
    /\ filmGap \in 0 .. KEEPS + 1 /\ (filmGap = 0 <=> "picture" \in ended)
    /\ ended \subseteq {"picture", "sound"} /\ rest \in 0 .. APART
\* A group of pictures in a row has a key frame.
KeyInv ==
    /\ \A i \in 1 .. Len(film) : i + GOP - 1 <= Len(film) => \E j \in i .. i + GOP - 1 : film[j].key
    /\ sinceKey \in 1 .. GOP
    /\ sinceKey <= Len(film) => film[Len(film) + 1 - sinceKey].key
Rolled(n) == \A a \in 0 .. n - 1 : a < Len(film) /\ film[Len(film) - a].age = a
RollInv ==
    /\ rolling \in 0 .. KEEPS + 1
    /\ "picture" \in ended => Rolled(rolling)
    /\ "picture" \notin ended => Rolled(rolling - 1) /\ (rolling > 0 => filmGap = 1)
TapeInv ==
    /\ tape \in Seq(0 .. KEEPS) /\ Len(tape) <= SOUND_HOLDS
    /\ \A i, j \in 1 .. Len(tape) : i < j => tape[i] >= tape[j]
    /\ tapeGap \in 0 .. KEEPS + 1 /\ sounding \in 0 .. KEEPS + 1
Heard(n) == \A a \in 0 .. n - 1 : a < KEEPS => a < Len(tape) /\ tape[Len(tape) - a] = a
\* The pictures began later than the sound is counted from.
Younger(n) == /\ \A i \in 1 .. Len(film) : film[i].age + filmGap < n
              /\ n = 0 => "picture" \in ended
\* What came in a row is all kept: counted from a tick with nothing in it, or with
\* nothing of the pictures before it.
SoundInv ==
    /\ "sound" \in ended => /\ tapeGap = 0 /\ Heard(sounding)
                            /\ sounding < KEEPS => Heard(sounding + 1) \/ Younger(sounding)
    /\ "sound" \notin ended /\ sounding > 0 =>
           /\ tapeGap = 1 /\ Heard(sounding - 1)
           /\ sounding - 1 < KEEPS => Heard(sounding) \/ Younger(sounding)

ClipInv == FilmInv /\ KeyInv /\ RollInv /\ TapeInv /\ SoundInv

LEMMA Bounds ==
    /\ COVERS \in Nat \ {0} /\ GOP \in Nat \ {0} /\ KEEPS \in Nat /\ COVERS + GOP <= KEEPS
    /\ HOLDS \in Nat /\ SOUND_HOLDS \in Nat /\ SOUND_HOLDS >= KEEPS /\ APART \in Nat /\ KEEPS > 1
BY ClipAssumption

LEMMA FirstIsThere ==
    ASSUME NEW S, S \subseteq Nat, S # {}
    PROVE  \E n \in S : \A k \in 0 .. n - 1 : k \notin S
<1> DEFINE R == OpToRel(<, Nat)
<1>1. IsWellFoundedOn(R, Nat)
  BY NatLessThanWellFounded
<1>2. \A x, y \in Nat : x < y => <<x, y>> \in R
  BY DEF OpToRel
<1> HIDE DEF R
<1>3. PICK x \in S : \A y \in S : ~ (<<y, x>> \in R)
  BY <1>1, WFMin
<1>4. ASSUME NEW k \in 0 .. x - 1 PROVE k \notin S
  <2>1. x \in Nat /\ k \in Nat /\ k < x
    BY <1>4
  <2> QED BY <1>2, <1>3, <2>1
<1> QED BY <1>4

LEMMA LeastIsFirst ==
    ASSUME NEW S, S \subseteq Nat, S # {}
    PROVE  Min(S) \in S /\ \A k \in 0 .. Min(S) - 1 : k \notin S
<1>1. PICK n \in S : \A k \in 0 .. n - 1 : k \notin S
  BY FirstIsThere
<1>2. ASSUME NEW m \in S PROVE n <= m
  <2>1. n \in Nat /\ m \in Nat /\ ~(m \in 0 .. n - 1)
    BY <1>1
  <2> QED BY <2>1
<1>3. Min(S) \in S /\ \A m \in S : Min(S) <= m
  BY <1>2 DEF Min
<1>4. ASSUME NEW k \in 0 .. Min(S) - 1 PROVE k \notin S
  <2> DEFINE n0 == Min(S)
  <2>1. n0 \in Nat /\ k \in 0 .. n0 - 1
    BY <1>3, <1>4
  <2> HIDE DEF n0
  <2>2. k \in Nat /\ ~(n0 <= k)
    BY <2>1
  <2> QED BY <1>3, <2>2 DEF n0
<1> QED BY <1>3, <1>4

LEMMA SuffixFacts ==
    ASSUME NEW T, NEW s \in Seq(T), NEW n \in 0 .. Len(s)
    PROVE  /\ SubSeq(s, n + 1, Len(s)) \in Seq(T) /\ Len(SubSeq(s, n + 1, Len(s))) = Len(s) - n
           /\ \A i \in 1 .. Len(s) - n : SubSeq(s, n + 1, Len(s))[i] = s[n + i]
<1>1. Len(s) \in Nat /\ n \in Nat /\ n <= Len(s)
  OBVIOUS
<1>2. \A i \in n + 1 .. Len(s) : s[i] \in T
  BY <1>1
<1>3. SubSeq(s, n + 1, Len(s)) \in Seq(T) /\ Len(SubSeq(s, n + 1, Len(s))) = Len(s) - n
  BY <1>1, <1>2
<1>4. \A i \in 1 .. Len(s) - n : SubSeq(s, n + 1, Len(s))[i] = s[n + i]
  BY <1>1
<1> QED BY <1>3, <1>4

LEMMA AppendFacts ==
    ASSUME NEW T, NEW s \in Seq(T), NEW x \in T
    PROVE  /\ Append(s, x) \in Seq(T) /\ Len(Append(s, x)) = Len(s) + 1
           /\ \A i \in 1 .. Len(s) : Append(s, x)[i] = s[i]
           /\ Append(s, x)[Len(s) + 1] = x
OBVIOUS

KeysIn(s) == {i \in DOMAIN s : s[i].key}

\* The weight of what is kept is that of all without that of what goes.
LEMMA WeightSplits ==
    ASSUME NEW T, NEW s \in Seq(T), NEW n \in 0 .. Len(s)
    PROVE  /\ WeightOf(s) \in Nat
           /\ WeightOf(SubSeq(s, n + 1, Len(s))) = WeightOf(s) - WeightOf(SubSeq(s, 1, n))
<1> DEFINE b == SubSeq(s, 1, n)
           e == SubSeq(s, n + 1, Len(s))
<1>1. Len(s) \in Nat /\ n \in Nat /\ n <= Len(s) /\ DOMAIN s = 1 .. Len(s)
  OBVIOUS
<1>2. DOMAIN b = 1 .. n /\ Len(b) = n /\ \A i \in 1 .. n : b[i] = s[i]
  BY <1>1
<1>3. DOMAIN e = 1 .. Len(s) - n /\ Len(e) = Len(s) - n /\ \A i \in 1 .. Len(s) - n : e[i] = s[n + i]
  <2>1. e \in Seq(T) /\ Len(e) = Len(s) - n /\ \A i \in 1 .. Len(s) - n : e[i] = s[n + i]
    BY SuffixFacts
  <2> QED BY <2>1
<1> HIDE DEF b, e
<1> DEFINE K == {i \in n + 1 .. Len(s) : s[i].key}
<1>4. KeysIn(s) = KeysIn(b) \union K /\ KeysIn(b) \cap K = {}
  BY <1>1, <1>2 DEF KeysIn
<1>5. IsFiniteSet(KeysIn(b)) /\ IsFiniteSet(K)
  <2>1. IsFiniteSet(1 .. Len(s))
    BY <1>1, FS_Interval
  <2>2. KeysIn(b) \subseteq 1 .. Len(s) /\ K \subseteq 1 .. Len(s)
    BY <1>1, <1>2 DEF KeysIn
  <2> QED BY <2>1, <2>2, FS_Subset
<1>6. Cardinality(KeysIn(s)) = Cardinality(KeysIn(b)) + Cardinality(K)
  <2>1. Cardinality(KeysIn(b) \union K) =
            Cardinality(KeysIn(b)) + Cardinality(K) - Cardinality(KeysIn(b) \cap K)
    BY <1>5, FS_Union
  <2>2. Cardinality(KeysIn(b) \cap K) = 0
    BY <1>4, FS_EmptySet
  <2> HIDE DEF K
  <2>3. Cardinality(KeysIn(b)) \in Nat /\ Cardinality(K) \in Nat
    BY <1>5, FS_CardinalityType
  <2> QED BY <1>4, <2>1, <2>2, <2>3
<1>7. Cardinality(KeysIn(e)) = Cardinality(K)
  <2> DEFINE f == [i \in KeysIn(e) |-> n + i]
  <2>1. \A i \in KeysIn(e) : i \in 1 .. Len(s) - n /\ s[n + i].key
    BY <1>3 DEF KeysIn
  <2>2. f \in [KeysIn(e) -> K]
    BY <1>1, <2>1
  <2>3. \A i, j \in KeysIn(e) : f[i] = f[j] => i = j
    BY <1>1, <2>1
  <2>4. \A k \in K : k - n \in KeysIn(e) /\ f[k - n] = k
    <3> SUFFICES ASSUME NEW k \in n + 1 .. Len(s), s[k].key PROVE k - n \in KeysIn(e) /\ f[k - n] = k
      OBVIOUS
    <3>1. k - n \in 1 .. Len(s) - n /\ n + (k - n) = k
      BY <1>1
    <3>2. e[k - n].key
      BY <1>3, <3>1
    <3>3. k - n \in KeysIn(e)
      BY <1>3, <3>1, <3>2 DEF KeysIn
    <3> QED BY <3>1, <3>3
  <2> HIDE DEF f, K
  <2>5. f \in Bijection(KeysIn(e), K)
    BY <2>2, <2>3, <2>4 DEF Bijection, Injection, Surjection, IsInjective
  <2>6. f \in Bijection(KeysIn(e), K) => Cardinality(KeysIn(e)) = Cardinality(K)
    <3>1. IsFiniteSet(KeysIn(e))
      <4>1. KeysIn(e) \subseteq 1 .. Len(s) - n /\ IsFiniteSet(1 .. Len(s) - n)
        BY <1>1, <1>3, FS_Interval DEF KeysIn
      <4> QED BY <4>1, FS_Subset
    <3> QED BY <3>1, FS_Bijection DEF ExistsBijection
  <2> QED BY <2>5, <2>6
<1>8. Cardinality(KeysIn(s)) \in Nat /\ Cardinality(KeysIn(b)) \in Nat /\ Cardinality(K) \in Nat
  <2>1. IsFiniteSet(KeysIn(s))
    BY <1>4, <1>5, FS_Union
  <2> QED BY <1>5, <2>1, FS_CardinalityType
<1> HIDE DEF K
<1>9. /\ WeightOf(s) = Len(s) + Cardinality(KeysIn(s)) /\ WeightOf(b) = n + Cardinality(KeysIn(b))
      /\ WeightOf(e) = Len(s) - n + Cardinality(KeysIn(e))
  BY <1>2, <1>3 DEF WeightOf, KeysIn
<1>10. WeightOf(s) \in Nat /\ WeightOf(e) = WeightOf(s) - WeightOf(b)
  BY <1>1, <1>6, <1>7, <1>8, <1>9
<1> QED BY <1>10 DEF b, e

LEMMA WeightOfOneMore ==
    ASSUME NEW T, NEW s \in Seq(T), NEW x \in T, x.key \in BOOLEAN
    PROVE  WeightOf(Append(s, x)) = WeightOf(s) + Weight(x)
<1> DEFINE a == Append(s, x)
           l == Len(s) + 1
<1>1. Len(s) \in Nat /\ DOMAIN s = 1 .. Len(s) /\ DOMAIN a = 1 .. l /\ Len(a) = l
      /\ a[l] = x /\ \A i \in 1 .. Len(s) : a[i] = s[i]
  OBVIOUS
<1> HIDE DEF a
<1>2. KeysIn(a) = IF x.key THEN KeysIn(s) \union {l} ELSE KeysIn(s)
  BY <1>1 DEF KeysIn
<1>3. l \notin KeysIn(s)
  BY <1>1 DEF KeysIn
<1>4. IsFiniteSet(KeysIn(s)) /\ Cardinality(KeysIn(s)) \in Nat
  <2>1. IsFiniteSet(1 .. Len(s)) /\ KeysIn(s) \subseteq 1 .. Len(s)
    BY <1>1, FS_Interval DEF KeysIn
  <2> QED BY <2>1, FS_Subset, FS_CardinalityType
<1>5. Cardinality(KeysIn(s) \union {l}) = Cardinality(KeysIn(s)) + 1
  BY <1>3, <1>4, FS_AddElement
<1>6. WeightOf(a) = l + Cardinality(KeysIn(a)) /\ WeightOf(s) = Len(s) + Cardinality(KeysIn(s))
  BY <1>1 DEF WeightOf, KeysIn
<1> HIDE DEF l
<1>7. CASE x.key
  <2>1. KeysIn(a) = KeysIn(s) \union {l} /\ Weight(x) = 2
    BY <1>2, <1>7 DEF Weight
  <2> QED BY <1>1, <1>4, <1>5, <1>6, <2>1 DEF l, a
<1>8. CASE ~x.key
  <2>1. KeysIn(a) = KeysIn(s) /\ Weight(x) = 1
    BY <1>2, <1>8 DEF Weight
  <2> QED BY <1>1, <1>4, <1>6, <2>1 DEF l, a
<1> QED BY <1>7, <1>8

\* The pictures with the one that comes.
LEMMA AllFacts ==
    ASSUME FilmInv, "picture" \notin ended, NEW key \in BOOLEAN
    PROVE  /\ All(key) \in Seq([age : Nat, key : BOOLEAN]) /\ Len(All(key)) = Len(film) + 1
           /\ \A i \in 1 .. Len(film) : /\ All(key)[i].key = film[i].key
                                        /\ All(key)[i].age = film[i].age + filmGap
                                        /\ film[i].age \in 0 .. KEEPS /\ film[i].key \in BOOLEAN
           /\ All(key)[Len(film) + 1] = [age |-> 0, key |-> key]
           /\ \A i, j \in 1 .. Len(All(key)) : i < j => All(key)[i].age > All(key)[j].age
           /\ Bytes(key) = WeightOf(All(key))
<1> DEFINE P == [age : Nat, key : BOOLEAN]
           a == Aged(film)
           x == [age |-> 0, key |-> key]
<1>1. /\ Len(film) \in Nat /\ filmGap \in Nat \ {0} /\ KEEPS \in Nat
      /\ \A i \in 1 .. Len(film) : film[i].age \in 0 .. KEEPS /\ film[i].key \in BOOLEAN
  <2>1. KEEPS \in Nat
    BY Bounds
  <2>2. film \in Seq(Filmed) /\ filmGap \in Nat \ {0}
    BY <2>1 DEF FilmInv
  <2>3. \A i \in 1 .. Len(film) : film[i] \in Filmed
    <3> HIDE DEF Filmed
    <3> QED BY <2>2
  <2>4. Len(film) \in Nat
    <3> HIDE DEF Filmed
    <3> QED BY <2>2
  <2> QED BY <2>1, <2>2, <2>3, <2>4 DEF Filmed
<1>r. \A i \in 1 .. Len(film) : film[i] = [age |-> film[i].age, key |-> film[i].key]
  <2>1. \A i \in 1 .. Len(film) : film[i] \in Filmed
    <3>1. film \in Seq(Filmed)
      BY DEF FilmInv
    <3> HIDE DEF Filmed
    <3> QED BY <3>1
  <2> QED BY <2>1 DEF Filmed
<1>2. /\ DOMAIN a = 1 .. Len(film)
      /\ \A i \in 1 .. Len(film) : a[i] = [age |-> film[i].age + filmGap, key |-> film[i].key]
  <2>1. ASSUME NEW i \in 1 .. Len(film)
        PROVE  [film[i] EXCEPT !.age = @ + filmGap] = [age |-> film[i].age + filmGap, key |-> film[i].key]
    <3> DEFINE r == film[i]
               g == film[i].age
               k == film[i].key
    <3>1. r = [age |-> g, key |-> k]
      BY <1>r
    <3>2. [[age |-> g, key |-> k] EXCEPT !.age = g + filmGap] = [age |-> g + filmGap, key |-> k]
      <4> HIDE DEF g, k
      <4> QED OBVIOUS
    <3> HIDE DEF r, g, k
    <3>3. [r EXCEPT !.age = g + filmGap] = [age |-> g + filmGap, key |-> k]
      BY <3>1, <3>2
    <3> QED BY <3>3 DEF r, g, k
  <2> QED BY <2>1 DEF Aged
<1>3. \A i \in 1 .. Len(film) : a[i] \in P
  <2>1. \A i \in 1 .. Len(film) : film[i].age + filmGap \in Nat /\ film[i].key \in BOOLEAN
    BY <1>1
  <2> HIDE DEF a
  <2> QED BY <1>2, <2>1
<1>4. a = [i \in 1 .. Len(film) |-> a[i]]
  BY <1>2 DEF Aged
<1>5. x \in P /\ x.key = key
  OBVIOUS
<1> HIDE DEF P, a, x
<1>6. a \in Seq(P) /\ Len(a) = Len(film)
  BY <1>1, <1>3, <1>4
<1>7. /\ All(key) \in Seq(P) /\ Len(All(key)) = Len(film) + 1
      /\ \A i \in 1 .. Len(film) : All(key)[i] = a[i]
      /\ All(key)[Len(film) + 1] = x
  BY <1>5, <1>6, AppendFacts DEF All, a, x
<1>8. \A i \in 1 .. Len(film) : All(key)[i].key = film[i].key /\ All(key)[i].age = film[i].age + filmGap
  BY <1>2, <1>7
<1>9. All(key)[Len(film) + 1].age = 0
  BY <1>7 DEF x
<1>10. ASSUME NEW i \in 1 .. Len(film) + 1, NEW j \in 1 .. Len(film) + 1, i < j
       PROVE  All(key)[i].age > All(key)[j].age
  <2>1. i \in 1 .. Len(film)
    BY <1>1, <1>10
  <2>2. CASE j \in 1 .. Len(film)
    <3>1. film[i].age > film[j].age
      BY <1>10, <2>1, <2>2 DEF FilmInv
    <3>2. All(key)[i].age = film[i].age + filmGap /\ All(key)[j].age = film[j].age + filmGap
      BY <1>8, <2>1, <2>2
    <3>3. film[i].age \in Nat /\ film[j].age \in Nat /\ filmGap \in Nat
      BY <1>1, <2>1, <2>2
    <3> QED BY <3>1, <3>2, <3>3
  <2>3. CASE j = Len(film) + 1
    <3>1. film[i].age \in Nat /\ filmGap \in Nat \ {0}
      BY <1>1, <2>1
    <3>2. All(key)[i].age = film[i].age + filmGap /\ All(key)[j].age = 0
      BY <1>8, <1>9, <2>1, <2>3
    <3> QED BY <3>1, <3>2
  <2> QED BY <1>1, <1>10, <2>2, <2>3
<1>11. Bytes(key) = WeightOf(All(key))
  <2>1. WeightOf(All(key)) = WeightOf(a) + Weight(x)
    BY <1>5, <1>6, WeightOfOneMore DEF All, a, x
  <2>2. DOMAIN film = 1 .. Len(film) /\ DOMAIN a = 1 .. Len(film)
    BY <1>2 DEF FilmInv
  <2>3. KeysIn(a) = KeysIn(film)
    BY <1>2, <2>2 DEF KeysIn
  <2>4. WeightOf(a) = WeightOf(film)
    BY <1>6, <2>3 DEF WeightOf, KeysIn
  <2> QED BY <2>1, <2>4 DEF Bytes, FilmInv, x
<1> QED BY <1>1, <1>7, <1>8, <1>10, <1>11 DEF P, x

\* What is forgotten leaves the others within both bounds.
LEMMA ForgottenFacts ==
    ASSUME FilmInv, "picture" \notin ended, NEW key \in BOOLEAN
    PROVE  /\ Forgotten(key) \in 0 .. Len(film) + 1
           /\ Forgotten(key) < Len(film) + 1 => All(key)[Forgotten(key) + 1].age <= KEEPS
           /\ Bytes(key) - WeightOf(SubSeq(All(key), 1, Forgotten(key))) <= HOLDS
<1> DEFINE l == Len(film) + 1
           fits(n) == /\ n < Len(All(key)) => All(key)[n + 1].age <= KEEPS
                      /\ Bytes(key) - WeightOf(SubSeq(All(key), 1, n)) <= HOLDS
           S == {n \in 0 .. l : fits(n)}
<1>1. Len(film) \in Nat /\ Len(All(key)) = l /\ l \in Nat
  <2>1. Len(film) \in Nat
    <3>1. film \in Seq(Filmed)
      BY DEF FilmInv
    <3> HIDE DEF Filmed
    <3> QED BY <3>1
  <2>2. Len(All(key)) = Len(film) + 1
    BY AllFacts, Zenon
  <2> QED BY <2>1, <2>2
<1>2. fits(l)
  <2>1. All(key) \in Seq([age : Nat, key : BOOLEAN]) /\ Bytes(key) = WeightOf(All(key))
    BY AllFacts
  <2>2. SubSeq(All(key), 1, l) = All(key)
    <3> DEFINE T == [age : Nat, key : BOOLEAN]
    <3>1. All(key) \in Seq(T)
      BY <2>1
    <3> HIDE DEF T, l
    <3> QED BY <1>1, <3>1
  <2>3. WeightOf(All(key)) \in Nat
    <3> DEFINE T == [age : Nat, key : BOOLEAN]
    <3>1. All(key) \in Seq(T)
      BY <2>1
    <3> HIDE DEF T
    <3>2. 0 \in 0 .. Len(All(key))
      BY <1>1
    <3> HIDE DEF l
    <3> QED BY <3>1, <3>2, WeightSplits
  <2>4. l \in 0 .. l /\ ~(l < Len(All(key)))
    BY <1>1
  <2>5. WeightOf(All(key)) - WeightOf(All(key)) <= HOLDS
    BY <2>3, Bounds
  <2> QED BY <2>1, <2>2, <2>4, <2>5
<1>3. l \in S /\ S \subseteq Nat
  BY <1>1, <1>2
<1>4. Forgotten(key) = Min(S)
  BY <1>1 DEF Forgotten
<1>5. Forgotten(key) \in S
  <2> HIDE DEF S
  <2> QED BY <1>3, <1>4, LeastIsFirst
<1>6. Forgotten(key) \in 0 .. l /\ fits(Forgotten(key))
  BY <1>5
<1> QED BY <1>1, <1>6 DEF l

LEMMA FilmFacts ==
    ASSUME FilmInv
    PROVE  /\ Len(film) \in Nat
           /\ \A i \in 1 .. Len(film) : film[i].age \in 0 .. KEEPS /\ film[i].key \in BOOLEAN
<1>1. film \in Seq(Filmed)
  BY DEF FilmInv
<1>2. Len(film) \in Nat /\ \A i \in 1 .. Len(film) : film[i] \in Filmed
  <2> HIDE DEF Filmed
  <2> QED BY <1>1
<1> QED BY <1>2 DEF Filmed

\* The pictures that stay: the last of all, none too old, weighed as they are.
LEMMA KeptPictures ==
    ASSUME FilmInv, "picture" \notin ended, NEW key \in BOOLEAN, keep(key)
    PROVE  /\ film' \in Seq(Filmed) /\ Len(film') = Len(film) + 1 - Forgotten(key)
           /\ Forgotten(key) \in 0 .. Len(film) + 1
           /\ \A i \in 1 .. Len(film') : film'[i] = All(key)[i + Forgotten(key)]
           /\ filmBytes' = WeightOf(film') /\ filmBytes' <= HOLDS
<1> DEFINE l == Len(film) + 1
           n == Forgotten(key)
           all == All(key)
           T == [age : Nat, key : BOOLEAN]
<1>1. /\ Len(film) \in Nat /\ n \in 0 .. l /\ all \in Seq(T) /\ Len(all) = l
      /\ film' = SubSeq(all, n + 1, Len(all))
      /\ \A i \in 1 .. Len(film) : all[i].age \in Nat
  <2>1. all \in Seq(T) /\ Len(all) = l
    BY AllFacts, Zenon
  <2>2. \A i \in 1 .. Len(film) : all[i].age = film[i].age + filmGap
    BY AllFacts, Zenon
  <2>3. film' = SubSeq(all, n + 1, Len(all))
    BY DEF keep, KeepPictures
  <2>4. n \in 0 .. l
    BY ForgottenFacts
  <2>5. \A i \in 1 .. Len(film) : film[i].age \in Nat /\ filmGap \in Nat
    BY FilmFacts, Bounds DEF FilmInv
  <2>6. Len(film) \in Nat
    BY FilmFacts
  <2>7. \A i \in 1 .. Len(film) : all[i].age \in Nat
    BY <2>2, <2>5
  <2> QED BY <2>1, <2>3, <2>4, <2>6, <2>7
<1>2. /\ film' \in Seq(T) /\ Len(film') = l - n
      /\ \A i \in 1 .. l - n : film'[i] = all[n + i]
  <2> HIDE DEF l, n, all, T
  <2> QED BY <1>1, SuffixFacts
<1>3. l \in Nat /\ n \in Nat /\ n <= l /\ l - n \in Nat
  BY <1>1
<1>4. \A i \in 1 .. l - n : n + i \in 1 .. l /\ n + i = i + n
  BY <1>3
<1>5. \A i, j \in 1 .. l : i < j => all[i].age > all[j].age
  BY AllFacts, <1>1
<1>6. \A i \in 1 .. l : all[i].age \in Nat /\ all[i].key \in BOOLEAN
                        /\ all[i] = [age |-> all[i].age, key |-> all[i].key]
  <2>1. \A i \in 1 .. l : all[i] \in T
    <3> HIDE DEF T, all, l
    <3> QED BY <1>1
  <2> QED BY <2>1
<1>7. n < l => all[n + 1].age <= KEEPS
  BY ForgottenFacts
<1>8. \A i \in 1 .. l - n : film'[i].age \in 0 .. KEEPS /\ film'[i].key \in BOOLEAN
                            /\ film'[i] = [age |-> film'[i].age, key |-> film'[i].key]
  <2> SUFFICES ASSUME NEW i \in 1 .. l - n
               PROVE  /\ all[n + i].age \in 0 .. KEEPS /\ all[n + i].key \in BOOLEAN
                      /\ all[n + i] = [age |-> all[n + i].age, key |-> all[n + i].key]
    BY <1>2
  <2> HIDE DEF l, n, all
  <2>0. n + i \in 1 .. l /\ n + 1 \in 1 .. l /\ n < l
    BY <1>3
  <2>1. all[n + i].key \in BOOLEAN /\ all[n + i] = [age |-> all[n + i].age, key |-> all[n + i].key]
    BY <1>6, <2>0
  <2>2. all[n + i].age \in Nat /\ all[n + 1].age \in Nat /\ all[n + 1].age <= KEEPS
    BY <1>6, <1>7, <2>0
  <2>3. all[n + i].age <= all[n + 1].age
    <3>1. CASE i = 1
      BY <2>2, <3>1
    <3>2. CASE i > 1
      <4>1. n + 1 < n + i
        BY <1>3, <3>2
      <4> QED BY <1>5, <2>0, <2>2, <4>1
    <3> QED BY <3>1, <3>2
  <2> QED BY <2>1, <2>2, <2>3, Bounds
<1>9. film' \in Seq(Filmed)
  <2>1. \A i \in 1 .. Len(film') : film'[i] \in Filmed
    BY <1>2, <1>8 DEF Filmed
  <2> HIDE DEF Filmed, T
  <2> QED BY <1>2, <1>3, <2>1
<1>10. filmBytes' = WeightOf(film') /\ filmBytes' <= HOLDS
  <2>1. filmBytes' = Bytes(key) - WeightOf(SubSeq(all, 1, n)) /\ Bytes(key) = WeightOf(all)
    BY AllFacts DEF keep
  <2>2. WeightOf(film') = WeightOf(all) - WeightOf(SubSeq(all, 1, n))
    <3> HIDE DEF l, n, all, T
    <3> QED BY <1>1, WeightSplits
  <2>3. Bytes(key) - WeightOf(SubSeq(all, 1, n)) <= HOLDS
    BY ForgottenFacts
  <2> QED BY <2>1, <2>2, <2>3
<1>11. Len(film') = l - n /\ \A i \in 1 .. Len(film') : film'[i] = all[i + n]
  BY <1>2, <1>4
<1> QED BY <1>1, <1>9, <1>10, <1>11

LEMMA SendPictureKeeps ==
    ASSUME ClipInv, NEW key \in BOOLEAN, SendPicture(key)
    PROVE  ClipInv'
<1> DEFINE l == Len(film) + 1
           n == Forgotten(key)
           all == All(key)
<1>0. FilmInv /\ KeyInv /\ RollInv /\ TapeInv /\ SoundInv
  BY DEF ClipInv
<1>1. /\ "picture" \notin ended /\ (key \/ sinceKey < GOP) /\ keep(key)
      /\ filmGap' = 0 /\ sinceKey' = IF key THEN 1 ELSE sinceKey + 1
      /\ ended' = ended \union {"picture"}
      /\ rolling' = IF \E i \in 1 .. n : all[i].age <= KEEPS THEN 0 ELSE rolling
      /\ tape' = tape /\ tapeGap' = tapeGap /\ rest' = rest /\ sounding' = sounding
  BY DEF SendPicture, keep, KeepPictures
<1>2. /\ film' \in Seq(Filmed) /\ Len(film') = l - n /\ n \in 0 .. l
      /\ \A i \in 1 .. Len(film') : film'[i] = all[i + n]
      /\ filmBytes' = WeightOf(film') /\ filmBytes' <= HOLDS
  BY <1>0, <1>1, KeptPictures
<1>3. /\ Len(film) \in Nat /\ l \in Nat /\ n \in Nat /\ n <= l /\ l - n \in Nat
      /\ filmGap \in Nat \ {0} /\ GOP \in Nat \ {0} /\ KEEPS \in Nat
      /\ sinceKey \in Nat \ {0} /\ sinceKey <= GOP /\ rolling \in Nat
  <2>1. Len(film) \in Nat
    BY <1>0, FilmFacts
  <2>2. filmGap \in Nat \ {0} /\ GOP \in Nat \ {0} /\ KEEPS \in Nat
    BY <1>0, <1>1, Bounds DEF FilmInv
  <2>3. sinceKey \in Nat \ {0} /\ sinceKey <= GOP /\ rolling \in Nat
    BY <1>0, Bounds DEF KeyInv, RollInv
  <2>4. l \in Nat /\ n \in Nat /\ n <= l /\ l - n \in Nat
    BY <1>2, <2>1
  <2> QED BY <2>1, <2>2, <2>3, <2>4
<1>4. /\ \A i, j \in 1 .. l : i < j => all[i].age > all[j].age
      /\ all[l].age = 0 /\ all[l].key = key
      /\ \A i \in 1 .. Len(film) : all[i].key = film[i].key /\ all[i].age = film[i].age + filmGap
                                   /\ film[i].age \in Nat
  <2>1. /\ Len(all) = l /\ all[l] = [age |-> 0, key |-> key]
        /\ \A i, j \in 1 .. Len(all) : i < j => all[i].age > all[j].age
    BY <1>0, <1>1, AllFacts, Zenon
  <2>2. \A i \in 1 .. Len(film) : all[i].key = film[i].key /\ all[i].age = film[i].age + filmGap
    BY <1>0, <1>1, AllFacts, Zenon
  <2>3. \A i \in 1 .. Len(film) : film[i].age \in Nat
    BY <1>0, FilmFacts, Bounds
  <2>4. all[l].age = 0 /\ all[l].key = key
    BY <2>1
  <2> HIDE DEF l, all
  <2> QED BY <2>1, <2>2, <2>3, <2>4
<1> HIDE DEF l, n, all
<1>5. FilmInv'
  <2>1. ASSUME film' # <<>> PROVE film'[Len(film')].age = 0
    <3>1. Len(film') # 0
      <4>1. film' \in Seq(Filmed)
        BY <1>2
      <4> HIDE DEF Filmed
      <4> QED BY <2>1, <4>1
    <3>2. Len(film') \in 1 .. Len(film') /\ Len(film') + n = l
      BY <1>2, <1>3, <3>1
    <3> QED BY <1>2, <1>4, <3>2
  <2>2. ASSUME NEW i \in 1 .. Len(film'), NEW j \in 1 .. Len(film'), i < j
        PROVE  film'[i].age > film'[j].age
    <3>1. i + n \in 1 .. l /\ j + n \in 1 .. l /\ i + n < j + n
      BY <1>2, <1>3, <2>2
    <3> QED BY <1>2, <1>4, <3>1
  <2>3. filmGap' \in 0 .. KEEPS + 1 /\ (filmGap' = 0 <=> "picture" \in ended')
        /\ ended' \subseteq {"picture", "sound"} /\ rest' \in 0 .. APART
    BY <1>0, <1>1, <1>3 DEF FilmInv
  <2> QED BY <1>2, <2>1, <2>2, <2>3 DEF FilmInv
<1>6. KeyInv'
  <2>1. sinceKey' \in 1 .. GOP
    <3>1. CASE key
      BY <1>1, <1>3, <3>1
    <3>2. CASE ~key
      BY <1>1, <1>3, <3>2
    <3> QED BY <3>1, <3>2
  <2>2. ASSUME sinceKey' <= l PROVE all[l + 1 - sinceKey'].key
    <3>1. CASE key
      <4>1. sinceKey' = 1 /\ l + 1 - 1 = l
        BY <1>1, <1>3, <3>1
      <4> QED BY <1>4, <3>1, <4>1
    <3>2. CASE ~key
      <4>1. sinceKey' = sinceKey + 1
        BY <1>1, <3>2
      <4>2. sinceKey <= Len(film) /\ Len(film) + 1 - sinceKey \in 1 .. Len(film)
            /\ l + 1 - sinceKey' = Len(film) + 1 - sinceKey
        BY <1>3, <2>2, <4>1 DEF l
      <4>3. film[Len(film) + 1 - sinceKey].key
        BY <1>0, <4>2 DEF KeyInv
      <4> QED BY <1>4, <4>2, <4>3
    <3> QED BY <3>1, <3>2
  <2>3. ASSUME sinceKey' <= Len(film') PROVE film'[Len(film') + 1 - sinceKey'].key
    <3>1. /\ sinceKey' <= l /\ Len(film') + 1 - sinceKey' \in 1 .. Len(film')
          /\ Len(film') + 1 - sinceKey' + n = l + 1 - sinceKey'
      <4>1. sinceKey' \in Nat \ {0} /\ Len(film') = l - n
        BY <1>2, <1>3, <2>1
      <4> DEFINE f == Len(film')
                 s == sinceKey'
      <4>2. f \in Nat /\ f = l - n /\ s \in Nat \ {0} /\ s <= f /\ n \in Nat /\ l \in Nat
        BY <1>3, <2>3, <4>1
      <4> HIDE DEF f, s
      <4>3. s <= l /\ f + 1 - s \in 1 .. f /\ f + 1 - s + n = l + 1 - s
        BY <4>2
      <4> QED BY <4>3 DEF f, s
    <3> QED BY <1>2, <2>2, <3>1
  <2>4. ASSUME NEW i \in 1 .. l, i + GOP - 1 <= l
        PROVE  \E j \in i .. i + GOP - 1 : all[j].key
    <3>1. CASE i + GOP - 1 = l
      <4>1. sinceKey' <= l /\ l + 1 - sinceKey' \in i .. i + GOP - 1
        <5>1. sinceKey' \in Nat \ {0} /\ sinceKey' <= GOP /\ i \in Nat \ {0}
          BY <1>3, <2>1
        <5> DEFINE s == sinceKey'
        <5>2. s \in Nat \ {0} /\ s <= GOP /\ i \in Nat \ {0} /\ l \in Nat /\ GOP \in Nat /\ i + GOP - 1 = l
          BY <1>3, <3>1, <5>1
        <5> HIDE DEF s
        <5>3. s <= l /\ l + 1 - s \in i .. i + GOP - 1
          BY <5>2
        <5> QED BY <5>3 DEF s
      <4> QED BY <2>2, <4>1
    <3>2. CASE i + GOP - 1 < l
      <4>1. i \in 1 .. Len(film) /\ i + GOP - 1 <= Len(film)
        BY <1>3, <2>4, <3>2 DEF l
      <4>2. PICK j \in i .. i + GOP - 1 : film[j].key
        BY <1>0, <4>1 DEF KeyInv
      <4>3. j \in 1 .. Len(film)
        BY <1>3, <4>1, <4>2
      <4> QED BY <1>4, <4>2, <4>3
    <3> QED BY <1>3, <2>4, <3>1, <3>2
  <2>5. ASSUME NEW i \in 1 .. Len(film'), i + GOP - 1 <= Len(film')
        PROVE  \E j \in i .. i + GOP - 1 : film'[j].key
    <3>1. i + n \in 1 .. l /\ i + n + GOP - 1 <= l
      BY <1>2, <1>3, <2>5
    <3>2. PICK k \in i + n .. i + n + GOP - 1 : all[k].key
      BY <2>4, <3>1
    <3>3. k - n \in i .. i + GOP - 1 /\ k - n \in 1 .. Len(film') /\ (k - n) + n = k
      BY <1>2, <1>3, <2>5, <3>2
    <3> QED BY <1>2, <3>2, <3>3
  <2> QED BY <2>1, <2>3, <2>5 DEF KeyInv
<1>7. RollInv'
  <2>1. rolling' \in 0 .. KEEPS + 1
    BY <1>0, <1>1, <1>3 DEF RollInv
  <2>2. CASE \E i \in 1 .. n : all[i].age <= KEEPS
    <3>1. rolling' = 0
      BY <1>1, <2>2
    <3> QED BY <1>1, <2>1, <3>1 DEF RollInv, Rolled
  <2>3. CASE \A i \in 1 .. n : ~(all[i].age <= KEEPS)
    <3>1. rolling' = rolling
      BY <1>1, <2>3
    <3>2. ASSUME NEW a \in 0 .. rolling - 1 PROVE a < Len(film') /\ film'[Len(film') - a].age = a
      <4>1. rolling <= KEEPS + 1 /\ a \in Nat /\ a <= KEEPS /\ filmGap = 1
        BY <1>0, <1>1, <1>3, <3>2 DEF RollInv
      <4>2. l - a \in 1 .. l /\ all[l - a].age = a
        <5>1. CASE a = 0
          BY <1>3, <1>4, <5>1 DEF l
        <5>2. CASE a > 0
          <6>1. a - 1 < Len(film) /\ film[Len(film) - (a - 1)].age = a - 1
            <7>1. a - 1 \in 0 .. (rolling - 1) - 1
              BY <1>3, <4>1, <5>2
            <7> QED BY <1>0, <1>1, <7>1 DEF RollInv, Rolled
          <6>2. l - a = Len(film) - (a - 1) /\ l - a \in 1 .. Len(film)
            BY <1>3, <4>1, <5>2, <6>1 DEF l
          <6>3. all[l - a].age = (a - 1) + 1
            BY <1>4, <4>1, <6>1, <6>2
          <6> QED BY <1>3, <4>1, <6>2, <6>3
        <5> QED BY <4>1, <5>1, <5>2
      <4>3. ~(l - a \in 1 .. n)
        BY <2>3, <4>1, <4>2
      <4>4. a < Len(film') /\ Len(film') - a \in 1 .. Len(film') /\ (Len(film') - a) + n = l - a
        BY <1>2, <1>3, <4>1, <4>2, <4>3
      <4> QED BY <1>2, <4>2, <4>4
    <3> QED BY <1>1, <2>1, <3>1, <3>2 DEF RollInv, Rolled
  <2> QED BY <2>2, <2>3
<1>8. TapeInv'
  BY <1>0, <1>1 DEF TapeInv
<1>9. ASSUME NEW m \in Nat, Younger(m) PROVE Younger(m)'
  <2>1. m # 0
    BY <1>1, <1>9 DEF Younger
  <2>2. ASSUME NEW i \in 1 .. Len(film') PROVE film'[i].age < m
    <3>1. i + n \in 1 .. l /\ film'[i] = all[i + n]
      BY <1>2, <1>3
    <3>2. CASE i + n = l
      BY <1>4, <2>1, <3>1, <3>2
    <3>3. CASE i + n # l
      <4>1. i + n \in 1 .. Len(film)
        BY <1>3, <3>1, <3>3 DEF l
      <4>2. film[i + n].age + filmGap < m
        BY <1>9, <4>1 DEF Younger
      <4> QED BY <1>4, <3>1, <4>1, <4>2
    <3> QED BY <3>2, <3>3
  <2>3. \A i \in 1 .. Len(film') : film'[i].age \in Nat
    <3>1. FilmInv'
      BY <1>5
    <3>2. \A i \in 1 .. Len(film') : film'[i] \in Filmed
      <4>1. film' \in Seq(Filmed)
        BY <1>2
      <4> HIDE DEF Filmed
      <4> QED BY <4>1
    <3> QED BY <1>3, <3>2 DEF Filmed
  <2>4. \A i \in 1 .. Len(film') : film'[i].age + filmGap' < m
    BY <1>1, <2>2, <2>3
  <2> QED BY <2>1, <2>4 DEF Younger
<1>10. SoundInv'
  <2>1. sounding \in Nat
    BY <1>0, Bounds DEF TapeInv
  <2>2. "sound" \in ended' <=> "sound" \in ended
    BY <1>1
  <2>3. \A m : Heard(m)' <=> Heard(m)
    BY <1>1 DEF Heard
  <2> QED BY <1>0, <1>1, <1>9, <2>1, <2>2, <2>3 DEF SoundInv
<1> QED BY <1>5, <1>6, <1>7, <1>8, <1>10 DEF ClipInv

\* The sound with the piece that comes.
LEMMA AllSoundFacts ==
    ASSUME TapeInv
    PROVE  /\ AllSound \in Seq(Nat) /\ Len(AllSound) = Len(tape) + 1 /\ Len(tape) \in Nat
           /\ \A i \in 1 .. Len(tape) : AllSound[i] = tape[i] + tapeGap /\ tape[i] \in Nat
           /\ AllSound[Len(tape) + 1] = 0
           /\ \A i, j \in 1 .. Len(tape) + 1 : i < j => AllSound[i] >= AllSound[j]
<1> DEFINE a == [i \in 1 .. Len(tape) |-> tape[i] + tapeGap]
<1>1. Len(tape) \in Nat /\ tapeGap \in Nat /\ \A i \in 1 .. Len(tape) : tape[i] \in Nat
  BY Bounds DEF TapeInv
<1>2. a \in Seq(Nat) /\ Len(a) = Len(tape)
  BY <1>1
<1>3. \A i \in 1 .. Len(tape) : a[i] = tape[i] + tapeGap /\ a[i] \in Nat
  BY <1>1
<1> HIDE DEF a
<1>4. /\ AllSound \in Seq(Nat) /\ Len(AllSound) = Len(tape) + 1
      /\ \A i \in 1 .. Len(tape) : AllSound[i] = a[i]
      /\ AllSound[Len(tape) + 1] = 0
  <2>1. AllSound = Append(a, 0) /\ 0 \in Nat
    BY DEF AllSound, a
  <2> QED BY <1>2, <2>1, AppendFacts
<1>5. ASSUME NEW i \in 1 .. Len(tape) + 1, NEW j \in 1 .. Len(tape) + 1, i < j
      PROVE  AllSound[i] >= AllSound[j]
  <2>1. i \in 1 .. Len(tape)
    BY <1>1, <1>5
  <2>2. CASE j \in 1 .. Len(tape)
    <3>1. tape[i] >= tape[j]
      BY <1>5, <2>1, <2>2 DEF TapeInv
    <3> QED BY <1>1, <1>3, <1>4, <2>1, <2>2, <3>1
  <2>3. CASE j = Len(tape) + 1
    BY <1>3, <1>4, <2>1, <2>3
  <2> QED BY <1>1, <2>2, <2>3
<1> QED BY <1>1, <1>3, <1>4, <1>5

\* The pieces that stay: the last of all, none too old, no more than the tape holds
\* and none given up before it had to be.
LEMMA KeptSound ==
    ASSUME TapeInv, keep_sound
    PROVE  \E n \in 0 .. Len(tape) + 1 :
              /\ tape' \in Seq(Nat) /\ Len(tape') = (Len(tape) + 1) - n
              /\ \A i \in 1 .. Len(tape') : tape'[i] = AllSound[i + n] /\ tape'[i] <= KEEPS
              /\ Len(tape') <= SOUND_HOLDS
              /\ \A k \in 0 .. n - 1 : ~(AllSound[k + 1] <= KEEPS /\ (Len(tape) + 1) - k <= SOUND_HOLDS)
<1> DEFINE l == Len(tape) + 1
           fits(n) == n < Len(AllSound) => AllSound[n + 1] <= KEEPS /\ Len(AllSound) - n <= SOUND_HOLDS
           S == {n \in 0 .. l : fits(n)}
           out == ForgottenSound(KEEPS)
<1>1. Len(AllSound) = l /\ l \in Nat /\ AllSound \in Seq(Nat)
  BY AllSoundFacts
<1>2. l \in S /\ S \subseteq Nat
  BY <1>1
<1>3. out = Min(S)
  BY <1>1 DEF ForgottenSound
<1> HIDE DEF out
<1>4. out \in S /\ \A k \in 0 .. out - 1 : k \notin S
  <2> HIDE DEF S
  <2> QED BY <1>2, <1>3, LeastIsFirst
<1>5. tape' = SubSeq(AllSound, out + 1, Len(AllSound))
  BY DEF keep_sound, KeepSound, out
<1>6. out \in 0 .. Len(AllSound) /\ fits(out)
  BY <1>1, <1>4
<1>7. \A k \in 0 .. out - 1 : ~fits(k)
  <2>1. \A k \in 0 .. out - 1 : k \in 0 .. l
    BY <1>1, <1>6
  <2> QED BY <1>4, <2>1
<1>8. /\ tape' \in Seq(Nat) /\ Len(tape') = l - out
      /\ \A i \in 1 .. l - out : tape'[i] = AllSound[out + i]
  <2> HIDE DEF l
  <2> QED BY <1>1, <1>5, <1>6, SuffixFacts
<1>9. out \in Nat /\ out <= l
  BY <1>1, <1>6
<1>10. \A k \in 0 .. out - 1 : ~(AllSound[k + 1] <= KEEPS /\ l - k <= SOUND_HOLDS)
  BY <1>1, <1>7, <1>9
<1>11. ASSUME NEW i \in 1 .. l - out PROVE AllSound[out + i] <= KEEPS /\ out + i = i + out
  <2>1. out + 1 \in 1 .. l /\ out + i \in 1 .. l /\ out < l
    BY <1>1, <1>9
  <2>2. AllSound[out + 1] <= KEEPS /\ AllSound[out + 1] \in Nat /\ AllSound[out + i] \in Nat
    BY <1>1, <1>6, <2>1
  <2>3. CASE i = 1
    <3>1. AllSound[out + 1] <= KEEPS /\ out + 1 = 1 + out
      BY <1>9, <2>2
    <3> QED BY <2>3, <3>1
  <2>4. CASE i > 1
    <3>1. out + 1 < out + i
      BY <1>9, <2>4
    <3>2. AllSound[out + 1] >= AllSound[out + i]
      BY <2>1, <3>1, AllSoundFacts
    <3> QED BY <1>9, <2>2, <3>2, Bounds
  <2> QED BY <2>3, <2>4
<1>12. Len(tape') <= SOUND_HOLDS
  <2>1. CASE out < l
    BY <1>1, <1>6, <1>8, <2>1
  <2>2. CASE out = l
    BY <1>1, <1>8, <2>2, Bounds
  <2> QED BY <1>1, <1>9, <2>1, <2>2
<1>13. \A i \in 1 .. Len(tape') : tape'[i] = AllSound[i + out] /\ tape'[i] <= KEEPS
  BY <1>8, <1>11
<1>14. out \in 0 .. l
  BY <1>1, <1>9
<1>15. tape' \in Seq(Nat) /\ Len(tape') = (Len(tape) + 1) - out
  BY <1>8
<1>16. \A k \in 0 .. out - 1 : ~(AllSound[k + 1] <= KEEPS /\ (Len(tape) + 1) - k <= SOUND_HOLDS)
  BY <1>10
<1> WITNESS out \in 0 .. Len(tape) + 1
<1> HIDE DEF l
<1> QED BY <1>12, <1>13, <1>15, <1>16, Zenon

LEMMA SendSoundKeeps ==
    ASSUME ClipInv, SendSound
    PROVE  ClipInv'
<1> DEFINE l == Len(tape) + 1
<1>0. FilmInv /\ KeyInv /\ RollInv /\ TapeInv /\ SoundInv
  BY DEF ClipInv
<1>1. /\ "sound" \notin ended /\ keep_sound /\ tapeGap' = 0 /\ ended' = ended \union {"sound"}
      /\ UNCHANGED <<film, filmGap, filmBytes, rest, sinceKey, rolling, sounding>>
  BY DEF SendSound, keep_sound, KeepSound
<1>2. PICK n \in 0 .. l :
          /\ tape' \in Seq(Nat) /\ Len(tape') = l - n
          /\ \A i \in 1 .. Len(tape') : tape'[i] = AllSound[i + n] /\ tape'[i] <= KEEPS
          /\ Len(tape') <= SOUND_HOLDS
          /\ \A k \in 0 .. n - 1 : ~(AllSound[k + 1] <= KEEPS /\ l - k <= SOUND_HOLDS)
  BY <1>0, <1>1, KeptSound
<1>3. /\ Len(tape) \in Nat /\ l \in Nat /\ n \in Nat /\ n <= l
      /\ \A i \in 1 .. Len(tape) : AllSound[i] = tape[i] + tapeGap /\ tape[i] \in Nat
      /\ AllSound[l] = 0 /\ \A i, j \in 1 .. l : i < j => AllSound[i] >= AllSound[j]
      /\ sounding \in Nat /\ KEEPS \in Nat /\ SOUND_HOLDS \in Nat /\ SOUND_HOLDS >= KEEPS /\ KEEPS > 1
  <2>1. /\ Len(tape) \in Nat
        /\ \A i \in 1 .. Len(tape) : AllSound[i] = tape[i] + tapeGap /\ tape[i] \in Nat
        /\ AllSound[l] = 0 /\ \A i, j \in 1 .. l : i < j => AllSound[i] >= AllSound[j]
    BY <1>0, AllSoundFacts
  <2>2. sounding \in Nat
    BY <1>0, Bounds DEF TapeInv
  <2>3. l \in Nat /\ n \in Nat /\ n <= l
    BY <2>1
  <2> QED BY <2>1, <2>2, <2>3, Bounds
<1> HIDE DEF l
<1>4. TapeInv'
  <2>1. tape' \in Seq(0 .. KEEPS)
    <3>1. \A i \in 1 .. Len(tape') : tape'[i] \in Nat
      BY <1>2
    <3>2. \A i \in 1 .. Len(tape') : tape'[i] \in 0 .. KEEPS
      BY <1>2, <1>3, <3>1
    <3>3. tape' \in Seq(Nat)
      BY <1>2
    <3> DEFINE K == 0 .. KEEPS
    <3> HIDE DEF K
    <3>4. \A i \in 1 .. Len(tape') : tape'[i] \in K
      BY <3>2 DEF K
    <3>5. tape' \in Seq(K)
      <4>1. tape' \in [1 .. Len(tape') -> K] /\ Len(tape') \in Nat
        BY <3>3, <3>4, LenProperties
      <4> QED BY <4>1
    <3> QED BY <3>5 DEF K
  <2>2. ASSUME NEW i \in 1 .. Len(tape'), NEW j \in 1 .. Len(tape'), i < j PROVE tape'[i] >= tape'[j]
    <3>1. i + n \in 1 .. l /\ j + n \in 1 .. l /\ i + n < j + n
      BY <1>2, <1>3, <2>2
    <3> QED BY <1>2, <1>3, <3>1
  <2> QED BY <1>0, <1>1, <1>2, <1>3, <2>1, <2>2 DEF TapeInv
<1>5. ASSUME NEW a \in Nat, a < KEEPS, a < l, AllSound[l - a] = a
      PROVE  a < Len(tape') /\ tape'[Len(tape') - a] = a
  <2>1. n <= l - (a + 1)
    <3> SUFFICES ASSUME ~(n <= l - (a + 1)) PROVE FALSE
      OBVIOUS
    <3> DEFINE k == l - (a + 1)
    <3>1. k \in 0 .. n - 1 /\ k + 1 = l - a /\ l - k = a + 1
      BY <1>3, <1>5
    <3>2. AllSound[k + 1] <= KEEPS /\ l - k <= SOUND_HOLDS
      BY <1>3, <1>5, <3>1
    <3> HIDE DEF k
    <3> QED BY <1>2, <3>1, <3>2
  <2>2. /\ a < l - n /\ (l - n) - a \in 1 .. l - n /\ ((l - n) - a) + n = l - a
    BY <1>3, <1>5, <2>1
  <2> QED BY <1>2, <1>5, <2>2
<1> DEFINE heardThen(k) == \A a \in 0 .. k - 1 : a < KEEPS => a < Len(tape') /\ tape'[Len(tape') - a] = a
<1>6. ASSUME NEW m \in Nat, Heard(m), tapeGap = 1
      PROVE  heardThen(m + 1)
  <2> SUFFICES ASSUME NEW a \in 0 .. (m + 1) - 1, a < KEEPS
               PROVE  a < Len(tape') /\ tape'[Len(tape') - a] = a
    OBVIOUS
  <2>1. CASE a = 0
    BY <1>3, <1>5, <2>1 DEF l
  <2>2. CASE a # 0
    <3>1. a \in Nat /\ a - 1 \in 0 .. m - 1 /\ a - 1 < KEEPS
      BY <1>3, <2>2
    <3>2. a - 1 < Len(tape) /\ tape[Len(tape) - (a - 1)] = a - 1
      BY <1>6, <3>1 DEF Heard
    <3>3. l - a = Len(tape) - (a - 1) /\ l - a \in 1 .. Len(tape) /\ a < l
      BY <1>3, <3>1, <3>2 DEF l
    <3>4. AllSound[l - a] = a
      <4>1. AllSound[l - a] = tape[l - a] + 1
        BY <1>3, <1>6, <3>3
      <4> QED BY <3>1, <3>2, <3>3, <4>1
    <3> QED BY <1>5, <3>1, <3>3, <3>4
  <2> QED BY <2>1, <2>2
<1>7. heardThen(1)
  <2> SUFFICES ASSUME NEW a \in 0 .. 1 - 1, a < KEEPS
               PROVE  a < Len(tape') /\ tape'[Len(tape') - a] = a
    OBVIOUS
  <2>1. a = 0 /\ l - 0 = l /\ 0 < l
    BY <1>3 DEF l
  <2> QED BY <1>3, <1>5, <2>1
<1> HIDE DEF heardThen
<1>8. SoundInv'
  <2>0. /\ heardThen(sounding) => Heard(sounding)'
        /\ heardThen(sounding + 1) => Heard(sounding + 1)'
        /\ Younger(sounding) => Younger(sounding)'
    BY <1>1 DEF Younger, Heard, heardThen
  <2>2. CASE sounding = 0
    <3>1. heardThen(0) /\ sounding + 1 = 1
      BY <2>2 DEF heardThen
    <3> QED BY <1>1, <1>7, <2>0, <2>2, <3>1 DEF SoundInv
  <2>3. CASE sounding > 0
    <3>1. tapeGap = 1 /\ Heard(sounding - 1) /\ (sounding - 1 < KEEPS => Heard(sounding) \/ Younger(sounding))
      BY <1>0, <1>1, <2>3 DEF SoundInv
    <3>2. Heard(sounding)'
      <4>1. sounding - 1 \in Nat /\ (sounding - 1) + 1 = sounding
        BY <1>3, <2>3
      <4>2. heardThen((sounding - 1) + 1)
        BY <1>6, <3>1, <4>1
      <4> QED BY <2>0, <4>1, <4>2
    <3>3. ASSUME sounding < KEEPS PROVE Heard(sounding + 1)' \/ Younger(sounding)'
      <4>1. Heard(sounding) \/ Younger(sounding)
        <5>1. sounding - 1 < KEEPS
          BY <1>3, <3>3
        <5> QED BY <3>1, <5>1
      <4>2. CASE Heard(sounding)
        BY <1>3, <1>6, <2>0, <3>1, <4>2
      <4> QED BY <2>0, <4>1, <4>2
    <3> QED BY <1>1, <3>2, <3>3 DEF SoundInv
  <2> QED BY <1>3, <2>2, <2>3
<1>9. FilmInv' /\ KeyInv' /\ RollInv'
  <2>1. "picture" \in ended' <=> "picture" \in ended
    BY <1>1
  <2>2. FilmInv'
    BY <1>0, <1>1, <2>1 DEF FilmInv, WeightOf
  <2>3. KeyInv'
    BY <1>0, <1>1 DEF KeyInv
  <2>4. RollInv'
    BY <1>0, <1>1, <2>1 DEF RollInv, Rolled
  <2> QED BY <2>2, <2>3, <2>4
<1> QED BY <1>4, <1>8, <1>9 DEF ClipInv

LEMMA CaptureTickKeeps ==
    ASSUME ClipInv, CaptureTick
    PROVE  ClipInv'
<1>0. FilmInv /\ KeyInv /\ RollInv /\ TapeInv /\ SoundInv
  BY DEF ClipInv
<1>1. /\ filmGap' = (IF filmGap <= KEEPS THEN filmGap + 1 ELSE filmGap)
      /\ tapeGap' = (IF tapeGap <= KEEPS THEN tapeGap + 1 ELSE tapeGap)
      /\ rest' = (IF rest < APART THEN rest + 1 ELSE rest)
      /\ "picture" \in ended => rolling' = (IF rolling <= KEEPS THEN rolling + 1 ELSE rolling)
      /\ "picture" \notin ended => rolling' = 0
      /\ "sound" \in ended => sounding' = (IF sounding <= KEEPS THEN sounding + 1 ELSE sounding)
      /\ "sound" \notin ended => sounding' = 0
      /\ ended' = {} /\ UNCHANGED <<film, filmBytes, tape, sinceKey>>
  BY DEF CaptureTick, Capped1
<1>2. /\ filmGap \in Nat /\ tapeGap \in Nat /\ rest \in Nat /\ rolling \in Nat /\ sounding \in Nat
      /\ filmGap <= KEEPS + 1 /\ tapeGap <= KEEPS + 1 /\ rest <= APART
      /\ rolling <= KEEPS + 1 /\ sounding <= KEEPS + 1 /\ KEEPS \in Nat /\ KEEPS > 1
  BY <1>0, Bounds DEF FilmInv, RollInv, TapeInv
<1>3. FilmInv'
  <2>1. filmGap' \in 0 .. KEEPS + 1 /\ (filmGap' = 0 <=> "picture" \in ended') /\ rest' \in 0 .. APART
        /\ ended' \subseteq {"picture", "sound"}
    BY <1>1, <1>2, Bounds
  <2> QED BY <1>0, <1>1, <2>1 DEF FilmInv, WeightOf
<1>4. KeyInv'
  BY <1>0, <1>1 DEF KeyInv
<1>5. RollInv'
  <2>1. CASE "picture" \notin ended
    <3>1. rolling' = 0
      BY <1>1, <2>1
    <3>2. Rolled(rolling - 1)'
      BY <3>1 DEF Rolled
    <3>3. rolling' \in 0 .. KEEPS + 1 /\ ~(rolling' > 0)
      BY <1>2, <3>1
    <3> QED BY <1>1, <3>2, <3>3 DEF RollInv
  <2>2. CASE "picture" \in ended
    <3>1. rolling' \in 0 .. KEEPS + 1 /\ rolling' - 1 <= rolling /\ rolling' \in Nat
      BY <1>1, <1>2, <2>2
    <3>2. Rolled(rolling)
      BY <1>0, <2>2 DEF RollInv
    <3>3. Rolled(rolling - 1)'
      <4>1. \A a \in 0 .. (rolling' - 1) - 1 : a \in 0 .. rolling - 1
        <5> DEFINE r == rolling'
        <5>1. r \in Nat /\ r - 1 <= rolling
          BY <3>1
        <5> HIDE DEF r
        <5>2. \A a \in 0 .. (r - 1) - 1 : a \in 0 .. rolling - 1
          BY <1>2, <5>1
        <5> QED BY <5>2 DEF r
      <4>2. \A a \in 0 .. (rolling' - 1) - 1 : a < Len(film) /\ film[Len(film) - a].age = a
        BY <3>2, <4>1 DEF Rolled
      <4> QED BY <1>1, <4>2 DEF Rolled
    <3>4. filmGap' = 1
      <4>1. filmGap = 0
        BY <1>0, <2>2 DEF FilmInv
      <4> QED BY <1>1, <1>2, <4>1
    <3> QED BY <1>1, <3>1, <3>3, <3>4 DEF RollInv
  <2> QED BY <2>1, <2>2
<1>6. TapeInv'
  <2>1. tapeGap' \in 0 .. KEEPS + 1 /\ sounding' \in 0 .. KEEPS + 1
    BY <1>1, <1>2
  <2> QED BY <1>0, <1>1, <2>1 DEF TapeInv
<1>7. SoundInv'
  <2>1. CASE "sound" \notin ended
    <3>1. sounding' = 0 /\ ~(sounding' > 0)
      BY <1>1, <2>1
    <3> QED BY <1>1, <3>1 DEF SoundInv
  <2>2. CASE "sound" \in ended
    <3>1. /\ tapeGap = 0 /\ Heard(sounding)
          /\ sounding < KEEPS => Heard(sounding + 1) \/ Younger(sounding)
      BY <1>0, <2>2 DEF SoundInv
    <3>2. tapeGap' = 1 /\ sounding' - 1 <= sounding /\ sounding' \in Nat
      BY <1>1, <1>2, <2>2, <3>1
    <3>4. Heard(sounding - 1)'
      <4> DEFINE h == sounding'
      <4>1. h \in Nat /\ h - 1 <= sounding
        BY <3>2
      <4> HIDE DEF h
      <4>2. \A a \in 0 .. (h - 1) - 1 : a \in 0 .. sounding - 1
        BY <1>2, <4>1
      <4>3. \A a \in 0 .. (h - 1) - 1 : a < KEEPS => a < Len(tape) /\ tape[Len(tape) - a] = a
        BY <3>1, <4>2 DEF Heard
      <4> QED BY <1>1, <4>3 DEF Heard, h
    <3>5. ASSUME sounding' - 1 < KEEPS PROVE Heard(sounding)' \/ Younger(sounding)'
      <4>1. sounding < KEEPS /\ sounding' = sounding + 1
        BY <1>1, <1>2, <2>2, <3>5
      <4>2. CASE Younger(sounding)
        <5>1. \A i \in 1 .. Len(film) : film[i].age + filmGap < sounding /\ film[i].age \in Nat
          BY <1>0, <4>2, FilmFacts, Bounds DEF Younger
        <5>2. filmGap' \in Nat /\ filmGap' <= filmGap + 1
          BY <1>1, <1>2
        <5> DEFINE g == filmGap'
        <5> HIDE DEF g
        <5>3. g \in Nat /\ g <= filmGap + 1
          BY <5>2 DEF g
        <5>4. ASSUME NEW i \in 1 .. Len(film) PROVE film[i].age + g < sounding + 1
          <6> DEFINE x == film[i].age
          <6>1. x \in Nat /\ x + filmGap < sounding
            BY <5>1
          <6> HIDE DEF x
          <6>2. x + g < sounding + 1
            BY <1>2, <5>3, <6>1
          <6> QED BY <6>2 DEF x
        <5>5. sounding' # 0
          BY <1>2, <4>1
        <5>6. Younger(sounding)'
          BY <1>1, <4>1, <5>4, <5>5 DEF Younger, g
        <5> QED BY <5>6
      <4>3. CASE Heard(sounding + 1)
        <5>1. Heard(sounding)'
          BY <1>1, <4>1, <4>3 DEF Heard
        <5> QED BY <5>1
      <4> QED BY <3>1, <4>1, <4>2, <4>3
    <3>6. sounding' > 0 /\ "sound" \notin ended'
      BY <1>1, <1>2, <2>2
    <3> QED BY <1>1, <3>2, <3>4, <3>5, <3>6 DEF SoundInv
  <2> QED BY <2>1, <2>2
<1> QED BY <1>3, <1>4, <1>5, <1>6, <1>7 DEF ClipInv

LEMMA ClipBegins == ClipInit => ClipInv
<1> SUFFICES ASSUME ClipInit PROVE ClipInv
  OBVIOUS
<1>1. /\ film = <<>> /\ filmGap = 0 /\ filmBytes = 0 /\ tape = <<>> /\ tapeGap = 0 /\ rest = APART
      /\ ended = {"picture", "sound"} /\ sinceKey = GOP /\ rolling = 0 /\ sounding = 0
  BY DEF ClipInit
<1>2. Len(film) = 0 /\ Len(tape) = 0 /\ 1 .. 0 = {} /\ 0 .. 0 - 1 = {}
  BY <1>1
<1>3. WeightOf(film) = 0
  <2>1. {i \in DOMAIN film : film[i].key} = {}
    BY <1>1
  <2>2. Cardinality({i \in DOMAIN film : film[i].key}) = 0
    BY <2>1, FS_EmptySet
  <2> QED BY <1>2, <2>2 DEF WeightOf
<1>4. FilmInv
  <2>1. film \in Seq(Filmed) /\ film = <<>>
    BY <1>1
  <2>2. \A i, j \in 1 .. Len(film) : i < j => film[i].age > film[j].age
    BY <1>2
  <2>3. filmGap \in 0 .. KEEPS + 1 /\ rest \in 0 .. APART /\ filmBytes <= HOLDS
    BY <1>1, Bounds
  <2> QED BY <1>1, <1>3, <2>1, <2>2, <2>3 DEF FilmInv
<1>5. KeyInv
  <2>1. sinceKey \in 1 .. GOP /\ ~(sinceKey <= Len(film))
    BY <1>1, <1>2, Bounds
  <2> QED BY <1>2, <2>1 DEF KeyInv
<1>6. RollInv
  <2>1. rolling \in 0 .. KEEPS + 1
    BY <1>1, Bounds
  <2> QED BY <1>1, <1>2, <2>1 DEF RollInv, Rolled
<1>7. TapeInv
  <2>1. tapeGap \in 0 .. KEEPS + 1 /\ sounding \in 0 .. KEEPS + 1 /\ Len(tape) <= SOUND_HOLDS
    BY <1>1, <1>2, Bounds
  <2>2. tape \in Seq(0 .. KEEPS)
    BY <1>1
  <2> QED BY <1>2, <2>1, <2>2 DEF TapeInv
<1>8. SoundInv
  <2>1. Heard(sounding)
    BY <1>1, <1>2 DEF Heard
  <2>2. Younger(sounding)
    BY <1>1, <1>2 DEF Younger
  <2> QED BY <1>1, <2>1, <2>2 DEF SoundInv
<1> QED BY <1>4, <1>5, <1>6, <1>7, <1>8 DEF ClipInv

LEMMA ClipStep ==
    ASSUME ClipInv, [ClipNext]_clipVars
    PROVE  ClipInv'
<1>1. CASE UNCHANGED clipVars
  BY <1>1 DEF clipVars, ClipInv, FilmInv, KeyInv, RollInv, TapeInv, SoundInv, Heard, Rolled, Younger,
              WeightOf
<1>2. ASSUME NEW key \in BOOLEAN, SendPicture(key) PROVE ClipInv'
  BY <1>2, SendPictureKeeps
<1>3. CASE SendSound
  BY <1>3, SendSoundKeeps
<1>4. CASE CaptureTick
  BY <1>4, CaptureTickKeeps
<1>5. CASE TakeClip
  <2>1. /\ rest' = 0
        /\ UNCHANGED <<film, filmGap, filmBytes, tape, tapeGap, ended, sinceKey, rolling, sounding>>
    BY <1>5 DEF TakeClip
  <2>2. rest' \in 0 .. APART
    BY <2>1, Bounds
  <2> QED BY <2>1, <2>2 DEF ClipInv, FilmInv, KeyInv, RollInv, TapeInv, SoundInv, Heard, Rolled,
                            Younger, WeightOf
<1> QED BY <1>1, <1>2, <1>3, <1>4, <1>5 DEF ClipNext

\* Where a clip starts: the last key frame that is old enough.
LEMMA CutFacts ==
    ASSUME ClipInv
    PROVE  /\ cut # 0 => cut \in 1 .. Len(film) /\ film[cut].key /\ film[cut].age >= COVERS
           /\ \A j \in 1 .. Len(film) : film[j].key /\ film[j].age >= COVERS => cut # 0 /\ cut >= j
<1> DEFINE S == {i \in 1 .. Len(film) : film[i].key /\ film[i].age >= COVERS}
<1>1. Len(film) \in Nat
  BY FilmFacts DEF ClipInv
<1>2. CASE S = {}
  <2>1. cut = 0
    BY <1>2 DEF cut
  <2> QED BY <1>2, <2>1
<1>3. CASE S # {}
  <2> DEFINE B == {k \in Nat : Len(film) - k \in S}
  <2>1. PICK i \in S : TRUE
    BY <1>3
  <2>2. Len(film) - i \in B
    <3>1. Len(film) - i \in Nat /\ Len(film) - (Len(film) - i) = i
      BY <1>1
    <3> QED BY <2>1, <3>1
  <2>3. PICK b \in B : \A k \in 0 .. b - 1 : k \notin B
    <3> HIDE DEF B
    <3>1. B \subseteq Nat
      BY DEF B
    <3> QED BY <2>2, <3>1, FirstIsThere
  <2>4. ASSUME NEW y \in S PROVE Len(film) - b >= y
    <3>1. y \in 1 .. Len(film) /\ Len(film) - y \in Nat /\ Len(film) - (Len(film) - y) = y
      BY <1>1
    <3>2. Len(film) - y \in B
      BY <3>1
    <3>3. ~(Len(film) - y \in 0 .. b - 1)
      BY <2>3, <3>2
    <3> HIDE DEF B, S
    <3>4. b \in Nat
      BY <2>3 DEF B
    <3> QED BY <1>1, <3>1, <3>3, <3>4
  <2>5. Len(film) - b \in S
    BY <2>3
  <2>6. cut = Max(S)
    BY <1>3 DEF cut
  <2> HIDE DEF S, B
  <2>7. cut \in S /\ \A y \in S : cut >= y
    BY <2>4, <2>5, <2>6 DEF Max
  <2> QED BY <2>7, <1>1 DEF S
<1> QED BY <1>2, <1>3

LEMMA ClipInvGives ==
    ClipInv => ClipTypeOK /\ KeptIsBounded /\ PlayedRoomHasAClip /\ ClipHasItsSound
<1> SUFFICES ASSUME ClipInv PROVE ClipTypeOK /\ KeptIsBounded /\ PlayedRoomHasAClip /\ ClipHasItsSound
  OBVIOUS
<1>0. FilmInv /\ KeyInv /\ RollInv /\ TapeInv /\ SoundInv
  BY DEF ClipInv
<1>1. /\ Len(film) \in Nat
      /\ \A i \in 1 .. Len(film) : film[i].age \in Nat /\ film[i].age <= KEEPS
  BY <1>0, FilmFacts, Bounds
<1>2. ClipTypeOK
  <2>1. \A i \in 1 .. Len(film) : film[i] \in Filmed
    <3>1. film \in Seq(Filmed)
      BY <1>0 DEF FilmInv
    <3> HIDE DEF Filmed
    <3> QED BY <3>1
  <2>2. \A i \in 1 .. Len(tape) : tape[i] \in 0 .. KEEPS
    <3> DEFINE K == 0 .. KEEPS
    <3>1. tape \in Seq(K)
      BY <1>0 DEF TapeInv
    <3> HIDE DEF K
    <3>2. \A i \in 1 .. Len(tape) : tape[i] \in K
      BY <3>1
    <3> QED BY <3>2 DEF K
  <2>3. filmBytes \in Nat
    <3>1. film \in Seq(Filmed) /\ filmBytes = WeightOf(film)
      BY <1>0 DEF FilmInv
    <3> HIDE DEF Filmed
    <3>2. 0 \in 0 .. Len(film)
      BY <1>1
    <3> QED BY <3>1, <3>2, WeightSplits
  <2>4. sinceKey \in 0 .. GOP
    BY <1>0, Bounds DEF KeyInv
  <2> QED BY <1>0, <2>1, <2>2, <2>3, <2>4 DEF ClipTypeOK, FilmInv, RollInv, TapeInv, Filmed
<1>3. KeptIsBounded
  BY <1>0 DEF KeptIsBounded, FilmInv, TapeInv
<1>4. PlayedRoomHasAClip
  <2> SUFFICES ASSUME rolling >= COVERS + GOP, "picture" \in ended
               PROVE  cut # 0 /\ film[cut].key /\ film[cut].age \in COVERS .. COVERS + GOP - 1
    BY DEF PlayedRoomHasAClip, covers
  <2>1. \A a \in 0 .. rolling - 1 : a < Len(film) /\ film[Len(film) - a].age = a
    BY <1>0 DEF RollInv, Rolled
  <2> DEFINE c == COVERS + GOP - 1
  <2>2. c \in 0 .. rolling - 1 /\ c < Len(film) /\ c \in Nat /\ rolling \in Nat
    <3>1. c \in 0 .. rolling - 1 /\ c \in Nat /\ rolling \in Nat
      BY <1>0, Bounds DEF RollInv
    <3> QED BY <2>1, <3>1
  <2>3. Len(film) - c \in 1 .. Len(film) /\ (Len(film) - c) + GOP - 1 <= Len(film)
    BY <1>1, <2>2, Bounds
  <2>4. PICK j \in Len(film) - c .. (Len(film) - c) + GOP - 1 : film[j].key
    BY <1>0, <2>3 DEF KeyInv
  <2>5. /\ j \in 1 .. Len(film) /\ Len(film) - j \in COVERS .. c /\ Len(film) - (Len(film) - j) = j
        /\ Len(film) - j \in 0 .. rolling - 1
    BY <1>1, <2>2, <2>3, <2>4, Bounds
  <2>6. film[j].age = Len(film) - j
    BY <2>1, <2>5
  <2>7. cut # 0 /\ cut >= j
    BY <2>4, <2>5, <2>6, CutFacts, Bounds
  <2>8. cut \in 1 .. Len(film) /\ film[cut].key /\ film[cut].age >= COVERS
    BY <2>7, CutFacts
  <2>9. film[cut].age <= film[j].age
    <3>1. CASE cut = j
      BY <1>1, <2>5, <3>1
    <3>2. CASE cut > j
      <4>1. film[j].age > film[cut].age
        BY <1>0, <2>5, <2>8, <3>2 DEF FilmInv
      <4> QED BY <1>1, <2>5, <2>8, <4>1
    <3> QED BY <2>5, <2>7, <2>8, <3>1, <3>2
  <2> QED BY <1>1, <2>5, <2>6, <2>7, <2>8, <2>9, Bounds
<1>5. ClipHasItsSound
  <2> SUFFICES ASSUME cut # 0, ended = {"picture", "sound"}, film[cut].age < KEEPS,
                      sounding >= film[cut].age, NEW a \in 0 .. film[cut].age
               PROVE  a \in Range(tape)
    BY DEF ClipHasItsSound, covers
  <2>1. /\ cut \in 1 .. Len(film) /\ film[cut].age \in Nat /\ a \in Nat /\ a < KEEPS
        /\ sounding \in Nat /\ a <= sounding /\ filmGap = 0
    <3>1. cut \in 1 .. Len(film)
      BY CutFacts
    <3>2. filmGap = 0 /\ sounding \in Nat
      BY <1>0, Bounds DEF FilmInv, TapeInv
    <3> QED BY <1>1, <3>1, <3>2, Bounds
  <2>2. Heard(sounding) /\ (sounding < KEEPS => Heard(sounding + 1) \/ Younger(sounding))
    BY <1>0 DEF SoundInv
  <2>3. a < Len(tape) /\ tape[Len(tape) - a] = a
    <3>1. CASE a < sounding
      <4>1. a \in 0 .. sounding - 1
        BY <2>1, <3>1
      <4> QED BY <2>1, <2>2, <4>1 DEF Heard
    <3>2. CASE a = sounding
      <4>1. film[cut].age = sounding /\ sounding < KEEPS
        BY <2>1, <3>2
      <4>2. ~Younger(sounding)
        <5>1. film[cut].age + filmGap = sounding
          BY <2>1, <4>1
        <5> QED BY <2>1, <5>1 DEF Younger
      <4>3. Heard(sounding + 1) /\ a \in 0 .. (sounding + 1) - 1
        BY <2>1, <2>2, <3>2, <4>1, <4>2
      <4> QED BY <2>1, <4>3 DEF Heard
    <3> QED BY <2>1, <3>1, <3>2
  <2>4. Len(tape) - a \in DOMAIN tape
    <3>1. Len(tape) \in Nat /\ DOMAIN tape = 1 .. Len(tape)
      BY <1>0 DEF TapeInv
    <3> QED BY <2>1, <2>3, <3>1
  <2> QED BY <2>3, <2>4 DEF Range
<1> QED BY <1>2, <1>3, <1>4, <1>5

\* What a room keeps for its clip stays in its bounds, a room that was played has
\* one, and it starts on a key frame with its sound, for any bounds (clip.rs).
THEOREM ClipAlwaysShows ==
    ClipSpec => [](ClipTypeOK /\ KeptIsBounded /\ PlayedRoomHasAClip /\ ClipHasItsSound)
<1>1. ClipInv /\ [ClipNext]_clipVars => ClipInv'
  BY ClipStep
<1> QED BY <1>1, ClipBegins, ClipInvGives, PTL DEF ClipSpec


-----------------------------------------------------------------------------
(* The chain on the card (Pipeline, vulkan)                                 *)

Modes == {"build", "replace", "loop", "look", "convert", "wait", "half_convert", "half_wait",
          "release", "encode", "half_encode", "leave", "gone"}
FullFields == {"encoder", "source", "target", "converter"}
HalfFields == {"half_encoder", "half_converter", "half_target"}

\* Where the thread is and which chain it works on.
ModeInv ==
    /\ at \in Modes /\ making \in 1 .. MaxRings
    /\ chain = CASE at \in {"build", "replace"} -> making - 1
                 [] at = "leave" -> IF chain = making THEN making ELSE making - 1
                 [] at = "gone" -> 0
                 [] OTHER -> making
    /\ at \in {"replace", "leave"} => chain # 0
    /\ dropping \in 0 .. Len(Order) /\ (dropping # 0 => at \in {"replace", "leave"})
    /\ next \in 1 .. HalfRefused /\ small \subseteq 1 .. making
    /\ at = "build" => making \notin small
    /\ at = "replace" => next \notin DOMAIN AllParts

\* Which sizes were let in.
SizeInv ==
    /\ sizes \in Seq(RingSizes) /\ Len(sizes) = making
    /\ \A c \in small : Halves(sizes[c])
    /\ chain # 0 => Opens(sizes[chain])
    /\ at = "build" /\ next > 1 => Opens(sizes[making])
    /\ at = "build" /\ InHalf(next - 1) /\ next # HalfRefused => Halves(sizes[making])
    /\ at = "replace" => Opens(sizes[making])

\* What is on the card, from how far the thread is.
Objects(c, parts) == UNION {Whole(c, p) : p \in parts}
SoFar == IF next = HalfRefused THEN ToSet(FullParts) ELSE {AllParts[i] : i \in 1 .. next - 1}
Standing(c) == {o \in ChainOf(c) : \A i \in 1 .. dropping : o[2] # Order[i]}
AliveInv ==
    /\ at = "build" /\ chain = 0 => alive = Objects(making, SoFar)
    /\ at = "build" /\ chain # 0 => alive = ChainOf(chain) \union Objects(making, SoFar)
    /\ at = "replace" => alive = Standing(chain) \union ChainOf(making)
    /\ at = "leave" => alive = Standing(chain)
    /\ NothingLeaks

\* What runs on the card, and what was drawn and coded of the picture at hand.
ShownOn(streams) == {<<st, turn>> : st \in wanted \intersect streams}
RunsOnCard(st, before) ==
    /\ st \in wanted /\ atHand \in Slots
    /\ \/ pending = Refs(st) /\ pending # {} /\ drawn = ShownOn(before)
       \/ pending = {} /\ drawn = ShownOn(before \union {st})
CardInv ==
    /\ at \in {"build", "replace", "loop"} => coded = drawn
    /\ at \in {"look", "convert"} => drawn = {}
    /\ at = "wait" => RunsOnCard("full", {})
    /\ at = "half_convert" => drawn = ShownOn({"full"})
    /\ at = "half_wait" => RunsOnCard("half", {"full"})
    /\ at \in {"release", "encode", "half_encode"} => drawn = ShownOn(Streams)
    /\ at \in {"look", "convert", "wait", "half_convert", "half_wait", "release", "encode"} => coded = {}
    /\ at = "half_encode" => coded = ShownOn({"full"})
    /\ at \in {"look", "convert", "half_convert", "release"} => atHand \in Slots
    /\ coded \subseteq drawn
    /\ at \notin {"wait", "half_wait", "leave", "gone"} => pending = {}
    /\ at \in {"leave", "gone"} /\ pending # {} => "fence" \in unwaited
    /\ at \in {"convert", "half_convert", "wait", "half_wait"} /\ "half" \in wanted => chain \in small
    /\ (at = "leave" /\ dropping # 0) \/ at = "gone" => pending = {} \/ "idle" \in unwaited
    /\ \A s \in Slots : family[s] = "ours" => s \in Reading
    /\ GivenBackReadable /\ UsedIsAlive

PipelineInv == PipelineTypeOK /\ ModeInv /\ SizeInv /\ AliveInv /\ CardInv

LEMMA ChainSizes ==
    /\ SLOTS \in Nat \ {0} /\ TARGETS \in Nat \ {0} /\ GROUP \in Nat \ {0} /\ MaxRings \in Nat \ {0}
    /\ MaxRefusals \in Nat /\ RingSizes \subseteq Nat \X Nat
BY PipelineAssumption

LEMMA HalfNames ==
    /\ Part("full", "converter") = "converter" /\ Part("half", "converter") = "half_converter"
    /\ Part("full", "target") = "target" /\ Part("half", "target") = "half_target"
    /\ Part("full", "convert") = "convert" /\ Part("half", "convert") = "half_convert"
    /\ Part("full", "wait") = "wait" /\ Part("half", "wait") = "half_wait"
    /\ Part("full", "encode") = "encode" /\ Part("half", "encode") = "half_encode"
BY DEF Part, HalfOf

\* What a constructor takes down again is all it had made: nothing is left of it,
\* whichever of its calls is refused.
LEMMA NothingIsLeft ==
    ASSUME NEW part, NEW n \in DOMAIN Calls(part)
    PROVE  Made(part, n) \ Undone(part, n) = {}
<1>1. CASE part \in {"encoder", "half_encoder"}
  <2>1. Made(part, n) = EncoderMade(n) /\ Undone(part, n) = EncoderUndone(n) /\ n \in DOMAIN EncoderCalls
    BY <1>1 DEF Made, Undone, Calls
  <2>2. DOMAIN EncoderCalls = 1 .. 7
    BY DEF EncoderCalls
  <2> QED BY <2>1, <2>2 DEF EncoderMade, EncoderUndone
<1>2. CASE part \in {"converter", "half_converter"}
  <2>1. Made(part, n) = ConverterMade(n) /\ Undone(part, n) = ConverterUndone(n)
        /\ n \in DOMAIN ConverterCalls
    BY <1>2 DEF Made, Undone, Calls
  <2>2. n \in 1 .. 10
    <3>1. DOMAIN ConverterCalls = 1 .. 10
      BY DEF ConverterCalls
    <3> QED BY <2>1, <3>1
  <2> DEFINE call == ConverterCalls
  <2>5. /\ call[1] = "sampler" /\ call[2] = "set_layout" /\ call[3] = "layout" /\ call[4] = "module"
        /\ call[5] = "pipeline" /\ call[6] = "pool" /\ call[7] = "set" /\ call[8] = "command_pool"
        /\ call[9] = "command_buffer"
    BY DEF ConverterCalls
  <2> HIDE DEF call
  <2>3. ASSUME NEW i \in 1 .. n - 1
        PROVE  call[i] \in ConverterUndone(n) \union {"module"} /\ (call[i] = "module" => n >= 5)
    <3>1. i \in {1, 2, 3, 4, 5, 6, 7, 8, 9}
      BY <2>2
    <3>2. i = 4 => n >= 5
      BY <2>2
    <3> QED BY <2>5, <3>1, <3>2 DEF ConverterUndone
  <2>4. ConverterMade(n) = {call[i] : i \in 1 .. n - 1} \ (IF n >= 5 THEN {"module"} ELSE {})
    BY DEF ConverterMade, call
  <2> QED BY <2>1, <2>3, <2>4
<1>3. CASE part \notin {"encoder", "half_encoder"} /\ part \notin {"converter", "half_converter"}
  <2>1. Made(part, n) = PlaneMade(n) /\ Undone(part, n) = PlaneUndone(n) /\ n \in 1 .. 6
    <3>1. Made(part, n) = PlaneMade(n) /\ Undone(part, n) = PlaneUndone(n) /\ n \in DOMAIN PlaneCalls
      BY <1>3 DEF Made, Undone, Calls
    <3>2. DOMAIN PlaneCalls = 1 .. 6
      BY DEF PlaneCalls
    <3> QED BY <3>1, <3>2
  <2>2. n \in {1, 2, 3, 4, 5, 6}
    BY <2>1
  <2> QED BY <2>1, <2>2 DEF PlaneMade, PlaneUndone
<1> QED BY <1>1, <1>2, <1>3

\* A plane that is there has its image, its memory and its view.
LEMMA PlaneKinds ==
    ASSUME NEW f, f \in {"source", "target", "half_target"}
    PROVE  Made(f, Len(Calls(f)) + 1) = {"image", "memory", "view"}
<1>1. Calls(f) = PlaneCalls
  BY DEF Calls
<1>2. Len(PlaneCalls) = 6
  BY DEF PlaneCalls
<1>3. Made(f, 7) = PlaneMade(7)
  BY DEF Made
<1>4. PlaneMade(7) = {"image", "memory", "view"}
  BY DEF PlaneMade
<1>5. Len(Calls(f)) + 1 = 7
  BY <1>1, <1>2
<1> QED BY <1>3, <1>4, <1>5

LEMMA PlaneIsWhole ==
    ASSUME NEW c, NEW p, p[1] \in {"source", "target", "half_target"}
    PROVE  Whole(c, p) = {<<c, p[1], p[2], kind>> : kind \in {"image", "memory", "view"}}
BY PlaneKinds DEF Whole

LEMMA OneAfterTheOther ==
    ASSUME NEW S, NEW s \in Seq(S), NEW t \in Seq(S)
    PROVE  /\ s \o t \in Seq(S) /\ Len(s \o t) = Len(s) + Len(t)
           /\ \A i \in 1 .. Len(s) : (s \o t)[i] = s[i]
           /\ \A k \in 1 .. Len(t) : (s \o t)[Len(s) + k] = t[k]
<1>1. Len(s) \in Nat /\ Len(t) \in Nat
  OBVIOUS
<1>2. \A k \in 1 .. Len(t) : Len(s) + k \in 1 .. Len(s) + Len(t) /\ ~(Len(s) + k <= Len(s))
                             /\ (Len(s) + k) - Len(s) = k
  BY <1>1
<1> QED BY <1>1, <1>2, ConcatProperties

\* The parts of a chain in their order: the ones every chain has, then those of the
\* half size.
LEMMA PartsFacts ==
    /\ Len(FullParts) \in Nat \ {0} /\ Len(AllParts) \in Nat /\ Len(FullParts) + 2 <= Len(AllParts)
    /\ DOMAIN AllParts = 1 .. Len(AllParts) /\ DOMAIN FullParts = 1 .. Len(FullParts)
    /\ \A i \in 1 .. Len(FullParts) :
          AllParts[i] = FullParts[i] /\ AllParts[i][1] \in FullFields /\ AllParts[i][2] \in Nat
    /\ \A i \in Len(FullParts) + 1 .. Len(AllParts) :
          AllParts[i][1] \in HalfFields /\ AllParts[i][2] \in Nat
    /\ ToSet(FullParts) = {AllParts[i] : i \in 1 .. Len(FullParts)}
    /\ ToSet(AllParts) = {AllParts[i] : i \in 1 .. Len(AllParts)}
    /\ {p[1] : p \in ToSet(HalfParts)} = HalfFields
    /\ \A k \in Slots : <<"source", k>> \in ToSet(FullParts)
    /\ \A k \in 1 .. Planes : <<"target", k>> \in ToSet(FullParts) /\ <<"half_target", k>> \in ToSet(AllParts)
<1> DEFINE E == (FullFields \union HalfFields) \X Nat
           s1 == <<<<"encoder", 1>>>>
           s2 == Of("source", SLOTS)
           s3 == Of("target", Planes)
           s4 == <<<<"converter", 1>>>>
           h1 == <<<<"half_encoder", 1>>, <<"half_converter", 1>>>>
           h2 == Of("half_target", Planes)
<1>1. SLOTS \in Nat \ {0} /\ Planes \in Nat \ {0}
  BY ChainSizes DEF Planes
<1>0. \A part \in FullFields \union HalfFields, k \in Nat : <<part, k>> \in E
  OBVIOUS
<1> HIDE DEF E
<1>2. /\ s1 \in Seq(E) /\ Len(s1) = 1 /\ s1[1] = <<"encoder", 1>>
      /\ s4 \in Seq(E) /\ Len(s4) = 1 /\ s4[1] = <<"converter", 1>>
  <2>1. \A e \in E : <<e>> \in Seq(E) /\ Len(<<e>>) = 1 /\ <<e>>[1] = e
    OBVIOUS
  <2>2. <<"encoder", 1>> \in E /\ <<"converter", 1>> \in E
    BY <1>0 DEF FullFields
  <2> QED BY <2>1, <2>2
<1>3. h1 \in Seq(E) /\ Len(h1) = 2 /\ h1[1] = <<"half_encoder", 1>> /\ h1[2] = <<"half_converter", 1>>
  <2>1. \A e, f \in E : <<e, f>> \in Seq(E) /\ Len(<<e, f>>) = 2 /\ <<e, f>>[1] = e /\ <<e, f>>[2] = f
    OBVIOUS
  <2>2. <<"half_encoder", 1>> \in E /\ <<"half_converter", 1>> \in E
    BY <1>0 DEF HalfFields
  <2> QED BY <2>1, <2>2
<1>4. ASSUME NEW part \in FullFields \union HalfFields, NEW n \in Nat
      PROVE  /\ Of(part, n) \in Seq(E) /\ Len(Of(part, n)) = n
             /\ \A k \in 1 .. n : Of(part, n)[k] = <<part, k>>
  <2>1. \A k \in 1 .. n : <<part, k>> \in E
    BY <1>0
  <2> QED BY <2>1 DEF Of
<1>5. /\ s2 \in Seq(E) /\ Len(s2) = SLOTS /\ \A k \in 1 .. SLOTS : s2[k] = <<"source", k>>
      /\ s3 \in Seq(E) /\ Len(s3) = Planes /\ \A k \in 1 .. Planes : s3[k] = <<"target", k>>
      /\ h2 \in Seq(E) /\ Len(h2) = Planes /\ \A k \in 1 .. Planes : h2[k] = <<"half_target", k>>
  <2>1. {"source", "target", "half_target"} \subseteq FullFields \union HalfFields
    BY DEF FullFields, HalfFields
  <2>2. 1 .. SLOTS = 1 .. SLOTS /\ SLOTS \in Nat /\ Planes \in Nat
    BY <1>1
  <2> QED BY <1>4, <2>1, <2>2
<1>6. FullParts = s1 \o s2 \o s3 \o s4 /\ HalfParts = h1 \o h2 /\ AllParts = FullParts \o HalfParts
  BY DEF FullParts, HalfParts, AllParts
<1> DEFINE F == FullParts
           H == HalfParts
           L == 2 + (SLOTS + Planes)
<1> HIDE DEF E, s1, s2, s3, s4, h1, h2
<1>7. /\ F \in Seq(E) /\ Len(F) = L
      /\ F[1] = s1[1] /\ F[L] = s4[1]
      /\ \A k \in 1 .. SLOTS : F[1 + k] = s2[k]
      /\ \A k \in 1 .. Planes : F[1 + (SLOTS + k)] = s3[k]
  <2> DEFINE a == s1 \o s2
             b == a \o s3
  <2>1. /\ a \in Seq(E) /\ Len(a) = 1 + SLOTS /\ a[1] = s1[1]
        /\ \A k \in 1 .. SLOTS : a[1 + k] = s2[k]
    <3>1. /\ s1 \o s2 \in Seq(E) /\ Len(s1 \o s2) = Len(s1) + Len(s2)
          /\ \A i \in 1 .. Len(s1) : (s1 \o s2)[i] = s1[i]
          /\ \A k \in 1 .. Len(s2) : (s1 \o s2)[Len(s1) + k] = s2[k]
      <4>1. s1 \in Seq(E) /\ s2 \in Seq(E)
        BY <1>2, <1>5
      <4> QED BY <4>1, OneAfterTheOther
    <3> QED BY <1>1, <1>2, <1>5, <3>1
  <2> HIDE DEF a
  <2>2. /\ b \in Seq(E) /\ Len(b) = 1 + (SLOTS + Planes)
        /\ \A i \in 1 .. 1 + SLOTS : b[i] = a[i]
        /\ \A k \in 1 .. Planes : b[1 + (SLOTS + k)] = s3[k]
    <3>1. \A k \in 1 .. Planes : (1 + SLOTS) + k = 1 + (SLOTS + k)
      BY <1>1
    <3>2. /\ a \o s3 \in Seq(E) /\ Len(a \o s3) = Len(a) + Len(s3)
          /\ \A i \in 1 .. Len(a) : (a \o s3)[i] = a[i]
          /\ \A k \in 1 .. Len(s3) : (a \o s3)[Len(a) + k] = s3[k]
      <4>1. a \in Seq(E) /\ s3 \in Seq(E)
        BY <1>5, <2>1
      <4> QED BY <4>1, OneAfterTheOther
    <3> QED BY <1>1, <1>5, <2>1, <3>1, <3>2
  <2>3. F = b \o s4
    BY <1>6 DEF a
  <2> HIDE DEF b, F
  <2>4. F \in Seq(E) /\ Len(F) = L /\ F[L] = s4[1] /\ \A i \in 1 .. 1 + (SLOTS + Planes) : F[i] = b[i]
    <3>1. /\ b \o s4 \in Seq(E) /\ Len(b \o s4) = Len(b) + Len(s4)
          /\ \A i \in 1 .. Len(b) : (b \o s4)[i] = b[i]
          /\ \A k \in 1 .. Len(s4) : (b \o s4)[Len(b) + k] = s4[k]
      <4>1. b \in Seq(E) /\ s4 \in Seq(E)
        BY <1>2, <2>2
      <4> QED BY <4>1, OneAfterTheOther
    <3>2. Len(b) + 1 = L /\ Len(b) = 1 + (SLOTS + Planes) /\ 1 \in 1 .. Len(s4)
      BY <1>1, <1>2, <2>2
    <3>3. F[L] = s4[1] /\ Len(F) = L
      BY <1>2, <2>3, <3>1, <3>2
    <3> QED BY <2>2, <2>3, <3>1, <3>3
  <2>5. F[1] = s1[1]
    BY <1>1, <2>1, <2>2, <2>4
  <2>6. ASSUME NEW k \in 1 .. SLOTS PROVE F[1 + k] = s2[k]
    <3>1. 1 + k \in 1 .. 1 + SLOTS /\ 1 + k \in 1 .. 1 + (SLOTS + Planes)
      BY <1>1
    <3> QED BY <2>1, <2>2, <2>4, <3>1
  <2>7. ASSUME NEW k \in 1 .. Planes PROVE F[1 + (SLOTS + k)] = s3[k]
    <3>1. 1 + (SLOTS + k) \in 1 .. 1 + (SLOTS + Planes)
      BY <1>1
    <3> QED BY <2>2, <2>4, <3>1
  <2> QED BY <2>4, <2>5, <2>6, <2>7
<1>8. /\ H \in Seq(E) /\ Len(H) = 2 + Planes /\ H[1] = h1[1] /\ H[2] = h1[2]
      /\ \A k \in 1 .. Planes : H[2 + k] = h2[k]
  <2> HIDE DEF H
  <2>1. H = h1 \o h2
    BY <1>6 DEF H
  <2>2. /\ h1 \o h2 \in Seq(E) /\ Len(h1 \o h2) = Len(h1) + Len(h2)
        /\ \A i \in 1 .. Len(h1) : (h1 \o h2)[i] = h1[i]
        /\ \A k \in 1 .. Len(h2) : (h1 \o h2)[Len(h1) + k] = h2[k]
    <3>1. h1 \in Seq(E) /\ h2 \in Seq(E)
      BY <1>3, <1>5
    <3> QED BY <3>1, OneAfterTheOther
  <2> QED BY <1>1, <1>3, <1>5, <2>1, <2>2
<1>9. /\ AllParts \in Seq(E) /\ Len(AllParts) = L + (2 + Planes)
      /\ \A i \in 1 .. L : AllParts[i] = F[i]
      /\ \A i \in 1 .. 2 + Planes : AllParts[L + i] = H[i]
  <2> HIDE DEF F, H
  <2>1. AllParts = F \o H
    BY <1>6 DEF F, H
  <2>2. /\ F \o H \in Seq(E) /\ Len(F \o H) = Len(F) + Len(H)
        /\ \A i \in 1 .. Len(F) : (F \o H)[i] = F[i]
        /\ \A k \in 1 .. Len(H) : (F \o H)[Len(F) + k] = H[k]
    <3>1. F \in Seq(E) /\ H \in Seq(E)
      BY <1>7, <1>8
    <3> QED BY <3>1, OneAfterTheOther
  <2> QED BY <1>1, <1>7, <1>8, <2>1, <2>2
<1>10. \A i \in 1 .. L : \/ i = 1 \/ i = L \/ (\E k \in 1 .. SLOTS : i = 1 + k)
                         \/ \E k \in 1 .. Planes : i = 1 + (SLOTS + k)
  <2> TAKE i \in 1 .. L
  <2>1. CASE i - 1 \in 1 .. SLOTS
    BY <1>1, <2>1
  <2>2. CASE i - (1 + SLOTS) \in 1 .. Planes
    <3>1. i = 1 + (SLOTS + (i - (1 + SLOTS)))
      BY <1>1
    <3> QED BY <2>2, <3>1
  <2>3. CASE i - 1 \notin 1 .. SLOTS /\ i - (1 + SLOTS) \notin 1 .. Planes
    BY <1>1, <2>3
  <2> QED BY <2>1, <2>2, <2>3
<1>11. \A i \in 1 .. L : F[i][1] \in FullFields /\ F[i][2] \in Nat
  <2> TAKE i \in 1 .. L
  <2>1. CASE i = 1
    BY <1>2, <1>7, <2>1 DEF FullFields
  <2>2. CASE i = L
    BY <1>2, <1>7, <2>2 DEF FullFields
  <2>3. ASSUME NEW k \in 1 .. SLOTS, i = 1 + k PROVE F[i][1] \in FullFields /\ F[i][2] \in Nat
    <3>1. F[i] = <<"source", k>>
      BY <1>5, <1>7, <2>3
    <3> QED BY <3>1 DEF FullFields
  <2>4. ASSUME NEW k \in 1 .. Planes, i = 1 + (SLOTS + k) PROVE F[i][1] \in FullFields /\ F[i][2] \in Nat
    <3>1. F[i] = <<"target", k>>
      BY <1>5, <1>7, <2>4
    <3> QED BY <3>1 DEF FullFields
  <2> QED BY <1>10, <2>1, <2>2, <2>3, <2>4
<1>12. \A i \in 1 .. 2 + Planes : H[i][1] \in HalfFields /\ H[i][2] \in Nat
  <2> TAKE i \in 1 .. 2 + Planes
  <2>1. CASE i = 1 \/ i = 2
    BY <1>3, <1>8, <2>1 DEF HalfFields
  <2>2. CASE i > 2
    <3>1. i - 2 \in 1 .. Planes /\ i = 2 + (i - 2)
      BY <1>1, <2>2
    <3>2. H[i] = <<"half_target", i - 2>>
      BY <1>5, <1>8, <3>1
    <3> QED BY <3>1, <3>2 DEF HalfFields
  <2> QED BY <2>1, <2>2
<1>13. /\ DOMAIN F = 1 .. L /\ DOMAIN H = 1 .. 2 + Planes /\ DOMAIN AllParts = 1 .. Len(AllParts)
       /\ L \in Nat \ {0} /\ Len(AllParts) \in Nat /\ L + 2 <= Len(AllParts)
  BY <1>1, <1>7, <1>8, <1>9
<1>14. \A i \in L + 1 .. Len(AllParts) : AllParts[i][1] \in HalfFields /\ AllParts[i][2] \in Nat
  <2> TAKE i \in L + 1 .. Len(AllParts)
  <2>1. i - L \in 1 .. 2 + Planes /\ i = L + (i - L)
    <3>1. L \in Nat /\ Len(AllParts) = L + (2 + Planes)
      BY <1>1, <1>9
    <3> HIDE DEF L
    <3> QED BY <1>1, <3>1
  <2>2. AllParts[i] = H[i - L]
    BY <1>9, <2>1
  <2> QED BY <1>12, <2>1, <2>2
<1>15. ToSet(F) = {AllParts[i] : i \in 1 .. L} /\ ToSet(AllParts) = {AllParts[i] : i \in 1 .. Len(AllParts)}
  <2>1. ToSet(F) = {F[i] : i \in 1 .. L}
    BY <1>13 DEF ToSet
  <2>2. ToSet(AllParts) = {AllParts[i] : i \in 1 .. Len(AllParts)}
    BY <1>13 DEF ToSet
  <2> QED BY <1>9, <2>1, <2>2
<1>16. {p[1] : p \in ToSet(H)} = HalfFields
  <2>1. ToSet(H) = {H[i] : i \in 1 .. 2 + Planes}
    BY <1>13 DEF ToSet
  <2>2. H[1][1] = "half_encoder" /\ H[2][1] = "half_converter" /\ H[2 + 1][1] = "half_target"
    BY <1>1, <1>3, <1>5, <1>8
  <2>3. 1 \in 1 .. 2 + Planes /\ 2 \in 1 .. 2 + Planes /\ 2 + 1 \in 1 .. 2 + Planes
    BY <1>1
  <2>4. HalfFields \subseteq {p[1] : p \in ToSet(H)}
    BY <2>1, <2>2, <2>3 DEF HalfFields
  <2> QED BY <1>12, <2>1, <2>4
<1>17. \A k \in Slots : <<"source", k>> \in ToSet(F)
  <2> TAKE k \in Slots
  <2>1. 1 + k \in 1 .. L /\ k \in 1 .. SLOTS
    BY <1>1 DEF Slots
  <2>2. F[1 + k] = <<"source", k>>
    BY <1>5, <1>7, <2>1
  <2> QED BY <1>13, <2>1, <2>2 DEF ToSet
<1>18. \A k \in 1 .. Planes : <<"target", k>> \in ToSet(F) /\ <<"half_target", k>> \in ToSet(AllParts)
  <2> TAKE k \in 1 .. Planes
  <2>1. /\ 1 + (SLOTS + k) \in 1 .. L /\ 2 + k \in 1 .. 2 + Planes
        /\ L + (2 + k) \in 1 .. Len(AllParts)
    BY <1>1, <1>9
  <2>2. F[1 + (SLOTS + k)] = <<"target", k>>
    BY <1>5, <1>7
  <2>3. AllParts[L + (2 + k)] = <<"half_target", k>>
    BY <1>5, <1>8, <1>9, <2>1
  <2> QED BY <1>13, <2>1, <2>2, <2>3 DEF ToSet
<1> HIDE DEF L
<1> QED BY <1>7, <1>9, <1>11, <1>13, <1>14, <1>15, <1>16, <1>17, <1>18

LEMMA OrderFacts == Len(Order) = 7 /\ DOMAIN Order = 1 .. 7 /\ ToSet(Order) = FullFields \union HalfFields
<1>1. Len(Order) = 7 /\ DOMAIN Order = 1 .. 7
  BY DEF Order
<1>2. ToSet(Order) = {Order[i] : i \in 1 .. 7}
  BY <1>1 DEF ToSet
<1>3. \A i \in 1 .. 7 : i \in {1, 2, 3, 4, 5, 6, 7}
  OBVIOUS
<1>4. /\ Order[1] = "converter" /\ Order[2] = "encoder" /\ Order[3] = "source" /\ Order[4] = "target"
      /\ Order[5] = "half_converter" /\ Order[6] = "half_encoder" /\ Order[7] = "half_target"
  BY DEF Order
<1>5. {1, 2, 3, 4, 5, 6, 7} \subseteq 1 .. 7
  OBVIOUS
<1>6. {Order[i] : i \in 1 .. 7} \subseteq FullFields \union HalfFields
  BY <1>3, <1>4 DEF FullFields, HalfFields
<1>7. FullFields \union HalfFields \subseteq {Order[i] : i \in 1 .. 7}
  BY <1>4, <1>5 DEF FullFields, HalfFields
<1> QED BY <1>1, <1>2, <1>6, <1>7

\* What an object on the card is called.
Called(n) == (1 .. n) \X ToSet(Order) \X Nat \X Kinds

LEMMA KindsFacts ==
    ASSUME NEW f, NEW n \in Nat, n <= Len(Calls(f)) + 1
    PROVE  Made(f, n) \subseteq Kinds
<1>1. CASE f \in {"encoder", "half_encoder"}
  <2>1. Made(f, n) = EncoderMade(n) /\ Calls(f) = EncoderCalls
    BY <1>1 DEF Made, Calls
  <2>2. Len(EncoderCalls) = 7 /\ DOMAIN EncoderCalls = 1 .. 7
    BY DEF EncoderCalls
  <2>3. \A i \in 1 .. n - 1 : i \in DOMAIN EncoderCalls
    BY <2>1, <2>2
  <2> QED BY <2>1, <2>3 DEF EncoderMade, Kinds, ToSet
<1>2. CASE f \in {"converter", "half_converter"}
  <2>1. Made(f, n) = ConverterMade(n) /\ Calls(f) = ConverterCalls
    BY <1>2 DEF Made, Calls
  <2>2. Len(ConverterCalls) = 10 /\ DOMAIN ConverterCalls = 1 .. 10
    BY DEF ConverterCalls
  <2>3. \A i \in 1 .. n - 1 : i \in DOMAIN ConverterCalls
    BY <2>1, <2>2
  <2> QED BY <2>1, <2>3 DEF ConverterMade, Kinds, ToSet
<1>3. CASE f \notin {"encoder", "half_encoder"} /\ f \notin {"converter", "half_converter"}
  <2>1. Made(f, n) = PlaneMade(n)
    BY <1>3 DEF Made
  <2>2. {"image", "properties", "descriptor", "memory", "bound", "view"} \subseteq ToSet(PlaneCalls)
    <3>1. /\ PlaneCalls[1] = "image" /\ PlaneCalls[2] = "properties" /\ PlaneCalls[3] = "descriptor"
          /\ PlaneCalls[4] = "memory" /\ PlaneCalls[5] = "bound" /\ PlaneCalls[6] = "view"
          /\ DOMAIN PlaneCalls = 1 .. 6
      BY DEF PlaneCalls
    <3>2. {1, 2, 3, 4, 5, 6} \subseteq 1 .. 6
      OBVIOUS
    <3> QED BY <3>1, <3>2 DEF ToSet
  <2> QED BY <2>1, <2>2 DEF PlaneMade, Kinds
<1> QED BY <1>1, <1>2, <1>3

LEMMA ObjectFacts ==
    ASSUME NEW c, NEW parts, NEW o \in Objects(c, parts)
    PROVE  o[1] = c /\ \E p \in parts : o[2] = p[1]
BY DEF Objects, Whole

LEMMA ObjectsCalled ==
    ASSUME NEW n \in Nat, NEW c \in 1 .. n, NEW parts, parts \subseteq ToSet(AllParts)
    PROVE  Objects(c, parts) \subseteq Called(n)
<1> SUFFICES ASSUME NEW p \in parts PROVE Whole(c, p) \subseteq Called(n)
  BY DEF Objects
<1>1. p[1] \in ToSet(Order) /\ p[2] \in Nat
  <2>1. PICK i \in 1 .. Len(AllParts) : p = AllParts[i]
    BY PartsFacts
  <2>2. i \in 1 .. Len(FullParts) \/ i \in Len(FullParts) + 1 .. Len(AllParts)
    BY PartsFacts
  <2> QED BY <2>1, <2>2, PartsFacts, OrderFacts
<1>2. Len(Calls(p[1])) \in Nat
  <2>1. Len(EncoderCalls) = 7 /\ Len(ConverterCalls) = 10 /\ Len(PlaneCalls) = 6
    BY DEF EncoderCalls, ConverterCalls, PlaneCalls
  <2> QED BY <2>1 DEF Calls
<1>3. Made(p[1], Len(Calls(p[1])) + 1) \subseteq Kinds
  BY <1>2, KindsFacts
<1> QED BY <1>1, <1>3 DEF Whole, Called

LEMMA ChainFacts ==
    ASSUME NEW c
    PROVE  /\ ChainOf(c) = Objects(c, IF c \in small THEN ToSet(AllParts) ELSE ToSet(FullParts))
           /\ \A o \in ChainOf(c) : o[1] = c /\ o[2] \in ToSet(Order)
           /\ ToSet(FullParts) \subseteq ToSet(AllParts)
<1>1. ToSet(FullParts) \subseteq ToSet(AllParts)
  <2>1. \A i \in 1 .. Len(FullParts) : i \in 1 .. Len(AllParts)
    BY PartsFacts
  <2> QED BY <2>1, PartsFacts
<1>2. ChainOf(c) = Objects(c, IF c \in small THEN ToSet(AllParts) ELSE ToSet(FullParts))
  BY DEF ChainOf, Objects
<1>3. \A p \in ToSet(AllParts) : p[1] \in ToSet(Order)
  <2>1. \A i \in 1 .. Len(AllParts) : i \in 1 .. Len(FullParts) \/ i \in Len(FullParts) + 1 .. Len(AllParts)
    BY PartsFacts
  <2> QED BY <2>1, PartsFacts, OrderFacts
<1> QED BY <1>1, <1>2, <1>3, ObjectFacts

LEMMA SoFarFacts ==
    ASSUME next \in 1 .. HalfRefused
    PROVE  /\ SoFar \subseteq ToSet(AllParts)
           /\ next = 1 => SoFar = {}
           /\ next \in DOMAIN AllParts => /\ AllParts[next] \in ToSet(AllParts)
                                          /\ next # HalfRefused /\ next + 1 # HalfRefused
                                          /\ {AllParts[i] : i \in 1 .. (next + 1) - 1} = SoFar \union {AllParts[next]}
           /\ next \notin DOMAIN AllParts /\ next # HalfRefused => SoFar = ToSet(AllParts)
<1>0. Len(AllParts) \in Nat /\ HalfRefused = Len(AllParts) + 2 /\ DOMAIN AllParts = 1 .. Len(AllParts)
      /\ next \in Nat /\ ToSet(AllParts) = {AllParts[i] : i \in 1 .. Len(AllParts)}
  BY PartsFacts DEF HalfRefused
<1>1. CASE next = HalfRefused
  <2>1. next # 1 /\ next \notin DOMAIN AllParts
    BY <1>0, <1>1
  <2> QED BY <1>1, <2>1, ChainFacts DEF SoFar
<1>2. CASE next # HalfRefused
  <2>1. SoFar = {AllParts[i] : i \in 1 .. next - 1}
    BY <1>2 DEF SoFar
  <2>2. \A i \in 1 .. next - 1 : i \in 1 .. Len(AllParts)
    BY <1>0, <1>2
  <2>3. next = 1 => 1 .. next - 1 = {}
    OBVIOUS
  <2>4. next \in DOMAIN AllParts => next + 1 # HalfRefused
    BY <1>0
  <2>5. next \notin DOMAIN AllParts => next - 1 = Len(AllParts)
    BY <1>0, <1>2
  <2>6. 1 .. (next + 1) - 1 = (1 .. next - 1) \union {next}
    BY <1>0
  <2>7. SoFar \subseteq ToSet(AllParts)
    BY <1>0, <2>1, <2>2
  <2>8. next = 1 => SoFar = {}
    BY <2>1, <2>3
  <2>9. {AllParts[i] : i \in 1 .. (next + 1) - 1} = SoFar \union {AllParts[next]}
    BY <2>1, <2>6
  <2>10. next \notin DOMAIN AllParts => SoFar = ToSet(AllParts)
    BY <1>0, <2>1, <2>5
  <2>11. next \in DOMAIN AllParts => AllParts[next] \in ToSet(AllParts)
    BY <1>0
  <2> QED BY <1>2, <2>4, <2>7, <2>8, <2>9, <2>10, <2>11
<1> QED BY <1>1, <1>2

LEMMA CalledGrows == ASSUME NEW n \in Nat, NEW m \in Nat, n <= m PROVE Called(n) \subseteq Called(m)
<1>1. 1 .. n \subseteq 1 .. m
  OBVIOUS
<1> QED BY <1>1 DEF Called

\* The pictures are left alone: what is known of them stays so, as long as nothing
\* runs on the card or all of it is still there.
LEMMA CardStays ==
    ASSUME PipelineInv, UNCHANGED pictureVars, unwaited \subseteq unwaited',
           at \in {"build", "replace", "loop"}, at' \in {"build", "replace", "loop", "leave", "gone"}
    PROVE  CardInv' /\ pending' = {}
<1>1. CardInv /\ pending = {} /\ pending' = {} /\ coded' = drawn' /\ family' = family /\ atHand' = atHand
  BY DEF PipelineInv, CardInv, pictureVars
<1>2. GivenBackReadable' /\ UsedIsAlive'
  BY <1>1 DEF CardInv, GivenBackReadable, UsedIsAlive, Reading
<1>3. \A s \in Slots : family'[s] = "ours" => s \in Reading'
  BY <1>1 DEF CardInv, Reading
<1> QED BY <1>1, <1>2, <1>3 DEF CardInv

LEMMA MakeKeeps ==
    ASSUME PipelineInv, Make
    PROVE  PipelineInv'
<1> DEFINE p == AllParts[next]
<1>0. /\ at = "build" /\ next \in DOMAIN AllParts /\ Takes
      /\ alive' = alive \union Whole(making, p) /\ next' = next + 1
      /\ UNCHANGED <<at, sizes, chain, making, small, dropping, pictureVars, faultVars>>
  BY DEF Make, Ready
<1>1. PipelineTypeOK /\ ModeInv /\ SizeInv /\ AliveInv /\ CardInv
  BY DEF PipelineInv
<1>2. /\ next \in 1 .. HalfRefused /\ next \in 1 .. Len(AllParts) /\ HalfRefused = Len(AllParts) + 2
      /\ Len(AllParts) \in Nat /\ Len(FullParts) \in Nat /\ making \in 1 .. MaxRings /\ MaxRings \in Nat
  BY <1>0, <1>1, PartsFacts, ChainSizes DEF ModeInv, HalfRefused
<1>3. next' \in 1 .. HalfRefused /\ next # HalfRefused /\ next' # HalfRefused
  BY <1>0, <1>2
<1>4. Whole(making, p) = Objects(making, {p})
  BY DEF Objects
<1>5. /\ SoFar' = SoFar \union {p} /\ p \in ToSet(AllParts) /\ SoFar \subseteq ToSet(AllParts)
  BY <1>0, <1>2, <1>3, SoFarFacts DEF SoFar
<1>6. PipelineTypeOK'
  <2>1. Objects(making, {p}) \subseteq Called(making)
    BY <1>2, <1>5, ObjectsCalled
  <2>2. alive' \union pending' \subseteq Called(making)
    BY <1>0, <1>1, <1>4, <2>1 DEF PipelineTypeOK, Called, pictureVars
  <2> QED BY <1>0, <1>1, <1>3, <2>2 DEF PipelineTypeOK, Called, pictureVars, faultVars
<1>7. ModeInv'
  BY <1>0, <1>1, <1>3 DEF ModeInv
<1>8. SizeInv'
  <2>1. next' > 1 => Opens(sizes[making])
    <3>1. next = 1 => Opens(sizes[making])
      BY <1>0, <1>2, PartsFacts DEF Takes
    <3> QED BY <1>0, <1>1, <1>2, <3>1 DEF SizeInv
  <2>2. InHalf(next' - 1) => Halves(sizes[making])
    <3>1. next = Len(FullParts) + 1 => Halves(sizes[making])
      BY <1>0, <1>2, PartsFacts DEF Takes
    <3>2. InHalf(next' - 1) => next = Len(FullParts) + 1 \/ InHalf(next - 1)
      BY <1>0, <1>2 DEF InHalf
    <3> QED BY <1>0, <1>1, <1>3, <3>1, <3>2 DEF SizeInv
  <2> QED BY <1>0, <1>1, <2>1, <2>2 DEF SizeInv, InHalf
<1>9. AliveInv'
  <2>1. Objects(making, SoFar)' = Objects(making, SoFar) \union Whole(making, p)
    BY <1>0, <1>5 DEF Objects, Whole
  <2>2. ChainOf(chain)' = ChainOf(chain)
    BY <1>0 DEF ChainOf, Whole
  <2>3. NothingLeaks'
    BY <1>0 DEF NothingLeaks, Working
  <2> QED BY <1>0, <1>1, <2>1, <2>2, <2>3 DEF AliveInv
<1>10. CardInv'
  BY <1>0, CardStays DEF faultVars
<1> QED BY <1>6, <1>7, <1>8, <1>9, <1>10 DEF PipelineInv

\* A chain in use is as it is while another one is given up or built.
LEMMA GivesUpKeeps ==
    ASSUME PipelineInv, Ready, GivesUp({}), UNCHANGED pictureVars, unwaited' = unwaited,
           refusals' \in 0 .. MaxRefusals
    PROVE  PipelineInv'
<1>1. PipelineTypeOK /\ ModeInv /\ SizeInv /\ AliveInv /\ CardInv
  BY DEF PipelineInv
<1>2. /\ next \in 1 .. HalfRefused /\ next \in 1 .. Len(AllParts) /\ HalfRefused = Len(AllParts) + 2
      /\ Len(AllParts) \in Nat /\ Len(FullParts) \in Nat \ {0} /\ making \in 1 .. MaxRings /\ MaxRings \in Nat
      /\ at = "build" /\ chain = making - 1 /\ next # HalfRefused /\ making \notin small
      /\ dropping = 0 /\ Len(FullParts) <= Len(AllParts)
  BY <1>1, PartsFacts, ChainSizes DEF ModeInv, HalfRefused, Ready
<1>3. /\ \A o \in ChainOf(chain) : o[1] # making
      /\ \A o \in Objects(making, SoFar) : o[1] = making
  BY <1>2, ChainFacts, ObjectFacts
<1>4. alive = (IF chain = 0 THEN {} ELSE ChainOf(chain)) \union Objects(making, SoFar)
  BY <1>1, <1>2 DEF AliveInv
<1>5. CASE InHalf(next)
  <2>0. /\ alive' = alive \ OfHalf(making) /\ next' = HalfRefused
        /\ UNCHANGED <<at, sizes, chain, making, small, dropping>>
    BY <1>5 DEF GivesUp, WithoutHalf
  <2>1. SoFar' = ToSet(FullParts)
    BY <2>0 DEF SoFar
  <2>2. \A o \in alive : o \in OfHalf(making) <=> o[1] = making /\ o[2] \in HalfFields
    <3>1. HalfFields = {p[1] : p \in ToSet(HalfParts)}
      BY PartsFacts
    <3> QED BY <3>1 DEF OfHalf, OfField
  <2>3. Objects(making, SoFar) \ OfHalf(making) = Objects(making, ToSet(FullParts))
    <3>1. ToSet(FullParts) \subseteq SoFar
      <4>1. \A i \in 1 .. Len(FullParts) : i \in 1 .. next - 1
        BY <1>2, <1>5 DEF InHalf
      <4> QED BY <1>2, <4>1, PartsFacts DEF SoFar
    <3>2. \A p \in ToSet(FullParts) : p[1] \notin HalfFields
      BY PartsFacts DEF FullFields, HalfFields
    <3>3. \A p \in SoFar : p[1] \in HalfFields \/ p \in ToSet(FullParts)
      <4>1. \A i \in 1 .. next - 1 : i \in 1 .. Len(FullParts) \/ i \in Len(FullParts) + 1 .. Len(AllParts)
        BY <1>2
      <4> QED BY <1>2, <4>1, PartsFacts DEF SoFar
    <3>4. ASSUME NEW o \in Objects(making, ToSet(FullParts))
          PROVE  o \in Objects(making, SoFar) /\ o \notin OfHalf(making)
      <4>1. o \in Objects(making, SoFar)
        BY <3>1, <3>4 DEF Objects
      <4>2. o[2] \notin HalfFields
        BY <3>2, <3>4, ObjectFacts
      <4> QED BY <1>4, <2>2, <4>1, <4>2
    <3>5. ASSUME NEW o \in Objects(making, SoFar), o \notin OfHalf(making)
          PROVE  o \in Objects(making, ToSet(FullParts))
      <4>1. PICK p \in SoFar : o \in Whole(making, p)
        BY <3>5 DEF Objects
      <4>2. o[1] = making /\ o[2] = p[1]
        BY <4>1 DEF Whole
      <4>3. o[2] \notin HalfFields
        BY <1>4, <2>2, <3>5, <4>2
      <4>4. p \in ToSet(FullParts)
        BY <3>3, <4>2, <4>3
      <4> QED BY <4>1, <4>4 DEF Objects
    <3> QED BY <3>4, <3>5
  <2>4. \A o \in ChainOf(chain) : chain # 0 => o \notin OfHalf(making)
    BY <1>3, <1>4, <2>2
  <2>5. alive' = (IF chain = 0 THEN {} ELSE ChainOf(chain)) \union Objects(making, ToSet(FullParts))
    BY <1>4, <2>0, <2>3, <2>4
  <2>6. PipelineTypeOK'
    <3>1. alive' \union pending' \subseteq Called(making)
      BY <1>1, <2>0 DEF PipelineTypeOK, Called, pictureVars
    <3>2. next' \in 1 .. HalfRefused
      BY <1>2, <2>0
    <3> QED BY <1>1, <2>0, <3>1, <3>2 DEF PipelineTypeOK, Called, pictureVars
  <2>7. ModeInv'
    <3>1. next' \in 1 .. HalfRefused
      BY <1>2, <2>0
    <3> QED BY <1>1, <1>2, <2>0, <3>1 DEF ModeInv
  <2>8. SizeInv'
    <3>1. Opens(sizes[making])
      <4>1. next > 1
        BY <1>2, <1>5 DEF InHalf
      <4> QED BY <1>1, <1>2, <4>1 DEF SizeInv
    <3> QED BY <1>1, <1>2, <2>0, <3>1 DEF SizeInv
  <2>9. AliveInv'
    <3>1. ChainOf(chain)' = ChainOf(chain) /\ Objects(making, SoFar)' = Objects(making, ToSet(FullParts))
      BY <2>0, <2>1 DEF ChainOf, Whole, Objects
    <3>2. NothingLeaks'
      BY <1>2, <2>0 DEF NothingLeaks, Working
    <3> QED BY <1>2, <2>0, <2>5, <3>1, <3>2 DEF AliveInv
  <2>10. CardInv'
    BY <1>2, <2>0, CardStays
  <2> QED BY <2>6, <2>7, <2>8, <2>9, <2>10 DEF PipelineInv
<1>6. CASE ~InHalf(next)
  <2>0. /\ alive' = {o \in alive : o[1] # making}
        /\ at' = IF chain = 0 THEN "gone" ELSE "leave"
        /\ UNCHANGED <<sizes, chain, making, next, small, dropping>>
    BY <1>6 DEF GivesUp, WithoutChain, Leaves
  <2>1. alive' = IF chain = 0 THEN {} ELSE ChainOf(chain)
    BY <1>3, <1>4, <2>0
  <2>2. PipelineTypeOK'
    <3>1. alive' \union pending' \subseteq Called(making)
      BY <1>1, <2>0 DEF PipelineTypeOK, Called, pictureVars
    <3> QED BY <1>1, <2>0, <3>1 DEF PipelineTypeOK, Called, pictureVars
  <2>3. ModeInv'
    BY <1>1, <1>2, <2>0 DEF ModeInv, Modes
  <2>4. SizeInv'
    BY <1>1, <1>2, <2>0 DEF SizeInv
  <2>5. AliveInv'
    <3>1. ChainOf(chain)' = ChainOf(chain)
      BY <2>0 DEF ChainOf, Whole
    <3>2. chain # 0 => Standing(chain)' = ChainOf(chain)
      <4>1. dropping' = 0 /\ 1 .. 0 = {}
        BY <1>2, <2>0
      <4> QED BY <3>1, <4>1 DEF Standing
    <3>3. NothingLeaks'
      BY <1>2, <2>0, <2>1 DEF NothingLeaks, Working
    <3> QED BY <2>0, <2>1, <3>2, <3>3 DEF AliveInv
  <2>6. CardInv'
    BY <1>2, <2>0, CardStays
  <2> QED BY <2>2, <2>3, <2>4, <2>5, <2>6 DEF PipelineInv
<1> QED BY <1>5, <1>6

LEMMA MakeFailsKeeps ==
    ASSUME PipelineInv, MakeFails
    PROVE  PipelineInv'
<1>1. PICK n \in DOMAIN Calls(AllParts[next][1]) : GivesUp(Left(n))
  BY DEF MakeFails
<1>2. Left(n) = {}
  BY NothingIsLeft DEF Left
<1>3. refusals' \in 0 .. MaxRefusals
  <2>1. refusals \in 0 .. MaxRefusals /\ refusals < MaxRefusals /\ refusals' = refusals + 1
    BY DEF MakeFails, Refused, PipelineInv, PipelineTypeOK
  <2> QED BY <2>1, ChainSizes
<1>4. Ready /\ UNCHANGED pictureVars /\ unwaited' = unwaited
  BY DEF MakeFails
<1> QED BY <1>1, <1>2, <1>3, <1>4, GivesUpKeeps

LEMMA NotOfASizeKeeps ==
    ASSUME PipelineInv, NotOfASize
    PROVE  PipelineInv'
<1>1. refusals' \in 0 .. MaxRefusals /\ unwaited' = unwaited
  BY DEF NotOfASize, PipelineInv, PipelineTypeOK, faultVars
<1> QED BY <1>1, GivesUpKeeps DEF NotOfASize

LEMMA BuiltKeeps ==
    ASSUME PipelineInv, Built
    PROVE  PipelineInv'
<1>0. /\ at = "build" /\ next \notin DOMAIN AllParts
      /\ small' = (IF next = HalfRefused THEN small ELSE small \union {making})
      /\ UNCHANGED <<sizes, making, next, alive, dropping, pictureVars, faultVars>>
      /\ chain = 0 => at' = "loop" /\ chain' = making
      /\ chain # 0 => at' = "replace" /\ chain' = chain
  BY DEF Built, Ready
<1>1. PipelineTypeOK /\ ModeInv /\ SizeInv /\ AliveInv /\ CardInv
  BY DEF PipelineInv
<1>2. /\ next \in 1 .. HalfRefused /\ HalfRefused = Len(AllParts) + 2 /\ DOMAIN AllParts = 1 .. Len(AllParts)
      /\ Len(AllParts) \in Nat /\ Len(FullParts) \in Nat \ {0} /\ Len(FullParts) + 2 <= Len(AllParts)
      /\ making \in 1 .. MaxRings /\ MaxRings \in Nat /\ chain = making - 1 /\ making \notin small /\ dropping = 0
  BY <1>0, <1>1, PartsFacts, ChainSizes DEF ModeInv, HalfRefused
<1>3. Opens(sizes[making]) /\ (next # HalfRefused => Halves(sizes[making]))
  <2>1. next > 1 /\ (next # HalfRefused => InHalf(next - 1))
    BY <1>0, <1>2 DEF InHalf
  <2> QED BY <1>0, <1>1, <2>1 DEF SizeInv
<1>4. PipelineTypeOK'
  <2>1. small' \subseteq 1 .. making /\ chain' \in {0, making, making - 1}
    BY <1>0, <1>1, <1>2 DEF PipelineTypeOK
  <2> QED BY <1>0, <1>1, <2>1 DEF PipelineTypeOK, pictureVars, faultVars
<1>5. ModeInv'
  <2>1. small' \subseteq 1 .. making
    BY <1>0, <1>1, <1>2 DEF PipelineTypeOK
  <2> QED BY <1>0, <1>1, <1>2, <2>1 DEF ModeInv, Modes
<1>6. SizeInv'
  BY <1>0, <1>1, <1>2, <1>3 DEF SizeInv
<1>7. ChainOf(making)' = Objects(making, SoFar)
  <2>1. SoFar = IF next = HalfRefused THEN ToSet(FullParts) ELSE ToSet(AllParts)
    BY <1>0, <1>2, SoFarFacts DEF SoFar
  <2>2. ChainOf(making)' = Objects(making, IF making \in small' THEN ToSet(AllParts) ELSE ToSet(FullParts))
    BY <1>0 DEF ChainOf, Objects, Whole
  <2>3. making \in small' <=> next # HalfRefused
    BY <1>0, <1>2
  <2> QED BY <2>1, <2>2, <2>3
<1>8. AliveInv'
  <2>1. CASE chain = 0
    <3>1. alive' = ChainOf(chain)'
      <4>1. ChainOf(chain)' = ChainOf(making)'
        BY <1>0, <2>1 DEF ChainOf, Whole
      <4> QED BY <1>0, <1>1, <1>7, <2>1, <4>1 DEF AliveInv
    <3> QED BY <1>0, <2>1, <3>1 DEF AliveInv, NothingLeaks
  <2>2. CASE chain # 0
    <3>1. ChainOf(chain)' = ChainOf(chain)
      <4>1. chain \in small' <=> chain \in small
        BY <1>0, <1>2
      <4> QED BY <1>0, <2>2, <4>1 DEF ChainOf, Whole
    <3>2. Standing(chain)' = ChainOf(chain)'
      <4>1. dropping' = 0 /\ 1 .. 0 = {}
        BY <1>0, <1>2
      <4> QED BY <4>1 DEF Standing
    <3>3. ChainOf(making)' = Objects(making, SoFar) /\ alive' = alive /\ making' = making
      BY <1>0, <1>7
    <3>4. NothingLeaks'
      BY <1>0, <2>2 DEF NothingLeaks, Working
    <3>5. alive' = Standing(chain)' \union ChainOf(making)'
      BY <1>0, <1>1, <2>2, <3>1, <3>2, <3>3 DEF AliveInv
    <3> QED BY <1>0, <2>2, <3>4, <3>5 DEF AliveInv
  <2> QED BY <2>1, <2>2
<1>9. CardInv'
  BY <1>0, <1>2, CardStays DEF faultVars
<1> QED BY <1>4, <1>5, <1>6, <1>8, <1>9 DEF PipelineInv

LEMMA RingChangedKeeps ==
    ASSUME PipelineInv, NEW s \in RingSizes, RingChanged(s)
    PROVE  PipelineInv'
<1>0. /\ at = "loop" /\ making < MaxRings /\ sizes' = Append(sizes, s) /\ making' = making + 1 /\ next' = 1
      /\ at' = "build" /\ family' = [k \in Slots |-> "foreign"]
      /\ UNCHANGED <<chain, small, alive, dropping, atHand, turn, wanted, drawn, coded, pending, faultVars>>
  BY DEF RingChanged
<1>1. PipelineTypeOK /\ ModeInv /\ SizeInv /\ AliveInv /\ CardInv
  BY DEF PipelineInv
<1>2. /\ making \in 1 .. MaxRings /\ MaxRings \in Nat /\ chain = making /\ dropping = 0 /\ small \subseteq 1 .. making
      /\ alive = ChainOf(chain) /\ pending = {} /\ coded = drawn /\ HalfRefused \in Nat /\ HalfRefused > 2
      /\ Len(sizes) = making /\ sizes \in Seq(RingSizes)
  <2>1. HalfRefused \in Nat /\ HalfRefused > 2
    BY PartsFacts DEF HalfRefused
  <2>2. chain = making /\ chain # 0
    BY <1>0, <1>1, ChainSizes DEF ModeInv
  <2>3. alive = ChainOf(chain)
    BY <1>0, <1>1, <2>2 DEF AliveInv, NothingLeaks, Working
  <2> QED BY <1>0, <1>1, <2>1, <2>2, <2>3, ChainSizes DEF ModeInv, SizeInv, CardInv
<1>3. /\ sizes' \in Seq(RingSizes) /\ Len(sizes') = making + 1
      /\ \A c \in 1 .. making : sizes'[c] = sizes[c]
  <2> HIDE <1>1
  <2> QED BY <1>0, <1>2
<1>4. making' \in 1 .. MaxRings /\ next' \in 1 .. HalfRefused /\ small \subseteq 1 .. making'
      /\ chain = making' - 1 /\ making' \notin small /\ chain # 0
  BY <1>0, <1>2
<1>5. PipelineTypeOK'
  <2>1. Called(making) \subseteq Called(making')
    BY <1>0, <1>2, CalledGrows
  <2>2. alive' \union pending' \subseteq Called(making')
    BY <1>0, <1>1, <2>1 DEF PipelineTypeOK, Called
  <2>3. chain' \in {0, making', making' - 1} /\ making' = Len(sizes')
    BY <1>0, <1>3, <1>4
  <2>4. family' \in [Slots -> {"foreign", "ours"}]
    BY <1>0
  <2> QED BY <1>0, <1>1, <1>3, <1>4, <2>2, <2>3, <2>4 DEF PipelineTypeOK, Called, faultVars
<1>6. ModeInv'
  BY <1>0, <1>1, <1>2, <1>4 DEF ModeInv, Modes
<1>7. SizeInv'
  <2>1. ~(next' > 1) /\ ~InHalf(next' - 1)
    BY <1>0, PartsFacts DEF InHalf
  <2>2. Opens(sizes'[chain]) /\ \A c \in small : Halves(sizes'[c])
    BY <1>1, <1>2, <1>3 DEF SizeInv
  <2> QED BY <1>0, <1>3, <2>1, <2>2 DEF SizeInv, InHalf
<1>8. AliveInv'
  <2>1. ChainOf(chain)' = ChainOf(chain)
    BY <1>0 DEF ChainOf, Whole
  <2>2. Objects(making, SoFar)' = {}
    <3>1. SoFar' = {}
      <4>1. next' # HalfRefused /\ 1 .. next' - 1 = {}
        BY <1>0, <1>2
      <4>2. HalfRefused' = HalfRefused
        BY DEF HalfRefused
      <4> QED BY <4>1, <4>2 DEF SoFar
    <3> QED BY <3>1 DEF Objects
  <2>3. NothingLeaks'
    BY <1>0 DEF NothingLeaks, Working
  <2> QED BY <1>0, <1>2, <1>4, <2>1, <2>2, <2>3 DEF AliveInv
<1>9. CardInv'
  <2>1. GivenBackReadable' /\ UsedIsAlive'
    BY <1>0, <1>2 DEF GivenBackReadable, UsedIsAlive, Reading
  <2>2. \A k \in Slots : family'[k] # "ours"
    BY <1>0
  <2> QED BY <1>0, <1>2, <2>1, <2>2 DEF CardInv
<1> QED BY <1>5, <1>6, <1>7, <1>8, <1>9 DEF PipelineInv

LEMMA DropFieldKeeps ==
    ASSUME PipelineInv, DropField
    PROVE  PipelineInv'
<1> DEFINE field == Order[dropping + 1]
<1>0. /\ at \in {"replace", "leave"} /\ dropping < Len(Order)
      /\ alive' = alive \ OfField(chain, field) /\ dropping' = dropping + 1
      /\ UNCHANGED <<at, sizes, chain, making, next, small, pictureVars>>
      /\ \/ (Waits(field) => pending = {}) /\ UNCHANGED faultVars
         \/ Waits(field) /\ refusals < MaxRefusals /\ refusals' = refusals + 1
            /\ unwaited' = unwaited \union {"idle"}
  BY DEF DropField, Refused
<1>1. PipelineTypeOK /\ ModeInv /\ SizeInv /\ AliveInv /\ CardInv
  BY DEF PipelineInv
<1>2. /\ dropping \in 0 .. 6 /\ dropping' \in 1 .. 7 /\ Len(Order) = 7 /\ chain # 0 /\ making \in Nat
      /\ at = "replace" => chain = making - 1
  BY <1>0, <1>1, OrderFacts, ChainSizes DEF ModeInv
<1>3. /\ refusals' \in 0 .. MaxRefusals /\ unwaited' \subseteq {"fence", "idle"} /\ unwaited \subseteq unwaited'
  <2>1. refusals \in 0 .. MaxRefusals /\ unwaited \subseteq {"fence", "idle"} /\ MaxRefusals \in Nat
    BY <1>1, ChainSizes DEF PipelineTypeOK
  <2>2. CASE UNCHANGED faultVars
    BY <2>1, <2>2 DEF faultVars
  <2>3. CASE refusals < MaxRefusals /\ refusals' = refusals + 1 /\ unwaited' = unwaited \union {"idle"}
    <3>1. refusals' \in 0 .. MaxRefusals
      BY <2>1, <2>3
    <3> QED BY <2>1, <2>3, <3>1
  <2> QED BY <1>0, <2>2, <2>3
<1>4. PipelineTypeOK'
  <2>1. dropping' \in 0 .. Len(Order) /\ alive' \subseteq alive
    BY <1>0, <1>2
  <2> QED BY <1>0, <1>1, <1>3, <2>1 DEF PipelineTypeOK, pictureVars
<1>5. ModeInv'
  <2>1. dropping' \in 0 .. Len(Order)
    BY <1>2
  <2> QED BY <1>0, <1>1, <2>1 DEF ModeInv
<1>6. SizeInv'
  BY <1>0, <1>1 DEF SizeInv
<1>7. AliveInv'
  <2>1. Standing(chain)' = Standing(chain) \ OfField(chain, field)
    <3>1. ChainOf(chain)' = ChainOf(chain)
      BY <1>0 DEF ChainOf, Whole
    <3>2. 1 .. dropping' = (1 .. dropping) \union {dropping + 1}
      BY <1>0, <1>2
    <3>3. \A o \in Standing(chain) : o \in alive /\ o[1] = chain
      BY <1>0, <1>1, ChainFacts DEF AliveInv, Standing
    <3>4. Standing(chain)' = {o \in ChainOf(chain) : \A i \in 1 .. dropping' : o[2] # Order[i]}
      BY <3>1 DEF Standing
    <3>5. \A o : o \in Standing(chain)' <=> o \in Standing(chain) /\ o[2] # field
      BY <3>2, <3>4 DEF Standing
    <3> QED BY <3>3, <3>5 DEF OfField
  <2>2. at = "replace" => ChainOf(making)' = ChainOf(making) \ OfField(chain, field)
    <3>1. ChainOf(making)' = ChainOf(making)
      BY <1>0 DEF ChainOf, Whole
    <3>2. at = "replace" => \A o \in ChainOf(making) : o[1] # chain
      BY <1>2, ChainFacts
    <3> QED BY <3>1, <3>2 DEF OfField
  <2>3. NothingLeaks'
    BY <1>0 DEF NothingLeaks, Working
  <2> QED BY <1>0, <1>1, <2>1, <2>2, <2>3 DEF AliveInv
<1>8. CardInv'
  <2>1. UNCHANGED <<pending, family, atHand, drawn, coded>>
    BY <1>0 DEF pictureVars
  <2>2. GivenBackReadable'
    BY <1>0, <1>1, <1>3 DEF CardInv, GivenBackReadable, Reading, pictureVars
  <2>3. pending = {} \/ "idle" \in unwaited'
    <3>1. CASE dropping = 0
      <4>1. Waits(field)
        BY <3>1 DEF Waits, Order
      <4> QED BY <1>0, <4>1
    <3>2. CASE dropping # 0
      BY <1>0, <1>1, <1>3, <3>2 DEF CardInv
    <3> QED BY <3>1, <3>2
  <2>4. UsedIsAlive'
    BY <1>0, <2>3 DEF UsedIsAlive, pictureVars
  <2>5. \A s \in Slots : family'[s] = "ours" => s \in Reading'
    BY <1>0, <1>1 DEF CardInv, Reading, pictureVars
  <2> QED BY <1>0, <1>1, <1>3, <2>2, <2>3, <2>4, <2>5 DEF CardInv, pictureVars
<1> QED BY <1>4, <1>5, <1>6, <1>7, <1>8 DEF PipelineInv

LEMMA ChainDroppedKeeps ==
    ASSUME PipelineInv, ChainDropped
    PROVE  PipelineInv'
<1>0. /\ at \in {"replace", "leave"} /\ dropping = Len(Order) /\ dropping' = 0
      /\ at = "leave" => at' = "gone" /\ chain' = 0
      /\ at # "leave" => at' = "loop" /\ chain' = making
      /\ UNCHANGED <<sizes, making, next, small, alive, pictureVars, faultVars>>
  BY DEF ChainDropped
<1>1. PipelineTypeOK /\ ModeInv /\ SizeInv /\ AliveInv /\ CardInv
  BY DEF PipelineInv
<1>2. making \in 1 .. MaxRings /\ MaxRings \in Nat /\ dropping = 7 /\ Len(Order) = 7 /\ small' \subseteq 1 .. making
  BY <1>0, <1>1, OrderFacts, ChainSizes DEF ModeInv
<1>3. Standing(chain) = {}
  <2>1. \A o \in ChainOf(chain) : \E i \in 1 .. 7 : o[2] = Order[i]
    <3>1. ToSet(Order) = {Order[i] : i \in 1 .. 7}
      BY OrderFacts DEF ToSet
    <3> QED BY <3>1, ChainFacts
  <2> QED BY <1>2, <2>1 DEF Standing
<1>4. PipelineTypeOK'
  <2>1. dropping' \in 0 .. Len(Order) /\ chain' \in {0, making, making - 1}
    BY <1>0, <1>2
  <2> QED BY <1>0, <1>1, <2>1 DEF PipelineTypeOK, pictureVars, faultVars
<1>5. ModeInv'
  BY <1>0, <1>1, <1>2 DEF ModeInv, Modes
<1>6. SizeInv'
  BY <1>0, <1>1, <1>2 DEF SizeInv
<1>7. AliveInv'
  <2>1. CASE at = "leave"
    BY <1>0, <1>1, <1>3, <2>1 DEF AliveInv, NothingLeaks, Working
  <2>2. CASE at = "replace"
    <3>1. ChainOf(chain)' = ChainOf(making)
      BY <1>0, <2>2 DEF ChainOf, Whole
    <3> QED BY <1>0, <1>1, <1>3, <2>2, <3>1 DEF AliveInv, NothingLeaks
  <2> QED BY <1>0, <2>1, <2>2
<1>8. CardInv'
  <2>1. GivenBackReadable' /\ UsedIsAlive'
    BY <1>0, <1>1 DEF CardInv, GivenBackReadable, UsedIsAlive, Reading, pictureVars, faultVars
  <2>2. \A s \in Slots : family'[s] = "ours" => s \in Reading'
    BY <1>0, <1>1 DEF CardInv, Reading, pictureVars
  <2>3. coded' = coded /\ drawn' = drawn /\ pending' = pending /\ unwaited' = unwaited
    BY <1>0 DEF pictureVars, faultVars
  <2>4. (at = "leave" => pending = {} \/ "idle" \in unwaited) /\ (at = "replace" => pending = {})
    BY <1>0, <1>1, <1>2 DEF CardInv
  <2> QED BY <1>0, <1>1, <2>1, <2>2, <2>3, <2>4 DEF CardInv
<1> QED BY <1>4, <1>5, <1>6, <1>7, <1>8 DEF PipelineInv

WorkModes == {"loop", "look", "convert", "wait", "half_convert", "half_wait", "release", "encode", "half_encode"}

LEMMA WorkFacts ==
    ASSUME PipelineInv, at \in WorkModes
    PROVE  /\ chain = making /\ chain # 0 /\ chain \in Nat /\ alive = ChainOf(chain) /\ dropping = 0
           /\ turn \in Surfaces /\ wanted \subseteq Streams /\ drawn \union coded \subseteq Streams \X Surfaces
<1>1. chain = making /\ making \in 1 .. MaxRings /\ dropping = 0
  BY DEF WorkModes, PipelineInv, ModeInv
<1>2. chain # 0 /\ chain \in Nat
  BY <1>1, ChainSizes
<1>3. Working
  BY <1>2 DEF Working, WorkModes
<1> QED BY <1>1, <1>2, <1>3 DEF PipelineInv, AliveInv, NothingLeaks, PipelineTypeOK

\* A step of a picture leaves the chain alone, or leaves with it.
LEMMA ChainStays ==
    ASSUME PipelineInv, at \in WorkModes, UNCHANGED chainVars, at' \in WorkModes \union {"leave"}
    PROVE  ModeInv' /\ SizeInv' /\ AliveInv' /\ alive' = alive
<1>0. /\ UNCHANGED <<sizes, chain, making, next, small, alive, dropping>>
      /\ ModeInv /\ SizeInv /\ AliveInv
  BY DEF chainVars, PipelineInv
<1>1. chain = making /\ chain # 0 /\ alive = ChainOf(chain) /\ dropping = 0
  BY WorkFacts
<1>2. ModeInv'
  BY <1>0, <1>1 DEF ModeInv, Modes, WorkModes
<1>3. SizeInv'
  BY <1>0 DEF SizeInv, WorkModes
<1>4. AliveInv'
  <2>1. ChainOf(chain)' = ChainOf(chain)
    BY <1>0 DEF ChainOf, Whole
  <2>2. Standing(chain)' = ChainOf(chain)
    <3>1. dropping' = 0 /\ 1 .. 0 = {}
      BY <1>0, <1>1
    <3> QED BY <2>1, <3>1 DEF Standing
  <2> QED BY <1>0, <1>1, <2>1, <2>2 DEF AliveInv, NothingLeaks, WorkModes
<1> QED BY <1>0, <1>2, <1>3, <1>4

LEMMA LeavesFacts == ASSUME PipelineInv, at \in WorkModes, Leaves PROVE at' = "leave"
BY WorkFacts DEF Leaves

\* The types of what a picture is followed by.
PictureTyped ==
    /\ atHand \in 0..SLOTS /\ family \in [Slots -> {"foreign", "ours"}] /\ turn \in Surfaces
    /\ wanted \subseteq Streams /\ drawn \union coded \subseteq Streams \X Surfaces
    /\ unwaited \subseteq {"fence", "idle"} /\ refusals \in 0..MaxRefusals

LEMMA TypesStay ==
    ASSUME PipelineInv, UNCHANGED chainVars, PictureTyped', pending' \subseteq pending \/ pending' \subseteq alive
    PROVE  PipelineTypeOK'
<1>1. alive' \union pending' \subseteq Called(making)
  BY DEF PipelineInv, PipelineTypeOK, Called, chainVars
<1> QED BY <1>1 DEF PipelineInv, PipelineTypeOK, PictureTyped, Called, chainVars

LEMMA PictureIsTyped == PipelineInv => PictureTyped
BY DEF PipelineInv, PipelineTypeOK, PictureTyped

\* A call that is refused is counted.
LEMMA RefusedFacts == ASSUME PipelineInv, Refused PROVE refusals' \in 0 .. MaxRefusals
<1>1. refusals \in 0 .. MaxRefusals /\ refusals < MaxRefusals /\ refusals' = refusals + 1
  BY DEF PipelineInv, PipelineTypeOK, Refused
<1> QED BY <1>1, ChainSizes

\* What a command buffer names is there, and tells the slot it reads and the stream
\* it draws.
LEMMA RefsFacts ==
    ASSUME PipelineInv, at \in WorkModes, atHand \in Slots, NEW st \in Streams, st = "half" => chain \in small
    PROVE  /\ Refs(st) \subseteq alive /\ Refs(st) # {}
           /\ \A s \in Slots : (\E o \in Refs(st) : o[2] = "source" /\ o[3] = s) <=> s = atHand
           /\ \A x \in Streams : (\E o \in Refs(st) : o[2] = Part(x, "target")) <=> x = st
<1> DEFINE Kept3 == {"image", "memory", "view"}
           source == {<<chain, "source", atHand, kind>> : kind \in Kept3}
           target == {<<chain, Part(st, "target"), 2 * turn + plane, kind>> : plane \in {1, 2}, kind \in Kept3}
           converter == OfField(chain, Part(st, "converter"))
<1>1. alive = ChainOf(chain) /\ turn \in Surfaces
  BY WorkFacts
<1>2. Refs(st) = converter \union source \union target
  BY DEF Refs
<1>3. st = "full" \/ st = "half"
  BY DEF Streams
<1>4. source \subseteq alive
  <2>1. <<"source", atHand>> \in ToSet(FullParts) /\ ToSet(FullParts) \subseteq ToSet(AllParts)
    BY PartsFacts, ChainFacts
  <2>2. Whole(chain, <<"source", atHand>>) = source
    BY PlaneIsWhole
  <2>3. Whole(chain, <<"source", atHand>>) \subseteq ChainOf(chain)
    BY <2>1, ChainFacts DEF Objects
  <2> QED BY <1>1, <2>2, <2>3
<1>5. target \subseteq alive
  <2>1. ASSUME NEW plane \in {1, 2}, NEW kind \in Kept3
        PROVE  <<chain, Part(st, "target"), 2 * turn + plane, kind>> \in alive
    <3> DEFINE q == <<Part(st, "target"), 2 * turn + plane>>
    <3>1. 2 * turn + plane \in 1 .. Planes
      <4>1. turn \in Nat /\ turn <= TARGETS - 1 /\ TARGETS \in Nat
        BY <1>1, ChainSizes DEF Surfaces
      <4> QED BY <4>1 DEF Planes
    <3>2. q \in IF chain \in small THEN ToSet(AllParts) ELSE ToSet(FullParts)
      <4>1. CASE st = "full"
        BY <3>1, <4>1, PartsFacts, ChainFacts, HalfNames
      <4>2. CASE st = "half"
        BY <3>1, <4>2, PartsFacts, HalfNames
      <4> QED BY <1>3, <4>1, <4>2
    <3>3. q[1] \in {"source", "target", "half_target"} /\ q[1] = Part(st, "target") /\ q[2] = 2 * turn + plane
      BY <1>3, HalfNames
    <3>4. <<chain, q[1], q[2], kind>> \in Whole(chain, q)
      BY <3>3, PlaneIsWhole
    <3>5. Whole(chain, q) \subseteq ChainOf(chain)
      BY <3>2, ChainFacts DEF Objects
    <3> HIDE DEF q
    <3> QED BY <1>1, <3>3, <3>4, <3>5
  <2> QED BY <2>1
<1>6. converter \subseteq alive
  BY DEF OfField
<1>7. /\ \A o \in converter : o[2] = Part(st, "converter")
      /\ \A o \in source : o[2] = "source" /\ o[3] = atHand
      /\ \A o \in target : o[2] = Part(st, "target")
  BY DEF OfField
<1>8. /\ <<chain, "source", atHand, "image">> \in source
      /\ <<chain, Part(st, "target"), 2 * turn + 1, "image">> \in target
  OBVIOUS
<1>9. \A x \in Streams : /\ Part(x, "converter") \notin {"source", "target", "half_target"}
                         /\ Part(x, "target") \in {"target", "half_target"}
                         /\ (Part(x, "target") = Part(st, "target") <=> x = st)
  BY <1>3, HalfNames DEF Streams
<1> HIDE DEF source, target, converter, Kept3
<1>10. ASSUME NEW s \in Slots PROVE (\E o \in Refs(st) : o[2] = "source" /\ o[3] = s) <=> s = atHand
  <2>1. ASSUME NEW o \in Refs(st), o[2] = "source", o[3] = s PROVE s = atHand
    BY <1>2, <1>7, <1>9, <2>1
  <2>2. <<chain, "source", atHand, "image">>[2] = "source" /\ <<chain, "source", atHand, "image">>[3] = atHand
    OBVIOUS
  <2> QED BY <1>2, <1>8, <2>1, <2>2
<1>11. ASSUME NEW x \in Streams PROVE (\E o \in Refs(st) : o[2] = Part(x, "target")) <=> x = st
  <2>1. ASSUME NEW o \in Refs(st), o[2] = Part(x, "target") PROVE x = st
    BY <1>2, <1>7, <1>9, <2>1
  <2>2. <<chain, Part(st, "target"), 2 * turn + 1, "image">>[2] = Part(st, "target")
    OBVIOUS
  <2> QED BY <1>2, <1>8, <2>1, <2>2
<1> QED BY <1>2, <1>4, <1>5, <1>6, <1>8, <1>10, <1>11

\* With nothing on the card before and after, nobody reads and every image is the
\* emulator's.
LEMMA QuietKeeps ==
    ASSUME PipelineInv, pending = {}, pending' = {}, family' = family
    PROVE  /\ GivenBackReadable' /\ UsedIsAlive'
           /\ \A s \in Slots : family'[s] = "ours" => s \in Reading'
<1>1. \A s \in Slots : family[s] = "foreign"
  <2>1. \A s \in Slots : family[s] \in {"foreign", "ours"}
    BY PictureIsTyped DEF PictureTyped
  <2>2. Reading = {}
    BY DEF Reading
  <2> QED BY <2>1, <2>2 DEF PipelineInv, CardInv
<1>2. Reading' = {}
  BY DEF Reading
<1> QED BY <1>1, <1>2 DEF GivenBackReadable, UsedIsAlive

\* A step that leaves the card alone keeps the invariant when it keeps what is said
\* of the picture.
PictureInv ==
    /\ at \in {"loop"} => coded = drawn
    /\ at \in {"look", "convert"} => drawn = {}
    /\ at = "half_convert" => drawn = ShownOn({"full"})
    /\ at \in {"release", "encode", "half_encode"} => drawn = ShownOn(Streams)
    /\ at \in {"look", "convert", "half_convert", "release", "encode"} => coded = {}
    /\ at = "half_encode" => coded = ShownOn({"full"})
    /\ at \in {"look", "convert", "half_convert", "release"} => atHand \in Slots
    /\ coded \subseteq drawn
    /\ at \in {"convert", "half_convert"} /\ "half" \in wanted => chain \in small

LEMMA QuietStep ==
    ASSUME PipelineInv, at \in WorkModes, UNCHANGED chainVars,
           at' \in (WorkModes \ {"wait", "half_wait"}) \union {"leave"},
           pending = {}, pending' = {}, family' = family, PictureTyped', PictureInv'
    PROVE  PipelineInv'
<1>1. ModeInv' /\ SizeInv' /\ AliveInv' /\ dropping' = 0
  BY ChainStays, WorkFacts DEF chainVars
<1>2. PipelineTypeOK'
  BY TypesStay
<1>3. /\ GivenBackReadable' /\ UsedIsAlive'
      /\ \A s \in Slots : family'[s] = "ours" => s \in Reading'
  BY QuietKeeps
<1>4. CardInv'
  BY <1>1, <1>3 DEF CardInv, PictureInv, WorkModes
<1> QED BY <1>1, <1>2, <1>4 DEF PipelineInv

\* Where nothing runs.
LEMMA NothingRuns ==
    ASSUME PipelineInv, at \in WorkModes \ {"wait", "half_wait"}
    PROVE  pending = {}
BY DEF PipelineInv, CardInv, WorkModes

LEMMA TakeKeeps ==
    ASSUME PipelineInv, NEW s \in Slots, Take(s)
    PROVE  PipelineInv'
<1>0. /\ at = "loop" /\ atHand' = s /\ drawn' = {} /\ coded' = {} /\ at' = "look"
      /\ UNCHANGED <<chainVars, family, turn, wanted, pending, faultVars>>
  BY DEF Take
<1>1. s \in 0 .. SLOTS
  BY ChainSizes DEF Slots
<1>2. PictureTyped'
  BY <1>0, <1>1, PictureIsTyped DEF PictureTyped, faultVars
<1>3. PictureInv'
  BY <1>0 DEF PictureInv
<1>4. pending = {}
  BY <1>0, NothingRuns DEF WorkModes
<1> QED BY <1>0, <1>2, <1>3, <1>4, QuietStep DEF WorkModes

LEMMA SourceEndsKeeps ==
    ASSUME PipelineInv, SourceEnds
    PROVE  PipelineInv'
<1>0. at = "loop" /\ at' = "leave" /\ UNCHANGED <<chainVars, pictureVars, faultVars>>
  BY LeavesFacts DEF SourceEnds, WorkModes
<1>1. PictureTyped'
  BY <1>0, PictureIsTyped DEF PictureTyped, faultVars, pictureVars
<1>2. PictureInv'
  BY <1>0 DEF PictureInv, PipelineInv, CardInv, pictureVars
<1>3. pending = {} /\ pending' = {} /\ family' = family
  BY <1>0, NothingRuns DEF WorkModes, pictureVars
<1> QED BY <1>0, <1>1, <1>2, <1>3, QuietStep DEF WorkModes

LEMMA LookKeeps ==
    ASSUME PipelineInv, NEW streams \in SUBSET Streams, Look(streams)
    PROVE  PipelineInv'
<1>0. /\ at = "look" /\ ("half" \in streams => chain \in small) /\ wanted' = streams /\ at' = "convert"
      /\ UNCHANGED <<chainVars, atHand, family, turn, drawn, coded, pending, faultVars>>
  BY DEF Look
<1>1. PictureTyped'
  BY <1>0, PictureIsTyped DEF PictureTyped, faultVars
<1>2. PictureInv'
  BY <1>0 DEF PictureInv, PipelineInv, CardInv, chainVars
<1>3. pending = {}
  BY <1>0, NothingRuns DEF WorkModes
<1> QED BY <1>0, <1>1, <1>2, <1>3, QuietStep DEF WorkModes

LEMMA StreamsAre == Streams = {"full", "half"}
BY DEF Streams

\* The modes of a stream are its own.
LEMMA ModeFacts ==
    ASSUME NEW st \in Streams
    PROVE  /\ Converting(st) <=> at = IF st = "full" THEN "convert" ELSE "half_convert"
           /\ at = Part(st, "wait") <=> at = IF st = "full" THEN "wait" ELSE "half_wait"
           /\ at = Part(st, "encode") <=> at = IF st = "full" THEN "encode" ELSE "half_encode"
           /\ at' = Part(st, "wait") <=> at' = IF st = "full" THEN "wait" ELSE "half_wait"
BY HalfNames, StreamsAre DEF Converting

LEMMA SubmitKeeps ==
    ASSUME PipelineInv, NEW st \in Streams, Submit(st)
    PROVE  PipelineInv'
<1>0. /\ at = (IF st = "full" THEN "convert" ELSE "half_convert") /\ st \in wanted
      /\ pending' = Refs(st) /\ at' = (IF st = "full" THEN "wait" ELSE "half_wait")
      /\ family' = [family EXCEPT ![atHand] = "ours"]
      /\ UNCHANGED <<chainVars, atHand, turn, wanted, drawn, coded, faultVars>>
  BY ModeFacts DEF Submit
<1>1. at \in WorkModes /\ at' \in WorkModes /\ pending = {} /\ atHand \in Slots
      /\ ("half" \in wanted => chain \in small) /\ coded = {}
      /\ drawn = (IF st = "full" THEN {} ELSE ShownOn({"full"}))
  <2>1. at \in {"convert", "half_convert"} /\ CardInv
    BY <1>0 DEF PipelineInv
  <2> QED BY <1>0, <2>1, StreamsAre DEF CardInv, WorkModes
<1>2. /\ Refs(st) \subseteq alive /\ Refs(st) # {}
      /\ \A s \in Slots : (\E o \in Refs(st) : o[2] = "source" /\ o[3] = s) <=> s = atHand
  BY <1>0, <1>1, RefsFacts
<1>3. ModeInv' /\ SizeInv' /\ AliveInv' /\ alive' = alive /\ dropping' = 0
  BY <1>0, <1>1, ChainStays, WorkFacts DEF chainVars
<1>4. PipelineTypeOK'
  <2>1. PictureTyped'
    BY <1>0, <1>1, PictureIsTyped DEF PictureTyped, faultVars
  <2> QED BY <1>0, <1>2, <2>1, TypesStay
<1>5. Reading' = {atHand}
  <2>1. \A s \in Slots : (\E o \in pending' : o[2] = "source" /\ o[3] = s) <=> s = atHand
    BY <1>0, <1>2
  <2> QED BY <1>1, <2>1 DEF Reading
<1>6. \A s \in Slots : family[s] = "foreign" /\ family'[s] = IF s = atHand THEN "ours" ELSE "foreign"
  <2>1. \A s \in Slots : family[s] \in {"foreign", "ours"} /\ family \in [Slots -> {"foreign", "ours"}]
    BY PictureIsTyped DEF PictureTyped
  <2>2. Reading = {}
    BY <1>1 DEF Reading
  <2>3. \A s \in Slots : family[s] = "foreign"
    BY <2>1, <2>2 DEF PipelineInv, CardInv
  <2> QED BY <1>0, <2>1, <2>3
<1>7. GivenBackReadable' /\ UsedIsAlive' /\ \A s \in Slots : family'[s] = "ours" => s \in Reading'
  BY <1>0, <1>2, <1>3, <1>5, <1>6 DEF GivenBackReadable, UsedIsAlive
<1>8. Refs(st)' = Refs(st) /\ ShownOn({"full"})' = ShownOn({"full"}) /\ ShownOn({}) = {} /\ ShownOn({})' = {}
  BY <1>0 DEF Refs, ShownOn, OfField, chainVars
<1>9. CASE st = "full"
  <2>1. RunsOnCard("full", {})'
    BY <1>0, <1>1, <1>2, <1>8, <1>9 DEF RunsOnCard
  <2> QED BY <1>0, <1>1, <1>3, <1>4, <1>7, <1>9, <2>1 DEF PipelineInv, CardInv, chainVars
<1>10. CASE st = "half"
  <2>1. RunsOnCard("half", {"full"})'
    BY <1>0, <1>1, <1>2, <1>8, <1>10 DEF RunsOnCard
  <2> QED BY <1>0, <1>1, <1>3, <1>4, <1>7, <1>10, <2>1 DEF PipelineInv, CardInv, chainVars
<1> QED BY <1>9, <1>10, StreamsAre

LEMMA SkipConvertKeeps ==
    ASSUME PipelineInv, NEW st \in Streams, SkipConvert(st)
    PROVE  PipelineInv'
<1>0. /\ at = (IF st = "full" THEN "convert" ELSE "half_convert") /\ st \notin wanted
      /\ at' = (IF st = "full" THEN "half_convert" ELSE "release")
      /\ UNCHANGED <<chainVars, pictureVars, faultVars>>
  BY ModeFacts DEF SkipConvert, AfterConvert
<1>1. PictureTyped'
  BY <1>0, PictureIsTyped DEF PictureTyped, faultVars, pictureVars
<1>2. pending = {} /\ pending' = {} /\ family' = family /\ at \in WorkModes
  BY <1>0, NothingRuns DEF WorkModes, pictureVars
<1>3. PictureInv'
  <2>1. CardInv /\ st \in {"full", "half"}
    BY StreamsAre DEF PipelineInv
  <2>2. st = "full" => ShownOn({"full"})' = {}
    BY <1>0 DEF ShownOn, pictureVars
  <2>3. st = "half" => ShownOn(Streams)' = ShownOn({"full"})
    BY <1>0, StreamsAre DEF ShownOn, pictureVars
  <2> QED BY <1>0, <2>1, <2>2, <2>3 DEF PictureInv, CardInv, pictureVars, chainVars
<1> QED BY <1>0, <1>1, <1>2, <1>3, QuietStep DEF WorkModes

LEMMA ConvertFailsKeeps ==
    ASSUME PipelineInv, NEW st \in Streams, ConvertFails(st)
    PROVE  PipelineInv'
<1>0. /\ at = (IF st = "full" THEN "convert" ELSE "half_convert") /\ Leaves /\ atHand' = 0
      /\ UNCHANGED <<family, turn, wanted, drawn, coded, chainVars, pending, unwaited>>
      /\ Refused \/ UNCHANGED refusals
  BY ModeFacts DEF ConvertFails, GoesBack
<1>1. at' = "leave" /\ at \in WorkModes
  BY <1>0, LeavesFacts DEF WorkModes
<1>2. PictureTyped'
  <2>1. refusals' \in 0 .. MaxRefusals /\ 0 \in 0 .. SLOTS
    BY <1>0, RefusedFacts, PictureIsTyped, ChainSizes DEF PictureTyped
  <2> QED BY <1>0, <2>1, PictureIsTyped DEF PictureTyped
<1>3. pending = {}
  BY <1>0, NothingRuns DEF WorkModes
<1>4. PictureInv'
  BY <1>0, <1>1 DEF PictureInv, PipelineInv, CardInv
<1> QED BY <1>0, <1>1, <1>2, <1>3, <1>4, QuietStep

LEMMA CardDoneKeeps ==
    ASSUME PipelineInv, CardDone
    PROVE  PipelineInv'
<1>0. /\ pending # {} /\ pending' = {} /\ family' = [s \in Slots |-> IF s \in Reading THEN "foreign" ELSE family[s]]
      /\ drawn' = drawn \union {<<st, turn>> : st \in Drawing}
      /\ UNCHANGED <<at, chainVars, atHand, turn, wanted, coded, faultVars>>
  BY DEF CardDone, AfterWork
<1>1. at \in {"wait", "half_wait", "leave", "gone"} /\ CardInv /\ ModeInv /\ SizeInv /\ AliveInv
  BY <1>0 DEF PipelineInv, CardInv
<1>2. \A s \in Slots : family'[s] = "foreign"
  <2>1. \A s \in Slots : family[s] \in {"foreign", "ours"}
    BY PictureIsTyped DEF PictureTyped
  <2> QED BY <1>0, <1>1, <2>1 DEF CardInv
<1>3. PipelineTypeOK'
  <2>1. PictureTyped'
    <3>1. Drawing \subseteq Streams
      BY DEF Drawing
    <3>2. family' \in [Slots -> {"foreign", "ours"}]
      BY <1>0, <1>2
    <3> QED BY <1>0, <3>1, <3>2, PictureIsTyped DEF PictureTyped, faultVars
  <2> QED BY <1>0, <2>1, TypesStay
<1>4. ModeInv' /\ SizeInv' /\ AliveInv'
  <2>1. ChainOf(chain)' = ChainOf(chain) /\ Standing(chain)' = Standing(chain)
    BY <1>0 DEF ChainOf, Standing, Whole, chainVars
  <2>2. ModeInv' /\ SizeInv'
    BY <1>0, <1>1 DEF ModeInv, SizeInv, chainVars
  <2>3. AliveInv'
    BY <1>0, <1>1, <2>1 DEF AliveInv, NothingLeaks, Working, chainVars
  <2> QED BY <2>2, <2>3
<1>5. GivenBackReadable' /\ UsedIsAlive' /\ \A s \in Slots : family'[s] = "ours" => s \in Reading'
  <2>1. Reading' = {}
    BY <1>0 DEF Reading
  <2> QED BY <1>0, <1>2, <2>1 DEF GivenBackReadable, UsedIsAlive
<1>6. ASSUME NEW st \in Streams, NEW before \in SUBSET Streams, at = (IF st = "full" THEN "wait" ELSE "half_wait"),
             RunsOnCard(st, before)
      PROVE  RunsOnCard(st, before)'
  <2>1. st \in wanted /\ atHand \in Slots /\ pending = Refs(st) /\ drawn = ShownOn(before) /\ at \in WorkModes
    BY <1>0, <1>6 DEF RunsOnCard, WorkModes
  <2>2. st = "half" => chain \in small
    BY <1>1, <1>6, <2>1 DEF CardInv
  <2>3. Drawing = {st}
    <3>1. \A x \in Streams : (\E o \in pending : o[2] = Part(x, "target")) <=> x = st
      BY <2>1, <2>2, RefsFacts
    <3> QED BY <3>1 DEF Drawing
  <2>4. drawn' = ShownOn(before \union {st})'
    BY <1>0, <2>1, <2>3 DEF ShownOn
  <2> QED BY <1>0, <2>1, <2>4 DEF RunsOnCard
<1>7. CardInv'
  <2>1. at = "wait" => RunsOnCard("full", {})'
    BY <1>1, <1>6, StreamsAre DEF CardInv
  <2>2. at = "half_wait" => RunsOnCard("half", {"full"})'
    BY <1>1, <1>6, StreamsAre DEF CardInv
  <2> QED BY <1>0, <1>1, <1>5, <2>1, <2>2 DEF CardInv, chainVars, faultVars
<1> QED BY <1>3, <1>4, <1>7 DEF PipelineInv

LEMMA WaitedKeeps ==
    ASSUME PipelineInv, NEW st \in Streams, Waited(st)
    PROVE  PipelineInv'
<1>0. /\ at = (IF st = "full" THEN "wait" ELSE "half_wait") /\ pending = {}
      /\ at' = (IF st = "full" THEN "half_convert" ELSE "release")
      /\ UNCHANGED <<chainVars, pictureVars, faultVars>>
  BY ModeFacts DEF Waited, AfterConvert
<1>1. PictureTyped'
  BY <1>0, PictureIsTyped DEF PictureTyped, faultVars, pictureVars
<1>2. pending' = {} /\ family' = family
  BY <1>0 DEF pictureVars
<1>3. PictureInv'
  <2>1. CardInv /\ st \in {"full", "half"}
    BY StreamsAre DEF PipelineInv
  <2>2. /\ st = "full" => RunsOnCard("full", {})
        /\ st = "half" => RunsOnCard("half", {"full"})
    BY <1>0, <2>1 DEF CardInv
  <2>3. /\ st = "full" => drawn = ShownOn({"full"})
        /\ st = "half" => drawn = ShownOn(Streams)
    <3>1. {"full"} \union {"half"} = Streams /\ {} \union {"full"} = {"full"}
      BY StreamsAre
    <3> QED BY <1>0, <2>2, <3>1 DEF RunsOnCard
  <2>4. ShownOn({"full"})' = ShownOn({"full"}) /\ ShownOn(Streams)' = ShownOn(Streams)
    BY <1>0 DEF ShownOn, pictureVars, Streams
  <2> QED BY <1>0, <2>1, <2>2, <2>3, <2>4 DEF PictureInv, CardInv, RunsOnCard, pictureVars, chainVars
<1> QED BY <1>0, <1>1, <1>2, <1>3, QuietStep DEF WorkModes

LEMMA WaitFailsKeeps ==
    ASSUME PipelineInv, NEW st \in Streams, WaitFails(st)
    PROVE  PipelineInv'
<1>0. /\ at = (IF st = "full" THEN "wait" ELSE "half_wait") /\ Refused
      /\ unwaited' = unwaited \union {"fence"} /\ Leaves /\ atHand' = 0
      /\ UNCHANGED <<family, turn, wanted, drawn, coded, chainVars, pending>>
  BY ModeFacts DEF WaitFails, GoesBack
<1>1. at' = "leave" /\ at \in WorkModes
  BY <1>0, LeavesFacts DEF WorkModes
<1>2. ModeInv' /\ SizeInv' /\ AliveInv' /\ alive' = alive /\ dropping' = 0
  BY <1>0, <1>1, ChainStays, WorkFacts DEF chainVars
<1>3. PipelineTypeOK'
  <2>1. PictureTyped'
    <3>1. refusals' \in 0 .. MaxRefusals /\ 0 \in 0 .. SLOTS
      BY <1>0, RefusedFacts, ChainSizes
    <3> QED BY <1>0, <3>1, PictureIsTyped DEF PictureTyped
  <2> QED BY <1>0, <2>1, TypesStay
<1>4. CardInv'
  <2>1. CardInv
    BY DEF PipelineInv
  <2>2. GivenBackReadable' /\ UsedIsAlive' /\ \A s \in Slots : family'[s] = "ours" => s \in Reading'
    BY <1>0, <1>2, <2>1 DEF CardInv, GivenBackReadable, UsedIsAlive, Reading
  <2> QED BY <1>0, <1>1, <1>2, <2>1, <2>2 DEF CardInv
<1> QED BY <1>2, <1>3, <1>4 DEF PipelineInv

LEMMA ReleaseKeeps ==
    ASSUME PipelineInv, Release
    PROVE  PipelineInv'
<1>0. /\ at = "release" /\ atHand' = 0 /\ at' = "encode"
      /\ UNCHANGED <<chainVars, family, turn, wanted, drawn, coded, pending, faultVars>>
  BY DEF Release
<1>1. PictureTyped'
  <2>1. 0 \in 0 .. SLOTS
    BY ChainSizes
  <2> QED BY <1>0, <2>1, PictureIsTyped DEF PictureTyped, faultVars
<1>2. pending = {} /\ at \in WorkModes
  BY <1>0, NothingRuns DEF WorkModes
<1>3. PictureInv'
  <2>1. ShownOn(Streams)' = ShownOn(Streams)
    BY <1>0 DEF ShownOn, Streams
  <2> QED BY <1>0, <2>1 DEF PictureInv, PipelineInv, CardInv
<1> QED BY <1>0, <1>1, <1>2, <1>3, QuietStep DEF WorkModes

\* A stream that is wanted is coded once drawn, and one that is not is left.
LEMMA EncodedKeeps ==
    ASSUME PipelineInv, NEW st \in Streams,
           at = (IF st = "full" THEN "encode" ELSE "half_encode"), AfterEncode(st),
           coded' = (IF st \in wanted THEN coded \union {<<st, turn>>} ELSE coded),
           UNCHANGED <<chainVars, atHand, family, wanted, drawn, pending, faultVars>>
    PROVE  PipelineInv'
<1>1. /\ st = "full" => at' = "half_encode" /\ turn' = turn
      /\ st # "full" => at' = "loop" /\ turn' = (turn + 1) % TARGETS
  BY DEF AfterEncode, NextSurface
<1>2. pending = {} /\ at \in WorkModes
  BY NothingRuns DEF WorkModes
<1>3. turn' \in Surfaces
  <2>1. turn \in Surfaces /\ turn \in Nat
    BY <1>2, WorkFacts DEF Surfaces
  <2>2. TARGETS \in Nat \ {0}
    BY ChainSizes
  <2>3. (turn + 1) % TARGETS \in 0 .. TARGETS - 1
    BY <2>1, <2>2
  <2> QED BY <1>1, <2>1, <2>3 DEF Surfaces
<1>4. PictureTyped'
  <2>1. turn \in Surfaces
    BY <1>2, WorkFacts
  <2> QED BY <1>3, <2>1, PictureIsTyped DEF PictureTyped, faultVars
<1>5. CardInv /\ drawn = ShownOn(Streams) /\ st \in {"full", "half"}
  BY StreamsAre DEF PipelineInv, CardInv
<1>6. PictureInv'
  <2>1. CASE st = "full"
    <3>1. coded = {}
      BY <1>5, <2>1 DEF CardInv
    <3>2. coded' = ShownOn({"full"})
      BY <2>1, <3>1 DEF ShownOn
    <3>3. ShownOn({"full"})' = ShownOn({"full"}) /\ ShownOn(Streams)' = ShownOn(Streams)
      BY <1>1, <2>1 DEF ShownOn, Streams
    <3>4. ShownOn({"full"}) \subseteq ShownOn(Streams)
      BY StreamsAre DEF ShownOn
    <3> QED BY <1>1, <1>5, <2>1, <3>2, <3>3, <3>4 DEF PictureInv
  <2>2. CASE st = "half"
    <3>1. coded = ShownOn({"full"})
      BY <1>5, <2>2 DEF CardInv
    <3>2. coded' = ShownOn(Streams)
      BY <2>2, <3>1, StreamsAre DEF ShownOn
    <3> QED BY <1>1, <1>5, <2>2, <3>2 DEF PictureInv
  <2> QED BY <1>5, <2>1, <2>2
<1> QED BY <1>1, <1>2, <1>4, <1>6, QuietStep DEF WorkModes

LEMMA EncodeKeeps ==
    ASSUME PipelineInv, NEW st \in Streams, Encode(st) \/ SkipEncode(st)
    PROVE  PipelineInv'
<1>1. CASE Encode(st)
  BY <1>1, ModeFacts, EncodedKeeps DEF Encode, Encodes
<1>2. CASE SkipEncode(st)
  BY <1>2, ModeFacts, EncodedKeeps DEF SkipEncode, Encodes
<1> QED BY <1>1, <1>2

LEMMA EncodeFailsKeeps ==
    ASSUME PipelineInv, NEW st \in Streams, EncodeFails(st)
    PROVE  PipelineInv'
<1>0. /\ at = (IF st = "full" THEN "encode" ELSE "half_encode") /\ Leaves /\ Refused
      /\ UNCHANGED <<chainVars, pictureVars, unwaited>>
  BY ModeFacts DEF EncodeFails
<1>1. at' = "leave" /\ at \in WorkModes
  BY <1>0, LeavesFacts DEF WorkModes
<1>2. PictureTyped'
  BY <1>0, RefusedFacts, PictureIsTyped DEF PictureTyped, pictureVars
<1>3. pending = {} /\ pending' = {} /\ family' = family
  BY <1>0, NothingRuns DEF WorkModes, pictureVars
<1>4. PictureInv'
  BY <1>0, <1>1 DEF PictureInv, PipelineInv, CardInv, pictureVars
<1> QED BY <1>0, <1>1, <1>2, <1>3, <1>4, QuietStep

LEMMA PipelineBegins == PipelineInit => PipelineInv
<1> SUFFICES ASSUME PipelineInit PROVE PipelineInv
  OBVIOUS
<1>1. PICK s \in RingSizes : sizes = <<s>>
  BY DEF PipelineInit
<1>2. /\ at = "build" /\ chain = 0 /\ making = 1 /\ next = 1
      /\ small = {} /\ alive = {} /\ dropping = 0
      /\ atHand = 0 /\ family = [k \in Slots |-> "foreign"] /\ turn = 0
      /\ wanted = {} /\ drawn = {} /\ coded = {} /\ pending = {}
      /\ unwaited = {} /\ refusals = 0
  BY DEF PipelineInit
<1>3. /\ 1 \in 1 .. MaxRings /\ 0 \in 0 .. SLOTS /\ 0 \in Surfaces /\ 0 \in 0 .. MaxRefusals /\ 0 \in 0 .. Len(Order)
      /\ HalfRefused \in Nat /\ HalfRefused > 2
  <2>1. HalfRefused \in Nat /\ HalfRefused > 2
    BY PartsFacts DEF HalfRefused
  <2>2. 0 \in 0 .. Len(Order)
    BY OrderFacts
  <2>3. 1 \in 1 .. MaxRings /\ 0 \in 0 .. SLOTS /\ 0 \in 0 .. TARGETS - 1 /\ 0 \in 0 .. MaxRefusals
    BY ChainSizes
  <2> QED BY <2>1, <2>2, <2>3 DEF Surfaces
<1>4. sizes \in Seq(RingSizes) /\ Len(sizes) = 1
  BY <1>1
<1>5. PipelineTypeOK
  <2>1. 1 \in 1 .. HalfRefused /\ family \in [Slots -> {"foreign", "ours"}]
    BY <1>2, <1>3
  <2> QED BY <1>2, <1>3, <1>4, <2>1 DEF PipelineTypeOK
<1>6. ModeInv
  <2>1. 1 \in 1 .. HalfRefused
    BY <1>3
  <2> QED BY <1>2, <1>3, <2>1 DEF ModeInv, Modes
<1>7. SizeInv
  <2>1. ~InHalf(next - 1)
    BY <1>2, PartsFacts DEF InHalf
  <2> QED BY <1>2, <1>4, <2>1 DEF SizeInv
<1>8. AliveInv
  <2>1. SoFar = {}
    BY <1>2, <1>3, SoFarFacts
  <2> QED BY <1>2, <2>1 DEF AliveInv, Objects, NothingLeaks, Working
<1>9. CardInv
  BY <1>2 DEF CardInv, GivenBackReadable, UsedIsAlive, Reading
<1> QED BY <1>5, <1>6, <1>7, <1>8, <1>9 DEF PipelineInv

LEMMA PipelineStep ==
    ASSUME PipelineInv, [PipelineNext]_pipelineVars
    PROVE  PipelineInv'
<1>1. CASE UNCHANGED pipelineVars
  <2>1. UNCHANGED <<at, sizes, chain, making, next, small, alive, dropping>>
        /\ UNCHANGED <<atHand, family, turn, wanted, drawn, coded, pending, unwaited, refusals>>
    BY <1>1 DEF pipelineVars, chainVars, pictureVars, faultVars
  <2>2. PipelineTypeOK' /\ ModeInv' /\ SizeInv'
    BY <2>1 DEF PipelineInv, PipelineTypeOK, ModeInv, SizeInv
  <2>3. AliveInv'
    BY <2>1 DEF PipelineInv, AliveInv, Objects, SoFar, Standing, ChainOf, Whole, NothingLeaks, Working
  <2>4. CardInv'
    BY <2>1 DEF PipelineInv, CardInv, RunsOnCard, Refs, ShownOn, GivenBackReadable, UsedIsAlive, Reading, OfField
  <2> QED BY <2>2, <2>3, <2>4 DEF PipelineInv
<1>2. ASSUME NEW st \in Streams, \/ Submit(st) \/ SkipConvert(st) \/ ConvertFails(st)
                                 \/ Waited(st) \/ WaitFails(st)
                                 \/ Encode(st) \/ SkipEncode(st) \/ EncodeFails(st)
      PROVE  PipelineInv'
  BY <1>2, SubmitKeeps, SkipConvertKeeps, ConvertFailsKeeps, WaitedKeeps, WaitFailsKeeps, EncodeKeeps,
     EncodeFailsKeeps
<1>3. ASSUME NEW s \in Slots, Take(s) PROVE PipelineInv'
  BY <1>3, TakeKeeps
<1>4. ASSUME NEW s \in RingSizes, RingChanged(s) PROVE PipelineInv'
  BY <1>4, RingChangedKeeps
<1>5. ASSUME NEW streams \in SUBSET Streams, Look(streams) PROVE PipelineInv'
  BY <1>5, LookKeeps
<1>6. CASE Make \/ MakeFails \/ NotOfASize \/ Built \/ DropField \/ ChainDropped \/ SourceEnds \/ CardDone \/ Release
  BY <1>6, MakeKeeps, MakeFailsKeeps, NotOfASizeKeeps, BuiltKeeps, DropFieldKeeps, ChainDroppedKeeps,
     SourceEndsKeeps, CardDoneKeeps, ReleaseKeeps
<1> QED BY <1>1, <1>2, <1>3, <1>4, <1>5, <1>6 DEF PipelineNext

\* The groups of a dispatch cover what they are for.
LEMMA GroupsCover ==
    ASSUME NEW n \in Nat
    PROVE  Groups(n) \in Nat /\ Groups(n) * GROUP \in Nat /\ n <= Groups(n) * GROUP
<1> DEFINE q == (n + GROUP - 1) \div GROUP
           m == n + GROUP - 1
<1>1. GROUP \in Nat \ {0} /\ m \in Nat
  BY ChainSizes
<1>2. m = GROUP * (m \div GROUP) + (m % GROUP) /\ m % GROUP \in 0 .. GROUP - 1 /\ m \div GROUP \in Nat
  <2> HIDE DEF m
  <2>1. m % GROUP \in 0 .. GROUP - 1
    BY <1>1
  <2>2. m = GROUP * (m \div GROUP) + (m % GROUP)
    BY <1>1
  <2>3. m \div GROUP \in Nat
    BY <1>1
  <2> QED BY <2>1, <2>2, <2>3
<1>3. q * GROUP \in Nat /\ GROUP * q = q * GROUP
  BY <1>1, <1>2
<1>4. q \in Nat /\ m = GROUP * q + (m % GROUP)
  BY <1>2
<1> HIDE DEF q
<1>5. n <= q * GROUP
  <2> DEFINE t == q * GROUP
             r == m % GROUP
  <2>1. t \in Nat /\ m = t + r /\ r \in 0 .. GROUP - 1
    BY <1>2, <1>3, <1>4
  <2> HIDE DEF t, r
  <2>2. n + GROUP - 1 = t + r
    BY <2>1
  <2>3. n <= t
    BY <1>1, <2>1, <2>2
  <2> QED BY <2>3 DEF t
<1>6. Groups(n) = q
  BY DEF Groups, q
<1> QED BY <1>3, <1>4, <1>5, <1>6

\* The sizes that are converted are made of whole blocks.
LEMMA SizesHalve ==
    ASSUME PipelineInv, Working, NEW st \in Streams, st = "half" => chain \in small
    PROVE  \E w, h \in Nat : /\ sizes[chain] = <<2 * (w * Scale(st)), 2 * (h * Scale(st))>>
                             /\ TargetSize(st) = <<2 * w, 2 * h>>
                             /\ half_size(TargetSize(st)) = <<w, h>>
<1>1. /\ chain \in 1 .. Len(sizes) /\ sizes \in Seq(RingSizes) /\ Opens(sizes[chain])
      /\ \A c \in small : Halves(sizes[c])
  <2>1. chain = making /\ making \in 1 .. MaxRings
    BY DEF Working, PipelineInv, ModeInv, Modes
  <2> QED BY <2>1, ChainSizes DEF PipelineInv, SizeInv, Working
<1>2. sizes[chain] \in Nat \X Nat
  BY <1>1, ChainSizes
<1>3. PICK a \in Nat, b \in Nat : sizes[chain] = <<a, b>>
  BY <1>2
<1>4. a % 2 = 0 /\ b % 2 = 0 /\ (st = "half" => a % 4 = 0 /\ b % 4 = 0)
  BY <1>1, <1>3 DEF Opens, Halves
<1>5. CASE st = "full"
  <2>1. a = 2 * (a \div 2) /\ b = 2 * (b \div 2) /\ a \div 2 \in Nat /\ b \div 2 \in Nat
    BY <1>3, <1>4
  <2>2. TargetSize(st) = <<a, b>> /\ Scale(st) = 1
    BY <1>3, <1>5 DEF TargetSize, Scale
  <2>3. half_size(TargetSize(st)) = <<a \div 2, b \div 2>>
    BY <2>2 DEF half_size
  <2>4. (a \div 2) * 1 = a \div 2 /\ (b \div 2) * 1 = b \div 2
    BY <2>1
  <2> QED BY <1>3, <2>1, <2>2, <2>3, <2>4
<1>6. CASE st = "half"
  <2> DEFINE w == a \div 4
             h == b \div 4
  <2>1. a = 4 * w /\ b = 4 * h /\ w \in Nat /\ h \in Nat
    BY <1>3, <1>4, <1>6
  <2> HIDE DEF w, h
  <2>2. a \div 2 = 2 * w /\ b \div 2 = 2 * h /\ (2 * w) \div 2 = w /\ (2 * h) \div 2 = h
    BY <2>1
  <2>3. TargetSize(st) = <<2 * w, 2 * h>> /\ Scale(st) = 2
    BY <1>3, <1>6, <2>2 DEF TargetSize, Scale, half_size
  <2>4. half_size(TargetSize(st)) = <<w, h>>
    BY <2>2, <2>3 DEF half_size
  <2>5. a = 2 * (w * 2) /\ b = 2 * (h * 2)
    BY <2>1
  <2> QED BY <1>3, <2>1, <2>3, <2>4, <2>5
<1> QED BY <1>5, <1>6, StreamsAre

\* Every number below n * k is k times one below n and what remains below k.
LEMMA LineIsTiled ==
    ASSUME NEW n \in Nat, NEW k \in {1, 2}
    PROVE  \A x : x \in 0 .. n * k - 1 <=> \E a \in 0 .. n - 1, d \in 0 .. k - 1 : x = k * a + d
<1>1. CASE k = 1
  <2>1. ASSUME NEW x \in 0 .. n * k - 1 PROVE \E a \in 0 .. n - 1, d \in 0 .. k - 1 : x = k * a + d
    <3>1. x \in 0 .. n - 1 /\ 0 \in 0 .. k - 1 /\ x = k * x + 0
      BY <1>1
    <3> QED BY <3>1
  <2>2. ASSUME NEW a \in 0 .. n - 1, NEW d \in 0 .. k - 1 PROVE k * a + d \in 0 .. n * k - 1
    BY <1>1
  <2> QED BY <2>1, <2>2
<1>2. CASE k = 2
  <2>1. ASSUME NEW x \in 0 .. n * k - 1 PROVE \E a \in 0 .. n - 1, d \in 0 .. k - 1 : x = k * a + d
    <3>1. x \div 2 \in 0 .. n - 1 /\ x % 2 \in 0 .. k - 1 /\ x = k * (x \div 2) + (x % 2)
      BY <1>2
    <3> QED BY <3>1
  <2>2. ASSUME NEW a \in 0 .. n - 1, NEW d \in 0 .. k - 1 PROVE k * a + d \in 0 .. n * k - 1
    BY <1>2
  <2> QED BY <2>1, <2>2
<1> QED BY <1>1, <1>2

\* A rectangle is made of the k by k blocks of a smaller one.
LEMMA SquareIsTiled ==
    ASSUME NEW n \in Nat, NEW m \in Nat, NEW k \in {1, 2}
    PROVE  UNION {{<<k * p[1] + d[1], k * p[2] + d[2]>> : d \in Square(k, k)} : p \in Square(n, m)}
             = Square(n * k, m * k)
<1> DEFINE Tile(p) == {<<k * p[1] + d[1], k * p[2] + d[2]>> : d \in Square(k, k)}
           N == 0 .. n * k - 1
           M == 0 .. m * k - 1
<1>1. ASSUME NEW q \in UNION {Tile(p) : p \in Square(n, m)} PROVE q \in Square(n * k, m * k)
  <2>1. PICK p \in Square(n, m) : q \in Tile(p)
    BY <1>1
  <2>2. PICK d \in Square(k, k) : q = <<k * p[1] + d[1], k * p[2] + d[2]>>
    BY <2>1
  <2>3. p[1] \in 0 .. n - 1 /\ p[2] \in 0 .. m - 1 /\ d[1] \in 0 .. k - 1 /\ d[2] \in 0 .. k - 1
    BY DEF Square
  <2>4. k * p[1] + d[1] \in N
    BY <2>3, LineIsTiled
  <2>5. k * p[2] + d[2] \in M
    BY <2>3, LineIsTiled
  <2> HIDE DEF N, M
  <2>6. q \in N \X M
    BY <2>2, <2>4, <2>5
  <2> QED BY <2>6 DEF Square, N, M
<1>2. ASSUME NEW q \in Square(n * k, m * k) PROVE q \in UNION {Tile(p) : p \in Square(n, m)}
  <2>1. PICK x \in N, y \in M : q = <<x, y>>
    BY <1>2 DEF Square
  <2>2. PICK a \in 0 .. n - 1, c \in 0 .. k - 1 : x = k * a + c
    <3>1. \A z : z \in 0 .. n * k - 1 <=> \E r \in 0 .. n - 1, d \in 0 .. k - 1 : z = k * r + d
      BY LineIsTiled
    <3>2. x \in 0 .. n * k - 1
      OBVIOUS
    <3> QED BY <3>1, <3>2, Zenon
  <2>3. PICK b \in 0 .. m - 1, e \in 0 .. k - 1 : y = k * b + e
    <3>1. \A z : z \in 0 .. m * k - 1 <=> \E r \in 0 .. m - 1, d \in 0 .. k - 1 : z = k * r + d
      BY LineIsTiled
    <3>2. y \in 0 .. m * k - 1
      OBVIOUS
    <3> QED BY <3>1, <3>2, Zenon
  <2>4. <<a, b>> \in Square(n, m) /\ <<c, e>> \in Square(k, k)
    BY DEF Square
  <2>5. q = <<k * <<a, b>>[1] + <<c, e>>[1], k * <<a, b>>[2] + <<c, e>>[2]>>
    BY <2>1, <2>2, <2>3
  <2>6. q \in Tile(<<a, b>>)
    BY <2>4, <2>5
  <2> QED BY <2>4, <2>6
<1> QED BY <1>1, <1>2

LEMMA ChainIsFit == PipelineInv => FitsItsChain /\ WholePicture
<1> SUFFICES ASSUME PipelineInv, Working,
                    NEW st \in {"full"} \union (IF chain \in small THEN {"half"} ELSE {})
             PROVE  LET luma == UNION {LumaOf(c) : c \in Invocations(st)}
                        read == UNION {ReadFor(st, p) : p \in luma}
                    IN /\ Fits(st) /\ luma = Square(TargetSize(st)[1], TargetSize(st)[2])
                       /\ read = Square(sizes[chain][1], sizes[chain][2])
  BY DEF FitsItsChain, WholePicture
<1>1. st \in Streams /\ (st = "half" => chain \in small)
  BY StreamsAre
<1>2. PICK w \in Nat, h \in Nat : /\ sizes[chain] = <<2 * (w * Scale(st)), 2 * (h * Scale(st))>>
                                  /\ TargetSize(st) = <<2 * w, 2 * h>>
                                  /\ half_size(TargetSize(st)) = <<w, h>>
  BY <1>1, SizesHalve
<1>3. Scale(st) \in {1, 2} /\ Scale(st) \in Nat
  BY DEF Scale
<1> DEFINE k == Scale(st)
<1> HIDE DEF k
<1>4. Fits(st)
  <2>1. sizes[chain] = [i \in 1..2 |-> TargetSize(st)[i] * k]
    <3> DEFINE W == 2 * (w * k)
               H == 2 * (h * k)
    <3>1. (2 * w) * k = W /\ (2 * h) * k = H
      BY <1>3 DEF k
    <3>2. sizes[chain] = <<W, H>>
      BY <1>2 DEF k
    <3> HIDE DEF W, H
    <3>3. \A i \in 1..2 : TargetSize(st)[i] * k = <<W, H>>[i]
      BY <1>2, <3>1
    <3>4. <<W, H>> = [i \in 1..2 |-> <<W, H>>[i]]
      OBVIOUS
    <3> QED BY <3>2, <3>3, <3>4
  <2> QED BY <2>1 DEF Fits, SourceSize, k
<1>5. Invocations(st) = Square(w, h)
  <2> DEFINE X == Groups(w) * GROUP
             Y == Groups(h) * GROUP
  <2>1. Invocations(st) = {c \in Square(X, Y) : c[1] < w /\ c[2] < h}
    BY <1>2 DEF Invocations
  <2>2. X \in Nat /\ Y \in Nat /\ w <= X /\ h <= Y
    BY GroupsCover
  <2> HIDE DEF X, Y
  <2>3. 0 .. w - 1 = {x \in 0 .. X - 1 : x < w} /\ 0 .. h - 1 = {y \in 0 .. Y - 1 : y < h}
    BY <2>2
  <2>4. \A c : c \in Square(w, h) <=> c \in Square(X, Y) /\ c[1] < w /\ c[2] < h
    BY <2>3 DEF Square
  <2> QED BY <2>1, <2>4
<1>6. UNION {LumaOf(c) : c \in Square(w, h)} = Square(2 * w, 2 * h)
  <2>1. UNION {LumaOf(c) : c \in Square(w, h)} = Square(w * 2, h * 2)
    BY SquareIsTiled DEF LumaOf
  <2>2. w * 2 = 2 * w /\ h * 2 = 2 * h
    OBVIOUS
  <2> QED BY <2>1, <2>2
<1>7. UNION {ReadFor(st, p) : p \in Square(2 * w, 2 * h)} = Square(2 * (w * k), 2 * (h * k))
  <2>1. 2 * w \in Nat /\ 2 * h \in Nat /\ k \in {1, 2}
    BY <1>3 DEF k
  <2>2. \A p : ReadFor(st, p) = {<<k * p[1] + d[1], k * p[2] + d[2]>> : d \in Square(k, k)}
    BY DEF ReadFor, k
  <2>3. UNION {ReadFor(st, p) : p \in Square(2 * w, 2 * h)} = Square((2 * w) * k, (2 * h) * k)
    <3> DEFINE A == 2 * w
               B == 2 * h
    <3>1. A \in Nat /\ B \in Nat
      OBVIOUS
    <3> HIDE DEF A, B
    <3>2. UNION {ReadFor(st, p) : p \in Square(A, B)} = Square(A * k, B * k)
      <4>1. UNION {{<<k * p[1] + d[1], k * p[2] + d[2]>> : d \in Square(k, k)} : p \in Square(A, B)}
              = Square(A * k, B * k)
        BY <2>1, <3>1, SquareIsTiled
      <4> QED BY <2>2, <4>1
    <3> QED BY <3>2 DEF A, B
  <2>4. (2 * w) * k = 2 * (w * k) /\ (2 * h) * k = 2 * (h * k)
    BY <2>1
  <2> QED BY <2>3, <2>4
<1> QED BY <1>2, <1>4, <1>5, <1>6, <1>7 DEF k

LEMMA PipelineInvGives ==
    PipelineInv => /\ PipelineTypeOK /\ NothingLeaks /\ UsedIsAlive /\ GivenBackReadable
                   /\ EncodesThisPicture /\ FitsItsChain /\ WholePicture
<1> SUFFICES ASSUME PipelineInv
             PROVE  /\ PipelineTypeOK /\ NothingLeaks /\ UsedIsAlive /\ GivenBackReadable
                    /\ EncodesThisPicture /\ FitsItsChain /\ WholePicture
  OBVIOUS
<1>1. PipelineTypeOK /\ NothingLeaks
  BY DEF PipelineInv, AliveInv
<1>2. UsedIsAlive /\ GivenBackReadable /\ coded \subseteq drawn /\ (at = "loop" => coded = drawn)
  BY DEF PipelineInv, CardInv
<1> QED BY <1>1, <1>2, ChainIsFit DEF EncodesThisPicture

\* Wherever the driver refuses, nothing leaks, nothing in use is destroyed, and
\* what is encoded is the whole of this picture, for any sizes, pools, changes of
\* size and refusals (Pipeline, HalfStream, vulkan, rgba_to_nv12.comp).
THEOREM PipelineAlwaysSound ==
    PipelineSpec => [](/\ PipelineTypeOK /\ NothingLeaks /\ UsedIsAlive /\ GivenBackReadable
                       /\ EncodesThisPicture /\ FitsItsChain /\ WholePicture)
<1>1. PipelineInv /\ [PipelineNext]_pipelineVars => PipelineInv'
  BY PipelineStep
<1> QED BY <1>1, PipelineBegins, PipelineInvGives, PTL DEF PipelineSpec


-----------------------------------------------------------------------------
(***************************************************************************)
(* The pipe to the emulator (emulator/pipe.rs).                            *)
(*                                                                         *)
(* Its mapping to PadLevel is a recursion over the batches on their way,   *)
(* and no prover here does induction over data.  None is needed: that the  *)
(* recursion has one solution, that it is made of whole states and that it *)
(* ends at `last` is kept by every step (PipeInv), since a batch is only   *)
(* ever added at one end and taken at the other.                           *)
(***************************************************************************)

USE DEF pipeVars

\* f gives the states an emulator that holds `origin` goes through with these
\* batches, the one it starts from at 0.
Runs(f, origin, batches) ==
    f = [i \in 0..Len(batches) |-> IF i = 0 THEN origin ELSE Applied(f[i - 1], batches[i])]

\* They are whole states, and the batches leave no choice.
Leads(f, origin, batches) ==
    /\ f \in [0..Len(batches) -> PadStates]
    /\ Runs(f, origin, batches) /\ \A g : Runs(g, origin, batches) => g = f

\* What the batches of a port say together: they end at the record of the last
\* state written, when there is one, and at the last state sent when it was not
\* dropped.
PortInv(p) ==
    \E f : /\ Leads(f, pad[p], pipe[p])
           /\ last[p] # Unsent => f[Len(pipe[p])] = last[p]
           /\ given[p] # Unsent /\ p \notin owed => f[Len(pipe[p])] = given[p]

PipeInv == PipeTypeOK /\ \A p \in Served : PortInv(p)

-----------------------------------------------------------------------------
(* The wire: what a batch makes of a state. *)

LEMMA AppliedType ==
    ASSUME NEW s \in PadStates, NEW b \in Batches
    PROVE  Applied(s, b) \in PadStates
BY DEF Applied, Batches, PadStates

\* A difference makes the second state of the first one.
LEMMA AppliedDelta ==
    ASSUME NEW s \in PadStates, NEW t \in PadStates
    PROVE  Applied(s, encode_delta(s, t)) = t
BY DEF Applied, encode_delta, PadStates

\* A full state makes it of any.
LEMMA AppliedFull ==
    ASSUME NEW s \in PadStates, NEW t \in PadStates
    PROVE  Applied(s, encode_full(t)) = t
BY DEF Applied, encode_full, PadStates

LEMMA BatchType ==
    ASSUME PipeTypeOK, NEW p \in Served, NEW s \in PadStates
    PROVE  Batch(p, s) \in Batches
<1>1. encode_full(s) \in Batches
  BY DEF encode_full, Batches, PadStates
<1>2. ASSUME NEW t \in PadStates PROVE encode_delta(t, s) \in Batches
  <2> DEFINE C == {c \in Controls : t[c] # s[c]}
  <2>1. C \in SUBSET Controls /\ encode_delta(t, s) \in [C -> Values]
    BY <1>2 DEF encode_delta, PadStates
  <2> QED BY <2>1 DEF Batches
<1> QED BY <1>1, <1>2 DEF Batch, PipeTypeOK

-----------------------------------------------------------------------------
(* The course of a string of batches, when it grows and when it is read. *)

LEMMA CarriesNothing ==
    ASSUME NEW origin \in PadStates
    PROVE  Leads([i \in 0..0 |-> origin], origin, <<>>)
<1> DEFINE f == [i \in 0..0 |-> origin]
<1>1. Len(<<>>) = 0
  OBVIOUS
<1>2. f \in [0..Len(<<>>) -> PadStates]
  BY <1>1
<1>3. ASSUME NEW g PROVE Runs(g, origin, <<>>) <=> g = f
  BY <1>1 DEF Runs
<1> HIDE DEF f
<1> QED BY <1>2, <1>3 DEF Leads

LEMMA CarriesAppend ==
    ASSUME NEW origin \in PadStates, NEW q \in Seq(Batches), NEW b \in Batches,
           NEW f, Leads(f, origin, q)
    PROVE  Leads([i \in 0..(Len(q) + 1) |-> IF i <= Len(q) THEN f[i] ELSE Applied(f[Len(q)], b)],
                   origin, Append(q, b))
<1> DEFINE n == Len(q)
           h == [i \in 0..(n + 1) |-> IF i <= n THEN f[i] ELSE Applied(f[n], b)]
<1>1. n \in Nat /\ Len(Append(q, b)) = n + 1 /\ Append(q, b)[n + 1] = b
      /\ \A i \in 1..n : Append(q, b)[i] = q[i]
  OBVIOUS
<1>2. f \in [0..n -> PadStates] /\ Runs(f, origin, q) /\ \A g : Runs(g, origin, q) => g = f
  BY DEF Leads
<1>3. f[0] = origin /\ \A i \in 1..n : f[i] = Applied(f[i - 1], q[i])
  BY <1>1, <1>2 DEF Runs
<1> HIDE DEF n
<1>4. h \in [0..(n + 1) -> PadStates]
  BY <1>1, <1>2, AppliedType
<1>5. Runs(h, origin, Append(q, b))
  <2>1. ASSUME NEW i \in 0..(n + 1)
        PROVE  h[i] = IF i = 0 THEN origin ELSE Applied(h[i - 1], Append(q, b)[i])
    BY <1>1, <1>3
  <2> QED BY <2>1, <1>1 DEF Runs
<1>6. ASSUME NEW g, Runs(g, origin, Append(q, b)) PROVE g = h
  <2> DEFINE e == [i \in 0..n |-> g[i]]
  <2>1. g = [i \in 0..(n + 1) |-> IF i = 0 THEN origin ELSE Applied(g[i - 1], Append(q, b)[i])]
    BY <1>6, <1>1 DEF Runs
  <2>2. e = [i \in 0..n |-> IF i = 0 THEN origin ELSE Applied(e[i - 1], q[i])]
    BY <2>1, <1>1
  <2>3. e = f
    BY <2>2, <1>2 DEF Runs, n
  <2>4. ASSUME NEW i \in 0..(n + 1) PROVE g[i] = h[i]
    <3>1. CASE i <= n
      BY <3>1, <2>3, <1>1
    <3>2. CASE i = n + 1
      <4>1. g[n + 1] = Applied(g[n], b)
        BY <2>1, <1>1
      <4>2. g[n] = f[n]
        BY <2>3, <1>1
      <4> QED BY <4>1, <4>2, <3>2, <1>1
    <3> QED BY <3>1, <3>2, <1>1
  <2> QED BY <2>1, <2>4
<1> HIDE DEF h
<1>7. Leads(h, origin, Append(q, b))
  BY <1>4, <1>5, <1>6, <1>1 DEF Leads
<1> QED BY <1>7 DEF h, n

LEMMA CarriesTail ==
    ASSUME NEW origin \in PadStates, NEW q \in Seq(Batches), q # <<>>, NEW f, Leads(f, origin, q)
    PROVE  /\ f[1] = Applied(origin, Head(q))
           /\ Leads([i \in 0..(Len(q) - 1) |-> f[i + 1]], Applied(origin, Head(q)), Tail(q))
<1> DEFINE n == Len(q) - 1
           h == [i \in 0..n |-> f[i + 1]]
           onward == Applied(origin, Head(q))
<1>1. n \in Nat /\ Len(q) = n + 1 /\ Len(Tail(q)) = n /\ Head(q) = q[1]
      /\ \A i \in 1..n : Tail(q)[i] = q[i + 1]
  OBVIOUS
<1>2. f \in [0..(n + 1) -> PadStates] /\ Runs(f, origin, q) /\ \A g : Runs(g, origin, q) => g = f
  BY <1>1 DEF Leads
<1>3. f[0] = origin /\ \A i \in 1..(n + 1) : f[i] = Applied(f[i - 1], q[i])
  BY <1>1, <1>2 DEF Runs
<1> HIDE DEF n
<1>4. f[1] = onward
  BY <1>1, <1>3
<1>5. h \in [0..n -> PadStates]
  BY <1>1, <1>2
<1>6. Runs(h, onward, Tail(q))
  <2>1. ASSUME NEW i \in 0..n
        PROVE  h[i] = IF i = 0 THEN onward ELSE Applied(h[i - 1], Tail(q)[i])
    BY <1>1, <1>3, <1>4
  <2> QED BY <2>1, <1>1 DEF Runs
<1>7. ASSUME NEW g, Runs(g, onward, Tail(q)) PROVE g = h
  <2> DEFINE e == [i \in 0..(n + 1) |-> IF i = 0 THEN origin ELSE g[i - 1]]
  <2>1. g = [i \in 0..n |-> IF i = 0 THEN onward ELSE Applied(g[i - 1], Tail(q)[i])]
    BY <1>7, <1>1 DEF Runs
  <2>2. e = [i \in 0..(n + 1) |-> IF i = 0 THEN origin ELSE Applied(e[i - 1], q[i])]
    <3>1. ASSUME NEW i \in 0..(n + 1)
          PROVE  e[i] = IF i = 0 THEN origin ELSE Applied(e[i - 1], q[i])
      <4>1. CASE i = 0 BY <4>1
      <4>2. CASE i = 1 BY <4>2, <2>1, <1>1
      <4>3. CASE i > 1 BY <4>3, <2>1, <1>1
      <4> QED BY <4>1, <4>2, <4>3
    <3> QED BY <3>1
  <2>3. e = f
    BY <2>2, <1>1, <1>2 DEF Runs
  <2>4. ASSUME NEW i \in 0..n PROVE g[i] = h[i]
    BY <2>3, <1>1
  <2> QED BY <2>1, <2>4
<1> HIDE DEF h, onward
<1>8. Leads(h, onward, Tail(q))
  BY <1>5, <1>6, <1>7, <1>1 DEF Leads
<1> QED BY <1>4, <1>8 DEF h, n, onward

-----------------------------------------------------------------------------
(* The invariant, one operation after the other. *)

LEMMA InitInv == PipeInit => PipeInv
<1> SUFFICES ASSUME PipeInit PROVE PipeInv
  OBVIOUS
<1>1. PipeTypeOK
  BY PipeAssumption DEF PipeInit, PipeTypeOK
<1>2. ASSUME NEW p \in Served PROVE PortInv(p)
  <2>1. pipe[p] = <<>> /\ last[p] = Unsent /\ given[p] = Unsent /\ pad[p] \in PadStates
    BY DEF PipeInit
  <2>2. Leads([i \in 0..0 |-> pad[p]], pad[p], pipe[p])
    BY <2>1, CarriesNothing
  <2> QED BY <2>1, <2>2 DEF PortInv
<1> QED BY <1>1, <1>2 DEF PipeInv

\* A port whose pipe, record and debts are left alone keeps its invariant.
LEMMA PortKept ==
    ASSUME NEW p \in Served, PortInv(p), pipe'[p] = pipe[p], pad'[p] = pad[p],
           last'[p] \in {last[p], Unsent}, given'[p] = given[p], p \in owed' <=> p \in owed
    PROVE  PortInv(p)'
BY Zenon DEF PortInv

LEMMA StutterInv == ASSUME PipeInv, UNCHANGED pipeVars PROVE PipeInv'
<1>1. PipeTypeOK'
  BY DEF PipeInv, PipeTypeOK
<1>2. ASSUME NEW p \in Served PROVE PortInv(p)'
  BY PortKept DEF PipeInv
<1> QED BY <1>1, <1>2 DEF PipeInv

LEMMA SendTypes ==
    ASSUME PipeTypeOK, NEW p \in Served, NEW s \in PadStates, given' = [given EXCEPT ![p] = s],
           Coalesced(p, s) \/ Written(p, s) \/ Dropped(p, s), UNCHANGED pad
    PROVE  PipeTypeOK'
<1>1. CASE Coalesced(p, s)
  BY <1>1 DEF PipeTypeOK, Coalesced
<1>2. CASE Dropped(p, s)
  BY <1>2 DEF PipeTypeOK, Dropped
<1>3. CASE Written(p, s)
  <2>1. Batch(p, s) \in Batches
    BY BatchType
  <2>2. pipe' \in [Served -> Seq(Batches)] /\ \A r \in Served : Len(pipe'[r]) <= Room
    BY <2>1, <1>3, PipeAssumption DEF PipeTypeOK, Written
  <2> QED BY <2>2, <1>3 DEF PipeTypeOK, Written
<1> QED BY <1>1, <1>2, <1>3

\* A batch that is written makes of the end of the course the state it is for.
LEMMA WrittenCarries ==
    ASSUME PipeTypeOK, NEW p \in Served, NEW s \in PadStates, Written(p, s), UNCHANGED pad,
           PortInv(p)
    PROVE  \E f, h : /\ Leads(f, pad[p], pipe[p]) /\ Leads(h, pad'[p], pipe'[p])
                     /\ pipe'[p] = Append(pipe[p], Batch(p, s))
                     /\ h = [i \in 0..(Len(pipe[p]) + 1) |-> IF i <= Len(pipe[p]) THEN f[i] ELSE s]
<1>1. PICK f : Leads(f, pad[p], pipe[p]) /\ (last[p] # Unsent => f[Len(pipe[p])] = last[p])
  BY DEF PortInv
<1> DEFINE n == Len(pipe[p])
           b == Batch(p, s)
<1>2. pad[p] \in PadStates /\ pipe[p] \in Seq(Batches) /\ b \in Batches /\ n \in Nat
      /\ last[p] \in PadStates \union {Unsent}
  BY BatchType DEF PipeTypeOK
<1>3. f[n] \in PadStates
  BY <1>1, <1>2 DEF Leads
<1>4. Applied(f[n], b) = s
  <2>1. CASE last[p] = Unsent
    BY <2>1, <1>3, AppliedFull DEF Batch
  <2>2. CASE last[p] # Unsent
    BY <2>2, <1>1, <1>2, AppliedDelta DEF Batch
  <2> QED BY <2>1, <2>2
<1>5. pipe'[p] = Append(pipe[p], b) /\ pad'[p] = pad[p]
  BY DEF PipeTypeOK, Written
<1>6. Leads([i \in 0..(n + 1) |-> IF i <= n THEN f[i] ELSE Applied(f[n], b)], pad[p],
              Append(pipe[p], b))
  BY <1>1, <1>2, CarriesAppend
<1> QED BY <1>1, <1>4, <1>5, <1>6

LEMMA SendInv ==
    ASSUME PipeInv, NEW p \in Ports, NEW s \in PadStates, Send(p, s)
    PROVE  PipeInv'
<1>1. CASE p \notin Served
  <2>1. UNCHANGED pipeVars
    BY <1>1 DEF Send, UnknownSlot
  <2> QED BY <2>1, StutterInv
<1>2. CASE p \in Served
  <2>1. /\ given' = [given EXCEPT ![p] = s] /\ UNCHANGED pad
        /\ Coalesced(p, s) \/ Written(p, s) \/ Dropped(p, s)
    BY <1>2 DEF Send, UnknownSlot
  <2>2. PipeTypeOK'
    BY <2>1, <1>2, SendTypes DEF PipeInv
  <2>3. ASSUME NEW r \in Served, r # p PROVE PortInv(r)'
    <3>1. pipe'[r] = pipe[r] /\ last'[r] = last[r] /\ given'[r] = given[r]
          /\ (r \in owed' <=> r \in owed) /\ pad'[r] = pad[r]
      BY <2>1, <2>3, <1>2 DEF PipeInv, PipeTypeOK, Coalesced, Written, Dropped
    <3> QED BY <3>1, PortKept DEF PipeInv
  <2>4. PortInv(p)'
    <3>1. given'[p] = s /\ s # Unsent /\ pad'[p] = pad[p]
      BY <2>1, <1>2, PipeAssumption DEF PipeInv, PipeTypeOK, PadStates
    <3>2. CASE Coalesced(p, s)
      <4>1. last[p] = s /\ pipe'[p] = pipe[p] /\ last'[p] = s
        BY <3>2 DEF Coalesced
      <4> QED BY <4>1, <3>1, <1>2 DEF PipeInv, PortInv
    <3>3. CASE Dropped(p, s)
      <4>1. p \in owed' /\ pipe'[p] = pipe[p] /\ last'[p] = last[p]
        BY <3>3 DEF Dropped
      <4> QED BY <4>1, <3>1, <1>2 DEF PipeInv, PortInv
    <3>4. CASE Written(p, s)
      <4>1. PICK f, h : /\ Leads(h, pad'[p], pipe'[p])
                        /\ pipe'[p] = Append(pipe[p], Batch(p, s))
                        /\ h = [i \in 0..(Len(pipe[p]) + 1) |->
                                    IF i <= Len(pipe[p]) THEN f[i] ELSE s]
        BY <3>4, <2>1, <1>2, WrittenCarries DEF PipeInv
      <4>2. Len(pipe'[p]) = Len(pipe[p]) + 1 /\ Len(pipe[p]) \in Nat
        BY <4>1, <1>2 DEF PipeInv, PipeTypeOK
      <4>3. h[Len(pipe'[p])] = s
        BY <4>1, <4>2
      <4>4. last'[p] = s
        BY <3>4, <1>2 DEF Written, PipeInv, PipeTypeOK
      <4> QED BY <4>1, <4>3, <4>4, <3>1 DEF PortInv
    <3> QED BY <3>2, <3>3, <3>4, <2>1
  <2> QED BY <2>2, <2>3, <2>4 DEF PipeInv
<1> QED BY <1>1, <1>2

LEMMA ResyncInv == ASSUME PipeInv, Resync PROVE PipeInv'
<1>1. PipeTypeOK'
  BY DEF PipeInv, PipeTypeOK, Resync
<1>2. ASSUME NEW p \in Served PROVE PortInv(p)'
  <2>1. last'[p] = Unsent /\ pipe'[p] = pipe[p] /\ pad'[p] = pad[p] /\ given'[p] = given[p]
        /\ owed' = owed
    BY DEF Resync
  <2> QED BY <2>1, PortKept DEF PipeInv
<1> QED BY <1>1, <1>2 DEF PipeInv

\* Reading a batch takes the first state of the course.
LEMMA PollCarries ==
    ASSUME PipeTypeOK, NEW p \in Served, Poll(p), NEW f, Leads(f, pad[p], pipe[p])
    PROVE  /\ pad'[p] = f[1] /\ pipe'[p] = Tail(pipe[p])
           /\ Leads([i \in 0..(Len(pipe[p]) - 1) |-> f[i + 1]], pad'[p], pipe'[p])
<1>1. pad[p] \in PadStates /\ pipe[p] \in Seq(Batches) /\ pipe[p] # <<>>
  BY DEF PipeTypeOK, Poll
<1>2. pad'[p] = Applied(pad[p], Head(pipe[p])) /\ pipe'[p] = Tail(pipe[p])
  BY DEF PipeTypeOK, Poll
<1> QED BY <1>1, <1>2, CarriesTail

LEMMA PollInv == ASSUME PipeInv, NEW p \in Served, Poll(p) PROVE PipeInv'
<1>1. PipeTypeOK'
  <2>1. pipe[p] \in Seq(Batches) /\ pipe[p] # <<>>
    BY DEF PipeInv, PipeTypeOK, Poll
  <2>2. Head(pipe[p]) \in Batches /\ Tail(pipe[p]) \in Seq(Batches)
        /\ Len(Tail(pipe[p])) <= Len(pipe[p])
    BY <2>1
  <2>3. Applied(pad[p], Head(pipe[p])) \in PadStates
    BY <2>2, AppliedType DEF PipeInv, PipeTypeOK
  <2>4. pad' \in [Served -> PadStates]
    BY <2>3 DEF PipeInv, PipeTypeOK, Poll
  <2>5. pipe' \in [Served -> Seq(Batches)] /\ \A r \in Served : Len(pipe'[r]) <= Room
    BY <2>2, PipeAssumption DEF PipeInv, PipeTypeOK, Poll
  <2> QED BY <2>4, <2>5 DEF PipeInv, PipeTypeOK, Poll
<1>2. ASSUME NEW r \in Served, r # p PROVE PortInv(r)'
  <2>1. pipe'[r] = pipe[r] /\ pad'[r] = pad[r] /\ last' = last /\ given' = given /\ owed' = owed
    BY <1>2 DEF PipeInv, PipeTypeOK, Poll
  <2> QED BY <2>1, PortKept DEF PipeInv
<1>3. PortInv(p)'
  <2>1. PICK f : /\ Leads(f, pad[p], pipe[p])
                 /\ last[p] # Unsent => f[Len(pipe[p])] = last[p]
                 /\ given[p] # Unsent /\ p \notin owed => f[Len(pipe[p])] = given[p]
    BY DEF PipeInv, PortInv
  <2> DEFINE h == [i \in 0..(Len(pipe[p]) - 1) |-> f[i + 1]]
  <2>2. Leads(h, pad'[p], pipe'[p]) /\ pipe'[p] = Tail(pipe[p])
    BY <2>1, PollCarries DEF PipeInv
  <2>3. Len(pipe'[p]) = Len(pipe[p]) - 1 /\ Len(pipe'[p]) \in Nat
    BY <2>2 DEF PipeInv, PipeTypeOK, Poll
  <2>4. h[Len(pipe'[p])] = f[Len(pipe[p])]
    BY <2>3
  <2>5. last' = last /\ given' = given /\ owed' = owed
    BY DEF Poll
  <2> HIDE DEF h
  <2> QED BY <2>1, <2>2, <2>4, <2>5 DEF PortInv
<1> QED BY <1>1, <1>2, <1>3 DEF PipeInv

LEMMA PipeStep ==
    ASSUME PipeInv, [PipeNext]_pipeVars
    PROVE  PipeInv'
<1>1. ASSUME NEW p \in Ports, NEW s \in PadStates, Send(p, s) PROVE PipeInv'
  BY <1>1, SendInv
<1>2. CASE Resync
  BY <1>2, ResyncInv
<1>3. ASSUME NEW p \in Served, Poll(p) PROVE PipeInv'
  BY <1>3, PollInv
<1>4. CASE UNCHANGED pipeVars
  BY <1>4, StutterInv
<1> QED BY <1>1, <1>2, <1>3, <1>4 DEF PipeNext

\* What is on its way to each port ends where its record says.
THEOREM PipeInductive == PipeSpec => []PipeInv
<1>1. PipeInv /\ [PipeNext]_pipeVars => PipeInv'
  BY PipeStep
<1> QED BY <1>1, InitInv, PTL DEF PipeSpec

\* The pipe's variables stay in their types.
THEOREM PipeTypeCorrect == PipeSpec => []PipeTypeOK
<1>1. PipeInv => PipeTypeOK
  BY DEF PipeInv
<1> QED BY <1>1, PipeInductive, PTL

LEMMA InvHolds == PipeInv => HeldUnlessDropped
<1> SUFFICES ASSUME PipeInv, NEW p \in Served, pipe[p] = <<>>, given[p] # Unsent, p \notin owed
             PROVE  pad[p] = given[p]
  BY DEF HeldUnlessDropped
<1>1. PICK f : Leads(f, pad[p], pipe[p]) /\ f[Len(pipe[p])] = given[p]
  BY DEF PipeInv, PortInv
<1>2. Len(pipe[p]) = 0
  OBVIOUS
<1>3. f[0] = pad[p]
  BY <1>1, <1>2 DEF Leads, Runs
<1> QED BY <1>1, <1>2, <1>3

\* Once its pipe is read, the emulator holds the last state a port was sent,
\* unless that one was dropped (pipe.rs, send).
THEOREM NoKeyStaysDown == PipeSpec => []HeldUnlessDropped
BY InvHolds, PipeInductive, PTL

-----------------------------------------------------------------------------
(* The refinement. *)

\* What is on its way, given any course.
LEMMA BecomesTheCourse ==
    ASSUME NEW p, NEW f, Leads(f, pad[p], pipe[p])
    PROVE  Becomes(p) = [i \in 1..Len(pipe[p]) |-> f[i]]
<1> DEFINE Solves(g) == g = [i \in 0..Len(pipe[p]) |->
                                IF i = 0 THEN pad[p] ELSE Applied(g[i - 1], pipe[p][i])]
           course == CHOOSE g : Solves(g)
<1>1. \A g : Solves(g) <=> Runs(g, pad[p], pipe[p])
  BY Zenon DEF Runs
<1>2. Becomes(p) = [i \in 1..Len(pipe[p]) |-> course[i]]
  BY Zenon DEF Becomes
<1> HIDE DEF Solves
<1>3. Solves(course)
  BY <1>1, Zenon DEF Leads
<1> HIDE DEF course
<1>4. course = f
  BY <1>1, <1>3, Zenon DEF Leads
<1> QED BY <1>2, <1>4, Zenon

\* And after a step.
LEMMA WillBecomeTheCourse ==
    ASSUME NEW p, NEW f, Leads(f, pad'[p], pipe'[p])
    PROVE  Becomes(p)' = [i \in 1..Len(pipe'[p]) |-> f[i]]
<1> DEFINE Solves(g) == g = [i \in 0..Len(pipe'[p]) |->
                                IF i = 0 THEN pad'[p] ELSE Applied(g[i - 1], pipe'[p][i])]
           course == CHOOSE g : Solves(g)
<1>1. \A g : Solves(g) <=> Runs(g, pad'[p], pipe'[p])
  BY Zenon DEF Runs
<1>2. Becomes(p)' = [i \in 1..Len(pipe'[p]) |-> course[i]]
  BY Zenon DEF Becomes
<1> HIDE DEF Solves
<1>3. Solves(course)
  BY <1>1, Zenon DEF Leads
<1> HIDE DEF course
<1>4. course = f
  BY <1>1, <1>3, Zenon DEF Leads
<1> QED BY <1>2, <1>4, Zenon

\* It is a sequence of whole states, as long as the batches.
LEMMA BecomesType ==
    ASSUME PipeInv, NEW p \in Served
    PROVE  Becomes(p) \in Seq(PadStates) /\ Len(Becomes(p)) = Len(pipe[p])
<1>1. PICK f : Leads(f, pad[p], pipe[p])
  BY DEF PipeInv, PortInv
<1>2. Becomes(p) = [i \in 1..Len(pipe[p]) |-> f[i]]
  BY <1>1, BecomesTheCourse
<1>3. Len(pipe[p]) \in Nat
  BY DEF PipeInv, PipeTypeOK
<1>4. Becomes(p) \in [1..Len(pipe[p]) -> PadStates]
  BY <1>1, <1>2, <1>3 DEF Leads
<1> QED BY <1>3, <1>4

LEMMA InitLevel == PipeInit => Level!LevelInit
<1> SUFFICES ASSUME PipeInit, NEW p \in Served PROVE Becomes(p) = <<>>
  BY DEF PipeInit, Level!LevelInit
<1>1. Leads([i \in 0..0 |-> pad[p]], pad[p], pipe[p]) /\ pipe[p] = <<>>
  BY CarriesNothing DEF PipeInit
<1>2. Becomes(p) = [i \in 1..0 |-> [j \in 0..0 |-> pad[p]][i]]
  BY <1>1, BecomesTheCourse
<1> QED BY <1>2

\* The states on their way to a port whose pipe does not move.
LEMMA BecomesKept ==
    ASSUME PipeInv, NEW p \in Served, pipe'[p] = pipe[p], pad'[p] = pad[p]
    PROVE  Becomes(p)' = Becomes(p)
<1>1. PICK f : Leads(f, pad[p], pipe[p])
  BY DEF PipeInv, PortInv
<1>2. Becomes(p) = [i \in 1..Len(pipe[p]) |-> f[i]]
  BY <1>1, BecomesTheCourse
<1>3. Becomes(p)' = [i \in 1..Len(pipe'[p]) |-> f[i]]
  BY <1>1, WillBecomeTheCourse
<1> QED BY <1>2, <1>3

\* A send is the abstract Ask: a state already last on its way or without room
\* is left out, another one comes last.
LEMMA SendAsks ==
    ASSUME PipeInv, NEW p \in Ports, NEW s \in PadStates, Send(p, s)
    PROVE  Level!Ask(p, s) \/ UNCHANGED Level!levelVars
<1> USE DEF Level!levelVars
<1>1. CASE p \notin Served
  <2>1. UNCHANGED pipeVars
    BY <1>1 DEF Send, UnknownSlot
  <2> QED BY <2>1, BecomesKept
<1>2. CASE p \in Served
  <2>1. /\ given' = [given EXCEPT ![p] = s] /\ UNCHANGED pad
        /\ Coalesced(p, s) \/ Written(p, s) \/ Dropped(p, s)
    BY <1>2 DEF Send, UnknownSlot
  <2>2. Becomes(p) \in Seq(PadStates) /\ Len(Becomes(p)) = Len(pipe[p])
    BY <1>2, BecomesType
  <2>3. CASE pipe' = pipe /\ (Level!Newest(p) = s \/ Len(pipe[p]) = Room)
    <3>1. \A r \in Served : Becomes(r)' = Becomes(r)
      BY <2>1, <2>3, BecomesKept
    <3> QED BY <1>2, <2>1, <2>2, <2>3, <3>1 DEF Level!Ask, Level!Newest
  <2>4. CASE Coalesced(p, s)
    <3>1. PICK f : Leads(f, pad[p], pipe[p]) /\ f[Len(pipe[p])] = s
      BY <1>2, <2>4, PipeAssumption DEF PipeInv, PortInv, Coalesced, PadStates
    <3>2. Becomes(p) = [i \in 1..Len(pipe[p]) |-> f[i]]
      BY <3>1, BecomesTheCourse
    <3>3. Len(pipe[p]) \in Nat /\ f[0] = pad[p]
      BY <3>1, <1>2 DEF Leads, Runs, PipeInv, PipeTypeOK
    <3>4. Level!Newest(p) = s
      BY <1>2, <2>2, <3>1, <3>2, <3>3 DEF Level!Newest
    <3> QED BY <2>3, <2>4, <3>4 DEF Coalesced
  <2>5. CASE Dropped(p, s)
    BY <2>3, <2>5 DEF Dropped
  <2>6. CASE Written(p, s)
    <3>1. PICK f, h : /\ Leads(f, pad[p], pipe[p]) /\ Leads(h, pad'[p], pipe'[p])
                      /\ pipe'[p] = Append(pipe[p], Batch(p, s))
                      /\ h = [i \in 0..(Len(pipe[p]) + 1) |->
                                  IF i <= Len(pipe[p]) THEN f[i] ELSE s]
      BY <2>6, <2>1, <1>2, WrittenCarries DEF PipeInv
    <3>2. Len(pipe'[p]) = Len(pipe[p]) + 1 /\ Len(pipe[p]) \in Nat
      BY <3>1, <1>2 DEF PipeInv, PipeTypeOK
    <3>3. Becomes(p) = [i \in 1..Len(pipe[p]) |-> f[i]]
      BY <3>1, BecomesTheCourse
    <3>4. Becomes(p)' = [i \in 1..Len(pipe'[p]) |-> h[i]]
      <4>1. Leads(h, pad'[p], pipe'[p])
        BY <3>1
      <4> QED BY ONLY <4>1, WillBecomeTheCourse, Zenon
    <3>5. Becomes(p)' = Append(Becomes(p), s)
      BY <3>1, <3>2, <3>3, <3>4, <2>2
    <3>6. \A r \in Served : r # p => Becomes(r)' = Becomes(r)
      <4>1. \A r \in Served : r # p => pipe'[r] = pipe[r] /\ pad'[r] = pad[r]
        BY <2>1, <2>6 DEF PipeInv, PipeTypeOK, Written
      <4> QED BY <4>1, BecomesKept
    <3> QED BY <1>2, <2>1, <3>5, <3>6 DEF Level!Ask
  <2> QED BY <2>1, <2>4, <2>5, <2>6
<1> QED BY <1>1, <1>2

\* A poll is the abstract Show.
LEMMA PollShows == ASSUME PipeInv, NEW p \in Served, Poll(p) PROVE Level!Show(p)
<1>1. PICK f : Leads(f, pad[p], pipe[p])
  BY DEF PipeInv, PortInv
<1> DEFINE h == [i \in 0..(Len(pipe[p]) - 1) |-> f[i + 1]]
<1>2. pad'[p] = f[1] /\ Leads(h, pad'[p], pipe'[p]) /\ pipe'[p] = Tail(pipe[p])
  BY <1>1, PollCarries DEF PipeInv
<1>3. Len(pipe[p]) \in Nat /\ Len(pipe[p]) >= 1 /\ Len(pipe'[p]) = Len(pipe[p]) - 1
  BY <1>2 DEF PipeInv, PipeTypeOK, Poll
<1>4. Becomes(p) = [i \in 1..Len(pipe[p]) |-> f[i]]
  BY <1>1, BecomesTheCourse
<1>5. Becomes(p)' = [i \in 1..Len(pipe'[p]) |-> h[i]]
  <2> HIDE DEF h
  <2> QED BY <1>2, WillBecomeTheCourse
<1>6. Becomes(p) \in Seq(PadStates) /\ Len(Becomes(p)) = Len(pipe[p])
  BY BecomesType
<1>7. Becomes(p) # <<>> /\ Head(Becomes(p)) = f[1] /\ Becomes(p)' = Tail(Becomes(p))
  BY <1>3, <1>4, <1>5, <1>6
<1>8. \A r \in Served : r # p => Becomes(r)' = Becomes(r)
  <2>1. \A r \in Served : r # p => pipe'[r] = pipe[r] /\ pad'[r] = pad[r]
    BY DEF PipeInv, PipeTypeOK, Poll
  <2> QED BY <2>1, BecomesKept
<1>9. pad' = [pad EXCEPT ![p] = Head(Becomes(p))] /\ given' = given
  BY <1>2, <1>7 DEF Poll, PipeInv, PipeTypeOK
<1> QED BY <1>7, <1>8, <1>9 DEF Level!Show

LEMMA StepLevel == PipeInv /\ [PipeNext]_pipeVars => [Level!LevelNext]_Level!levelVars
<1> SUFFICES ASSUME PipeInv, [PipeNext]_pipeVars
             PROVE  Level!LevelNext \/ UNCHANGED Level!levelVars
  OBVIOUS
<1>1. ASSUME NEW p \in Ports, NEW s \in PadStates, Send(p, s)
      PROVE  Level!LevelNext \/ UNCHANGED Level!levelVars
  <2>1. CASE p \in Served
    BY <1>1, <2>1, SendAsks DEF Level!LevelNext
  <2>2. CASE p \notin Served
    <3>1. UNCHANGED pipeVars
      BY <1>1, <2>2 DEF Send, UnknownSlot
    <3> QED BY <3>1, BecomesKept DEF Level!levelVars
  <2> QED BY <2>1, <2>2
<1>2. CASE Resync
  BY <1>2, BecomesKept DEF Resync, Level!levelVars
<1>3. ASSUME NEW p \in Served, Poll(p) PROVE Level!LevelNext
  BY <1>3, PollShows DEF Level!LevelNext
<1>4. CASE UNCHANGED pipeVars
  BY <1>4, BecomesKept DEF Level!levelVars
<1> QED BY <1>1, <1>2, <1>3, <1>4 DEF PipeNext

\* Writing only differences, dropping what does not fit and starting over after
\* a resync hand the emulator whole states, in the order they were sent: every
\* step of the pipe is a step of PadLevel or leaves it alone (pipe.rs, wire.rs).
THEOREM PipeImplementsLevel == PipeSpec => PipeCarriesLevels
<1>1. PipeSpec => [][Level!LevelNext]_Level!levelVars
  BY StepLevel, PipeInductive, PTL DEF PipeSpec
<1> QED BY <1>1, InitLevel, PTL DEF PipeSpec, PipeCarriesLevels, Level!LevelSpec

-----------------------------------------------------------------------------
(* The devices of the places (config.rs, setup.rs, main.rs)                 *)

USE DEF devVars

SetupFiles == [game : DevGames, codes : [Ports -> 0..3]]
PadSets == [Ports -> PadKinds]

LEMMA GamesHaveNames == "" \notin DevGames
BY DevicesAssumption

LEMMA OrdersHaveRoom == CtlRoom \in Nat \ {0}
BY DevicesAssumption

LEMMA SetupFields ==
    ASSUME NEW file \in SetupFiles
    PROVE  file.game \in DevGames /\ file.codes \in [Ports -> 0..3]
BY DEF SetupFiles

LEMMA NoSetupIsNone ==
    NoSetup \notin SetupFiles /\ NoSetup \notin PadSets /\ Setups \subseteq PadSets
<1>1. /\ Setups \subseteq [Ports -> PadKinds]
      /\ NoSetup \notin [game : DevGames, codes : [Ports -> 0..3]] \union [Ports -> PadKinds]
  BY DevicesAssumption
<1> QED BY <1>1 DEF SetupFiles, PadSets

LEMMA FirstPort == 1 \in Ports
BY SlotsAssumption DEF Ports

Orders_sent == SUBSET ControlTokens

DevTypes ==
    /\ DevTypeOK /\ ctl \in [Served -> Seq(Orders_sent)]
    /\ setup = NoSetup \/ setup \in SetupFiles
    /\ spoiled \in BOOLEAN

\* A process has a game.
StageInv == (running = "") <=> (startup = "off")

\* What the pages are shown is what the main loop has, and a place is a GameCube pad
\* in the files exactly when it is one there.
FilesFit ==
    \A p \in Served : /\ (files.si[p] = 6) <=> (dev[p] = "GameCube")
                      /\ (p \in DOMAIN files.wii /\ files.wii[p] = 1) <=> (dev[p] # "GameCube")
ShownInv ==
    /\ startup \in {"told", "started"} => shownDev = [p \in Ports |-> CodeOf(dev[p])]
    /\ startup = "started" => FilesFit

\* Where nothing was ordered yet, nothing is held; elsewhere, what the emulator
\* will hold once it has read its control pipe.
LastOrder(p) == IF ctl[p] = <<>> THEN held[p] ELSE ctl[p][Len(ctl[p])]
Presented(p) == IF p \in missed THEN "Nunchuk" ELSE FirstExtension(dev[p])
SilentInv ==
    \A p \in Served : startup # "started" \/ p \in firstDue => ctl[p] = <<>> /\ held[p] = {}
AttachedInv ==
    startup = "started" =>
        \A p \in Served \ firstDue :
            dev[p] # "GameCube" => LastOrder(p) = HeldFor(Presented(p))

DevInv == DevTypes /\ StageInv /\ ShownInv /\ SilentInv /\ AttachedInv /\ RestartPresentsTheSame

LEMMA KindsAndCodes ==
    ASSUME NEW kind \in PadKinds
    PROVE  CodeOf(kind) \in 0..3 /\ PadKindOf(CodeOf(kind)) = kind
           /\ FirstExtension(kind) \in Extensions
BY DEF PadKinds, CodeOf, PadKindOf, FirstExtension, Extensions

LEMMA KindOfAnyCode == \A code : PadKindOf(code) \in PadKinds
BY DEF PadKindOf, PadKinds

\* The buttons held for an extension make the emulator attach it.
LEMMA ExtensionAttached ==
    ASSUME NEW ext \in Extensions
    PROVE  /\ HeldFor(ext) \in Orders_sent
           /\ Extension(HeldFor(ext)) = attachment(ext)
<1>1. HeldFor(ext) \in Orders_sent
  BY DEF Extensions, HeldFor, Orders_sent, ControlTokens
<1>2. CASE ext = "Nunchuk"
  <2>1. HeldFor(ext) = {} /\ attachment(ext) = 1
    BY <1>2 DEF HeldFor, attachment
  <2>2. Extension({}) = 1
    BY DEF Extension
  <2> QED BY <1>1, <2>1, <2>2
<1>3. CASE ext = "Guitare"
  <2>1. HeldFor(ext) = {"B"} /\ attachment(ext) = 3
    BY <1>3 DEF HeldFor, attachment
  <2>2. Extension({"B"}) = 3
    BY DEF Extension
  <2> QED BY <1>1, <2>1, <2>2
<1>4. CASE ext = "None"
  <2>1. HeldFor(ext) = {"X"} /\ attachment(ext) = 0
    BY <1>4 DEF HeldFor, attachment
  <2>2. Extension({"X"}) = 0
    BY DEF Extension
  <2> QED BY <1>1, <2>1, <2>2
<1> QED BY <1>2, <1>3, <1>4 DEF Extensions

LEMMA ExtensionOfFacts ==
    ASSUME NEW code PROVE ExtensionOf(code) \in Extensions
BY DEF ExtensionOf, Extensions

\* A swap changes one Wiimote for another form of it and leaves a GameCube pad.
Swapped(pads, p, ext, after) ==
    /\ after \in [Ports -> PadKinds]
    /\ \A q \in Ports : (after[q] = "GameCube") <=> (pads[q] = "GameCube")
    /\ \A q \in Ports : q # p => after[q] = pads[q]
    /\ pads[p] # "GameCube" => FirstExtension(after[p]) = ext
    /\ pads = AllOf("GameCube") => after = pads

LEMMA SwapFacts ==
    ASSUME NEW pads \in [Ports -> PadKinds], NEW p \in Ports, NEW ext \in Extensions
    PROVE  Swapped(pads, p, ext, with_extension(pads, p, ext))
<1>1. CASE pads[p] = "GameCube"
  <2>1. with_extension(pads, p, ext) = pads
    BY <1>1 DEF with_extension
  <2> QED BY <1>1, <2>1 DEF Swapped
<1>2. CASE pads[p] # "GameCube"
  <2> DEFINE kind == CASE ext = "Nunchuk" -> "Wiimote" [] ext = "Guitare" -> "Guitar"
                       [] ext = "None" -> "WiimoteOnly"
  <2>1. kind \in PadKinds /\ kind # "GameCube" /\ FirstExtension(kind) = ext
    BY DEF Extensions, PadKinds, FirstExtension
  <2>2. with_extension(pads, p, ext) = [pads EXCEPT ![p] = kind]
    BY <1>2 DEF with_extension
  <2>3. pads # AllOf("GameCube")
    BY <1>2 DEF AllOf
  <2> HIDE DEF kind
  <2> DEFINE after == [pads EXCEPT ![p] = kind]
  <2>4. /\ after \in [Ports -> PadKinds] /\ after[p] = kind
        /\ \A q \in Ports : q # p => after[q] = pads[q]
    BY <2>1
  <2> HIDE DEF after
  <2>5. \A q \in Ports : (after[q] = "GameCube") <=> (pads[q] = "GameCube")
    BY <1>2, <2>1, <2>4
  <2>6. Swapped(pads, p, ext, after)
    BY <1>2, <2>1, <2>3, <2>4, <2>5 DEF Swapped
  <2> QED BY <2>2, <2>6 DEF after
<1> QED BY <1>1, <1>2

LEMMA SavedSetup ==
    ASSUME NEW pads \in [Ports -> PadKinds], NEW g \in DevGames
    PROVE  save_for(pads, g) \in SetupFiles /\ save_for(pads, g) # NoSetup
<1>1. save_for(pads, g) \in SetupFiles
  BY KindsAndCodes DEF save_for, SetupFiles
<1> QED BY <1>1, NoSetupIsNone

LEMMA PadsChosen ==
    ASSUME DevTypes, NEW g \in DevGames
    PROVE  chosen_pads(g) \in [Ports -> PadKinds]
<1>1. AllOf("GameCube") \in [Ports -> PadKinds] /\ AllOf(PadKindOf(padChoice)) \in [Ports -> PadKinds]
  BY KindOfAnyCode DEF AllOf, PadKinds
<1>2. load_for(g) = NoSetup \/ load_for(g) \in [Ports -> PadKinds]
  BY KindOfAnyCode DEF load_for
<1> QED BY <1>1, <1>2 DEF chosen_pads

\* A swap that was saved is what the next start reads.
LEMMA SavedIsChosen ==
    ASSUME NEW pads \in [Ports -> PadKinds], NEW g \in DevGames, g \notin CubeGames,
           setup' = save_for(pads, g)
    PROVE  chosen_pads(g)' = pads
<1>1. setup' # NoSetup /\ setup'.game = g /\ setup'.codes = [p \in Ports |-> CodeOf(pads[p])]
  BY SavedSetup DEF save_for
<1>2. load_for(g)' = [p \in Ports |-> PadKindOf(setup'.codes[p])]
  BY <1>1 DEF load_for
<1>3. load_for(g)' = pads
  <2>1. \A p \in Ports : PadKindOf(setup'.codes[p]) = pads[p]
    BY <1>1, KindsAndCodes
  <2> QED BY <1>2, <2>1
<1>4. load_for(g)' # NoSetup
  BY <1>3, NoSetupIsNone DEF PadSets
<1> QED BY <1>3, <1>4 DEF chosen_pads

LEMMA ServedPorts == Served \subseteq Ports
BY DEF Served

LEMMA ForgetKeeps ==
    ASSUME DevTypes, Forget, chosen' \in DevGames, padChoice' \in 0..3,
           setup' = NoSetup \/ setup' \in SetupFiles
    PROVE  DevInv'
<1>1. running' = "" /\ startup' = "off" /\ firstDue' = {} /\ missed' = {} /\ spoiled' = FALSE
  BY DEF Forget
<1>2. dev' \in [Ports -> PadKinds] /\ shownDev' \in [Ports -> 0..3]
      /\ wish' \in [Ports -> (0..3) \union {NoWish}]
  <2>1. dev' \in [Ports -> PadKinds]
    BY DEF Forget, AllOf, PadKinds
  <2>2. shownDev' \in [Ports -> 0..3]
    <3>1. shownDev' = [p \in Ports |-> 0]
      BY DEF Forget
    <3> QED BY <3>1
  <2>3. wish' = [p \in Ports |-> NoWish]
    BY DEF Forget
  <2> QED BY <2>1, <2>2, <2>3
<1>3. ctl' \in [Served -> Seq(Orders_sent)] /\ \A p \in Served : Len(ctl'[p]) <= CtlRoom
  <2>1. <<>> \in Seq(Orders_sent) /\ Len(<<>>) = 0
    OBVIOUS
  <2>2. ctl' = [p \in Served |-> <<>>]
    BY DEF Forget
  <2>3. \A p \in Served : ctl'[p] = <<>>
    BY <2>2
  <2>4. \A p \in Served : Len(ctl'[p]) <= CtlRoom
    BY <2>1, <2>3, OrdersHaveRoom
  <2> QED BY <2>1, <2>2, <2>4
<1>4. held' \in [Served -> SUBSET ControlTokens]
  BY DEF Forget
<1>5. DevTypes'
  <2>1. DevTypeOK'
    BY <1>1, <1>2, <1>3, <1>4, SetupFields DEF DevTypeOK
  <2> QED BY <1>1, <1>3, <2>1 DEF DevTypes
<1>6. SilentInv'
  BY DEF Forget, SilentInv
<1> QED BY <1>1, <1>5, <1>6 DEF DevInv, StageInv, ShownInv, AttachedInv, RestartPresentsTheSame

LEMMA DevBegins == DevInit => DevInv
<1> SUFFICES ASSUME DevInit PROVE DevInv
  OBVIOUS
<1>1. /\ running = "" /\ startup = "off" /\ firstDue = {} /\ missed = {} /\ spoiled = FALSE
      /\ chosen \in DevGames /\ setup = NoSetup /\ padChoice = 0
  BY DEF DevInit
<1>2. dev \in [Ports -> PadKinds] /\ shownDev \in [Ports -> 0..3]
      /\ wish \in [Ports -> (0..3) \union {NoWish}]
  <2>1. dev \in [Ports -> PadKinds]
    BY DEF DevInit, AllOf, PadKinds
  <2>2. shownDev \in [Ports -> 0..3]
    <3>1. shownDev = [p \in Ports |-> 0]
      BY DEF DevInit
    <3> QED BY <3>1
  <2>3. wish = [p \in Ports |-> NoWish]
    BY DEF DevInit
  <2> QED BY <2>1, <2>2, <2>3
<1>3. ctl \in [Served -> Seq(Orders_sent)] /\ \A p \in Served : Len(ctl[p]) <= CtlRoom
  <2>1. <<>> \in Seq(Orders_sent) /\ Len(<<>>) = 0
    OBVIOUS
  <2>2. ctl = [p \in Served |-> <<>>]
    BY DEF DevInit
  <2>3. \A p \in Served : ctl[p] = <<>>
    BY <2>2
  <2>4. \A p \in Served : Len(ctl[p]) <= CtlRoom
    BY <2>1, <2>3, OrdersHaveRoom
  <2> QED BY <2>1, <2>2, <2>4
<1>4. held \in [Served -> SUBSET ControlTokens]
  BY DEF DevInit
<1>5. DevTypes
  <2>1. DevTypeOK
    <3>1. padChoice \in 0..3
      <4>1. padChoice = 0
        BY <1>1
      <4> QED BY <4>1
    <3>2. DOMAIN ctl = Served /\ missed \subseteq Served /\ running \in DevGames \union {""}
      BY <1>1, <1>3
    <3> QED BY <1>1, <1>2, <1>3, <1>4, <3>1, <3>2 DEF DevTypeOK
  <2> QED BY <1>1, <1>3, <2>1 DEF DevTypes
<1>6. SilentInv
  BY DEF DevInit, SilentInv
<1> QED BY <1>1, <1>5, <1>6 DEF DevInv, StageInv, ShownInv, AttachedInv, RestartPresentsTheSame

LEMMA BootKeeps == ASSUME DevInv, Boot PROVE DevInv'
<1>1. /\ running' = chosen /\ dev' = chosen_pads(chosen) /\ chosen \in DevGames
      /\ dev' \in [Ports -> PadKinds] /\ running' # "" /\ startup' = "open"
  <2>1. running' = chosen /\ dev' = chosen_pads(chosen) /\ startup' = "open"
    BY DEF Boot
  <2>2. DevTypes /\ chosen \in DevGames
    BY DEF DevInv, DevTypes, DevTypeOK
  <2>3. chosen_pads(chosen) \in [Ports -> PadKinds]
    BY <2>2, PadsChosen
  <2>4. chosen # ""
    BY <2>2, GamesHaveNames
  <2> QED BY <2>1, <2>2, <2>3, <2>4
<1>2. UNCHANGED <<firstDue, chosen, shownDev, files, wish, setup, padChoice, ctl, held, missed,
                  spoiled>> /\ startup = "off"
  BY DEF Boot
<1>3. DevTypes'
  BY <1>1, <1>2 DEF DevInv, DevTypes, DevTypeOK
<1>4. RestartPresentsTheSame'
  <2>1. chosen_pads(chosen)' = chosen_pads(chosen)
    BY <1>2 DEF chosen_pads, load_for
  <2> QED BY <1>1, <1>2, <2>1 DEF RestartPresentsTheSame
<1>5. SilentInv'
  BY <1>1, <1>2 DEF DevInv, SilentInv
<1> QED BY <1>1, <1>3, <1>4, <1>5 DEF DevInv, StageInv, ShownInv, AttachedInv

LEMMA TellKeeps == ASSUME DevInv, TellPages PROVE DevInv'
<1>1. /\ startup = "open" /\ startup' = "told" /\ shownDev' = [p \in Ports |-> CodeOf(dev[p])]
      /\ UNCHANGED <<running, firstDue, chosen, dev, files, wish, setup, padChoice, ctl, held,
                     missed, spoiled>>
  BY DEF TellPages
<1>2. dev \in [Ports -> PadKinds]
  BY DEF DevInv, DevTypes, DevTypeOK
<1>3. shownDev' \in [Ports -> 0..3]
  BY <1>1, <1>2, KindsAndCodes
<1>4. DevTypes'
  BY <1>1, <1>3 DEF DevInv, DevTypes, DevTypeOK
<1>5. RestartPresentsTheSame'
  <2>1. chosen_pads(running)' = chosen_pads(running)
    BY <1>1 DEF chosen_pads, load_for
  <2> QED BY <1>1, <2>1 DEF DevInv, RestartPresentsTheSame
<1>6. SilentInv'
  BY <1>1 DEF DevInv, SilentInv
<1> QED BY <1>1, <1>4, <1>5, <1>6 DEF DevInv, StageInv, ShownInv, AttachedInv

LEMMA StartKeeps == ASSUME DevInv, StartEmulator PROVE DevInv'
<1>1. /\ startup = "told" /\ startup' = "started" /\ firstDue' = Served
      /\ files' = [si |-> dolphin_ini(dev), wii |-> wiimote_ini(dev), gc |-> gcpad_ini]
      /\ UNCHANGED <<running, chosen, dev, shownDev, wish, setup, padChoice, ctl, held, missed,
                     spoiled>>
  BY DEF StartEmulator
<1>2. DevTypes'
  BY <1>1 DEF DevInv, DevTypes, DevTypeOK
<1>3. ShownInv'
  <2>0. shownDev' = [p \in Ports |-> CodeOf(dev'[p])]
    BY <1>1 DEF DevInv, ShownInv
  <2> SUFFICES ASSUME NEW p \in Served
               PROVE  /\ (files'.si[p] = 6) <=> (dev'[p] = "GameCube")
                      /\ (p \in DOMAIN files'.wii /\ files'.wii[p] = 1) <=> (dev'[p] # "GameCube")
    BY <2>0 DEF ShownInv, FilesFit
  <2>1. p \in Ports
    BY ServedPorts
  <2>2. files'.si = dolphin_ini(dev) /\ files'.wii = wiimote_ini(dev) /\ dev' = dev
    BY <1>1
  <2>3. (dolphin_ini(dev)[p] = 6) <=> (dev[p] = "GameCube")
    BY <2>1 DEF dolphin_ini
  <2>4. (p \in DOMAIN wiimote_ini(dev) /\ wiimote_ini(dev)[p] = 1) <=> (dev[p] # "GameCube")
    <3>1. CASE dev = AllOf("GameCube")
      <4>1. dev[p] = "GameCube"
        BY <2>1, <3>1 DEF AllOf
      <4>2. DOMAIN wiimote_ini(dev) = {}
        BY <3>1 DEF wiimote_ini
      <4> QED BY <4>1, <4>2
    <3>2. CASE dev # AllOf("GameCube")
      <4>1. wiimote_ini(dev) = [q \in Served |-> IF dev[q] = "GameCube" THEN 0 ELSE 1]
        BY <3>2 DEF wiimote_ini
      <4> QED BY <4>1
    <3> QED BY <3>1, <3>2
  <2> QED BY <2>2, <2>3, <2>4
<1>4. SilentInv' /\ AttachedInv'
  BY <1>1 DEF DevInv, SilentInv, AttachedInv
<1>5. RestartPresentsTheSame'
  <2>1. chosen_pads(running)' = chosen_pads(running)
    BY <1>1 DEF chosen_pads, load_for
  <2> QED BY <1>1, <2>1 DEF DevInv, RestartPresentsTheSame
<1> QED BY <1>1, <1>2, <1>3, <1>4, <1>5 DEF DevInv, StageInv

\* An accepted order is the last one of its place, and the others keep theirs.
LEMMA OrderSent ==
    ASSUME DevTypes, NEW p \in Served, NEW ext \in Extensions, set_extension(p, ext)
    PROVE  /\ ctl' \in [Served -> Seq(Orders_sent)] /\ \A q \in Served : Len(ctl'[q]) <= CtlRoom
           /\ \A q \in Served : q # p => ctl'[q] = ctl[q]
           /\ missed' = missed \ {p} /\ LastOrder(p)' = HeldFor(ext)
<1>1. /\ ctl \in [Served -> Seq(Orders_sent)]
      /\ \A q \in Served : Len(ctl[q]) <= CtlRoom /\ Len(ctl[q]) \in Nat
  <2>1. ctl \in [Served -> Seq(Orders_sent)] /\ \A q \in Served : Len(ctl[q]) <= CtlRoom
    BY DEF DevTypes, DevTypeOK
  <2>2. \A q \in Served : Len(ctl[q]) \in Nat
    <3> SUFFICES ASSUME NEW q \in Served PROVE Len(ctl[q]) \in Nat
      OBVIOUS
    <3>1. ctl[q] \in Seq(Orders_sent)
      BY <2>1
    <3> QED BY <3>1, LenProperties
  <2> QED BY <2>1, <2>2
<1>2. HeldFor(ext) \in Orders_sent
  BY ExtensionAttached
<1>0. /\ Len(ctl[p]) < CtlRoom
      /\ ctl' = [ctl EXCEPT ![p] = Append(@, HeldFor(ext))] /\ missed' = missed \ {p}
  BY DEF set_extension
<1>3. ctl'[p] = Append(ctl[p], HeldFor(ext))
  BY <1>1, <1>0
<1>4. /\ Append(ctl[p], HeldFor(ext)) \in Seq(Orders_sent)
      /\ Len(Append(ctl[p], HeldFor(ext))) = Len(ctl[p]) + 1
      /\ Append(ctl[p], HeldFor(ext))[Len(ctl[p]) + 1] = HeldFor(ext)
  <2> DEFINE line == ctl[p]
             said == HeldFor(ext)
             E == Orders_sent
  <2>1. line \in Seq(E) /\ said \in E
    BY <1>1, <1>2, <1>0
  <2> HIDE DEF line, said, E
  <2>2. /\ Append(line, said) \in Seq(E) /\ Len(Append(line, said)) = Len(line) + 1
        /\ Append(line, said)[Len(line) + 1] = said
    BY <2>1, AppendProperties
  <2> QED BY <2>2 DEF line, said, E
<1>5. Len(ctl'[p]) <= CtlRoom /\ ctl'[p] # <<>>
  <2>1. Len(ctl'[p]) = Len(ctl[p]) + 1 /\ Len(ctl[p]) \in Nat
    BY <1>1, <1>0, <1>3, <1>4
  <2>2. Len(ctl'[p]) <= CtlRoom /\ Len(ctl'[p]) # 0
    <3>1. CtlRoom \in Nat /\ Len(ctl[p]) < CtlRoom
      BY <1>0, OrdersHaveRoom
    <3> QED BY ONLY <2>1, <3>1
  <2> QED BY <1>3, <1>4, <2>2, EmptySeq
<1>6. \A q \in Served : q # p => ctl'[q] = ctl[q]
  BY <1>1, <1>0
<1>7. ctl' \in [Served -> Seq(Orders_sent)]
  BY <1>1, <1>0, <1>4
<1>8. LastOrder(p)' = HeldFor(ext)
  BY <1>3, <1>4, <1>5 DEF LastOrder
<1> QED BY <1>1, <1>0, <1>5, <1>6, <1>7, <1>8

\* The first order of a place, accepted or not, leaves the emulator with what it
\* presents: a Nunchuk when the order failed, since nothing is held.
LEMMA FirstKeeps == ASSUME DevInv, NEW p \in Served, FirstOrder(p) PROVE DevInv'
<1>1. /\ startup = "started" /\ p \in firstDue /\ firstDue' = firstDue \ {p}
      /\ \/ set_extension(p, FirstExtension(dev[p]))
         \/ missed' = missed \union {p} /\ UNCHANGED ctl
      /\ UNCHANGED <<running, startup, chosen, dev, shownDev, files, wish, setup, padChoice, held,
                     spoiled>>
  BY DEF FirstOrder
<1>2. DevTypes /\ dev \in [Ports -> PadKinds] /\ p \in Ports /\ missed \subseteq Served
      /\ firstDue \subseteq Served
  BY ServedPorts DEF DevInv, DevTypes, DevTypeOK
<1>3. FirstExtension(dev[p]) \in Extensions
  BY <1>2, KindsAndCodes
<1> DEFINE Sent == /\ p \notin missed' /\ LastOrder(p)' = HeldFor(FirstExtension(dev[p]))
           Missed == p \in missed' /\ LastOrder(p)' = {}
<1>4. /\ ctl' \in [Served -> Seq(Orders_sent)] /\ \A q \in Served : Len(ctl'[q]) <= CtlRoom
      /\ missed' \subseteq Served /\ \A q \in Served : q # p => (q \in missed' <=> q \in missed)
      /\ \A q \in Served : q # p => ctl'[q] = ctl[q]
      /\ Sent \/ Missed
  <2>1. CASE set_extension(p, FirstExtension(dev[p]))
    <3>1. /\ ctl' \in [Served -> Seq(Orders_sent)] /\ \A q \in Served : Len(ctl'[q]) <= CtlRoom
          /\ \A q \in Served : q # p => ctl'[q] = ctl[q]
          /\ missed' = missed \ {p} /\ LastOrder(p)' = HeldFor(FirstExtension(dev[p]))
      BY <1>2, <1>3, <2>1, OrderSent
    <3> QED BY <1>2, <3>1
  <2>2. CASE missed' = missed \union {p} /\ UNCHANGED ctl
    <3>1. ctl[p] = <<>> /\ held[p] = {}
      BY <1>1 DEF DevInv, SilentInv
    <3>2. LastOrder(p)' = {}
      BY <1>1, <2>2, <3>1 DEF LastOrder
    <3> QED BY <1>2, <2>2, <3>2 DEF DevTypes, DevTypeOK
  <2> QED BY <1>1, <2>1, <2>2
<1>5. DevTypes'
  <2>1. /\ DOMAIN ctl' = Served /\ firstDue' \subseteq Served
    BY <1>1, <1>2, <1>4
  <2> QED BY <1>1, <1>2, <1>4, <2>1 DEF DevTypes, DevTypeOK
<1>6. StageInv' /\ ShownInv'
  BY <1>1 DEF DevInv, StageInv, ShownInv, FilesFit
<1>7. SilentInv'
  BY <1>1, <1>4 DEF DevInv, SilentInv
<1>8. AttachedInv'
  <2> SUFFICES ASSUME NEW q \in Served, q \notin firstDue', dev[q] # "GameCube"
               PROVE  LastOrder(q)' = HeldFor(Presented(q)')
    BY <1>1 DEF AttachedInv
  <2>1. CASE q = p
    <3>1. CASE Sent
      BY <1>1, <2>1, <3>1 DEF Presented
    <3>2. CASE Missed
      <4>1. Presented(q)' = "Nunchuk" /\ HeldFor("Nunchuk") = {}
        BY <2>1, <3>2 DEF Presented, HeldFor
      <4> QED BY <2>1, <3>2, <4>1
    <3> QED BY <1>4, <3>1, <3>2
  <2>2. CASE q # p
    <3>1. LastOrder(q)' = LastOrder(q) /\ Presented(q)' = Presented(q) /\ q \notin firstDue
      BY <1>1, <1>4, <2>2 DEF LastOrder, Presented
    <3> QED BY <1>1, <3>1 DEF DevInv, AttachedInv
  <2> QED BY <2>1, <2>2
<1>9. RestartPresentsTheSame'
  <2>1. chosen_pads(running)' = chosen_pads(running)
    BY <1>1 DEF chosen_pads, load_for
  <2> QED BY <1>1, <2>1 DEF DevInv, RestartPresentsTheSame
<1> QED BY <1>5, <1>6, <1>7, <1>8, <1>9 DEF DevInv

LEMMA PollKeeps ==
    ASSUME DevInv, NEW p \in Served, PollControl(p) PROVE DevInv'
<1>1. /\ ctl[p] # <<>> /\ held' = [held EXCEPT ![p] = Head(ctl[p])]
      /\ ctl' = [ctl EXCEPT ![p] = Tail(@)]
      /\ UNCHANGED <<running, startup, firstDue, chosen, dev, shownDev, files, wish, setup, padChoice,
                     missed, spoiled>>
  BY DEF PollControl
<1>2. /\ ctl \in [Served -> Seq(Orders_sent)] /\ held \in [Served -> SUBSET ControlTokens]
      /\ \A q \in Served : Len(ctl[q]) <= CtlRoom
  BY DEF DevInv, DevTypes, DevTypeOK
<1>3. /\ Head(ctl[p]) \in Orders_sent /\ Tail(ctl[p]) \in Seq(Orders_sent)
      /\ Len(Tail(ctl[p])) = Len(ctl[p]) - 1 /\ Len(ctl[p]) \in Nat \ {0}
  <2>1. ctl[p] \in Seq(Orders_sent)
    BY <1>2
  <2> QED BY <1>1, <2>1, HeadTailProperties, EmptySeq, LenProperties
<1>4. /\ ctl'[p] = Tail(ctl[p]) /\ held'[p] = Head(ctl[p])
      /\ \A q \in Served : q # p => ctl'[q] = ctl[q] /\ held'[q] = held[q]
      /\ ctl' \in [Served -> Seq(Orders_sent)] /\ held' \in [Served -> SUBSET ControlTokens]
  BY <1>1, <1>2, <1>3 DEF Orders_sent
<1>5. DevTypes'
  <2>1. \A q \in Served : Len(ctl'[q]) <= CtlRoom
    <3>1. Len(ctl'[p]) <= CtlRoom
      BY <1>2, <1>3, <1>4, OrdersHaveRoom
    <3> QED BY <1>2, <1>4, <3>1
  <2> QED BY <1>1, <1>4, <2>1 DEF DevInv, DevTypes, DevTypeOK
<1>6. LastOrder(p)' = LastOrder(p)
  <2>1. LastOrder(p) = ctl[p][Len(ctl[p])]
    BY <1>1 DEF LastOrder
  <2>2. CASE Len(ctl[p]) = 1
    <3>1. Tail(ctl[p]) = <<>>
      <4>1. Len(Tail(ctl[p])) = 0
        BY <1>3, <2>2
      <4> QED BY <1>3, <4>1, EmptySeq
    <3>2. Head(ctl[p]) = ctl[p][1]
      OBVIOUS
    <3> QED BY <1>4, <2>1, <2>2, <3>1, <3>2 DEF LastOrder
  <2>3. CASE Len(ctl[p]) # 1
    <3>1. Len(Tail(ctl[p])) \in Nat \ {0} /\ Tail(ctl[p]) # <<>>
      <4>1. Len(Tail(ctl[p])) \in Nat \ {0}
        BY <1>3, <2>3
      <4> QED BY <1>3, <4>1, EmptySeq
    <3>2. \A i \in 1 .. Len(Tail(ctl[p])) : Tail(ctl[p])[i] = ctl[p][i + 1]
      BY <1>1, <1>2, HeadTailProperties
    <3>3. Tail(ctl[p])[Len(Tail(ctl[p]))] = ctl[p][Len(ctl[p])]
      <4>1. Len(Tail(ctl[p])) \in 1 .. Len(Tail(ctl[p])) /\ Len(Tail(ctl[p])) + 1 = Len(ctl[p])
        BY <1>3, <3>1
      <4> QED BY <3>2, <4>1
    <3> QED BY <1>4, <2>1, <3>1, <3>3 DEF LastOrder
  <2> QED BY <2>2, <2>3
<1>7. \A q \in Served : q # p => LastOrder(q)' = LastOrder(q)
  BY <1>4 DEF LastOrder
<1>8. AttachedInv' /\ SilentInv'
  <2>1. \A q \in Served : LastOrder(q)' = LastOrder(q) /\ Presented(q)' = Presented(q)
    BY <1>1, <1>6, <1>7 DEF Presented
  <2>2. AttachedInv'
    BY <1>1, <2>1 DEF DevInv, AttachedInv
  <2>3. startup = "started" /\ p \notin firstDue
    BY <1>1 DEF DevInv, SilentInv
  <2>4. SilentInv'
    BY <1>1, <1>4, <2>3 DEF DevInv, SilentInv
  <2> QED BY <2>2, <2>4
<1>9. ShownInv' /\ StageInv'
  BY <1>1 DEF DevInv, ShownInv, FilesFit, StageInv
<1>10. RestartPresentsTheSame'
  <2>1. chosen_pads(running)' = chosen_pads(running)
    BY <1>1 DEF chosen_pads, load_for
  <2> QED BY <1>1, <2>1 DEF DevInv, RestartPresentsTheSame
<1> QED BY <1>5, <1>8, <1>9, <1>10 DEF DevInv

\* An order that passed, for a place that presents what it asked for.
LEMMA PluggedKeeps ==
    ASSUME DevInv, InLoop, NEW p \in Ports, NEW ext \in Extensions,
           wish' \in [Ports -> (0..3) \union {NoWish}],
           PluggedExtension(p, ext),
           UNCHANGED <<running, startup, firstDue, chosen, files, padChoice, held>>
    PROVE  DevInv'
<1>1. /\ ctl \in [Served -> Seq(Orders_sent)] /\ dev \in [Ports -> PadKinds] /\ running \in DevGames
      /\ \A q \in Served : Len(ctl[q]) <= CtlRoom /\ Len(ctl[q]) \in Nat
      /\ missed \subseteq Served
  <2>1. /\ ctl \in [Served -> Seq(Orders_sent)] /\ dev \in [Ports -> PadKinds]
        /\ running \in DevGames
        /\ \A q \in Served : Len(ctl[q]) <= CtlRoom
        /\ missed \subseteq Served
    BY DEF DevInv, DevTypes, DevTypeOK, StageInv, InLoop
  <2>2. \A q \in Served : Len(ctl[q]) \in Nat
    <3> SUFFICES ASSUME NEW q \in Served PROVE Len(ctl[q]) \in Nat
      OBVIOUS
    <3>1. ctl[q] \in Seq(Orders_sent)
      BY <2>1
    <3> QED BY <3>1, LenProperties
  <2> QED BY <2>1, <2>2
<1>2. /\ set_extension(p, ext) /\ dev' = with_extension(dev, p, ext)
      /\ \/ dev' = dev /\ UNCHANGED <<shownDev, setup, spoiled>>
         \/ dev' # dev /\ shownDev' = [q \in Ports |-> CodeOf(dev'[q])] /\ Keep(running, dev')
  BY DEF PluggedExtension
<1>3. /\ dev' \in [Ports -> PadKinds]
      /\ \A q \in Ports : (dev'[q] = "GameCube") <=> (dev[q] = "GameCube")
      /\ \A q \in Ports : q # p => dev'[q] = dev[q]
      /\ dev[p] # "GameCube" => FirstExtension(dev'[p]) = ext
      /\ dev = AllOf("GameCube") => dev' = dev
  BY <1>1, <1>2, SwapFacts DEF Swapped
<1>4. HeldFor(ext) \in Orders_sent
  BY ExtensionAttached
<1>5. /\ ctl' \in [Served -> Seq(Orders_sent)] /\ \A q \in Served : Len(ctl'[q]) <= CtlRoom
      /\ missed' = missed \ {p}
      /\ \A q \in Served : q # p => ctl'[q] = ctl[q]
      /\ p \in Served => LastOrder(p)' = HeldFor(ext)
  <2>1. CASE p \notin Served
    <3>1. UNCHANGED <<ctl, missed>>
      BY <1>2, <2>1 DEF set_extension
    <3> QED BY <1>1, <2>1, <3>1
  <2>2. CASE p \in Served
    BY <1>2, <2>2, OrderSent DEF DevInv
  <2> QED BY <2>1, <2>2
<1>6. shownDev' = [q \in Ports |-> CodeOf(dev'[q])] /\ shownDev' \in [Ports -> 0..3]
  <2>1. shownDev' = [q \in Ports |-> CodeOf(dev'[q])]
    BY <1>2 DEF DevInv, ShownInv, InLoop
  <2> QED BY <1>3, <2>1, KindsAndCodes
<1>7. /\ setup' = NoSetup \/ setup' \in SetupFiles
      /\ spoiled' \in BOOLEAN /\ (~spoiled' => ~spoiled)
  <2>0. spoiled \in BOOLEAN /\ (setup = NoSetup \/ setup \in SetupFiles)
    BY DEF DevInv, DevTypes
  <2>1. \/ setup' = setup /\ spoiled' = spoiled
        \/ setup' = save_for(dev', running) /\ spoiled' = spoiled
        \/ setup' = setup /\ spoiled' = TRUE
    BY <1>2 DEF Keep
  <2>2. save_for(dev', running) \in SetupFiles
    BY <1>1, <1>3, SavedSetup
  <2> QED BY <2>0, <2>1, <2>2
<1>8. DevTypes'
  <2>1. DevTypeOK
    BY DEF DevInv, DevTypes
  <2>2. DevTypeOK'
    <3>1. missed' \subseteq Served
      BY <1>1, <1>5
    <3>2. /\ running' \in DevGames \union {""} /\ chosen' \in DevGames
          /\ padChoice' \in 0..3 /\ held' \in [Served -> SUBSET ControlTokens]
          /\ startup' \in {"off", "open", "told", "started"} /\ firstDue' \subseteq Served
      BY <2>1 DEF DevTypeOK
    <3> QED BY <1>3, <1>5, <1>6, <1>7, <3>1, <3>2, SetupFields DEF DevTypeOK
  <2> QED BY <1>5, <1>7, <2>2 DEF DevTypes
<1>9. ShownInv' /\ StageInv' /\ SilentInv'
  BY <1>3, <1>6, ServedPorts DEF DevInv, ShownInv, FilesFit, StageInv, SilentInv, InLoop
<1>10. AttachedInv'
  <2> SUFFICES ASSUME NEW q \in Served, dev'[q] # "GameCube"
               PROVE  LastOrder(q)' = HeldFor(Presented(q)')
    BY DEF AttachedInv
  <2>0. q \in Ports /\ dev[q] # "GameCube"
    BY <1>3, ServedPorts
  <2>1. CASE q = p
    <3>1. Presented(q)' = ext
      BY <1>3, <1>5, <2>0, <2>1 DEF Presented
    <3> QED BY <1>5, <2>1, <3>1
  <2>2. CASE q # p
    <3>1. Presented(q)' = Presented(q) /\ LastOrder(q)' = LastOrder(q)
      BY <1>3, <1>5, <2>0, <2>2 DEF LastOrder, Presented
    <3> QED BY <2>0, <3>1 DEF DevInv, AttachedInv, InLoop
  <2> QED BY <2>1, <2>2
<1>11. RestartPresentsTheSame'
  <2> SUFFICES ASSUME ~spoiled' PROVE chosen_pads(running)' = dev'
    BY DEF RestartPresentsTheSame
  <2>1. chosen_pads(running) = dev
    <3>1. running # ""
      BY DEF DevInv, StageInv, InLoop
    <3> QED BY <1>7, <3>1 DEF DevInv, RestartPresentsTheSame
  <2>2. CASE dev' = dev
    <3>1. setup' = setup
      BY <1>2, <2>2
    <3>2. chosen_pads(running)' = chosen_pads(running)
      BY <3>1 DEF chosen_pads, load_for
    <3> QED BY <2>1, <2>2, <3>2
  <2>3. CASE dev' # dev
    <3>1. running \notin CubeGames
      <4>1. dev # AllOf("GameCube")
        BY <1>3, <2>3
      <4> QED BY <2>1, <4>1 DEF chosen_pads
    <3>2. setup' = save_for(dev', running)
      BY <1>2, <1>7, <2>3 DEF Keep
    <3>3. chosen_pads(running)' = dev'
      BY <1>1, <1>3, <3>1, <3>2, SavedIsChosen
    <3> QED BY <3>3
  <2> QED BY <2>2, <2>3
<1> QED BY <1>8, <1>9, <1>10, <1>11 DEF DevInv

LEMMA DevStep ==
    ASSUME DevInv, [DevNext]_devVars PROVE DevInv'
<1>0. DevTypes /\ DevTypeOK
  BY DEF DevInv, DevTypes
<1>1. CASE UNCHANGED devVars
  <2>1. chosen_pads(running)' = chosen_pads(running)
    BY <1>1 DEF chosen_pads, load_for
  <2>2. \A p \in Served : LastOrder(p)' = LastOrder(p) /\ Presented(p)' = Presented(p)
    BY <1>1 DEF LastOrder, Presented
  <2>3. DevTypes' /\ ShownInv' /\ StageInv' /\ SilentInv'
    BY <1>1 DEF DevInv, DevTypes, DevTypeOK, ShownInv, FilesFit, StageInv, SilentInv
  <2>4. AttachedInv' /\ RestartPresentsTheSame'
    BY <1>1, <2>1, <2>2 DEF DevInv, AttachedInv, RestartPresentsTheSame
  <2> QED BY <2>3, <2>4 DEF DevInv
<1>2. CASE Boot \/ TellPages \/ StartEmulator
  BY <1>2, BootKeeps, TellKeeps, StartKeeps
<1>8. ASSUME NEW p \in Served, FirstOrder(p) PROVE DevInv'
  BY <1>8, FirstKeeps
<1>3. ASSUME NEW p \in Ports, NEW c \in 0..3, ChooseExtension(p, c) PROVE DevInv'
  <2>1. /\ wish' = [wish EXCEPT ![p] = c]
        /\ UNCHANGED <<running, startup, firstDue, chosen, dev, shownDev, files, setup, padChoice, ctl,
                       held, missed, spoiled>>
    BY <1>3 DEF ChooseExtension
  <2>2. wish' \in [Ports -> (0..3) \union {NoWish}]
    BY <1>0, <2>1 DEF DevTypeOK
  <2>3. chosen_pads(running)' = chosen_pads(running)
    BY <2>1 DEF chosen_pads, load_for
  <2>4. \A q \in Served : LastOrder(q)' = LastOrder(q) /\ Presented(q)' = Presented(q)
    BY <2>1 DEF LastOrder, Presented
  <2>5. DevTypes' /\ ShownInv' /\ StageInv' /\ SilentInv'
    BY <2>1, <2>2 DEF DevInv, DevTypes, DevTypeOK, ShownInv, FilesFit, StageInv, SilentInv
  <2>6. AttachedInv' /\ RestartPresentsTheSame'
    BY <2>1, <2>3, <2>4 DEF DevInv, AttachedInv, RestartPresentsTheSame
  <2> QED BY <2>5, <2>6 DEF DevInv
<1>4. ASSUME NEW p \in Ports, TakeExtension(p) PROVE DevInv'
  <2>1. /\ InLoop /\ wish' = [wish EXCEPT ![p] = NoWish]
        /\ UNCHANGED <<running, startup, firstDue, chosen, files, padChoice, held>>
        /\ RefusedExtension(p) \/ PluggedExtension(p, ExtensionOf(wish[p]))
    BY <1>4 DEF TakeExtension
  <2>2. wish' \in [Ports -> (0..3) \union {NoWish}]
    BY <1>0, <2>1 DEF DevTypeOK
  <2>3. CASE PluggedExtension(p, ExtensionOf(wish[p]))
    BY <2>1, <2>2, <2>3, ExtensionOfFacts, PluggedKeeps
  <2>4. CASE RefusedExtension(p)
    <3>1. UNCHANGED <<ctl, missed, dev, shownDev, setup, spoiled>>
      BY <2>4 DEF RefusedExtension
    <3>2. chosen_pads(running)' = chosen_pads(running)
      BY <2>1, <3>1 DEF chosen_pads, load_for
    <3>3. \A q \in Served : LastOrder(q)' = LastOrder(q) /\ Presented(q)' = Presented(q)
      BY <2>1, <3>1 DEF LastOrder, Presented
    <3>4. DevTypes' /\ ShownInv' /\ StageInv' /\ SilentInv'
      BY <2>1, <2>2, <3>1 DEF DevInv, DevTypes, DevTypeOK, ShownInv, FilesFit, StageInv, SilentInv
    <3>5. AttachedInv' /\ RestartPresentsTheSame'
      BY <2>1, <3>1, <3>2, <3>3 DEF DevInv, AttachedInv, RestartPresentsTheSame
    <3> QED BY <3>4, <3>5 DEF DevInv
  <2> QED BY <2>1, <2>3, <2>4
<1>5. ASSUME NEW p \in Served, PollControl(p) PROVE DevInv'
  BY <1>5, PollKeeps
<1>6. ASSUME NEW g \in DevGames, NEW s \in Setups, RememberChoice(g, s) PROVE DevInv'
  <2>1. setup' \in SetupFiles /\ CodeOf(s[1]) \in 0..3
    <3>1. setup' = save_for(s, g) /\ s \in [Ports -> PadKinds] /\ 1 \in Ports
      BY <1>6, FirstPort, NoSetupIsNone DEF RememberChoice, PadSets
    <3> QED BY <3>1, SavedSetup, KindsAndCodes
  <2>2. chosen' \in DevGames /\ padChoice' \in 0..3
    <3>1. chosen \in DevGames /\ padChoice \in 0..3
      BY <1>0 DEF DevTypeOK
    <3>2. \/ chosen' = g /\ padChoice' \in {padChoice, 0, CodeOf(s[1])}
          \/ chosen' \in DevGames /\ padChoice' = padChoice
      BY <1>6 DEF RememberChoice
    <3>3. \A code \in {padChoice, 0, CodeOf(s[1])} : code \in 0..3
      BY <2>1, <3>1
    <3> QED BY <3>1, <3>2, <3>3
  <2>3. CASE Forget
    BY <1>0, <2>1, <2>2, <2>3, ForgetKeeps
  <2>4. CASE /\ spoiled' = TRUE
             /\ UNCHANGED <<running, startup, firstDue, dev, shownDev, files, wish, ctl, held, missed>>
    <3>1. \A q \in Served : LastOrder(q)' = LastOrder(q) /\ Presented(q)' = Presented(q)
      BY <2>4 DEF LastOrder, Presented
    <3>2. DevTypes' /\ ShownInv' /\ StageInv' /\ SilentInv'
      <4>1. DevTypeOK'
        BY <1>0, <2>1, <2>2, <2>4, SetupFields DEF DevTypeOK
      <4>2. ShownInv' /\ StageInv' /\ SilentInv'
        BY <2>4 DEF DevInv, ShownInv, FilesFit, StageInv, SilentInv
      <4> QED BY <1>0, <2>1, <2>4, <4>1, <4>2 DEF DevTypes
    <3>3. AttachedInv' /\ RestartPresentsTheSame'
      BY <2>4, <3>1 DEF DevInv, AttachedInv, RestartPresentsTheSame
    <3> QED BY <3>2, <3>3 DEF DevInv
  <2> QED BY <1>6, <2>3, <2>4 DEF RememberChoice
<1>7. CASE WorkerDies
  <2>1. Forget /\ UNCHANGED <<chosen, setup, padChoice>>
    BY <1>7 DEF WorkerDies
  <2> QED BY <1>0, <2>1, ForgetKeeps DEF DevTypes, DevTypeOK
<1> QED BY <1>1, <1>2, <1>3, <1>4, <1>5, <1>6, <1>7, <1>8 DEF DevNext

\* The four properties of Devices.
DevicesHold == DevTypeOK /\ OneDevicePerPlace /\ ShownIsAttached /\ RestartPresentsTheSame

LEMMA FilesFitOne ==
    ASSUME FilesFit, NEW p \in Served
    PROVE  /\ dev[p] = "GameCube" => files.si[p] = 6 /\ ~(p \in DOMAIN files.wii /\ files.wii[p] = 1)
           /\ dev[p] # "GameCube" => files.si[p] # 6 /\ p \in DOMAIN files.wii /\ files.wii[p] = 1
BY DEF FilesFit

LEMMA DevInvGives == DevInv => DevicesHold
<1> SUFFICES ASSUME DevInv PROVE DevicesHold
  OBVIOUS
<1>1. DevTypeOK /\ RestartPresentsTheSame /\ dev \in [Ports -> PadKinds]
  BY DEF DevInv, DevTypes, DevTypeOK
<1>2. \A p \in Served : startup = "started" => /\ shownDev[p] = CodeOf(dev[p]) /\ dev[p] \in PadKinds
                                        /\ PadKindOf(shownDev[p]) = dev[p]
  BY <1>1, KindsAndCodes, ServedPorts DEF DevInv, ShownInv
<1>3. OneDevicePerPlace
  <2> SUFFICES ASSUME startup = "started", NEW p \in Served
               PROVE  /\ (files.si[p] = 6) = (shownDev[p] = CodeOf("GameCube"))
                      /\ (p \in DOMAIN files.wii /\ files.wii[p] = 1) = ~(shownDev[p] = CodeOf("GameCube"))
    BY DEF OneDevicePerPlace
  <2>1. (shownDev[p] = CodeOf("GameCube")) <=> (dev[p] = "GameCube")
    <3>1. shownDev[p] = CodeOf(dev[p]) /\ PadKindOf(shownDev[p]) = dev[p]
      BY <1>2
    <3>2. PadKindOf(CodeOf("GameCube")) = "GameCube"
      BY KindsAndCodes DEF PadKinds
    <3> QED BY <3>1, <3>2
  <2>2. /\ (files.si[p] = 6) <=> (dev[p] = "GameCube")
        /\ (p \in DOMAIN files.wii /\ files.wii[p] = 1) <=> (dev[p] # "GameCube")
    <3>1. FilesFit
      BY DEF DevInv, ShownInv
    <3> QED BY <3>1, FilesFitOne
  <2> QED BY <2>1, <2>2
<1>4. ShownIsAttached
  <2> SUFFICES ASSUME startup = "started", NEW p \in Served \ firstDue, ctl[p] = <<>>,
                      dev[p] # "GameCube"
               PROVE  Extension(held[p]) =
                        IF p \in missed THEN attachment("Nunchuk")
                        ELSE attachment(FirstExtension(PadKindOf(shownDev[p])))
    BY DEF ShownIsAttached
  <2>1. held[p] = HeldFor(Presented(p))
    BY DEF DevInv, AttachedInv, LastOrder
  <2>2. Presented(p) \in Extensions
    BY <1>2, KindsAndCodes DEF Presented, Extensions
  <2>3. Extension(held[p]) = attachment(Presented(p))
    BY <2>1, <2>2, ExtensionAttached
  <2> QED BY <1>2, <2>3 DEF Presented
<1> QED BY <1>1, <1>3, <1>4 DEF DevicesHold

\* The files, the control pipes, the pages and a restart agree, for any library,
\* any number of ports and any room in the control pipes.
THEOREM DevicesAlwaysAgree == DevSpec => []DevicesHold
<1>1. DevInit => DevInv
  BY DevBegins
<1>2. DevInv /\ [DevNext]_devVars => DevInv'
  BY DevStep
<1>3. DevInv => DevicesHold
  BY DevInvGives
<1> QED BY <1>1, <1>2, <1>3, PTL DEF DevSpec

=============================================================================
