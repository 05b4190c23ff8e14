--------------------------- MODULE FrameRingProofs --------------------------
(***************************************************************************)
(* Proofs that the frame ring keeps its safety properties for every ring   *)
(* size, every capacity of the socket and any number of rings.             *)
(***************************************************************************)
EXTENDS FrameRing, WellFoundedInduction, TLAPS

(***************************************************************************)
(* The stream towards the worker.  A reader that has adopted ring r and    *)
(* collected the descriptors of the slots below k of the next ring may     *)
(* receive m next; a message tells by itself where it leaves the reader.   *)
(***************************************************************************)
Follows(r, k, m) ==
    \/ m.kind = "header" /\ m.ring = r + 1 /\ m.slot = k
    \/ m.kind = "ready" /\ m.ring = r /\ k = 0

Middle(m) == m.kind = "header" /\ m.slot # RING_SIZE - 1
RingAfter(m) == IF Middle(m) THEN m.ring - 1 ELSE m.ring
CountAfter(m) == IF Middle(m) THEN m.slot + 1 ELSE 0

\* The emulator is where a reader that has received everything expects it.
SenderAt(r, k) ==
    /\ at = "ring" => ring = r + 1 /\ made = k
    /\ at \in {"wait", "collect", "draw", "send"} => ring = r /\ k = 0

ReaderAt(k) ==
    /\ k \in 0..(RING_SIZE - 1) /\ collected = 0..(k - 1)
    /\ toWorker # <<>> => Follows(adopted, k, toWorker[1])
    /\ toWorker = <<>> => SenderAt(adopted, k)

StreamInv ==
    /\ \E k \in 0..(RING_SIZE - 1) : ReaderAt(k)
    /\ \A i \in 1..(Len(toWorker) - 1) :
           Follows(RingAfter(toWorker[i]), CountAfter(toWorker[i]), toWorker[i + 1])
    /\ toWorker # <<>> => SenderAt(RingAfter(toWorker[Len(toWorker)]),
                                   CountAfter(toWorker[Len(toWorker)]))


(***************************************************************************)
(* The loans of the present ring.                                          *)
(***************************************************************************)
OnWire(s, i) == i \in 1..Len(toWorker) /\ toWorker[i] = Ready(ring, s)
Back(s, i) == i \in 1..Len(toDolphin) /\ toDolphin[i] = <<ring, s>>
Held(s) == reading = <<ring, s>>

\* No message is of a ring that was not made yet.
Past ==
    /\ \A i \in 1..Len(toWorker) : toWorker[i].ring <= ring
    /\ \A i \in 1..Len(toDolphin) : toDolphin[i][1] <= ring
    /\ reading # None => reading[1] <= ring
    /\ adopted <= ring

DrawsFree == at \in {"draw", "send"} => ~lent[index]

LentIsSomewhere ==
    \A s \in Slots : lent[s] =>
        (\E i \in Nat : OnWire(s, i)) \/ Held(s) \/ (\E i \in Nat : Back(s, i))

\* As long as no late release interfered, a slot that is not lent is nowhere,
\* and one that is lent is in one place.
FreeIsNowhere ==
    ~crossed /\ at # "off" => \A s \in Slots : ~lent[s] =>
        ~Held(s) /\ \A i \in Nat : ~OnWire(s, i) /\ ~Back(s, i)
LentIsOnce ==
    ~crossed => \A s \in Slots :
        /\ \A i, j \in Nat : OnWire(s, i) => ~Back(s, j) /\ (OnWire(s, j) => i = j)
        /\ Held(s) => \A i \in Nat : ~OnWire(s, i) /\ ~Back(s, i)

LoanInv == Past /\ DrawsFree /\ LentIsSomewhere /\ FreeIsNowhere /\ LentIsOnce

\* What the emulator may rely on at each step of OnFrame.
Working ==
    /\ at = "ring" => made < RING_SIZE
    /\ at \in {"ring", "collect", "draw", "send"} => ring # 0

-----------------------------------------------------------------------------

\* What taking from a queue does to its entries.
LEMMA Dequeue ==
    ASSUME NEW S, NEW q \in Seq(S), q # <<>>
    PROVE  /\ Len(q) \in Nat \ {0} /\ Head(q) \in S /\ Head(q) = q[1]
           /\ Tail(q) \in Seq(S) /\ Len(Tail(q)) = Len(q) - 1
           /\ \A i \in 1..(Len(q) - 1) : Tail(q)[i] = q[i + 1]
OBVIOUS

\* What adding to a queue does to its entries.
LEMMA Enqueue ==
    ASSUME NEW S, NEW q \in Seq(S), NEW e \in S
    PROVE  /\ Append(q, e) \in Seq(S) /\ Len(Append(q, e)) = Len(q) + 1
           /\ \A i \in 1..Len(q) : Append(q, e)[i] = q[i] /\ q[i] \in S
           /\ Append(q, e)[Len(q) + 1] = e
           /\ Append(q, e) # <<>> /\ Len(q) \in Nat
OBVIOUS

\* The slots are the numbers below the size of the ring.
LEMMA SlotsAreNumbers == \A s : s \in Slots <=> s \in Nat /\ s < RING_SIZE
BY RingAssumption DEF Slots

\* No picture is mistaken for none.
LEMMA NoneIsNoPicture == ASSUME NEW r \in Nat, NEW s \in Slots PROVE <<r, s>> # None
BY NoneAssumption, SlotsAreNumbers

\* A queue is empty exactly when its length is zero.
LEMMA EmptyQueue ==
    ASSUME NEW S, NEW q \in Seq(S)
    PROVE  Len(q) \in Nat /\ (q = <<>> <=> Len(q) = 0)
OBVIOUS

\* The fields of a message of the socket.
LEMMA MessageFields ==
    ASSUME NEW m \in Messages
    PROVE  m.kind \in {"header", "ready"} /\ m.ring \in 1..MaxRings /\ m.slot \in Slots
BY DEF Messages

\* The slot OnFrame takes is one that is not lent.
LEMMA FirstFreeIsFree ==
    ASSUME NEW busy \in [Slots -> BOOLEAN], NEW s0 \in Slots, ~busy[s0]
    PROVE  FirstFree(busy) \in Slots /\ ~busy[FirstFree(busy)]
<1> DEFINE T == {s \in Slots : ~busy[s]}
<1>1. T \subseteq Nat /\ T # {}
    BY SlotsAreNumbers
<1>2. PICK x \in T : \A y \in T : ~(<<y, x>> \in OpToRel(<, Nat))
  <2> HIDE DEF T
  <2> QED BY <1>1, WFMin, NatLessThanWellFounded, Zenon
<1>3. \A y \in T : x <= y
  <2> SUFFICES ASSUME NEW y \in T PROVE x <= y
      OBVIOUS
  <2>1. x \in Nat /\ y \in Nat
      BY <1>1, Zenon
  <2>2. ~(y < x)
      BY <1>2, <2>1, Zenon DEF OpToRel
  <2> QED BY <2>1, <2>2
<1>4. x \in Slots /\ ~busy[x] /\ \A q \in Slots : ~busy[q] => x <= q
    BY <1>3
<1> QED
    BY <1>4, Zenon DEF FirstFree

\* Whatever message is next, the worker's place in the stream makes it the right one.
LEMMA StreamGivesRightPicture == TypeOK /\ StreamInv => RightPicture
<1> SUFFICES ASSUME TypeOK, StreamInv, toWorker # <<>>, Head(toWorker).kind = "ready"
             PROVE  Head(toWorker).ring = adopted /\ collected = {}
    BY DEF RightPicture
<1>1. PICK k \in 0..(RING_SIZE - 1) : ReaderAt(k)
    BY DEF StreamInv
<1>2. Head(toWorker) = toWorker[1]
    BY DEF TypeOK
<1>3. k = 0 /\ toWorker[1].ring = adopted
    BY <1>1, <1>2 DEF ReaderAt, Follows
<1> QED
    BY <1>1, <1>2, <1>3 DEF ReaderAt

\* Every step keeps the state well formed, given that the worker reads the ring it
\* has.
LEMMA TypeStep ==
    TypeOK /\ Working /\ RightPicture /\ [Next]_vars => TypeOK' /\ Working'
<1> SUFFICES ASSUME TypeOK, Working, RightPicture, [Next]_vars PROVE TypeOK' /\ Working'
    OBVIOUS
<1> USE RingAssumption
<1>1. CASE OnFrame
    BY <1>1 DEF TypeOK, Working, OnFrame, workerVars
<1>2. CASE CreateRing
  <2>1. lent' \in [Slots -> BOOLEAN]
      BY <1>2 DEF CreateRing
  <2>2. ring' \in 0..MaxRings /\ ring' # 0 /\ made' \in 0..RING_SIZE /\ made' < RING_SIZE
      BY <1>2 DEF CreateRing, TypeOK
  <2> QED
      BY <1>2, <2>1, <2>2 DEF TypeOK, Working, CreateRing, workerVars
<1>3. CASE CreateSlot
  <2>1. Header(ring, made) \in Messages
      BY <1>3 DEF TypeOK, Working, CreateSlot, Messages, Header, Slots
  <2>2. toWorker' \in Seq(Messages)
      BY <2>1, <1>3, Enqueue DEF TypeOK, CreateSlot
  <2>3. at' \in {"ring", "collect"} /\ made' \in 0..RING_SIZE /\ (at' = "ring" => made' < RING_SIZE) /\ ring # 0
      BY <1>3 DEF TypeOK, Working, CreateSlot
  <2> QED
      BY <2>2, <2>3, <1>3 DEF TypeOK, Working, CreateSlot, workerVars
<1>4. CASE CreateSlotFails \/ CollectEnd \/ SendFails
    BY <1>4 DEF TypeOK, Working, CreateSlotFails, CollectEnd, SendFails, Disable, workerVars
<1>5. CASE CollectReleases
  <2>1. lent' \in [Slots -> BOOLEAN]
      BY <1>5 DEF CollectReleases, TypeOK
  <2>2. crossed' \in BOOLEAN
      BY <1>5 DEF CollectReleases, TypeOK
  <2>3. index' \in Slots /\ at' \in {"wait", "draw"}
    <3>1. CASE \A s \in Slots : lent'[s]
        BY <1>5, <3>1 DEF CollectReleases, TypeOK
    <3>2. CASE ~\A s \in Slots : lent'[s]
      <4>1. PICK s \in Slots : ~lent'[s]
          BY <3>2
      <4>2. FirstFree(lent') \in Slots
          BY <4>1, <2>1, FirstFreeIsFree
      <4> QED BY <1>5, <3>2, <4>2 DEF CollectReleases
    <3> QED BY <3>1, <3>2
  <2>4. toDolphin' \in Seq(Pictures)
      BY <1>5 DEF CollectReleases
  <2> QED
      BY <1>5, <2>1, <2>2, <2>3, <2>4 DEF CollectReleases, TypeOK, Working, workerVars
<1>6. CASE Draw
    BY <1>6 DEF TypeOK, Working, Draw, workerVars
<1>7. CASE SendReady
  <2>1. Ready(ring, index) \in Messages
      BY <1>7 DEF TypeOK, Working, SendReady, Messages, Ready
  <2>2. toWorker' \in Seq(Messages)
      BY <2>1, <1>7, Enqueue DEF TypeOK, SendReady
  <2>3. lent' \in [Slots -> BOOLEAN]
      BY <1>7 DEF TypeOK, SendReady
  <2> QED
      BY <2>2, <2>3, <1>7 DEF TypeOK, Working, SendReady, workerVars
<1>8. CASE collect_ring
  <2>1. Head(toWorker) \in Messages /\ Tail(toWorker) \in Seq(Messages)
      BY <1>8, Dequeue DEF collect_ring, TypeOK
  <2>2. adopted' \in 0..MaxRings /\ collected' \subseteq Slots
      BY <1>8, <2>1, MessageFields DEF collect_ring, TypeOK
  <2> QED
      BY <1>8, <2>1, <2>2 DEF TypeOK, Working, collect_ring, dolphinVars
<1>9. CASE next_frame
  <2>1. Head(toWorker) \in Messages /\ Tail(toWorker) \in Seq(Messages)
      BY <1>9, Dequeue DEF next_frame, TypeOK
  <2>2. adopted \in 1..MaxRings
      BY <1>9, <2>1, MessageFields DEF next_frame, RightPicture
  <2>3. reading' \in Pictures
      BY <1>9, <2>1, <2>2, MessageFields DEF next_frame, Pictures
  <2> QED
      BY <1>9, <2>1, <2>3 DEF TypeOK, Working, next_frame, dolphinVars
<1>10. CASE release
  <2>1. reading \in Pictures
      BY <1>10 DEF release, TypeOK
  <2>2. toDolphin' \in Seq(Pictures)
      BY <1>10, <2>1, Enqueue DEF release, TypeOK
  <2> QED
      BY <1>10, <2>2 DEF TypeOK, Working, release, dolphinVars
<1>11. CASE LoopEnds
    BY <1>11 DEF TypeOK, Working, LoopEnds, dolphinVars
<1>12. CASE UNCHANGED vars
    BY <1>12 DEF TypeOK, Working, vars
<1> QED
    BY <1>1, <1>2, <1>3, <1>4, <1>5, <1>6, <1>7, <1>8, <1>9, <1>10, <1>11, <1>12 DEF Next

-----------------------------------------------------------------------------

\* Where a message leaves its reader.
LEMMA AfterFields ==
    ASSUME NEW m \in Messages
    PROVE  RingAfter(m) \in Nat /\ CountAfter(m) \in 0..(RING_SIZE - 1)
BY MessageFields, RingAssumption DEF RingAfter, CountAfter, Middle, Slots

\* A step that leaves the stream alone and the emulator where a reader expects it.
LEMMA StreamUntouched ==
    ASSUME TypeOK, StreamInv, UNCHANGED <<toWorker, adopted, collected>>,
           \A r, k \in Nat : SenderAt(r, k) => SenderAt(r, k)'
    PROVE  StreamInv'
<1>1. PICK k \in 0..(RING_SIZE - 1) : ReaderAt(k)
    BY DEF StreamInv
<1>2. adopted \in Nat /\ k \in Nat
    BY DEF TypeOK
<1>3. ReaderAt(k)'
  <2>1. (k \in 0..(RING_SIZE - 1) /\ collected' = 0..(k - 1))
        /\ (toWorker' # <<>> => Follows(adopted', k, toWorker'[1]))
      BY <1>1 DEF ReaderAt
  <2>2. toWorker' = <<>> => SenderAt(adopted, k)'
      BY <1>1, <1>2 DEF ReaderAt
  <2> QED
      BY <2>1, <2>2 DEF ReaderAt, SenderAt
<1>4. ASSUME toWorker # <<>>
      PROVE  SenderAt(RingAfter(toWorker[Len(toWorker)]), CountAfter(toWorker[Len(toWorker)]))'
  <2>1. toWorker[Len(toWorker)] \in Messages
      BY <1>4 DEF TypeOK
  <2> DEFINE r == RingAfter(toWorker[Len(toWorker)])
             c == CountAfter(toWorker[Len(toWorker)])
  <2>2. r \in Nat /\ c \in Nat /\ SenderAt(r, c)
      BY <2>1, <1>4, AfterFields DEF StreamInv
  <2>3. r' = r /\ c' = c
      BY DEF RingAfter, CountAfter, Middle
  <2> QED
      BY <2>2, <2>3 DEF SenderAt
<1> QED
    BY <1>1, <1>3, <1>4 DEF StreamInv

\* The emulator sends the message a reader expects, and goes where it then expects it.
LEMMA StreamAppends ==
    ASSUME TypeOK, StreamInv, NEW m \in Messages,
           toWorker' = Append(toWorker, m), UNCHANGED <<adopted, collected>>,
           \A r, k \in Nat : SenderAt(r, k) => Follows(r, k, m),
           SenderAt(RingAfter(m), CountAfter(m))'
    PROVE  StreamInv'
<1> DEFINE n == Len(toWorker)
<1>1. /\ n \in Nat /\ Len(toWorker') = n + 1 /\ toWorker' # <<>>
      /\ \A i \in 1..n : toWorker'[i] = toWorker[i] /\ toWorker[i] \in Messages
      /\ toWorker'[n + 1] = m
    BY Enqueue DEF TypeOK
<1>2. (toWorker = <<>> => n = 0) /\ (toWorker # <<>> => n > 0)
    BY DEF TypeOK
<1>3. PICK k \in 0..(RING_SIZE - 1) : ReaderAt(k)
    BY DEF StreamInv
<1>4. Follows(adopted, k, toWorker'[1])
  <2>1. CASE toWorker = <<>>
    <3>1. toWorker'[1] = m
        BY <1>1, <1>2, <2>1
    <3>2. SenderAt(adopted, k) /\ adopted \in Nat /\ k \in Nat
        BY <1>3, <2>1 DEF ReaderAt, TypeOK
    <3> QED BY <3>1, <3>2
  <2>2. CASE toWorker # <<>>
      BY <1>1, <1>2, <1>3, <2>2 DEF ReaderAt
  <2> QED BY <2>1, <2>2
<1>5. ReaderAt(k)'
    BY <1>1, <1>3, <1>4 DEF ReaderAt
<1>6. ASSUME NEW i \in 1..n
      PROVE  Follows(RingAfter(toWorker'[i]), CountAfter(toWorker'[i]), toWorker'[i + 1])
  <2>1. toWorker'[i] = toWorker[i] /\ toWorker[i] \in Messages
      BY <1>1
  <2>2. CASE i = n
    <3>1. toWorker # <<>>
        BY <1>2
    <3>2. SenderAt(RingAfter(toWorker[i]), CountAfter(toWorker[i]))
        BY <3>1, <2>2 DEF StreamInv
    <3>3. RingAfter(toWorker[i]) \in Nat /\ CountAfter(toWorker[i]) \in Nat
        BY <2>1, AfterFields
    <3> QED BY <1>1, <2>1, <2>2, <3>2, <3>3
  <2>3. CASE i # n
    <3>1. i \in 1..(n - 1) /\ i + 1 \in 1..n
        BY <1>1, <2>3
    <3>2. Follows(RingAfter(toWorker[i]), CountAfter(toWorker[i]), toWorker[i + 1])
        BY <3>1 DEF StreamInv
    <3> QED BY <1>1, <2>1, <3>1, <3>2
  <2> QED BY <2>2, <2>3
<1>7. SenderAt(RingAfter(toWorker[Len(toWorker)]), CountAfter(toWorker[Len(toWorker)]))'
    BY <1>1 DEF SenderAt, RingAfter, CountAfter, Middle
<1>8. \A i \in 1..(Len(toWorker') - 1) :
          Follows(RingAfter(toWorker'[i]), CountAfter(toWorker'[i]), toWorker'[i + 1])
    BY <1>1, <1>6
<1> QED
    BY <1>5, <1>7, <1>8 DEF StreamInv, RingAfter, CountAfter, Middle, Follows

\* The worker takes a message and goes where it leads.
LEMMA StreamTakes ==
    ASSUME TypeOK, StreamInv, toWorker # <<>>, toWorker' = Tail(toWorker),
           UNCHANGED <<at, ring, made>>, adopted' = RingAfter(toWorker[1]),
           collected' = 0..(CountAfter(toWorker[1]) - 1)
    PROVE  StreamInv'
<1> DEFINE n == Len(toWorker)
<1>1. /\ n \in Nat \ {0} /\ Len(toWorker') = n - 1 /\ toWorker[1] \in Messages
      /\ \A i \in 1..(n - 1) : toWorker'[i] = toWorker[i + 1]
      /\ toWorker' \in Seq(Messages)
    BY Dequeue DEF TypeOK
<1>2. (toWorker' = <<>> => n = 1) /\ (toWorker' # <<>> => n > 1)
  <2>1. toWorker' = <<>> <=> Len(toWorker') = 0
      BY <1>1, EmptyQueue, Zenon
  <2> QED BY <1>1, <2>1
<1> DEFINE k == CountAfter(toWorker[1])
<1>3. k \in 0..(RING_SIZE - 1)
    BY <1>1, AfterFields
<1>4. ASSUME toWorker' # <<>> PROVE Follows(adopted', k, toWorker'[1])
  <2>1. toWorker'[1] = toWorker[2] /\ 1 \in 1..(n - 1)
      BY <1>1, <1>2, <1>4
  <2> QED BY <2>1 DEF StreamInv
<1>5. ASSUME toWorker' = <<>> PROVE SenderAt(adopted', k)
  <2>1. n = 1
      BY <1>2, <1>5
  <2> QED BY <2>1 DEF StreamInv
<1>6. \E c \in 0..(RING_SIZE - 1) : ReaderAt(c)'
  <2>1. (toWorker' = <<>> =>
            (at' = "ring" => ring' = adopted' + 1 /\ made' = k)
            /\ (at' \in {"wait", "collect", "draw", "send"} => ring' = adopted' /\ k = 0))
      BY <1>5 DEF SenderAt
  <2>2. \A c : c = k => ReaderAt(c)'
      BY <1>3, <1>4, <2>1 DEF ReaderAt, SenderAt
  <2> QED BY <1>3, <2>2
<1>7. ASSUME NEW i \in 1..(Len(toWorker') - 1)
      PROVE  Follows(RingAfter(toWorker'[i]), CountAfter(toWorker'[i]), toWorker'[i + 1])
  <2>1. i \in 1..(n - 1) /\ i + 1 \in 1..(n - 1)
      BY <1>1
  <2>2. toWorker'[i] = toWorker[i + 1] /\ toWorker'[i + 1] = toWorker[(i + 1) + 1]
      BY <1>1, <2>1
  <2> QED BY <2>1, <2>2 DEF StreamInv
<1>8. ASSUME toWorker' # <<>>
      PROVE  SenderAt(RingAfter(toWorker[Len(toWorker)]), CountAfter(toWorker[Len(toWorker)]))'
  <2>1. toWorker'[Len(toWorker')] = toWorker[n] /\ toWorker # <<>>
      BY <1>1, <1>2, <1>8
  <2>2. SenderAt(RingAfter(toWorker[n]), CountAfter(toWorker[n]))
      BY <2>1 DEF StreamInv
  <2> QED
      BY <2>1, <2>2 DEF SenderAt, RingAfter, CountAfter, Middle
<1> QED
    BY <1>6, <1>7, <1>8 DEF StreamInv, RingAfter, CountAfter, Middle, Follows

\* Every step keeps the two ends in agreement on where the stream is.
LEMMA StreamStep ==
    TypeOK /\ Working /\ StreamInv /\ [Next]_vars => StreamInv'
<1> SUFFICES ASSUME TypeOK, Working, StreamInv, [Next]_vars PROVE StreamInv'
    OBVIOUS
<1>1. CASE OnFrame
    BY <1>1, StreamUntouched DEF OnFrame, SenderAt, workerVars
<1>2. CASE CreateRing
  <2>1. \A r, k \in Nat : SenderAt(r, k) => SenderAt(r, k)'
      BY <1>2 DEF CreateRing, SenderAt
  <2> QED BY <1>2, <2>1, StreamUntouched DEF CreateRing, workerVars
<1>3. CASE CreateSlot
  <2> DEFINE m == Header(ring, made)
  <2>1. m \in Messages /\ m.kind = "header" /\ m.ring = ring /\ m.slot = made
      BY <1>3, RingAssumption DEF CreateSlot, TypeOK, Working, Messages, Header, Slots
  <2>2. \A r, k \in Nat : SenderAt(r, k) => Follows(r, k, m)
      BY <1>3, <2>1 DEF CreateSlot, SenderAt, Follows
  <2>3. /\ at' = "ring" => ring' = RingAfter(m) + 1 /\ made' = CountAfter(m)
        /\ at' \in {"wait", "collect", "draw", "send"} =>
               ring' = RingAfter(m) /\ CountAfter(m) = 0
    <3>1. /\ made' = made + 1 /\ ring' = ring
          /\ at' = IF made + 1 = RING_SIZE THEN "collect" ELSE "ring"
        BY <1>3 DEF CreateSlot
    <3>2. made \in Nat /\ ring \in Nat /\ RING_SIZE \in Nat
        BY RingAssumption DEF TypeOK
    <3> HIDE DEF m
    <3> QED
        BY <2>1, <3>1, <3>2 DEF RingAfter, CountAfter, Middle
  <2>4. \A r, k : r = RingAfter(m) /\ k = CountAfter(m) => SenderAt(r, k)'
    <3> HIDE DEF m
    <3> QED BY <2>3 DEF SenderAt
  <2>5. \A e \in Messages : e = m => StreamInv'
    <3> SUFFICES ASSUME NEW e \in Messages, e = m PROVE StreamInv'
        OBVIOUS
    <3>1. toWorker' = Append(toWorker, e) /\ UNCHANGED <<adopted, collected>>
        BY <1>3 DEF CreateSlot, workerVars
    <3>2. SenderAt(RingAfter(e), CountAfter(e))'
        BY <2>4 DEF RingAfter, CountAfter, Middle, SenderAt
    <3> HIDE DEF m
    <3> QED BY <2>2, <3>1, <3>2, StreamAppends
  <2> QED BY <2>1, <2>5
<1>4. CASE CreateSlotFails \/ CollectEnd \/ SendFails
  <2>1. at' = "off" /\ UNCHANGED <<toWorker, adopted, collected>>
      BY <1>4 DEF CreateSlotFails, CollectEnd, SendFails, Disable, workerVars
  <2>2. \A r, k \in Nat : SenderAt(r, k) => SenderAt(r, k)'
      BY <2>1 DEF SenderAt
  <2> QED BY <2>1, <2>2, StreamUntouched
<1>5. CASE CollectReleases
  <2>1. /\ at = "collect" /\ at' \in {"wait", "draw"}
        /\ UNCHANGED <<ring, toWorker, adopted, collected>>
      BY <1>5 DEF CollectReleases, workerVars
  <2>2. \A r, k \in Nat : SenderAt(r, k) => SenderAt(r, k)'
      BY <2>1 DEF SenderAt
  <2> QED BY <2>1, <2>2, StreamUntouched
<1>6. CASE Draw
    BY <1>6, StreamUntouched DEF Draw, SenderAt, workerVars
<1>7. CASE SendReady
  <2>1. CASE Len(toWorker) < Wire
    <3> DEFINE m == Ready(ring, index)
    <3>1. m \in Messages /\ m.kind = "ready" /\ m.ring = ring
        BY <1>7 DEF SendReady, TypeOK, Working, Messages, Ready
    <3>2. at = "send" /\ at' = "wait" /\ ring' = ring
        BY <1>7 DEF SendReady
    <3>3. RingAfter(m) = ring /\ CountAfter(m) = 0
        BY <3>1 DEF RingAfter, CountAfter, Middle
    <3>4. \A e \in Messages : e = m => StreamInv'
      <4> SUFFICES ASSUME NEW e \in Messages, e = m PROVE StreamInv'
          OBVIOUS
      <4>1. toWorker' = Append(toWorker, e) /\ UNCHANGED <<adopted, collected>>
          BY <1>7, <2>1 DEF SendReady, workerVars
      <4> HIDE DEF m
      <4>2. \A r, k \in Nat : SenderAt(r, k) => Follows(r, k, e)
          BY <3>1, <3>2 DEF SenderAt, Follows
      <4>3. SenderAt(RingAfter(e), CountAfter(e))'
          BY <3>2, <3>3 DEF SenderAt, RingAfter, CountAfter, Middle
      <4> QED BY <4>1, <4>2, <4>3, StreamAppends
    <3> QED BY <3>1, <3>4
  <2>2. CASE ~(Len(toWorker) < Wire)
      BY <1>7, <2>2, StreamUntouched DEF SendReady, SenderAt, workerVars
  <2> QED BY <2>1, <2>2
<1>8. CASE collect_ring
  <2> DEFINE m == toWorker[1]
  <2>1. /\ m \in Messages /\ Head(toWorker) = m /\ m.kind = "header" /\ toWorker # <<>>
        /\ toWorker' = Tail(toWorker) /\ UNCHANGED <<at, ring, made>>
      BY <1>8, Dequeue DEF collect_ring, dolphinVars, TypeOK
  <2>2. PICK k \in 0..(RING_SIZE - 1) : ReaderAt(k)
      BY DEF StreamInv
  <2>3. m.ring = adopted + 1 /\ m.slot = k /\ collected = 0..(k - 1) /\ adopted \in Nat
      BY <2>1, <2>2 DEF ReaderAt, Follows, TypeOK
  <2>4. collected \union {m.slot} = 0..k
      BY <2>3
  <2>5. 0..k = Slots <=> k = RING_SIZE - 1
      BY RingAssumption DEF Slots
  <2>6. adopted' = RingAfter(m) /\ collected' = 0..(CountAfter(m) - 1)
    <3>1. CASE k = RING_SIZE - 1
      <4>1. adopted' = m.ring /\ collected' = {}
          BY <1>8, <2>1, <2>4, <2>5, <3>1 DEF collect_ring
      <4> QED BY <4>1, <2>3, <3>1 DEF RingAfter, CountAfter, Middle
    <3>2. CASE k # RING_SIZE - 1
      <4>1. adopted' = adopted /\ collected' = 0..k
          BY <1>8, <2>1, <2>4, <2>5, <3>2 DEF collect_ring
      <4> QED BY <4>1, <2>1, <2>3, <3>2 DEF RingAfter, CountAfter, Middle
    <3> QED BY <3>1, <3>2
  <2> QED BY <2>1, <2>6, StreamTakes
<1>9. CASE next_frame
  <2> DEFINE m == toWorker[1]
  <2>1. /\ m \in Messages /\ Head(toWorker) = m /\ m.kind = "ready" /\ toWorker # <<>>
        /\ toWorker' = Tail(toWorker) /\ UNCHANGED <<at, ring, made, adopted, collected>>
      BY <1>9, Dequeue DEF next_frame, dolphinVars, TypeOK
  <2>2. m.ring = adopted /\ collected = {}
      BY <2>1, StreamGivesRightPicture DEF RightPicture
  <2>3. adopted' = RingAfter(m) /\ collected' = 0..(CountAfter(m) - 1)
      BY <2>1, <2>2 DEF RingAfter, CountAfter, Middle
  <2> QED BY <2>1, <2>3, StreamTakes
<1>10. CASE release \/ LoopEnds \/ UNCHANGED vars
    BY <1>10, StreamUntouched DEF release, LoopEnds, vars, dolphinVars, SenderAt
<1> QED
    BY <1>1, <1>2, <1>3, <1>4, <1>5, <1>6, <1>7, <1>8, <1>9, <1>10 DEF Next

-----------------------------------------------------------------------------

\* What a message sent adds to the loans on the wire.
LEMMA WireAppend ==
    ASSUME TypeOK, NEW m \in Messages, toWorker' = Append(toWorker, m), ring' = ring,
           m.ring <= ring, Past
    PROVE  /\ \A s, i : OnWire(s, i)' <=>
                  OnWire(s, i) \/ (i = Len(toWorker) + 1 /\ m = Ready(ring, s))
           /\ \A i \in 1..Len(toWorker') : toWorker'[i].ring <= ring
<1>1. /\ Len(toWorker) \in Nat /\ Len(toWorker') = Len(toWorker) + 1
      /\ \A i \in 1..Len(toWorker) : toWorker'[i] = toWorker[i]
      /\ toWorker'[Len(toWorker) + 1] = m
    BY Enqueue DEF TypeOK
<1>2. \A i : i \in 1..Len(toWorker') <=> i \in 1..Len(toWorker) \/ i = Len(toWorker) + 1
    BY <1>1
<1>3. ASSUME NEW s, NEW i
      PROVE  OnWire(s, i)' <=> OnWire(s, i) \/ (i = Len(toWorker) + 1 /\ m = Ready(ring, s))
  <2>1. OnWire(s, i)' <=> i \in 1..Len(toWorker') /\ toWorker'[i] = Ready(ring, s)
      BY DEF OnWire, Ready
  <2>2. Len(toWorker) + 1 \notin 1..Len(toWorker)
      BY <1>1
  <2> QED BY <1>1, <1>2, <2>1, <2>2 DEF OnWire
<1>4. \A i \in 1..Len(toWorker') : toWorker'[i].ring <= ring
    BY <1>1, <1>2 DEF Past
<1> QED BY <1>3, <1>4

\* What a message taken removes from the loans on the wire.
LEMMA WireTake ==
    ASSUME TypeOK, toWorker # <<>>, toWorker' = Tail(toWorker), ring' = ring, Past
    PROVE  /\ \A s : \A i \in Nat : OnWire(s, i)' <=> i # 0 /\ OnWire(s, i + 1)
           /\ \A i \in 1..Len(toWorker') : toWorker'[i].ring <= ring
<1>1. /\ Len(toWorker) \in Nat \ {0} /\ Len(toWorker') = Len(toWorker) - 1
      /\ \A i \in 1..(Len(toWorker) - 1) : toWorker'[i] = toWorker[i + 1]
    BY Dequeue DEF TypeOK
<1>2. ASSUME NEW s, NEW i \in Nat
      PROVE  OnWire(s, i)' <=> i # 0 /\ OnWire(s, i + 1)
  <2>1. OnWire(s, i)' <=> i \in 1..Len(toWorker') /\ toWorker'[i] = Ready(ring, s)
      BY DEF OnWire, Ready
  <2>2. i \in 1..(Len(toWorker) - 1) <=> i # 0 /\ i + 1 \in 1..Len(toWorker)
      BY <1>1
  <2> QED BY <1>1, <2>1, <2>2 DEF OnWire
<1>3. ASSUME NEW i \in 1..Len(toWorker') PROVE toWorker'[i].ring <= ring
  <2>1. i \in 1..(Len(toWorker) - 1) /\ i + 1 \in 1..Len(toWorker)
      BY <1>1
  <2> QED BY <1>1, <2>1 DEF Past
<1> QED BY <1>2, <1>3

\* What a release adds to the loans on their way back.
LEMMA BackAppend ==
    ASSUME TypeOK, NEW q \in Pictures, toDolphin' = Append(toDolphin, q), ring' = ring,
           q[1] <= ring, Past
    PROVE  /\ \A s, i : Back(s, i)' <=>
                  Back(s, i) \/ (i = Len(toDolphin) + 1 /\ q = <<ring, s>>)
           /\ \A i \in 1..Len(toDolphin') : toDolphin'[i][1] <= ring
<1>1. /\ Len(toDolphin) \in Nat /\ Len(toDolphin') = Len(toDolphin) + 1
      /\ \A i \in 1..Len(toDolphin) : toDolphin'[i] = toDolphin[i]
      /\ toDolphin'[Len(toDolphin) + 1] = q
    BY Enqueue DEF TypeOK
<1>2. \A i : i \in 1..Len(toDolphin') <=> i \in 1..Len(toDolphin) \/ i = Len(toDolphin) + 1
    BY <1>1
<1>3. ASSUME NEW s, NEW i
      PROVE  Back(s, i)' <=> Back(s, i) \/ (i = Len(toDolphin) + 1 /\ q = <<ring, s>>)
  <2>1. Back(s, i)' <=> i \in 1..Len(toDolphin') /\ toDolphin'[i] = <<ring, s>>
      BY DEF Back
  <2>2. Len(toDolphin) + 1 \notin 1..Len(toDolphin)
      BY <1>1
  <2> QED BY <1>1, <1>2, <2>1, <2>2 DEF Back
<1>4. \A i \in 1..Len(toDolphin') : toDolphin'[i][1] <= ring
    BY <1>1, <1>2 DEF Past
<1> QED BY <1>3, <1>4

\* A step that moves no loan.
LEMMA LoansUntouched ==
    ASSUME TypeOK, LoanInv, UNCHANGED <<ring, lent, toDolphin, reading, crossed, adopted>>,
           \A s, i : OnWire(s, i)' <=> OnWire(s, i),
           \A i \in 1..Len(toWorker') : toWorker'[i].ring <= ring,
           at' \in {"draw", "send"} => at \in {"draw", "send"} /\ index' = index,
           at = "off" => at' = "off"
    PROVE  LoanInv'
<1>1. (\A s, i : Back(s, i)' <=> Back(s, i)) /\ \A s : Held(s)' <=> Held(s)
    BY DEF Back, Held
<1>2. Past'
    BY DEF LoanInv, Past
<1>3. DrawsFree'
    BY DEF LoanInv, DrawsFree
<1>4. LentIsSomewhere'
    BY <1>1 DEF LoanInv, LentIsSomewhere
<1>5. FreeIsNowhere'
    BY <1>1 DEF LoanInv, FreeIsNowhere
<1>6. LentIsOnce'
    BY <1>1 DEF LoanInv, LentIsOnce
<1> QED BY <1>2, <1>3, <1>4, <1>5, <1>6 DEF LoanInv

\* A notification is a ring and a slot.
LEMMA ReadyIsItsFields ==
    ASSUME NEW m \in Messages, m.kind = "ready"
    PROVE  m = Ready(m.ring, m.slot)
BY DEF Messages, Ready

\* Every step keeps the account of the loans: one step per action, and under it one
\* per part of LoanInv.
LEMMA LoanStep ==
    TypeOK /\ Working /\ StreamInv /\ LoanInv /\ [Next]_vars => LoanInv'
<1> SUFFICES ASSUME TypeOK, Working, StreamInv, LoanInv, [Next]_vars PROVE LoanInv'
    OBVIOUS
<1> DEFINE SameWire == \A s, i : OnWire(s, i)' <=> OnWire(s, i)
           PastWire == \A i \in 1..Len(toWorker') : toWorker'[i].ring <= ring
<1>0. UNCHANGED <<ring, toWorker>> => SameWire /\ PastWire
    BY DEF OnWire, Ready, LoanInv, Past
<1>1. CASE OnFrame \/ Draw \/ LoopEnds \/ UNCHANGED vars
  <2>1. /\ UNCHANGED <<ring, toWorker, lent, toDolphin, reading, crossed, adopted, index>>
        /\ at' \in {"draw", "send"} => at \in {"draw", "send"}
        /\ at = "off" => at' = "off"
      BY <1>1 DEF OnFrame, Draw, LoopEnds, vars, workerVars, dolphinVars
  <2> QED BY <1>0, <2>1, LoansUntouched
<1>2. CASE CreateRing
  <2>1. /\ at' = "ring" /\ ring' = ring + 1 /\ crossed' = FALSE
        /\ lent' = [s \in Slots |-> FALSE]
        /\ UNCHANGED <<toWorker, toDolphin, adopted, reading>>
      BY <1>2 DEF CreateRing, workerVars
  <2>2. ring \in Nat /\ adopted \in Nat
      BY DEF TypeOK
  <2>3. /\ \A i \in 1..Len(toWorker) : toWorker[i].ring \in Nat /\ toWorker[i].ring <= ring
        /\ \A i \in 1..Len(toDolphin) : toDolphin[i][1] \in Nat /\ toDolphin[i][1] <= ring
        /\ reading # None => reading[1] \in Nat /\ reading[1] <= ring
    <3>1. \A i \in 1..Len(toWorker) : toWorker[i] \in Messages
        BY DEF TypeOK
    <3>2. \A i \in 1..Len(toDolphin) : toDolphin[i] \in Pictures
        BY DEF TypeOK
    <3>3. reading # None => reading \in Pictures
        BY DEF TypeOK
    <3> QED BY <3>1, <3>2, <3>3, MessageFields DEF LoanInv, Past, Pictures
  <2>4. Past'
      BY <2>1, <2>2, <2>3 DEF Past, LoanInv
  <2>5. \A s \in Slots : \A i : ~OnWire(s, i)' /\ ~Back(s, i)'
      BY <2>1, <2>2, <2>3 DEF OnWire, Back, Ready
  <2>6. \A s \in Slots : ~Held(s)'
    <3>1. ASSUME NEW s \in Slots, reading = <<ring + 1, s>> PROVE FALSE
      <4>1. reading # None /\ reading[1] = ring + 1
          BY <2>2, <3>1, NoneIsNoPicture
      <4> QED BY <2>2, <2>3, <4>1
    <3> QED BY <2>1, <3>1 DEF Held
  <2> QED BY <2>1, <2>4, <2>5, <2>6 DEF LoanInv, DrawsFree, LentIsSomewhere, FreeIsNowhere, LentIsOnce
<1>3. CASE CreateSlot
  <2>1. /\ at = "ring" /\ at' \in {"ring", "collect"} /\ toWorker' = Append(toWorker, Header(ring, made))
        /\ UNCHANGED <<ring, lent, toDolphin, reading, crossed, adopted>>
      BY <1>3 DEF CreateSlot, workerVars
  <2>2. /\ Header(ring, made) \in Messages /\ Header(ring, made).ring <= ring
        /\ \A s : Header(ring, made) # Ready(ring, s)
      BY <2>1, RingAssumption DEF TypeOK, Working, Messages, Header, Ready, Slots
  <2>3. SameWire /\ PastWire
      BY <2>1, <2>2, WireAppend DEF LoanInv
  <2> QED BY <2>1, <2>3, LoansUntouched
<1>4. CASE CreateSlotFails \/ CollectEnd \/ SendFails
  <2>1. /\ at' = "off" /\ lent' = [s \in Slots |-> FALSE]
        /\ UNCHANGED <<ring, toWorker, toDolphin, reading, crossed, adopted>>
      BY <1>4 DEF CreateSlotFails, CollectEnd, SendFails, Disable, workerVars
  <2>2. /\ \A s, i : (OnWire(s, i)' <=> OnWire(s, i)) /\ (Back(s, i)' <=> Back(s, i))
        /\ \A s : Held(s)' <=> Held(s)
      BY <1>0, <2>1 DEF Back, Held
  <2>3. Past'
      BY <2>1 DEF LoanInv, Past
  <2>4. LentIsOnce'
      BY <2>1, <2>2 DEF LoanInv, LentIsOnce
  <2> QED
      BY <2>1, <2>3, <2>4 DEF LoanInv, DrawsFree, LentIsSomewhere, FreeIsNowhere
<1>5. CASE CollectReleases
  <2>1. /\ at = "collect" /\ UNCHANGED <<ring, toWorker, reading, adopted>>
        /\ toDolphin' = <<>>
        /\ lent' = [s \in Slots |-> lent[s] /\ s \notin Returned]
        /\ crossed' = (crossed \/ \E s \in ReturnedLate : lent[s])
      BY <1>5 DEF CollectReleases, workerVars
  <2>2. SameWire /\ (\A s : Held(s)' <=> Held(s)) /\ \A s, i : ~Back(s, i)'
      BY <1>0, <2>1 DEF Held, Back
  <2>3. Past'
      BY <2>1 DEF LoanInv, Past
  <2>4. DrawsFree'
    <3> SUFFICES ASSUME at' \in {"draw", "send"} PROVE ~lent'[index']
        BY DEF DrawsFree
    <3>1. index' = FirstFree(lent') /\ ~\A s \in Slots : lent'[s]
        BY <1>5 DEF CollectReleases
    <3>2. lent' \in [Slots -> BOOLEAN]
        BY <2>1 DEF TypeOK
    <3> QED BY <3>1, <3>2, FirstFreeIsFree
  <2>5. \A s \in Slots : \A i : Back(s, i) => s \in Returned
      BY DEF Back, Returned
  <2>6. \A s \in Slots : s \in Returned => s \in ReturnedLate \/ \E i \in Nat : Back(s, i)
    <3> SUFFICES ASSUME NEW s \in Slots, s \in Returned, s \notin ReturnedLate
                 PROVE  \E i \in Nat : Back(s, i)
        OBVIOUS
    <3>1. PICK i \in 1..Len(toDolphin) : toDolphin[i][2] = s
        BY DEF Returned
    <3>2. toDolphin[i][1] = ring
        BY <3>1 DEF ReturnedLate
    <3>3. toDolphin[i] \in Pictures
        BY <3>1 DEF TypeOK
    <3>4. toDolphin[i] = <<ring, s>>
        BY <3>1, <3>2, <3>3 DEF Pictures
    <3> QED BY <3>1, <3>4 DEF Back
  <2>7. LentIsSomewhere'
    <3> SUFFICES ASSUME NEW s \in Slots, lent'[s]
                 PROVE  (\E i \in Nat : OnWire(s, i)') \/ Held(s)' \/ (\E i \in Nat : Back(s, i)')
        BY DEF LentIsSomewhere
    <3>1. lent[s] /\ s \notin Returned
        BY <2>1
    <3> QED BY <3>1, <2>2, <2>5 DEF LoanInv, LentIsSomewhere
  <2>8. FreeIsNowhere'
    <3> SUFFICES ASSUME ~crossed', NEW s \in Slots, ~lent'[s]
                 PROVE  ~Held(s)' /\ \A i \in Nat : ~OnWire(s, i)' /\ ~Back(s, i)'
        BY DEF FreeIsNowhere
    <3>1. ~crossed /\ (lent[s] => s \notin ReturnedLate)
        BY <2>1
    <3>2. lent[s] \in BOOLEAN /\ (lent[s] => s \in Returned)
        BY <2>1 DEF TypeOK
    <3>3. CASE ~lent[s]
        BY <3>1, <3>3, <2>1, <2>2 DEF LoanInv, FreeIsNowhere
    <3>4. CASE lent[s]
      <4>1. PICK i \in Nat : Back(s, i)
          BY <3>1, <3>2, <3>4, <2>6
      <4> QED BY <3>1, <4>1, <2>2 DEF LoanInv, LentIsOnce
    <3> QED BY <3>2, <3>3, <3>4
  <2>9. LentIsOnce'
    <3>1. ~crossed' => ~crossed
        BY <2>1
    <3> QED BY <3>1, <2>2 DEF LoanInv, LentIsOnce
  <2> QED BY <2>3, <2>4, <2>7, <2>8, <2>9 DEF LoanInv
<1>6. CASE SendReady
  <2>1. CASE ~(Len(toWorker) < Wire)
    <3>1. /\ UNCHANGED <<ring, toWorker, lent, toDolphin, reading, crossed, adopted>>
          /\ at = "send" /\ at' = "wait"
        BY <1>6, <2>1 DEF SendReady, workerVars
    <3> QED BY <1>0, <3>1, LoansUntouched
  <2>2. CASE Len(toWorker) < Wire
    <3> DEFINE n == Len(toWorker) + 1
    <3>1. /\ at = "send" /\ at' = "wait" /\ toWorker' = Append(toWorker, Ready(ring, index))
          /\ lent' = [lent EXCEPT ![index] = TRUE]
          /\ UNCHANGED <<ring, toDolphin, reading, crossed, adopted>>
        BY <1>6, <2>2 DEF SendReady, workerVars
    <3>2. /\ Ready(ring, index) \in Messages /\ Ready(ring, index).ring <= ring
          /\ \A s : Ready(ring, index) = Ready(ring, s) <=> s = index
        BY <3>1, RingAssumption DEF TypeOK, Working, Messages, Ready
    <3>3. PastWire /\ \A s, i : OnWire(s, i)' <=> OnWire(s, i) \/ (i = n /\ s = index)
        BY <3>1, <3>2, WireAppend DEF LoanInv
    <3>4. n \in Nat /\ index \in Slots
        BY EmptyQueue DEF TypeOK
    <3>5. (\A s, i : Back(s, i)' <=> Back(s, i)) /\ \A s : Held(s)' <=> Held(s)
        BY <3>1 DEF Back, Held
    <3>6. \A s \in Slots : lent'[s] <=> lent[s] \/ s = index
        BY <3>1 DEF TypeOK
    <3>7. ~crossed => ~Held(index) /\ \A i \in Nat : ~OnWire(index, i) /\ ~Back(index, i)
        BY <3>1, <3>4 DEF LoanInv, DrawsFree, FreeIsNowhere
    <3>8. Past'
        BY <3>1, <3>3 DEF LoanInv, Past
    <3>9. LentIsSomewhere'
        BY <3>3, <3>4, <3>5, <3>6 DEF LoanInv, LentIsSomewhere
    <3>10. FreeIsNowhere'
        BY <3>1, <3>3, <3>5, <3>6 DEF LoanInv, FreeIsNowhere
    <3>11. LentIsOnce'
      <4> SUFFICES ASSUME ~crossed, NEW s \in Slots
                   PROVE  /\ \A i, j \in Nat : OnWire(s, i)' =>
                                 ~Back(s, j)' /\ (OnWire(s, j)' => i = j)
                          /\ Held(s)' => \A i \in Nat : ~OnWire(s, i)' /\ ~Back(s, i)'
          BY <3>1 DEF LentIsOnce
      <4>1. CASE s = index
          BY <3>3, <3>5, <3>7, <4>1
      <4>2. CASE s # index
          BY <3>3, <3>5, <4>2 DEF LoanInv, LentIsOnce
      <4> QED BY <4>1, <4>2
    <3> QED BY <3>1, <3>8, <3>9, <3>10, <3>11 DEF LoanInv, DrawsFree
  <2> QED BY <2>1, <2>2
<1>7. CASE collect_ring
  <2> DEFINE m == toWorker[1]
  <2>1. /\ m \in Messages /\ Head(toWorker) = m /\ m.kind = "header" /\ toWorker # <<>>
        /\ toWorker' = Tail(toWorker) /\ Len(toWorker) \in Nat \ {0}
        /\ UNCHANGED <<at, index, ring, lent, toDolphin, reading, crossed>>
      BY <1>7, Dequeue DEF collect_ring, dolphinVars, TypeOK
  <2>2. PastWire /\ \A s : \A i \in Nat : OnWire(s, i)' <=> i # 0 /\ OnWire(s, i + 1)
      BY <2>1, WireTake DEF LoanInv
  <2>3. \A s : ~OnWire(s, 1) /\ ~OnWire(s, 0)
      BY <2>1 DEF OnWire, Ready
  <2>4. (\A s, i : Back(s, i)' <=> Back(s, i)) /\ \A s : Held(s)' <=> Held(s)
      BY <2>1 DEF Back, Held
  <2>5. Past'
    <3>1. adopted' = adopted \/ adopted' = m.ring
        BY <1>7, <2>1 DEF collect_ring
    <3>2. m.ring <= ring
        BY <2>1 DEF LoanInv, Past
    <3> QED BY <2>1, <2>2, <3>1, <3>2 DEF LoanInv, Past
  <2>6. LentIsSomewhere'
    <3> SUFFICES ASSUME NEW s \in Slots, NEW i \in Nat, OnWire(s, i)
                 PROVE  \E j \in Nat : OnWire(s, j)'
        BY <2>1, <2>4 DEF LoanInv, LentIsSomewhere
    <3>1. i # 0 /\ i # 1
        BY <2>3
    <3>2. i - 1 \in Nat /\ i - 1 # 0 /\ (i - 1) + 1 = i
        BY <3>1
    <3> QED BY <2>2, <3>2
  <2>7. FreeIsNowhere'
      BY <2>1, <2>2, <2>4 DEF LoanInv, FreeIsNowhere
  <2>8. LentIsOnce'
    <3> SUFFICES ASSUME ~crossed, NEW s \in Slots
                 PROVE  /\ \A i, j \in Nat : OnWire(s, i)' =>
                               ~Back(s, j)' /\ (OnWire(s, j)' => i = j)
                        /\ Held(s)' => \A i \in Nat : ~OnWire(s, i)' /\ ~Back(s, i)'
        BY <2>1 DEF LentIsOnce
    <3>1. /\ \A i, j \in Nat : OnWire(s, i) => ~Back(s, j) /\ (OnWire(s, j) => i = j)
          /\ Held(s) => \A i \in Nat : ~OnWire(s, i) /\ ~Back(s, i)
        BY DEF LoanInv, LentIsOnce
    <3> QED BY <2>2, <2>4, <3>1
  <2> QED BY <2>1, <2>5, <2>6, <2>7, <2>8 DEF LoanInv, DrawsFree
<1>8. CASE next_frame
  <2> DEFINE m == toWorker[1]
  <2>1. /\ m \in Messages /\ Head(toWorker) = m /\ m.kind = "ready" /\ toWorker # <<>>
        /\ toWorker' = Tail(toWorker) /\ Len(toWorker) \in Nat \ {0}
        /\ reading = None /\ reading' = <<adopted, m.slot>>
        /\ UNCHANGED <<at, index, ring, lent, toDolphin, crossed, adopted>>
      BY <1>8, Dequeue DEF next_frame, dolphinVars, TypeOK
  <2>2. PastWire /\ \A s : \A i \in Nat : OnWire(s, i)' <=> i # 0 /\ OnWire(s, i + 1)
      BY <2>1, WireTake DEF LoanInv
  <2>3. m.ring = adopted /\ m = Ready(adopted, m.slot) /\ m.ring <= ring /\ m.ring \in 1..MaxRings
    <3>1. m.ring = adopted
        BY <2>1, StreamGivesRightPicture DEF RightPicture
    <3>2. m.ring <= ring
        BY <2>1 DEF LoanInv, Past
    <3> QED BY <2>1, <3>1, <3>2, ReadyIsItsFields, MessageFields
  <2>4. \A s \in Slots : ~Held(s)
    <3> SUFFICES ASSUME NEW s \in Slots, Held(s) PROVE FALSE
        OBVIOUS
    <3> QED BY <2>1, NoneIsNoPicture DEF Held, TypeOK
  <2>5. \A s \in Slots : (Held(s)' <=> OnWire(s, 1)) /\ ~OnWire(s, 0)
    <3> TAKE s \in Slots
    <3>1. OnWire(s, 1) <=> Ready(adopted, m.slot) = Ready(ring, s)
        BY <2>1, <2>3 DEF OnWire
    <3>2. Ready(adopted, m.slot) = Ready(ring, s) <=> adopted = ring /\ m.slot = s
        BY DEF Ready
    <3>3. Held(s)' <=> adopted = ring /\ m.slot = s
        BY <2>1 DEF Held
    <3> QED BY <2>1, <3>1, <3>2, <3>3 DEF OnWire
  <2>6. \A s, i : Back(s, i)' <=> Back(s, i)
      BY <2>1 DEF Back
  <2>7. Past'
    <3>1. reading'[1] <= ring /\ adopted <= ring
        BY <2>1, <2>3
    <3> QED BY <2>1, <2>2, <3>1 DEF LoanInv, Past
  <2>8. LentIsSomewhere'
    <3> SUFFICES ASSUME NEW s \in Slots, NEW i \in Nat, OnWire(s, i)
                 PROVE  Held(s)' \/ \E j \in Nat : OnWire(s, j)'
        BY <2>1, <2>4, <2>6 DEF LoanInv, LentIsSomewhere
    <3>1. CASE i = 1
        BY <2>5, <3>1
    <3>2. CASE i # 1
      <4>1. i - 1 \in Nat /\ i - 1 # 0 /\ (i - 1) + 1 = i
          BY <2>5, <3>2
      <4> QED BY <2>2, <4>1
    <3> QED BY <3>1, <3>2
  <2>9. FreeIsNowhere'
      BY <2>1, <2>2, <2>5, <2>6 DEF LoanInv, FreeIsNowhere
  <2>10. LentIsOnce'
    <3> SUFFICES ASSUME ~crossed, NEW s \in Slots
                 PROVE  /\ \A i, j \in Nat : OnWire(s, i)' =>
                               ~Back(s, j)' /\ (OnWire(s, j)' => i = j)
                        /\ Held(s)' => \A i \in Nat : ~OnWire(s, i)' /\ ~Back(s, i)'
        BY <2>1 DEF LentIsOnce
    <3>1. \A i, j \in Nat : OnWire(s, i) => ~Back(s, j) /\ (OnWire(s, j) => i = j)
        BY DEF LoanInv, LentIsOnce
    <3>2. \A i, j \in Nat : OnWire(s, i)' => ~Back(s, j)' /\ (OnWire(s, j)' => i = j)
        BY <2>2, <2>6, <3>1
    <3>3. ASSUME Held(s)', NEW i \in Nat PROVE ~OnWire(s, i)' /\ ~Back(s, i)'
      <4>1. OnWire(s, 1)
          BY <2>5, <3>3
      <4>2. ~Back(s, i) /\ (OnWire(s, i + 1) => i = 0)
          BY <3>1, <4>1
      <4> QED BY <2>2, <2>6, <4>2
    <3> QED BY <3>2, <3>3
  <2> QED BY <2>1, <2>7, <2>8, <2>9, <2>10 DEF LoanInv, DrawsFree
<1>9. CASE release
  <2> DEFINE n == Len(toDolphin) + 1
  <2>1. /\ reading # None /\ reading' = None /\ toDolphin' = Append(toDolphin, reading)
        /\ UNCHANGED <<at, index, ring, lent, toWorker, crossed, adopted>>
      BY <1>9 DEF release, dolphinVars
  <2>2. reading \in Pictures /\ reading[1] <= ring /\ reading[1] \in 1..MaxRings
      BY <2>1 DEF TypeOK, LoanInv, Past, Pictures
  <2>3. /\ \A s, i : Back(s, i)' <=> Back(s, i) \/ (i = n /\ Held(s))
        /\ \A i \in 1..Len(toDolphin') : toDolphin'[i][1] <= ring
      BY <2>1, <2>2, BackAppend DEF LoanInv, Held
  <2>4. \A s \in Slots : ~Held(s)'
      BY <2>1, NoneIsNoPicture DEF Held, TypeOK
  <2>5. SameWire /\ n \in Nat
      BY <1>0, <2>1, EmptyQueue DEF TypeOK
  <2>6. Past'
      BY <2>1, <2>3 DEF LoanInv, Past
  <2>7. LentIsSomewhere'
      BY <2>1, <2>3, <2>5 DEF LoanInv, LentIsSomewhere
  <2>8. FreeIsNowhere'
      BY <2>1, <2>3, <2>4, <2>5 DEF LoanInv, FreeIsNowhere
  <2>9. LentIsOnce'
      BY <2>1, <2>3, <2>4, <2>5 DEF LoanInv, LentIsOnce
  <2> QED BY <2>1, <2>6, <2>7, <2>8, <2>9 DEF LoanInv, DrawsFree
<1> QED
    BY <1>1, <1>2, <1>3, <1>4, <1>5, <1>6, <1>7, <1>8, <1>9 DEF Next

-----------------------------------------------------------------------------

RingInv == TypeOK /\ Working /\ StreamInv /\ LoanInv

\* The inductive invariant: the two ends agree on the stream, and the loans add up.
LEMMA RingInvHolds == Spec => []RingInv
<1>1. Init => RingInv
  <2> SUFFICES ASSUME Init PROVE RingInv
      OBVIOUS
  <2>1. TypeOK /\ Working
      BY RingAssumption, SlotsAreNumbers DEF Init, TypeOK, Working
  <2>2. 0 \in 0..(RING_SIZE - 1) /\ ReaderAt(0)
      BY RingAssumption DEF Init, ReaderAt, SenderAt
  <2>3. /\ toWorker = <<>> /\ Len(toWorker) = 0 /\ toDolphin = <<>> /\ Len(toDolphin) = 0
        /\ reading = None /\ adopted = 0 /\ ring = 0 /\ at = "wait"
        /\ \A s \in Slots : ~lent[s]
      BY DEF Init
  <2>4. StreamInv
      BY <2>2, <2>3 DEF StreamInv
  <2>5. (\A s, i : ~OnWire(s, i) /\ ~Back(s, i)) /\ \A s \in Slots : ~Held(s)
      BY <2>3, NoneIsNoPicture DEF OnWire, Back, Held
  <2>6. LoanInv
      BY <2>3, <2>5 DEF LoanInv, Past, DrawsFree, LentIsSomewhere, FreeIsNowhere, LentIsOnce
  <2> QED BY <2>1, <2>4, <2>6 DEF RingInv
<1>2. RingInv /\ [Next]_vars => RingInv'
    BY StreamGivesRightPicture, TypeStep, StreamStep, LoanStep DEF RingInv
<1> QED BY <1>1, <1>2, PTL DEF Spec

\* The state is well formed: above all, no slot outside the ring is announced
\* (CreateRing's loop, next_frame's SlotOutOfRange).
THEOREM TypeCorrect == Spec => []TypeOK
<1>1. RingInv => TypeOK
    BY DEF RingInv
<1> QED BY <1>1, RingInvHolds, PTL

\* A notification is looked up in the ring it was sent for, and never while a ring
\* is half collected (next_frame, adopt, collect_ring).
THEOREM RightPictureHolds == Spec => []RightPicture
<1>1. RingInv => RightPicture
    BY StreamGivesRightPicture DEF RingInv
<1> QED BY <1>1, RingInvHolds, PTL

\* A slot counted as lent can still come back (SendReady, LentFrame::drop,
\* CollectReleases).
THEOREM NoSlotIsLostHolds == Spec => []NoSlotIsLost
<1>1. RingInv => NoSlotIsLost
    BY DEF RingInv, LoanInv, LentIsSomewhere, NoSlotIsLost, OnWire, Held, Back
<1> QED BY <1>1, RingInvHolds, PTL

\* Only a late release of an earlier ring lets the emulator draw into the image the
\* worker reads (OnFrame, CollectReleases).
THEOREM TornOnlyByCrossingHolds == Spec => []TornOnlyByCrossing
<1>1. RingInv => TornOnlyByCrossing
  <2> SUFFICES ASSUME RingInv, at = "draw", reading = <<ring, index>>, ~crossed PROVE FALSE
      BY DEF TornOnlyByCrossing
  <2>1. index \in Slots /\ ~lent[index] /\ Held(index)
      BY DEF RingInv, TypeOK, LoanInv, DrawsFree, Held
  <2> QED BY <2>1 DEF RingInv, LoanInv, FreeIsNowhere
<1> QED BY <1>1, RingInvHolds, PTL
=============================================================================
