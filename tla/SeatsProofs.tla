---------------------------- MODULE SeatsProofs ----------------------------
(***************************************************************************)
(* Proofs about Seats, for any number of ports, of connections and of pad  *)
(* states.  The inductive invariant adds to the checked properties what    *)
(* they rest on: claims are numbered below the counter and never shared,   *)
(* and a stray frame leaves its thread in front of the check that ends it. *)
(***************************************************************************)
EXTENDS Seats, TLAPS

\* The claims handed out are below the counter, non-zero once a port was
\* granted, and belong to one connection each.
ClaimsAreFresh ==
    /\ \A c \in Conns : claim[c] < nextClaim
    /\ \A c \in Conns : pc[c] = "new" => claim[c] = 0
    /\ \A c \in Conns : pc[c] \in Holding \union Serving => claim[c] # 0 /\ seat[c] \in Ports
    /\ \A c, d \in Conns : claim[c] = claim[d] /\ claim[c] # 0 => c = d

\* Every held port has the live thread of its holder.
HolderIsAlive ==
    \A p \in Ports : seats[p] # 0 =>
        \E c \in Conns : claim[c] = seats[p] /\ seat[c] = p /\ pc[c] \in Holding

\* A thread that applied a stray frame stands before the check, without its
\* port, or has passed it and is leaving.
StrayIsLeaving ==
    \A c \in Conns :
        /\ stray[c] <= 1
        /\ pc[c] \in {"new", "granted", "tell", "read"} => stray[c] = 0
        /\ pc[c] = "check" /\ stray[c] = 1 => ~still_ours(c)

Looping == {"check", "tell", "read"}

\* The clock of one connection.  A thread in its loop measured less than
\* GONE_AFTER when its current read began; a browser that owes no pong was heard
\* within this very read, and one that owes a pong has been silent no longer
\* than the read that made the thread ask and what it has used of its time.
ClockOf(c) ==
    /\ pc[c] \in {"new", "granted"} => silent[c] = 0 /\ owed[c] = NoPing
    /\ pc[c] # "read" => waited[c] = 0
    /\ pc[c] \in Looping =>
        /\ silent[c] < GONE_AFTER + waited[c]
        /\ owed[c] # NoPing => peer[c] = "here" /\ silent[c] + owed[c] <= PING_EVERY + ANSWER
        /\ owed[c] = NoPing /\ peer[c] = "here" => silent[c] <= waited[c]

ClocksAreRight == \A c \in Conns : ClockOf(c)

IInv == TypeOK /\ ClaimsAreFresh /\ ClocksAreRight /\ HolderIsAlive /\ NoStuckPad /\ StrayIsLeaving
        /\ QuietPlayerKeepsPort

\* Zero, the absent port, is not a port.
LEMMA PortFacts == Ports \subseteq PortOrNone /\ 0 \in PortOrNone /\ 0 \notin Ports
  BY RoomAssumption DEF Ports, PortOrNone

\* The initial state of a room satisfies the invariant: every port is free.
LEMMA InitIInv == Init => IInv
  <1> SUFFICES ASSUME Init PROVE IInv
    OBVIOUS
  <1> USE RoomAssumption, ClockAssumption, FrameAssumption DEF Init, Ports
  <1>1. TypeOK
    BY DEF TypeOK, PortOrNone, PCs, Reasons, NoPing
  <1>2. ClaimsAreFresh
    BY DEF ClaimsAreFresh, Holding, Serving
  <1>3. HolderIsAlive /\ NoStuckPad /\ QuietPlayerKeepsPort
    BY DEF HolderIsAlive, NoStuckPad, QuietPlayerKeepsPort
  <1>4. StrayIsLeaving
    BY DEF StrayIsLeaving
  <1>5. ClocksAreRight
    BY DEF ClocksAreRight, ClockOf, Looping
  <1>6. QED
    BY <1>1, <1>2, <1>3, <1>4, <1>5 DEF IInv

\* What a claim does to the seats: the counter's value goes to one port and one
\* connection, or nothing moves but the counter.
Granted(c, p) ==
    /\ seats' = [seats EXCEPT ![p] = nextClaim]
    /\ seat' = [seat EXCEPT ![c] = p]
    /\ claim' = [claim EXCEPT ![c] = nextClaim]
    /\ pc' = [pc EXCEPT ![c] = "granted"]
    /\ why' = why

Refused(c) ==
    /\ UNCHANGED <<seats, seat, claim>>
    /\ pc' = [pc EXCEPT ![c] = "closed"]
    /\ why' = [why EXCEPT ![c] = "refused"]

\* take_seat either grants one port or refuses.
LEMMA ClaimOutcome ==
    ASSUME NEW c \in Conns, Claim(c)
    PROVE  /\ pc[c] = "new" /\ nextClaim' = nextClaim + 1
           /\ UNCHANGED <<incoming, pad, timing, peer, stray>>
           /\ (\E p \in Ports : Granted(c, p)) \/ Refused(c)
  BY DEF Claim, Granted, Refused

\* No step takes a variable out of its type.
LEMMA TypeStep == TypeOK /\ ClocksAreRight /\ [Next]_vars => TypeOK'
  <1> SUFFICES ASSUME TypeOK, ClocksAreRight, [Next]_vars PROVE TypeOK'
    OBVIOUS
  <1> USE RoomAssumption, ClockAssumption, FrameAssumption DEF roomVars, timing, NoPing
  <1>1. ASSUME NEW c \in Conns, Claim(c) PROVE TypeOK'
    <2>1. pc' \in [Conns -> PCs]
      BY <1>1 DEF Claim, TypeOK, PCs
    <2>2. nextClaim' \in Nat \ {0} /\ incoming' = incoming /\ pad' = pad /\ timing' = timing
          /\ peer' = peer /\ stray' = stray
      BY <1>1 DEF Claim, TypeOK
    <2>3. seats' \in [Ports -> Nat] /\ claim' \in [Conns -> Nat]
      BY <1>1, ClaimOutcome DEF Granted, Refused, TypeOK
    <2>4. seat' \in [Conns -> PortOrNone] /\ asked' \in [Conns -> PortOrNone]
          /\ told' \in [Conns -> PortOrNone]
      BY <1>1, PortFacts DEF Claim, TypeOK
    <2>5. why' \in [Conns -> Reasons]
      BY <1>1 DEF Claim, TypeOK, Reasons
    <2>6. QED
      BY <2>1, <2>2, <2>3, <2>4, <2>5 DEF TypeOK
  <1>2. ASSUME NEW c \in Conns, Announce(c) PROVE TypeOK'
    <2>1. pc' \in [Conns -> PCs]
      BY <1>2 DEF Announce, TypeOK, PCs, Serving
    <2>2. QED
      BY <1>2, <2>1, PortFacts DEF Announce, TypeOK
  <1>3. ASSUME NEW c \in Conns, AnnounceFails(c) PROVE TypeOK'
    <2>1. pc' \in [Conns -> PCs]
      BY <1>3 DEF AnnounceFails, TypeOK, PCs, Serving
    <2>2. QED
      BY <1>3, <2>1 DEF AnnounceFails, release_seat, TypeOK, Reasons
  <1>4. ASSUME NEW c \in Conns, CheckSeat(c) PROVE TypeOK'
    <2>1. pc' \in [Conns -> PCs]
      BY <1>4 DEF CheckSeat, TypeOK, PCs, Serving
    <2>2. QED
      BY <1>4, <2>1, PortFacts DEF CheckSeat, TypeOK, Reasons
  <1>5. ASSUME NEW c \in Conns, SendRoom(c) PROVE TypeOK'
    <2>1. pc' \in [Conns -> PCs]
      BY <1>5 DEF SendRoom, TypeOK, PCs, Serving
    <2>2. QED
      BY <1>5, <2>1 DEF SendRoom, TypeOK, Reasons
  <1>6. ASSUME NEW c \in Conns, NEW frame \in Frames, ApplyPad(c, frame) PROVE TypeOK'
    <2>1. pc' \in [Conns -> PCs]
      BY <1>6 DEF ApplyPad, TypeOK, PCs, Serving
    <2>2. stray' \in [Conns -> Nat]
      <3> DEFINE more == IF still_ours(c) THEN 0 ELSE 1
      <3>1. more \in Nat
        OBVIOUS
      <3>2. stray' = [stray EXCEPT ![c] = stray[c] + more]
        BY <1>6 DEF ApplyPad, TypeOK
      <3> HIDE DEF more
      <3>3. QED
        BY <3>1, <3>2 DEF TypeOK
    <2>3. incoming' \in [Ports -> Frames \union {NoFrame}]
      BY <1>6 DEF ApplyPad, TypeOK
    <2>4. timing' \in [Conns -> 0..(GONE_AFTER + PING_EVERY - 1)] \X [Conns -> 0..PING_EVERY]
                        \X [Conns -> 0..NoPing]
      BY <1>6 DEF ApplyPad, TypeOK
    <2>5. QED
      BY <1>6, <2>1, <2>2, <2>3, <2>4 DEF ApplyPad, TypeOK
  <1>7. ASSUME NEW c \in Conns, ReadOther(c) PROVE TypeOK'
    <2>1. pc' \in [Conns -> PCs]
      BY <1>7 DEF ReadOther, TypeOK, PCs, Serving
    <2>2. QED
      BY <1>7, <2>1 DEF ReadOther, TypeOK
  <1>8. ASSUME NEW c \in Conns, ReadEnds(c) PROVE TypeOK'
    <2>1. pc' \in [Conns -> PCs]
      BY <1>8 DEF ReadEnds, TypeOK, PCs, Serving
    <2>2. QED
      BY <1>8, <2>1 DEF ReadEnds, TypeOK, Reasons
  <1>9. ASSUME NEW c \in Conns, Timeout(c) PROVE TypeOK'
    <2>1. pc' \in [Conns -> PCs]
      BY <1>9 DEF Timeout, TypeOK, PCs, Serving
    <2>2. why' \in [Conns -> Reasons]
      BY <1>9 DEF Timeout, TypeOK, Reasons
    <2>3. owed' \in [Conns -> 0..NoPing]
      BY <1>9 DEF Timeout, TypeOK
    <2>4. QED
      BY <1>9, <2>1, <2>2, <2>3 DEF Timeout, TypeOK
  <1>10. ASSUME NEW c \in Conns, Release(c) PROVE TypeOK'
    <2>1. pc' \in [Conns -> PCs]
      BY <1>10 DEF Release, TypeOK, PCs, Serving
    <2>2. silent' \in [Conns -> 0..(GONE_AFTER + PING_EVERY - 1)] /\ owed' \in [Conns -> 0..NoPing]
      BY <1>10 DEF Release, TypeOK
    <2>3. seats' \in [Ports -> Nat]
      BY <1>10 DEF Release, release_seat, TypeOK
    <2>4. QED
      BY <1>10, <2>1, <2>2, <2>3 DEF Release, TypeOK
  <1>11. ASSUME NEW c \in Conns, LetGo(c) PROVE TypeOK'
    <2>1. pc' \in [Conns -> PCs]
      BY <1>11 DEF LetGo, TypeOK, PCs, Serving
    <2>2. QED
      BY <1>11, <2>1 DEF LetGo, TypeOK
  <1>12. ASSUME NEW c \in Conns, Vanish(c) PROVE TypeOK'
    <2>1. pc' \in [Conns -> PCs]
      BY <1>12 DEF Vanish, TypeOK, PCs, Serving
    <2>2. QED
      BY <1>12, <2>1 DEF Vanish, TypeOK
  <1>13. ASSUME Drain PROVE TypeOK'
    BY <1>13 DEF Drain, TypeOK
  <1>14. ASSUME UNCHANGED vars PROVE TypeOK'
    BY <1>14 DEF vars, TypeOK
  <1>15. ASSUME NEW c \in Conns, Pong(c) PROVE TypeOK'
    <2>1. pc' \in [Conns -> PCs]
      BY <1>15 DEF Pong, TypeOK, PCs, Serving
    <2>2. QED
      BY <1>15, <2>1 DEF Pong, TypeOK
  <1>16. ASSUME NEW c \in Conns, Tick(c) PROVE TypeOK'
    <2>1. silent[c] + 1 \in 0..(GONE_AFTER + PING_EVERY - 1)
      BY <1>16 DEF Tick, TypeOK, ClocksAreRight, ClockOf, Looping
    <2>2. silent' \in [Conns -> 0..(GONE_AFTER + PING_EVERY - 1)]
      BY <1>16, <2>1 DEF Tick, TypeOK
    <2>3. waited' \in [Conns -> 0..PING_EVERY] /\ owed' \in [Conns -> 0..NoPing]
      BY <1>16 DEF Tick, TypeOK
    <2>4. QED
      BY <1>16, <2>2, <2>3 DEF Tick, TypeOK
  <1>17. QED
    BY <1>1, <1>2, <1>3, <1>4, <1>5, <1>6, <1>7, <1>8, <1>9, <1>10, <1>11, <1>12, <1>13, <1>14,
       <1>15, <1>16
    DEF Next, ThreadStep, Runs, ReadPad

\* A thread that moves holds a claim, keeps it, and never becomes new again.
LEMMA ThreadStepShape ==
    ASSUME NEW c \in Conns, ThreadStep(c)
    PROVE  /\ UNCHANGED <<nextClaim, seat, claim>>
           /\ pc[c] \in Holding \union Serving
           /\ \E s \in PCs \ {"new"} : pc' = [pc EXCEPT ![c] = s]
  <1> USE DEF Holding, Serving, PCs, roomVars, timing
  <1>1. CASE Announce(c) \/ AnnounceFails(c) \/ CheckSeat(c) \/ SendRoom(c)
    BY <1>1 DEF Announce, AnnounceFails, CheckSeat, SendRoom
  <1>2. CASE ReadPad(c) \/ ReadOther(c) \/ ReadEnds(c) \/ Timeout(c) \/ Pong(c)
    BY <1>2 DEF ReadPad, ApplyPad, ReadOther, ReadEnds, Timeout, Pong
  <1>3. CASE Release(c) \/ LetGo(c)
    BY <1>3 DEF Release, LetGo
  <1>4. QED
    BY <1>1, <1>2, <1>3 DEF ThreadStep, Runs

\* Claims stay fresh: only Claim hands one out, and it takes the counter's.
LEMMA ClaimsStep == TypeOK /\ ClaimsAreFresh /\ [Next]_vars => ClaimsAreFresh'
  <1> SUFFICES ASSUME TypeOK, ClaimsAreFresh, [Next]_vars PROVE ClaimsAreFresh'
    OBVIOUS
  <1> USE DEF ClaimsAreFresh
  <1>0. /\ nextClaim \in Nat \ {0} /\ claim \in [Conns -> Nat] /\ pc \in [Conns -> PCs]
        /\ seat \in [Conns -> PortOrNone]
    BY DEF TypeOK
  <1>1. ASSUME NEW c \in Conns, Claim(c) PROVE ClaimsAreFresh'
    <2>1. CASE Refused(c)
      <3>1. /\ \A d \in Conns : claim'[d] = claim[d] /\ seat'[d] = seat[d]
            /\ \A d \in Conns \ {c} : pc'[d] = pc[d]
            /\ pc'[c] = "closed" /\ "closed" \notin {"new"} \union Holding \union Serving
        BY <1>0, <2>1 DEF Refused, Holding, Serving
      <3>2. \A d \in Conns : claim'[d] < nextClaim'
        BY <1>0, <1>1, <3>1, ClaimOutcome
      <3>3. QED
        BY <1>0, <3>1, <3>2
    <2>2. ASSUME NEW p \in Ports, Granted(c, p) PROVE ClaimsAreFresh'
      <3>1. /\ \A d \in Conns \ {c} : claim'[d] = claim[d] /\ pc'[d] = pc[d] /\ seat'[d] = seat[d]
            /\ claim'[c] = nextClaim /\ pc'[c] = "granted" /\ seat'[c] = p
        BY <1>0, <2>2 DEF Granted
      <3>2. \A d \in Conns : claim'[d] < nextClaim'
        BY <1>0, <1>1, <3>1, ClaimOutcome
      <3>3. \A d \in Conns : pc'[d] = "new" => claim'[d] = 0
        BY <3>1
      <3>4. \A d \in Conns : pc'[d] \in Holding \union Serving => claim'[d] # 0 /\ seat'[d] \in Ports
        BY <1>0, <3>1
      <3>5. \A d \in Conns \ {c} : claim'[d] # claim'[c]
        BY <1>0, <3>1
      <3>6. \A d, e \in Conns : claim'[d] = claim'[e] /\ claim'[d] # 0 => d = e
        BY <3>1, <3>5
      <3>7. QED
        BY <3>2, <3>3, <3>4, <3>6
    <2>3. QED
      BY <1>1, <2>1, <2>2, ClaimOutcome
  <1>2. ASSUME NEW c \in Conns, ThreadStep(c) PROVE ClaimsAreFresh'
    <2>1. /\ UNCHANGED <<nextClaim, seat, claim>> /\ pc[c] \in Holding \union Serving
          /\ \E s \in PCs \ {"new"} : pc' = [pc EXCEPT ![c] = s]
      BY <1>2, ThreadStepShape
    <2>2. \A d \in Conns : /\ pc'[d] = "new" => pc[d] = "new"
                           /\ pc'[d] \in Holding \union Serving => pc[d] \in Holding \union Serving
      BY <1>0, <2>1
    <2>3. QED
      BY <2>1, <2>2
  <1>3. CASE UNCHANGED <<nextClaim, seat, claim, pc>>
    BY <1>3
  <1>4. ASSUME NEW c \in Conns, Vanish(c) \/ Tick(c) PROVE ClaimsAreFresh'
    BY <1>3, <1>4 DEF Vanish, Tick, roomVars
  <1>5. CASE Drain \/ UNCHANGED vars
    BY <1>3, <1>5 DEF Drain, vars
  <1>6. QED
    BY <1>1, <1>2, <1>3, <1>4, <1>5 DEF Next

\* What a step of a connection's thread, of its browser or of the clock does to
\* its own clock; the other connections' clocks stand still.
LEMMA ClockStep ==
    TypeOK /\ ClocksAreRight /\ [Next]_vars => ClocksAreRight'
  <1> SUFFICES ASSUME TypeOK, ClocksAreRight, [Next]_vars PROVE ClocksAreRight'
    OBVIOUS
  <1> USE ClockAssumption DEF ClocksAreRight
  <1>0. /\ silent \in [Conns -> 0..(GONE_AFTER + PING_EVERY - 1)] /\ pc \in [Conns -> PCs]
        /\ waited \in [Conns -> 0..PING_EVERY] /\ owed \in [Conns -> 0..NoPing]
        /\ peer \in [Conns -> {"here", "gone"}]
    BY DEF TypeOK
  <1>1. ASSUME NEW c \in Conns, ClockOf(c)',
               \A d \in Conns \ {c} : /\ pc'[d] = pc[d] /\ peer'[d] = peer[d] /\ silent'[d] = silent[d]
                                      /\ waited'[d] = waited[d] /\ owed'[d] = owed[d]
        PROVE  ClocksAreRight'
    BY <1>1 DEF ClockOf
  <1>2. ASSUME NEW c \in Conns, Claim(c) PROVE ClocksAreRight'
    <2>1. /\ pc'[c] \in {"granted", "closed"} /\ pc[c] = "new" /\ UNCHANGED <<timing, peer>>
          /\ \A d \in Conns \ {c} : pc'[d] = pc[d]
      BY <1>0, <1>2, ClaimOutcome DEF Granted, Refused
    <2>2. ClockOf(c)'
      BY <1>0, <2>1 DEF ClockOf, timing, Looping
    <2>3. QED
      BY <1>1, <2>1, <2>2 DEF timing
  <1>3. ASSUME NEW c \in Conns, ThreadStep(c) PROVE ClocksAreRight'
    <2> USE DEF NoPing
    <2>1. /\ peer' = peer
          /\ \A d \in Conns \ {c} : /\ pc'[d] = pc[d] /\ silent'[d] = silent[d]
                                    /\ waited'[d] = waited[d] /\ owed'[d] = owed[d]
      BY <1>0, <1>3 DEF ThreadStep, Runs, Announce, AnnounceFails, CheckSeat, SendRoom, Pong, Timeout,
                        Release, LetGo, ReadPad, ApplyPad, ReadOther, ReadEnds, timing
    <2>2. CASE Announce(c) \/ AnnounceFails(c) \/ CheckSeat(c) \/ SendRoom(c) \/ LetGo(c)
      <3>1. /\ silent' = silent /\ waited' = waited /\ owed' = owed /\ peer' = peer
            /\ pc[c] # "read"
            /\ pc'[c] \in Looping \union {"closed", "release"}
            /\ pc'[c] \in Looping => pc[c] \in {"check", "tell", "granted"}
        BY <1>0, <2>2 DEF Announce, AnnounceFails, CheckSeat, SendRoom, LetGo, Looping, timing
      <3>2. ClockOf(c)
        OBVIOUS
      <3>3. ClockOf(c)'
        <4>1. CASE pc'[c] \in {"closed", "release"}
          BY <1>0, <3>1, <3>2, <4>1 DEF ClockOf, Looping
        <4>2. CASE pc'[c] \in Looping /\ pc[c] = "granted"
          BY <1>0, <3>1, <3>2, <4>2 DEF ClockOf, Looping
        <4>3. CASE pc'[c] \in Looping /\ pc[c] \in {"check", "tell"}
          BY <1>0, <3>1, <3>2, <4>3 DEF ClockOf, Looping
        <4>4. QED
          BY <3>1, <4>1, <4>2, <4>3
      <3>4. QED
        BY <1>1, <2>1, <3>1, <3>3
    <2>3. CASE ReadPad(c) \/ ReadOther(c) \/ Pong(c)
      <3>1. /\ pc[c] = "read" /\ pc'[c] = "check" /\ peer'[c] = "here"
            /\ silent'[c] = 0 /\ waited'[c] = 0 /\ owed'[c] \in {owed[c], NoPing}
            /\ peer[c] = "here"
        BY <1>0, <2>3 DEF ReadPad, ApplyPad, ReadOther, Pong
      <3>2. ClockOf(c)'
        BY <1>0, <3>1 DEF ClockOf, Looping
      <3>3. QED
        BY <1>1, <2>1, <3>2
    <2>4. CASE ReadEnds(c) \/ Release(c)
      <3>1. pc'[c] \in {"release", "neutral"} /\ waited'[c] = 0
        BY <1>0, <2>4 DEF ReadEnds, Release, ClockOf
      <3>2. ClockOf(c)'
        BY <3>1 DEF ClockOf, Looping
      <3>3. QED
        BY <1>1, <2>1, <3>2
    <2>5. CASE Timeout(c)
      <3>1. /\ pc[c] = "read" /\ waited[c] = PING_EVERY /\ waited'[c] = 0
            /\ silent'[c] = silent[c] /\ peer'[c] = peer[c]
            /\ \/ pc'[c] = "release"
               \/ /\ pc'[c] = "check" /\ silent[c] < GONE_AFTER
                  /\ owed'[c] = IF peer[c] = "here" /\ owed[c] = NoPing THEN ANSWER ELSE owed[c]
        BY <1>0, <2>5 DEF Timeout
      <3>2. ClockOf(c)'
        BY <1>0, <3>1 DEF ClockOf, Looping
      <3>3. QED
        BY <1>1, <2>1, <3>2
    <2>6. QED
      BY <1>3, <2>2, <2>3, <2>4, <2>5 DEF ThreadStep, Runs
  <1>4. ASSUME NEW c \in Conns, Tick(c) PROVE ClocksAreRight'
    <2>1. /\ pc[c] = "read" /\ pc' = pc /\ peer' = peer /\ owed[c] # 0
          /\ silent'[c] = silent[c] + 1 /\ waited'[c] = waited[c] + 1
          /\ owed'[c] = IF owed[c] \in 1..ANSWER THEN owed[c] - 1 ELSE owed[c]
          /\ \A d \in Conns \ {c} : /\ silent'[d] = silent[d] /\ waited'[d] = waited[d]
                                    /\ owed'[d] = owed[d]
      BY <1>0, <1>4 DEF Tick
    <2>2. ClockOf(c)'
      BY <1>0, <2>1 DEF ClockOf, Looping, NoPing
    <2>3. QED
      BY <1>1, <2>1, <2>2
  <1>5. ASSUME NEW c \in Conns, Vanish(c) PROVE ClocksAreRight'
    <2>1. /\ UNCHANGED <<pc, silent, waited>> /\ owed'[c] = NoPing /\ peer'[c] = "gone"
          /\ \A d \in Conns \ {c} : peer'[d] = peer[d] /\ owed'[d] = owed[d]
      BY <1>0, <1>5 DEF Vanish
    <2>2. ClockOf(c)'
      BY <2>1 DEF ClockOf
    <2>3. QED
      BY <1>1, <2>1, <2>2
  <1>6. CASE Drain \/ UNCHANGED vars
    BY <1>6 DEF Drain, vars, timing, ClockOf
  <1>7. QED
    BY <1>2, <1>3, <1>4, <1>5, <1>6 DEF Next

\* What leaving does to the seats: the leaving thread's own port becomes free,
\* or nothing moves.
LEMMA ReleaseShape ==
    ASSUME TypeOK, ClaimsAreFresh, NEW c \in Conns, seats' = release_seat(c),
           pc[c] \in Holding \union Serving
    PROVE  \A p \in Ports : \/ seats'[p] = seats[p] /\ ~(p = seat[c] /\ seats[p] = claim[c])
                            \/ seats'[p] = 0 /\ p = seat[c] /\ seats[p] = claim[c]
  BY DEF release_seat, still_ours, TypeOK, ClaimsAreFresh

\* Every held port keeps a live holder.
LEMMA HolderStep ==
    TypeOK /\ ClaimsAreFresh /\ HolderIsAlive /\ [Next]_vars => HolderIsAlive'
  <1> SUFFICES ASSUME TypeOK, ClaimsAreFresh, HolderIsAlive, [Next]_vars PROVE HolderIsAlive'
    OBVIOUS
  <1>0. /\ nextClaim \in Nat \ {0} /\ seats \in [Ports -> Nat] /\ claim \in [Conns -> Nat]
        /\ pc \in [Conns -> PCs] /\ seat \in [Conns -> PortOrNone]
    BY DEF TypeOK
  <1>1. ASSUME NEW c \in Conns, Claim(c) PROVE HolderIsAlive'
    <2>1. CASE Refused(c)
      BY <1>0, <1>1, <2>1, ClaimOutcome DEF Refused, HolderIsAlive, Holding
    <2>2. ASSUME NEW q \in Ports, Granted(c, q) PROVE HolderIsAlive'
      <3>1. /\ \A d \in Conns \ {c} : claim'[d] = claim[d] /\ pc'[d] = pc[d] /\ seat'[d] = seat[d]
            /\ claim'[c] = nextClaim /\ pc'[c] = "granted" /\ seat'[c] = q
            /\ seats'[q] = nextClaim /\ \A p \in Ports \ {q} : seats'[p] = seats[p]
        BY <1>0, <2>2 DEF Granted
      <3>2. \A d \in Conns : pc[d] \in Holding => d # c
        BY <1>1, ClaimOutcome DEF Holding
      <3>3. ASSUME NEW p \in Ports, seats'[p] # 0
            PROVE \E d \in Conns : claim'[d] = seats'[p] /\ seat'[d] = p /\ pc'[d] \in Holding
        <4>1. CASE p = q
          BY <3>1, <4>1 DEF Holding
        <4>2. CASE p # q
          BY <3>1, <3>2, <3>3, <4>2 DEF HolderIsAlive
        <4>3. QED
          BY <4>1, <4>2
      <3>4. QED
        BY <3>3 DEF HolderIsAlive
    <2>3. QED
      BY <1>1, <2>1, <2>2, ClaimOutcome
  <1>2. ASSUME NEW c \in Conns, ThreadStep(c) PROVE HolderIsAlive'
    <2>0. UNCHANGED <<seat, claim>> /\ pc[c] \in Holding \union Serving
          /\ \A d \in Conns \ {c} : pc'[d] = pc[d]
      BY <1>0, <1>2, ThreadStepShape
    <2>1. CASE AnnounceFails(c) \/ Release(c)
      <3>1. \A p \in Ports : \/ seats'[p] = seats[p] /\ ~(p = seat[c] /\ seats[p] = claim[c])
                             \/ seats'[p] = 0
        BY <2>0, <2>1, ReleaseShape DEF AnnounceFails, Release
      <3>2. QED
        BY <2>0, <3>1 DEF HolderIsAlive
    <2>2. CASE LetGo(c)
      BY <2>0, <2>2 DEF LetGo, HolderIsAlive, Holding
    <2>3. CASE Announce(c) \/ CheckSeat(c) \/ SendRoom(c) \/ ReadPad(c) \/ ReadOther(c)
               \/ ReadEnds(c) \/ Timeout(c) \/ Pong(c)
      <3>1. seats' = seats /\ pc'[c] \in Holding
        BY <1>0, <2>3 DEF Announce, CheckSeat, SendRoom, ReadPad, ApplyPad, ReadOther, ReadEnds,
                          Timeout, Pong, Holding, roomVars
      <3>2. QED
        BY <2>0, <3>1 DEF HolderIsAlive
    <2>4. QED
      BY <1>2, <2>1, <2>2, <2>3 DEF ThreadStep, Runs
  <1>3. CASE UNCHANGED <<seats, seat, claim, pc>>
    BY <1>3 DEF HolderIsAlive
  <1>4. ASSUME NEW c \in Conns, Vanish(c) \/ Tick(c) PROVE HolderIsAlive'
    BY <1>3, <1>4 DEF Vanish, Tick, roomVars
  <1>5. CASE Drain \/ UNCHANGED vars
    BY <1>3, <1>5 DEF Drain, vars
  <1>6. QED
    BY <1>1, <1>2, <1>4, <1>5 DEF Next

\* A pressed pad keeps a thread that will let it go: the last write of every
\* thread to its port is the neutral state.
LEMMA PadStep ==
    TypeOK /\ ClaimsAreFresh /\ NoStuckPad /\ [Next]_vars => NoStuckPad'
  <1> SUFFICES ASSUME TypeOK, ClaimsAreFresh, NoStuckPad, [Next]_vars PROVE NoStuckPad'
    OBVIOUS
  <1>0. /\ incoming \in [Ports -> Frames \union {NoFrame}] /\ pad \in [Ports -> Frames]
        /\ pc \in [Conns -> PCs] /\ seat \in [Conns -> PortOrNone]
    BY DEF TypeOK
  <1>1. ASSUME NEW c \in Conns, Claim(c) PROVE NoStuckPad'
    <2>1. UNCHANGED <<incoming, pad>> /\ pc[c] \notin Serving
          /\ \A d \in Conns \ {c} : pc'[d] = pc[d] /\ seat'[d] = seat[d]
      BY <1>0, <1>1, ClaimOutcome DEF Granted, Refused, Serving
    <2>2. QED
      BY <2>1 DEF NoStuckPad
  <1>2. ASSUME NEW c \in Conns, ThreadStep(c) PROVE NoStuckPad'
    <2>0. /\ seat' = seat /\ \A d \in Conns \ {c} : pc'[d] = pc[d]
          /\ pc[c] \in Serving => seat[c] \in Ports
      BY <1>0, <1>2, ThreadStepShape DEF ClaimsAreFresh
    <2>1. CASE LetGo(c)
      <3>1. incoming'[seat[c]] = Neutral /\ pad' = pad
            /\ \A p \in Ports \ {seat[c]} : incoming'[p] = incoming[p]
        BY <1>0, <2>0, <2>1 DEF LetGo, Serving
      <3>2. QED
        BY <2>0, <3>1, FrameAssumption DEF NoStuckPad
    <2>2. ASSUME NEW frame \in Frames, ApplyPad(c, frame) PROVE NoStuckPad'
      <3>1. pc'[c] \in Serving /\ pad' = pad
            /\ \A p \in Ports \ {seat[c]} : incoming'[p] = incoming[p]
        BY <1>0, <2>2 DEF ApplyPad, Serving
      <3>2. QED
        BY <2>0, <3>1 DEF NoStuckPad
    <2>3. CASE AnnounceFails(c)
      BY <2>0, <2>3 DEF AnnounceFails, NoStuckPad, Serving
    <2>4. CASE Announce(c) \/ CheckSeat(c) \/ SendRoom(c) \/ ReadOther(c) \/ ReadEnds(c)
               \/ Timeout(c) \/ Pong(c) \/ Release(c)
      <3>1. UNCHANGED <<incoming, pad>> /\ pc'[c] \in Serving
        BY <1>0, <2>4 DEF Announce, CheckSeat, SendRoom, ReadOther, ReadEnds, Timeout, Pong,
                          Release, Serving, roomVars
      <3>2. QED
        BY <2>0, <3>1 DEF NoStuckPad
    <2>5. QED
      BY <1>2, <2>1, <2>2, <2>3, <2>4 DEF ThreadStep, Runs, ReadPad
  <1>3. CASE UNCHANGED <<incoming, pad, seat, pc>>
    BY <1>3 DEF NoStuckPad
  <1>4. ASSUME NEW c \in Conns, Vanish(c) \/ Tick(c) PROVE NoStuckPad'
    BY <1>3, <1>4 DEF Vanish, Tick, roomVars
  <1>5. CASE Drain
    <2>1. UNCHANGED <<seat, pc>>
          /\ \A p \in Ports : /\ incoming'[p] = NoFrame
                              /\ pad'[p] = IF incoming[p] = NoFrame THEN pad[p] ELSE incoming[p]
      BY <1>5 DEF Drain
    <2>2. QED
      BY <2>1 DEF NoStuckPad
  <1>6. CASE UNCHANGED vars
    BY <1>3, <1>6 DEF vars
  <1>7. QED
    BY <1>1, <1>2, <1>4, <1>5, <1>6 DEF Next

\* A thread without its port never gets it back, so the check ends it.
LEMMA StrayStep ==
    TypeOK /\ ClaimsAreFresh /\ StrayIsLeaving /\ [Next]_vars => StrayIsLeaving'
  <1> SUFFICES ASSUME TypeOK, ClaimsAreFresh, StrayIsLeaving, [Next]_vars PROVE StrayIsLeaving'
    OBVIOUS
  <1> USE DEF still_ours
  <1>0. /\ nextClaim \in Nat \ {0} /\ seats \in [Ports -> Nat] /\ claim \in [Conns -> Nat]
        /\ pc \in [Conns -> PCs] /\ seat \in [Conns -> PortOrNone] /\ stray \in [Conns -> Nat]
    BY DEF TypeOK
  <1>1. ASSUME NEW c \in Conns, Claim(c) PROVE StrayIsLeaving'
    <2>1. stray' = stray /\ stray[c] = 0 /\ pc'[c] # "check"
          /\ \A d \in Conns \ {c} : claim'[d] = claim[d] /\ seat'[d] = seat[d] /\ pc'[d] = pc[d]
      BY <1>0, <1>1, ClaimOutcome DEF Granted, Refused, StrayIsLeaving
    <2>2. \A d \in Conns \ {c} : pc[d] = "check" /\ seats[seat[d]] # claim[d]
                                   => seats'[seat[d]] # claim[d]
      <3>1. \A d \in Conns : pc[d] = "check" => seat[d] \in Ports /\ claim[d] < nextClaim
        BY DEF ClaimsAreFresh, Holding, Serving
      <3>2. CASE Refused(c)
        BY <3>2 DEF Refused
      <3>3. ASSUME NEW p \in Ports, Granted(c, p)
            PROVE \A d \in Conns \ {c} : pc[d] = "check" /\ seats[seat[d]] # claim[d]
                                            => seats'[seat[d]] # claim[d]
        BY <1>0, <3>1, <3>3 DEF Granted
      <3>4. QED
        BY <1>1, <3>2, <3>3, ClaimOutcome
    <2>3. QED
      BY <2>1, <2>2 DEF StrayIsLeaving
  <1>2. ASSUME NEW c \in Conns, ThreadStep(c) PROVE StrayIsLeaving'
    <2>0. /\ UNCHANGED <<seat, claim>> /\ \A d \in Conns \ {c} : pc'[d] = pc[d]
          /\ \A d \in Conns : pc[d] = "check" \/ d = c => seat[d] \in Ports /\ claim[d] # 0
          /\ pc[c] \in Holding \union Serving
      BY <1>0, <1>2, ThreadStepShape DEF ClaimsAreFresh, Holding, Serving
    <2>1. CASE AnnounceFails(c) \/ Release(c)
      <3>1. stray' = stray /\ pc'[c] \in {"closed", "neutral"}
        BY <1>0, <2>1 DEF AnnounceFails, Release
      <3>2. \A p \in Ports : seats'[p] \in {seats[p], 0}
        BY <2>0, <2>1, ReleaseShape DEF AnnounceFails, Release
      <3>3. QED
        BY <2>0, <3>1, <3>2 DEF StrayIsLeaving
    <2>2. ASSUME NEW frame \in Frames, ApplyPad(c, frame) PROVE StrayIsLeaving'
      <3>1. /\ seats' = seats /\ stray[c] = 0 /\ pc'[c] = "check"
            /\ stray' = [stray EXCEPT ![c] = stray[c] + (IF still_ours(c) THEN 0 ELSE 1)]
        BY <1>0, <2>2 DEF ApplyPad, StrayIsLeaving
      <3>2. CASE still_ours(c)
        <4>1. stray' = stray
          BY <1>0, <3>1, <3>2
        <4>2. QED
          BY <2>0, <3>1, <4>1 DEF StrayIsLeaving
      <3>3. CASE ~still_ours(c)
        <4>1. stray'[c] = 1 /\ \A d \in Conns \ {c} : stray'[d] = stray[d]
          BY <1>0, <3>1, <3>3
        <4>2. QED
          BY <2>0, <3>1, <3>3, <4>1 DEF StrayIsLeaving
      <3>4. QED
        BY <3>2, <3>3
    <2>3. CASE CheckSeat(c)
      <3>1. /\ UNCHANGED <<seats, stray>> /\ stray[c] \in {0, 1} /\ pc[c] = "check"
            /\ pc'[c] = IF still_ours(c) THEN "tell" ELSE "release"
        BY <1>0, <2>3 DEF CheckSeat, roomVars, StrayIsLeaving
      <3>2. QED
        BY <2>0, <3>1 DEF StrayIsLeaving
    <2>4. CASE Announce(c) \/ SendRoom(c) \/ ReadOther(c) \/ ReadEnds(c) \/ Timeout(c) \/ Pong(c)
               \/ LetGo(c)
      <3>1. /\ UNCHANGED <<seats, stray>>
            /\ pc[c] \in {"granted", "tell", "read"} \/ pc'[c] = "closed"
        BY <1>0, <2>4 DEF Announce, SendRoom, ReadOther, ReadEnds, Timeout, Pong, LetGo, roomVars
      <3>2. pc'[c] = "closed" \/ stray[c] = 0
        BY <3>1 DEF StrayIsLeaving
      <3>3. QED
        BY <2>0, <3>1, <3>2 DEF StrayIsLeaving
    <2>5. QED
      BY <1>2, <2>1, <2>2, <2>3, <2>4 DEF ThreadStep, Runs, ReadPad
  <1>3. CASE UNCHANGED <<seats, seat, claim, pc, stray>>
    BY <1>3 DEF StrayIsLeaving
  <1>4. ASSUME NEW c \in Conns, Vanish(c) \/ Tick(c) PROVE StrayIsLeaving'
    BY <1>3, <1>4 DEF Vanish, Tick, roomVars
  <1>5. CASE Drain \/ UNCHANGED vars
    BY <1>3, <1>5 DEF Drain, vars
  <1>6. QED
    BY <1>1, <1>2, <1>4, <1>5 DEF Next

\* Only a deadline says "gone", and the clock of a page that is there stands
\* before it: either no ping is due and the silence began with this read, or the
\* pong will come before the silence is long enough.
LEMMA QuietStep ==
    TypeOK /\ ClocksAreRight /\ QuietPlayerKeepsPort /\ [Next]_vars => QuietPlayerKeepsPort'
  <1> SUFFICES ASSUME TypeOK, ClocksAreRight, QuietPlayerKeepsPort, [Next]_vars
               PROVE  QuietPlayerKeepsPort'
    OBVIOUS
  <1> USE DEF QuietPlayerKeepsPort, roomVars
  <1>0. /\ why \in [Conns -> Reasons] /\ peer \in [Conns -> {"here", "gone"}]
        /\ silent \in [Conns -> 0..(GONE_AFTER + PING_EVERY - 1)]
        /\ owed \in [Conns -> 0..NoPing]
    BY DEF TypeOK
  <1>1. ASSUME NEW c \in Conns, Claim(c) PROVE QuietPlayerKeepsPort'
    BY <1>0, <1>1, ClaimOutcome DEF Granted, Refused
  <1>2. ASSUME NEW c \in Conns, ThreadStep(c) PROVE QuietPlayerKeepsPort'
    <2>1. CASE Timeout(c)
      <3>1. pc[c] = "read" /\ waited[c] = PING_EVERY /\ peer' = peer
        BY <2>1 DEF Timeout
      <3>2. peer[c] = "here" => silent[c] < GONE_AFTER
        BY <1>0, <3>1, ClockAssumption DEF ClocksAreRight, ClockOf, Looping, NoPing
      <3>3. \/ why' = why
            \/ why' = [why EXCEPT ![c] = "ended"]
            \/ silent[c] >= GONE_AFTER /\ why' = [why EXCEPT ![c] = "gone"]
        <4>1. CASE silent[c] >= GONE_AFTER /\ why' = [why EXCEPT ![c] = "gone"]
          BY <4>1
        <4>2. CASE ~(silent[c] >= GONE_AFTER /\ why' = [why EXCEPT ![c] = "gone"])
          BY <2>1, <4>2, Zenon DEF Timeout
        <4>3. QED
          BY <4>1, <4>2
      <3>4. peer[c] = "here" => why' = why \/ why' = [why EXCEPT ![c] = "ended"]
        BY <1>0, <3>2, <3>3, ClockAssumption
      <3>5. peer[c] \in {"here", "gone"}
        BY <1>0
      <3>6. QED
        BY <1>0, <3>1, <3>3, <3>4, <3>5
    <2>2. CASE Announce(c) \/ AnnounceFails(c) \/ CheckSeat(c) \/ SendRoom(c) \/ ReadEnds(c)
      BY <1>0, <2>2 DEF Announce, AnnounceFails, CheckSeat, SendRoom, ReadEnds
    <2>3. CASE ReadPad(c) \/ ReadOther(c) \/ Pong(c) \/ Release(c) \/ LetGo(c)
      BY <2>3 DEF ReadPad, ApplyPad, ReadOther, Pong, Release, LetGo
    <2>4. QED
      BY <1>2, <2>1, <2>2, <2>3 DEF ThreadStep, Runs
  <1>3. ASSUME NEW c \in Conns, Vanish(c) \/ Tick(c) PROVE QuietPlayerKeepsPort'
    BY <1>0, <1>3 DEF Vanish, Tick
  <1>4. CASE Drain \/ UNCHANGED vars
    BY <1>4 DEF Drain, vars
  <1>5. QED
    BY <1>1, <1>2, <1>3, <1>4 DEF Next

\* The invariant is inductive: no thread of the room, in any order, breaks it.
THEOREM SeatsInductive == Spec => []IInv
  <1>1. Init => IInv
    BY InitIInv
  <1>2. IInv /\ [Next]_vars => IInv'
    BY TypeStep, ClaimsStep, ClockStep, HolderStep, PadStep, StrayStep, QuietStep DEF IInv
  <1>3. QED
    BY <1>1, <1>2, PTL DEF Spec

\* Every variable of the room keeps its type.
THEOREM SeatsTypeCorrect == Spec => []TypeOK
  <1>1. IInv => TypeOK
    BY DEF IInv
  <1>2. QED
    BY <1>1, SeatsInductive, PTL

\* No path of input_thread leaks a port: a held port has one holder, whose
\* thread is alive (pad.rs: release_seat, claim_a_port, the breaks of the loop).
THEOREM NoSeatIsLeaked == Spec => []HeldPortHasItsThread
  <1>1. IInv => HeldPortHasItsThread
    <2> SUFFICES ASSUME IInv, NEW p \in Ports, seats[p] # 0
                 PROVE \E c \in Conns :
                         /\ claim[c] = seats[p] /\ seat[c] = p /\ pc[c] \in Holding
                         /\ \A d \in Conns : claim[d] = claim[c] => d = c
      BY DEF HeldPortHasItsThread
    <2>1. PICK c \in Conns : claim[c] = seats[p] /\ seat[c] = p /\ pc[c] \in Holding
      BY DEF IInv, HolderIsAlive
    <2>2. \A d \in Conns : claim[d] = claim[c] => d = c
      BY <2>1 DEF IInv, ClaimsAreFresh
    <2>3. QED
      BY <2>1, <2>2
  <1>2. QED
    BY <1>1, SeatsInductive, PTL

\* No button is left down behind the last thread of a port, whatever the order
\* in which a replaced and a replacing page leave (pad.rs: after the loop).
THEOREM NoPadIsStuck == Spec => []NoStuckPad
  <1>1. IInv => NoStuckPad
    BY DEF IInv
  <1>2. QED
    BY <1>1, SeatsInductive, PTL

\* A replaced page moves the new holder's pad at most once (pad.rs: still_ours
\* is asked before every read).
THEOREM AtMostOneStrayFrame == Spec => []OneStrayFrame
  <1>1. IInv => OneStrayFrame
    BY DEF IInv, StrayIsLeaving, OneStrayFrame
  <1>2. QED
    BY <1>1, SeatsInductive, PTL

\* A player who presses nothing is never dropped, whenever the pongs arrive: the
\* thread asks after PING_EVERY, any answer restarts heard_from, and the answer
\* to the first ping comes before GONE_AFTER (pad.rs, the timed-out read).
THEOREM QuietPlayersStay == Spec => []QuietPlayerKeepsPort
  <1>1. IInv => QuietPlayerKeepsPort
    BY DEF IInv
  <1>2. QED
    BY <1>1, SeatsInductive, PTL

\* What a step may do to one port.
LegalMove(p) ==
    seats'[p] # seats[p] =>
        \/ seats[p] # 0 /\ seats'[p] = 0
           /\ \E c \in Conns : claim[c] = seats[p] /\ pc'[c] # pc[c]
        \/ seats'[p] # 0
           /\ \E c \in Conns : /\ pc[c] = "new" /\ claim'[c] = seats'[p]
                               /\ seats[p] # 0 => asked'[c] = p

\* A port is taken from its holder only by a page that named it, and freed only
\* by its holder's own thread (pad.rs: take_seat, release_seat).
THEOREM SeatsMoveLegally == Spec => SeatMovesAreLegal
  <1>1. ASSUME IInv, [Next]_vars, NEW p \in Ports PROVE LegalMove(p)
    <2>0. /\ nextClaim \in Nat \ {0} /\ seats \in [Ports -> Nat] /\ claim \in [Conns -> Nat]
          /\ pc \in [Conns -> PCs] /\ asked \in [Conns -> PortOrNone]
      BY <1>1 DEF IInv, TypeOK
    <2>1. ASSUME NEW c \in Conns, Claim(c) PROVE LegalMove(p)
      <3>1. CASE seats' = seats
        BY <3>1 DEF LegalMove
      <3>2. CASE seats' # seats
        <4>1. PICK take \in PortOrNone, prefer \in PortOrNone, expected \in 0..(nextClaim - 1),
                   q \in Ports :
                     /\ take_seat(q, take, prefer, expected)
                     /\ seats' = [seats EXCEPT ![q] = nextClaim]
                     /\ claim' = [claim EXCEPT ![c] = nextClaim]
                     /\ asked' = [asked EXCEPT ![c] = take]
          BY <2>1, <3>2 DEF Claim
        <4>2. seats[q] # 0 => take = q
          BY <4>1 DEF take_seat, LowestFree
        <4>3. pc[c] = "new" /\ claim'[c] = nextClaim /\ asked'[c] = take /\ nextClaim # 0
          BY <2>0, <2>1, <4>1 DEF Claim
        <4>4. seats'[q] = nextClaim /\ (p # q => seats'[p] = seats[p])
          BY <2>0, <4>1
        <4>5. QED
          BY <4>2, <4>3, <4>4 DEF LegalMove
      <3>3. QED
        BY <3>1, <3>2
    <2>2. ASSUME NEW c \in Conns, ThreadStep(c) PROVE LegalMove(p)
      <3>1. CASE AnnounceFails(c) \/ Release(c)
        <4>1. pc'[c] # pc[c] /\ seats' = release_seat(c) /\ pc[c] \in Holding \union Serving
          BY <2>0, <3>1 DEF AnnounceFails, Release, Holding
        <4>2. seats'[p] = seats[p] \/ (seats'[p] = 0 /\ seats[p] = claim[c])
          BY <1>1, <4>1, ReleaseShape DEF IInv
        <4>3. QED
          BY <4>1, <4>2 DEF LegalMove
      <3>2. CASE ~(AnnounceFails(c) \/ Release(c))
        BY <2>2, <3>2 DEF ThreadStep, Announce, CheckSeat, SendRoom, ReadPad, ApplyPad, ReadOther,
                          ReadEnds, Timeout, Pong, LetGo, Runs, roomVars, LegalMove
      <3>3. QED
        BY <3>1, <3>2
    <2>3. CASE seats' = seats
      BY <2>3 DEF LegalMove
    <2>4. QED
      BY <1>1, <2>1, <2>2, <2>3 DEF Next, Tick, Vanish, Drain, vars, roomVars
  <1>2. IInv /\ [Next]_vars => [\A p \in Ports : LegalMove(p)]_vars
    BY <1>1
  <1>3. Spec => [][\A p \in Ports : LegalMove(p)]_vars
    BY <1>2, SeatsInductive, PTL DEF Spec
  <1>4. QED
    BY <1>3 DEF SeatMovesAreLegal, LegalMove
=============================================================================
