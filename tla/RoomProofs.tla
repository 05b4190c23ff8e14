----------------------------- MODULE RoomProofs -----------------------------
(***************************************************************************)
(* What the processes of a room keep true, for every number of workers,    *)
(* rooms, slots and faults and for every limit: the nap of an emulator,    *)
(* the rule that closes a room, the session directory, the rooms that play *)
(* a Switch game and the controllers these see; what comes out of the      *)
(* emulator's pipes, for every depth of a pipe and every way the reads     *)
(* fall; and the room as the sum of its parts.                             *)
(*                                                                         *)
(* Each part has its inductive invariant, which says where the actors      *)
(* stand with respect to each other: how far a round of looks has gone     *)
(* when somebody is there, who holds the directory and whether an emulator *)
(* may still be alive from before, which step of an adapter comes with its *)
(* slot and with the place of the machine.                                 *)
(*                                                                         *)
(* The shakes rest on one fact about strings of pairs: they may be applied *)
(* in two times, wherever the string is cut, provided the byte left aside  *)
(* by a cut inside a pair opens the second part.  It follows from what the *)
(* last pair of a port is, for which a set of numbers has a largest one;   *)
(* no induction on the string is needed.                                   *)
(***************************************************************************)
EXTENDS MCRoom, FiniteSetTheorems, SequenceTheorems, WellFoundedInduction, TLAPS

-----------------------------------------------------------------------------
(* The nap (nap.rs, process.rs)                                             *)

USE NapAssumption
USE DEF napVars, roomVars, threadVars, emulatorVars, frameVars

\* Where a round of the nap thread stands once it took the lock of a reason.
Place(r) == IF r = "full" THEN 1 ELSE IF r = "half" THEN 2 ELSE 3

\* Somebody who was there at the last tick has been seen by every look since, and
\* by a whole round once the thread has looked: the rule is awake or about to wake.
SeenInv ==
    \A r \in here :
        /\ stay[r] >= 1 /\ nap \in Place(r)..4 => needed
        /\ stay[r] >= 1 /\ nap = Telling => ~asleep
        /\ stay[r] = 2 \/ (stay[r] >= 1 /\ "nap" \in looked) => ~asleep /\ nap # Telling

\* While docker obeys, the container is where the rule believes it, or where it
\* was before the gesture that is about to be made; leaving wakes and stops it.
DockerInv ==
    faults = 0 =>
        /\ late = {} /\ ~hung
        /\ loop \in {"loop", "take", "join"} =>
              IF nap = Telling
              THEN container = (IF asleep THEN "run" ELSE "frozen")
                   /\ move = (IF asleep THEN "Sleep" ELSE "Wake")
              ELSE container = (IF asleep THEN "frozen" ELSE "run")
        /\ loop = "wake" => container # "gone"
        /\ loop = "term" => container = "run"
        /\ loop = "down" => container = "gone"

\* The threads are joined before the container is woken.
JoinedInv == loop \in {"wake", "term", "down"} => nap = 0

NapInv == NapTypeOK /\ SeenInv /\ DockerInv /\ JoinedInv

\* A room that starts has nobody in it and an emulator that runs.
LEMMA NapInitInv == NapInit => NapInv
<1> SUFFICES ASSUME NapInit PROVE NapInv
  OBVIOUS
<1>1. /\ here \subseteq Reasons /\ stay \in [Reasons -> 0..2] /\ empty \in 0..Never
      /\ nap \in 0..Telling /\ move \in Moves /\ late \subseteq Moves
      /\ quiet \in 0..QUIET_LIMIT /\ looked \subseteq {"nap", "main"} /\ faults \in 0..MaxFaults
  BY DEF NapInit, Reasons, Never, Telling, Moves
<1>3. /\ container \in {"run", "frozen", "gone"}
      /\ loop \in {"loop", "take", "join", "wake", "term", "down"}
  BY DEF NapInit
<1>4. /\ wanted \in BOOLEAN /\ asleep \in BOOLEAN /\ needed \in BOOLEAN
      /\ hung \in BOOLEAN /\ sleeping \in BOOLEAN
  BY DEF NapInit
<1>2. SeenInv /\ DockerInv /\ JoinedInv
  BY DEF NapInit, SeenInv, DockerInv, JoinedInv, Place, Telling
<1> QED BY <1>1, <1>2, <1>3, <1>4 DEF NapInv, NapTypeOK

\* What a gesture comes to: made, refused as already made, or given up.
LEMMA DockerTold ==
    ASSUME NEW what \in Moves, NEW ok \in BOOLEAN, tell_docker(what, ok)
    PROVE  \/ Applies(what) /\ container' = Effect(what) /\ UNCHANGED <<late, faults>>
           \/ ~Applies(what) /\ UNCHANGED <<container, late, faults>>
           \/ /\ Applies(what) /\ faults < MaxFaults /\ faults' = faults + 1
              /\ late' \in {late, late \union {what}} /\ UNCHANGED container
BY Zenon DEF tell_docker

\* Every step of a room leaves values of the right kind.
LEMMA NapTypes == ASSUME NapTypeOK, [NapNext]_napVars PROVE NapTypeOK'
<1> USE DEF NapTypeOK, Never, Telling, Reasons, Moves
<1>1. ASSUME NEW r \in Visitors, Enter(r) PROVE NapTypeOK'
  BY <1>1 DEF Enter
<1>2. ASSUME NEW r \in Visitors, Leave(r) PROVE NapTypeOK'
  BY <1>2 DEF Leave
<1>3. CASE Want BY <1>3 DEF Want
<1>4. CASE Tick BY <1>4 DEF Tick
<1>5. CASE Hang BY <1>5 DEF Hang
<1>6. CASE Die BY <1>6 DEF Die
<1>7. ASSUME NEW what \in Moves, DockerLate(what) PROVE NapTypeOK'
  BY <1>7 DEF DockerLate, Applies, Effect
<1>8. CASE Look BY <1>8 DEF Look
<1>9. CASE Observe
  <2>1. empty' \in 0..Never
    BY <1>9 DEF Observe, saw
  <2>2. move' \in Moves /\ nap' \in 0..Telling
    BY <1>9 DEF Observe, saw
  <2>5. asleep' \in BOOLEAN
    BY <1>9 DEF Observe, saw
  <2>3. looked' \subseteq {"nap", "main"} /\ needed' \in BOOLEAN
    BY <1>9 DEF Observe
  <2>4. UNCHANGED <<roomVars, emulatorVars, frameVars, faults>>
    BY <1>9 DEF Observe
  <2> QED BY <2>1, <2>2, <2>3, <2>4, <2>5
<1>10. ASSUME NEW ok \in BOOLEAN, Tell(ok) PROVE NapTypeOK'
  <2>1. /\ container' \in {"run", "frozen", "gone"} /\ late' \subseteq Moves
        /\ faults' \in 0..MaxFaults
    <3>1. \/ container' = Effect(move) /\ UNCHANGED <<late, faults>>
          \/ UNCHANGED <<container, late, faults>>
          \/ /\ faults < MaxFaults /\ faults' = faults + 1
             /\ late' \in {late, late \union {move}} /\ UNCHANGED container
      BY <1>10, DockerTold DEF Tell
    <3>2. container' \in {"run", "frozen", "gone"}
      BY <3>1 DEF Effect
    <3>3. faults' \in 0..MaxFaults
      BY <3>1
    <3>4. late' \subseteq Moves
      BY <3>1
    <3> QED BY <3>2, <3>3, <3>4
  <2>2. sleeping' \in BOOLEAN
    BY <1>10 DEF Tell
  <2> QED BY <1>10, <2>1, <2>2 DEF Tell
<1>11. CASE Serve BY <1>11 DEF Serve
<1>12. CASE Frame BY <1>12 DEF Frame
<1>13. CASE FrameIdle BY <1>13 DEF FrameIdle
<1>14. CASE FramesEnd \/ Join BY <1>14 DEF FramesEnd, Join
<1>15. ASSUME NEW ok \in BOOLEAN, Wake(ok) PROVE NapTypeOK'
  <2>1. /\ container' \in {"run", "frozen", "gone"} /\ late' \subseteq Moves
        /\ faults' \in 0..MaxFaults
    <3>1. \/ container' = Effect("Wake") /\ UNCHANGED <<late, faults>>
          \/ UNCHANGED <<container, late, faults>>
          \/ /\ faults < MaxFaults /\ faults' = faults + 1
             /\ late' \in {late, late \union {"Wake"}} /\ UNCHANGED container
      BY <1>15, DockerTold DEF Wake
    <3>2. container' \in {"run", "frozen", "gone"}
      BY <3>1 DEF Effect
    <3>3. faults' \in 0..MaxFaults
      BY <3>1
    <3>4. late' \subseteq Moves
      BY <3>1
    <3> QED BY <3>2, <3>3, <3>4
  <2> QED BY <1>15, <2>1 DEF Wake
<1>16. CASE Term BY <1>16 DEF Term
<1>17. CASE prepare
  <2>1. /\ here' = {} /\ stay' \in [Reasons -> 0..2] /\ empty' \in 0..Never
        /\ nap' = 0 /\ move' = "Wake" /\ late' = {} /\ quiet' = 0 /\ looked' = {}
        /\ faults' = faults /\ container' = "run" /\ loop' = "loop"
    BY <1>17 DEF prepare
  <2>2. /\ wanted' \in BOOLEAN /\ asleep' \in BOOLEAN /\ needed' \in BOOLEAN
        /\ hung' \in BOOLEAN /\ sleeping' \in BOOLEAN
    BY <1>17 DEF prepare
  <2> QED BY <2>1, <2>2
<1>18. CASE UNCHANGED napVars BY <1>18
<1> QED BY <1>1, <1>2, <1>3, <1>4, <1>5, <1>6, <1>7, <1>8, <1>9, <1>10, <1>11, <1>12, <1>13, <1>14,
           <1>15, <1>16, <1>17, <1>18 DEF NapNext, NapThread, MainThread

\* Nobody is forgotten by a round of looks that began before they came, and no
\* gesture of docker, early or late, leaves the container elsewhere than told.
LEMMA NapStepInv == NapInv /\ [NapNext]_napVars => NapInv'
<1> SUFFICES ASSUME NapInv, [NapNext]_napVars PROVE SeenInv' /\ DockerInv' /\ JoinedInv'
  BY NapTypes DEF NapInv
<1> USE DEF NapInv, NapTypeOK, SeenInv, DockerInv, JoinedInv, Never, Telling, Reasons, Moves, Place, Up
<1>1. ASSUME NEW r \in Visitors, Enter(r) PROVE SeenInv' /\ DockerInv' /\ JoinedInv'
  BY <1>1 DEF Enter
<1>2. ASSUME NEW r \in Visitors, Leave(r) PROVE SeenInv' /\ DockerInv' /\ JoinedInv'
  BY <1>2 DEF Leave
<1>3. CASE Want BY <1>3 DEF Want
<1>4. CASE Tick BY <1>4 DEF Tick
<1>5. CASE Hang BY <1>5 DEF Hang
<1>6. CASE Die BY <1>6 DEF Die
<1>7. ASSUME NEW what \in Moves, DockerLate(what) PROVE SeenInv' /\ DockerInv' /\ JoinedInv'
  BY <1>7 DEF DockerLate, Applies, Effect
<1>8. CASE Look
  <2>1. /\ nap \in 0..3 /\ nap' = nap + 1 /\ (nap = 0 => Up)
        /\ needed => needed'
        /\ nap + 1 \in 1..3 /\ Reads[nap + 1] \in here => needed'
        /\ UNCHANGED <<roomVars, asleep, empty, move, emulatorVars, frameVars, looked, faults>>
    BY <1>8 DEF Look, Reads
  <2>2. \A r \in Reasons : nap + 1 = Place(r) => Reads[nap + 1] = r
    BY DEF Reads
  <2>3. ASSUME NEW r \in here, stay[r] >= 1, nap' \in Place(r)..4
        PROVE  needed'
    <3>1. CASE nap' = Place(r)
      BY <2>1, <2>2, <2>3, <3>1
    <3>2. CASE nap' # Place(r)
      <4>1. Place(r) \in 1..3 /\ nap \in Place(r)..4
        BY <2>1, <2>3, <3>2
      <4>2. needed
        BY <4>1, <2>3
      <4> QED BY <4>2, <2>1
    <3> QED BY <3>1, <3>2
  <2>4. SeenInv'
    BY <2>1, <2>3
  <2>5. DockerInv' /\ JoinedInv'
    BY <2>1
  <2> QED BY <2>4, <2>5
<1>9. CASE Observe BY <1>9 DEF Observe, saw
<1>10. ASSUME NEW ok \in BOOLEAN, Tell(ok) PROVE SeenInv' /\ DockerInv' /\ JoinedInv'
  <2>1. /\ nap = Telling /\ nap' = 0 /\ looked' = looked \union {"nap"}
        /\ UNCHANGED <<roomVars, asleep, empty, needed, hung, quiet, loop>>
    BY <1>10 DEF Tell
  <2>2. SeenInv' /\ JoinedInv'
    BY <2>1
  <2>3. \/ Applies(move) /\ container' = Effect(move) /\ UNCHANGED <<late, faults>>
        \/ ~Applies(move) /\ UNCHANGED <<container, late, faults>>
        \/ faults' = faults + 1
    BY <1>10, DockerTold DEF Tell
  <2>4. DockerInv'
    <3>1. CASE faults' = faults + 1
      BY <3>1
    <3>2. CASE Applies(move) /\ container' = Effect(move) /\ UNCHANGED <<late, faults>>
      BY <2>1, <3>2 DEF Applies, Effect
    <3>3. CASE ~Applies(move) /\ UNCHANGED <<container, late, faults>>
      BY <2>1, <3>3 DEF Applies, Effect
    <3> QED BY <2>3, <3>1, <3>2, <3>3
  <2> QED BY <2>2, <2>4
<1>11. CASE Serve BY <1>11 DEF Serve
<1>12. CASE Frame BY <1>12 DEF Frame
<1>13. CASE FrameIdle BY <1>13 DEF FrameIdle
<1>14. CASE FramesEnd \/ Join
  <2>1. CASE FramesEnd BY <2>1 DEF FramesEnd
  <2>2. CASE Join BY <2>2 DEF Join
  <2> QED BY <1>14, <2>1, <2>2
<1>15. ASSUME NEW ok \in BOOLEAN, Wake(ok) PROVE SeenInv' /\ DockerInv' /\ JoinedInv'
  <2>1. /\ loop = "wake" /\ loop' = "term"
        /\ UNCHANGED <<roomVars, threadVars, hung, sleeping, quiet, looked>>
    BY <1>15 DEF Wake
  <2>2. SeenInv' /\ JoinedInv'
    BY <2>1
  <2>3. \/ Applies("Wake") /\ container' = Effect("Wake") /\ UNCHANGED <<late, faults>>
        \/ ~Applies("Wake") /\ UNCHANGED <<container, late, faults>>
        \/ faults' = faults + 1
    BY <1>15, DockerTold DEF Wake
  <2>4. DockerInv'
    <3>1. CASE faults' = faults + 1
      BY <3>1
    <3>2. CASE Applies("Wake") /\ container' = Effect("Wake") /\ UNCHANGED <<late, faults>>
      BY <2>1, <3>2 DEF Applies, Effect
    <3>3. CASE ~Applies("Wake") /\ UNCHANGED <<container, late, faults>>
      BY <2>1, <3>3 DEF Applies, Effect
    <3> QED BY <2>3, <3>1, <3>2, <3>3
  <2> QED BY <2>2, <2>4
<1>16. CASE Term BY <1>16 DEF Term
<1>17. CASE prepare BY <1>17 DEF prepare
<1>18. CASE UNCHANGED napVars BY <1>18
<1> QED BY <1>1, <1>2, <1>3, <1>4, <1>5, <1>6, <1>7, <1>8, <1>9, <1>10, <1>11, <1>12, <1>13, <1>14,
           <1>15, <1>16, <1>17, <1>18 DEF NapNext, NapThread, MainThread

\* The invariant is enough for what a visitor and the service manager count on.
LEMMA NapInvGives == NapInv => AwakeWhenSomebodyStays /\ LeavesNothingBehind
BY DEF NapInv, SeenInv, DockerInv, AwakeWhenSomebodyStays, LeavesNothingBehind, Up

\* A visitor who stays finds the emulator awake, and a worker that leaves takes
\* its container with it, however looks, gestures and departures interleave
\* (nap.rs, watch_nap; process.rs, terminate).
THEOREM AwakeForWhoStays ==
    NapSpec => [](NapTypeOK /\ AwakeWhenSomebodyStays /\ LeavesNothingBehind)
<1>1. NapInv => NapTypeOK /\ AwakeWhenSomebodyStays /\ LeavesNothingBehind
  BY NapInvGives DEF NapInv
<1> QED BY <1>1, NapInitInv, NapStepInv, PTL DEF NapSpec

HIDE NapAssumption
HIDE DEF napVars, roomVars, threadVars, emulatorVars, frameVars

-----------------------------------------------------------------------------
(* The idle rule (nap.rs)                                                   *)

USE IdleAssumption
USE DEF idleVars, ruleVars, pastVars

\* The limit is not said again for the last gesture.
Said == said /\ ~moved

\* How long the room has been empty is counted by the rule no faster than it
\* passes, and a stay of a whole tick has stopped that clock.
VacancyInv ==
    /\ stayed => crowd
    /\ idlePC = "decide" /\ stayed => busy.crowd
    /\ playing /\ settled /\ stayed => emptySince = NoSince
    /\ playing /\ emptySince # NoSince => vacant >= emptySince

\* Once the end is near the countdown is on show at every tick, so it has been on
\* show for as long as the room has been past that point.
CountdownInv ==
    /\ playing /\ settled /\ alive >= AFTER - WARN => Said \/ shown > 0
    /\ playing /\ ~Said => announced + (AFTER - WARN) >= alive

\* The order to close is given for one of the two reasons.
OrderInv == idlePC = "close" => playing /\ (vacant >= EMPTY \/ announced >= WARN)

IdleInv == IdleTypeOK /\ VacancyInv /\ CountdownInv /\ OrderInv

\* Rounding minutes up neither hides the end nor shows more than is left.
LEMMA DivCeilBounds ==
    ASSUME NEW a \in Nat, NEW b \in Nat \ {0}
    PROVE  DivCeil(a, b) \in 0..a /\ (a > 0 => DivCeil(a, b) > 0)
<1> DEFINE q == (a + b - 1) \div b
           r == (a + b - 1) % b
<1>1. q \in Nat /\ r \in 0..(b - 1) /\ a + b - 1 = b * q + r
  OBVIOUS
<1> HIDE DEF q, r
<1>2. q <= a
  <2> SUFFICES ASSUME q >= a + 1 PROVE FALSE
    BY <1>1
  <2>1. b * q >= b * (a + 1)
    BY <1>1
  <2>2. b * (a + 1) >= a + b
    OBVIOUS
  <2> QED BY <1>1, <2>1, <2>2
<1>3. ASSUME a > 0 PROVE q > 0
  <2> SUFFICES ASSUME q = 0 PROVE FALSE
    BY <1>1
  <2>1. b * q = 0
    OBVIOUS
  <2> QED BY <1>1, <1>3, <2>1
<1> QED BY <1>1, <1>2, <1>3 DEF DivCeil, q

\* A room that opens has just been used.
LEMMA IdleInitInv == IdleInit => IdleInv
<1> SUFFICES ASSUME IdleInit PROVE IdleInv
  OBVIOUS
<1>1. /\ asked \in BOOLEAN /\ crowd \in BOOLEAN /\ moved \in BOOLEAN /\ said \in BOOLEAN
      /\ busy \in [crowd : BOOLEAN, wanted : BOOLEAN] /\ shut \in BOOLEAN /\ settled \in BOOLEAN
      /\ stayed \in BOOLEAN /\ spurned \in BOOLEAN
  BY DEF IdleInit
<1>2. playing \in BOOLEAN
  BY DEF IdleInit
<1>3. /\ alive \in 0..AFTER /\ emptySince \in 0..NoSince /\ closingIn \in 0..WARN
      /\ shown \in 0..WARN /\ vacant \in 0..EMPTY /\ announced \in 0..WARN /\ idlePC = "sleep"
  BY DEF IdleInit, NoSince
<1>4. IdleTypeOK
  BY <1>1, <1>2, <1>3 DEF IdleTypeOK
<1>5. VacancyInv /\ CountdownInv /\ OrderInv
  BY DEF IdleInit, VacancyInv, CountdownInv, OrderInv, Said
<1> QED BY <1>4, <1>5 DEF IdleInv

\* What one turn of the rule leaves, without the cases that do not matter here.
LEMMA DecideGives ==
    ASSUME IdleTypeOK, Decide
    PROVE  /\ idlePC = "decide" /\ idlePC' \in {"sleep", "close"} /\ moved' = FALSE
           /\ closingIn' \in 0..WARN /\ shown' = closingIn' /\ settled' = ~busy.wanted
           /\ emptySince' \in {emptySince, since} /\ since \in 0..NoSince
           /\ UNCHANGED <<playing, crowd, asked, alive, busy, shut, stayed, vacant, announced, spurned>>
<1>1. since \in 0..NoSince
  BY DEF since, NoSince, IdleTypeOK
<1>2. countdown \in 0..WARN
  <2>1. CASE alive >= AFTER - WARN
    <3>1. AFTER - alive \in 0..WARN
      BY <2>1 DEF IdleTypeOK
    <3>2. DivCeil(AFTER - alive, MINUTE) \in 0..(AFTER - alive)
      BY <3>1, DivCeilBounds
    <3> QED BY <2>1, <3>1, <3>2 DEF countdown
  <2>2. CASE ~(alive >= AFTER - WARN)
    BY <2>2 DEF countdown
  <2> QED BY <2>1, <2>2
<1>3. closingIn' \in 0..WARN
  BY <1>2 DEF Decide, IdleTypeOK
<1>4. emptySince' \in {emptySince, since}
  BY DEF Decide
<1> QED BY <1>1, <1>3, <1>4 DEF Decide, pastVars

\* Every look and every tick leave values of the right kind.
LEMMA IdleTypes == ASSUME IdleTypeOK, [IdleNext]_idleVars PROVE IdleTypeOK'
<1> USE DEF IdleTypeOK
<1>1. CASE Come BY <1>1 DEF Come
<1>2. CASE Go BY <1>2 DEF Go
<1>3. CASE Gesture BY <1>3 DEF Gesture
<1>4. CASE Request BY <1>4 DEF Request
<1>5. CASE Refused BY <1>5 DEF Refused
<1>6. CASE HalfMinute
  <2>1. /\ alive' \in 0..AFTER /\ emptySince' \in 0..NoSince
        /\ vacant' \in 0..EMPTY /\ announced' \in 0..WARN
    BY <1>6 DEF HalfMinute, Capped, NoSince
  <2>2. stayed' \in BOOLEAN /\ settled' \in BOOLEAN
    BY <1>6 DEF HalfMinute
  <2>3. UNCHANGED <<playing, crowd, asked, moved, closingIn, said, idlePC, busy, shown, shut, spurned>>
    BY <1>6 DEF HalfMinute
  <2> QED BY <2>1, <2>2, <2>3
<1>7. CASE ReadBusy BY <1>7 DEF ReadBusy
<1>8. CASE Decide
  <2>1. said' \in BOOLEAN
    BY <1>8 DEF Decide
  <2>2. settled' \in BOOLEAN /\ moved' \in BOOLEAN
    BY <1>8, DecideGives
  <2>3. emptySince' \in 0..NoSince /\ closingIn' \in 0..WARN /\ shown' \in 0..WARN
        /\ idlePC' \in {"sleep", "decide", "close"}
    BY <1>8, DecideGives
  <2>4. UNCHANGED <<playing, crowd, asked, alive, busy, shut, stayed, vacant, announced, spurned>>
    BY <1>8, DecideGives
  <2> QED BY <2>1, <2>2, <2>3, <2>4
<1>9. CASE Close
  BY <1>9 DEF Close
<1>10. CASE UNCHANGED idleVars BY <1>10
<1> QED BY <1>1, <1>2, <1>3, <1>4, <1>5, <1>6, <1>7, <1>8, <1>9, <1>10 DEF IdleNext, IdleThread

\* The clocks of the rule and the time that passes keep their distance.
LEMMA IdleStepInv == IdleInv /\ [IdleNext]_idleVars => IdleInv'
<1> SUFFICES ASSUME IdleInv, [IdleNext]_idleVars
             PROVE  VacancyInv' /\ CountdownInv' /\ OrderInv'
  BY IdleTypes DEF IdleInv
<1> USE DEF IdleInv, VacancyInv, CountdownInv, OrderInv, Said
<1>1. CASE Come BY <1>1 DEF Come
<1>2. CASE Go BY <1>2 DEF Go
<1>3. CASE Gesture BY <1>3 DEF Gesture, IdleTypeOK
<1>4. CASE Request BY <1>4 DEF Request
<1>5. CASE Refused BY <1>5 DEF Refused
<1>6. CASE HalfMinute
  <2>1. VacancyInv'
    <3>1. playing /\ emptySince # NoSince => ~stayed /\ vacant >= emptySince
      BY <1>6 DEF HalfMinute
    <3>2. playing' /\ emptySince' # NoSince => vacant' >= emptySince'
      BY <1>6, <3>1 DEF HalfMinute, Capped, NoSince, IdleTypeOK
    <3>3. /\ idlePC' = "sleep" /\ settled' = FALSE /\ stayed' = crowd /\ crowd' = crowd
      BY <1>6 DEF HalfMinute
    <3> QED BY <3>2, <3>3
  <2>2. CountdownInv'
    <3>1. settled' = FALSE /\ playing' = playing /\ said' = said /\ moved' = moved
      BY <1>6 DEF HalfMinute
    <3>2. ASSUME playing, ~Said PROVE announced' + (AFTER - WARN) >= alive'
      <4>1. CASE alive >= AFTER - WARN
        <5>1. shown > 0
          BY <1>6, <3>2, <4>1 DEF HalfMinute
        <5>2. announced' = Capped(announced, WARN) /\ alive' = Capped(alive, AFTER)
          BY <1>6, <5>1 DEF HalfMinute
        <5>3. announced + (AFTER - WARN) >= alive
          BY <3>2
        <5> QED BY <5>2, <5>3 DEF Capped, IdleTypeOK
      <4>2. CASE ~(alive >= AFTER - WARN)
        BY <1>6, <4>2 DEF HalfMinute, Capped, IdleTypeOK
      <4> QED BY <4>1, <4>2
    <3> QED BY <3>1, <3>2
  <2>3. OrderInv'
    BY <1>6 DEF HalfMinute
  <2> QED BY <2>1, <2>2, <2>3
<1>7. CASE ReadBusy BY <1>7 DEF ReadBusy
<1>8. CASE Decide
  <2> DEFINE suspended == ~playing \/ busy.wanted
             deserted == since # NoSince /\ since >= EMPTY
  <2>1. /\ emptySince' = IF suspended THEN emptySince ELSE since
        /\ closingIn' = IF suspended THEN 0 ELSE IF deserted THEN closingIn ELSE countdown
        /\ said' = (Said \/ (~suspended /\ due(Said)))
        /\ idlePC' = IF ~suspended /\ due(Said) THEN "close" ELSE "sleep"
        /\ idlePC = "decide" /\ moved' = FALSE /\ shown' = closingIn' /\ settled' = ~busy.wanted
        /\ UNCHANGED <<playing, crowd, alive, busy, stayed, vacant, announced>>
    BY <1>8 DEF Decide
  <2>2. due(Said) <=> ~Said /\ (deserted \/ alive >= AFTER)
    BY DEF due
  <2>3. Said' <=> said'
    BY <2>1
  <2>4. playing /\ since # NoSince => ~busy.crowd /\ ~busy.wanted /\ vacant >= since
    BY DEF since, quiet_room, IdleTypeOK
  <2>5. VacancyInv'
    <3>1. ASSUME playing, settled', stayed PROVE emptySince' = NoSince
      BY <2>1, <2>4, <3>1
    <3>2. ASSUME playing, emptySince' # NoSince PROVE vacant >= emptySince'
      BY <2>1, <2>4, <3>2
    <3> QED BY <2>1, <3>1, <3>2
  <2>6. CountdownInv'
    <3>1. ASSUME playing, settled', alive >= AFTER - WARN, ~said' PROVE shown' > 0
      <4>1. ~suspended /\ ~deserted /\ alive < AFTER /\ alive \in Nat
        BY <2>1, <2>2, <3>1 DEF IdleTypeOK
      <4>2. shown' = DivCeil(AFTER - alive, MINUTE)
        BY <2>1, <3>1, <4>1 DEF countdown
      <4>3. AFTER - alive \in Nat /\ AFTER - alive > 0
        BY <4>1
      <4> QED BY <4>2, <4>3, DivCeilBounds
    <3>2. ASSUME playing, ~said' PROVE announced + (AFTER - WARN) >= alive
      BY <2>1, <3>2
    <3> QED BY <2>1, <2>3, <3>1, <3>2
  <2>7. OrderInv'
    <3> SUFFICES ASSUME ~suspended, due(Said) PROVE playing /\ (vacant >= EMPTY \/ announced >= WARN)
      BY <2>1
    <3>1. CASE deserted
      BY <2>4, <3>1 DEF IdleTypeOK, since, NoSince
    <3>2. CASE alive >= AFTER
      BY <2>2, <3>2 DEF IdleTypeOK
    <3> QED BY <2>2, <3>1, <3>2
  <2> QED BY <2>5, <2>6, <2>7
<1>9. CASE Close
  BY <1>9 DEF Close
<1>10. CASE UNCHANGED idleVars BY <1>10
<1> QED BY <1>1, <1>2, <1>3, <1>4, <1>5, <1>6, <1>7, <1>8, <1>9, <1>10 DEF IdleNext, IdleThread

\* An order to close is carried out only for one of the two reasons.
LEMMA ClosingIsForgotten ==
    IdleInv /\ [IdleNext]_idleVars =>
        [shut' /\ ~shut => playing /\ (vacant >= EMPTY \/ announced >= WARN)]_idleVars
<1> SUFFICES ASSUME IdleInv, IdleNext, shut', ~shut
             PROVE  playing /\ (vacant >= EMPTY \/ announced >= WARN)
  OBVIOUS
<1>1. CASE Close
  BY <1>1 DEF Close, IdleInv, OrderInv
<1>2. CASE Come \/ Go \/ Gesture \/ Request \/ Refused \/ HalfMinute \/ ReadBusy \/ Decide
  BY <1>2 DEF Come, Go, Gesture, Request, Refused, HalfMinute, ReadBusy, Decide
<1> QED BY <1>1, <1>2 DEF IdleNext, IdleThread

\* A room is closed only when it has been deserted for the whole of EMPTY, or the
\* countdown has been on show for the whole of WARN (nap.rs, Idle::saw).
THEOREM OnlyForgottenRoomsClose == IdleSpec => []IdleInv /\ ClosesOnlyForgotten
BY ClosingIsForgotten, IdleInitInv, IdleStepInv, PTL DEF IdleSpec, ClosesOnlyForgotten

HIDE IdleAssumption
HIDE DEF idleVars, ruleVars, pastVars

-----------------------------------------------------------------------------
(* The session directory (lock.rs, process.rs)                              *)

USE SessionAssumption
USE DEF sessVars

\* The worker has started an emulator.
Late == {"spawned", "running", "ending", "aborting"}

\* Who holds the directory is a worker that is past its start and not gone.
LockInv == \A w \in Workers : wk[w] \notin {"new", "gone"} <=> roomLock = w

\* In front of docker the probe finds nobody.
WrappedInv == wrapped => ~slipped /\ SavesMoveAlone

\* Where nobody slipped past the probe, from the probe on the worker that holds the
\* directory is alone with the emulator it started.
AloneInv ==
    ~slipped => /\ \A d, e \in Alive : d = e
                /\ \A w \in Workers : /\ wk[w] \in {"probed", "piped"} => Alive = {}
                                      /\ wk[w] \in Late => Alive \subseteq {w}

\* Its pipes are its own.
ReadersInv ==
    \A w \in Workers :
        /\ wk[w] \in {"new", "locked", "prepared", "linked", "probed"} => fifos # w /\ readers[w] = {}
        /\ ~slipped /\ wk[w] = "piped" => readers[w] = {}
        /\ ~slipped /\ wk[w] \in Late => readers[w] \subseteq {w}

SessInv == SessTypeOK /\ LockInv /\ WrappedInv /\ AloneInv /\ ReadersInv

\* Nobody has come yet.
LEMMA SessInitInv == SessInit => SessInv
<1> SUFFICES ASSUME SessInit PROVE SessInv
  OBVIOUS
<1>1. SessTypeOK
  BY DEF SessInit, SessTypeOK, Phases
<1>2. Alive = {}
  BY DEF SessInit, Alive
<1>3. LockInv /\ WrappedInv /\ AloneInv /\ ReadersInv
  BY <1>2 DEF SessInit, LockInv, WrappedInv, AloneInv, ReadersInv, SavesMoveAlone, Late
<1> QED BY <1>1, <1>3 DEF SessInv

\* No step of a worker, of a killed one's emulator or of the next worker breaks it.
LEMMA SessStepInv == SessInv /\ [SessNext]_sessVars => SessInv'
<1> SUFFICES ASSUME SessInv, [SessNext]_sessVars PROVE SessInv'
  OBVIOUS
<1> USE DEF SessInv, SessTypeOK, Phases, LockInv, WrappedInv, AloneInv, ReadersInv, SavesMoveAlone,
            Late, Alive, Goto, Quit, Over
<1>1. ASSUME NEW w \in Workers, TakeRoom(w) PROVE SessInv'
  BY <1>1 DEF TakeRoom
<1>2. ASSUME NEW w \in Workers, Reclaim(w) PROVE SessInv'
  <2>1. SessTypeOK' /\ LockInv'
    BY <1>2 DEF Reclaim
  <2>2. CASE wrapped
    <3>1. Alive' = {} /\ wrapped' = wrapped /\ slipped' = slipped
      BY <1>2, <2>2 DEF Reclaim
    <3>2. WrappedInv' /\ AloneInv'
      BY <2>2, <3>1 DEF Reclaim
    <3>3. ReadersInv'
      BY <1>2, <2>2 DEF Reclaim
    <3> QED BY <2>1, <3>2, <3>3
  <2>3. CASE ~wrapped
    BY <1>2, <2>1, <2>3 DEF Reclaim
  <2> QED BY <2>2, <2>3
<1>3. ASSUME NEW w \in Workers, PointSaves(w) PROVE SessInv'
  BY <1>3 DEF PointSaves
<1>4. ASSUME NEW w \in Workers, Probe(w) PROVE SessInv'
  <2>1. CASE \E e \in Alive : emu[e] = "loud"
    BY <1>4, <2>1 DEF Probe
  <2>2. CASE ~\E e \in Alive : emu[e] = "loud"
    <3>1. /\ wk[w] = "linked" /\ Goto(w, "probed") /\ UNCHANGED <<wrapped, roomLock, emu, fifos, readers>>
          /\ slipped' = (slipped \/ Alive # {})
      BY <1>4, <2>2 DEF Probe
    <3>2. CASE Alive = {}
      <4>1. slipped' = slipped /\ Alive' = {}
        BY <3>1, <3>2
      <4> QED BY <3>1, <4>1
    <3>3. CASE Alive # {}
      <4>1. slipped' = TRUE /\ ~wrapped
        BY <3>1, <3>3
      <4> QED BY <3>1, <4>1
    <3> QED BY <3>2, <3>3
  <2> QED BY <2>1, <2>2
<1>5. ASSUME NEW w \in Workers, CreatePipes(w) PROVE SessInv'
  BY <1>5 DEF CreatePipes
<1>6. ASSUME NEW w \in Workers, Spawn(w) PROVE SessInv'
  BY <1>6 DEF Spawn
<1>7. ASSUME NEW w \in Workers, FailEarly(w) PROVE SessInv'
  BY <1>7 DEF FailEarly
<1>8. ASSUME NEW w \in Workers, Attach(w) PROVE SessInv'
  BY <1>8 DEF Attach
<1>9. ASSUME NEW w \in Workers, AttachFails(w) PROVE SessInv'
  BY <1>9 DEF AttachFails
<1>10. ASSUME NEW w \in Workers, Finish(w) PROVE SessInv'
  BY <1>10 DEF Finish
<1>11. ASSUME NEW w \in Workers, Terminate(w) PROVE SessInv'
  BY <1>11 DEF Terminate
<1>12. ASSUME NEW w \in Workers, Kill(w) PROVE SessInv'
  BY <1>12 DEF Kill
<1>13. ASSUME NEW e \in Workers, EmuReads(e) PROVE SessInv'
  BY <1>13 DEF EmuReads
<1>14. ASSUME NEW e \in Workers, EmuEnds(e) PROVE SessInv'
  BY <1>14 DEF EmuEnds
<1>15. CASE UNCHANGED sessVars
  BY <1>15
<1> QED BY <1>1, <1>2, <1>3, <1>4, <1>5, <1>6, <1>7, <1>8, <1>9, <1>10, <1>11, <1>12, <1>13,
           <1>14, <1>15 DEF SessNext, WorkerStep

\* A set whose members are all the same has at most one.
LEMMA AtMostOne ==
    ASSUME NEW S, \A x, y \in S : x = y
    PROVE  Cardinality(S) <= 1
<1>1. CASE S = {}
  BY <1>1, FS_EmptySet
<1>2. CASE S # {}
  <2>1. PICK x \in S : TRUE
    BY <1>2
  <2>2. S = {x}
    BY <2>1
  <2> QED BY <2>2, FS_Singleton
<1> QED BY <1>1, <1>2

\* The invariant is enough for the three promises of the session directory.
LEMMA SessInvGives == SessInv => OneEmulatorPerRoom /\ SavesMoveAlone /\ OwnEmulatorReads
<1> SUFFICES ASSUME SessInv PROVE OneEmulatorPerRoom /\ SavesMoveAlone /\ OwnEmulatorReads
  OBVIOUS
<1>1. OneEmulatorPerRoom
  <2>1. CASE slipped
    BY <2>1 DEF SessInv, WrappedInv, OneEmulatorPerRoom
  <2>2. CASE ~slipped
    <3>1. Cardinality(Alive) <= 1
      BY <2>2, AtMostOne DEF SessInv, AloneInv
    <3> QED BY <3>1 DEF OneEmulatorPerRoom
  <2> QED BY <2>1, <2>2
<1>2. SavesMoveAlone
  BY DEF SessInv, WrappedInv, SavesMoveAlone
<1>3. OwnEmulatorReads
  BY DEF SessInv, ReadersInv, OwnEmulatorReads, Late
<1> QED BY <1>1, <1>2, <1>3

\* A room has one emulator, whose saves nobody else moves and which reads the
\* controllers of its own worker, whatever was killed before (lock.rs, process.rs).
THEOREM EmulatorIsAlone ==
    SessSpec => [](SessTypeOK /\ OneEmulatorPerRoom /\ SavesMoveAlone /\ OwnEmulatorReads)
<1>1. SessInv => SessTypeOK /\ OneEmulatorPerRoom /\ SavesMoveAlone /\ OwnEmulatorReads
  BY SessInvGives DEF SessInv
<1> QED BY <1>1, SessInitInv, SessStepInv, PTL DEF SessSpec

HIDE SessionAssumption
HIDE DEF sessVars

-----------------------------------------------------------------------------
(* The Switch rooms (external.rs, switch-room.py)                           *)

USE SwitchAssumption
USE DEF switchVars, adapterVars, workerSide

\* The steps of an adapter that has its slot.
Holding == {"copy", "rename", "saved", "start", "serve", "stop", "backup"}

\* Past the lock of its slot an adapter has it.
SlotInv == \A r \in Rooms : adapter[r] \in Holding => slotLock[slotOf[r]] = r

\* An engine runs under an adapter that serves or stops it.
EngineInv == \A r \in Rooms : engine[r] => adapter[r] \in {"serve", "stop"}

\* A slot comes whole from the rename, and is never used before.
DataInv ==
    /\ \A s \in SaveSlots : data[s] # "half"
    /\ \A r \in Rooms : adapter[r] \in Holding \ {"copy", "rename"} => data[slotOf[r]] = "whole"

\* An adapter belongs to a worker that has the place of the machine.
PlaceInv ==
    \A r \in Rooms : /\ room[r] \in {"menu", "off", "lock", "bind"} => adapter[r] = "none"
                     /\ room[r] \in {"bind", "run", "eof"} => switchPlace = r

\* What is out of the rule needs a death or a refusal to stop.
DeathInv ==
    /\ deaths = 0 => \A r \in Rooms : room[r] # "dead"
    /\ deaths = 0 /\ ~refusals => orphans = {}

SwitchInv == SwitchTypeOK /\ SlotInv /\ EngineInv /\ DataInv /\ PlaceInv /\ DeathInv

\* Every step of a Switch room leaves values of the right kind.
LEMMA SwitchTypes == ASSUME SwitchTypeOK, [SwitchNext]_switchVars PROVE SwitchTypeOK'
<1> USE DEF SwitchTypeOK, Steps, Step, Proceed, Release, Unlocked
<1>1. ASSUME NEW r \in Rooms, NEW s \in SaveSlots, ChooseSwitch(r, s) PROVE SwitchTypeOK'
  BY <1>1 DEF ChooseSwitch
<1>2. ASSUME NEW r \in Rooms,
             \/ Restart(r) \/ TakeSwitch(r) \/ StartAdapter(r) \/ AdapterWaited(r)
             \/ SwitchWorkerDies(r) \/ UnitCleared(r)
      PROVE  SwitchTypeOK'
  <2>1. CASE Restart(r) BY <2>1 DEF Restart
  <2>2. CASE TakeSwitch(r) BY <2>2 DEF TakeSwitch
  <2>3. CASE StartAdapter(r) BY <2>3 DEF StartAdapter
  <2>4. CASE AdapterWaited(r) BY <2>4 DEF AdapterWaited
  <2>5. CASE SwitchWorkerDies(r) BY <2>5 DEF SwitchWorkerDies
  <2>6. CASE UnitCleared(r) BY <2>6 DEF UnitCleared
  <2> QED BY <1>2, <2>1, <2>2, <2>3, <2>4, <2>5, <2>6
<1>3. ASSUME NEW r \in Rooms, NEW next \in {"switch", "idle"}, SwitchEnds(r, next) PROVE SwitchTypeOK'
  BY <1>3 DEF SwitchEnds
<1>4. ASSUME NEW r \in Rooms, AdapterMoves(r) PROVE SwitchTypeOK'
  <2>1. CASE TakeSlot(r) BY <2>1 DEF TakeSlot
  <2>2. CASE Initialise(r) BY <2>2 DEF Initialise
  <2>3. CASE RenamePending(r) BY <2>3 DEF RenamePending
  <2>4. CASE BackupFirst(r) \/ LeaveServe(r) \/ BackupLast(r)
    BY <2>4 DEF BackupFirst, LeaveServe, BackupLast
  <2>5. CASE StartEngine(r) BY <2>5 DEF StartEngine
  <2>6. CASE StopEngine(r) BY <2>6 DEF StopEngine
  <2>7. CASE StopRefused(r) BY <2>7 DEF StopRefused
  <2> QED BY <1>4, <2>1, <2>2, <2>3, <2>4, <2>5, <2>6, <2>7 DEF AdapterMoves
<1>5. ASSUME NEW r \in Rooms, EngineExits(r) \/ CaptureHangs(r) PROVE SwitchTypeOK'
  BY <1>5 DEF EngineExits, CaptureHangs
<1>6. CASE UNCHANGED switchVars
  BY <1>6
<1> QED BY <1>1, <1>2, <1>3, <1>4, <1>5, <1>6 DEF SwitchNext

\* What a worker does, its death included, breaks nothing.
LEMMA WorkerInv ==
    ASSUME SwitchInv, NEW r \in Rooms,
           \/ \E s \in SaveSlots : ChooseSwitch(r, s)
           \/ \E next \in {"switch", "idle"} : SwitchEnds(r, next)
           \/ Restart(r) \/ TakeSwitch(r) \/ StartAdapter(r) \/ AdapterWaited(r)
           \/ SwitchWorkerDies(r) \/ UnitCleared(r)
    PROVE  SlotInv' /\ EngineInv' /\ DataInv' /\ PlaceInv' /\ DeathInv'
<1> USE DEF SwitchInv, SwitchTypeOK, SlotInv, EngineInv, DataInv, PlaceInv, DeathInv, Step, Proceed,
            Release, Unlocked, Holding
<1>1. ASSUME NEW s \in SaveSlots, ChooseSwitch(r, s)
      PROVE  SlotInv' /\ EngineInv' /\ DataInv' /\ PlaceInv' /\ DeathInv'
  BY <1>1 DEF ChooseSwitch
<1>2. ASSUME NEW next, SwitchEnds(r, next)
      PROVE  SlotInv' /\ EngineInv' /\ DataInv' /\ PlaceInv' /\ DeathInv'
  BY <1>2 DEF SwitchEnds
<1>3. CASE Restart(r) BY <1>3 DEF Restart
<1>4. CASE TakeSwitch(r) BY <1>4 DEF TakeSwitch
<1>5. CASE StartAdapter(r) BY <1>5 DEF StartAdapter
<1>6. CASE AdapterWaited(r) BY <1>6 DEF AdapterWaited
<1>7. CASE SwitchWorkerDies(r) BY <1>7 DEF SwitchWorkerDies
<1>8. CASE UnitCleared(r) BY <1>8 DEF UnitCleared
<1> QED BY <1>1, <1>2, <1>3, <1>4, <1>5, <1>6, <1>7, <1>8

\* Nor does what an adapter and its engine do.
LEMMA AdapterInv ==
    ASSUME SwitchInv, NEW r \in Rooms, AdapterMoves(r) \/ EngineExits(r) \/ CaptureHangs(r)
    PROVE  SlotInv' /\ EngineInv' /\ DataInv' /\ PlaceInv' /\ DeathInv'
<1> USE DEF SwitchInv, SwitchTypeOK, SlotInv, EngineInv, DataInv, PlaceInv, DeathInv, Step,
            Unlocked, Holding
<1>1. CASE TakeSlot(r) BY <1>1 DEF TakeSlot
<1>2. CASE Initialise(r) BY <1>2 DEF Initialise
<1>3. CASE RenamePending(r) BY <1>3 DEF RenamePending
<1>4. CASE BackupFirst(r) BY <1>4 DEF BackupFirst
<1>5. CASE StartEngine(r) BY <1>5 DEF StartEngine
<1>6. CASE LeaveServe(r) BY <1>6 DEF LeaveServe
<1>7. CASE StopEngine(r) BY <1>7 DEF StopEngine
<1>8. CASE StopRefused(r) BY <1>8 DEF StopRefused
<1>9. CASE BackupLast(r) BY <1>9 DEF BackupLast
<1>10. CASE EngineExits(r) BY <1>10 DEF EngineExits
<1>11. CASE CaptureHangs(r) BY <1>11 DEF CaptureHangs
<1> QED BY <1>1, <1>2, <1>3, <1>4, <1>5, <1>6, <1>7, <1>8, <1>9, <1>10, <1>11 DEF AdapterMoves

\* No room plays at first.
LEMMA SwitchInitInv == SwitchInit => SwitchInv
<1> SUFFICES ASSUME SwitchInit PROVE SwitchInv
  OBVIOUS
<1>1. SwitchTypeOK
  <2>1. /\ room \in [Rooms -> {"off", "lock", "bind", "run", "eof", "menu", "dead"}]
        /\ kept \in [Rooms -> {"switch", "idle"}] /\ slotOf \in [Rooms -> SaveSlots]
        /\ switchPlace = NoRoom /\ adapter \in [Rooms -> Steps]
    BY DEF SwitchInit, Steps
  <2>2. /\ slotLock \in [SaveSlots -> Rooms \union {NoRoom}]
        /\ data \in [SaveSlots -> {"none", "half", "whole"}]
    BY DEF SwitchInit
  <2>4. engine \in [Rooms -> BOOLEAN]
    BY DEF SwitchInit
  <2>3. hungCapture = {} /\ orphans = {} /\ deaths \in 0..MaxDeaths
    BY DEF SwitchInit
  <2>5. refusals \in BOOLEAN
    BY DEF SwitchInit
  <2> QED BY <2>1, <2>2, <2>3, <2>4, <2>5 DEF SwitchTypeOK
<1>2. SlotInv /\ EngineInv /\ DataInv /\ PlaceInv /\ DeathInv
  BY DEF SwitchInit, SlotInv, EngineInv, DataInv, PlaceInv, DeathInv, Holding
<1> QED BY <1>1, <1>2 DEF SwitchInv

\* No step of a worker, an adapter or an engine breaks the invariant.
LEMMA SwitchStepInv == SwitchInv /\ [SwitchNext]_switchVars => SwitchInv'
<1> SUFFICES ASSUME SwitchInv, [SwitchNext]_switchVars
             PROVE  SlotInv' /\ EngineInv' /\ DataInv' /\ PlaceInv' /\ DeathInv'
  BY SwitchTypes DEF SwitchInv
<1>1. CASE SwitchNext
  BY <1>1, WorkerInv, AdapterInv DEF SwitchNext
<1>2. CASE UNCHANGED switchVars
  BY <1>2 DEF SwitchInv, SlotInv, EngineInv, DataInv, PlaceInv, DeathInv
<1> QED BY <1>1, <1>2

\* The invariant is enough for the four promises of the Switch rooms.
LEMMA SwitchInvGives ==
    SwitchInv => OneSwitchGame /\ SlotPlayedAlone /\ CopiedWhenStill /\ SlotIsWhole
<1> SUFFICES ASSUME SwitchInv
             PROVE  OneSwitchGame /\ SlotPlayedAlone /\ CopiedWhenStill /\ SlotIsWhole
  OBVIOUS
<1>1. OneSwitchGame
  <2> SUFFICES ASSUME deaths = 0, ~refusals
               PROVE  Cardinality({r \in Rooms : engine[r]}) <= 1 /\ orphans = {}
    BY DEF OneSwitchGame
  <2>1. ASSUME NEW r \in Rooms, engine[r] PROVE switchPlace = r
    BY <2>1 DEF SwitchInv, SwitchTypeOK, EngineInv, PlaceInv, DeathInv
  <2>2. Cardinality({r \in Rooms : engine[r]}) <= 1
    BY <2>1, AtMostOne
  <2> QED BY <2>2 DEF SwitchInv, DeathInv
<1>2. SlotPlayedAlone
  BY DEF SwitchInv, EngineInv, SlotInv, SlotPlayedAlone, Holding
<1>3. CopiedWhenStill
  BY DEF SwitchInv, EngineInv, SlotInv, CopiedWhenStill, Holding
<1>4. SlotIsWhole
  BY DEF SwitchInv, EngineInv, DataInv, SlotIsWhole, Holding
<1> QED BY <1>1, <1>2, <1>3, <1>4

\* Unless a worker was killed or an engine would not stop there is one Switch game
\* on the machine, and whatever happened a slot is played by one room, copied when
\* nobody writes it, and whole when an engine opens it (switch-room.py).
THEOREM SwitchGameIsAlone ==
    SwitchSpec => [](SwitchTypeOK /\ OneSwitchGame /\ SlotPlayedAlone /\ CopiedWhenStill /\ SlotIsWhole)
<1>1. SwitchInv => SwitchTypeOK /\ OneSwitchGame /\ SlotPlayedAlone /\ CopiedWhenStill /\ SlotIsWhole
  BY SwitchInvGives DEF SwitchInv
<1> QED BY <1>1, SwitchInitInv, SwitchStepInv, PTL DEF SwitchSpec

HIDE SwitchAssumption
HIDE DEF switchVars, adapterVars, workerSide

-----------------------------------------------------------------------------
(* The controllers of a Switch game (ingress.rs)                            *)

USE SwitchSeatsAssumption
USE DEF switchSeatVars

\* The thread never believes a list the file does not hold, and counts an absence
\* no longer than it lasts.
SwitchSeatsInv ==
    /\ SwitchSeatsTypeOK
    /\ written = seatsFile
    /\ \A p \in SwitchPorts : lastSeen[p] <= left[p]

\* The list of controllers names seats, the first one when there is none.
LEMMA ConnectedArePorts == \A seen : connected(seen) \subseteq SwitchPorts
BY DEF connected

\* The first list is the one the file was given.
LEMMA SwitchSeatsInitInv == SwitchSeatsInit => SwitchSeatsInv
BY DEF SwitchSeatsInit, SwitchSeatsInv, SwitchSeatsTypeOK

\* A look, a write that fails, and who sits down or stands up break nothing.
LEMMA SwitchSeatsStepInv == SwitchSeatsInv /\ [SwitchSeatsNext]_switchSeatVars => SwitchSeatsInv'
<1> SUFFICES ASSUME SwitchSeatsInv, [SwitchSeatsNext]_switchSeatVars PROVE SwitchSeatsInv'
  OBVIOUS
<1> USE DEF SwitchSeatsInv, SwitchSeatsTypeOK
<1>1. ASSUME NEW p \in SwitchPorts, SitDown(p) PROVE SwitchSeatsInv'
  BY <1>1 DEF SitDown
<1>2. ASSUME NEW p \in SwitchPorts, StandUp(p) PROVE SwitchSeatsInv'
  BY <1>2 DEF StandUp
<1>3. ASSUME NEW passed \in BOOLEAN, LookAtSeats(passed) PROVE SwitchSeatsInv'
  <2> DEFINE seen == [p \in SwitchPorts |-> IF p \in seated THEN 0 ELSE Older(lastSeen[p])]
             listed == connected(seen)
  <2>1. /\ lastSeen' = seen /\ left' = [p \in SwitchPorts |-> Older(left[p])] /\ seated' = seated
        /\ \/ UNCHANGED <<seatsFile, written>>
           \/ written' = listed /\ seatsFile' = listed
    BY <1>3 DEF LookAtSeats, Wrote
  <2>2. listed \subseteq SwitchPorts
    BY ConnectedArePorts
  <2> HIDE DEF listed
  <2>3. ASSUME NEW p \in SwitchPorts
        PROVE  lastSeen'[p] \in 0..SEAT_GRACE /\ left'[p] \in 0..SEAT_GRACE /\ lastSeen'[p] <= left'[p]
    BY <2>1 DEF Older
  <2>4. {lastSeen', left'} \subseteq [SwitchPorts -> 0..SEAT_GRACE]
    BY <2>1, <2>3
  <2>5. /\ seated' \subseteq SwitchPorts /\ seatsFile' \subseteq SwitchPorts /\ written' \subseteq SwitchPorts
        /\ written' = seatsFile'
    BY <2>1, <2>2
  <2> QED BY <2>3, <2>4, <2>5
<1>4. CASE UNCHANGED switchSeatVars
  BY <1>4
<1> QED BY <1>1, <1>2, <1>3, <1>4 DEF SwitchSeatsNext

\* A look that unplugs a controller has found its seat empty for the grace.
LEMMA UnpluggedIsGone ==
    SwitchSeatsInv /\ [SwitchSeatsNext]_switchSeatVars =>
        [\A p \in seatsFile \ seatsFile' :
            p \notin seated /\ (left[p] >= SEAT_GRACE - 1)]_switchSeatVars
<1> SUFFICES ASSUME SwitchSeatsInv, SwitchSeatsNext, NEW p \in seatsFile \ seatsFile'
             PROVE  p \notin seated /\ left[p] >= SEAT_GRACE - 1
  OBVIOUS
<1>1. PICK passed \in BOOLEAN : LookAtSeats(passed)
  BY DEF SwitchSeatsNext, SitDown, StandUp
<1> DEFINE seen == [x \in SwitchPorts |-> IF x \in seated THEN 0 ELSE Older(lastSeen[x])]
<1>2. seatsFile' = connected(seen)
  BY <1>1 DEF LookAtSeats, Wrote
<1>3. p \in SwitchPorts /\ ~(seen[p] < SEAT_GRACE)
  BY <1>2 DEF connected, SwitchSeatsInv, SwitchSeatsTypeOK
<1>4. p \notin seated /\ ~(Older(lastSeen[p]) < SEAT_GRACE)
  BY <1>3
<1>5. lastSeen[p] \in 0..SEAT_GRACE /\ left[p] \in 0..SEAT_GRACE /\ lastSeen[p] <= left[p]
  BY <1>3 DEF SwitchSeatsInv, SwitchSeatsTypeOK
<1> QED BY <1>4, <1>5 DEF Older

\* A controller goes only when its seat is empty and has been for the grace, as the
\* thread can tell it (ingress.rs, Connected::update).
THEOREM ReloadsKeepTheirPad == SwitchSeatsSpec => []SwitchSeatsInv /\ ReloadKeepsItsPad
BY UnpluggedIsGone, SwitchSeatsInitInv, SwitchSeatsStepInv, PTL DEF SwitchSeatsSpec, ReloadKeepsItsPad

HIDE SwitchSeatsAssumption
HIDE DEF switchSeatVars

-----------------------------------------------------------------------------
(* The shakes (rumble.rs)                                                   *)

USE RumbleAssumption, SlotsAssumption
USE DEF rumbleVars

\* Bytes that are pairs of a pad and a level, nothing left over.
Aligned(bytes) ==
    /\ bytes \in Seq(Nat) /\ Len(bytes) % 2 = 0
    /\ \A i \in 1..Len(bytes) : bytes[i] \in (IF i % 2 = 1 THEN Pads ELSE Levels)

\* The pipe and the byte kept aside hold whole pairs, and applying them would bring
\* every port to the level of its pad.
RumbleInv ==
    /\ RumbleTypeOK /\ fifo \in Seq(Nat) /\ odd \in Seq(Nat)
    /\ Aligned(odd \o fifo) /\ ShakesLandHome

\* A set of numbers has a smallest one.
LEMMA SmallestOf ==
    ASSUME NEW T, T \subseteq Nat, T # {}
    PROVE  \E x \in T : \A y \in T : x <= y
<1> DEFINE R == OpToRel(<, Nat)
<1>1. IsWellFoundedOn(R, Nat)
  BY NatLessThanWellFounded
<1>2. \A x, y \in Nat : x < y => <<x, y>> \in R
  BY DEF OpToRel
<1> HIDE DEF R
<1>3. PICK x \in T : \A y \in T : ~ (<<y, x>> \in R)
  BY <1>1, WFMin
<1>4. ASSUME NEW y \in T PROVE x <= y
  <2>1. x \in Nat /\ y \in Nat /\ ~(y < x)
    BY <1>2, <1>3
  <2> QED BY <2>1
<1> QED BY <1>4

\* A set of places has a last one.
LEMMA LargestOf ==
    ASSUME NEW m \in Nat, NEW I, I \subseteq 1..m, I # {}
    PROVE  \E x \in I : \A y \in I : y <= x
<1> DEFINE T == {m - i : i \in I}
<1>1. T \subseteq Nat
  OBVIOUS
<1>5. T # {}
  OBVIOUS
<1>2. PICK t \in T : \A y \in T : t <= y
  BY <1>1, <1>5, SmallestOf
<1>3. PICK x \in I : t = m - x
  BY <1>2
<1>4. ASSUME NEW y \in I PROVE y <= x
  <2>1. m - x <= m - y
    BY <1>2, <1>3
  <2> QED BY <2>1
<1> QED BY <1>4

\* The places of a string of pairs that speak of a port.
Mine(p, pairs) == {i \in 1..Len(pairs) : pairs[i][1] + 1 = p}

\* What Shaken says, without a choice.
LEMMA ShakenLast ==
    ASSUME NEW p, NEW level, NEW pairs, NEW x \in Mine(p, pairs), Len(pairs) \in Nat,
           \A j \in Mine(p, pairs) : j <= x
    PROVE  Shaken(p, level, pairs) = pairs[x][2]
<1> DEFINE c == CHOOSE i \in Mine(p, pairs) : \A j \in Mine(p, pairs) : j <= i
<1>1. Shaken(p, level, pairs) = pairs[c][2]
  BY DEF Shaken, Mine
<1>2. c \in Mine(p, pairs) /\ \A j \in Mine(p, pairs) : j <= c
  OBVIOUS
<1> HIDE DEF c
<1>3. c <= x /\ x <= c /\ c \in Nat /\ x \in Nat
  BY <1>2 DEF Mine
<1>4. c = x
  BY <1>3
<1> QED BY <1>1, <1>4

\* Pairs that do not speak of a port leave its level.
LEMMA ShakenNot ==
    ASSUME NEW p, NEW level, NEW pairs, Mine(p, pairs) = {}
    PROVE  Shaken(p, level, pairs) = level
BY DEF Shaken, Mine

\* A string of pairs may be applied in two times.
LEMMA ShakenInTwo ==
    ASSUME NEW p, NEW level, NEW a, NEW b, NEW ab, Len(a) \in Nat, Len(b) \in Nat,
           Len(ab) = Len(a) + Len(b),
           \A i \in 1..Len(a) : a[i] = ab[i], \A i \in 1..Len(b) : b[i] = ab[Len(a) + i]
    PROVE  Shaken(p, level, ab) = Shaken(p, Shaken(p, level, a), b)
<1> DEFINE n == Len(a)
           m == Len(b)
<1>1. CASE Mine(p, b) # {}
  <2>1. PICK x \in Mine(p, b) : \A j \in Mine(p, b) : j <= x
    <3>1. Mine(p, b) \subseteq 1..m
      BY DEF Mine
    <3> QED BY <1>1, <3>1, LargestOf
  <2>2. n + x \in Mine(p, ab)
    BY <2>1 DEF Mine
  <2>3. ASSUME NEW j \in Mine(p, ab) PROVE j <= n + x
    <3>1. CASE j <= n
      BY <3>1, <2>1 DEF Mine
    <3>2. CASE j > n
      <4>1. j - n \in Mine(p, b)
        <5>1. j - n \in 1..m /\ n + (j - n) = j
          BY <3>2, <2>3 DEF Mine
        <5>2. b[j - n] = ab[j]
          BY <5>1
        <5> QED BY <5>1, <5>2, <2>3 DEF Mine
      <4>2. j - n <= x /\ x \in Nat /\ j \in Nat
        BY <4>1, <2>1, <2>3 DEF Mine
      <4> QED BY <4>2
    <3> QED BY <3>1, <3>2, <2>3 DEF Mine
  <2>4. Shaken(p, level, ab) = ab[n + x][2]
    BY <2>2, <2>3, ShakenLast
  <2>5. Shaken(p, Shaken(p, level, a), b) = b[x][2]
    BY <2>1, ShakenLast
  <2> QED BY <2>1, <2>4, <2>5 DEF Mine
<1>2. CASE Mine(p, b) = {} /\ Mine(p, a) # {}
  <2>1. PICK x \in Mine(p, a) : \A j \in Mine(p, a) : j <= x
    <3>1. Mine(p, a) \subseteq 1..n
      BY DEF Mine
    <3> QED BY <1>2, <3>1, LargestOf
  <2>2. x \in Mine(p, ab) /\ x \in 1..n
    BY <2>1 DEF Mine
  <2>3. ASSUME NEW j \in Mine(p, ab) PROVE j <= x
    <3>1. CASE j <= n
      <4>1. j \in Mine(p, a)
        BY <3>1, <2>3 DEF Mine
      <4> QED BY <4>1, <2>1
    <3>2. CASE j > n
      <4>1. j - n \in 1..m /\ n + (j - n) = j
        BY <3>2, <2>3 DEF Mine
      <4>2. b[j - n] = ab[j]
        BY <4>1
      <4>3. j - n \in Mine(p, b)
        BY <4>1, <4>2, <2>3 DEF Mine
      <4> QED BY <4>3, <1>2
    <3> QED BY <3>1, <3>2, <2>3 DEF Mine
  <2>4. Shaken(p, level, ab) = ab[x][2]
    BY <2>2, <2>3, ShakenLast
  <2>5. Shaken(p, level, a) = a[x][2]
    BY <2>1, ShakenLast
  <2>6. Shaken(p, Shaken(p, level, a), b) = Shaken(p, level, a)
    BY <1>2, ShakenNot
  <2> QED BY <2>2, <2>4, <2>5, <2>6
<1>3. CASE Mine(p, b) = {} /\ Mine(p, a) = {}
  <2>1. Mine(p, ab) = {}
    <3> SUFFICES ASSUME NEW j \in Mine(p, ab) PROVE FALSE
      OBVIOUS
    <3>1. CASE j <= n
      BY <3>1, <1>3 DEF Mine
    <3>2. CASE j > n
      <4>1. j - n \in 1..m /\ n + (j - n) = j
        BY <3>2 DEF Mine
      <4>2. b[j - n] = ab[j]
        BY <4>1
      <4>3. j - n \in Mine(p, b)
        BY <4>1, <4>2 DEF Mine
      <4> QED BY <4>3, <1>3
    <3> QED BY <3>1, <3>2 DEF Mine
  <2> QED BY <1>3, <2>1, ShakenNot
<1> QED BY <1>1, <1>2, <1>3

\* A pad is counted from zero, a port from one.
LEMMA PadsAreNat == Pads \subseteq Nat /\ \A q \in Pads : q + 1 \in Ports
BY DEF Pads, Ports

\* The pairs of a string of bytes, one by one.
LEMMA PairsOf ==
    ASSUME NEW bytes \in Seq(Nat)
    PROVE  /\ Len(Pairs(bytes)) = Len(bytes) \div 2 /\ Len(bytes) \div 2 \in Nat
           /\ \A i \in 1..(Len(bytes) \div 2) : Pairs(bytes)[i] = <<bytes[2 * i - 1], bytes[2 * i]>>
<1>1. Len(bytes) \div 2 \in Nat
  OBVIOUS
<1> QED BY <1>1 DEF Pairs

\* One more pair at the end.
LEMMA ShakenOneMore ==
    ASSUME NEW bytes, Aligned(bytes), NEW p \in Ports, NEW level, NEW q \in Pads, NEW l \in Levels
    PROVE  /\ Aligned(bytes \o <<q, l>>)
           /\ Shaken(p, level, Pairs(bytes \o <<q, l>>)) =
                  IF q + 1 = p THEN l ELSE Shaken(p, level, Pairs(bytes))
<1> DEFINE n == Len(bytes)
           more == bytes \o <<q, l>>
<1>1. bytes \in Seq(Nat) /\ n \in Nat /\ n % 2 = 0 /\ q \in Nat /\ l \in Nat
  BY PadsAreNat DEF Aligned
<1>2. more \in Seq(Nat) /\ Len(more) = n + 2 /\ more[n + 1] = q /\ more[n + 2] = l
      /\ \A i \in 1..n : more[i] = bytes[i]
  BY <1>1
<1> HIDE DEF more
<1>3. Aligned(more)
  <2>1. ASSUME NEW i \in 1..(n + 2) PROVE more[i] \in (IF i % 2 = 1 THEN Pads ELSE Levels)
    <3>1. CASE i \in 1..n
      BY <3>1, <1>2 DEF Aligned
    <3>2. CASE i = n + 1
      BY <3>2, <1>1, <1>2
    <3>3. CASE i = n + 2
      BY <3>3, <1>1, <1>2
    <3> QED BY <3>1, <3>2, <3>3, <1>1
  <2> QED BY <2>1, <1>1, <1>2 DEF Aligned
<1>4. PICK k \in Nat : n = 2 * k
  BY <1>1
<1>5. /\ Len(Pairs(bytes)) = k /\ Len(Pairs(more)) = k + 1
      /\ \A i \in 1..k : Pairs(bytes)[i] = <<bytes[2 * i - 1], bytes[2 * i]>>
      /\ \A i \in 1..(k + 1) : Pairs(more)[i] = <<more[2 * i - 1], more[2 * i]>>
  <2>1. n \div 2 = k /\ (n + 2) \div 2 = k + 1
    BY <1>4
  <2> QED BY <2>1, <1>1, <1>2, PairsOf
<1>6. ASSUME NEW i \in 1..k PROVE Pairs(bytes)[i] = Pairs(more)[i]
  <2>1. 2 * i - 1 \in 1..n /\ 2 * i \in 1..n /\ i \in 1..(k + 1)
    BY <1>4
  <2>2. more[2 * i - 1] = bytes[2 * i - 1] /\ more[2 * i] = bytes[2 * i]
    BY <1>2, <2>1
  <2>3. Pairs(bytes)[i] = <<bytes[2 * i - 1], bytes[2 * i]>>
    BY <1>5
  <2>4. Pairs(more)[i] = <<more[2 * i - 1], more[2 * i]>>
    BY <1>5, <2>1
  <2> QED BY ONLY <2>2, <2>3, <2>4, Zenon
<1> DEFINE new == << <<q, l>> >>
<1>7. Len(new) = 1 /\ new[1] = <<q, l>> /\ new[1][1] = q /\ new[1][2] = l
  OBVIOUS
<1> HIDE DEF new
<1>8. Shaken(p, level, Pairs(more)) = Shaken(p, Shaken(p, level, Pairs(bytes)), new)
  <2>1. 2 * (k + 1) - 1 = n + 1 /\ 2 * (k + 1) = n + 2 /\ k + 1 \in 1..(k + 1)
    BY <1>4
  <2>2. Pairs(more)[k + 1] = <<q, l>>
    BY <2>1, <1>2, <1>5
  <2>3. ASSUME NEW i \in 1..Len(new) PROVE new[i] = Pairs(more)[Len(Pairs(bytes)) + i]
    BY <2>2, <1>5, <1>7
  <2>4. Len(Pairs(bytes)) \in Nat /\ Len(new) \in Nat
        /\ Len(Pairs(more)) = Len(Pairs(bytes)) + Len(new)
    BY <1>5, <1>7
  <2>5. \A i \in 1..Len(Pairs(bytes)) : Pairs(bytes)[i] = Pairs(more)[i]
    BY <1>5, <1>6
  <2> DEFINE first == Pairs(bytes)
             all == Pairs(more)
  <2>6. /\ Len(first) \in Nat /\ Len(new) \in Nat /\ Len(all) = Len(first) + Len(new)
        /\ \A i \in 1..Len(first) : first[i] = all[i]
        /\ \A i \in 1..Len(new) : new[i] = all[Len(first) + i]
    BY <2>3, <2>4, <2>5
  <2> HIDE DEF first, all
  <2>7. Shaken(p, level, all) = Shaken(p, Shaken(p, level, first), new)
    BY ONLY <2>6, ShakenInTwo
  <2> QED BY <2>7 DEF first, all
<1>9. CASE q + 1 = p
  <2>1. 1 \in Mine(p, new) /\ \A j \in Mine(p, new) : j <= 1
    BY <1>7, <1>9 DEF Mine
  <2>2. Shaken(p, Shaken(p, level, Pairs(bytes)), new) = new[1][2]
    BY <2>1, <1>7, ShakenLast
  <2> QED BY <2>2, <1>3, <1>7, <1>8, <1>9 DEF more
<1>10. CASE q + 1 # p
  <2>1. Mine(p, new) = {}
    BY <1>7, <1>10 DEF Mine
  <2>2. Shaken(p, Shaken(p, level, Pairs(bytes)), new) = Shaken(p, level, Pairs(bytes))
    BY <2>1, ShakenNot
  <2> QED BY <2>2, <1>3, <1>8, <1>10 DEF more
<1> QED BY <1>9, <1>10

\* The levels a string of whole pairs leaves are levels.
LEMMA ShakenType ==
    ASSUME NEW bytes \in Seq(Nat), NEW p \in Ports, NEW level \in Levels,
           \A i \in 1..Len(bytes) : bytes[i] \in (IF i % 2 = 1 THEN Pads ELSE Levels)
    PROVE  Shaken(p, level, Pairs(bytes)) \in Levels
<1>1. CASE Mine(p, Pairs(bytes)) = {}
  BY <1>1, ShakenNot
<1>2. CASE Mine(p, Pairs(bytes)) # {}
  <2>1. Mine(p, Pairs(bytes)) \subseteq 1..(Len(bytes) \div 2) /\ Len(Pairs(bytes)) \in Nat
        /\ Len(bytes) \div 2 \in Nat
    BY PairsOf DEF Mine
  <2>2. PICK x \in Mine(p, Pairs(bytes)) : \A j \in Mine(p, Pairs(bytes)) : j <= x
    BY <1>2, <2>1, LargestOf
  <2>3. Shaken(p, level, Pairs(bytes)) = Pairs(bytes)[x][2]
    BY <2>1, <2>2, ShakenLast
  <2>4. x \in Nat /\ 2 * x \in 1..Len(bytes)
    BY <2>1, <2>2
  <2>5. Pairs(bytes)[x] = <<bytes[2 * x - 1], bytes[2 * x]>>
    BY <2>1, <2>2, PairsOf
  <2>6. (2 * x) % 2 = 0
    BY <2>4
  <2> QED BY <2>3, <2>4, <2>5, <2>6
<1> QED BY <1>1, <1>2

\* A half and what is left over.
LEMMA Halves ==
    ASSUME NEW x \in Nat
    PROVE  x \div 2 \in Nat /\ x % 2 \in {0, 1} /\ x = 2 * (x \div 2) + (x % 2)
OBVIOUS

\* Where the bytes of two strings are in both together.
LEMMA JoinedAt ==
    ASSUME NEW s \in Seq(Nat), NEW t \in Seq(Nat)
    PROVE  /\ s \o t \in Seq(Nat) /\ Len(s) \in Nat /\ Len(t) \in Nat
           /\ Len(s \o t) = Len(s) + Len(t)
           /\ \A i \in 1..Len(s) : (s \o t)[i] = s[i]
           /\ \A i \in 1..Len(t) : (s \o t)[Len(s) + i] = t[i]
OBVIOUS

\* Where the bytes of a string are once the first ones are taken.
LEMMA LeftAt ==
    ASSUME NEW f \in Seq(Nat), NEW n \in 1..Len(f)
    PROVE  /\ SubSeq(f, n + 1, Len(f)) \in Seq(Nat)
           /\ Len(SubSeq(f, n + 1, Len(f))) = Len(f) - n
           /\ \A i \in 1..(Len(f) - n) : SubSeq(f, n + 1, Len(f))[i] = f[n + i]
<1> DEFINE m == Len(f)
<1>1. m \in Nat /\ n \in 1..m /\ \A i \in 1..m : f[i] \in Nat
  OBVIOUS
<1> HIDE DEF m
<1>2. /\ n + 1 \in Int /\ m \in Int /\ \A i \in (n + 1)..m : f[i] \in Nat
  BY ONLY <1>1
<1>3. /\ SubSeq(f, n + 1, m) \in Seq(Nat)
      /\ Len(SubSeq(f, n + 1, m)) = IF n + 1 <= m THEN m - (n + 1) + 1 ELSE 0
      /\ \A i \in 1..(m - (n + 1) + 1) : SubSeq(f, n + 1, m)[i] = f[n + 1 + i - 1]
  BY ONLY <1>2, SubSeqProperties
<1>4. m - (n + 1) + 1 = m - n /\ (~(n + 1 <= m) => m - n = 0)
  BY ONLY <1>1
<1>5. \A i \in 1..(m - n) : n + 1 + i - 1 = n + i
  BY ONLY <1>1
<1> QED BY ONLY <1>3, <1>4, <1>5 DEF m

\* What one read of n bytes hands on, and what it leaves in the pipe.
BytesRead(o, f, n) == o \o SubSeq(f, 1, n)
BytesLeft(f, n) == SubSeq(f, n + 1, Len(f))

\* A string of bytes cut after its k-th pair: the first part may hold one byte
\* more, with which the second starts again.
Cut(whole, bytes, after, k) ==
    /\ bytes \in Seq(Nat) /\ after \in Seq(Nat) /\ k \in Nat
    /\ Len(bytes) \div 2 = k /\ 2 * k <= Len(bytes) /\ Len(after) + 2 * k = Len(whole)
    /\ \A i \in 1..Len(bytes) : i \in 1..Len(whole) /\ bytes[i] = whole[i]
    /\ \A i \in 1..Len(after) : after[i] = whole[2 * k + i]

\* One read of the pipe cuts the bytes on their way in two, wherever it ends: the
\* whole pairs, and what starts with the byte it leaves aside.
LEMMA CutAnywhere ==
    ASSUME NEW o \in Seq(Nat), NEW f \in Seq(Nat), NEW n \in 1..Len(f), Len(o) <= 1
    PROVE  /\ BytesLeft(f, n) \in Seq(Nat) /\ Len(BytesLeft(f, n)) <= Len(f)
           /\ Rest(BytesRead(o, f, n)) \in Seq(Nat) /\ Len(Rest(BytesRead(o, f, n))) <= 1
           /\ \E k \in Nat : Cut(o \o f, BytesRead(o, f, n),
                                Rest(BytesRead(o, f, n)) \o BytesLeft(f, n), k)
<1> DEFINE a == Len(o)
           m == Len(f)
           whole == o \o f
           head == SubSeq(f, 1, n)
           bytes == BytesRead(o, f, n)
           tail == BytesLeft(f, n)
<1>1. a \in Nat /\ m \in Nat /\ n \in Nat /\ n <= m /\ n >= 1
  OBVIOUS
<1>2. /\ whole \in Seq(Nat) /\ Len(whole) = a + m
      /\ \A i \in 1..a : whole[i] = o[i]
      /\ \A i \in 1..m : whole[a + i] = f[i]
  OBVIOUS
<1>3. head \in Seq(Nat) /\ Len(head) = n /\ \A i \in 1..n : head[i] = f[i]
  OBVIOUS
<1>4. /\ tail \in Seq(Nat) /\ Len(tail) = m - n
      /\ \A i \in 1..(m - n) : tail[i] = f[n + i]
  BY LeftAt DEF BytesLeft
<1>5. /\ bytes \in Seq(Nat) /\ Len(bytes) = a + n
      /\ \A i \in 1..a : bytes[i] = o[i]
      /\ \A i \in 1..n : bytes[a + i] = head[i]
  BY <1>3 DEF BytesRead
<1> HIDE DEF whole, head, bytes, tail, a, m
<1>6. ASSUME NEW i \in 1..Len(bytes) PROVE i \in 1..Len(whole) /\ bytes[i] = whole[i]
  <2>1. CASE i <= a
    BY ONLY <2>1, <1>1, <1>2, <1>5
  <2>2. CASE i > a
    <3>1. PICK j \in 1..n : j \in 1..m /\ a + j = i
      <4>1. i - a \in 1..n /\ i - a \in 1..m /\ a + (i - a) = i
        BY ONLY <2>2, <1>1, <1>5
      <4> QED BY ONLY <4>1
    <3>2. bytes[a + j] = head[j]
      BY ONLY <1>5, Zenon
    <3>3. head[j] = f[j]
      BY ONLY <3>1, <1>3
    <3>4. whole[a + j] = f[j]
      BY ONLY <3>1, <1>2
    <3>5. i \in 1..Len(whole)
      BY ONLY <3>1, <1>1, <1>2
    <3> QED BY ONLY <3>1, <3>2, <3>3, <3>4, <3>5
  <2> QED BY ONLY <2>1, <2>2, <1>1
<1>7. ASSUME NEW i \in 1..(m - n) PROVE tail[i] = whole[a + n + i]
  <2>1. n + i \in 1..m /\ a + (n + i) = a + n + i
    BY ONLY <1>1
  <2> QED BY ONLY <2>1, <1>2, <1>4
<1> DEFINE after == Rest(bytes) \o tail
<1>8. CASE (a + n) % 2 = 1
  <2>0. a + n \in Nat
    BY ONLY <1>1
  <2>1. PICK k \in Nat : a + n = 2 * k + 1 /\ (a + n) \div 2 = k
    BY ONLY <2>0, <1>8, Halves
  <2>2. (a + n) \div 2 = k
    BY ONLY <2>1
  <2> DEFINE r == <<bytes[a + n]>>
             rl == r \o tail
  <2>3. Rest(bytes) = r /\ a + n \in 1..Len(bytes) /\ bytes[a + n] \in Nat
    <3>1. Rest(bytes) = r
      BY ONLY <1>5, <1>8 DEF Rest, r
    <3>2. a + n \in 1..Len(bytes)
      BY ONLY <1>1, <1>5
    <3>3. bytes[a + n] \in Nat
      BY ONLY <3>2, <1>5
    <3> QED BY ONLY <3>1, <3>2, <3>3
  <2>4. r \in Seq(Nat) /\ Len(r) = 1 /\ r[1] = bytes[a + n]
    BY ONLY <2>3 DEF r
  <2> HIDE DEF r
  <2>5. Len(rl) = 1 + (m - n) /\ rl[1] = r[1] /\ \A i \in 1..(m - n) : rl[1 + i] = tail[i]
    <3>1. r \in Seq(Nat) /\ tail \in Seq(Nat)
      BY ONLY <2>4, <1>4
    <3>2. /\ Len(rl) = Len(r) + Len(tail)
          /\ \A i \in 1..Len(r) : rl[i] = r[i]
          /\ \A i \in 1..Len(tail) : rl[Len(r) + i] = tail[i]
      BY ONLY <3>1, JoinedAt DEF rl
    <3>3. Len(r) = 1 /\ Len(tail) = m - n /\ 1 \in 1..1
      BY ONLY <2>4, <1>4
    <3> QED BY ONLY <3>2, <3>3
  <2> HIDE DEF rl
  <2>6. ASSUME NEW i \in 1..Len(rl) PROVE rl[i] = whole[2 * k + i]
    <3>1. CASE i = 1
      BY ONLY <3>1, <2>1, <2>3, <2>4, <2>5, <1>6
    <3>2. CASE i # 1
      <4>0. Len(rl) = 1 + (m - n) /\ i \in 1..Len(rl) /\ a + n = 2 * k + 1
        BY ONLY <2>1, <2>5
      <4>1. i - 1 \in 1..(m - n) /\ 1 + (i - 1) = i /\ a + n + (i - 1) = 2 * k + i
        BY ONLY <3>2, <4>0, <1>1
      <4>2. rl[i] = tail[i - 1] /\ tail[i - 1] = whole[a + n + (i - 1)]
        BY ONLY <4>1, <2>5, <1>7
      <4> QED BY ONLY <4>1, <4>2
    <3> QED BY ONLY <3>1, <3>2
  <2>7. Len(rl) + 2 * k = Len(whole) /\ 2 * k <= Len(bytes)
    <3>1. /\ Len(rl) = 1 + (m - n) /\ a + n = 2 * k + 1
          /\ Len(whole) = a + m /\ Len(bytes) = a + n
      BY ONLY <2>1, <2>5, <1>2, <1>5
    <3> QED BY ONLY <3>1, <1>1, k \in Nat
  <2>8. Rest(bytes) \o tail = rl
    BY <2>3 DEF rl
  <2>9. Len(bytes) \div 2 = k
    BY ONLY <2>2, <1>5
  <2>10. /\ Len(Rest(bytes) \o tail) + 2 * k = Len(whole)
         /\ \A i \in 1..Len(Rest(bytes) \o tail) : (Rest(bytes) \o tail)[i] = whole[2 * k + i]
    BY ONLY <2>6, <2>7, <2>8
  <2>11. Rest(bytes) \in Seq(Nat) /\ Len(Rest(bytes)) <= 1 /\ Len(tail) <= Len(f)
    BY ONLY <2>3, <2>4, <1>1, <1>4 DEF m
  <2>12. after \in Seq(Nat)
    BY ONLY <2>11, <1>4, JoinedAt DEF after
  <2>13. Cut(whole, bytes, after, k)
    BY ONLY <2>7, <2>9, <2>10, <2>12, <1>5, <1>6, k \in Nat, Zenon DEF Cut, after
  <2> QED BY ONLY <2>11, <2>13, <1>4, k \in Nat DEF whole, bytes, tail, after
<1>9. CASE (a + n) % 2 # 1
  <2>0. a + n \in Nat
    BY ONLY <1>1
  <2>1. PICK k \in Nat : a + n = 2 * k /\ (a + n) \div 2 = k
    BY ONLY <2>0, <1>9, Halves
  <2>2. (a + n) \div 2 = k
    BY ONLY <2>1
  <2>3. Rest(bytes) = <<>>
    BY <1>5, <1>9 DEF Rest
  <2>4. Rest(bytes) \o tail = tail
    BY ONLY <2>3, <1>4
  <2>5. Rest(bytes) \in Seq(Nat) /\ Len(Rest(bytes)) <= 1 /\ Len(tail) <= Len(f)
    BY ONLY <2>3, <1>1, <1>4 DEF m
  <2>6. Len(tail) + 2 * k = Len(whole) /\ 2 * k <= Len(bytes)
    BY ONLY <2>1, <1>1, <1>2, <1>4, <1>5
  <2>7. \A i \in 1..Len(tail) : tail[i] = whole[2 * k + i]
    BY ONLY <2>1, <1>4, <1>7
  <2>8. /\ Len(Rest(bytes) \o tail) + 2 * k = Len(whole)
        /\ \A i \in 1..Len(Rest(bytes) \o tail) : (Rest(bytes) \o tail)[i] = whole[2 * k + i]
    BY ONLY <2>4, <2>6, <2>7
  <2>9. Len(bytes) \div 2 = k
    BY ONLY <2>2, <1>5
  <2>10. after \in Seq(Nat)
    BY ONLY <2>5, <1>4, JoinedAt DEF after
  <2>11. Cut(whole, bytes, after, k)
    BY ONLY <2>6, <2>8, <2>9, <2>10, <1>5, <1>6, k \in Nat, Zenon DEF Cut, after
  <2> QED BY ONLY <2>5, <2>11, <1>4, k \in Nat DEF whole, bytes, tail, after
<1> QED BY ONLY <1>8, <1>9

\* A cut loses no pair and moves none to a neighbour: the pairs applied, then
\* the pairs still on their way, leave what they all leave together.
LEMMA ShakenAcrossCut ==
    ASSUME NEW whole, Aligned(whole), NEW bytes, NEW after, NEW k, Cut(whole, bytes, after, k),
           NEW p, NEW level
    PROVE  /\ Aligned(after)
           /\ Shaken(p, level, Pairs(whole)) = Shaken(p, Shaken(p, level, Pairs(bytes)), Pairs(after))
<1>10. /\ bytes \in Seq(Nat) /\ after \in Seq(Nat) /\ k \in Nat
       /\ Len(bytes) \div 2 = k /\ 2 * k <= Len(bytes) /\ Len(after) + 2 * k = Len(whole)
       /\ \A i \in 1..Len(bytes) : i \in 1..Len(whole) /\ bytes[i] = whole[i]
       /\ \A i \in 1..Len(after) : after[i] = whole[2 * k + i]
  BY DEF Cut
<1> USE <1>10
<1>0. whole \in Seq(Nat) /\ Len(whole) % 2 = 0
  BY ONLY Aligned(whole) DEF Aligned
<1>1. /\ Len(whole) \in Nat /\ Len(bytes) \in Nat /\ Len(after) \in Nat
      /\ Len(whole) % 2 = 0 /\ 2 * k <= Len(bytes) /\ Len(after) + 2 * k = Len(whole) /\ k \in Nat
  <2>1. Len(whole) \in Nat /\ Len(whole) % 2 = 0
    <3>0. whole \in Seq(Nat)
      BY ONLY <1>0, Zenon
    <3>1. Len(whole) \in Nat
      BY ONLY <3>0
    <3>2. Len(whole) % 2 = 0
      BY ONLY <1>0, Zenon
    <3> QED BY ONLY <3>1, <3>2, Zenon
  <2>2. Len(bytes) \in Nat /\ Len(after) \in Nat
    BY bytes \in Seq(Nat), after \in Seq(Nat)
  <2>3. 2 * k <= Len(bytes) /\ Len(after) + 2 * k = Len(whole) /\ k \in Nat
    OBVIOUS
  <2> QED BY ONLY <2>1, <2>2, <2>3
<1>2. PICK h \in Nat : Len(whole) = 2 * h
  <2> DEFINE w == Len(whole)
  <2>1. w \in Nat /\ w % 2 = 0
    BY ONLY <1>1
  <2> HIDE DEF w
  <2>2. w \div 2 \in Nat /\ w = 2 * (w \div 2)
    BY ONLY <2>1, Halves
  <2> QED BY ONLY <2>2 DEF w
<1>3. PICK g \in Nat : Len(after) = 2 * g /\ h = k + g
  <2>1. h - k \in Nat /\ Len(after) = 2 * (h - k) /\ h = k + (h - k)
    BY ONLY <1>1, <1>2
  <2> QED BY ONLY <2>1
<1>4. Aligned(after)
  <2>1. ASSUME NEW i \in 1..Len(after) PROVE after[i] \in (IF i % 2 = 1 THEN Pads ELSE Levels)
    <3>1. 2 * k + i \in 1..Len(whole)
      <4>1. i \in Nat /\ 1 <= i /\ i <= Len(after)
        BY ONLY <1>1
      <4> QED BY ONLY <4>1, <1>1
    <3>2. (2 * k + i) % 2 = i % 2
      BY ONLY <1>1
    <3>3. after[i] = whole[2 * k + i]
      OBVIOUS
    <3>4. whole[2 * k + i] \in (IF (2 * k + i) % 2 = 1 THEN Pads ELSE Levels)
      BY <3>1 DEF Aligned
    <3> QED BY <3>2, <3>3, <3>4
  <2>2. Len(after) % 2 = 0
    BY ONLY <1>3
  <2>3. after \in Seq(Nat)
    OBVIOUS
  <2> QED BY <2>1, <2>2, <2>3 DEF Aligned
<1> DEFINE first == Pairs(bytes)
           second == Pairs(after)
           all == Pairs(whole)
<1>5. /\ Len(first) = k /\ Len(second) = g /\ Len(all) = k + g
      /\ \A i \in 1..k : first[i] = <<bytes[2 * i - 1], bytes[2 * i]>>
      /\ \A i \in 1..g : second[i] = <<after[2 * i - 1], after[2 * i]>>
      /\ \A i \in 1..(k + g) : all[i] = <<whole[2 * i - 1], whole[2 * i]>>
  <2>1. Len(after) \div 2 = g /\ Len(whole) \div 2 = k + g
    BY <1>2, <1>3
  <2>2. Len(first) = k /\ \A i \in 1..k : first[i] = <<bytes[2 * i - 1], bytes[2 * i]>>
    BY PairsOf
  <2>3. Len(second) = g /\ \A i \in 1..g : second[i] = <<after[2 * i - 1], after[2 * i]>>
    BY <2>1, PairsOf
  <2>4. Len(all) = k + g /\ \A i \in 1..(k + g) : all[i] = <<whole[2 * i - 1], whole[2 * i]>>
    BY <2>1, <1>0, PairsOf
  <2> QED BY <2>2, <2>3, <2>4
<1> HIDE DEF first, second, all
<1>6. ASSUME NEW i \in 1..k PROVE first[i] = all[i]
  <2>1. 2 * i - 1 \in 1..Len(bytes) /\ 2 * i \in 1..Len(bytes) /\ i \in 1..(k + g)
    BY ONLY <1>1, <1>3
  <2>2. bytes[2 * i - 1] = whole[2 * i - 1] /\ bytes[2 * i] = whole[2 * i]
    BY <2>1
  <2>3. first[i] = <<bytes[2 * i - 1], bytes[2 * i]>> /\ all[i] = <<whole[2 * i - 1], whole[2 * i]>>
    BY <2>1, <1>5
  <2> QED BY ONLY <2>2, <2>3, Zenon
<1>7. ASSUME NEW i \in 1..g PROVE second[i] = all[k + i]
  <2>1. /\ 2 * i - 1 \in 1..Len(after) /\ 2 * i \in 1..Len(after) /\ k + i \in 1..(k + g)
        /\ 2 * k + (2 * i - 1) = 2 * (k + i) - 1 /\ 2 * k + 2 * i = 2 * (k + i)
    BY ONLY <1>1, <1>3
  <2>2. after[2 * i - 1] = whole[2 * k + (2 * i - 1)] /\ after[2 * i] = whole[2 * k + 2 * i]
    BY <2>1
  <2>3. after[2 * i - 1] = whole[2 * (k + i) - 1] /\ after[2 * i] = whole[2 * (k + i)]
    BY <2>1, <2>2
  <2>4. second[i] = <<after[2 * i - 1], after[2 * i]>>
    BY <1>5
  <2>5. all[k + i] = <<whole[2 * (k + i) - 1], whole[2 * (k + i)]>>
    BY <2>1, <1>5
  <2> QED BY ONLY <2>3, <2>4, <2>5, Zenon
<1>8. /\ Len(first) \in Nat /\ Len(second) \in Nat /\ Len(all) = Len(first) + Len(second)
      /\ \A i \in 1..Len(first) : first[i] = all[i]
      /\ \A i \in 1..Len(second) : second[i] = all[Len(first) + i]
  BY <1>5, <1>6, <1>7
<1>9. Shaken(p, level, all) = Shaken(p, Shaken(p, level, first), second)
  BY ONLY <1>8, ShakenInTwo
<1> QED BY <1>4, <1>9 DEF first, second, all

\* Nothing shakes, and nothing is on its way.
LEMMA RumbleInitInv == RumbleInit => RumbleInv
<1> SUFFICES ASSUME RumbleInit PROVE RumbleInv
  OBVIOUS
<1>1. fifo = <<>> /\ odd = <<>> /\ fifo \in Seq(Nat) /\ odd \in Seq(Nat) /\ Len(fifo) = 0 /\ Len(odd) = 0
  BY DEF RumbleInit
<1>2. RumbleTypeOK
  BY <1>1 DEF RumbleInit, RumbleTypeOK
<1>3. odd \o fifo \in Seq(Nat) /\ Len(odd \o fifo) = 0
  BY <1>1
<1>4. Aligned(odd \o fifo)
  BY <1>3 DEF Aligned
<1>5. ASSUME NEW q \in Pads PROVE Shaken(q + 1, rumbles[q + 1], Pairs(odd \o fifo)) = force[q]
  <2>1. Len(Pairs(odd \o fifo)) = 0
    <3>1. Len(Pairs(odd \o fifo)) = Len(odd \o fifo) \div 2
      BY ONLY <1>3, PairsOf
    <3>2. 0 \div 2 = 0
      OBVIOUS
    <3> QED BY ONLY <1>3, <3>1, <3>2
  <2>2. Mine(q + 1, Pairs(odd \o fifo)) = {}
    BY <2>1 DEF Mine
  <2>3. Shaken(q + 1, rumbles[q + 1], Pairs(odd \o fifo)) = rumbles[q + 1]
    BY <2>2, ShakenNot
  <2>4. rumbles[q + 1] = 0 /\ force[q] = 0
    BY PadsAreNat DEF RumbleInit
  <2> QED BY <2>3, <2>4
<1> QED BY <1>1, <1>2, <1>4, <1>5 DEF RumbleInv, ShakesLandHome

\* A level written whole, or not at all.
LEMMA ExportKeeps ==
    ASSUME RumbleInv, NEW q \in Pads, NEW level \in Levels, ExportRumble(q, level)
    PROVE  RumbleInv'
<1>1. /\ RumbleTypeOK /\ fifo \in Seq(Nat) /\ odd \in Seq(Nat)
      /\ Aligned(odd \o fifo) /\ ShakesLandHome
  BY DEF RumbleInv
<1>2. /\ force' = [force EXCEPT ![q] = level] /\ odd' = odd /\ rumbles' = rumbles /\ shook' = shook
  BY DEF ExportRumble
<1>3. CASE Len(fifo) + 2 <= FifoRoom
  <2>1. fifo' = fifo \o <<q, level>> /\ unheard' = unheard \ {q}
    BY <1>3 DEF ExportRumble
  <2>2. q \in Nat /\ level \in Nat
    BY PadsAreNat
  <2>3. fifo' \in Seq(Nat) /\ Len(fifo') = Len(fifo) + 2
    BY <1>1, <2>1, <2>2
  <2>4. odd \o fifo' = (odd \o fifo) \o <<q, level>>
    BY <1>1, <2>1, <2>2
  <2>5. Aligned(odd' \o fifo')
    BY <1>1, <1>2, <2>4, ShakenOneMore, 1 \in Ports, SlotsAssumption DEF Ports
  <2>6. RumbleTypeOK'
    BY <1>1, <1>2, <1>3, <2>1, <2>3 DEF RumbleTypeOK
  <2>7. ASSUME NEW x \in Pads, x \notin unheard'
        PROVE  Shaken(x + 1, rumbles'[x + 1], Pairs(odd' \o fifo')) = force'[x]
    <3>1. x + 1 \in Ports /\ x \in Nat /\ q \in Nat
      BY PadsAreNat
    <3>2. Shaken(x + 1, rumbles[x + 1], Pairs(odd \o fifo')) =
              IF q + 1 = x + 1 THEN level ELSE Shaken(x + 1, rumbles[x + 1], Pairs(odd \o fifo))
      <4> DEFINE whole == odd \o fifo
                 lev == rumbles[x + 1]
                 p == x + 1
      <4>1. Aligned(whole) /\ p \in Ports
        BY <1>1, <3>1
      <4> HIDE DEF whole, lev, p
      <4>2. Shaken(p, lev, Pairs(whole \o <<q, level>>)) =
                IF q + 1 = p THEN level ELSE Shaken(p, lev, Pairs(whole))
        BY <4>1, ShakenOneMore
      <4> QED BY ONLY <4>2, <2>4 DEF whole, lev, p
    <3>3. CASE x = q
      BY <1>1, <1>2, <3>2, <3>3 DEF RumbleTypeOK
    <3>4. CASE x # q
      <4>1. x \notin unheard /\ q + 1 # x + 1
        BY <2>1, <2>7, <3>1, <3>4
      <4>2. Shaken(x + 1, rumbles[x + 1], Pairs(odd \o fifo)) = force[x]
        BY <1>1, <4>1 DEF ShakesLandHome
      <4>3. force'[x] = force[x]
        BY <1>1, <1>2, <3>4 DEF RumbleTypeOK
      <4> QED BY <1>2, <3>2, <4>1, <4>2, <4>3
    <3> QED BY <3>3, <3>4
  <2>8. ShakesLandHome'
    BY <2>7 DEF ShakesLandHome
  <2> QED BY <1>1, <1>2, <2>3, <2>5, <2>6, <2>8 DEF RumbleInv
<1>4. CASE ~ (Len(fifo) + 2 <= FifoRoom)
  <2>1. fifo' = fifo /\ unheard' = unheard \union {q}
    BY <1>4 DEF ExportRumble
  <2>2. RumbleTypeOK'
    BY <1>1, <1>2, <2>1 DEF RumbleTypeOK
  <2>3. ASSUME NEW x \in Pads, x \notin unheard'
        PROVE  Shaken(x + 1, rumbles'[x + 1], Pairs(odd' \o fifo')) = force'[x]
    <3>1. x \notin unheard /\ x # q
      BY <2>1, <2>3
    <3>2. force'[x] = force[x]
      BY <1>1, <1>2, <3>1 DEF RumbleTypeOK
    <3> QED BY <1>1, <1>2, <2>1, <3>1, <3>2 DEF ShakesLandHome
  <2>4. ShakesLandHome'
    BY <2>3 DEF ShakesLandHome
  <2> QED BY <1>1, <1>2, <2>1, <2>2, <2>4 DEF RumbleInv
<1> QED BY <1>3, <1>4

\* A read of any length.
LEMMA DrainKeeps ==
    ASSUME RumbleInv, NEW n, drain(n)
    PROVE  RumbleInv'
<1> DEFINE bytes == BytesRead(odd, fifo, n)
           tail == BytesLeft(fifo, n)
           whole == odd \o fifo
           after == Rest(bytes) \o tail
<1>1. /\ RumbleTypeOK /\ fifo \in Seq(Nat) /\ odd \in Seq(Nat) /\ Len(odd) <= 1
      /\ Aligned(whole) /\ ShakesLandHome
  BY DEF RumbleInv, RumbleTypeOK
<1>2. /\ n \in 1..Len(fifo) /\ fifo' = tail /\ odd' = Rest(bytes)
      /\ rumbles' = [p \in Ports |-> Shaken(p, rumbles[p], Pairs(bytes))]
      /\ force' = force /\ shook' = shook /\ unheard' = unheard
  BY DEF drain, BytesRead, BytesLeft
<1>3. /\ tail \in Seq(Nat) /\ Len(tail) <= Len(fifo)
      /\ Rest(bytes) \in Seq(Nat) /\ Len(Rest(bytes)) <= 1
  BY <1>1, <1>2, CutAnywhere
<1>4. PICK k \in Nat : Cut(whole, bytes, after, k)
  BY <1>1, <1>2, CutAnywhere
<1> HIDE DEF bytes, tail, whole, after
<1>5. /\ bytes \in Seq(Nat) /\ after \in Seq(Nat)
      /\ \A i \in 1..Len(bytes) : i \in 1..Len(whole) /\ bytes[i] = whole[i]
  BY ONLY <1>4 DEF Cut
<1>6. Aligned(after) /\ \A p, level : Shaken(p, level, Pairs(whole)) =
                                      Shaken(p, Shaken(p, level, Pairs(bytes)), Pairs(after))
  <2>1. ASSUME NEW p, NEW level
        PROVE  Aligned(after) /\ Shaken(p, level, Pairs(whole)) =
                                 Shaken(p, Shaken(p, level, Pairs(bytes)), Pairs(after))
    BY ONLY <1>1, <1>4, ShakenAcrossCut
  <2> QED BY <2>1
<1>7. ASSUME NEW p \in Ports PROVE rumbles'[p] \in Levels
  <2>1. \A i \in 1..Len(bytes) : bytes[i] \in (IF i % 2 = 1 THEN Pads ELSE Levels)
    BY <1>1, <1>5 DEF Aligned
  <2>2. Shaken(p, rumbles[p], Pairs(bytes)) \in Levels
    BY <1>1, <1>5, <2>1, ShakenType DEF RumbleTypeOK
  <2> QED BY <1>2, <2>2
<1>8. RumbleTypeOK'
  <2>1. rumbles' \in [Ports -> Levels]
    BY <1>2, <1>7
  <2>2. Len(fifo') <= FifoRoom
    <3>1. Len(fifo) \in Nat /\ Len(tail) \in Nat /\ Len(tail) <= Len(fifo) /\ Len(fifo) <= FifoRoom
      BY <1>1, <1>3 DEF RumbleTypeOK
    <3> QED BY <1>2, <3>1
  <2> QED BY <1>1, <1>2, <1>3, <2>1, <2>2 DEF RumbleTypeOK
<1>9. odd' \o fifo' = after
  BY <1>2 DEF after
<1>10. ASSUME NEW q \in Pads, q \notin unheard'
       PROVE  Shaken(q + 1, rumbles'[q + 1], Pairs(odd' \o fifo')) = force'[q]
  <2>1. q + 1 \in Ports
    BY PadsAreNat
  <2>2. rumbles'[q + 1] = Shaken(q + 1, rumbles[q + 1], Pairs(bytes))
    BY <1>2, <2>1
  <2>3. Shaken(q + 1, rumbles[q + 1], Pairs(whole)) = force[q]
    BY <1>1, <1>2, <1>10 DEF ShakesLandHome, whole
  <2> QED BY <1>2, <1>6, <1>9, <2>2, <2>3
<1>11. ShakesLandHome'
  BY <1>10 DEF ShakesLandHome
<1> QED BY <1>2, <1>3, <1>6, <1>8, <1>9, <1>11 DEF RumbleInv

\* No write, read or message breaks the invariant.
LEMMA RumbleStepInv == RumbleInv /\ [RumbleNext]_rumbleVars => RumbleInv'
<1> SUFFICES ASSUME RumbleInv, [RumbleNext]_rumbleVars PROVE RumbleInv'
  OBVIOUS
<1>1. ASSUME NEW q \in Pads, NEW level \in Levels, ExportRumble(q, level) PROVE RumbleInv'
  BY <1>1, ExportKeeps
<1>2. ASSUME NEW n \in 1..READS, drain(n) PROVE RumbleInv'
  BY <1>2, DrainKeeps
<1>3. ASSUME NEW p \in Ports, send_rumble(p) PROVE RumbleInv'
  BY <1>3 DEF send_rumble, RumbleInv, RumbleTypeOK, ShakesLandHome
<1>4. ASSUME NEW p \in Ports, NewPage(p) PROVE RumbleInv'
  BY <1>4 DEF NewPage, RumbleInv, RumbleTypeOK, ShakesLandHome
<1>5. CASE UNCHANGED rumbleVars
  BY <1>5 DEF RumbleInv, RumbleTypeOK, ShakesLandHome
<1> QED BY <1>1, <1>2, <1>3, <1>4, <1>5 DEF RumbleNext

\* However the reads fall, no shake moves to a neighbour and only a pad whose own
\* last change found the pipe full is behind (rumble.rs, drain).
THEOREM ShakesAlwaysLandHome == RumbleSpec => [](RumbleTypeOK /\ ShakesLandHome)
<1>1. RumbleInv => RumbleTypeOK /\ ShakesLandHome
  BY DEF RumbleInv
<1> QED BY <1>1, RumbleInitInv, RumbleStepInv, PTL DEF RumbleSpec

HIDE RumbleAssumption
HIDE SlotsAssumption
HIDE DEF rumbleVars

-----------------------------------------------------------------------------
(* The sound (sound.rs)                                                     *)

USE SoundAssumption
USE DEF soundVars, tapVars, earVars

\* What the tap keeps is short of a chunk while it sleeps, and never two chunks:
\* it stops reading as soon as one is whole, and a read is at most one.
SoundInv ==
    /\ SoundTypeOK
    /\ pending < 2 * CHUNK_BYTES
    /\ turn = "due" => pending < CHUNK_BYTES
    /\ phase = 0

\* The tap and the ears share only the moment a chunk is sent, so their halves
\* of the type invariant are kept apart.
TapOK ==
    /\ inPipe \in 0..PIPE_BYTES /\ pending \in Nat /\ phase = 0 /\ turn \in {"due", "read"}
    /\ pending < 2 * CHUNK_BYTES
    /\ turn = "due" => pending < CHUNK_BYTES
EarsOK ==
    /\ listeners \subseteq Pages /\ absorbs \in [Pages -> 0..Listening]
    /\ ear \in [Pages -> {"none", "hand", "on", "write", "off"}]
    /\ waiting \in [Pages -> 0..OUTGOING]

\* The tap is opened before the emulator writes, and nobody listens.
LEMMA SoundInitInv == SoundInit => SoundInv
<1> SUFFICES ASSUME SoundInit PROVE SoundInv
  OBVIOUS
<1>1. OUTGOING \in Nat /\ Listening \in 0..Listening /\ 0 \in 0..OUTGOING /\ 0 \in 0..(SAMPLE - 1)
      /\ 0 \in 0..PIPE_BYTES /\ 0 < CHUNK_BYTES /\ 0 < 2 * CHUNK_BYTES
  BY DEF Listening
<1> QED BY <1>1 DEF SoundInit, SoundInv, SoundTypeOK

\* The invariant is the two halves together.
LEMMA SoundHalves == SoundInv <=> TapOK /\ EarsOK
<1>1. 0 \in 0..(SAMPLE - 1)
  OBVIOUS
<1> QED BY <1>1 DEF SoundInv, SoundTypeOK, TapOK, EarsOK

\* And so it is after a step.
LEMMA SoundHalvesAfter == TapOK' /\ EarsOK' => SoundInv'
<1>1. 0 \in 0..(SAMPLE - 1)
  OBVIOUS
<1> QED BY <1>1 DEF SoundInv, SoundTypeOK, TapOK, EarsOK

\* The tap takes a chunk and no more.
LEMMA TapStep == TapOK /\ [SoundNext]_soundVars => TapOK'
<1> SUFFICES ASSUME TapOK, [SoundNext]_soundVars PROVE TapOK'
  OBVIOUS
<1>1. CASE ChunkDue
  BY <1>1 DEF ChunkDue, TapOK
<1>2. CASE ReadPipe
  <2> DEFINE n == IF inPipe < CHUNK_BYTES THEN inPipe ELSE CHUNK_BYTES
  <2>1. /\ turn = "read" /\ pending < CHUNK_BYTES /\ n > 0
        /\ pending' = pending + n /\ inPipe' = inPipe - n /\ phase' = phase /\ turn' = turn
    BY <1>2 DEF ReadPipe
  <2>2. n \in Nat /\ n <= CHUNK_BYTES /\ n <= inPipe
    BY DEF TapOK
  <2> HIDE DEF n
  <2> QED BY <2>1, <2>2 DEF TapOK
<1>3. CASE NextChunk
  <2>1. /\ turn = "read" /\ turn' = "due" /\ inPipe' = inPipe
        /\ pending' = IF pending >= CHUNK_BYTES THEN pending - CHUNK_BYTES ELSE pending
        /\ phase' = (phase + (IF pending >= CHUNK_BYTES THEN CHUNK_BYTES ELSE 0)) % SAMPLE
    BY <1>3 DEF NextChunk, Taken
  <2>2. pending' \in Nat /\ pending' < CHUNK_BYTES /\ pending' < 2 * CHUNK_BYTES
    BY <2>1 DEF TapOK
  <2>3. phase' = 0
    <3>1. 0 % SAMPLE = 0 /\ 0 + CHUNK_BYTES = CHUNK_BYTES /\ 0 + 0 = 0
      OBVIOUS
    <3>2. phase = 0
      BY DEF TapOK
    <3> QED BY <2>1, <3>1, <3>2
  <2> QED BY <2>1, <2>2, <2>3 DEF TapOK
<1>4. ASSUME NEW n \in 1..PIPE_BYTES, EmulatorWrites(n) PROVE TapOK'
  BY <1>4 DEF EmulatorWrites, TapOK
<1>5. ASSUME NEW g \in Pages,
             Listen(g) \/ Vanish(g) \/ Handshake(g) \/ Receive(g) \/ WriteChunk(g) \/ ComeBack(g)
      PROVE  TapOK'
  BY <1>5 DEF Listen, Vanish, Handshake, Receive, WriteChunk, ComeBack, TapOK
<1>6. CASE UNCHANGED soundVars
  BY <1>6 DEF TapOK
<1> QED BY <1>1, <1>2, <1>3, <1>4, <1>5, <1>6 DEF SoundNext

\* A queue that is full drops a chunk.
LEMMA EarsStep == EarsOK /\ [SoundNext]_soundVars => EarsOK'
<1> SUFFICES ASSUME EarsOK, [SoundNext]_soundVars PROVE EarsOK'
  OBVIOUS
<1>0. Listening \in Nat /\ OUTGOING \in Nat \ {0} /\ SocketRoom \in Nat /\ SocketRoom < Listening
  BY DEF Listening
<1>1. CASE ChunkDue
  BY <1>1 DEF ChunkDue, EarsOK
<1>2. CASE ReadPipe
  BY <1>2 DEF ReadPipe, EarsOK
<1>3. CASE NextChunk
  <2>1. ASSUME NEW g \in Pages
        PROVE  (IF g \in listeners /\ ear[g] # "off" /\ waiting[g] < OUTGOING
                THEN waiting[g] + 1 ELSE waiting[g]) \in 0..OUTGOING
    BY <1>0 DEF EarsOK
  <2> QED BY <1>3, <2>1 DEF NextChunk, send_sound, EarsOK
<1>4. ASSUME NEW n \in 1..PIPE_BYTES, EmulatorWrites(n) PROVE EarsOK'
  BY <1>4 DEF EmulatorWrites, EarsOK
<1>5. ASSUME NEW g \in Pages, Listen(g) PROVE EarsOK'
  BY <1>5 DEF Listen, EarsOK
<1>6. ASSUME NEW g \in Pages, Vanish(g) PROVE EarsOK'
  BY <1>0, <1>6 DEF Vanish, EarsOK
<1>7. ASSUME NEW g \in Pages, Handshake(g) PROVE EarsOK'
  BY <1>7 DEF Handshake, EarsOK
<1>8. ASSUME NEW g \in Pages, Receive(g) PROVE EarsOK'
  BY <1>0, <1>8 DEF Receive, EarsOK
<1>9. ASSUME NEW g \in Pages, WriteChunk(g) PROVE EarsOK'
  BY <1>0, <1>9 DEF WriteChunk, EarsOK
<1>10. ASSUME NEW g \in Pages, ComeBack(g) PROVE EarsOK'
  BY <1>0, <1>10 DEF ComeBack, EarsOK
<1>11. CASE UNCHANGED soundVars
  BY <1>11 DEF EarsOK
<1> QED BY <1>1, <1>2, <1>3, <1>4, <1>5, <1>6, <1>7, <1>8, <1>9, <1>10, <1>11 DEF SoundNext

\* No write, chunk or listener breaks the invariant.
LEMMA SoundStepInv == SoundInv /\ [SoundNext]_soundVars => SoundInv'
BY SoundHalves, SoundHalvesAfter, TapStep, EarsStep

\* It is enough for the pace of the emulator and for the place of the samples.
LEMMA SoundInvGives == SoundInv => EmulatorIsPaced /\ ChunksAreWholeSamples
<1> SUFFICES ASSUME SoundInv PROVE EmulatorIsPaced /\ ChunksAreWholeSamples
  OBVIOUS
<1>1. turn = "due" => inPipe + pending < PIPE_BYTES + CHUNK_BYTES
  BY DEF SoundInv, SoundTypeOK
<1>2. phase = 0
  BY DEF SoundInv
<1> QED BY <1>1, <1>2 DEF EmulatorIsPaced, ChunksAreWholeSamples

\* The emulator is never ahead of what was sent by more than its pipe and a chunk,
\* and every chunk starts on a whole sample (sound.rs, next_chunk).
THEOREM EmulatorStaysPaced ==
    SoundSpec => [](SoundTypeOK /\ EmulatorIsPaced /\ ChunksAreWholeSamples)
<1>1. SoundInv => SoundTypeOK /\ EmulatorIsPaced /\ ChunksAreWholeSamples
  BY SoundInvGives DEF SoundInv
<1> QED BY <1>1, SoundInitInv, SoundStepInv, PTL DEF SoundSpec

HIDE SoundAssumption
HIDE DEF soundVars, tapVars, earVars

-----------------------------------------------------------------------------
(* The room                                                                 *)

\* A behaviour of a room begins and moves as one of its parts does.
LEMMA PartsBegin ==
    RoomInit => /\ NapInit /\ IdleInit /\ SessInit /\ RumbleInit /\ SoundInit
                /\ SwitchInit /\ SwitchSeatsInit
BY DEF RoomInit

\* And a step of it is a step of each part, or leaves that part alone.
LEMMA PartsStep ==
    RoomNext => /\ [NapNext]_napVars /\ [IdleNext]_idleVars /\ [SessNext]_sessVars
                /\ [RumbleNext]_rumbleVars /\ [SoundNext]_soundVars
                /\ [SwitchNext]_switchVars /\ [SwitchSeatsNext]_switchSeatVars
<1> SUFFICES ASSUME RoomNext
             PROVE  /\ [NapNext]_napVars /\ [IdleNext]_idleVars /\ [SessNext]_sessVars
                    /\ [RumbleNext]_rumbleVars /\ [SoundNext]_soundVars
                    /\ [SwitchNext]_switchVars /\ [SwitchSeatsNext]_switchSeatVars
  OBVIOUS
<1>1. [NapNext]_napVars
  BY Zenon DEF RoomNext, Keeps
<1>2. [IdleNext]_idleVars
  BY Zenon DEF RoomNext, Keeps
<1>3. [SessNext]_sessVars
  BY Zenon DEF RoomNext, Keeps
<1>4. [RumbleNext]_rumbleVars
  BY Zenon DEF RoomNext, Keeps
<1>5. [SoundNext]_soundVars
  BY Zenon DEF RoomNext, Keeps
<1>6. [SwitchNext]_switchVars
  BY Zenon DEF RoomNext, Keeps
<1>7. [SwitchSeatsNext]_switchSeatVars
  BY Zenon DEF RoomNext, Keeps
<1> QED BY <1>1, <1>2, <1>3, <1>4, <1>5, <1>6, <1>7

\* What the parts keep, together.
RoomInv ==
    /\ NapInv /\ IdleInv /\ SessInv /\ RumbleInv /\ SoundInv /\ SwitchInv /\ SwitchSeatsInv

\* The variables of a room.
roomAll == <<part, napVars, idleVars, sessVars, rumbleVars, soundVars, switchVars, switchSeatVars>>

\* Every part keeps its invariant, whichever of them moves.
LEMMA RoomStepInv == RoomInv /\ [RoomNext]_roomAll => RoomInv'
<1> SUFFICES ASSUME RoomInv, [RoomNext]_roomAll PROVE RoomInv'
  OBVIOUS
<1>1. /\ [NapNext]_napVars /\ [IdleNext]_idleVars /\ [SessNext]_sessVars
      /\ [RumbleNext]_rumbleVars /\ [SoundNext]_soundVars
      /\ [SwitchNext]_switchVars /\ [SwitchSeatsNext]_switchSeatVars
  BY PartsStep DEF roomAll
<1> QED BY <1>1, NapStepInv, IdleStepInv, SessStepInv, RumbleStepInv, SoundStepInv, SwitchStepInv,
           SwitchSeatsStepInv DEF RoomInv

\* The invariants of the parts give what the run checks of the whole.
LEMMA RoomInvGives == RoomInv => ThreadsOK
BY NapInvGives, SessInvGives, SwitchInvGives, SoundInvGives
   DEF RoomInv, ThreadsOK, EmulatorsOK, TapsOK, NapInv, SessInv, SwitchInv, RumbleInv, SoundInv

\* The invariant of a room, from its specification.
LEMMA RoomInvariant == RoomSpec => []RoomInv /\ [][RoomNext]_roomAll
<1>1. RoomInit => RoomInv
  BY PartsBegin, NapInitInv, IdleInitInv, SessInitInv, RumbleInitInv, SoundInitInv, SwitchInitInv,
     SwitchSeatsInitInv DEF RoomInv
<1>2. RoomSpec => RoomInit /\ [][RoomNext]_roomAll
  BY PTL DEF RoomSpec, roomAll
<1> QED BY <1>1, <1>2, RoomStepInv, PTL

\* What no interleaving of the threads and processes of a room may reach, it never
\* reaches: nap.rs, lock.rs, process.rs, switch-room.py, rumble.rs, sound.rs.
THEOREM ThreadsAlwaysOK == RoomSpec => []ThreadsOK
BY RoomInvariant, RoomInvGives, PTL

\* In the whole room as in its parts, only a forgotten game is closed and only an
\* empty seat loses its controller: the two promises about steps among what the
\* run checks of those who come back and of those who are there (nap.rs, ingress.rs).
THEOREM NobodyLosesTheirPlace ==
    RoomSpec => /\ []IdleTypeOK /\ ClosesOnlyForgotten
                /\ []SwitchSeatsTypeOK /\ ReloadKeepsItsPad
<1>1. RoomInv => IdleTypeOK /\ SwitchSeatsTypeOK
  BY DEF RoomInv, IdleInv, SwitchSeatsInv
<1>2. RoomInv /\ [RoomNext]_roomAll =>
          [shut' /\ ~shut => playing /\ (vacant >= EMPTY \/ announced >= WARN)]_idleVars
  <2> SUFFICES ASSUME RoomInv, [RoomNext]_roomAll
               PROVE  [shut' /\ ~shut => playing /\ (vacant >= EMPTY \/ announced >= WARN)]_idleVars
    OBVIOUS
  <2>1. IdleInv /\ [IdleNext]_idleVars
    BY PartsStep DEF RoomInv, roomAll
  <2> QED BY <2>1, ClosingIsForgotten
<1>3. RoomInv /\ [RoomNext]_roomAll =>
          [\A p \in seatsFile \ seatsFile' :
              p \notin seated /\ (left[p] >= SEAT_GRACE - 1)]_switchSeatVars
  <2> SUFFICES ASSUME RoomInv, [RoomNext]_roomAll
               PROVE  [\A p \in seatsFile \ seatsFile' :
                          p \notin seated /\ (left[p] >= SEAT_GRACE - 1)]_switchSeatVars
    OBVIOUS
  <2>1. SwitchSeatsInv /\ [SwitchSeatsNext]_switchSeatVars
    BY PartsStep DEF RoomInv, roomAll
  <2> QED BY <2>1, UnpluggedIsGone
<1> QED BY <1>1, <1>2, <1>3, RoomInvariant, PTL DEF ClosesOnlyForgotten, ReloadKeepsItsPad
=============================================================================
