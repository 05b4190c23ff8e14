--------------------------------- MODULE Nap ---------------------------------
(***************************************************************************)
(* The nap of a room: the emulator is frozen through docker when nobody    *)
(* needs it, woken when somebody comes back, and replaced when it falls    *)
(* silent while awake.                                                     *)
(*                                                                         *)
(*   - the nap thread (worker/src/main.rs, emulator/src/nap.rs) looks at   *)
(*     the room twice a second, one lock after the other, and pauses or    *)
(*     unpauses the container;                                             *)
(*   - the frame loop takes a picture or notices that none came for a      *)
(*     second (lifecycle.rs, Silence), and serves what is asked first;     *)
(*   - leaving joins the threads, wakes the container whatever it thinks,  *)
(*     then asks the emulator to stop (process.rs, terminate).             *)
(*                                                                         *)
(* One tick of the clock stands for the ten seconds in which both threads  *)
(* have looked at least once, and falls between two looks of the nap       *)
(* thread; the delays of the code are counted in ticks.                    *)
(***************************************************************************)
EXTENDS Naturals, Sequences

CONSTANTS
    GRACE,         \* ticks a room stays empty before it is frozen
    QUIET_LIMIT,   \* ticks of silence while awake before a restart
    MaxFaults,     \* bound: docker calls that fail and emulators that hang
    Visitors       \* why somebody may come: "full", "half", "pad"

ASSUME NapAssumption ==
    GRACE \in Nat /\ QUIET_LIMIT \in Nat /\ MaxFaults \in Nat
    /\ 0 < QUIET_LIMIT /\ QUIET_LIMIT < GRACE /\ Visitors \subseteq {"full", "half", "pad"}

VARIABLES
    here,       \* why the room is needed: a picture, a small picture, a pad
    stay,       \* history: for how many ticks each of them has been there
    wanted,     \* a game or a stop was asked for and not served
    asleep,     \* Nap.asleep
    empty,      \* Nap.empty_since as an age, Never when somebody is there
    nap,        \* where the nap thread is: how many locks it took, or Telling
    needed,     \* what it read so far: somebody needs the room
    move,       \* the gesture it was told to make, "Wake" while there is none
    container,  \* "run", "frozen", or "gone"
    hung,       \* the emulator runs and produces no pictures
    late,       \* gestures docker gave up waiting for and may still make
    sleeping,   \* the flag the frame loop reads
    quiet,      \* Silence.heard as an age
    loop,       \* where the main thread is
    looked,     \* the threads that looked since the clock last moved
    faults      \* failures so far

napVars == <<here, stay, wanted, asleep, empty, nap, needed, move, container,
             hung, late, sleeping, quiet, loop, looked, faults>>
roomVars == <<here, stay, wanted>>
threadVars == <<asleep, empty, nap, needed, move>>
emulatorVars == <<container, hung, late>>
frameVars == <<sleeping, quiet, loop>>

Reasons == {"full", "half", "pad"}
\* The order in which the nap thread takes the locks of the server.
Reads == <<"full", "half", "pad", "wanted">>
Moves == {"Sleep", "Wake"}
Telling == 5
Never == GRACE + 1
Up == loop \in {"loop", "take"}

NapTypeOK ==
    /\ here \subseteq Reasons /\ stay \in [Reasons -> 0..2] /\ wanted \in BOOLEAN
    /\ asleep \in BOOLEAN /\ empty \in 0..Never
    /\ nap \in 0..Telling /\ needed \in BOOLEAN /\ move \in Moves
    /\ container \in {"run", "frozen", "gone"} /\ hung \in BOOLEAN
    /\ late \subseteq Moves
    /\ sleeping \in BOOLEAN /\ quiet \in 0..QUIET_LIMIT
    /\ loop \in {"loop", "take", "join", "wake", "term", "down"}
    /\ looked \subseteq {"nap", "main"} /\ faults \in 0..MaxFaults

-----------------------------------------------------------------------------
(* The process and its room.  A boot removes whatever container was left. *)

NapInit ==
    /\ here = {} /\ stay = [r \in Reasons |-> 0] /\ wanted = FALSE
    /\ asleep = FALSE /\ empty = Never /\ nap = 0 /\ needed = FALSE /\ move = "Wake"
    /\ container = "run" /\ hung = FALSE /\ late = {}
    /\ sleeping = FALSE /\ quiet = 0 /\ loop = "loop"
    /\ looked = {} /\ faults = 0

\* prepare (the wrapper's --cleanup: unpause, stop, rm) and a fresh emulator.
\* The sockets of the room died with the previous process.
prepare ==
    /\ loop = "down" /\ loop' = "loop"
    /\ here' = {} /\ stay' = [r \in Reasons |-> 0] /\ wanted' = FALSE
    /\ asleep' = FALSE /\ empty' = Never /\ nap' = 0 /\ needed' = FALSE /\ move' = "Wake"
    /\ container' = "run" /\ hung' = FALSE /\ late' = {}
    /\ sleeping' = FALSE /\ quiet' = 0 /\ looked' = {}
    /\ UNCHANGED faults

Enter(r) ==
    /\ Up /\ r \notin here
    /\ here' = here \union {r} /\ stay' = [stay EXCEPT ![r] = 0]
    /\ UNCHANGED <<wanted, threadVars, emulatorVars, frameVars, looked, faults>>

Leave(r) ==
    /\ Up /\ r \in here
    /\ here' = here \ {r} /\ stay' = [stay EXCEPT ![r] = 0]
    /\ UNCHANGED <<wanted, threadVars, emulatorVars, frameVars, looked, faults>>

\* A game, a launch or a stop: rom_wanted is true until the loop serves it.
Want ==
    /\ Up /\ ~wanted /\ wanted' = TRUE
    /\ UNCHANGED <<here, stay, threadVars, emulatorVars, frameVars, looked, faults>>

\* Ten seconds: every thread of a running room has looked meanwhile.
Tick ==
    /\ Up /\ looked = {"nap", "main"} /\ nap = 0
    /\ looked' = {}
    /\ stay' = [r \in Reasons |-> IF r \in here /\ stay[r] < 2 THEN stay[r] + 1 ELSE stay[r]]
    /\ empty' = IF empty < GRACE THEN empty + 1 ELSE empty
    /\ quiet' = IF quiet < QUIET_LIMIT THEN quiet + 1 ELSE quiet
    /\ UNCHANGED <<here, wanted, asleep, nap, needed, move, emulatorVars, sleeping,
                   loop, faults>>

-----------------------------------------------------------------------------
(* docker *)

Effect(what) == IF what = "Sleep" THEN "frozen" ELSE "run"
Applies(what) == container = (IF what = "Sleep" THEN "run" ELSE "frozen")

\* tell_docker under bounded_status.  Pausing what is paused is refused; the
\* daemon may refuse anything, or answer after the five seconds of patience
\* and do then what it was asked.
tell_docker(what, ok) ==
    \/ /\ ok /\ Applies(what)
       /\ container' = Effect(what) /\ UNCHANGED <<late, faults>>
    \/ ~ok /\ ~Applies(what) /\ UNCHANGED <<container, late, faults>>
    \/ /\ ~ok /\ Applies(what) /\ faults < MaxFaults /\ faults' = faults + 1
       /\ late' \in {late, late \union {what}} /\ UNCHANGED container

DockerLate(what) ==
    /\ what \in late /\ late' = late \ {what}
    /\ container' = IF Applies(what) THEN Effect(what) ELSE container
    /\ UNCHANGED <<roomVars, threadVars, hung, frameVars, looked, faults>>

\* The emulator stops drawing without dying, or dies.
Hang ==
    /\ container = "run" /\ ~hung /\ faults < MaxFaults
    /\ hung' = TRUE /\ faults' = faults + 1
    /\ UNCHANGED <<roomVars, threadVars, container, late, frameVars, looked>>

Die ==
    /\ container = "run" /\ Up /\ faults < MaxFaults
    /\ container' = "gone" /\ late' = {} /\ faults' = faults + 1
    /\ UNCHANGED <<roomVars, threadVars, hung, frameVars, looked>>

-----------------------------------------------------------------------------
(* The nap thread *)

\* Mutant, the defect nap.rs tells about: only the full-size picture counts.
LookFullOnly ==
    /\ nap \in 0..3 /\ (nap = 0 => Up)
    /\ needed' = (needed \/ (nap = 0 /\ "full" \in here) \/ (nap = 3 /\ wanted))
    /\ nap' = nap + 1
    /\ UNCHANGED <<roomVars, asleep, empty, move, emulatorVars, frameVars, looked, faults>>

\* The fields of Busy, each under its own lock; the first look of a round is
\* taken only while the worker is not stopping.
Look ==
    /\ nap \in 0..3 /\ (nap = 0 => Up)
    /\ LET what == Reads[nap + 1] IN
       needed' = (needed \/ IF what = "wanted" THEN wanted ELSE what \in here)
    /\ nap' = nap + 1
    /\ UNCHANGED <<roomVars, asleep, empty, move, emulatorVars, frameVars, looked, faults>>

\* Nap::saw: a gesture only when the state changes.
saw ==
    LET since == IF empty = Never THEN 0 ELSE empty IN
    IF needed
    THEN /\ empty' = Never /\ asleep' = FALSE
         /\ move' = IF asleep THEN "Wake" ELSE move
         /\ nap' = IF asleep THEN Telling ELSE 0
    ELSE /\ empty' = since
         /\ IF asleep \/ since < GRACE
            THEN nap' = 0 /\ UNCHANGED <<asleep, move>>
            ELSE nap' = Telling /\ asleep' = TRUE /\ move' = "Sleep"

Observe ==
    /\ nap = 4 /\ saw
    /\ needed' = FALSE
    /\ looked' = IF nap' = 0 THEN looked \union {"nap"} ELSE looked
    /\ UNCHANGED <<roomVars, emulatorVars, frameVars, faults>>

\* The flag follows docker only when docker obeyed; the rule has moved already.
Tell(ok) ==
    /\ nap = Telling /\ tell_docker(move, ok)
    /\ sleeping' = IF ok THEN move = "Sleep" ELSE sleeping
    /\ nap' = 0 /\ move' = "Wake" /\ looked' = looked \union {"nap"}
    /\ UNCHANGED <<roomVars, asleep, empty, needed, hung, quiet, loop>>

-----------------------------------------------------------------------------
(* The frame loop *)

\* What is asked is served before the picture is waited for: written down,
\* and the worker leaves, or refused, and the loop goes on to the picture.
Serve ==
    /\ loop = "loop"
    /\ \/ wanted /\ loop' = "join" /\ UNCHANGED wanted
       \/ loop' = "take" /\ wanted' = FALSE
    /\ UNCHANGED <<here, stay, threadVars, emulatorVars, sleeping, quiet, looked, faults>>

Frame ==
    /\ loop = "take" /\ container = "run" /\ ~hung
    /\ quiet' = 0 /\ looked' = looked \union {"main"} /\ loop' = "loop"
    /\ UNCHANGED <<roomVars, threadVars, emulatorVars, sleeping, faults>>

\* Mutant: the silence starts over at every second without a picture.
FrameIdleForgives ==
    /\ loop = "take" /\ (container = "frozen" \/ (container = "run" /\ hung))
    /\ looked' = looked \union {"main"} /\ quiet' = 0 /\ loop' = "loop"
    /\ UNCHANGED <<roomVars, threadVars, emulatorVars, sleeping, faults>>

\* Silence::saw on a second without a picture.
FrameIdle ==
    /\ loop = "take" /\ (container = "frozen" \/ (container = "run" /\ hung))
    /\ looked' = looked \union {"main"}
    /\ quiet' = IF sleeping THEN 0 ELSE quiet
    /\ loop' = IF ~sleeping /\ quiet >= QUIET_LIMIT THEN "join" ELSE "loop"
    /\ UNCHANGED <<roomVars, threadVars, emulatorVars, sleeping, faults>>

FramesEnd ==
    /\ loop = "take" /\ container = "gone"
    /\ loop' = "join"
    /\ UNCHANGED <<roomVars, threadVars, emulatorVars, sleeping, quiet, looked, faults>>

-----------------------------------------------------------------------------
(* Leaving: the threads are joined, the container woken, the process asked *)

\* Mutant: leaving without waking what the flag says is asleep.
JoinUnwoken ==
    /\ loop = "join" /\ nap = 0 /\ loop' = (IF sleeping THEN "term" ELSE "wake")
    /\ UNCHANGED <<roomVars, threadVars, emulatorVars, sleeping, quiet, looked, faults>>

Join ==
    /\ loop = "join" /\ nap = 0 /\ loop' = "wake"
    /\ UNCHANGED <<roomVars, threadVars, emulatorVars, sleeping, quiet, looked, faults>>

\* terminate wakes without asking whether it sleeps, and ignores the answer.
Wake(ok) ==
    /\ loop = "wake" /\ tell_docker("Wake", ok) /\ loop' = "term"
    /\ UNCHANGED <<roomVars, threadVars, hung, sleeping, quiet, looked>>

\* terminate_child: an emulator that runs stops on SIGTERM.  A frozen or a
\* hung one does not hear it; SIGKILL then ends the docker client alone and
\* the container stays.
Term ==
    /\ loop = "term" /\ loop' = "down"
    /\ IF container = "run" /\ ~hung
       THEN container' = "gone" /\ late' = {}
       ELSE UNCHANGED <<container, late>>
    /\ UNCHANGED <<roomVars, threadVars, hung, sleeping, quiet, looked, faults>>

-----------------------------------------------------------------------------
NapThread == Look \/ Observe \/ Tell(TRUE) \/ Tell(FALSE)
MainThread ==
    \/ Serve \/ Frame \/ FrameIdle \/ FramesEnd
    \/ Join \/ Wake(TRUE) \/ Wake(FALSE) \/ Term \/ prepare

NapNext ==
    \/ \E r \in Visitors : Enter(r) \/ Leave(r)
    \/ Want \/ Tick \/ Hang \/ Die
    \/ \E what \in Moves : DockerLate(what)
    \/ NapThread \/ MainThread

\* Both threads run on timers of their own.  The clock passes between two looks,
\* however many there are: strong fairness, since a look disables the tick.
NapFairness ==
    WF_napVars(NapThread) /\ WF_napVars(MainThread) /\ SF_napVars(Tick)

NapSpec == NapInit /\ [][NapNext]_napVars /\ NapFairness

-----------------------------------------------------------------------------
(* Properties *)

\* Nobody who stays in a room (in either format, or with a pad alone) looks at
\* a frozen game, as long as docker obeys: whatever the nap thread had read
\* before they came, its next look wakes the emulator.  nap.rs, Busy.
AwakeWhenSomebodyStays ==
    (Up /\ faults = 0 /\ \E r \in here : stay[r] = 2) => container = "run"

\* A worker that ends leaves no emulator behind it, frozen or not, as long as
\* docker obeys and the emulator answers: process.rs, terminate.
LeavesNothingBehind == (loop = "down" /\ faults = 0) => container = "gone"

\* A silence the flag does not explain (a hung emulator, a pause docker made
\* after it had reported failing) ends: pictures come back, the room is known
\* to be asleep, or the worker leaves so that a fresh emulator starts.
SilenceIsBounded ==
    (Up /\ ~sleeping /\ (container = "frozen" \/ hung))
        ~> (~Up \/ sleeping \/ (container = "run" /\ ~hung))
=============================================================================
