------------------------------ MODULE IdleRule ------------------------------
(***************************************************************************)
(* The rule that closes a room nobody uses (emulator/src/nap.rs, Idle) and *)
(* the thread that applies it (worker/src/main.rs, watch_idle): a game is  *)
(* closed EMPTY ticks after the last person left, or AFTER ticks after the *)
(* last gesture, the pages being shown a countdown for the last WARN ones. *)
(*                                                                         *)
(* A tick is half a minute and falls between two looks of the thread, the  *)
(* last of which found no request pending: the thread looks five times a   *)
(* second and a request is served within one.                              *)
(***************************************************************************)
EXTENDS Naturals

CONSTANTS
    AFTER,       \* Limits.after, in ticks
    WARN,        \* Limits.warn
    EMPTY,       \* Limits.empty
    MINUTE       \* ticks in a minute

ASSUME IdleAssumption ==
    /\ AFTER \in Nat /\ WARN \in Nat /\ EMPTY \in Nat \ {0} /\ MINUTE \in Nat \ {0}
    /\ WARN < AFTER

VARIABLES
    playing,     \* the process runs a game (a room at its menu is never closed)
    crowd,       \* somebody watches or holds a pad
    asked,       \* rom_wanted
    alive,       \* age of the last gesture, or of the room
    moved,       \* it differs from Idle.seen
    emptySince,  \* Idle.empty_since as an age, EMPTY + 1 for None
    closingIn,   \* Idle.closing_in
    said,        \* Idle.closed
    idlePC,      \* where the thread is
    busy,        \* the Busy it read: somebody there, something wanted
    shown,       \* BrowserServer.closing_in, what the pages show
    shut,        \* BrowserServer.room_closing
    settled,     \* the thread has looked since the last tick, last without a request
    stayed,      \* history: somebody has been there since the last tick
    vacant,      \* history: ticks since somebody was last there for a whole one
    announced,   \* history: ticks the countdown has been on show
    spurned      \* history: close_idle was refused

idleVars == <<playing, crowd, asked, alive, moved, emptySince, closingIn, said,
              idlePC, busy, shown, shut, settled, stayed, vacant, announced, spurned>>
ruleVars == <<moved, emptySince, closingIn, said>>
pastVars == <<stayed, vacant, announced, spurned>>

NoSince == EMPTY + 1
Capped(n, top) == IF n < top THEN n + 1 ELSE n

IdleTypeOK ==
    /\ playing \in BOOLEAN /\ crowd \in BOOLEAN /\ asked \in BOOLEAN
    /\ alive \in 0..AFTER /\ moved \in BOOLEAN /\ emptySince \in 0..NoSince
    /\ closingIn \in 0..WARN /\ said \in BOOLEAN
    /\ idlePC \in {"sleep", "decide", "close"}
    /\ busy \in [crowd : BOOLEAN, wanted : BOOLEAN]
    /\ shown \in 0..WARN /\ shut \in BOOLEAN /\ settled \in BOOLEAN
    /\ stayed \in BOOLEAN /\ vacant \in 0..EMPTY /\ announced \in 0..WARN /\ spurned \in BOOLEAN

IdleInit ==
    /\ playing \in BOOLEAN /\ crowd = FALSE /\ asked = FALSE
    /\ alive = 0 /\ moved = TRUE /\ emptySince = NoSince /\ closingIn = 0 /\ said = FALSE
    /\ idlePC = "sleep" /\ busy = [crowd |-> FALSE, wanted |-> FALSE]
    /\ shown = 0 /\ shut = FALSE /\ settled = FALSE
    /\ stayed = FALSE /\ vacant = 0 /\ announced = 0 /\ spurned = FALSE

-----------------------------------------------------------------------------
(* The room *)

Come ==
    /\ ~crowd /\ crowd' = TRUE
    /\ UNCHANGED <<playing, asked, alive, ruleVars, idlePC, busy, shown, shut, settled, pastVars>>

Go ==
    /\ crowd /\ crowd' = FALSE /\ stayed' = FALSE
    /\ UNCHANGED <<playing, asked, alive, ruleVars, idlePC, busy, shown, shut, settled,
                   vacant, announced, spurned>>

\* A frame that is not neutral moves last_action.
Gesture ==
    /\ crowd /\ alive' = 0 /\ moved' = TRUE
    /\ UNCHANGED <<playing, crowd, asked, emptySince, closingIn, said, idlePC, busy,
                   shown, shut, settled, pastVars>>

\* A game is asked for, and the main loop serves or refuses it; serving it ends
\* the process, so only a refusal leaves something to watch.
Request ==
    /\ ~asked /\ ~shut /\ asked' = TRUE
    /\ UNCHANGED <<playing, crowd, alive, ruleVars, idlePC, busy, shown, shut, settled, pastVars>>

Refused ==
    /\ asked /\ asked' = FALSE
    /\ UNCHANGED <<playing, crowd, alive, ruleVars, idlePC, busy, shown, shut, settled, pastVars>>

HalfMinute ==
    /\ idlePC = "sleep" /\ settled /\ ~asked /\ ~shut
    /\ settled' = FALSE
    /\ alive' = Capped(alive, AFTER)
    /\ emptySince' = IF emptySince = NoSince THEN NoSince ELSE Capped(emptySince, EMPTY)
    /\ stayed' = crowd /\ vacant' = IF stayed THEN 0 ELSE Capped(vacant, EMPTY)
    /\ announced' = IF shown > 0 THEN Capped(announced, WARN) ELSE 0
    /\ UNCHANGED <<playing, crowd, asked, moved, closingIn, said, idlePC, busy, shown,
                   shut, spurned>>

-----------------------------------------------------------------------------
(* The thread *)

ReadBusy ==
    /\ idlePC = "sleep" /\ ~shut /\ idlePC' = "decide"
    /\ busy' = [crowd |-> crowd, wanted |-> asked]
    /\ UNCHANGED <<playing, crowd, asked, alive, ruleVars, shown, shut, settled, pastVars>>

DivCeil(a, b) == (a + b - 1) \div b
quiet_room == ~busy.crowd /\ ~busy.wanted

\* The countdown: whole minutes, rounded up, once the end is near.
countdown ==
    IF alive >= AFTER - WARN THEN DivCeil(AFTER - alive, MINUTE) ELSE 0

\* Mutant: somebody who comes back does not stop the clock of the empty room.
since_kept == IF emptySince = NoSince THEN 0 ELSE emptySince

since == IF ~quiet_room THEN NoSince ELSE IF emptySince = NoSince THEN 0 ELSE emptySince

\* Mutant: a room nobody is in is not closed at all.
due_once(closed) == ~closed /\ alive >= AFTER /\ busy.crowd

\* A deadline is said once per gesture: the room is deserted, or nobody plays.
due(closed) ==
    /\ ~closed
    /\ (since # NoSince /\ since >= EMPTY) \/ alive >= AFTER

\* Idle::saw, and the countdown handed to the pages.
Decide ==
    LET closed == said /\ ~moved
        suspended == ~playing \/ busy.wanted
        deserted == since # NoSince /\ since >= EMPTY
    IN
    /\ idlePC = "decide" /\ moved' = FALSE
    /\ emptySince' = IF suspended THEN emptySince ELSE since
    /\ closingIn' = IF suspended THEN 0 ELSE IF deserted THEN closingIn ELSE countdown
    /\ said' = (closed \/ (~suspended /\ due(closed)))
    /\ idlePC' = IF ~suspended /\ due(closed) THEN "close" ELSE "sleep"
    /\ shown' = closingIn'
    /\ settled' = ~busy.wanted
    /\ UNCHANGED <<playing, crowd, asked, alive, busy, shut, pastVars>>

\* close_idle: refused when a game has been asked for meanwhile.
Close ==
    /\ idlePC = "close" /\ idlePC' = "sleep"
    /\ shut' = ~asked /\ spurned' = (spurned \/ asked)
    /\ UNCHANGED <<playing, crowd, asked, alive, ruleVars, busy, shown, settled, stayed, vacant,
                   announced>>

-----------------------------------------------------------------------------
IdleThread == ReadBusy \/ Decide \/ Close
IdleNext == Come \/ Go \/ Gesture \/ Request \/ Refused \/ HalfMinute \/ IdleThread
IdleFairness ==
    WF_idleVars(IdleThread) /\ WF_idleVars(Refused) /\ SF_idleVars(HalfMinute)
IdleSpec == IdleInit /\ [][IdleNext]_idleVars /\ IdleFairness

-----------------------------------------------------------------------------
(* Properties *)

\* A room is closed only when it has been deserted for the whole of EMPTY, a
\* page that reloads not counting as a departure, or when the people in it
\* have had the countdown in front of them for the whole of WARN, even if
\* requests came and were refused meanwhile.  nap.rs, Idle::saw.
ClosesOnlyForgotten ==
    [][shut' /\ ~shut => playing /\ (vacant >= EMPTY \/ announced >= WARN)]_idleVars

\* Once everybody has left for good the game is closed, unless the order was
\* refused once: the rule does not say it twice for one last gesture.
DesertedRoomCloses ==
    <>[](~crowd /\ ~asked) => <>(shut \/ spurned \/ ~playing)
=============================================================================
