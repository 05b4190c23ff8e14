------------------------------ MODULE Session -------------------------------
(***************************************************************************)
(* The emulator of a session directory, from one worker to the next        *)
(* (emulator/src/process.rs, lock.rs, pipe.rs, lifecycle.rs, sound.rs;     *)
(* worker/src/main.rs, run; docker/dolphin-in-docker.sh).                  *)
(*                                                                         *)
(* A worker takes the room's lock, reclaims the container a predecessor    *)
(* left, points the saves, listens for an intruder, creates the pipes,     *)
(* starts its emulator and waits until somebody reads the pipes.  It may   *)
(* be killed anywhere: the kernel frees its lock and the emulator stays.   *)
(* Each worker process is an element of Workers and lives once.            *)
(***************************************************************************)
EXTENDS Naturals, FiniteSets

CONSTANTS
    Workers,     \* worker processes, in any order of start
    Nobody       \* nobody holds the lock, no pipes at the path

ASSUME SessionAssumption == Nobody \notin Workers

VARIABLES
    wrapped,     \* the binary is dolphin-in-docker.sh, not a native Dolphin
    wk,          \* where each worker is in `run`
    roomLock,    \* who holds room.lock
    emu,         \* the emulator each worker started
    fifos,       \* whose pipes stand at Pipes/pN
    readers,     \* worker -> emulators that opened its pipes
    slipped      \* history: an emulator nobody heard was there when probed

sessVars == <<wrapped, wk, roomLock, emu, fifos, readers, slipped>>

Phases == {"new", "locked", "prepared", "linked", "probed", "piped", "spawned",
           "running", "ending", "aborting", "gone"}
Alive == {e \in Workers : emu[e] # "none"}

SessTypeOK ==
    /\ wrapped \in BOOLEAN /\ wk \in [Workers -> Phases]
    /\ roomLock \in Workers \union {Nobody}
    /\ emu \in [Workers -> {"none", "silent", "loud"}]
    /\ fifos \in Workers \union {Nobody}
    /\ readers \in [Workers -> SUBSET Workers] /\ slipped \in BOOLEAN

SessInit ==
    /\ wrapped \in BOOLEAN /\ wk = [w \in Workers |-> "new"] /\ roomLock = Nobody
    /\ emu = [w \in Workers |-> "none"] /\ fifos = Nobody
    /\ readers = [w \in Workers |-> {}] /\ slipped = FALSE

Goto(w, phase) == wk' = [wk EXCEPT ![w] = phase]

\* `run` returns, with an error or not: the lock goes last.
Quit(w) == Goto(w, "gone") /\ roomLock' = Nobody

\* The processes of these emulators are over.
Over(es) ==
    /\ emu' = [e \in Workers |-> IF e \in es THEN "none" ELSE emu[e]]
    /\ readers' = [w \in Workers |-> readers[w] \ es]

-----------------------------------------------------------------------------
(* Start *)

\* lock::take, and the refusal of a second worker.
TakeRoom(w) ==
    /\ wk[w] = "new"
    /\ IF roomLock = Nobody THEN Goto(w, "locked") /\ roomLock' = w
       ELSE Goto(w, "gone") /\ UNCHANGED roomLock
    /\ UNCHANGED <<wrapped, emu, fifos, readers, slipped>>

\* Mutant: the container a dead worker left is not reclaimed.
ReclaimLater(w) ==
    /\ wk[w] = "locked" /\ Goto(w, "prepared")
    /\ UNCHANGED <<wrapped, roomLock, emu, fifos, readers, slipped>>

\* lifecycle::prepare: a native binary has no cleanup to ask for.
Reclaim(w) ==
    /\ wk[w] = "locked" /\ Goto(w, "prepared")
    /\ IF wrapped THEN Over(Alive) ELSE UNCHANGED <<emu, readers>>
    /\ UNCHANGED <<wrapped, roomLock, fifos, slipped>>

\* prepare_saves and sweep_nand: the card is pointed at the slot.
PointSaves(w) ==
    /\ wk[w] = "prepared" /\ Goto(w, "linked")
    /\ UNCHANGED <<wrapped, roomLock, emu, fifos, readers, slipped>>

\* Mutant: what is heard is only written in the journal.
ProbeDeaf(w) ==
    /\ wk[w] = "linked" /\ Goto(w, "probed") /\ UNCHANGED <<roomLock, slipped>>
    /\ UNCHANGED <<wrapped, emu, fifos, readers>>

\* SoundTap::intruder: a worker that hears somebody refuses to start.
Probe(w) ==
    /\ wk[w] = "linked"
    /\ IF \E e \in Alive : emu[e] = "loud" THEN Quit(w) /\ UNCHANGED slipped
       ELSE Goto(w, "probed") /\ UNCHANGED roomLock /\ slipped' = (slipped \/ Alive # {})
    /\ UNCHANGED <<wrapped, emu, fifos, readers>>

\* write_config_files and PendingPipes::create: whatever stood there goes.
CreatePipes(w) ==
    /\ wk[w] = "probed" /\ Goto(w, "piped") /\ fifos' = w
    /\ UNCHANGED <<wrapped, roomLock, emu, readers, slipped>>

\* The wrapper repeats its cleanup before the container of that name is run.
Spawn(w) ==
    /\ wk[w] = "piped" /\ Goto(w, "spawned")
    /\ IF wrapped
       THEN /\ emu' = [e \in Workers |-> IF e = w THEN "silent" ELSE "none"]
            /\ readers' = [v \in Workers |-> {}]
       ELSE emu' = [emu EXCEPT ![w] = "silent"] /\ UNCHANGED readers
    /\ UNCHANGED <<wrapped, roomLock, fifos, slipped>>

\* A step before the emulator exists fails, or a stop was asked for meanwhile.
FailEarly(w) ==
    /\ wk[w] \in {"locked", "prepared", "linked", "probed", "piped"} /\ Quit(w)
    /\ UNCHANGED <<wrapped, emu, fifos, readers, slipped>>

\* attach_all: every write end opens once somebody reads.
Attach(w) ==
    /\ wk[w] = "spawned" /\ readers[w] # {} /\ Goto(w, "running")
    /\ UNCHANGED <<wrapped, roomLock, emu, fifos, readers, slipped>>

\* Mutant: the pipes are waited for as long as the emulator lives.
AttachPatient(w) ==
    /\ wk[w] = "spawned" /\ emu[w] = "none" /\ Goto(w, "aborting")
    /\ UNCHANGED <<wrapped, roomLock, emu, fifos, readers, slipped>>

\* The emulator died, the two minutes passed, or the room is stopping.
AttachFails(w) ==
    /\ wk[w] = "spawned" /\ Goto(w, "aborting")
    /\ UNCHANGED <<wrapped, roomLock, emu, fifos, readers, slipped>>

-----------------------------------------------------------------------------
(* End *)

\* The frame loop ends, or `run` returns early and drops the session.
Finish(w) ==
    /\ wk[w] = "running" /\ Goto(w, "ending")
    /\ UNCHANGED <<wrapped, roomLock, emu, fifos, readers, slipped>>

\* terminate_child: SIGTERM, or SIGKILL when it is ignored, which in front of a
\* container ends the docker client and not the emulator.  A session that had
\* started removes its pipes.
Terminate(w) ==
    /\ wk[w] \in {"ending", "aborting"} /\ Quit(w)
    /\ Over({w}) \/ (wrapped /\ UNCHANGED <<emu, readers>>)
    /\ fifos' = IF wk[w] = "ending" THEN Nobody ELSE fifos
    /\ UNCHANGED <<wrapped, slipped>>

\* SIGKILL of the worker: what it started stays.
Kill(w) ==
    /\ wk[w] \notin {"new", "gone"} /\ Quit(w)
    /\ UNCHANGED <<wrapped, emu, fifos, readers, slipped>>

-----------------------------------------------------------------------------
(* The emulator, external *)

\* It scans the pipe directory once, opens what it finds and makes sound.
EmuReads(e) ==
    /\ emu[e] = "silent" /\ emu' = [emu EXCEPT ![e] = "loud"]
    /\ readers' = IF fifos = Nobody THEN readers
                  ELSE [readers EXCEPT ![fifos] = @ \union {e}]
    /\ UNCHANGED <<wrapped, wk, roomLock, fifos, slipped>>

EmuEnds(e) ==
    /\ e \in Alive /\ Over({e}) /\ UNCHANGED <<wrapped, wk, roomLock, fifos, slipped>>

WorkerStep(w) ==
    TakeRoom(w) \/ Reclaim(w) \/ PointSaves(w) \/ Probe(w) \/ CreatePipes(w) \/ Spawn(w)
    \/ FailEarly(w) \/ Attach(w) \/ AttachFails(w) \/ Terminate(w)

SessNext ==
    \E w \in Workers : WorkerStep(w) \/ Finish(w) \/ Kill(w) \/ EmuReads(w) \/ EmuEnds(w)

\* A worker goes on by itself until it plays, and from the end of its game on;
\* nothing says that a game ends, nor that an emulator ever reads its pipes.
SessFairness == \A w \in Workers : WF_sessVars(WorkerStep(w))

SessSpec == SessInit /\ [][SessNext]_sessVars /\ SessFairness

-----------------------------------------------------------------------------
(* Properties *)

\* Two emulators never share a session directory, whatever was killed in
\* between, except natively when the one left behind was still too young to
\* be heard: its sound is all that betrays it.  process.rs, sound.rs.
OneEmulatorPerRoom == Cardinality(Alive) <= 1 \/ (~wrapped /\ slipped)

\* In front of docker the save card is never moved under a game that runs:
\* from the cleanup to the start of its own emulator a worker is alone, even
\* when its predecessor's container survived its client.  main.rs, run.
SavesMoveAlone ==
    \A w \in Workers :
        (wrapped /\ wk[w] \in {"prepared", "linked", "probed", "piped"}) => Alive = {}

\* What a player presses reaches the emulator of the room and no other: the
\* pipes a worker writes into have no reader but the emulator it started.
OwnEmulatorReads ==
    \A w \in Workers :
        (wk[w] = "running" /\ ~slipped) => readers[w] \subseteq {w}

\* A room is never left locked: whoever holds its directory ends by playing or
\* by giving it back.  lock.rs, process.rs attach_all.
LockComesBack ==
    \A w \in Workers : roomLock = w ~> (roomLock # w \/ wk[w] = "running")
=============================================================================
