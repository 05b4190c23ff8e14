-------------------------------- MODULE Sound --------------------------------
(***************************************************************************)
(* The sound, from the emulator's pipe to the pages (emulator/src/sound.rs;*)
(* the sound thread of worker/src/main.rs; send_sound of browser/mod.rs;   *)
(* sound_thread of browser/stream.rs).                                     *)
(*                                                                         *)
(* Nothing paces the emulator but its full pipe: the tap takes one chunk   *)
(* per turn and never more.  A page that stops listening is found out by   *)
(* its own thread, and forgotten by the next chunk.  Bytes are counted,    *)
(* and only their place in a sample is told apart.                         *)
(***************************************************************************)
EXTENDS Naturals, FiniteSets

CONSTANTS
    PIPE_BYTES,     \* what the pipe holds: 8192 in the code
    CHUNK_BYTES,    \* what a turn carries: 1920 in the code
    SAMPLE,         \* bytes of one stereo sample (AUDIO_FRAME_BYTES, 4)
    OUTGOING,       \* depth of the queue of a listener
    Pages,          \* the pages that may listen
    SocketRoom      \* bound: chunks a socket nobody reads takes before a write fails

ASSUME SoundAssumption ==
    /\ {PIPE_BYTES, CHUNK_BYTES, SAMPLE, OUTGOING} \subseteq Nat \ {0} /\ SocketRoom \in Nat
    /\ CHUNK_BYTES % SAMPLE = 0

VARIABLES
    inPipe,         \* bytes the emulator wrote and the tap did not read
    pending,        \* SoundTap.pending
    phase,          \* place in its sample of the first byte of pending
    turn,           \* "due": sleeping until the next chunk; "read": reading it
    listeners,      \* BrowserServer.listeners: the pages whose sender is kept
    ear,            \* page -> its sound_thread: "none", "hand", "on", "write", "off"
    waiting,        \* page -> chunks in its queue
    absorbs         \* page -> Listening, or what its socket still takes of what nobody reads

soundVars == <<inPipe, pending, phase, turn, listeners, ear, waiting, absorbs>>
tapVars == <<inPipe, pending, phase, turn>>
earVars == <<listeners, ear, waiting, absorbs>>

Listening == SocketRoom + 1
\* The pages that left or stopped reading; their thread does not know.
away == {g \in Pages : absorbs[g] # Listening}

SoundTypeOK ==
    /\ inPipe \in 0..PIPE_BYTES /\ pending \in Nat /\ phase \in 0..(SAMPLE - 1)
    /\ turn \in {"due", "read"}
    /\ listeners \subseteq Pages /\ absorbs \in [Pages -> 0..Listening]
    /\ ear \in [Pages -> {"none", "hand", "on", "write", "off"}]
    /\ waiting \in [Pages -> 0..OUTGOING]

\* SoundTap::open, before the emulator starts.
SoundInit ==
    /\ inPipe = 0 /\ pending = 0 /\ phase = 0 /\ turn = "due"
    /\ listeners = {} /\ absorbs = [g \in Pages |-> Listening]
    /\ ear = [g \in Pages |-> "none"] /\ waiting = [g \in Pages |-> 0]

-----------------------------------------------------------------------------
\* The emulator writes as soon as there is room, whatever the time.
EmulatorWrites(n) ==
    /\ n \in 1..(PIPE_BYTES - inPipe) /\ inPipe' = inPipe + n
    /\ UNCHANGED <<pending, phase, turn, earVars>>

\* The chunk is due; a late thread skips to now and owes nothing for the past.
ChunkDue == turn = "due" /\ turn' = "read" /\ UNCHANGED <<inPipe, pending, phase, earVars>>

\* Mutant: the reader that drains whatever is there.
ReadPipeDry ==
    /\ turn = "read" /\ inPipe > 0
    /\ pending' = pending + inPipe /\ inPipe' = 0
    /\ UNCHANGED <<phase, turn, earVars>>

\* One read of at most a chunk, while a chunk is not complete.
ReadPipe ==
    LET n == IF inPipe < CHUNK_BYTES THEN inPipe ELSE CHUNK_BYTES IN
    /\ turn = "read" /\ pending < CHUNK_BYTES /\ n > 0
    /\ pending' = pending + n /\ inPipe' = inPipe - n
    /\ UNCHANGED <<phase, turn, earVars>>

\* Mutant: what is short of a chunk is thrown away with the silence.
TakenLossy ==
    /\ pending' = IF pending >= CHUNK_BYTES THEN pending - CHUNK_BYTES ELSE 0
    /\ phase' = (phase + (IF pending >= CHUNK_BYTES THEN CHUNK_BYTES ELSE pending)) % SAMPLE

\* A whole chunk leaves pending, or silence is sent in its place.
Taken ==
    /\ pending' = IF pending >= CHUNK_BYTES THEN pending - CHUNK_BYTES ELSE pending
    /\ phase' = (phase + (IF pending >= CHUNK_BYTES THEN CHUNK_BYTES ELSE 0)) % SAMPLE

\* Mutant: a sender whose page has gone is kept like one whose queue is full.
send_sound_keeps ==
    /\ waiting' = [g \in Pages |-> IF g \in listeners /\ ear[g] # "off" /\ waiting[g] < OUTGOING
                                   THEN waiting[g] + 1 ELSE waiting[g]]
    /\ UNCHANGED <<listeners, ear, absorbs>>

\* To everybody listening: dropped for a full queue, and a sender whose thread
\* has ended is forgotten.
send_sound ==
    /\ waiting' = [g \in Pages |-> IF g \in listeners /\ ear[g] # "off" /\ waiting[g] < OUTGOING
                                   THEN waiting[g] + 1 ELSE waiting[g]]
    /\ listeners' = {g \in listeners : ear[g] # "off"}
    /\ UNCHANGED <<ear, absorbs>>

\* The end of next_chunk, and the turn of the sound thread: silence is sent too.
NextChunk ==
    /\ turn = "read" /\ (pending >= CHUNK_BYTES \/ inPipe = 0)
    /\ turn' = "due" /\ Taken /\ send_sound /\ UNCHANGED inPipe

-----------------------------------------------------------------------------
\* A page opens the sound socket; its thread does the handshake.
Listen(g) ==
    /\ ear[g] = "none" /\ ear' = [ear EXCEPT ![g] = "hand"]
    /\ UNCHANGED <<tapVars, listeners, waiting, absorbs>>

\* The page's network goes without a word, or the page stops reading.
Vanish(g) ==
    /\ ear[g] \notin {"none", "off"} /\ g \notin away
    /\ \E n \in 0..SocketRoom : absorbs' = [absorbs EXCEPT ![g] = n]
    /\ UNCHANGED <<tapVars, listeners, ear, waiting>>

\* The handshake passes or fails; the sender is listed only once it passed.
Handshake(g) ==
    /\ ear[g] = "hand"
    /\ \/ g \notin away /\ ear' = [ear EXCEPT ![g] = "on"] /\ listeners' = listeners \union {g}
       \/ g \in away /\ ear' = [ear EXCEPT ![g] = "off"] /\ UNCHANGED listeners
    /\ UNCHANGED <<tapVars, waiting, absorbs>>

\* A chunk, or an empty message after KEEP_ALIVE without one.
Receive(g) ==
    /\ ear[g] = "on" /\ ear' = [ear EXCEPT ![g] = "write"]
    /\ waiting' = [waiting EXCEPT ![g] = IF @ > 0 THEN @ - 1 ELSE @]
    /\ UNCHANGED <<tapVars, listeners, absorbs>>

\* The write, and the look at what the page says.  A page that left is found out
\* by a failed write, a write that times out, or a close.
WriteChunk(g) ==
    /\ ear[g] = "write"
    /\ \/ absorbs[g] > 0 /\ ear' = [ear EXCEPT ![g] = "on"]
          /\ absorbs' = [absorbs EXCEPT ![g] = IF g \in away THEN @ - 1 ELSE @]
       \/ g \in away /\ ear' = [ear EXCEPT ![g] = "off"] /\ UNCHANGED absorbs
    /\ UNCHANGED <<tapVars, listeners, waiting>>

\* The thread of a page is over and the page may come back, once its old sender
\* is forgotten.
ComeBack(g) ==
    /\ ear[g] = "off" /\ g \notin listeners
    /\ ear' = [ear EXCEPT ![g] = "none"]
    /\ absorbs' = [absorbs EXCEPT ![g] = Listening]
    /\ waiting' = [waiting EXCEPT ![g] = 0]
    /\ UNCHANGED <<tapVars, listeners>>

SoundNext ==
    \/ ChunkDue \/ ReadPipe \/ NextChunk \/ \E n \in 1..PIPE_BYTES : EmulatorWrites(n)
    \/ \E g \in Pages : Listen(g) \/ Vanish(g) \/ Handshake(g) \/ Receive(g)
                        \/ WriteChunk(g) \/ ComeBack(g)

SoundSpec == SoundInit /\ [][SoundNext]_soundVars

\* The clock runs and threads run.
SoundFairness ==
    /\ WF_soundVars(ChunkDue) /\ WF_soundVars(ReadPipe) /\ WF_soundVars(NextChunk)
    /\ \A g \in Pages : WF_soundVars(Receive(g)) /\ WF_soundVars(Handshake(g))
                        /\ WF_soundVars(WriteChunk(g))

-----------------------------------------------------------------------------
\* Back pressure is the clock of the emulator: it is never ahead of what was sent
\* by more than the pipe and a chunk that is not complete, so the delay the stamps
\* subtract stays true (sound.rs, next_chunk and standing_delay).
EmulatorIsPaced == turn = "due" => inPipe + pending < PIPE_BYTES + CHUNK_BYTES

\* However the emulator cuts its writes and wherever silence was sent, a chunk
\* starts on a whole sample: left and right are never swapped (next_chunk).
ChunksAreWholeSamples == phase = 0

\* A page that leaves without a word is found out and forgotten, even when the
\* emulator says nothing (send_sound, sound_thread).
GoneListenersAreForgotten == \A g \in Pages : (g \in listeners /\ g \in away) ~> g \notin listeners
=============================================================================
