------------------------------ MODULE PadPipe -------------------------------
(***************************************************************************)
(* The pipes through which a room plays (emulator/src/pipe.rs, wire.rs).   *)
(*                                                                         *)
(* Each served port has a named pipe.  send writes the difference with the *)
(* state the emulator is believed to hold (`last`), or the whole state     *)
(* when nothing was sent yet or after a resync.  A batch is at most        *)
(* MAX_BATCH_LEN = 320 bytes and PIPE_BUF is 4096: a write of it passes    *)
(* whole or is refused, never torn.  The pad thread and the main loop      *)
(* share one lock, so a send is one step.                                  *)
(***************************************************************************)
EXTENDS Slots, Sequences

CONSTANTS
    Controls,   \* buttons, sticks and triggers
    Values,     \* what each of them can be at
    Unsent,     \* an empty Option<PadState>
    Room        \* bound: batches a pipe holds before a write would block

ASSUME PipeAssumption ==
    Room \in Nat \ {0} /\ Unsent \notin [Controls -> Values]

VARIABLES
    last,       \* port -> PadPipe.last
    pipe,       \* port -> the batches in the FIFO
    pad,        \* port -> the state the emulator holds
    given,      \* history: port -> the state last handed to send
    owed        \* history: ports whose last state was dropped

pipeVars == <<last, pipe, pad, given, owed>>

PadStates == [Controls -> Values]
\* The commands of a batch: PRESS, RELEASE and SET lines, one per control.
Batches == UNION {[C -> Values] : C \in SUBSET Controls}

PipeTypeOK ==
    /\ last \in [Served -> PadStates \union {Unsent}]
    /\ pipe \in [Served -> Seq(Batches)] /\ \A p \in Served : Len(pipe[p]) <= Room
    /\ pad \in [Served -> PadStates]
    /\ given \in [Served -> PadStates \union {Unsent}]
    /\ owed \subseteq Served

\* attach_all: the write ends are open, nothing was said; what the emulator
\* holds is its own business.
PipeInit ==
    /\ last = [p \in Served |-> Unsent] /\ pipe = [p \in Served |-> <<>>]
    /\ pad \in [Served -> PadStates]
    /\ given = [p \in Served |-> Unsent] /\ owed = {}

-----------------------------------------------------------------------------
(* wire.rs *)

\* Mutant: what is let go of is not written.
encode_pressed(previous, next) ==
    [c \in {c \in Controls : previous[c] # next[c] /\ next[c] # 0} |-> next[c]]

encode_delta(previous, next) ==
    [c \in {c \in Controls : previous[c] # next[c]} |-> next[c]]

encode_full(state) == state

\* ParseCommand of the emulator: each line sets its control.
Applied(state, batch) ==
    [c \in Controls |-> IF c \in DOMAIN batch THEN batch[c] ELSE state[c]]

-----------------------------------------------------------------------------
(* pipe.rs *)

Batch(p, state) ==
    IF last[p] = Unsent THEN encode_full(state) ELSE encode_delta(last[p], state)

Coalesced(p, state) ==
    /\ last[p] = state
    /\ UNCHANGED <<last, pipe>> /\ owed' = owed \ {p}

Written(p, state) ==
    /\ last[p] # state /\ Len(pipe[p]) < Room
    /\ pipe' = [pipe EXCEPT ![p] = Append(@, Batch(p, state))]
    /\ last' = [last EXCEPT ![p] = state] /\ owed' = owed \ {p}

\* Mutant: the record moves on although the batch did not pass.
DroppedForgotten(p, state) ==
    /\ last[p] # state /\ Len(pipe[p]) = Room
    /\ last' = [last EXCEPT ![p] = state] /\ owed' = owed \union {p}
    /\ UNCHANGED pipe

\* WouldBlock: the record keeps what the emulator really holds.
Dropped(p, state) ==
    /\ last[p] # state /\ Len(pipe[p]) = Room
    /\ UNCHANGED <<last, pipe>> /\ owed' = owed \union {p}

\* A port the session does not serve is refused without touching any pipe.
UnknownSlot(p, state) == p \notin Served /\ UNCHANGED <<last, pipe, owed, given>>

Send(p, state) ==
    /\ \/ UnknownSlot(p, state)
       \/ /\ p \in Served /\ given' = [given EXCEPT ![p] = state]
          /\ Coalesced(p, state) \/ Written(p, state) \/ Dropped(p, state)
    /\ UNCHANGED pad

Resync ==
    /\ last' = [p \in Served |-> Unsent]
    /\ UNCHANGED <<pipe, pad, given, owed>>

\* The emulator polls its pipe and applies a batch.
Poll(p) ==
    /\ pipe[p] # <<>>
    /\ pad' = [pad EXCEPT ![p] = Applied(@, Head(pipe[p]))]
    /\ pipe' = [pipe EXCEPT ![p] = Tail(@)]
    /\ UNCHANGED <<last, given, owed>>

PipeNext ==
    \/ \E p \in Ports, s \in PadStates : Send(p, s)
    \/ Resync
    \/ \E p \in Served : Poll(p)

PipeSpec == PipeInit /\ [][PipeNext]_pipeVars

-----------------------------------------------------------------------------
(* Properties *)

\* The states the emulator will hold as it reads the batches on their way.
Becomes(p) ==
    LET at[i \in 0..Len(pipe[p])] ==
            IF i = 0 THEN pad[p] ELSE Applied(at[i - 1], pipe[p][i])
    IN [i \in 1..Len(pipe[p]) |-> at[i]]

Level == INSTANCE PadLevel
    WITH Ports <- Served, States <- PadStates, asked <- given,
         coming <- [p \in Served |-> Becomes(p)], shown <- pad

\* Writing only differences, dropping what does not fit and starting over
\* after a resync still hands the emulator whole states in order: no batch is
\* ever computed from a state the emulator will not hold when it reads it.
PipeCarriesLevels == Level!LevelSpec

\* Once the emulator has read everything it holds the last state it was sent,
\* unless that very state was dropped: no key stays down behind a player's
\* back, however many earlier frames were lost.
HeldUnlessDropped ==
    \A p \in Served :
        (pipe[p] = <<>> /\ given[p] # Unsent /\ p \notin owed) => pad[p] = given[p]
=============================================================================
