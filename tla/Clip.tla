-------------------------------- MODULE Clip --------------------------------
(***************************************************************************)
(* The recorder of the last seconds (transport/src/clip.rs; browser/mod.rs,*)
(* send, send_sound and take_clip).                                        *)
(*                                                                         *)
(* Pictures are kept as they were sent, watched or not; the sound beside   *)
(* them.  Both forget what is too old, the pictures also what is too heavy *)
(* and the sound what is too long.  A clip starts at the most recent key   *)
(* frame that has COVERS behind it.  An instant is kept as its distance to  *)
(* the newest of its kind, in ticks of the capture clock: at most one      *)
(* picture and one piece of sound per tick, each kept by its own thread,   *)
(* in either order.                                                        *)
(***************************************************************************)
EXTENDS Integers, Sequences, FiniteSets, SequencesExt

CONSTANTS
    COVERS,       \* what a clip covers at least
    KEEPS,        \* what is kept behind the newest
    HOLDS,        \* bytes of pictures kept
    SOUND_HOLDS,  \* pieces of sound kept
    APART,        \* between two clips
    GOP           \* pictures from one key frame of the encoder to the next

ASSUME ClipAssumption ==
    /\ COVERS \in Nat \ {0} /\ GOP \in Nat \ {0} /\ COVERS + GOP <= KEEPS
    /\ KEEPS \in Nat /\ HOLDS \in Nat /\ APART \in Nat
    /\ SOUND_HOLDS \in Nat /\ SOUND_HOLDS >= KEEPS       \* 40 * SAMPLE_RATE for 40 seconds

VARIABLES
    film,       \* Clips.kept, oldest first: age and whether it is a key frame
    filmGap,    \* ticks since the newest picture, capped where all would go
    filmBytes,  \* Clips.bytes
    tape,       \* Clips.sound, oldest first: ages
    tapeGap,    \* ticks since the newest sound, capped
    rest,       \* age of Clips.taken, capped at APART, where a clip is allowed
    ended,      \* what came in this tick
    sinceKey,   \* pictures since the last key frame
    rolling,    \* history: ticks in a row with a picture, none lost for its weight
    sounding    \* history: ticks in a row with sound

clipVars == <<film, filmGap, filmBytes, tape, tapeGap, rest, ended, sinceKey, rolling, sounding>>

\* A key frame is the burst of its second.
Weight(picture) == IF picture.key THEN 2 ELSE 1
\* Their sum: one for each picture, and one more for each key frame.
WeightOf(pictures) == Len(pictures) + Cardinality({i \in DOMAIN pictures : pictures[i].key})
Capped1(n) == IF n <= KEEPS THEN n + 1 ELSE n

ClipInit ==
    /\ film = <<>> /\ filmGap = 0 /\ filmBytes = 0 /\ tape = <<>> /\ tapeGap = 0 /\ rest = APART
    /\ ended = {"picture", "sound"} /\ sinceKey = GOP
    /\ rolling = 0 /\ sounding = 0

-----------------------------------------------------------------------------
Aged(pictures) ==
    [i \in 1..Len(pictures) |-> [pictures[i] EXCEPT !.age = @ + filmGap]]

\* With the picture that comes, and of them those that are kept.
All(key) == Append(Aged(film), [age |-> 0, key |-> key])
Bytes(key) == filmBytes + Weight([age |-> 0, key |-> key])
\* How many of the oldest go: the fewest that leave the others within the bounds.
Forgotten(key) ==
    LET all == All(key)
    IN Min({n \in 0 .. Len(all) :
               /\ n < Len(all) => all[n + 1].age <= KEEPS
               /\ Bytes(key) - WeightOf(SubSeq(all, 1, n)) <= HOLDS})
KeepPictures(key) ==
    /\ filmGap' = 0 /\ film' = SubSeq(All(key), Forgotten(key) + 1, Len(All(key)))
    /\ rolling' = IF \E i \in 1..Forgotten(key) : All(key)[i].age <= KEEPS THEN 0 ELSE rolling

\* Mutant: what is forgotten still counts.
keep_heavy(key) == KeepPictures(key) /\ filmBytes' = Bytes(key)

\* Clips::keep.
keep(key) ==
    /\ KeepPictures(key)
    /\ filmBytes' = Bytes(key) - WeightOf(SubSeq(All(key), 1, Forgotten(key)))

\* send keeps the picture before it is distributed, whoever listens.
SendPicture(key) ==
    /\ "picture" \notin ended /\ (key \/ sinceKey < GOP)
    /\ keep(key)
    /\ sinceKey' = IF key THEN 1 ELSE sinceKey + 1
    /\ ended' = ended \union {"picture"}
    /\ UNCHANGED <<tape, tapeGap, rest, sounding>>

AllSound == Append([i \in 1..Len(tape) |-> tape[i] + tapeGap], 0)
ForgottenSound(keeps) ==
    Min({n \in 0 .. Len(AllSound) :
            n < Len(AllSound) => AllSound[n + 1] <= keeps /\ Len(AllSound) - n <= SOUND_HOLDS})
KeepSound(keeps) ==
    tapeGap' = 0 /\ tape' = SubSeq(AllSound, ForgottenSound(keeps) + 1, Len(AllSound))

\* Mutant: the sound is kept for as long as a clip is, not as its pictures are.
keep_sound_short == KeepSound(COVERS)
\* Clips::keep_sound.
keep_sound == KeepSound(KEEPS)

SendSound ==
    /\ "sound" \notin ended /\ keep_sound
    /\ ended' = ended \union {"sound"}
    /\ UNCHANGED <<film, filmGap, filmBytes, rest, sinceKey, rolling, sounding>>

\* The clock moves, whatever came.
CaptureTick ==
    /\ filmGap' = Capped1(filmGap) /\ tapeGap' = Capped1(tapeGap)
    /\ rest' = IF rest < APART THEN rest + 1 ELSE rest
    /\ rolling' = IF "picture" \in ended THEN Capped1(rolling) ELSE 0
    /\ sounding' = IF "sound" \in ended THEN Capped1(sounding) ELSE 0
    /\ ended' = {}
    /\ UNCHANGED <<film, filmBytes, tape, sinceKey>>

\* Mutant: the oldest key frame that has enough behind it.
cut_oldest ==
    LET at == {i \in 1..Len(film) : film[i].key /\ film[i].age >= COVERS}
    IN IF at = {} THEN 0 ELSE Min(at)

\* Where a clip would start, 0 for nowhere.
cut ==
    LET at == {i \in 1..Len(film) : film[i].key /\ film[i].age >= COVERS}
    IN IF at = {} THEN 0 ELSE Max(at)

covers == film[cut].age

\* Clips::take: refused when too soon, and nothing when there is no cut.
TakeClip ==
    /\ rest = APART /\ cut # 0 /\ rest' = 0
    /\ UNCHANGED <<film, filmGap, filmBytes, tape, tapeGap, ended, sinceKey, rolling, sounding>>

ClipNext ==
    \/ \E key \in BOOLEAN : SendPicture(key)
    \/ SendSound \/ CaptureTick \/ TakeClip

ClipSpec == ClipInit /\ [][ClipNext]_clipVars

-----------------------------------------------------------------------------
(* Properties *)

ClipTypeOK ==
    /\ \A i \in 1..Len(film) : film[i] \in [age : 0..KEEPS, key : BOOLEAN]
    /\ filmBytes \in Nat /\ \A i \in 1..Len(tape) : tape[i] \in 0..KEEPS
    /\ filmGap \in 0..(KEEPS + 1) /\ tapeGap \in 0..(KEEPS + 1)
    /\ rest \in 0..APART /\ ended \subseteq {"picture", "sound"} /\ sinceKey \in 0..GOP
    /\ rolling \in 0..(KEEPS + 1) /\ sounding \in 0..(KEEPS + 1)

\* What is kept is what is counted, and neither the pictures of a restless
\* game nor sound that outlasts them grow past their bounds.
KeptIsBounded ==
    /\ filmBytes = WeightOf(film) /\ filmBytes <= HOLDS
    /\ Len(tape) <= SOUND_HOLDS

\* A room that has been playing for long enough always has a clip, and it is
\* the last COVERS and not what came long before: it starts less than one
\* group of pictures earlier.  KEEPS leaves room for that group.
PlayedRoomHasAClip ==
    (rolling >= COVERS + GOP /\ "picture" \in ended) =>
        (cut # 0 /\ film[cut].key /\ covers \in COVERS..(COVERS + GOP - 1))

\* The sound of a clip is all there when it has been coming without a break
\* since the first picture, although the two are forgotten by rules of their
\* own; only a clip that takes everything the pictures keep may start silent.
ClipHasItsSound ==
    (cut # 0 /\ ended = {"picture", "sound"} /\ covers < KEEPS /\ sounding >= covers) =>
        \A age \in 0..covers : age \in Range(tape)
=============================================================================
