------------------------------ MODULE Pipeline ------------------------------
(***************************************************************************)
(* The chain a picture goes through on the graphics card, built for one    *)
(* ring of the emulator and built anew when the game changes its size      *)
(* (worker/src/main.rs, Pipeline and HalfStream): the encoder and its pool *)
(* of surfaces (encoder/src/av, csrc/nel3ab_encode.c), the images imported *)
(* from both sides (vulkan/image.rs), the pass that converts one into the  *)
(* other (vulkan/convert.rs, shaders/rgba_to_nv12.comp), and the same once *)
(* more at half the size, which the room does without when it is refused.  *)
(*                                                                         *)
(* A constructor makes its calls one after the other and any of them may   *)
(* fail; it is one step, whose result says what is left behind.  Objects   *)
(* are <<chain, part, number, kind>>.  One thread does all this; what runs *)
(* beside it is the card, which reads and writes what was submitted to it. *)
(***************************************************************************)
EXTENDS Naturals, Sequences, SequencesExt

CONSTANTS
    RingSizes,  \* <<width, height>> the emulator may announce
    SLOTS,      \* pictures in its ring
    TARGETS,    \* surfaces in a pool: 3 in the code
    GROUP,      \* WORKGROUP, invocations on a side of a group
    MaxRings,   \* bound: chains built
    MaxRefusals \* bound: calls to the driver that fail

ASSUME PipelineAssumption ==
    /\ RingSizes \subseteq (Nat \X Nat) /\ SLOTS \in Nat \ {0} /\ TARGETS \in Nat \ {0}
    /\ GROUP \in Nat \ {0} /\ MaxRings \in Nat \ {0} /\ MaxRefusals \in Nat

VARIABLES
    sizes,     \* chain -> size of the ring it was built for; the last is the source's
    at,        \* where the thread is
    chain,     \* the chain in use, 0 before the first
    making,    \* the chain being built, or the last one built
    next,      \* the part of it to build next
    small,     \* chains whose half-size stream is there
    alive,     \* objects of the driver
    dropping,  \* fields of the chain in use already dropped
    atHand,    \* slot of the picture being handled, 0 for none
    family,    \* slot -> who the card says owns its image
    turn,      \* produced, by the surface it picks
    wanted,    \* streams somebody watched when this picture came
    drawn,     \* <<stream, surface>> this picture was converted into
    coded,     \* <<stream, surface>> encoded for this picture
    pending,   \* objects that submitted work refers to
    unwaited,  \* waits for the card that failed: "fence", "idle"
    refusals   \* calls that failed so far

chainVars == <<sizes, chain, making, next, small, alive, dropping>>
pictureVars == <<atHand, family, turn, wanted, drawn, coded, pending>>
faultVars == <<unwaited, refusals>>
pipelineVars == <<at, chainVars, pictureVars, faultVars>>

Streams == {"full", "half"}
Slots == 1..SLOTS
Surfaces == 0 .. TARGETS - 1

-----------------------------------------------------------------------------
(* What a constructor has made when its n-th call fails, and what its error *)
(* path takes down again.                                                   *)

\* import_as, then bind: from the dup to the allocation the descriptor is ours.
PlaneCalls == <<"image", "properties", "descriptor", "memory", "bound", "view">>
PlaneMade(n) == CASE n = 1 -> {}
                  [] n \in {2, 3} -> {"image"}
                  [] n = 4 -> {"image", "descriptor"}
                  [] n \in {5, 6} -> {"image", "memory"}
                  [] OTHER -> {"image", "memory", "view"}
\* Mutant: a view that is refused leaves the memory behind.
PlaneUndone_bound(n) == {"image", "descriptor"} \union (IF n = 5 THEN {"memory"} ELSE {})
PlaneUndone(n) == {"image", "descriptor"} \union (IF n \in {5, 6} THEN {"memory"} ELSE {})

\* build, compile and build_rest; the module lives while the pipeline compiles.
ConverterCalls == <<"sampler", "set_layout", "layout", "module", "pipeline", "pool", "set",
                    "command_pool", "command_buffer", "fence">>
ConverterMade(n) == {ConverterCalls[i] : i \in 1 .. n - 1} \ (IF n >= 5 THEN {"module"} ELSE {})
\* Built::destroy; a set goes with its pool, a buffer with its own.
ConverterUndone(n) == {"fence", "command_pool", "command_buffer", "pool", "set", "pipeline",
                       "layout", "set_layout", "sampler"}

\* n3_encoder_open, and n3_encoder_close, which frees what is there.
EncoderCalls == <<"struct", "device", "pool_of_frames", "frames", "codec", "opened", "packet">>
EncoderMade(n) == {EncoderCalls[i] : i \in 1 .. n - 1}
EncoderUndone(n) == {EncoderCalls[i] : i \in DOMAIN EncoderCalls}

Kinds == ToSet(PlaneCalls) \union ToSet(ConverterCalls) \union ToSet(EncoderCalls)
Calls(part) == CASE part \in {"encoder", "half_encoder"} -> EncoderCalls
                 [] part \in {"converter", "half_converter"} -> ConverterCalls
                 [] OTHER -> PlaneCalls
Made(part, n) == CASE part \in {"encoder", "half_encoder"} -> EncoderMade(n)
                   [] part \in {"converter", "half_converter"} -> ConverterMade(n)
                   [] OTHER -> PlaneMade(n)
Undone(part, n) == CASE part \in {"encoder", "half_encoder"} -> EncoderUndone(n)
                     [] part \in {"converter", "half_converter"} -> ConverterUndone(n)
                     [] OTHER -> PlaneUndone(n)

-----------------------------------------------------------------------------
(* Pipeline::build and HalfStream::open, in their order.                    *)

Of(part, n) == [k \in 1..n |-> <<part, k>>]
\* The two planes of each surface: luma, chroma, luma, chroma ...
Planes == 2 * TARGETS
FullParts == <<<<"encoder", 1>>>> \o Of("source", SLOTS) \o Of("target", Planes) \o <<<<"converter", 1>>>>
HalfParts == <<<<"half_encoder", 1>>, <<"half_converter", 1>>>> \o Of("half_target", Planes)
AllParts == FullParts \o HalfParts
HalfRefused == Len(AllParts) + 2
InHalf(n) == n > Len(FullParts)

Whole(c, p) == {<<c, p[1], p[2], kind>> : kind \in Made(p[1], Len(Calls(p[1])) + 1)}
ChainOf(c) == UNION {Whole(c, p) : p \in ToSet(IF c \in small THEN AllParts ELSE FullParts)}
OfField(c, field) == {o \in alive : o[1] = c /\ o[2] = field}
OfHalf(c) == UNION {OfField(c, p[1]) : p \in ToSet(HalfParts)}

\* Encoder::open and half_size: complete blocks of chroma.
Opens(s) == s[1] > 0 /\ s[2] > 0 /\ s[1] % 2 = 0 /\ s[2] % 2 = 0
Halves(s) == s[1] > 0 /\ s[2] > 0 /\ s[1] % 4 = 0 /\ s[2] % 4 = 0
half_size(s) == <<s[1] \div 2, s[2] \div 2>>

PipelineInit ==
    /\ sizes \in {<<s>> : s \in RingSizes} /\ at = "build" /\ chain = 0 /\ making = 1 /\ next = 1
    /\ small = {} /\ alive = {} /\ dropping = 0
    /\ atHand = 0 /\ family = [s \in Slots |-> "foreign"] /\ turn = 0
    /\ wanted = {} /\ drawn = {} /\ coded = {} /\ pending = {}
    /\ unwaited = {} /\ refusals = 0

Ready == at = "build" /\ next \in DOMAIN AllParts
Takes == CASE next = 1 -> Opens(sizes[making])
           [] next = Len(FullParts) + 1 -> Halves(sizes[making])
           [] OTHER -> TRUE
\* Every way out goes through the drop of the chain in use.
Leaves == at' = IF chain = 0 THEN "gone" ELSE "leave"
Refused == refusals < MaxRefusals /\ refusals' = refusals + 1

Make ==
    /\ Ready /\ Takes
    /\ alive' = alive \union Whole(making, AllParts[next])
    /\ next' = next + 1
    /\ UNCHANGED <<at, sizes, chain, making, small, dropping, pictureVars, faultVars>>

\* What stays of a part whose n-th call failed: the parts made before it are
\* dropped with the chain, or with the half of it, that was refused.
Left(n) == LET p == AllParts[next]
           IN {<<making, p[1], p[2], kind>> : kind \in Made(p[1], n) \ Undone(p[1], n)}
WithoutHalf(left) ==
    /\ alive' = (alive \ OfHalf(making)) \union left
    /\ next' = HalfRefused /\ UNCHANGED <<at, sizes, chain, making, small, dropping>>
WithoutChain(left) ==
    /\ alive' = {o \in alive : o[1] # making} \union left
    /\ Leaves /\ UNCHANGED <<sizes, chain, making, next, small, dropping>>
GivesUp(left) == IF InHalf(next) THEN WithoutHalf(left) ELSE WithoutChain(left)

MakeFails ==
    /\ Ready /\ Takes /\ Refused
    /\ \E n \in DOMAIN Calls(AllParts[next][1]) : GivesUp(Left(n))
    /\ UNCHANGED <<pictureVars, unwaited>>
NotOfASize == Ready /\ ~Takes /\ GivesUp({}) /\ UNCHANGED <<pictureVars, faultVars>>

\* The chain in use is dropped once the new one is there.
Built ==
    /\ at = "build" /\ ~Ready
    /\ small' = IF next = HalfRefused THEN small ELSE small \union {making}
    /\ IF chain = 0 THEN at' = "loop" /\ chain' = making
       ELSE at' = "replace" /\ UNCHANGED chain
    /\ UNCHANGED <<sizes, making, next, alive, dropping, pictureVars, faultVars>>

-----------------------------------------------------------------------------
(* The drop of a chain, field after field, and of its half.                 *)

\* Mutant: the images and the encoder go before the work on them is waited for.
Order_images == <<"encoder", "source", "target", "converter",
                  "half_converter", "half_encoder", "half_target">>
Order == <<"converter", "encoder", "source", "target",
           "half_converter", "half_encoder", "half_target">>
Waits(field) == field \in {"converter", "half_converter"}

DropField ==
    /\ at \in {"replace", "leave"} /\ dropping < Len(Order)
    /\ LET field == Order[dropping + 1]
       IN /\ alive' = alive \ OfField(chain, field)
          /\ \/ (Waits(field) => pending = {}) /\ UNCHANGED faultVars
             \* What device_wait_idle says is not read.
             \/ Waits(field) /\ Refused /\ unwaited' = unwaited \union {"idle"}
    /\ dropping' = dropping + 1
    /\ UNCHANGED <<at, sizes, chain, making, next, small, pictureVars>>
ChainDropped ==
    /\ at \in {"replace", "leave"} /\ dropping = Len(Order)
    /\ dropping' = 0
    /\ IF at = "leave" THEN at' = "gone" /\ chain' = 0 ELSE at' = "loop" /\ chain' = making
    /\ UNCHANGED <<sizes, making, next, small, alive, pictureVars, faultVars>>

-----------------------------------------------------------------------------
(* One picture: taken, converted for whoever watches, given back, encoded.  *)

GoesBack == atHand' = 0 /\ Leaves /\ UNCHANGED <<family, turn, wanted, drawn, coded>>

Take(s) ==
    /\ at = "loop" /\ atHand' = s /\ drawn' = {} /\ coded' = {} /\ at' = "look"
    /\ UNCHANGED <<chainVars, family, turn, wanted, pending, faultVars>>
RingChanged(s) ==
    /\ at = "loop" /\ making < MaxRings /\ s # Last(sizes)
    /\ sizes' = Append(sizes, s) /\ making' = making + 1 /\ next' = 1 /\ at' = "build"
    /\ family' = [k \in Slots |-> "foreign"]
    /\ UNCHANGED <<chain, small, alive, dropping, atHand, turn, wanted, drawn, coded, pending, faultVars>>
SourceEnds == /\ at = "loop" /\ Leaves
              /\ UNCHANGED <<chainVars, pictureVars, faultVars>>

Look(streams) ==
    /\ at = "look" /\ ("half" \in streams => chain \in small)
    /\ wanted' = streams /\ at' = "convert"
    /\ UNCHANGED <<chainVars, atHand, family, turn, drawn, coded, pending, faultVars>>

Scale(st) == IF st = "full" THEN 1 ELSE 2
TargetSize(st) == IF st = "full" THEN sizes[chain] ELSE half_size(sizes[chain])
\* Mutant: the size told to the converter is the one of the start.
SourceSize_first == sizes[1]
SourceSize == sizes[chain]
Fits(st) == SourceSize = [i \in 1..2 |-> TargetSize(st)[i] * Scale(st)]

HalfOf == [converter |-> "half_converter", target |-> "half_target", convert |-> "half_convert",
           wait |-> "half_wait", encode |-> "half_encode"]
Part(st, part) == IF st = "full" THEN part ELSE HalfOf[part]
\* What the command buffer and its descriptors name.
Refs(st) == OfField(chain, Part(st, "converter"))
            \union {<<chain, "source", atHand, kind>> : kind \in {"image", "memory", "view"}}
            \union {<<chain, Part(st, "target"), 2 * turn + plane, kind>> :
                        plane \in {1, 2}, kind \in {"image", "memory", "view"}}
Reading == {s \in Slots : \E o \in pending : o[2] = "source" /\ o[3] = s}
Drawing == {st \in Streams : \E o \in pending : o[2] = Part(st, "target")}

Converting(st) == at = Part(st, "convert")
AfterConvert(st) == at' = IF st = "full" THEN "half_convert" ELSE "release"
Submit(st) ==
    /\ Converting(st) /\ st \in wanted /\ Fits(st)
    /\ pending' = Refs(st) /\ at' = Part(st, "wait")
    /\ family' = [family EXCEPT ![atHand] = "ours"]
    /\ UNCHANGED <<chainVars, atHand, turn, wanted, drawn, coded, faultVars>>
SkipConvert(st) == /\ Converting(st) /\ st \notin wanted /\ AfterConvert(st)
                   /\ UNCHANGED <<chainVars, pictureVars, faultVars>>
\* The sizes are not those of the chain, or a call before the submission fails:
\* the picture goes back.
ConvertFails(st) == /\ Converting(st) /\ st \in wanted /\ GoesBack
                    /\ IF Fits(st) THEN Refused ELSE UNCHANGED refusals
                    /\ UNCHANGED <<chainVars, pending, unwaited>>

\* The barriers at the end of what record wrote give the image back.
\* Mutant: the source is not given back.
AfterWork_kept == "ours"
AfterWork == "foreign"
CardDone ==
    /\ pending # {} /\ pending' = {}
    /\ family' = [s \in Slots |-> IF s \in Reading THEN AfterWork ELSE family[s]]
    /\ drawn' = drawn \union {<<st, turn>> : st \in Drawing}
    /\ UNCHANGED <<at, chainVars, atHand, turn, wanted, coded, faultVars>>
Waited(st) == /\ at = Part(st, "wait") /\ pending = {} /\ AfterConvert(st)
              /\ UNCHANGED <<chainVars, pictureVars, faultVars>>
WaitFails(st) == /\ at = Part(st, "wait") /\ Refused /\ unwaited' = unwaited \union {"fence"}
                 /\ GoesBack /\ UNCHANGED <<chainVars, pending>>

Release == /\ at = "release" /\ atHand' = 0 /\ at' = "encode"
           /\ UNCHANGED <<chainVars, family, turn, wanted, drawn, coded, pending, faultVars>>

\* Mutant: who watches is read again.
Encodes_now(st) == st = "full" \/ chain \in small
Encodes(st) == st \in wanted
NextSurface == (turn + 1) % TARGETS
AfterEncode(st) == IF st = "full" THEN at' = "half_encode" /\ UNCHANGED turn
                   ELSE at' = "loop" /\ turn' = NextSurface
Encode(st) ==
    /\ at = Part(st, "encode") /\ Encodes(st)
    /\ coded' = coded \union {<<st, turn>>} /\ AfterEncode(st)
    /\ UNCHANGED <<chainVars, atHand, family, wanted, drawn, pending, faultVars>>
SkipEncode(st) ==
    /\ at = Part(st, "encode") /\ ~Encodes(st) /\ AfterEncode(st)
    /\ UNCHANGED <<chainVars, atHand, family, wanted, drawn, coded, pending, faultVars>>
EncodeFails(st) ==
    /\ at = Part(st, "encode") /\ Encodes(st) /\ Refused /\ Leaves
    /\ UNCHANGED <<chainVars, pictureVars, unwaited>>

PipelineNext ==
    \/ Make \/ MakeFails \/ NotOfASize \/ Built \/ DropField \/ ChainDropped
    \/ \E s \in Slots : Take(s)
    \/ \E s \in RingSizes : RingChanged(s)
    \/ SourceEnds \/ (\E streams \in SUBSET Streams : Look(streams))
    \/ \E st \in Streams : Submit(st) \/ SkipConvert(st) \/ ConvertFails(st)
                           \/ Waited(st) \/ WaitFails(st)
                           \/ Encode(st) \/ SkipEncode(st) \/ EncodeFails(st)
    \/ CardDone \/ Release

PipelineSpec == PipelineInit /\ [][PipelineNext]_pipelineVars

-----------------------------------------------------------------------------
(* rgba_to_nv12.comp: an invocation for each sample of chroma, which writes *)
(* it and the four of luma over it, from SCALE * SCALE pixels for each.     *)

\* Mutant: the last group, which would not be full, is left out.
Groups_full(n) == n \div GROUP
Groups(n) == (n + GROUP - 1) \div GROUP
Square(w, h) == (0 .. w - 1) \X (0 .. h - 1)
Invocations(st) ==
    LET chroma == half_size(TargetSize(st))
    IN {c \in Square(Groups(chroma[1]) * GROUP, Groups(chroma[2]) * GROUP) :
            c[1] < chroma[1] /\ c[2] < chroma[2]}
LumaOf(c) == {<<2 * c[1] + d[1], 2 * c[2] + d[2]>> : d \in Square(2, 2)}
ReadFor(st, p) == {<<Scale(st) * p[1] + d[1], Scale(st) * p[2] + d[2]>> : d \in Square(Scale(st), Scale(st))}

-----------------------------------------------------------------------------
(* What should hold.                                                        *)

Working == chain # 0 /\ at \notin {"build", "replace", "leave", "gone"}

PipelineTypeOK ==
    /\ sizes \in Seq(RingSizes) /\ Len(sizes) = making /\ making \in 1..MaxRings
    /\ chain \in {0, making, making - 1} /\ next \in 1..HalfRefused
    /\ small \subseteq 1..making /\ dropping \in 0..Len(Order)
    /\ alive \union pending \subseteq (1..making) \X ToSet(Order) \X Nat \X Kinds
    /\ atHand \in 0..SLOTS /\ family \in [Slots -> {"foreign", "ours"}] /\ turn \in Surfaces
    /\ wanted \subseteq Streams /\ drawn \union coded \subseteq Streams \X Surfaces
    /\ unwaited \subseteq {"fence", "idle"} /\ refusals \in 0..MaxRefusals

\* Wherever the driver said no, in the chain or in the half-size one a room does
\* without, nothing made on the way stays: the room has its chain and no more,
\* after any number of changes of size, and at the end nothing.
\* (Pipeline::build, HalfStream::open, import_as, bind, Built::destroy, drop)
NothingLeaks == /\ Working => alive = ChainOf(chain)
                /\ at = "gone" => alive = {}

\* An image, a view or a pool is not destroyed under work that names it, after a
\* failed wait too, unless the card does not answer the drop either.
\* (the order of Pipeline's fields, Drop for Converter)
UsedIsAlive == "idle" \notin unwaited => pending \subseteq alive

\* A picture the emulator has back is its own again and nothing reads it still:
\* both conversions have been waited for.  Only a wait that failed gives it back
\* too early.  (convert, record, drop(frame))
GivenBackReadable ==
    "fence" \notin unwaited =>
        \A s \in Slots : s # atHand => family[s] = "foreign" /\ s \notin Reading

\* What an encoder is made to read is this picture, for each stream somebody
\* watched when it came, and for no other; both use the same surface.
\* (wanted_full, wanted_half, index)
EncodesThisPicture == coded \subseteq drawn /\ (at = "loop" => coded = drawn)

\* After a change of size no converter refuses a picture: the sizes it is told
\* are those of the chain.  (Pipeline.descriptor, convert)
FitsItsChain == Working => \A st \in {"full"} \union (IF chain \in small THEN {"half"} ELSE {}) : Fits(st)

\* The dispatch writes every sample of both planes, from every pixel of the
\* source and from no other.  (cmd_dispatch, div_ceil, source_at)
WholePicture ==
    Working => \A st \in {"full"} \union (IF chain \in small THEN {"half"} ELSE {}) :
        LET luma == UNION {LumaOf(c) : c \in Invocations(st)}
            read == UNION {ReadFor(st, p) : p \in luma}
        IN /\ luma = Square(TargetSize(st)[1], TargetSize(st)[2])
           /\ read = Square(sizes[chain][1], sizes[chain][2])
=============================================================================
