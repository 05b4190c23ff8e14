----------------------------- MODULE FrameSocket -----------------------------
(* The worker's end of the socket on which the emulator lends its pictures    *)
(* (encoder/src/frame_source.rs, protocol.rs), as FrameRing does not show it: *)
(* the wait for the first connection, messages that are short, of another     *)
(* version, out of the ring or without their descriptor, deadlines, and the   *)
(* file descriptors the kernel hands over with the bytes.  One descriptor is  *)
(* one picture of video memory: one that is forgotten is never given back,    *)
(* one that is closed twice closes somebody else's.                           *)
(*                                                                            *)
(* The emulator's side is external: it may say anything a build of it could.  *)
EXTENDS Integers, FiniteSets, Functions

CONSTANTS MAX_SLOTS,   \* largest ring announced
          Pictures,    \* descriptors: width, height, modifier, pitch...
          Fds          \* numbers the kernel gives, lowest first

ASSUME SocketAssumption ==
  /\ MAX_SLOTS \in Nat \ {0} /\ Fds \subseteq Nat
  /\ Cardinality(Fds) >= 2 * MAX_SLOTS + 3

VARIABLES stage,   \* "listening", "collecting", "frames", "lent", "ended"
          why,     \* the error the session ended with, "none" before
          partial,    \* the ring being read: [count, picture, slots]; count 0 before its first header
          ring,    \* the ring in use
          lent,    \* the slot of the picture being read
          open,    \* descriptors open in this process
          made     \* history: the descriptor each one was announced with

socketVars == <<stage, why, partial, ring, lent, open, made>>

NoRing == [count |-> 0, picture |-> "none", slots |-> << >>]
Rings == [count : 0 .. MAX_SLOTS, picture : Pictures \cup {"none"},
          slots : UNION {[S -> Fds] : S \in SUBSET (0 .. MAX_SLOTS - 1)}]
Headers == [is : {"header"}, whole : BOOLEAN, slot : 0 .. MAX_SLOTS, count : 0 .. MAX_SLOTS,
            picture : Pictures, fds : 0 .. 2]
Readies == [is : {"ready"}, whole : BOOLEAN, slot : 0 .. MAX_SLOTS, fds : 0 .. 1]

(* Header::parse: length, magic and version (whole), an empty ring, a slot    *)
(* outside the ring.                                                          *)
parses(h) == h.whole /\ h.count > 0 /\ h.slot < h.count

(* The kernel installs the lowest free numbers as the message is read.        *)
Lowest(S) == CHOOSE f \in S : \A g \in S : f <= g
Installed(n) ==
  LET free == Fds \ open
  IN CASE n = 0 -> << >>
       [] n = 1 -> <<Lowest(free)>>
       [] n = 2 -> <<Lowest(free), Lowest(free \ {Lowest(free)})>>

(* DmaBufs of a ring: what its drop closes.                                   *)
Owned(r) == Range(r.slots)

\* Mutant: only the first descriptor of a message is looked at.
Surplus_left(got) == {}
(* A second descriptor of one message is closed at once.                      *)
Surplus(got) == Range(got) \ {got[i] : i \in DOMAIN got \cap {1}}

(* Every error of the session: what was in hand is dropped, then the partial  *)
(* ring, then, as run returns, the source with its ring.                      *)
Fail(error, got) ==
  /\ stage' = "ended" /\ why' = error
  /\ open' = (open \cup Range(got)) \ (Range(got) \cup Owned(partial) \cup Owned(ring))
  /\ partial' = NoRing /\ ring' = NoRing /\ lent' = -1 /\ UNCHANGED made

FrameSocketInit ==
  /\ stage = "listening" /\ why = "none" /\ partial = NoRing /\ ring = NoRing /\ lent = -1
  /\ open = {} /\ made = [f \in Fds |-> "none"]

-----------------------------------------------------------------------------
(* FrameListener::accept_while: polled until the emulator connects, the room  *)
(* is asked to stop, or two minutes have passed.                              *)
accept == stage = "listening" /\ stage' = "collecting"
          /\ UNCHANGED <<why, partial, ring, lent, open, made>>
NotAccepted(error) == stage = "listening" /\ Fail(error, << >>)

(* collect_ring has one more header, with its descriptor: the first decides   *)
(* the size and the picture; the others must agree and fill an empty place.   *)
Begun(h) == IF partial.count = 0 THEN [count |-> h.count, picture |-> h.picture, slots |-> << >>] ELSE partial
Refusals(h) ==
  LET r == Begun(h)
  IN {e \in {"slot out of range", "duplicate slot", "inconsistent ring"} :
        CASE e = "slot out of range" -> h.slot >= r.count
          [] e = "duplicate slot"    -> h.slot \in DOMAIN r.slots
          [] OTHER                   -> h.picture # r.picture}

\* Mutant: a slot described again replaces its descriptor.
Disagrees_never_twice(h) == Refusals(h) \ {"duplicate slot"} # {}
\* Mutant: the descriptors of the slots are not compared.
Disagrees_mixed(h) == Refusals(h) \ {"inconsistent ring"} # {}
Disagrees(h) == Refusals(h) # {}

Placed(r, slot, d) == [r EXCEPT !.slots = [s \in DOMAIN @ \cup {slot} |-> IF s = slot THEN d ELSE @[s]]]
Full(r) == Cardinality(DOMAIN r.slots) = r.count

collect(h, got) ==
  LET now == Placed(Begun(h), h.slot, got[1])
      replaced == IF h.slot \in DOMAIN Begun(h).slots THEN {Begun(h).slots[h.slot]} ELSE {}
  IN /\ ~Disagrees(h)
     /\ made' = [made EXCEPT ![got[1]] = h.picture]
     /\ IF Full(now)
        THEN /\ stage' = "frames" /\ ring' = now /\ partial' = NoRing
             /\ open' = (open \cup Range(got)) \ (Surplus(got) \cup replaced \cup Owned(ring))
        ELSE /\ stage' = "collecting" /\ partial' = now /\ UNCHANGED ring
             /\ open' = (open \cup Range(got)) \ (Surplus(got) \cup replaced)
     /\ UNCHANGED <<why, lent>>

(* A header, read where one is expected (receive_header_with_fd) or where a   *)
(* notification was (next_frame): a ring announced in the middle of a game is *)
(* adopted whole before another picture is lent.                              *)
ReadsHeader(h) ==
  /\ stage \in {"collecting", "frames"}
  /\ LET got == Installed(h.fds)
     IN \/ ~parses(h) /\ Fail("malformed", got)
        \/ parses(h) /\ h.fds = 0 /\ Fail("no descriptor", got)
        \/ parses(h) /\ h.fds > 0 /\ Disagrees(h) /\ Fail("refused", got)
        \/ parses(h) /\ h.fds > 0 /\ collect(h, got)

(* The deadline of a header: five seconds for the first ring, one after that. *)
HeaderLate == stage = "collecting" /\ Fail("late", << >>)
(* The emulator closed its end, before a message or within one.               *)
ProducerLeft == stage \in {"collecting", "frames"} /\ Fail("producer gone", << >>)

InRing(r) == r.slot < ring.count
(* next_frame: a notification lends its slot; a descriptor it should not      *)
(* carry is closed.  One that is expected to be a header is too short for it. *)
ReadsReady(r) ==
  LET got == Installed(r.fds)
  IN \/ stage = "collecting" /\ Fail("malformed", got)
     \/ stage = "frames" /\ ~(r.whole /\ InRing(r)) /\ Fail("malformed", got)
     \/ /\ stage = "frames" /\ r.whole /\ InRing(r)
        /\ stage' = "lent" /\ lent' = r.slot
        /\ UNCHANGED <<why, partial, ring, open, made>>   \* installed and closed again
(* LentFrame::drop: the slot is released, exactly once.                       *)
drop == stage = "lent" /\ stage' = "frames" /\ lent' = -1
        /\ UNCHANGED <<why, partial, ring, open, made>>
(* The main loop leaves (a stop, an encoder that failed): the source drops.   *)
LoopLeaves == stage \in {"frames", "lent"} /\ Fail("left", << >>)

FrameSocketNext ==
  \/ accept \/ NotAccepted("cancelled") \/ NotAccepted("no producer")
  \/ \E h \in Headers : ReadsHeader(h)
  \/ \E r \in Readies : ReadsReady(r)
  \/ HeaderLate \/ ProducerLeft \/ drop \/ LoopLeaves
FrameSocketSpec == FrameSocketInit /\ [][FrameSocketNext]_socketVars

-----------------------------------------------------------------------------
FrameSocketTypeOK ==
  /\ stage \in {"listening", "collecting", "frames", "lent", "ended"}
  /\ partial \in Rings /\ ring \in Rings /\ lent \in -1 .. MAX_SLOTS /\ open \subseteq Fds

(* Whatever the emulator sends and wherever the session stops, a descriptor   *)
(* that is open has exactly one owner and every owner's descriptor is open:   *)
(* none leaks over a day of games that change their ring, none is closed      *)
(* twice or used after it was closed.                                         *)
DescriptorsAreOwned ==
  /\ open = Owned(partial) \cup Owned(ring)
  /\ Owned(partial) \cap Owned(ring) = {}
  /\ \A r \in {partial, ring} : \A s, t \in DOMAIN r.slots : r.slots[s] = r.slots[t] => s = t

(* A picture is only ever lent from a ring that is whole, all of whose slots  *)
(* were announced with the one descriptor the encoder was built for.          *)
LentFromAWholeRing ==
  stage \in {"frames", "lent"} =>
    /\ Full(ring) /\ DOMAIN ring.slots = 0 .. ring.count - 1
    /\ \A s \in DOMAIN ring.slots : made[ring.slots[s]] = ring.picture
    /\ stage = "lent" => lent \in DOMAIN ring.slots

(* A ring cannot be announced for ever: every header that is accepted fills   *)
(* one more slot, so reading one ends, with a ring or with an error.          *)
Missing == IF partial.count = 0 THEN MAX_SLOTS + 1 ELSE partial.count - Cardinality(DOMAIN partial.slots)
RingReadingProgresses ==
  [][stage = "collecting" /\ stage' = "collecting" => Missing' < Missing]_socketVars
=============================================================================
