---------------------------- MODULE StreamProofs ----------------------------
(***************************************************************************)
(* What Stream keeps true for every number of pages and sockets, every     *)
(* depth of the queues, every schedule of key frames and every number of   *)
(* faults.                                                                 *)
(*                                                                         *)
(* ChainUnbroken is not inductive: that no picture with a missing          *)
(* reference enters a queue rests on ChainInv, what `resyncing` stands     *)
(* for.  OwnStreamReadable also needs to know where the pictures are that  *)
(* no key frame precedes (PipeInv), and that the page, when it has thrown  *)
(* a message away, is waiting for a key frame or has no decoder (PageInv). *)
(***************************************************************************)
EXTENDS Stream, TLAPS

OnlyEarly(s) == \A i \in 1..Len(s) : s[i] = "early"
NoEarly(s) == \A i \in 1..Len(s) : s[i] # "early"
EarlyFirst(s) == \A i, j \in 1..Len(s) : i < j /\ s[j] = "early" => s[i] = "early"

\* What resyncing means: a viewer that is not waiting for a key frame, and has
\* had one, was given the last picture encoded.
ChainInv == \A c \in Conns : listed[c] /\ keyed[c] /\ ~resyncing[c] => chained[c]

\* What a thread, its place in the list and its two queues say of each other.
PlaceInv(c) ==
    /\ listed[c] => pc[c] \notin {"free", "hello"}
    /\ keyed[c] => listed[c]
    /\ pc[c] \in {"free", "hello", "gone"} => queue[c] = <<>>
    /\ pc[c] \in {"free", "hello"} => wire[c] = <<>>

\* Pictures nobody can decode come before the first key frame of the pipe,
\* which is the channel behind the wire.
PipeInv(c) ==
    /\ EarlyFirst(queue[c]) /\ EarlyFirst(wire[c])
    /\ NoEarly(queue[c]) \/ OnlyEarly(wire[c])
    /\ ~keyed[c] /\ pc[c] # "gone" => OnlyEarly(queue[c]) /\ OnlyEarly(wire[c])

\* A connection that has brought its page a key frame.
Opened(c) == /\ pc[c] \notin {"free", "hello"}
             /\ NoEarly(wire[c]) /\ NoEarly(queue[c])
             /\ keyed[c] \/ pc[c] = "gone"

\* A page listens to its own socket, and a decoder that was given a key frame of
\* that socket is in step with it or waits for the next key frame.
PageInv(p) ==
    /\ sock[p] = NoConn => ~own[p]
    /\ sock[p] # NoConn => pc[sock[p]] # "free" /\ (own[p] => Opened(sock[p]))
    /\ own[p] /\ decoding[p] => ~garbled[p] /\ (awaitingKey[p] \/ linked[p])

\* The inductive invariant.
Inv == /\ TypeOK /\ ChainInv /\ ChainUnbroken
       /\ \A c \in Conns : PlaceInv(c) /\ PipeInv(c)
       /\ \A p \in Pages : PageInv(p)

-----------------------------------------------------------------------------
(* Types. *)

USE DEF workerVars, flagVars, viewerVars, linkVars, connVars, decoderVars, pageVars, vars

\* The steps that touch neither the frame loop nor its requests.
Aside ==
    \/ \E c \in Conns : Push(c) \/ Write(c) \/ KeepAlive(c) \/ WriteFails(c) \/ Cut(c)
    \/ \E p \in Pages : \/ onclose(p) \/ PageCools(p) \/ onMessage(p)
                        \/ Hide(p) \/ Show(p) \/ restartDecoder(p)
                        \/ watchDecoder(p) \/ watchSilence(p)
                        \/ \E c \in Conns : connect(p, c) \/ Replace(p, c)

LEMMA NextCases ==
    ASSUME [Next]_vars
    PROVE  \/ watchers \/ TakeRequests \/ send \/ LimiterCools
           \/ (\E c \in Conns : Announce(c) \/ Read(c))
           \/ Aside \/ UNCHANGED vars
  BY DEF Next, Aside

LEMMA AsideKeeps == ASSUME Aside PROVE UNCHANGED <<workerVars, flagVars>>
<1>1. ASSUME NEW c \in Conns,
             Push(c) \/ Write(c) \/ KeepAlive(c) \/ WriteFails(c) \/ Cut(c)
      PROVE  UNCHANGED <<workerVars, flagVars>>
  BY <1>1 DEF Push, Write, KeepAlive, WriteFails, Cut
<1>2. ASSUME NEW p \in Pages, \/ onclose(p) \/ PageCools(p) \/ onMessage(p)
                              \/ Hide(p) \/ Show(p) \/ restartDecoder(p)
                              \/ watchDecoder(p) \/ watchSilence(p)
      PROVE  UNCHANGED <<workerVars, flagVars>>
  BY <1>2 DEF onclose, PageCools, onMessage, Hide, Show, restartDecoder, watchDecoder,
     watchSilence
<1>3. ASSUME NEW p \in Pages, NEW c \in Conns, connect(p, c) \/ Replace(p, c)
      PROVE  UNCHANGED <<workerVars, flagVars>>
  BY <1>3 DEF connect, Replace
<1> QED
  BY <1>1, <1>2, <1>3 DEF Aside

LEMMA WorkerTypes == ASSUME WorkerOK, [Next]_vars PROVE WorkerOK'
<1>1. CASE watchers
  <2>1. wanted' \in BOOLEAN
    BY <1>1 DEF watchers
  <2> QED
    BY <1>1, <2>1 DEF watchers, WorkerOK
<1>2. CASE TakeRequests
  <2>1. forced' \in BOOLEAN
    BY <1>2 DEF TakeRequests
  <2> QED
    BY <1>2, <2>1 DEF TakeRequests, WorkerOK
<1>3. CASE send
  <2>1. sinceKey' \in 0..GOP
    <3>1. CASE IsKey
      <4>1. sinceKey' = 1 \/ sinceKey' = sinceKey
        BY <1>3, <3>1, Zenon DEF send
      <4> QED
        BY <4>1, SizeAssumption DEF WorkerOK
    <3>2. CASE ~IsKey
      <4>1. sinceKey < GOP
        BY <3>2, SizeAssumption DEF IsKey, WorkerOK
      <4> QED
        BY <1>3, <3>2, <4>1, SizeAssumption DEF send, WorkerOK
    <3> QED
      BY <3>1, <3>2
  <2>2. forced' \in BOOLEAN
    BY <1>3 DEF send, WorkerOK
  <2> QED
    BY <1>3, <2>1, <2>2 DEF send, WorkerOK
<1>4. CASE LimiterCools
  BY <1>4 DEF LimiterCools, WorkerOK
<1>5. ASSUME NEW c \in Conns, Announce(c) \/ Read(c) PROVE WorkerOK'
  BY <1>5 DEF Announce, Read, WorkerOK
<1>6. CASE Aside
  BY <1>6, AsideKeeps DEF WorkerOK
<1>7. CASE UNCHANGED vars
  BY <1>7 DEF WorkerOK
<1> QED
  BY <1>1, <1>2, <1>3, <1>4, <1>5, <1>6, <1>7, NextCases

LEMMA FlagTypes == ASSUME FlagsOK, [Next]_vars PROVE FlagsOK'
<1>1. CASE watchers
  BY <1>1 DEF watchers, FlagsOK
<1>2. CASE TakeRequests
  BY <1>2 DEF TakeRequests, FlagsOK
<1>3. CASE send
  BY <1>3 DEF send, deliver, ask_for_key_frame, FlagsOK
<1>4. CASE LimiterCools
  BY <1>4 DEF LimiterCools, FlagsOK
<1>5. ASSUME NEW c \in Conns, Announce(c) \/ Read(c) PROVE FlagsOK'
  BY <1>5 DEF Announce, Read, ask_for_key_frame, FlagsOK
<1>6. CASE Aside
  BY <1>6, AsideKeeps DEF FlagsOK
<1>7. CASE UNCHANGED vars
  BY <1>7 DEF FlagsOK
<1> QED
  BY <1>1, <1>2, <1>3, <1>4, <1>5, <1>6, <1>7, NextCases

LEMMA MarkType == ASSUME NEW c \in Conns, NEW key PROVE Mark(c, key) \in Marks
  BY DEF Mark, Marks

LEMMA SeqFacts ==
    ASSUME NEW s \in Seq(Marks), NEW m \in Marks
    PROVE  /\ Append(s, m) \in Seq(Marks)
           /\ Len(Append(s, m)) = Len(s) + 1 /\ Append(s, m)[Len(s) + 1] = m
           /\ \A i \in 1..Len(s) : Append(s, m)[i] = s[i]
           /\ s # <<>> => /\ Tail(s) \in Seq(Marks) /\ Head(s) = s[1]
                          /\ Head(s) \in Marks
                          /\ Len(s) \in Nat \ {0} /\ Len(Tail(s)) = Len(s) - 1
                          /\ \A i \in 1..(Len(s) - 1) : Tail(s)[i] = s[i + 1]
           /\ <<>> \in Seq(Marks) /\ Len(s) \in Nat
  OBVIOUS

LEMMA EmptySeq == <<>> \in Seq(Marks)
  OBVIOUS

LEMMA ViewerTypes == ASSUME ViewersOK, LinksOK, [Next]_vars PROVE ViewersOK'
<1> USE DEF ViewersOK, PCs
<1>1. CASE watchers \/ TakeRequests \/ LimiterCools \/ UNCHANGED vars
  BY <1>1 DEF watchers, TakeRequests, LimiterCools
<1>2. CASE send
  <2>1. CASE ~wanted
    BY <1>2, <2>1 DEF send
  <2>2. CASE wanted
    <3> PICK key : deliver(key) /\ pc' = pc
      BY <1>2, <2>2 DEF send
    <3>1. queue' \in [Conns -> Seq(Marks)]
      BY MarkType, SeqFacts DEF deliver
    <3>2. listed' \in [Conns -> BOOLEAN] /\ resyncing' \in [Conns -> BOOLEAN]
      BY DEF deliver, Refuses
    <3>3. keyed' \in [Conns -> BOOLEAN] /\ chained' \in [Conns -> BOOLEAN]
      BY DEF deliver, Takes
    <3> QED
      BY <3>1, <3>2, <3>3
  <2> QED
    BY <2>1, <2>2
<1>3. ASSUME NEW c \in Conns, Announce(c) \/ Push(c) \/ KeepAlive(c) \/ Cut(c)
      PROVE  ViewersOK'
  BY <1>3 DEF Announce, Push, KeepAlive, Cut
<1>4. ASSUME NEW c \in Conns, Read(c) \/ WriteFails(c) PROVE ViewersOK'
  <2>1. \/ queue' = queue /\ pc' = [pc EXCEPT ![c] = "write"]
        \/ queue' = [queue EXCEPT ![c] = <<>>] /\ pc' = [pc EXCEPT ![c] = "gone"]
    BY <1>4 DEF Read, WriteFails, Quit
  <2>2. UNCHANGED viewerVars
    BY <1>4 DEF Read, WriteFails
  <2> QED
    BY <2>1, <2>2, EmptySeq
<1>5. ASSUME NEW c \in Conns, Write(c) PROVE ViewersOK'
  BY <1>5, SeqFacts DEF Write
<1>6. ASSUME NEW p \in Pages, \/ onclose(p) \/ PageCools(p) \/ onMessage(p)
                              \/ Hide(p) \/ Show(p) \/ restartDecoder(p)
                              \/ watchDecoder(p) \/ watchSilence(p)
      PROVE  ViewersOK'
  BY <1>6 DEF onclose, PageCools, onMessage, Hide, Show, restartDecoder, watchDecoder,
     watchSilence
<1>7. ASSUME NEW p \in Pages, NEW c \in Conns, connect(p, c) \/ Replace(p, c)
      PROVE  ViewersOK'
  BY <1>7 DEF connect, Replace, Open
<1> QED
  BY <1>1, <1>2, <1>3, <1>4, <1>5, <1>6, <1>7, NextCases DEF Aside

LEMMA LinkTypes == ASSUME ViewersOK, LinksOK, PagesOK, [Next]_vars PROVE LinksOK'
<1> USE DEF LinksOK
<1>1. CASE watchers \/ TakeRequests \/ LimiterCools \/ send \/ UNCHANGED vars
  BY <1>1 DEF watchers, TakeRequests, LimiterCools, send
<1>2. ASSUME NEW c \in Conns, Announce(c) \/ Push(c) \/ KeepAlive(c)
      PROVE  LinksOK'
  BY <1>2 DEF Announce, Push, KeepAlive
<1>3. ASSUME NEW c \in Conns, Read(c) \/ WriteFails(c) \/ Cut(c) PROVE LinksOK'
  <2>1. CASE Read(c)
    BY <2>1 DEF Read, Quit
  <2>2. CASE WriteFails(c)
    BY <2>2 DEF WriteFails, Quit
  <2>3. CASE Cut(c)
    BY <2>3, EmptySeq DEF Cut
  <2> QED
    BY <1>3, <2>1, <2>2, <2>3
<1>4. ASSUME NEW c \in Conns, Write(c) PROVE LinksOK'
  BY <1>4, SeqFacts DEF Write, ViewersOK
<1>5. ASSUME NEW p \in Pages, onclose(p) \/ PageCools(p) \/ Hide(p) \/ Show(p)
      PROVE  LinksOK'
  BY <1>5 DEF onclose, PageCools, Hide, Show
<1>6. ASSUME NEW p \in Pages, onMessage(p) PROVE LinksOK'
  <2>1. sock[p] \in Conns
    BY <1>6 DEF onMessage, Listens, PagesOK
  <2>2. wire' \in [Conns -> Seq(Marks)]
    BY <1>6, <2>1, SeqFacts DEF onMessage
  <2>3. asks' \in [Conns -> BOOLEAN]
    BY <1>6, <2>1 DEF onMessage, Handle, Skips, Feeds, Ask
  <2> QED
    BY <1>6, <2>2, <2>3 DEF onMessage
<1>7. ASSUME NEW p \in Pages, restartDecoder(p) PROVE LinksOK'
  BY <1>7 DEF restartDecoder, Ask
<1>8. ASSUME NEW p \in Pages, watchDecoder(p) \/ watchSilence(p) PROVE LinksOK'
  <2>1. sock[p] \in Conns
    BY <1>8 DEF watchDecoder, watchSilence, Listens, PagesOK
  <2>2. GiveUp(p) /\ UNCHANGED <<asks, cut>>
    BY <1>8 DEF watchDecoder, watchSilence
  <2>3. wire' \in [Conns -> Seq(Marks)]
    BY <2>1, <2>2, EmptySeq DEF GiveUp
  <2>4. bye' \in [Conns -> BOOLEAN]
    BY <2>1, <2>2 DEF GiveUp
  <2> QED
    BY <2>2, <2>3, <2>4
<1>9. ASSUME NEW p \in Pages, NEW c \in Conns, connect(p, c) \/ Replace(p, c)
      PROVE  LinksOK'
  <2>1. Open(p, c)
    BY <1>9 DEF connect, Replace
  <2> QED
    BY <2>1, EmptySeq DEF Open
<1> QED
  BY <1>1, <1>2, <1>3, <1>4, <1>5, <1>6, <1>7, <1>8, <1>9, NextCases DEF Aside

LEMMA PageTypes == ASSUME PagesOK, [Next]_vars PROVE PagesOK'
<1> USE DEF PagesOK
<1>1. CASE watchers \/ TakeRequests \/ LimiterCools \/ send \/ UNCHANGED vars
  BY <1>1 DEF watchers, TakeRequests, LimiterCools, send
<1>2. ASSUME NEW c \in Conns, \/ Announce(c) \/ Push(c) \/ KeepAlive(c) \/ Read(c)
                              \/ WriteFails(c) \/ Cut(c) \/ Write(c)
      PROVE  PagesOK'
  BY <1>2 DEF Announce, Push, KeepAlive, Read, WriteFails, Cut, Write
<1>3. ASSUME NEW p \in Pages, onclose(p) \/ PageCools(p) \/ Hide(p) \/ Show(p)
      PROVE  PagesOK'
  BY <1>3 DEF onclose, PageCools, Hide, Show
<1>4. ASSUME NEW p \in Pages, onMessage(p) PROVE PagesOK'
  <2> PICK busy \in BOOLEAN : Handle(p, Head(wire[sock[p]]), busy)
    BY <1>4 DEF onMessage
  <2> DEFINE mark == Head(wire[sock[p]])
  <2>1. ASSUME NEW awaits \in BOOLEAN, NEW why \in BOOLEAN, Skips(p, awaits, why)
        PROVE  PagesOK'
    BY <1>4, <2>1 DEF onMessage, Skips, Ask
  <2>2. ASSUME Feeds(p, mark) PROVE PagesOK'
    BY <1>4, <2>2 DEF onMessage, Feeds
  <2> QED
    BY <2>1, <2>2 DEF Handle
<1>5. ASSUME NEW p \in Pages, restartDecoder(p) PROVE PagesOK'
  BY <1>5 DEF restartDecoder, Ask
<1>6. ASSUME NEW p \in Pages, watchDecoder(p) \/ watchSilence(p) PROVE PagesOK'
  BY <1>6 DEF watchDecoder, watchSilence, GiveUp
<1>7. ASSUME NEW p \in Pages, NEW c \in Conns, connect(p, c) \/ Replace(p, c)
      PROVE  PagesOK'
  <2>1. Open(p, c) /\ UNCHANGED <<painting, decoding, awaitingKey, garbled, goneSince, asking>>
    BY <1>7 DEF connect, Replace
  <2>2. \/ UNCHANGED <<own, linked>>
        \/ own' = [own EXCEPT ![p] = FALSE] /\ linked' = [linked EXCEPT ![p] = FALSE]
    BY <1>7 DEF connect, Replace
  <2> QED
    BY <2>1, <2>2 DEF Open
<1> QED
  BY <1>1, <1>2, <1>3, <1>4, <1>5, <1>6, <1>7, NextCases DEF Aside

LEMMA FaultTypes == ASSUME faults \in Nat, [Next]_vars PROVE faults' \in Nat
<1>1. CASE watchers \/ TakeRequests \/ LimiterCools \/ send \/ UNCHANGED vars
  BY <1>1 DEF watchers, TakeRequests, LimiterCools, send
<1>2. ASSUME NEW c \in Conns, \/ Announce(c) \/ Push(c) \/ KeepAlive(c) \/ Read(c)
                              \/ WriteFails(c) \/ Cut(c) \/ Write(c)
      PROVE  faults' \in Nat
  BY <1>2 DEF Announce, Push, KeepAlive, Read, WriteFails, Cut, Write
<1>3. ASSUME NEW p \in Pages, \/ onclose(p) \/ PageCools(p) \/ onMessage(p)
                              \/ Hide(p) \/ Show(p) \/ restartDecoder(p)
                              \/ watchDecoder(p) \/ watchSilence(p)
      PROVE  faults' \in Nat
  <2>1. \/ faults' = faults \/ faults' = faults + 1
    BY <1>3 DEF onclose, PageCools, onMessage, Hide, Show, restartDecoder, watchDecoder,
       watchSilence
  <2> QED
    BY <2>1
<1>4. ASSUME NEW p \in Pages, NEW c \in Conns, connect(p, c) \/ Replace(p, c)
      PROVE  faults' \in Nat
  BY <1>4 DEF connect, Replace
<1> QED
  BY <1>1, <1>2, <1>3, <1>4, NextCases DEF Aside

LEMMA StreamTypes == ASSUME TypeOK, [Next]_vars PROVE TypeOK'
  BY WorkerTypes, FlagTypes, ViewerTypes, LinkTypes, PageTypes, FaultTypes DEF TypeOK

-----------------------------------------------------------------------------
(* What one step does to the two queues of a connection. *)

Stays(c) == /\ queue'[c] = queue[c] /\ wire'[c] = wire[c] /\ keyed'[c] = keyed[c]
            /\ pc'[c] = "gone" <=> pc[c] = "gone"
            /\ pc'[c] \in {"free", "hello"} <=> pc[c] \in {"free", "hello"}
            /\ pc'[c] = "free" <=> pc[c] = "free"
Gets(c) == \E key \in BOOLEAN :
              /\ Takes(c, key) /\ queue'[c] = Append(queue[c], Mark(c, key))
              /\ keyed'[c] = (keyed[c] \/ key)
              /\ wire'[c] = wire[c] /\ pc'[c] = pc[c]
Forgotten(c) == /\ queue'[c] = queue[c] /\ wire'[c] = wire[c]
                /\ pc[c] = "gone" /\ pc'[c] = "gone"
Writes(c) == /\ queue[c] # <<>> /\ queue'[c] = Tail(queue[c])
             /\ wire'[c] \in {wire[c], Append(wire[c], Head(queue[c]))}
             /\ keyed'[c] = keyed[c] /\ pc[c] = "write" /\ pc'[c] = "read"
Arrives(c) == /\ wire[c] # <<>> /\ wire'[c] = Tail(wire[c])
              /\ queue'[c] = queue[c] /\ keyed'[c] = keyed[c] /\ pc'[c] = pc[c]
Quits(c) == /\ queue'[c] = <<>> /\ wire'[c] = wire[c] /\ keyed'[c] = keyed[c]
            /\ pc[c] \in {"write", "read"} /\ pc'[c] = "gone"
Loses(c) == /\ wire'[c] = <<>> /\ queue'[c] = queue[c] /\ keyed'[c] = keyed[c]
            /\ pc'[c] = pc[c]
Starts(c) == /\ queue[c] = <<>> /\ queue'[c] = <<>> /\ wire'[c] = <<>> /\ ~keyed'[c]
             /\ pc[c] = "hello" \/ Free(c)
             /\ pc'[c] \in {"hello", "joining"}
Moves(c) == \/ Stays(c) \/ Gets(c) \/ Forgotten(c) \/ Writes(c) \/ Arrives(c)
            \/ Quits(c) \/ Loses(c) \/ Starts(c)

LEMMA Delivery ==
    ASSUME TypeOK, NEW key \in BOOLEAN, deliver(key), pc' = pc, wire' = wire, NEW c \in Conns
    PROVE  Stays(c) \/ Gets(c) \/ Forgotten(c)
<1> USE DEF TypeOK, ViewersOK
<1>1. CASE Takes(c, key)
  <2>1. ~Departed(c, key)
    BY <1>1 DEF Takes, Departed
  <2>2. keyed'[c] = (keyed[c] \/ key)
    BY <1>1, <2>1 DEF deliver
  <2>3. queue'[c] = Append(queue[c], Mark(c, key))
    BY <1>1 DEF deliver
  <2> QED
    BY <1>1, <2>2, <2>3 DEF Gets
<1>2. CASE Departed(c, key)
  <2>1. queue'[c] = queue[c]
    BY <1>2 DEF deliver, Takes, Departed
  <2> QED
    BY <1>2, <2>1 DEF Departed, Forgotten
<1>3. CASE ~Takes(c, key) /\ ~Departed(c, key)
  <2>1. queue'[c] = queue[c] /\ keyed'[c] = keyed[c]
    BY <1>3 DEF deliver
  <2> QED
    BY <2>1 DEF Stays
<1> QED
  BY <1>1, <1>2, <1>3

LEMMA EveryMove ==
    ASSUME TypeOK, \A d \in Conns : PlaceInv(d), [Next]_vars, NEW c \in Conns
    PROVE  Moves(c)
<1> USE DEF TypeOK, ViewersOK, LinksOK, PagesOK
<1>1. CASE watchers \/ TakeRequests \/ LimiterCools \/ UNCHANGED vars
  BY <1>1 DEF watchers, TakeRequests, LimiterCools, Moves, Stays
<1>2. CASE send
  <2>1. CASE ~wanted
    BY <1>2, <2>1 DEF send, Moves, Stays
  <2>2. CASE wanted
    <3>1. deliver(IsKey) /\ pc' = pc /\ wire' = wire
      BY <1>2, <2>2 DEF send
    <3>2. IsKey \in BOOLEAN
      BY DEF IsKey
    <3> QED
      BY <3>1, <3>2, Delivery DEF Moves
  <2> QED
    BY <2>1, <2>2
<1>3. ASSUME NEW d \in Conns, Announce(d) \/ KeepAlive(d) PROVE Moves(c)
  BY <1>3 DEF Announce, KeepAlive, Moves, Stays
<1>4. ASSUME NEW d \in Conns, Push(d) PROVE Moves(c)
  <2>1. CASE c = d
    BY <1>4, <2>1 DEF Push, Moves, Starts, PlaceInv
  <2>2. CASE c # d
    BY <1>4, <2>2 DEF Push, Moves, Stays
  <2> QED
    BY <2>1, <2>2
<1>5. ASSUME NEW d \in Conns, Read(d) \/ WriteFails(d) PROVE Moves(c)
  <2>1. /\ \/ queue' = queue /\ pc' = [pc EXCEPT ![d] = "write"]
           \/ queue' = [queue EXCEPT ![d] = <<>>] /\ pc' = [pc EXCEPT ![d] = "gone"]
        /\ keyed' = keyed /\ wire' = wire /\ pc[d] \in {"read", "write"}
    BY <1>5 DEF Read, WriteFails, Quit
  <2> QED
    BY <2>1 DEF Moves, Stays, Quits
<1>6. ASSUME NEW d \in Conns, Write(d) PROVE Moves(c)
  <2>1. CASE c = d
    <3>1. wire'[d] \in {wire[d], Append(wire[d], Head(queue[d]))}
      BY <1>6 DEF Write
    <3> QED
      BY <1>6, <2>1, <3>1 DEF Write, Moves, Writes
  <2>2. CASE c # d
    <3>1. wire'[c] = wire[c] /\ queue'[c] = queue[c] /\ pc'[c] = pc[c]
      BY <1>6, <2>2 DEF Write
    <3> QED
      BY <1>6, <3>1 DEF Write, Moves, Stays
  <2> QED
    BY <2>1, <2>2
<1>7. ASSUME NEW d \in Conns, Cut(d) PROVE Moves(c)
  BY <1>7 DEF Cut, Moves, Stays, Loses
<1>8. ASSUME NEW p \in Pages, \/ onclose(p) \/ PageCools(p) \/ Hide(p) \/ Show(p)
                              \/ restartDecoder(p)
      PROVE  Moves(c)
  BY <1>8 DEF onclose, PageCools, Hide, Show, restartDecoder, Moves, Stays
<1>9. ASSUME NEW p \in Pages, onMessage(p) PROVE Moves(c)
  <2>1. /\ wire' = [wire EXCEPT ![sock[p]] = Tail(@)] /\ wire[sock[p]] # <<>>
        /\ queue' = queue /\ keyed' = keyed /\ pc' = pc
    BY <1>9 DEF onMessage
  <2> QED
    BY <2>1 DEF Moves, Stays, Arrives
<1>10. ASSUME NEW p \in Pages, watchDecoder(p) \/ watchSilence(p) PROVE Moves(c)
  <2>1. wire' = [wire EXCEPT ![sock[p]] = <<>>] /\ queue' = queue /\ keyed' = keyed /\ pc' = pc
    BY <1>10 DEF watchDecoder, watchSilence, GiveUp
  <2> QED
    BY <2>1 DEF Moves, Stays, Loses
<1>11. ASSUME NEW p \in Pages, NEW d \in Conns, connect(p, d) \/ Replace(p, d)
       PROVE  Moves(c)
  <2>1. /\ Free(d) /\ pc' = [pc EXCEPT ![d] = "hello"] /\ wire' = [wire EXCEPT ![d] = <<>>]
        /\ queue' = queue /\ keyed' = keyed
    BY <1>11 DEF connect, Replace, Open
  <2>2. queue[d] = <<>> /\ ~keyed[d]
    BY <2>1 DEF Free, PlaceInv
  <2> QED
    BY <2>1, <2>2 DEF Moves, Stays, Starts
<1> QED
  BY <1>1, <1>2, <1>3, <1>4, <1>5, <1>6, <1>7, <1>8, <1>9, <1>10, <1>11, NextCases DEF Aside

-----------------------------------------------------------------------------
(* The chain each viewer is given. *)

LEMMA ChainStep == ASSUME TypeOK, ChainInv, [Next]_vars PROVE ChainInv'
<1> USE DEF TypeOK, ViewersOK
<1>1. CASE send
  <2>1. CASE ~wanted
    BY <1>1, <2>1 DEF send, ChainInv
  <2>2. CASE wanted
    <3>1. deliver(IsKey)
      BY <1>1, <2>2 DEF send
    <3> SUFFICES ASSUME NEW c \in Conns, listed'[c], keyed'[c], ~resyncing'[c]
                 PROVE  chained'[c]
      BY DEF ChainInv
    <3>2. listed[c] /\ ~Departed(c, IsKey)
      BY <3>1 DEF deliver
    <3>3. CASE Offered(c, IsKey)
      <4>1. ~Refuses(c, IsKey)
        BY <3>1, <3>3 DEF deliver
      <4>2. Len(queue[c]) \in Nat
        BY SeqFacts
      <4>3. Takes(c, IsKey)
        BY <3>2, <3>3, <4>1, <4>2, SizeAssumption DEF Takes, Refuses, Departed
      <4> QED
        BY <3>1, <4>3 DEF deliver
    <3>4. CASE ~Offered(c, IsKey)
      <4>1. resyncing[c]
        BY <3>2, <3>4 DEF Offered
      <4>2. resyncing'[c] = resyncing[c]
        BY <3>1, <3>4 DEF deliver
      <4> QED
        BY <4>1, <4>2
    <3> QED
      BY <3>3, <3>4
  <2> QED
    BY <2>1, <2>2
<1>2. ASSUME NEW d \in Conns, Push(d) PROVE ChainInv'
  BY <1>2 DEF Push, ChainInv
<1>3. CASE watchers \/ TakeRequests \/ LimiterCools \/ UNCHANGED vars
  BY <1>3 DEF watchers, TakeRequests, LimiterCools, ChainInv
<1>4. ASSUME NEW d \in Conns, \/ Announce(d) \/ KeepAlive(d) \/ Read(d) \/ Write(d)
                              \/ WriteFails(d) \/ Cut(d)
      PROVE  ChainInv'
  BY <1>4 DEF Announce, KeepAlive, Read, Write, WriteFails, Cut, ChainInv
<1>5. ASSUME NEW p \in Pages, \/ onclose(p) \/ PageCools(p) \/ onMessage(p)
                              \/ Hide(p) \/ Show(p) \/ restartDecoder(p)
                              \/ watchDecoder(p) \/ watchSilence(p)
      PROVE  ChainInv'
  BY <1>5 DEF onclose, PageCools, onMessage, Hide, Show, restartDecoder, watchDecoder,
     watchSilence, ChainInv
<1>6. ASSUME NEW p \in Pages, NEW c \in Conns, connect(p, c) \/ Replace(p, c)
      PROVE  ChainInv'
  BY <1>6 DEF connect, Replace, ChainInv
<1> QED
  BY <1>1, <1>2, <1>3, <1>4, <1>5, <1>6, NextCases DEF Aside

\* A picture that enters a queue is never one whose reference was kept from it.
LEMMA NoGapEnters ==
    ASSUME TypeOK, ChainInv, NEW c \in Conns, NEW key \in BOOLEAN, Takes(c, key)
    PROVE  Mark(c, key) # "gap"
<1>1. ~key /\ keyed[c] => chained[c]
  BY DEF ChainInv, Takes, Offered
<1> QED
  BY <1>1 DEF Mark

LEMMA UnbrokenStep ==
    ASSUME TypeOK, ChainInv, ChainUnbroken, NEW c \in Conns, Moves(c)
    PROVE  NoGapIn(queue'[c]) /\ NoGapIn(wire'[c])
<1> DEFINE q == queue[c]
           w == wire[c]
<1>1. q \in Seq(Marks) /\ w \in Seq(Marks)
  BY DEF TypeOK, ViewersOK, LinksOK
<1>2. NoGapIn(q) /\ NoGapIn(w) /\ NoGapIn(<<>>)
  BY DEF ChainUnbroken, NoGapIn
<1>3. ASSUME NEW s \in Seq(Marks), NoGapIn(s), NEW m \in Marks, m # "gap"
      PROVE  NoGapIn(Append(s, m))
  BY <1>3 DEF NoGapIn
<1>4. ASSUME NEW s \in Seq(Marks), NoGapIn(s), s # <<>>
      PROVE  NoGapIn(Tail(s)) /\ Head(s) # "gap" /\ Head(s) \in Marks
  BY <1>4 DEF NoGapIn
<1> HIDE DEF q, w
<1>5. CASE Stays(c) \/ Forgotten(c) \/ Quits(c) \/ Loses(c) \/ Starts(c)
  BY <1>2, <1>5 DEF Stays, Forgotten, Quits, Loses, Starts, q, w
<1>6. CASE Gets(c)
  <2> PICK key \in BOOLEAN : /\ Takes(c, key) /\ queue'[c] = Append(q, Mark(c, key))
                             /\ wire'[c] = w
    BY <1>6 DEF Gets, q, w
  <2>1. Mark(c, key) # "gap" /\ Mark(c, key) \in Marks
    BY NoGapEnters, MarkType
  <2> QED
    BY <1>1, <1>2, <1>3, <2>1
<1>7. CASE Writes(c)
  <2>1. q # <<>> /\ queue'[c] = Tail(q) /\ wire'[c] \in {w, Append(w, Head(q))}
    BY <1>7 DEF Writes, q, w
  <2>2. NoGapIn(Tail(q)) /\ Head(q) # "gap" /\ Head(q) \in Marks
    BY <1>1, <1>2, <1>4, <2>1
  <2> QED
    BY <1>1, <1>2, <1>3, <2>1, <2>2
<1>8. CASE Arrives(c)
  <2>1. w # <<>> /\ wire'[c] = Tail(w) /\ queue'[c] = q
    BY <1>8 DEF Arrives, q, w
  <2> QED
    BY <1>1, <1>2, <1>4, <2>1
<1> QED
  BY <1>5, <1>6, <1>7, <1>8 DEF Moves

LEMMA PlaceStep ==
    ASSUME TypeOK, \A d \in Conns : PlaceInv(d), [Next]_vars, NEW c \in Conns
    PROVE  PlaceInv(c)'
<1> USE DEF TypeOK, ViewersOK, LinksOK, PagesOK, PlaceInv
<1>1. CASE send
  <2>1. CASE ~wanted
    BY <1>1, <2>1 DEF send
  <2>2. CASE wanted
    <3>1. deliver(IsKey) /\ pc' = pc /\ wire' = wire
      BY <1>1, <2>2 DEF send
    <3>2. listed'[c] => listed[c]
      BY <3>1 DEF deliver
    <3>3. keyed'[c] => listed'[c]
      BY <3>1 DEF deliver, Takes, Departed, Offered
    <3>4. pc[c] \in {"free", "hello", "gone"} => queue'[c] = queue[c]
      <4>1. pc[c] \in {"free", "hello", "gone"} => ~Takes(c, IsKey)
        BY DEF Takes, Offered
      <4> QED
        BY <3>1, <4>1 DEF deliver
    <3> QED
      BY <3>1, <3>2, <3>3, <3>4
  <2> QED
    BY <2>1, <2>2
<1>2. ASSUME NEW d \in Conns, Push(d) PROVE PlaceInv(c)'
  BY <1>2 DEF Push
<1>3. CASE watchers \/ TakeRequests \/ LimiterCools \/ UNCHANGED vars
  BY <1>3 DEF watchers, TakeRequests, LimiterCools
<1>4. ASSUME NEW d \in Conns, Announce(d) \/ KeepAlive(d) PROVE PlaceInv(c)'
  BY <1>4 DEF Announce, KeepAlive
<1>5. ASSUME NEW d \in Conns, Read(d) \/ WriteFails(d) PROVE PlaceInv(c)'
  <2>1. /\ \/ queue' = queue /\ pc' = [pc EXCEPT ![d] = "write"]
           \/ queue' = [queue EXCEPT ![d] = <<>>] /\ pc' = [pc EXCEPT ![d] = "gone"]
        /\ UNCHANGED <<viewerVars, wire>> /\ pc[d] \in {"read", "write"}
    BY <1>5 DEF Read, WriteFails, Quit
  <2> QED
    BY <2>1
<1>6. ASSUME NEW d \in Conns, Write(d) PROVE PlaceInv(c)'
  <2>1. CASE c = d
    BY <1>6, <2>1 DEF Write
  <2>2. CASE c # d
    <3>1. wire'[c] = wire[c] /\ queue'[c] = queue[c] /\ pc'[c] = pc[c]
      BY <1>6, <2>2 DEF Write
    <3> QED
      BY <1>6, <3>1 DEF Write
  <2> QED
    BY <2>1, <2>2
<1>7. ASSUME NEW d \in Conns, Cut(d) PROVE PlaceInv(c)'
  BY <1>7 DEF Cut
<1>8. ASSUME NEW p \in Pages, \/ onclose(p) \/ PageCools(p) \/ Hide(p) \/ Show(p)
                              \/ restartDecoder(p)
      PROVE  PlaceInv(c)'
  BY <1>8 DEF onclose, PageCools, Hide, Show, restartDecoder
<1>9. ASSUME NEW p \in Pages, onMessage(p) PROVE PlaceInv(c)'
  <2>1. /\ wire' = [wire EXCEPT ![sock[p]] = Tail(@)] /\ wire[sock[p]] # <<>>
        /\ UNCHANGED <<queue, viewerVars, pc>>
    BY <1>9 DEF onMessage
  <2> QED
    BY <2>1
<1>10. ASSUME NEW p \in Pages, watchDecoder(p) \/ watchSilence(p) PROVE PlaceInv(c)'
  <2>1. /\ wire' = [wire EXCEPT ![sock[p]] = <<>>]
        /\ UNCHANGED <<queue, viewerVars, pc>>
    BY <1>10 DEF watchDecoder, watchSilence, GiveUp
  <2> QED
    BY <2>1
<1>11. ASSUME NEW p \in Pages, NEW d \in Conns, connect(p, d) \/ Replace(p, d)
       PROVE  PlaceInv(c)'
  <2>1. /\ Free(d) /\ pc' = [pc EXCEPT ![d] = "hello"] /\ wire' = [wire EXCEPT ![d] = <<>>]
        /\ UNCHANGED <<queue, viewerVars>>
    BY <1>11 DEF connect, Replace, Open
  <2> QED
    BY <2>1 DEF Free
<1> QED
  BY <1>1, <1>2, <1>3, <1>4, <1>5, <1>6, <1>7, <1>8, <1>9, <1>10, <1>11, NextCases DEF Aside

-----------------------------------------------------------------------------
(* Where the pictures nobody can decode are. *)

LEMMA EarlyAppend ==
    ASSUME NEW s \in Seq(Marks), NEW m \in Marks
    PROVE  /\ OnlyEarly(s) /\ m = "early" => OnlyEarly(Append(s, m))
           /\ NoEarly(s) /\ m # "early" => NoEarly(Append(s, m))
           /\ EarlyFirst(s) /\ (m = "early" => OnlyEarly(s)) => EarlyFirst(Append(s, m))
<1>1. /\ Len(s) \in Nat /\ Len(Append(s, m)) = Len(s) + 1
      /\ Append(s, m)[Len(s) + 1] = m
      /\ \A i \in 1..Len(s) : Append(s, m)[i] = s[i]
  OBVIOUS
<1> DEFINE t == Append(s, m)
           n == Len(s)
<1>2. n \in Nat /\ Len(t) = n + 1 /\ t[n + 1] = m /\ \A i \in 1..n : t[i] = s[i]
  BY <1>1
<1>3. ASSUME NEW i \in 1..(n + 1) PROVE i = n + 1 \/ i \in 1..n
  BY <1>2, <1>3
<1> HIDE DEF t
<1>4. OnlyEarly(s) /\ m = "early" => OnlyEarly(t)
  BY <1>2, <1>3 DEF OnlyEarly
<1>5. NoEarly(s) /\ m # "early" => NoEarly(t)
  BY <1>2, <1>3 DEF NoEarly
<1>6. ASSUME EarlyFirst(s), m = "early" => OnlyEarly(s) PROVE EarlyFirst(t)
  <2> SUFFICES ASSUME NEW i \in 1..(n + 1), NEW j \in 1..(n + 1), i < j, t[j] = "early"
               PROVE  t[i] = "early"
    BY <1>2 DEF EarlyFirst
  <2>1. i \in 1..n
    BY <1>2
  <2>2. CASE j = n + 1
    BY <1>2, <1>6, <2>1, <2>2 DEF OnlyEarly
  <2>3. CASE j \in 1..n
    BY <1>2, <1>6, <2>1, <2>3 DEF EarlyFirst
  <2> QED
    BY <1>3, <2>2, <2>3
<1> QED
  BY <1>4, <1>5, <1>6 DEF t

LEMMA EarlyTail ==
    ASSUME NEW s \in Seq(Marks), s # <<>>, EarlyFirst(s)
    PROVE  /\ Tail(s) \in Seq(Marks) /\ Head(s) \in Marks
           /\ EarlyFirst(Tail(s))
           /\ OnlyEarly(s) => OnlyEarly(Tail(s)) /\ Head(s) = "early"
           /\ NoEarly(s) => NoEarly(Tail(s)) /\ Head(s) # "early"
           /\ Head(s) # "early" => NoEarly(s)
<1> DEFINE n == Len(s)
<1>1. /\ n \in Nat \ {0} /\ Len(Tail(s)) = n - 1 /\ Head(s) = s[1]
      /\ \A i \in 1..(n - 1) : Tail(s)[i] = s[i + 1]
      /\ Tail(s) \in Seq(Marks) /\ Head(s) \in Marks
  OBVIOUS
<1>2. \A i \in 1..(n - 1) : i + 1 \in 1..n
  BY <1>1
<1>3. 1 \in 1..n
  BY <1>1
<1>4. OnlyEarly(s) => OnlyEarly(Tail(s)) /\ Head(s) = "early"
  BY <1>1, <1>2, <1>3 DEF OnlyEarly
<1>5. NoEarly(s) => NoEarly(Tail(s)) /\ Head(s) # "early"
  BY <1>1, <1>2, <1>3 DEF NoEarly
<1>6. EarlyFirst(Tail(s))
  <2> SUFFICES ASSUME NEW i \in 1..(n - 1), NEW j \in 1..(n - 1), i < j,
                      Tail(s)[j] = "early"
               PROVE  Tail(s)[i] = "early"
    BY <1>1 DEF EarlyFirst
  <2>1. i + 1 < j + 1 /\ i + 1 \in 1..n /\ j + 1 \in 1..n /\ s[j + 1] = "early"
    BY <1>1, <1>2
  <2>2. s[i + 1] = "early"
    BY <2>1 DEF EarlyFirst
  <2> QED
    BY <1>1, <2>2
<1>7. ASSUME Head(s) # "early", NEW j \in 1..n, s[j] = "early" PROVE FALSE
  <2>1. j # 1
    BY <1>1, <1>7
  <2>2. 1 < j
    BY <1>1, <2>1
  <2> QED
    BY <1>1, <1>3, <1>7, <2>2 DEF EarlyFirst
<1> QED
  BY <1>1, <1>4, <1>5, <1>6, <1>7 DEF NoEarly

LEMMA EarlyEmpty == OnlyEarly(<<>>) /\ NoEarly(<<>>) /\ EarlyFirst(<<>>)
  BY DEF OnlyEarly, NoEarly, EarlyFirst

LEMMA PipeStep ==
    ASSUME TypeOK, NEW c \in Conns, PipeInv(c), PlaceInv(c), Moves(c)
    PROVE  PipeInv(c)'
<1> DEFINE q == queue[c]
           w == wire[c]
           k == keyed[c]
<1>1. q \in Seq(Marks) /\ w \in Seq(Marks) /\ k \in BOOLEAN
  BY DEF TypeOK, ViewersOK, LinksOK
<1>2. /\ EarlyFirst(q) /\ EarlyFirst(w) /\ (NoEarly(q) \/ OnlyEarly(w))
      /\ ~k /\ pc[c] # "gone" => OnlyEarly(q) /\ OnlyEarly(w)
  BY DEF PipeInv
<1> DEFINE Goal == /\ EarlyFirst(queue'[c]) /\ EarlyFirst(wire'[c])
                   /\ NoEarly(queue'[c]) \/ OnlyEarly(wire'[c])
                   /\ ~keyed'[c] /\ pc'[c] # "gone" =>
                        OnlyEarly(queue'[c]) /\ OnlyEarly(wire'[c])
<1> SUFFICES Goal
  BY DEF PipeInv
<1>3. CASE Stays(c) \/ Forgotten(c)
  BY <1>2, <1>3 DEF Stays, Forgotten
<1>4. CASE Quits(c) \/ Loses(c) \/ Starts(c)
  BY <1>2, <1>4, EarlyEmpty DEF Quits, Loses, Starts
<1>5. CASE Gets(c)
  <2> PICK key \in BOOLEAN :
        /\ Takes(c, key) /\ queue'[c] = Append(q, Mark(c, key))
        /\ keyed'[c] = (k \/ key) /\ wire'[c] = w /\ pc'[c] = pc[c]
    BY <1>5 DEF Gets
  <2> DEFINE m == Mark(c, key)
  <2>1. m \in Marks /\ pc[c] # "gone"
    BY MarkType DEF Takes
  <2>2. m = "early" <=> ~key /\ ~k
    BY DEF Mark
  <2>3. queue'[c] = Append(q, m)
    OBVIOUS
  <2> HIDE DEF m, q, w, k
  <2>4. CASE m = "early"
    <3>1. OnlyEarly(q) /\ OnlyEarly(w)
      BY <1>1, <1>2, <2>1, <2>2, <2>4
    <3>2. EarlyFirst(Append(q, m)) /\ OnlyEarly(Append(q, m))
      BY <1>1, <1>2, <2>1, <2>4, <3>1, EarlyAppend
    <3> QED
      BY <1>2, <2>3, <3>1, <3>2
  <2>5. CASE m # "early"
    <3>1. EarlyFirst(Append(q, m)) /\ (NoEarly(q) => NoEarly(Append(q, m)))
      BY <1>1, <1>2, <2>1, <2>5, EarlyAppend
    <3>2. keyed'[c]
      BY <1>1, <2>2, <2>5
    <3> QED
      BY <1>2, <2>3, <3>1, <3>2
  <2> QED
    BY <2>4, <2>5
<1>6. CASE Writes(c)
  <2>1. /\ q # <<>> /\ queue'[c] = Tail(q) /\ wire'[c] \in {w, Append(w, Head(q))}
        /\ keyed'[c] = k /\ pc[c] = "write"
    BY <1>6 DEF Writes
  <2> DEFINE m == Head(q)
  <2> HIDE DEF q, w, k
  <2>2. /\ m \in Marks /\ EarlyFirst(Tail(q))
        /\ OnlyEarly(q) => OnlyEarly(Tail(q)) /\ m = "early"
        /\ NoEarly(q) => NoEarly(Tail(q)) /\ m # "early"
        /\ m # "early" => NoEarly(q)
    BY <1>1, <1>2, <2>1, EarlyTail
  <2>3. CASE wire'[c] = w
    BY <1>2, <2>1, <2>2, <2>3
  <2>4. CASE wire'[c] = Append(w, m)
    <3> HIDE DEF m
    <3>1. CASE m = "early"
      <4>1. OnlyEarly(w)
        BY <1>2, <2>2, <3>1
      <4>2. OnlyEarly(Append(w, m)) /\ EarlyFirst(Append(w, m))
        BY <1>1, <1>2, <2>2, <3>1, <4>1, EarlyAppend
      <4> QED
        BY <1>2, <2>1, <2>2, <2>4, <4>2
    <3>2. CASE m # "early"
      <4>1. EarlyFirst(Append(w, m))
        BY <1>1, <1>2, <2>2, <3>2, EarlyAppend
      <4>2. k
        BY <1>1, <1>2, <2>1, <2>2, <3>2
      <4> QED
        BY <1>2, <2>1, <2>2, <2>4, <3>2, <4>1, <4>2
    <3> QED
      BY <3>1, <3>2
  <2> QED
    BY <2>1, <2>3, <2>4
<1>7. CASE Arrives(c)
  <2>1. /\ w # <<>> /\ wire'[c] = Tail(w) /\ queue'[c] = q /\ keyed'[c] = k
        /\ pc'[c] = pc[c]
    BY <1>7 DEF Arrives
  <2> HIDE DEF q, w, k
  <2>2. EarlyFirst(Tail(w)) /\ (OnlyEarly(w) => OnlyEarly(Tail(w)))
    BY <1>1, <1>2, <2>1, EarlyTail
  <2> QED
    BY <1>2, <2>1, <2>2
<1> QED
  BY <1>3, <1>4, <1>5, <1>6, <1>7 DEF Moves

-----------------------------------------------------------------------------
(* The page. *)

LEMMA OpenedStays ==
    ASSUME TypeOK, NEW c \in Conns, PipeInv(c), PlaceInv(c), Moves(c), Opened(c), ~Free(c)
    PROVE  Opened(c)'
<1> DEFINE q == queue[c]
           w == wire[c]
<1>1. q \in Seq(Marks) /\ w \in Seq(Marks) /\ EarlyFirst(q) /\ EarlyFirst(w)
  BY DEF TypeOK, ViewersOK, LinksOK, PipeInv
<1>2. NoEarly(q) /\ NoEarly(w) /\ pc[c] \notin {"free", "hello"}
  BY DEF Opened
<1>3. CASE Stays(c) \/ Forgotten(c)
  BY <1>3 DEF Stays, Forgotten, Opened
<1>4. CASE Quits(c) \/ Loses(c)
  BY <1>4, EarlyEmpty DEF Quits, Loses, Opened
<1>5. CASE Starts(c)
  BY <1>2, <1>5 DEF Starts
<1>6. CASE Gets(c)
  <2> PICK key \in BOOLEAN :
        /\ Takes(c, key) /\ queue'[c] = Append(q, Mark(c, key))
        /\ keyed'[c] = (keyed[c] \/ key) /\ wire'[c] = w /\ pc'[c] = pc[c]
    BY <1>6 DEF Gets
  <2>1. keyed[c] /\ Mark(c, key) \in Marks /\ Mark(c, key) # "early"
    BY MarkType DEF Takes, Opened, Mark
  <2>2. NoEarly(Append(q, Mark(c, key)))
    <3> DEFINE m == Mark(c, key)
    <3>1. m \in Marks /\ m # "early"
      BY <2>1
    <3> HIDE DEF m
    <3> QED
      BY <1>1, <1>2, <3>1, EarlyAppend DEF m
  <2>3. keyed'[c]
    BY <2>1
  <2> QED
    BY <1>2, <2>2, <2>3 DEF Opened
<1>7. CASE Writes(c)
  <2>1. /\ q # <<>> /\ queue'[c] = Tail(q) /\ wire'[c] \in {w, Append(w, Head(q))}
        /\ keyed'[c] = keyed[c] /\ pc[c] = "write" /\ pc'[c] = "read"
    BY <1>7 DEF Writes
  <2>2. Head(q) \in Marks /\ NoEarly(Tail(q)) /\ Head(q) # "early"
    BY <1>1, <1>2, <2>1, EarlyTail
  <2>3. NoEarly(Append(w, Head(q)))
    <3> DEFINE m == Head(q)
    <3>1. m \in Marks /\ m # "early"
      BY <2>2
    <3> HIDE DEF m
    <3> QED
      BY <1>1, <1>2, <3>1, EarlyAppend DEF m
  <2> QED
    BY <1>2, <2>1, <2>2, <2>3 DEF Opened
<1>8. CASE Arrives(c)
  <2>1. /\ w # <<>> /\ wire'[c] = Tail(w) /\ queue'[c] = q /\ keyed'[c] = keyed[c]
        /\ pc'[c] = pc[c]
    BY <1>8 DEF Arrives
  <2>2. NoEarly(Tail(w))
    BY <1>1, <1>2, <2>1, EarlyTail
  <2> QED
    BY <2>1, <2>2 DEF Opened
<1> QED
  BY <1>3, <1>4, <1>5, <1>6, <1>7, <1>8 DEF Moves

\* The parts of PageInv that a step of another page, of a thread or of the frame
\* loop leaves alone: the page keeps its socket and its decoder.
LEMMA OtherPageStep ==
    ASSUME TypeOK, \A c \in Conns : PlaceInv(c) /\ PipeInv(c), \A q \in Pages : PageInv(q),
           [Next]_vars, NEW p \in Pages,
           sock'[p] = sock[p], own'[p] => own[p], decoding'[p] => decoding[p],
           own'[p] /\ decoding'[p] =>
              /\ garbled'[p] => garbled[p]
              /\ awaitingKey[p] => awaitingKey'[p] \/ linked'[p]
              /\ linked[p] => awaitingKey'[p] \/ linked'[p]
    PROVE  PageInv(p)'
<1>1. PageInv(p)
  OBVIOUS
<1>2. sock'[p] = NoConn => ~own'[p]
  BY <1>1 DEF PageInv
<1>3. own'[p] /\ decoding'[p] => ~garbled'[p] /\ (awaitingKey'[p] \/ linked'[p])
  BY <1>1 DEF PageInv
<1>4. ASSUME sock[p] # NoConn PROVE pc'[sock[p]] # "free" /\ (own'[p] => Opened(sock[p])')
  <2> DEFINE c == sock[p]
  <2>1. c \in Conns
    BY <1>4 DEF TypeOK, PagesOK
  <2>2. PlaceInv(c) /\ PipeInv(c) /\ Moves(c) /\ pc[c] # "free"
    BY <1>1, <1>4, <2>1, EveryMove DEF PageInv
  <2>3. ~Free(c)
    BY DEF Free
  <2>4. own[p] => Opened(c)
    BY <1>1, <1>4, <2>2 DEF PageInv, Opened
  <2>5. own[p] => Opened(c)'
    BY <2>1, <2>2, <2>3, <2>4, OpenedStays
  <2>6. pc'[c] # "free"
    BY <2>2 DEF Moves, Stays, Gets, Forgotten, Writes, Arrives, Quits, Loses, Starts
  <2> QED
    BY <2>5, <2>6
<1>5. own'[p] => Opened(sock[p])' \/ sock[p] = NoConn
  BY <1>4
<1> QED
  BY <1>2, <1>3, <1>4, <1>5 DEF PageInv, Opened

LEMMA MessageStep ==
    ASSUME Inv, [Next]_vars, NEW p \in Pages, onMessage(p)
    PROVE  PageInv(p)'
<1> USE DEF TypeOK, PagesOK
<1> DEFINE c == sock[p]
           w == wire[c]
           mark == Head(w)
<1>1. c \in Conns /\ sock[p] # NoConn /\ w # <<>> /\ sock' = sock /\ pc[c] # "hello"
  BY DEF onMessage, Listens, Inv
<1>2. /\ PlaceInv(c) /\ PipeInv(c) /\ PageInv(p) /\ Moves(c) /\ ~Free(c)
      /\ TypeOK /\ ChainUnbroken
  BY <1>1, EveryMove DEF Inv, Free
<1>3. w \in Seq(Marks) /\ EarlyFirst(w)
  BY <1>1, <1>2 DEF LinksOK, PipeInv
<1>4. /\ mark \in Marks /\ mark # "gap"
      /\ NoEarly(w) => mark # "early"
      /\ OnlyEarly(w) => mark = "early"
      /\ mark # "early" => NoEarly(w)
  <2>1. mark = w[1] /\ 1 \in 1..Len(w)
    BY <1>1, <1>3
  <2>2. mark # "gap"
    BY <1>1, <1>2, <2>1 DEF ChainUnbroken, NoGapIn
  <2> QED
    BY <1>1, <1>3, <2>2, EarlyTail
<1> PICK busy \in BOOLEAN : Handle(p, mark, busy)
  BY DEF onMessage
<1> HIDE DEF mark
<1>5. ASSUME NEW awaits \in BOOLEAN, NEW why \in BOOLEAN, Skips(p, awaits, why),
             awaits \/ ~decoding[p]
      PROVE  PageInv(p)'
  <2>1. /\ own' = own /\ decoding' = decoding /\ garbled' = garbled
        /\ awaitingKey'[p] = awaits
    BY <1>5 DEF Skips, Inv
  <2> QED
    BY <1>1, <1>5, <2>1, OtherPageStep DEF Inv
<1>6. ASSUME Feeds(p, mark), mark = "key" PROVE PageInv(p)'
  <2>1. /\ linked'[p] /\ ~garbled'[p]
    BY <1>6 DEF Feeds, Inv
  <2>2. Opened(c)
    <3>1. NoEarly(w) /\ ~OnlyEarly(w)
      BY <1>4, <1>6
    <3>2. NoEarly(queue[c]) /\ (keyed[c] \/ pc[c] = "gone")
      BY <1>2, <3>1 DEF PipeInv
    <3> QED
      BY <1>1, <1>2, <3>1, <3>2 DEF Opened, PageInv
  <2>3. Opened(c)'
    BY <1>1, <1>2, <2>2, OpenedStays
  <2>4. pc'[c] # "free"
    BY <1>1, <2>3 DEF Opened
  <2> QED
    BY <1>1, <2>1, <2>3, <2>4 DEF PageInv
<1>7. ASSUME Feeds(p, mark), mark # "key", decoding[p], ~awaitingKey[p] PROVE PageInv(p)'
  <2>1. /\ own'[p] = own[p] /\ linked'[p]
        /\ garbled'[p] = (garbled[p] \/ mark # "next" \/ ~linked[p])
    BY <1>7 DEF Feeds, Inv
  <2>2. ASSUME own[p] PROVE ~garbled'[p]
    <3>1. Opened(c) /\ ~garbled[p] /\ linked[p]
      BY <1>1, <1>2, <1>7, <2>2 DEF PageInv
    <3>2. mark = "next"
      BY <1>4, <1>7, <3>1 DEF Opened, Marks
    <3> QED
      BY <2>1, <3>1, <3>2
  <2>3. own[p] => ~garbled[p]
    BY <1>2, <1>7 DEF PageInv
  <2> QED
    BY <1>1, <1>7, <2>1, <2>2, <2>3, OtherPageStep DEF Inv
<1> QED
  BY <1>5, <1>6, <1>7 DEF Handle

LEMMA PageStep == ASSUME Inv, [Next]_vars, NEW p \in Pages PROVE PageInv(p)'
<1> USE DEF Inv, TypeOK, PagesOK
<1>1. ASSUME UNCHANGED <<sock, own, decoding, awaitingKey, linked, garbled>>
      PROVE  PageInv(p)'
  BY <1>1, OtherPageStep
<1>2. ASSUME NEW r \in Pages, p # r,
             sock'[p] = sock[p], own'[p] = own[p], decoding'[p] = decoding[p],
             awaitingKey'[p] = awaitingKey[p], linked'[p] = linked[p], garbled'[p] = garbled[p]
      PROVE  PageInv(p)'
  BY <1>2, OtherPageStep
<1>3. CASE watchers \/ TakeRequests \/ send \/ LimiterCools \/ UNCHANGED vars
  BY <1>1, <1>3 DEF watchers, TakeRequests, send, LimiterCools
<1>4. ASSUME NEW d \in Conns, \/ Announce(d) \/ Push(d) \/ KeepAlive(d) \/ Read(d)
                              \/ WriteFails(d) \/ Cut(d) \/ Write(d)
      PROVE  PageInv(p)'
  BY <1>1, <1>4 DEF Announce, Push, KeepAlive, Read, WriteFails, Cut, Write
<1>5. ASSUME NEW r \in Pages, \/ PageCools(r) \/ Hide(r) \/ Show(r)
                              \/ watchDecoder(r) \/ watchSilence(r)
      PROVE  PageInv(p)'
  BY <1>1, <1>5 DEF PageCools, Hide, Show, watchDecoder, watchSilence
<1>6. ASSUME NEW r \in Pages, onclose(r) PROVE PageInv(p)'
  <2>1. CASE p = r
    <3>1. sock'[p] = NoConn /\ ~own'[p]
      BY <1>6, <2>1 DEF onclose
    <3> QED
      BY <3>1 DEF PageInv
  <2>2. CASE p # r
    BY <1>2, <1>6, <2>2 DEF onclose
  <2> QED
    BY <2>1, <2>2
<1>7. ASSUME NEW r \in Pages, restartDecoder(r) PROVE PageInv(p)'
  <2>1. CASE p = r
    <3>1. sock' = sock /\ ~own'[p] /\ ~decoding'[p]
      BY <1>7, <2>1 DEF restartDecoder
    <3> QED
      BY <3>1, OtherPageStep
  <2>2. CASE p # r
    BY <1>2, <1>7, <2>2 DEF restartDecoder
  <2> QED
    BY <2>1, <2>2
<1>8. ASSUME NEW r \in Pages, NEW d \in Conns, connect(r, d) \/ Replace(r, d)
      PROVE  PageInv(p)'
  <2>1. sock' = [sock EXCEPT ![r] = d] /\ pc' = [pc EXCEPT ![d] = "hello"]
    BY <1>8 DEF connect, Replace, Open
  <2>2. CASE p = r
    <3>1. ~own'[p]
      BY <1>8, <2>2 DEF connect, Replace, PageInv
    <3>2. sock'[p] = d /\ pc'[d] = "hello"
      BY <2>1, <2>2 DEF ViewersOK
    <3> QED
      BY <3>1, <3>2, NoConnAssumption DEF PageInv
  <2>3. CASE p # r
    <3>1. sock'[p] = sock[p]
      BY <2>1, <2>3
    <3> QED
      BY <1>2, <1>8, <2>3, <3>1 DEF connect, Replace
  <2> QED
    BY <2>2, <2>3
<1>9. ASSUME NEW r \in Pages, onMessage(r) PROVE PageInv(p)'
  <2>1. CASE p = r
    BY <1>9, <2>1, MessageStep
  <2>2. CASE p # r
    <3> PICK busy \in BOOLEAN : Handle(r, Head(wire[sock[r]]), busy)
      BY <1>9 DEF onMessage
    <3>1. /\ own'[p] = own[p] /\ decoding'[p] = decoding[p] /\ linked'[p] = linked[p]
          /\ awaitingKey'[p] = awaitingKey[p] /\ garbled'[p] = garbled[p]
      <4>1. ASSUME NEW awaits, NEW why, Skips(r, awaits, why)
            PROVE  /\ own'[p] = own[p] /\ decoding'[p] = decoding[p] /\ linked'[p] = linked[p]
                   /\ awaitingKey'[p] = awaitingKey[p] /\ garbled'[p] = garbled[p]
        BY <2>2, <4>1 DEF Skips
      <4>2. ASSUME NEW mark, Feeds(r, mark)
            PROVE  /\ own'[p] = own[p] /\ decoding'[p] = decoding[p] /\ linked'[p] = linked[p]
                   /\ awaitingKey'[p] = awaitingKey[p] /\ garbled'[p] = garbled[p]
        BY <2>2, <4>2 DEF Feeds
      <4> QED
        BY <4>1, <4>2 DEF Handle
    <3>2. sock' = sock
      BY <1>9 DEF onMessage
    <3> QED
      BY <1>2, <2>2, <3>1, <3>2
  <2> QED
    BY <2>1, <2>2
<1> QED
  BY <1>3, <1>4, <1>5, <1>6, <1>7, <1>8, <1>9, NextCases DEF Aside

-----------------------------------------------------------------------------
(* The theorems. *)

LEMMA StreamInit == Init => Inv
<1> SUFFICES ASSUME Init PROVE Inv
  OBVIOUS
<1> USE DEF Init, None, Empty
<1>1. WorkerOK
  <2>1. sinceKey \in 0..GOP
    BY SizeAssumption
  <2> QED
    BY <2>1 DEF WorkerOK
<1>2. FlagsOK
  BY DEF FlagsOK
<1>3. ViewersOK
  BY EmptySeq DEF ViewersOK, PCs
<1>4. LinksOK
  BY EmptySeq DEF LinksOK
<1>5. PagesOK
  BY DEF PagesOK
<1>6. ChainInv /\ ChainUnbroken
  BY DEF ChainInv, ChainUnbroken, NoGapIn
<1>7. \A c \in Conns : PlaceInv(c) /\ PipeInv(c)
  BY EarlyEmpty DEF PlaceInv, PipeInv
<1>8. \A p \in Pages : PageInv(p)
  BY DEF PageInv
<1> QED
  BY <1>1, <1>2, <1>3, <1>4, <1>5, <1>6, <1>7, <1>8 DEF Inv, TypeOK

\* Inv is inductive: every step of the frame loop, of the viewers' threads, of
\* the pages and of the outside preserves it.
THEOREM StreamInductive == Spec => []Inv
<1>1. Inv /\ [Next]_vars => Inv'
  <2> SUFFICES ASSUME Inv, [Next]_vars PROVE Inv'
    OBVIOUS
  <2>1. TypeOK'
    BY StreamTypes DEF Inv
  <2>2. ChainInv'
    BY ChainStep DEF Inv
  <2>3. \A c \in Conns : Moves(c)
    BY EveryMove DEF Inv
  <2>4. ChainUnbroken'
    BY <2>3, UnbrokenStep DEF Inv, ChainUnbroken
  <2>5. \A c \in Conns : PlaceInv(c)'
    BY PlaceStep DEF Inv
  <2>6. \A c \in Conns : PipeInv(c)'
    BY <2>3, PipeStep DEF Inv
  <2>7. \A p \in Pages : PageInv(p)'
    BY PageStep
  <2> QED
    BY <2>1, <2>2, <2>4, <2>5, <2>6, <2>7 DEF Inv
<1> QED
  BY <1>1, StreamInit, PTL DEF Spec

\* Every variable keeps its type.
THEOREM StreamTypeCorrect == Spec => []TypeOK
<1>1. Inv => TypeOK
  BY DEF Inv
<1> QED
  BY <1>1, StreamInductive, PTL

\* deliver never hands a viewer that has had a key frame a picture whose
\* reference it was refused.
THEOREM NoViewerIsSentAGap == Spec => []ChainUnbroken
<1>1. Inv => ChainUnbroken
  BY DEF Inv
<1> QED
  BY <1>1, StreamInductive, PTL

\* A page whose decoder was given a key frame of its socket only ever decodes
\* pictures whose references it has.
THEOREM OwnStreamIsReadable == Spec => []OwnStreamReadable
<1>1. Inv => OwnStreamReadable
  BY DEF Inv, PageInv, OwnStreamReadable
<1> QED
  BY <1>1, StreamInductive, PTL
=============================================================================
