---------------------------- MODULE SwitchSeats ----------------------------
(***************************************************************************)
(* The controllers a Switch game sees: the seats file that the patched     *)
(* emulator reads (transport/src/ingress.rs, Connected, write_seats and    *)
(* the thread of Ingress::bind).                                           *)
(*                                                                         *)
(* A seat is plugged as soon as somebody sits in it and unplugged once it  *)
(* has been empty for SEAT_GRACE.  The thread reads the seats ten times a  *)
(* second, and writes the file only when its list changes; a write may     *)
(* fail.                                                                   *)
(***************************************************************************)
EXTENDS Naturals

CONSTANTS
    SwitchPorts,    \* the seats of the room
    SEAT_GRACE      \* looks an empty seat keeps its controller for

ASSUME SwitchSeatsAssumption == 1 \in SwitchPorts /\ SEAT_GRACE \in Nat \ {0}

VARIABLES
    seated,         \* ports somebody sits at
    lastSeen,       \* port -> looks since it was seen taken; SEAT_GRACE: too long or never
    seatsFile,      \* what the file lists
    written,        \* what the thread believes the file lists
    left            \* history: port -> looks since somebody seen there left, capped

switchSeatVars == <<seated, lastSeen, seatsFile, written, left>>

\* Nobody, and seat one plugged all the same: the first list of bind.
SwitchSeatsInit ==
    /\ seated = {} /\ lastSeen = [p \in SwitchPorts |-> SEAT_GRACE]
    /\ seatsFile = {1} /\ written = {1} /\ left = [p \in SwitchPorts |-> SEAT_GRACE]

SitDown(p) ==
    /\ p \notin seated /\ seated' = seated \union {p}
    /\ UNCHANGED <<lastSeen, seatsFile, written, left>>

StandUp(p) ==
    /\ p \in seated /\ seated' = seated \ {p} /\ left' = [left EXCEPT ![p] = IF lastSeen[p] = 0 THEN 0 ELSE @]
    /\ UNCHANGED <<lastSeen, seatsFile, written>>

Older(n) == IF n < SEAT_GRACE THEN n + 1 ELSE n

\* Mutant: an empty seat is unplugged at once.
connected_now(seen) == LET on == {p \in SwitchPorts : seen[p] = 0} IN IF on = {} THEN {1} ELSE on

\* Connected::update: the seats seen within the grace, and never none.
connected(seen) ==
    LET on == {p \in SwitchPorts : seen[p] < SEAT_GRACE} IN IF on = {} THEN {1} ELSE on

\* Mutant: the list is taken for written when the write failed.
Wrote_believing(wanted, passed) ==
    /\ written' = wanted /\ seatsFile' = IF passed THEN wanted ELSE seatsFile

\* write_seats: staged and renamed, so the file changes whole or not at all.
Wrote(wanted, passed) ==
    /\ written' = IF passed THEN wanted ELSE written
    /\ seatsFile' = IF passed THEN wanted ELSE seatsFile

\* One look of the thread.
LookAtSeats(passed) ==
    LET seen == [p \in SwitchPorts |-> IF p \in seated THEN 0 ELSE Older(lastSeen[p])]
        wanted == connected(seen)
    IN /\ lastSeen' = seen /\ left' = [p \in SwitchPorts |-> Older(left[p])]
       /\ IF wanted = written THEN passed /\ UNCHANGED <<seatsFile, written>> ELSE Wrote(wanted, passed)
       /\ UNCHANGED seated

SwitchSeatsNext ==
    \/ \E p \in SwitchPorts : SitDown(p) \/ StandUp(p)
    \/ \E passed \in BOOLEAN : LookAtSeats(passed)

SwitchSeatsSpec == SwitchSeatsInit /\ [][SwitchSeatsNext]_switchSeatVars

-----------------------------------------------------------------------------
SwitchSeatsTypeOK ==
    /\ seated \subseteq SwitchPorts /\ seatsFile \subseteq SwitchPorts /\ written \subseteq SwitchPorts
    /\ {lastSeen, left} \subseteq [SwitchPorts -> 0..SEAT_GRACE]

\* A page that reloads keeps its controller: one that was plugged because somebody
\* sat there goes only when its seat has been empty for the grace (Connected).
ReloadKeepsItsPad ==
    [][\A p \in seatsFile \ seatsFile' :
          p \notin seated /\ (left[p] >= SEAT_GRACE - 1)]_switchSeatVars

\* The game ends up with the controllers of those who are there, and of them only,
\* whatever writes failed on the way (the seats thread of Ingress::bind).
SeatedArePlugged ==
    \A p \in SwitchPorts : <>[](p \in seated) => <>[](p \in seatsFile)

OthersAreUnplugged ==
    \A p \in SwitchPorts : <>[](p \notin seated /\ seated # {}) => <>[](p \notin seatsFile)
=============================================================================
