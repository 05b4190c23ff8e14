------------------------------ MODULE PadLevel ------------------------------
(***************************************************************************)
(* What the pad pipe promises: a controller is a level, and the emulator   *)
(* only ever holds states that were sent, whole, in the order they were    *)
(* sent.  A state may be left out when it is the one already on its way    *)
(* last, or when the way is full.                                          *)
(***************************************************************************)
EXTENDS Naturals, Sequences

CONSTANTS Ports, States, Unsent, Room

VARIABLES
    asked,   \* port -> the state last sent, Unsent before the first
    coming,  \* port -> the states on their way
    shown    \* port -> the state the game reads

levelVars == <<asked, coming, shown>>

LevelInit ==
    /\ asked = [p \in Ports |-> Unsent]
    /\ coming = [p \in Ports |-> <<>>]
    /\ shown \in [Ports -> States]

Newest(p) == IF coming[p] = <<>> THEN shown[p] ELSE coming[p][Len(coming[p])]

Ask(p, s) ==
    /\ asked' = [asked EXCEPT ![p] = s]
    /\ \/ coming' = [coming EXCEPT ![p] = Append(@, s)]
       \/ (Newest(p) = s \/ Len(coming[p]) = Room) /\ UNCHANGED coming
    /\ UNCHANGED shown

Show(p) ==
    /\ coming[p] # <<>>
    /\ shown' = [shown EXCEPT ![p] = Head(coming[p])]
    /\ coming' = [coming EXCEPT ![p] = Tail(@)]
    /\ UNCHANGED asked

LevelNext == \E p \in Ports : Show(p) \/ \E s \in States : Ask(p, s)

LevelSpec == LevelInit /\ [][LevelNext]_levelVars
=============================================================================
