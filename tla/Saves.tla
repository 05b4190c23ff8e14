------------------------------- MODULE Saves --------------------------------
(***************************************************************************)
(* Where a game's saves live (emulator/src/saves.rs; worker/src/main.rs,   *)
(* prepare_saves and the sweep before the emulator starts).                *)
(*                                                                         *)
(* A place is a folder the emulator writes saves into: the memory card of  *)
(* each region, the memory of each Wii title.  Before a game starts its    *)
(* places are made links to the slot that was chosen; a real folder found  *)
(* there is rescued file by file.  Any step may fail, and the worker may   *)
(* die between two of them.  A save is followed by where it lies.          *)
(***************************************************************************)
EXTENDS Naturals, Sequences, FiniteSets

CONSTANTS
    Saved,        \* the save files games will write
    Regions,      \* card folders
    Titles,       \* Wii games, each the place of its own title
    Cards,        \* GameCube games
    SlotKinds,    \* the kinds of slot that are chosen: Fresh, Unlocked, Person
    People,       \* logins
    Unreadable,   \* the logins whose key is NO_NAME
    NoPerson,     \* no login is known
    MaxAside      \* 99 in the code: folders set aside in one place

ASSUME SavesAssumption == MaxAside \in Nat

VARIABLES
    place,      \* what stands at each place: nothing, a folder, or a link to a slot
    slots,      \* slot folders that exist
    where,      \* save file -> where it lies
    asides,     \* place -> folders set aside there
    job,        \* the preparation: a slot, the places left to link, and the stage
    faulty      \* history: this preparation met a failure

saveVars == <<place, slots, where, asides, job, faulty>>

Places == Regions \union Titles
Nothing == [is |-> "nothing", to |-> <<>>]
Folder == [is |-> "folder", to |-> <<>>]
LinkTo(slot) == [is |-> "link", to |-> slot]

InSlot(slot) == [is |-> "slot", at |-> slot, n |-> 0]
InFolder(p) == [is |-> "folder", at |-> <<p>>, n |-> 0]
Aside(p, n) == [is |-> "aside", at |-> <<p>>, n |-> n]
Unwritten == [is |-> "unwritten", at |-> <<>>, n |-> 0]
\* Out of reach: lost, thrown away with its slot, or swept with its title.
Lost == [is |-> "lost", at |-> <<>>, n |-> 0]
Discarded == [is |-> "discarded", at |-> <<>>, n |-> 0]
Swept == [is |-> "swept", at |-> <<>>, n |-> 0]

Files(location) == {s \in Saved : where[s] = location}
Moved(files, location) == [s \in Saved |-> IF s \in files THEN location ELSE where[s]]

-----------------------------------------------------------------------------
(* The slot of a launch *)

\* The personal slot of nobody, or of a name that leaves no key, is the fresh one.
folder_for(slot, person) ==
    IF slot = "Person" /\ person # NoPerson /\ person \notin Unreadable
    THEN <<"joueur", person>>
    ELSE IF slot = "Unlocked" THEN <<"debloquee">> ELSE <<"neuve">>

slot_dir(game, slot, person) == <<game>> \o folder_for(slot, person)

\* point_nand_at links one place, point_card_at the card of every region.
PlacesOf(game) == IF game \in Titles THEN {game} ELSE Regions

Idle == [stage |-> "idle", slot |-> <<>>, left |-> {}]
At(stage) == job' = [job EXCEPT !.stage = stage]

SavesInit ==
    /\ place = [p \in Places |-> Nothing] /\ slots = {}
    /\ where = [s \in Saved |-> Unwritten] /\ asides = [p \in Places |-> 0]
    /\ job = Idle /\ faulty = FALSE

\* prepare_saves, create_dir_all of the slot.
Begin(game, slot, person) ==
    LET dir == slot_dir(game, slot, person) IN
    /\ job = Idle /\ job' = [stage |-> "link", slot |-> dir, left |-> PlacesOf(game)]
    /\ slots' = slots \union {dir} /\ faulty' = FALSE
    /\ UNCHANGED <<place, where, asides>>

-----------------------------------------------------------------------------
(* link and rescue *)

\* The places are linked one after the other, in a fixed order.
Current(p) == job.left # {} /\ p = CHOOSE q \in job.left : TRUE

\* A link goes away by itself; a folder is rescued first.
Unlink(p) ==
    /\ job.stage = "link" /\ Current(p) /\ place[p].is = "link"
    /\ place' = [place EXCEPT ![p] = Nothing]
    /\ UNCHANGED <<slots, where, asides, job, faulty>>

\* rescue into an empty slot: each file is renamed, then the folder removed.
RescueInto(p) ==
    /\ job.stage = "link" /\ Current(p) /\ place[p] = Folder
    /\ Files(InSlot(job.slot)) = {} /\ At("move")
    /\ UNCHANGED <<place, slots, where, asides, faulty>>

Move(p, s) ==
    /\ job.stage = "move" /\ Current(p) /\ place[p] = Folder /\ s \in Files(InFolder(p))
    /\ where' = Moved({s}, InSlot(job.slot))
    /\ UNCHANGED <<place, slots, asides, job, faulty>>

RemoveEmptied(p) ==
    /\ job.stage = "move" /\ Current(p) /\ place[p] = Folder /\ Files(InFolder(p)) = {}
    /\ place' = [place EXCEPT ![p] = Nothing] /\ At("link")
    /\ UNCHANGED <<slots, where, asides, faulty>>

\* Mutant: a second folder to set aside is thrown away.
SetAsideOnce(p) ==
    /\ job.stage = "link" /\ Current(p) /\ place[p] = Folder
    /\ Files(InSlot(job.slot)) # {}
    /\ asides' = [asides EXCEPT ![p] = 1]
    /\ where' = Moved(Files(InFolder(p)), IF asides[p] = 0 THEN Aside(p, 1) ELSE Lost)
    /\ place' = [place EXCEPT ![p] = Nothing]
    /\ UNCHANGED <<slots, job, faulty>>

\* rescue beside a slot in use: one numbered folder more, never one less.
SetAside(p) ==
    /\ job.stage = "link" /\ Current(p) /\ place[p] = Folder
    /\ Files(InSlot(job.slot)) # {} /\ asides[p] < MaxAside
    /\ asides' = [asides EXCEPT ![p] = @ + 1]
    /\ where' = Moved(Files(InFolder(p)), Aside(p, asides[p] + 1))
    /\ place' = [place EXCEPT ![p] = Nothing]
    /\ UNCHANGED <<slots, job, faulty>>

\* Mutant: a link that is already there is left as it is.
LinkPlaceOnce(p) ==
    /\ job.stage = "link" /\ Current(p) /\ place[p] # Folder
    /\ place' = IF place[p] = Nothing THEN [place EXCEPT ![p] = LinkTo(job.slot)] ELSE place
    /\ job' = [job EXCEPT !.left = @ \ {p}]
    /\ UNCHANGED <<slots, where, asides, faulty>>

LinkPlace(p) ==
    /\ job.stage = "link" /\ Current(p) /\ place[p] = Nothing
    /\ place' = [place EXCEPT ![p] = LinkTo(job.slot)]
    /\ job' = [job EXCEPT !.left = @ \ {p}]
    /\ UNCHANGED <<slots, where, asides, faulty>>

\* Any of these calls refuses: the rest is left as it is and the room goes on.
Refuse ==
    /\ job.stage \in {"link", "move"} /\ job.left # {} /\ At("sweep") /\ faulty' = TRUE
    /\ UNCHANGED <<place, slots, where, asides>>

Linked ==
    /\ job.stage = "link" /\ job.left = {} /\ At("sweep")
    /\ UNCHANGED <<place, slots, where, asides, faulty>>

-----------------------------------------------------------------------------
(* The sweep, the game, and the hands of the keeper *)

Dead(p) == place[p].is = "link" /\ place[p].to \notin slots

Sweepable == {t \in Titles : Dead(t)}

\* sweep_nand removes the whole folder of a title whose save is a dead link;
\* a removal that fails is passed over.
Sweep ==
    /\ job.stage = "sweep" /\ At("play")
    /\ \E gone \in SUBSET Sweepable :
          LET under == {s \in Saved : where[s].is = "aside" /\ where[s].at[1] \in gone} IN
          /\ place' = [p \in Places |-> IF p \in gone THEN Nothing ELSE place[p]]
          /\ asides' = [p \in Places |-> IF p \in gone THEN 0 ELSE asides[p]]
          /\ where' = Moved(under, Swept)
          /\ faulty' = (faulty \/ gone # Sweepable)
    /\ UNCHANGED slots

\* The emulator writes a save at its place: through the link, or into a folder
\* it makes; a dead link swallows it.  External.
Write(p, s) ==
    /\ job.stage = "play" /\ p \in PlacesOf(job.slot[1]) /\ where[s] = Unwritten /\ ~Dead(p)
    /\ where' = Moved({s}, IF place[p].is = "link" THEN InSlot(place[p].to) ELSE InFolder(p))
    /\ place' = [place EXCEPT ![p] = IF @ = Nothing THEN Folder ELSE @]
    /\ UNCHANGED <<slots, asides, job, faulty>>

\* The worker ends or dies, in the middle of a preparation too.
EndRoom == job # Idle /\ job' = Idle /\ faulty' = FALSE /\ UNCHANGED <<place, slots, where, asides>>

\* A game leaves the library and takes its slot along.
RemoveSlot(dir) ==
    /\ job = Idle /\ dir \in slots /\ slots' = slots \ {dir}
    /\ where' = Moved(Files(InSlot(dir)), Discarded)
    /\ UNCHANGED <<place, asides, job, faulty>>

\* A card restored by hand: a real folder with a save in the place of a link.
Restore(p, s) ==
    /\ job = Idle /\ place[p].is = "link" /\ where[s] = Unwritten
    /\ place' = [place EXCEPT ![p] = Folder] /\ where' = Moved({s}, InFolder(p))
    /\ UNCHANGED <<slots, asides, job, faulty>>

SavesNext ==
    \/ \E g \in Titles \union Cards, k \in SlotKinds,
         who \in People \union {NoPerson} : Begin(g, k, who)
    \/ \E p \in Places : Unlink(p) \/ RescueInto(p) \/ RemoveEmptied(p) \/ SetAside(p) \/ LinkPlace(p)
    \/ \E p \in Places, s \in Saved : Move(p, s) \/ Write(p, s) \/ Restore(p, s)
    \/ Refuse \/ Linked \/ Sweep \/ EndRoom
    \/ \E dir \in slots : RemoveSlot(dir)

SavesSpec == SavesInit /\ [][SavesNext]_saveVars

-----------------------------------------------------------------------------
(* Properties *)

SavesTypeOK ==
    /\ \A p \in Places : place[p].is \in {"nothing", "folder", "link"}
    /\ \A s \in Saved : where[s].is \in {"unwritten", "slot", "folder", "aside", "lost", "discarded",
                                       "swept"}
    /\ asides \in [Places -> 0..MaxAside] /\ faulty \in BOOLEAN
    /\ job.left \subseteq Places /\ job.stage \in {"idle", "link", "move", "sweep", "play"}

\* What holds a save is still there.
Reachable(s) ==
    CASE where[s].is = "slot" -> where[s].at \in slots
      [] where[s].is = "folder" -> place[where[s].at[1]] = Folder
      [] where[s].is = "aside" -> where[s].n <= asides[where[s].at[1]]
      [] OTHER -> TRUE

\* Nothing a game wrote is lost by moving from slot to slot, whatever fails and
\* wherever the worker dies: a save is gone only when its slot was taken away
\* by hand, or when the sweep of dead titles met it set aside.
NothingIsLost == \A s \in Saved : where[s] # Lost /\ Reachable(s)

\* "Pourquoi ça ne supprime aucune sauvegarde" (saves.rs, sweep_nand): the
\* sweep touches dead links only, and a dead link holds nothing.
SweepErasesNoSave == \A s \in Saved : where[s] # Swept

\* A game that starts after a preparation without a failure writes into the
\* slot that was chosen and into no other, and no dead link is left in the
\* memory of the console to kill the emulator.
PlaysOnTheChosenSlot ==
    (job.stage = "play" /\ ~faulty) =>
        /\ \A p \in PlacesOf(job.slot[1]) : place[p] = LinkTo(job.slot) /\ ~Dead(p)
        /\ \A t \in Titles : ~Dead(t)
=============================================================================
