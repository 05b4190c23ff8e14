------------------------------- MODULE Library -------------------------------
(* The games of a room and what it says of them: the scan of the shelves into *)
(* positions (emulator/src/library.rs), the console of each disc (disc.rs)    *)
(* and its cover (banner.rs), each read with a tool that runs in a container  *)
(* and kept in a cache on disk, and the game remembered by file name while a    *)
(* page asks for it by position (worker/src/main.rs).                         *)
(*                                                                            *)
(* A cache entry is named by the file's name and size, not by its content,    *)
(* and the picture of a Wii game lies in its saves, named by the file alone.  *)
(* The host changes the shelves while no start is in progress.                *)
EXTENDS Integers, Sequences, FiniteSets, SequencesExt

CONSTANTS Shelves,     \* <<directory, file>>: places a file may be in
          Discs,       \* contents
          ConsoleOf,   \* of each disc: "gc", "wii", "switch" (registered) or "?"
          SizeOf,      \* of each disc
          Bannered,    \* discs whose opening.bnr can be taken out
          RankOf,      \* of each file: the order of its title
          SaveFolder,  \* of each file: the name its saves go under
          UsualGame,   \* settings.rom
          NoDisc, NoFile,
          MaxChanges, MaxTroubles

ASSUME LibraryAssumption ==
  /\ IsFiniteSet(Shelves) /\ UsualGame \in Shelves /\ Discs # {}
  /\ NoDisc \notin Discs /\ NoFile \notin {p[2] : p \in Shelves}
  /\ {"nothing", "refused", "cut"} \cap Discs = {}       \* what a cache says beside a disc
  /\ \A d \in Discs : ConsoleOf[d] \in {"gc", "wii", "switch", "?"}
  /\ MaxChanges \in Nat /\ MaxTroubles \in Nat

VARIABLES shelf,    \* what lies where
          consoles,     \* the cache of consoles, by key
          banners,   \* the cache of banners, by key
          saved,     \* the banner in the saves of a Wii game, by folder and slot
          start,    \* "off", "discs", "art" or "open"
          games,    \* the catalogue of this start: places and discs, by position
          shown_as,     \* the console found for each position so far
          art,      \* the cover found for each position so far, NoDisc for none
          choice,   \* the file of CHOICE, NoFile when never written
          current,  \* the place of the game being played, NoFile for none
          page,     \* the files a page shows, by position
          fresh,    \* the page was loaded from this start
          meantFile,    \* history: the file the last accepted ask was meant for
          clear,    \* history: no trouble since this start began
          doubtful, \* history: keys that stood for more than one disc
          mixed,    \* history: folders of saves that stood for more than one disc
          spoilt,   \* history: keys whose banner is refused or cut for a trouble
          changes, troubles

libraryVars == <<shelf, consoles, banners, saved, start, games, shown_as, art, choice, current, page, fresh,
                 meantFile, clear, doubtful, mixed, spoilt, changes, troubles>>
caches == <<consoles, banners>>
doubts == <<doubtful, mixed, spoilt>>
budgets == <<changes, troubles>>

Files_of_shelves == {p[2] : p \in Shelves}
Keys == Files_of_shelves \X {SizeOf[d] : d \in Discs}
Folders == {SaveFolder[f] : f \in Files_of_shelves}
SaveSlots == 1..2       \* everything unlocked, then a new game: the order of reading

\* Mutant: a cache entry is named by the file alone.
cache_file_by_name(place, disc) == <<place[2], CHOOSE z \in {SizeOf[d] : d \in Discs} : TRUE>>
cache_file(place, disc) == <<place[2], SizeOf[disc]>>

(* scan_all: each directory sorted by title, a file name met again is left    *)
(* out, the whole sorted again and stably.  read_dir promises no order, so    *)
(* equal titles of one directory come in either.                              *)
Full_shelves == {p \in Shelves : shelf[p] # NoDisc}
Listed == {p \in Full_shelves : \A q \in Full_shelves : q[2] = p[2] => q[1] >= p[1]}
Before(p, q) == \/ RankOf[p[2]] < RankOf[q[2]]
                \/ RankOf[p[2]] = RankOf[q[2]] /\ p[1] < q[1]
scan_all == {[i \in DOMAIN s |-> [place |-> s[i], disc |-> shelf[s[i]]]] :
               s \in {s \in SetToSeqs(Listed) :
                        \A i, j \in DOMAIN s : Before(s[i], s[j]) => i < j}}
FileAt(i) == games[i].place[2]

(* What the caches of a key say need not be true of a disc put down later,    *)
(* nor what is, or is being written, in a folder of saves.                    *)
Doubts(place, disc) ==
  LET k == <<place[2], SizeOf[disc]>>
  IN IF \/ consoles[k] # "nothing" \/ banners[k] # "nothing"
        \/ \E q \in Full_shelves : q[2] = place[2] /\ SizeOf[shelf[q]] = SizeOf[disc]
     THEN {k} ELSE {}
Playing(i) == start = "open" /\ games[i].place = current
Mixes(place) ==
  LET f == SaveFolder[place[2]]
  IN IF \/ \E slot \in SaveSlots : saved[f][slot] # "nothing"
        \/ \E q \in Full_shelves : SaveFolder[q[2]] = f
        \/ \E i \in DOMAIN games : Playing(i) /\ SaveFolder[FileAt(i)] = f
     THEN {f} ELSE {}

LibraryInit ==
  /\ shelf \in [Shelves -> {NoDisc} \cup Discs]
  /\ \A p, q \in Shelves : p[2] = q[2] /\ p # q => NoDisc \in {shelf[p], shelf[q]}
  /\ consoles = [k \in Keys |-> "nothing"] /\ banners = [k \in Keys |-> "nothing"]
  /\ saved = [f \in Folders |-> [slot \in SaveSlots |-> "nothing"]]
  /\ mixed = {f \in Folders : \E p, q \in Full_shelves :
                               p # q /\ SaveFolder[p[2]] = f /\ SaveFolder[q[2]] = f}
  /\ start = "off" /\ games = << >> /\ shown_as = << >> /\ art = << >>
  /\ choice = NoFile /\ current = NoFile /\ page = << >> /\ fresh = FALSE /\ meantFile = NoFile
  /\ clear = TRUE /\ doubtful = {} /\ spoilt = {} /\ changes = 0 /\ troubles = 0

-----------------------------------------------------------------------------
(* The host puts a file down, replaces one or takes one away.                 *)
Put(place, disc) ==
  /\ start \in {"off", "open"} /\ changes < MaxChanges /\ shelf[place] # disc
  /\ changes' = changes + 1 /\ shelf' = [shelf EXCEPT ![place] = disc]
  /\ doubtful' = doubtful \cup IF disc = NoDisc THEN {} ELSE Doubts(place, disc)
  /\ mixed' = mixed \cup IF disc = NoDisc THEN {} ELSE Mixes(place)
  /\ UNCHANGED <<caches, saved, spoilt, start, games, shown_as, art, choice, current, page, fresh, meantFile, clear, troubles>>

(* A start reads the shelves once (run): positions do not move under a page.  *)
Scan == /\ start = "off" /\ games' \in scan_all
        /\ start' = "discs" /\ shown_as' = << >> /\ art' = << >> /\ clear' = TRUE /\ fresh' = FALSE
        /\ current' = NoFile
        /\ UNCHANGED <<shelf, caches, saved, choice, page, meantFile, doubts, budgets>>

(* A trouble: the tool did not start, docker refused, a write failed, or the  *)
(* process died in the middle of one.                                         *)
Trouble == troubles < MaxTroubles /\ troubles' = troubles + 1 /\ clear' = FALSE
NoTrouble == UNCHANGED <<troubles, clear>>

Next_rom == Len(shown_as) + 1
ReadingDiscs == start = "discs" /\ Next_rom <= Len(games)
(* disc_of, and Disc::from_code on what is kept: a torn entry whose title was *)
(* cut still reads as a Wii disc, any other is asked again.                   *)
Known(k) == consoles[k] \in {"gc", "wii"}
Says(console) == shown_as' = Append(shown_as, console)
DiscsRest == UNCHANGED <<shelf, banners, saved, doubts, start, games, art, choice, current, page, fresh, meantFile, changes>>
DiscKnown == /\ ReadingDiscs
             /\ LET rom == games[Next_rom]
                    k == cache_file(rom.place, rom.disc)
                IN \/ ConsoleOf[rom.disc] = "switch" /\ Says("switch")
                   \/ ConsoleOf[rom.disc] # "switch" /\ Known(k) /\ Says(consoles[k])
             /\ UNCHANGED consoles /\ NoTrouble /\ DiscsRest
Asks_tool(rom) == ConsoleOf[rom.disc] # "switch" /\ ~Known(cache_file(rom.place, rom.disc))

(* std::fs::write truncates, then writes: what fails or dies in the middle    *)
(* of it leaves a file that is there and cannot be read as what it should be. *)
Cut(cache, k) == [cache EXCEPT ![k] = "cut"]

\* Mutant: an unknown console is remembered as the usual one.
Kept_guess(k, found) == [consoles EXCEPT ![k] = IF found = "?" THEN "gc" ELSE found]
(* Only what is known is kept.                                                *)
Kept(k, found) == IF found = "?" THEN consoles ELSE [consoles EXCEPT ![k] = found]
DiscRead == /\ ReadingDiscs
            /\ LET rom == games[Next_rom]
                   k == cache_file(rom.place, rom.disc)
               IN /\ Asks_tool(rom)
                  /\ \/ NoTrouble /\ Says(ConsoleOf[rom.disc]) /\ consoles' = Kept(k, ConsoleOf[rom.disc])
                     \/ Trouble /\ Says("?") /\ consoles' = Kept(k, "?")          \* the tool said nothing
                     \/ /\ Trouble /\ Says(ConsoleOf[rom.disc])   \* not written, or in part
                        /\ consoles' \in {consoles, Cut(consoles, k)}
            /\ DiscsRest
DiscsDone == /\ start = "discs" /\ Next_rom > Len(games) /\ start' = "art"
             /\ NoTrouble
             /\ UNCHANGED <<shelf, caches, games, shown_as, art, choice, current, page, fresh, meantFile, saved, doubts, changes>>

(* gather: a registered Switch game shows its own picture, a Wii disc that of *)
(* a save if there is one, any other the banner taken out of the disc.        *)
Next_art == Len(art) + 1
Gathering == start = "art" /\ Next_art <= Len(games)
Shows(found) == art' = Append(art, found)
ArtRest == UNCHANGED <<shelf, consoles, saved, doubtful, mixed, start, games, shown_as, choice, current, page,
                       fresh, meantFile, changes>>
Truly(disc) == IF disc \in Bannered THEN disc ELSE NoDisc
CoverOfItsOwn == /\ Gathering /\ shown_as[Next_art] = "switch"
                 /\ Shows(Truly(games[Next_art].disc))
                 /\ UNCHANGED <<banners, spoilt>> /\ NoTrouble /\ ArtRest

(* from_a_wii_save: the first slot that has a banner, whichever game wrote it *)
(* there; one that cannot be read is no cover, and the other slot is not tried.*)
InSave(f) == LET first == IF saved[f][1] # "nothing" THEN saved[f][1] ELSE saved[f][2]
             IN IF first \in Discs THEN first ELSE NoDisc
CoverFromSave == /\ Gathering /\ shown_as[Next_art] = "wii"
                 /\ Shows(InSave(SaveFolder[FileAt(Next_art)]))
                 /\ UNCHANGED <<banners, spoilt>> /\ NoTrouble /\ ArtRest

\* Mutant: a tool that could not start marks the game as without a banner.
Marked_always(k, why) == [banners EXCEPT ![k] = "refused"]
(* art_of: a definite no leaves a mark, a tool that could not start does not. *)
Marked(k, why) == IF why = "tool failed" THEN banners ELSE [banners EXCEPT ![k] = "refused"]
CoverFromDisc ==
  /\ Gathering /\ shown_as[Next_art] \in {"gc", "?"}
  /\ LET rom == games[Next_art]
         k == cache_file(rom.place, rom.disc)
         taken == rom.disc \in Bannered
     IN \/ /\ banners[k] # "nothing" /\ NoTrouble /\ UNCHANGED <<banners, spoilt>>
           /\ Shows(IF banners[k] \in Discs THEN banners[k] ELSE NoDisc)
        \/ /\ banners[k] = "nothing" /\ taken /\ NoTrouble /\ UNCHANGED spoilt
           /\ Shows(rom.disc) /\ banners' = [banners EXCEPT ![k] = rom.disc]
        \/ /\ banners[k] = "nothing" /\ ~taken /\ NoTrouble /\ UNCHANGED spoilt
           /\ Shows(NoDisc) /\ banners' = Marked(k, "nothing written")
        \/ /\ banners[k] = "nothing" /\ Trouble /\ UNCHANGED spoilt
           /\ Shows(NoDisc) /\ banners' = Marked(k, "tool failed")
        \/ /\ banners[k] = "nothing" /\ taken /\ Trouble   \* read but not cached, or cached in part
           /\ Shows(rom.disc)
           /\ \/ UNCHANGED <<banners, spoilt>>
              \/ banners' = Cut(banners, k) /\ spoilt' = spoilt \cup {k}
        \/ /\ banners[k] = "nothing" /\ ~taken /\ Trouble  \* nothing written, and no mark either
           /\ Shows(NoDisc) /\ UNCHANGED <<banners, spoilt>>
        \/ /\ banners[k] = "nothing" /\ Trouble      \* docker itself answered no, as the tool would
           /\ Shows(NoDisc) /\ banners' = Marked(k, "tool refused") /\ spoilt' = spoilt \cup {k}
  /\ ArtRest

(* chosen_rom, current: the remembered file wherever it is now, the usual     *)
(* game when there is none.  The server opens with the catalogue.             *)
PlaceOf(file) == {games[i].place : i \in {i \in DOMAIN games : FileAt(i) = file}}
chosen_rom == IF PlaceOf(choice) # {} THEN CHOOSE p \in PlaceOf(choice) : TRUE ELSE UsualGame
Open == /\ start = "art" /\ Next_art > Len(games) /\ start' = "open"
        /\ current' = IF chosen_rom \in {games[i].place : i \in DOMAIN games} THEN chosen_rom ELSE NoFile
        /\ NoTrouble
        /\ UNCHANGED <<shelf, caches, games, shown_as, art, choice, page, fresh, meantFile, saved, doubts, changes>>

(* The game that is played writes its banner into its saves (banner.bin); an  *)
(* emulator stopped in the middle leaves it cut.                              *)
SaveBanner(slot) ==
  /\ \E i \in DOMAIN games :
       /\ Playing(i) /\ shown_as[i] = "wii" /\ ConsoleOf[games[i].disc] = "wii"
       /\ \E said \in {games[i].disc, "cut"} :
            saved' = [saved EXCEPT ![SaveFolder[FileAt(i)]][slot] = said]
  /\ UNCHANGED <<shelf, caches, start, games, shown_as, art, choice, current, page, fresh, meantFile,
                 clear, doubts, budgets>>

(* The process dies; a file it was writing may be left cut.                   *)
Stops == start' = "off" /\ fresh' = FALSE
DieRest == UNCHANGED <<shelf, saved, doubtful, mixed, games, shown_as, art, choice, current, page, meantFile, changes>>
LibraryDies == /\ start \in {"discs", "art"} /\ Trouble /\ Stops /\ DieRest
       /\ \/ UNCHANGED <<caches, spoilt>>
          \/ /\ ReadingDiscs /\ Asks_tool(games[Next_rom]) /\ UNCHANGED <<banners, spoilt>>
             /\ consoles' = Cut(consoles, cache_file(games[Next_rom].place, games[Next_rom].disc))
          \/ /\ Gathering /\ shown_as[Next_art] \in {"gc", "?"} /\ UNCHANGED consoles
             /\ LET k == cache_file(games[Next_art].place, games[Next_art].disc)
                IN /\ banners[k] = "nothing" /\ spoilt' = spoilt \cup {k}
                   /\ banners' = Cut(banners, k)

(* A page loads /roms, and later asks for one of the positions it shows.      *)
Load == /\ start = "open" /\ page' = [i \in DOMAIN games |-> FileAt(i)] /\ fresh' = TRUE
        /\ UNCHANGED <<shelf, caches, saved, start, games, shown_as, art, choice, current, meantFile, clear, doubts, budgets>>
\* Mutant: the choice is looked up on the shelves as they are now.
Remembered_rescanned(i) == LET now == CHOOSE s \in scan_all : TRUE
                           IN IF i \in DOMAIN now THEN {now[i].place[2]} ELSE {}
(* remember_choice: the position in the catalogue of this start; one it does  *)
(* not have is refused.  Remembered by file name.                             *)
Remembered(i) == IF i \in DOMAIN games THEN {FileAt(i)} ELSE {}
Ask(i) == /\ start = "open" /\ i \in DOMAIN page
          /\ choice' \in Remembered(i) /\ meantFile' = IF fresh THEN page[i] ELSE NoFile
          /\ Stops          \* the room restarts on its choice
          /\ UNCHANGED <<shelf, caches, saved, games, shown_as, art, current, page, clear, doubts, budgets>>
(* Left for another reason: closed, crashed, restarted by hand.               *)
Leave_open == start = "open" /\ Stops /\ DieRest /\ UNCHANGED <<caches, spoilt, clear, troubles>>

LibraryNext == \/ \E p \in Shelves, d \in Discs \cup {NoDisc} : Put(p, d)
               \/ Scan \/ DiscKnown \/ DiscRead \/ DiscsDone
               \/ CoverOfItsOwn \/ CoverFromSave \/ CoverFromDisc \/ (\E slot \in SaveSlots : SaveBanner(slot))
               \/ Open \/ LibraryDies \/ Load \/ (\E i \in DOMAIN page : Ask(i)) \/ Leave_open
LibrarySpec == LibraryInit /\ [][LibraryNext]_libraryVars

-----------------------------------------------------------------------------
LibraryTypeOK ==
  /\ shelf \in [Shelves -> Discs \cup {NoDisc}] /\ start \in {"off", "discs", "art", "open"}
  /\ consoles \in [Keys -> {"nothing", "gc", "wii", "cut"}]
  /\ banners \in [Keys -> Discs \cup {"nothing", "refused", "cut"}]
  /\ shown_as \in Seq({"gc", "wii", "switch", "?"}) /\ art \in Seq(Discs \cup {NoDisc})
  /\ saved \in [Folders -> [SaveSlots -> Discs \cup {"nothing", "cut"}]]
  /\ Len(art) <= Len(shown_as) /\ Len(shown_as) <= Len(games)
  /\ doubtful \subseteq Keys /\ spoilt \subseteq Keys /\ mixed \subseteq Folders

KeyOf(i) == <<FileAt(i), SizeOf[games[i].disc]>>
Sure(i) == KeyOf(i) \notin doubtful
SureOfSave(i) == SaveFolder[FileAt(i)] \notin mixed
(* Whatever failed in this start or an earlier one, what a position shows is  *)
(* its own disc: its console or "unknown", its cover or none.  Only a file    *)
(* put in the place of another of the same name may be shown as the old one:  *)
(* one of the same size, and for the cover of a Wii game, whose saves do not  *)
(* know the size, one of any.  banner.rs, disc.rs.                            *)
ShownIsTheDisc ==
  start = "open" =>
    \A i \in DOMAIN games : Sure(i) =>
      /\ shown_as[i] \in {"?", ConsoleOf[games[i].disc]}
      /\ shown_as[i] # "wii" \/ SureOfSave(i) => art[i] \in {NoDisc, games[i].disc}

(* A passing trouble of the tool is not remembered for all later evenings:    *)
(* the next start without trouble knows every console it can read and shows   *)
(* every cover there is.  Two troubles of a cover are kept for ever: a banner *)
(* that could only be written in part, and a refusal of docker that is taken  *)
(* for the tool's.                                                            *)
TroubleIsForgotten ==
  start = "open" /\ clear =>
    \A i \in DOMAIN games : Sure(i) =>
      /\ shown_as[i] = ConsoleOf[games[i].disc]
      /\ shown_as[i] = "switch" => art[i] = Truly(games[i].disc)
      /\ shown_as[i] = "gc" /\ KeyOf(i) \notin spoilt => art[i] = Truly(games[i].disc)

(* The game a page showed at the position it sent is the one the next start   *)
(* plays, however the shelves moved in between, as long as the file is still  *)
(* there and the page was loaded from the start it asked.                     *)
AskedIsPlayed ==
  start = "open" /\ meantFile # NoFile /\ PlaceOf(meantFile) # {} => current \in PlaceOf(meantFile)
=============================================================================
