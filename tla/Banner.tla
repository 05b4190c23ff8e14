------------------------------- MODULE Banner -------------------------------
(* The picture and the words of a disc, read out of its opening.bnr, and of a *)
(* Wii save, out of its banner.bin (emulator/src/banner.rs, parse, parse_wii):*)
(* a header, an image in tiles of two-byte pixels, and one block of words for *)
(* each language.  The offsets are the source's; a pixel is its own number,   *)
(* so where it lands says whether the picture is the picture.                 *)
EXTENDS Integers, FiniteSets

CONSTANTS Wide, High,    \* of the image whose pixels are followed
          PixelValues,        \* pixel values looked at
          Lengths        \* lengths a file may have

TILE == 4
PixelWord == 0 .. 65535   \* of two bytes
ASSUME BannerAssumption ==
    /\ Wide \in Nat /\ High \in Nat /\ Wide % TILE = 0 /\ High % TILE = 0
    /\ PixelValues \subseteq PixelWord /\ Lengths \subseteq Nat

VARIABLES blob,    \* [magic, length, french, value]
          found    \* what the reader made of it

bannerVars == <<blob, found>>

GC_W == 96
GC_H == 32
IMAGE_AT == 32
TEXT_AT == IMAGE_AT + GC_W * GC_H * 2
BLOCK == 320
WII_IMAGE_AT == 160
WII_W == 192
WII_H == 64
FRENCH == 2
ENGLISH == 0
Unread == [is |-> "unread"]
Refusal(why) == [is |-> "refused", why |-> why]

Languages == [BNR1 |-> 1, BNR2 |-> 6]
Magics == {"BNR1", "BNR2", "WIBN", "JUNK"}

(* words_of: French when the file has it and it is not blank, else English.   *)
\* Mutant: the French block is looked for in a file of one language too.
words_of_any(b) == IF b.french THEN FRENCH ELSE ENGLISH
words_of(b) == IF Languages[b.magic] > FRENCH /\ b.french THEN FRENCH ELSE ENGLISH
Block_at(which) == TEXT_AT + which * BLOCK

(* untile: pixel n of the file, tiles left to right then top to bottom, each  *)
(* of TILE rows of TILE; where it lands in the raster.                        *)
\* Mutant: the pixels are copied in the order they come.
Lands_copied(n) == n
Lands(n) == LET tile == n \div (TILE * TILE)
                y == (n % (TILE * TILE)) \div TILE
                x == n % TILE
                tile_y == (tile \div (Wide \div TILE)) * TILE
                tile_x == (tile % (Wide \div TILE)) * TILE
            IN (tile_y + y) * Wide + tile_x + x
untile == [at \in 0 .. Wide * High - 1 |-> CHOOSE n \in 0 .. Wide * High - 1 : Lands(n) = at]

(* rgb5a3: two encodings in one type, the top bit chooses.                    *)
field(v, low, bits) == (v \div 2 ^ low) % 2 ^ bits
from4(c) == c * 16 + c
from5(c) == c * 8 + c \div 4
\* Mutant: the transparency is only shifted up.
from3_shifted(a) == a * 32
from3(a) == a * 32 + a * 4 + a \div 2
rgb5a3(v) == IF field(v, 15, 1) = 0
             THEN [red |-> from4(field(v, 8, 4)), green |-> from4(field(v, 4, 4)),
                   blue |-> from4(field(v, 0, 4)), alpha |-> from3(field(v, 12, 3))]
             ELSE [red |-> from5(field(v, 10, 5)), green |-> from5(field(v, 5, 5)),
                   blue |-> from5(field(v, 0, 5)), alpha |-> 255]

(* What is read, as <<first, length>>: the image, the long name, the maker    *)
(* and the sentence; of a Wii save, the image and two texts of UTF-16.        *)
Spans(b) == LET at == Block_at(words_of(b))
            IN {<<IMAGE_AT, GC_W * GC_H * 2>>, <<at + 64, 64>>, <<at + 128, 64>>, <<at + 192, 128>>}
WiiSpans == {<<WII_IMAGE_AT, WII_W * WII_H * 2>>, <<32, 2 * 32>>, <<96, 2 * 32>>}
Read(b, spans) == [is |-> "banner", pixels |-> untile, colour |-> rgb5a3(b.value), spans |-> spans]

parse(b) ==
  CASE b.magic \notin DOMAIN Languages -> Refusal("not a banner")
    [] b.magic \in DOMAIN Languages /\ b.length < TEXT_AT + Languages[b.magic] * BLOCK -> Refusal("too short")
    [] OTHER -> Read(b, Spans(b))
parse_wii(b) ==
  CASE b.magic # "WIBN" -> Refusal("not a banner")
    [] b.magic = "WIBN" /\ b.length < WII_IMAGE_AT + WII_W * WII_H * 2 -> Refusal("too short")
    [] OTHER -> Read(b, WiiSpans)

BannerInit == /\ blob \in [magic : Magics, length : Lengths, french : BOOLEAN, value : PixelValues]
              /\ found = Unread
(* A GameCube disc and a Wii save are read by their own reader; a file that   *)
(* was cut short in the cache is read like any other.                         *)
ReadDisc == found = Unread /\ found' = parse(blob) /\ UNCHANGED blob
ReadSave == found = Unread /\ found' = parse_wii(blob) /\ UNCHANGED blob
BannerNext == ReadDisc \/ ReadSave
BannerSpec == BannerInit /\ [][BannerNext]_bannerVars

-----------------------------------------------------------------------------
BannerTypeOK == found.is \in {"unread", "refused", "banner"}

(* The length is checked once and the reads are many: whatever the language   *)
(* chosen, every byte read is one the file has, and no text runs into the     *)
(* next language's block or into the image.                                   *)
ReadsStayInside ==
  found.is = "banner" =>
    \A s \in found.spans : /\ s[1] + s[2] <= blob.length
                           /\ \A t \in found.spans : s # t => s[1] + s[2] <= t[1] \/ t[1] + t[2] <= s[1]

(* Every pixel lands once, and two neighbours of a tile's row stay neighbours:*)
(* the raster is the picture and not the file.                                *)
PictureIsWhole ==
  found.is = "banner" =>
    /\ {found.pixels[at] : at \in DOMAIN found.pixels} = 0 .. Wide * High - 1
    /\ \A y \in 0 .. High - 1, x \in 0 .. Wide - 1 :
         found.pixels[y * Wide + x] =
           ((y \div TILE) * (Wide \div TILE) + x \div TILE) * TILE * TILE + (y % TILE) * TILE + (x % TILE)

(* A channel of few bits becomes the nearest of 0..255 to within one: black   *)
(* stays black, white white, and an opaque pixel of one encoding is as opaque *)
(* as one of the other.                                                       *)
Near(shown, c, top) == shown * top - 255 * c \in -top .. top
ColoursAreFaithful ==
  found.is = "banner" =>
    LET v == blob.value
        c == found.colour
    IN IF v >= 32768
       THEN /\ Near(c.red, field(v, 10, 5), 31) /\ Near(c.green, field(v, 5, 5), 31)
            /\ Near(c.blue, field(v, 0, 5), 31) /\ c.alpha = 255
       ELSE /\ Near(c.red, field(v, 8, 4), 15) /\ Near(c.green, field(v, 4, 4), 15)
            /\ Near(c.blue, field(v, 0, 4), 15) /\ Near(c.alpha, field(v, 12, 3), 7)
            /\ field(v, 12, 3) = 7 => c.alpha = 255
=============================================================================
