---------------------------- MODULE PartsProofs -----------------------------
(***************************************************************************)
(* Theorems about the parts of a room that handle data, and about the      *)
(* lobby, as MCParts puts them together: the banners, the descriptors of   *)
(* the frame socket, the saves and the doors here, the other parts in      *)
(* DataProofs and LobbyProofs.  Each part has its inductive invariant; a   *)
(* step of the whole is a step of each part or leaves it alone, so that    *)
(* what a part keeps alone it keeps among the others.                      *)
(***************************************************************************)
EXTENDS MCParts, DataProofs, LobbyProofs, FiniteSetTheorems, WellFoundedInduction, TLAPS

-----------------------------------------------------------------------------
(* The banners: where their words, their tiles and their colours are        *)
(* (banner.rs)                                                              *)

\* What is said of a banner that was read, of whatever bytes.
BannerSaid(b) ==
    b.is = "banner" =>
        /\ \A s \in b.spans : /\ s[1] + s[2] <= blob.length
                              /\ \A t \in b.spans : s # t => s[1] + s[2] <= t[1] \/ t[1] + t[2] <= s[1]
        /\ b.pixels = untile /\ b.colour = rgb5a3(blob.value)

BannerInv ==
    /\ blob \in [magic : Magics, length : Lengths, french : BOOLEAN, value : PixelValues]
    /\ BannerTypeOK /\ BannerSaid(found)

\* The place of a pixel in the file, by its place in the raster, and back.
Pixel(y, x) == ((y \div TILE) * (Wide \div TILE) + x \div TILE) * TILE * TILE + (y % TILE) * TILE + (x % TILE)
Row(n) == ((n \div (TILE * TILE)) \div (Wide \div TILE)) * TILE + (n % (TILE * TILE)) \div TILE
Column(n) == ((n \div (TILE * TILE)) % (Wide \div TILE)) * TILE + (n % TILE)

\* What the parameters are.
LEMMA BannerParameters ==
    /\ Wide \in Nat /\ High \in Nat /\ Wide % 4 = 0 /\ High % 4 = 0
    /\ \A v \in PixelValues : v \in PixelWord
    /\ \A l \in Lengths : l \in Nat
BY BannerAssumption DEF TILE

\* The side of a tile, worked out once.
LEMMA TilesOfFour == TILE = 4 /\ TILE * TILE = 16
BY DEF TILE

\* The places with it worked out.
LEMMA PlacesInTiles ==
    ASSUME NEW n \in Int
    PROVE  /\ Row(n) = ((n \div 16) \div (Wide \div 4)) * 4 + (n % 16) \div 4
           /\ Column(n) = ((n \div 16) % (Wide \div 4)) * 4 + (n % 4)
           /\ Lands(n) = Row(n) * Wide + ((n \div 16) % (Wide \div 4)) * 4 + (n % 4)
<1>1. n \div (TILE * TILE) = n \div 16 /\ n % (TILE * TILE) = n % 16 /\ n % TILE = n % 4 /\ Wide \div TILE = Wide \div 4
  BY TilesOfFour
<1>2. Row(n) = ((n \div 16) \div (Wide \div 4)) * 4 + (n % 16) \div 4
  BY <1>1, TilesOfFour DEF Row
<1>3. Column(n) = ((n \div 16) % (Wide \div 4)) * 4 + (n % 4)
  BY <1>1, TilesOfFour DEF Column
<1>4. Lands(n) = Row(n) * Wide + ((n \div 16) % (Wide \div 4)) * 4 + (n % 4)
  <2>1. Lands(n) = Row(n) * Wide + ((n \div (TILE * TILE)) % (Wide \div TILE)) * TILE + (n % TILE)
    BY DEF Lands, Row
  <2>2. ((n \div (TILE * TILE)) % (Wide \div TILE)) * TILE = ((n \div 16) % (Wide \div 4)) * 4
    BY <1>1, TilesOfFour
  <2> QED BY <1>1, <2>1, <2>2
<1> QED BY <1>2, <1>3, <1>4

\* An image is made of whole tiles.
LEMMA BannerSides ==
    ASSUME Wide # 0
    PROVE  /\ Wide \in Nat \ {0} /\ High \in Nat
           /\ Wide \div 4 \in Nat \ {0} /\ Wide = 4 * (Wide \div 4)
           /\ High \div 4 \in Nat /\ High = 4 * (High \div 4)
           /\ Wide * High = 16 * ((Wide \div 4) * (High \div 4))
<1>1. /\ Wide \in Nat \ {0} /\ High \in Nat /\ Wide % 4 = 0 /\ High % 4 = 0
  BY BannerParameters
<1>2. /\ Wide \div 4 \in Nat /\ Wide = 4 * (Wide \div 4) + 0
      /\ High \div 4 \in Nat /\ High = 4 * (High \div 4) + 0
  BY <1>1, Division
<1> DEFINE w == Wide \div 4
           h == High \div 4
<1>3. w \in Nat /\ h \in Nat /\ Wide = 4 * w /\ High = 4 * h
  BY <1>2
<1> HIDE DEF w, h
<1>4. (4 * w) * (4 * h) = 16 * (w * h)
  BY <1>3
<1>5. w # 0
  BY <1>1, <1>3
<1> QED BY <1>1, <1>3, <1>4, <1>5 DEF w, h

\* Each pixel of the file lands on one place of the raster, of which it is the pixel.
LEMMA LandsInside ==
    ASSUME NEW n \in 0 .. Wide * High - 1
    PROVE  /\ Wide # 0 /\ Row(n) \in 0 .. High - 1 /\ Column(n) \in 0 .. Wide - 1
           /\ Lands(n) = Row(n) * Wide + Column(n) /\ Pixel(Row(n), Column(n)) = n
<1>1. Wide # 0
  <2> SUFFICES ASSUME Wide = 0 PROVE FALSE
    OBVIOUS
  <2>1. High \in Int /\ 0 * High = 0
    BY BannerParameters
  <2> QED BY <2>1
<1> DEFINE w == Wide \div 4
           h == High \div 4
           tile == n \div 16
           a == tile \div w
           b == tile % w
           m == n % 16
           r == m \div 4
           c == m % 4
<1>2. w \in Nat \ {0} /\ h \in Nat /\ Wide = 4 * w /\ High = 4 * h /\ Wide * High = 16 * (w * h)
  BY <1>1, BannerSides
<1> HIDE DEF w, h
<1>3. w * h \in Nat /\ n \in Nat /\ n < 16 * (w * h)
  <2>1. w * h \in Nat
    BY <1>2
  <2> HIDE DEF w, h
  <2> QED BY <1>2, <2>1
<1>4. tile \in Nat /\ m \in 0 .. 15 /\ n = 16 * tile + m
  BY <1>3, Division
<1>5. r \in 0 .. 3 /\ c \in 0 .. 3 /\ m = 4 * r + c
  BY <1>4
<1>6. a \in Nat /\ b \in 0 .. w - 1 /\ tile = w * a + b
  BY <1>2, <1>4, Division
<1>7. n % 4 = c
  <2>1. n = c + 4 * (4 * tile + r) /\ 4 * tile + r \in Nat
    BY <1>4, <1>5
  <2> HIDE DEF c, r, tile
  <2> QED BY <1>5, <2>1, OneQuotient
<1>8. /\ Row(n) = a * 4 + r /\ Column(n) = b * 4 + (n % 4)
      /\ Lands(n) = Row(n) * Wide + b * 4 + (n % 4)
  BY PlacesInTiles DEF w
<1> HIDE DEF a, b, r, c, tile, m
<1>9. a < h
  <2> SUFFICES ASSUME a >= h PROVE FALSE
    BY <1>2, <1>6
  <2>1. w * a >= w * h
    BY <1>2, <1>6
  <2>2. w * a \in Nat
    BY <1>2, <1>6
  <2> QED BY <1>2, <1>3, <1>4, <1>6, <2>1, <2>2
<1>10. Row(n) \in 0 .. High - 1 /\ Column(n) \in 0 .. Wide - 1
  BY <1>2, <1>5, <1>6, <1>7, <1>8, <1>9
<1>11. Lands(n) = Row(n) * Wide + Column(n)
  <2>1. Row(n) * Wide \in Int
    BY <1>2, <1>10
  <2> QED BY <1>5, <1>6, <1>7, <1>8, <2>1
<1>12. Pixel(Row(n), Column(n)) = n
  <2>1. /\ (r + 4 * a) \div 4 = a /\ (r + 4 * a) % 4 = r
        /\ (c + 4 * b) \div 4 = b /\ (c + 4 * b) % 4 = c
    BY <1>5, <1>6
  <2>2. Row(n) = r + 4 * a /\ Column(n) = c + 4 * b
    <3>1. a * 4 = 4 * a /\ b * 4 = 4 * b
      BY <1>6
    <3> QED BY <1>5, <1>6, <1>7, <1>8, <3>1
  <2>3. Pixel(Row(n), Column(n)) = (a * w + b) * 4 * 4 + r * 4 + c
    BY <2>1, <2>2, TilesOfFour DEF Pixel, w
  <2>4. a * w = w * a /\ w * a \in Nat
    BY <1>2, <1>6
  <2> QED BY <1>4, <1>5, <1>6, <2>3, <2>4
<1> QED BY <1>1, <1>10, <1>11, <1>12

\* And each place of the raster has its pixel.
LEMMA EveryPlaceLands ==
    ASSUME NEW y \in 0 .. High - 1, NEW x \in 0 .. Wide - 1
    PROVE  /\ Pixel(y, x) \in 0 .. Wide * High - 1 /\ Lands(Pixel(y, x)) = y * Wide + x
           /\ y * Wide + x \in 0 .. Wide * High - 1
<1> DEFINE w == Wide \div 4
           h == High \div 4
           a == y \div 4
           r == y % 4
           b == x \div 4
           c == x % 4
           tile == a * w + b
           n == Pixel(y, x)
<1>0. Wide # 0 /\ y \in Nat /\ x \in Nat
  BY BannerParameters
<1>1. w \in Nat \ {0} /\ h \in Nat /\ Wide = 4 * w /\ High = 4 * h /\ Wide * High = 16 * (w * h)
  BY <1>0, BannerSides
<1>2. /\ a \in Nat /\ r \in 0 .. 3 /\ y = 4 * a + r
      /\ b \in Nat /\ c \in 0 .. 3 /\ x = 4 * b + c
  BY <1>0
<1>3. n = tile * 4 * 4 + r * 4 + c
  BY TilesOfFour DEF Pixel
<1> HIDE DEF w, h, a, r, b, c, n
<1>4. a <= h - 1 /\ b <= w - 1
  BY <1>1, <1>2
<1>5. a * w \in Nat /\ w * h \in Nat /\ a * w <= w * h - w
  <2>1. w * a <= w * (h - 1)
    BY <1>1, <1>2, <1>4
  <2>2. w * (h - 1) = w * h - w
    BY <1>1
  <2> QED BY <1>1, <1>2, <2>1, <2>2
<1>6. tile \in Nat /\ tile <= w * h - 1
  BY <1>1, <1>2, <1>4, <1>5
<1>7. tile \div w = a /\ tile % w = b
  <2>1. tile = b + w * a /\ b \in 0 .. w - 1
    BY <1>1, <1>2, <1>4, <1>5
  <2> HIDE DEF tile
  <2> QED BY <1>1, <1>2, <2>1, OneQuotient
<1> HIDE DEF tile
<1>8. n \in 0 .. Wide * High - 1
  BY <1>1, <1>2, <1>3, <1>5, <1>6
<1>9. n \div 16 = tile /\ n % 16 = 4 * r + c /\ (n % 16) \div 4 = r /\ n % 4 = c
  BY <1>2, <1>3, <1>6
<1>10. Row(n) = (tile \div w) * 4 + r /\ Lands(n) = Row(n) * Wide + (tile % w) * 4 + c
  <2>1. n \in Int
    BY <1>8
  <2> QED BY <1>9, <2>1, PlacesInTiles DEF w
<1>11. Lands(n) = y * Wide + x
  <2>1. (tile \div w) * 4 + r = y
    BY <1>2, <1>7
  <2>2. y * Wide \in Int
    BY <1>0, <1>1
  <2> QED BY <1>2, <1>7, <1>10, <2>1, <2>2
<1>12. y * Wide + x \in 0 .. Wide * High - 1
  <2>1. Wide * y <= Wide * (High - 1)
    BY <1>0, BannerParameters
  <2>2. Wide * (High - 1) = Wide * High - Wide /\ y * Wide = Wide * y /\ Wide * y \in Nat /\ Wide * High \in Int
    BY <1>0, BannerParameters
  <2> QED BY <1>0, <2>1, <2>2, BannerParameters
<1> QED BY <1>8, <1>11, <1>12 DEF n

\* So the raster shows the picture.
LEMMA UntileIsWhole ==
    /\ {untile[spot] : spot \in DOMAIN untile} = 0 .. Wide * High - 1
    /\ \A y \in 0 .. High - 1, x \in 0 .. Wide - 1 : untile[y * Wide + x] = Pixel(y, x)
<1> DEFINE N == 0 .. Wide * High - 1
<1>1. DOMAIN untile = N /\ \A spot \in N : untile[spot] = CHOOSE n \in N : Lands(n) = spot
  BY DEF untile
<1>2. ASSUME NEW y \in 0 .. High - 1, NEW x \in 0 .. Wide - 1, NEW n \in N, Lands(n) = y * Wide + x
      PROVE  n = Pixel(y, x)
  <2>1. /\ Wide \in Nat \ {0} /\ Row(n) \in 0 .. High - 1 /\ Column(n) \in 0 .. Wide - 1
        /\ Row(n) * Wide + Column(n) = y * Wide + x /\ Pixel(Row(n), Column(n)) = n
    BY <1>2, LandsInside, BannerParameters
  <2>2. Column(n) + Wide * Row(n) = x + Wide * y
    <3>1. Row(n) * Wide = Wide * Row(n) /\ y * Wide = Wide * y /\ Wide * y \in Int /\ Wide * Row(n) \in Int
      BY <2>1
    <3> QED BY <2>1, <3>1
  <2>3. Row(n) = y /\ Column(n) = x
    <3>1. Row(n) \in Nat /\ y \in Nat
      BY <2>1
    <3>2. (x + Wide * y) \div Wide = y /\ (x + Wide * y) % Wide = x
      BY <2>1, <3>1, OneQuotient
    <3>3. (Column(n) + Wide * Row(n)) \div Wide = Row(n) /\ (Column(n) + Wide * Row(n)) % Wide = Column(n)
      BY <2>1, <3>1, OneQuotient
    <3> QED BY <2>2, <3>2, <3>3
  <2> QED BY <2>1, <2>3
<1>3. ASSUME NEW y \in 0 .. High - 1, NEW x \in 0 .. Wide - 1
      PROVE  y * Wide + x \in N /\ untile[y * Wide + x] = Pixel(y, x) /\ Pixel(y, x) \in N
  <2>1. Pixel(y, x) \in N /\ Lands(Pixel(y, x)) = y * Wide + x /\ y * Wide + x \in N
    BY EveryPlaceLands
  <2> HIDE DEF N
  <2> QED BY <1>1, <1>2, <2>1
<1>4. ASSUME NEW spot \in N PROVE untile[spot] \in N
  <2>1. Wide \in Nat \ {0} /\ High \in Nat /\ spot \in Nat
    <3>1. Wide # 0
      BY LandsInside
    <3> QED BY <3>1, BannerParameters
  <2>2. spot = Wide * (spot \div Wide) + (spot % Wide) /\ spot \div Wide \in Nat /\ spot % Wide \in 0 .. Wide - 1
    BY <2>1, Division
  <2>3. spot \div Wide \in 0 .. High - 1
    <3> DEFINE y == spot \div Wide
    <3>1. y \in Nat /\ spot >= Wide * y /\ spot < Wide * High /\ Wide * y \in Nat
      BY <2>1, <2>2
    <3> HIDE DEF y
    <3>2. ~(y >= High)
      <4> SUFFICES ASSUME y >= High PROVE FALSE
        OBVIOUS
      <4>1. Wide * y >= Wide * High /\ Wide * High \in Nat
        BY <2>1, <3>1
      <4> QED BY <2>1, <3>1, <4>1
    <3>3. y \in 0 .. High - 1
      BY <2>1, <3>1, <3>2
    <3> QED BY <3>3 DEF y
  <2>4. (spot \div Wide) * Wide + (spot % Wide) = spot
    BY <2>1, <2>2
  <2> QED BY <1>3, <2>2, <2>3, <2>4
<1>5. ASSUME NEW n \in N PROVE \E spot \in N : untile[spot] = n
  <2>1. /\ Row(n) \in 0 .. High - 1 /\ Column(n) \in 0 .. Wide - 1 /\ Pixel(Row(n), Column(n)) = n
    BY LandsInside
  <2>2. Row(n) * Wide + Column(n) \in N /\ untile[Row(n) * Wide + Column(n)] = n
    BY <1>3, <2>1
  <2> HIDE DEF N
  <2> QED BY <2>2
<1> HIDE DEF N
<1>6. {untile[spot] : spot \in DOMAIN untile} = N
  BY <1>1, <1>4, <1>5
<1> QED BY <1>3, <1>6 DEF N

\* A channel is shown to within one of its share of 255.
LEMMA ChannelsAreNear ==
    ASSUME NEW v \in PixelWord
    PROVE  LET c == rgb5a3(v) IN
           IF v >= 32768
           THEN /\ Near(c.red, field(v, 10, 5), 31) /\ Near(c.green, field(v, 5, 5), 31)
                /\ Near(c.blue, field(v, 0, 5), 31) /\ c.alpha = 255
           ELSE /\ Near(c.red, field(v, 8, 4), 15) /\ Near(c.green, field(v, 4, 4), 15)
                /\ Near(c.blue, field(v, 0, 4), 15) /\ Near(c.alpha, field(v, 12, 3), 7)
                /\ field(v, 12, 3) = 7 => c.alpha = 255
<1>0. v \in Nat /\ v < 65536
  BY DEF PixelWord
<1>1. /\ field(v, 10, 5) \in 0 .. 31 /\ field(v, 5, 5) \in 0 .. 31 /\ field(v, 0, 5) \in 0 .. 31
      /\ field(v, 8, 4) \in 0 .. 15 /\ field(v, 4, 4) \in 0 .. 15 /\ field(v, 0, 4) \in 0 .. 15
      /\ field(v, 12, 3) \in 0 .. 7
  <2>1. field(v, 10, 5) \in 0 .. 31
    BY <1>0 DEF field
  <2>2. field(v, 5, 5) \in 0 .. 31
    BY <1>0 DEF field
  <2>3. field(v, 0, 5) \in 0 .. 31
    BY <1>0 DEF field
  <2>4. field(v, 8, 4) \in 0 .. 15
    BY <1>0 DEF field
  <2>5. field(v, 4, 4) \in 0 .. 15
    BY <1>0 DEF field
  <2>6. field(v, 0, 4) \in 0 .. 15
    BY <1>0 DEF field
  <2>7. field(v, 12, 3) \in 0 .. 7
    BY <1>0 DEF field
  <2> QED BY <2>1, <2>2, <2>3, <2>4, <2>5, <2>6, <2>7
<1>2. field(v, 15, 1) = 0 <=> v < 32768
  <2>1. 2 ^ 15 = 32768 /\ 2 ^ 1 = 2
    OBVIOUS
  <2>2. field(v, 15, 1) = (v \div 32768) % 2
    BY <2>1 DEF field
  <2> QED BY <1>0, <2>2
<1>3. \A c \in 0 .. 31 : Near(from5(c), c, 31)
  BY DEF Near, from5
<1>4. \A c \in 0 .. 15 : Near(from4(c), c, 15)
  BY DEF Near, from4
<1>5. \A a \in 0 .. 7 : Near(from3(a), a, 7) /\ (a = 7 => from3(a) = 255)
  BY DEF Near, from3
<1>6. CASE v >= 32768
  <2>0. field(v, 15, 1) # 0
    BY <1>0, <1>2, <1>6
  <2>1. rgb5a3(v) = [red |-> from5(field(v, 10, 5)), green |-> from5(field(v, 5, 5)),
                     blue |-> from5(field(v, 0, 5)), alpha |-> 255]
    BY <2>0 DEF rgb5a3
  <2> QED BY <1>1, <1>3, <1>6, <2>1
<1>7. CASE ~(v >= 32768)
  <2>0. field(v, 15, 1) = 0
    BY <1>0, <1>2, <1>7
  <2>1. rgb5a3(v) = [red |-> from4(field(v, 8, 4)), green |-> from4(field(v, 4, 4)),
                     blue |-> from4(field(v, 0, 4)), alpha |-> from3(field(v, 12, 3))]
    BY <2>0 DEF rgb5a3
  <2> QED BY <1>1, <1>4, <1>5, <1>7, <2>1
<1> QED BY <1>6, <1>7

\* A file long enough for its languages holds all that is read of it.
LEMMA DiscSpans ==
    ASSUME NEW b \in [magic : Magics, length : Lengths, french : BOOLEAN, value : PixelValues],
           b.magic \in DOMAIN Languages, b.length >= TEXT_AT + Languages[b.magic] * BLOCK
    PROVE  \A s \in Spans(b) :
             /\ s[1] + s[2] <= b.length
             /\ \A t \in Spans(b) : s # t => s[1] + s[2] <= t[1] \/ t[1] + t[2] <= s[1]
<1> DEFINE block == Block_at(words_of(b))
<1>1. TEXT_AT = 6176 /\ BLOCK = 320 /\ IMAGE_AT = 32 /\ GC_W * GC_H * 2 = 6144
  BY DEF TEXT_AT, BLOCK, IMAGE_AT, GC_W, GC_H
<1>2. b.length \in Nat
  BY BannerParameters
<1>3. \/ Languages[b.magic] = 1 /\ block = 6176
      \/ Languages[b.magic] = 6 /\ block \in {6176, 6816}
  BY <1>1 DEF Languages, words_of, Block_at, FRENCH, ENGLISH
<1>4. block >= 6176 /\ block + 320 <= b.length
  BY <1>1, <1>2, <1>3
<1>5. Spans(b) = {<<32, 6144>>, <<block + 64, 64>>, <<block + 128, 64>>, <<block + 192, 128>>}
  BY <1>1 DEF Spans
<1>6. block \in Int
  BY <1>3
<1> HIDE DEF block
<1> QED BY <1>2, <1>4, <1>5, <1>6

\* And of the banner of a save.
LEMMA SaveSpans ==
    ASSUME NEW b \in [magic : Magics, length : Lengths, french : BOOLEAN, value : PixelValues],
           b.length >= WII_IMAGE_AT + WII_W * WII_H * 2
    PROVE  \A s \in WiiSpans :
             /\ s[1] + s[2] <= b.length
             /\ \A t \in WiiSpans : s # t => s[1] + s[2] <= t[1] \/ t[1] + t[2] <= s[1]
<1>1. WII_IMAGE_AT + WII_W * WII_H * 2 = 24736 /\ WiiSpans = {<<160, 24576>>, <<32, 64>>, <<96, 64>>}
  BY DEF WII_IMAGE_AT, WII_W, WII_H, WiiSpans
<1>2. b.length \in Nat
  BY BannerParameters
<1> QED BY <1>1, <1>2

\* A banner is not read yet at first, and is read by one of the two readers.
LEMMA BannerBegins == BannerInit => BannerInv
<1> SUFFICES ASSUME BannerInit PROVE BannerInv
  OBVIOUS
<1>1. found.is = "unread"
  BY DEF BannerInit, Unread
<1> QED BY <1>1 DEF BannerInit, BannerInv, BannerTypeOK, BannerSaid

LEMMA BannerStep == BannerInv /\ [BannerNext]_bannerVars => BannerInv'
<1> SUFFICES ASSUME BannerInv, [BannerNext]_bannerVars PROVE BannerInv'
  OBVIOUS
<1>0. blob \in [magic : Magics, length : Lengths, french : BOOLEAN, value : PixelValues] /\ blob' = blob
  BY DEF BannerInv, BannerNext, ReadDisc, ReadSave, bannerVars
<1>1. CASE found' = found
  BY <1>0, <1>1 DEF BannerInv, BannerTypeOK, BannerSaid
<1>2. CASE found' # found
  <2>1. found' = parse(blob) \/ found' = parse_wii(blob)
    BY <1>2 DEF BannerNext, ReadDisc, ReadSave, bannerVars
  <2>2. \/ found' = Refusal("not a banner") \/ found' = Refusal("too short")
        \/ found' = Read(blob, Spans(blob)) /\ blob.magic \in DOMAIN Languages
           /\ ~(blob.length < TEXT_AT + Languages[blob.magic] * BLOCK)
        \/ found' = Read(blob, WiiSpans) /\ ~(blob.length < WII_IMAGE_AT + WII_W * WII_H * 2)
    <3>1. CASE found' = parse(blob)
      <4> DEFINE short == blob.length < TEXT_AT + Languages[blob.magic] * BLOCK
      <4>1. parse(blob) = IF blob.magic \notin DOMAIN Languages THEN Refusal("not a banner")
                          ELSE IF short THEN Refusal("too short") ELSE Read(blob, Spans(blob))
        BY DEF parse
      <4> QED BY <3>1, <4>1
    <3>2. CASE found' = parse_wii(blob)
      <4> DEFINE short == blob.length < WII_IMAGE_AT + WII_W * WII_H * 2
      <4>1. parse_wii(blob) = IF blob.magic # "WIBN" THEN Refusal("not a banner")
                              ELSE IF short THEN Refusal("too short") ELSE Read(blob, WiiSpans)
        BY DEF parse_wii
      <4> QED BY <3>2, <4>1
    <3> QED BY <2>1, <3>1, <3>2
  <2>3. ASSUME NEW reason, found' = Refusal(reason) PROVE BannerTypeOK' /\ BannerSaid(found)'
    BY <2>3 DEF Refusal, BannerTypeOK, BannerSaid
  <2>4. ASSUME NEW spans, found' = Read(blob, spans),
               \A s \in spans : /\ s[1] + s[2] <= blob.length
                                /\ \A t \in spans : s # t => s[1] + s[2] <= t[1] \/ t[1] + t[2] <= s[1]
        PROVE  BannerTypeOK' /\ BannerSaid(found)'
    <3>1. /\ found'.is = "banner" /\ found'.spans = spans /\ found'.pixels = untile
          /\ found'.colour = rgb5a3(blob.value)
      BY <2>4 DEF Read
    <3>2. untile' = untile
      BY DEF untile
    <3> HIDE DEF Read
    <3> QED BY <1>0, <2>4, <3>1 DEF BannerTypeOK, BannerSaid
  <2>5. TEXT_AT \in Int /\ WII_IMAGE_AT + WII_W * WII_H * 2 \in Int /\ blob.length \in Nat
        /\ \A m \in DOMAIN Languages : TEXT_AT + Languages[m] * BLOCK \in Int
    BY <1>0, BannerParameters DEF TEXT_AT, WII_IMAGE_AT, WII_W, WII_H, GC_W, GC_H, IMAGE_AT, Languages, BLOCK
  <2>6. BannerTypeOK' /\ BannerSaid(found)'
    <3>1. CASE found' = Refusal("not a banner") \/ found' = Refusal("too short")
      BY <2>3, <3>1
    <3>2. CASE found' = Read(blob, Spans(blob)) /\ blob.magic \in DOMAIN Languages
               /\ ~(blob.length < TEXT_AT + Languages[blob.magic] * BLOCK)
      <4>1. blob.length >= TEXT_AT + Languages[blob.magic] * BLOCK
        BY <2>5, <3>2
      <4>2. \A s \in Spans(blob) :
              /\ s[1] + s[2] <= blob.length
              /\ \A t \in Spans(blob) : s # t => s[1] + s[2] <= t[1] \/ t[1] + t[2] <= s[1]
        BY <1>0, <3>2, <4>1, DiscSpans
      <4> QED BY <2>4, <3>2, <4>2
    <3>3. CASE found' = Read(blob, WiiSpans) /\ ~(blob.length < WII_IMAGE_AT + WII_W * WII_H * 2)
      <4>1. blob.length >= WII_IMAGE_AT + WII_W * WII_H * 2
        BY <2>5, <3>3
      <4>2. \A s \in WiiSpans :
              /\ s[1] + s[2] <= blob.length
              /\ \A t \in WiiSpans : s # t => s[1] + s[2] <= t[1] \/ t[1] + t[2] <= s[1]
        BY <1>0, <4>1, SaveSpans
      <4> QED BY <2>4, <3>3, <4>2
    <3> QED BY <2>2, <3>1, <3>2, <3>3
  <2> QED BY <1>0, <2>6 DEF BannerInv
<1> QED BY <1>1, <1>2

\* What is said of a banner is what its properties ask.
LEMMA BannerInvGives == BannerInv => BannerTypeOK /\ ReadsStayInside /\ PictureIsWhole /\ ColoursAreFaithful
<1> SUFFICES ASSUME BannerInv, found.is = "banner" PROVE ReadsStayInside /\ PictureIsWhole /\ ColoursAreFaithful
  BY DEF BannerInv, ReadsStayInside, PictureIsWhole, ColoursAreFaithful
<1>1. ReadsStayInside
  BY DEF BannerInv, BannerSaid, ReadsStayInside
<1>2. PictureIsWhole
  <2>1. found.pixels = untile
    BY DEF BannerInv, BannerSaid
  <2> QED BY <2>1, UntileIsWhole DEF PictureIsWhole, Pixel
<1>3. ColoursAreFaithful
  <2>1. found.colour = rgb5a3(blob.value) /\ blob.value \in PixelWord
    BY BannerParameters DEF BannerInv, BannerSaid
  <2> QED BY <2>1, ChannelsAreNear DEF ColoursAreFaithful
<1> QED BY <1>1, <1>2, <1>3

\* The banner of a disc or of a save is read whole, from inside the file and with
\* its own colours, whatever the length of the file (banner.rs).
THEOREM BannerAlwaysRead ==
    BannerSpec => [](BannerTypeOK /\ ReadsStayInside /\ PictureIsWhole /\ ColoursAreFaithful)
<1> QED BY BannerBegins, BannerStep, BannerInvGives, PTL DEF BannerSpec

-----------------------------------------------------------------------------
(* The descriptors of the frame socket (frame_source.rs)                    *)

USE SocketAssumption
USE DEF socketVars

Slotted == 0 .. MAX_SLOTS - 1

\* Of the ring being read: it is only there while it is read, is never whole, and
\* each of its slots was announced with its picture.
ReadingInv ==
    /\ stage # "collecting" => partial = NoRing
    /\ partial.count = 0 => partial = NoRing
    /\ partial.count # 0 => ~Full(partial) /\ DOMAIN partial.slots \subseteq 0 .. partial.count - 1
    /\ \A s \in DOMAIN partial.slots : made[partial.slots[s]] = partial.picture

SocketInv ==
    /\ FrameSocketTypeOK /\ made \in [Fds -> Pictures \union {"none"}]
    /\ DescriptorsAreOwned /\ ReadingInv /\ LentFromAWholeRing

\* A set of numbers has a least one, so the kernel has a lowest number to give.
LEMMA LowestIsThere ==
    ASSUME NEW S, S \subseteq Nat, S # {}
    PROVE  Lowest(S) \in S
<1> DEFINE R == OpToRel(<, Nat)
<1>1. IsWellFoundedOn(R, Nat)
  BY NatLessThanWellFounded
<1>2. \A x, y \in Nat : x < y => <<x, y>> \in R
  BY DEF OpToRel
<1> HIDE DEF R
<1>3. PICK x \in S : \A y \in S : ~ (<<y, x>> \in R)
  BY <1>1, WFMin
<1>4. ASSUME NEW y \in S PROVE x <= y
  <2>1. x \in Nat /\ y \in Nat /\ ~(y < x)
    BY <1>2, <1>3
  <2> QED BY <2>1
<1> QED BY <1>4 DEF Lowest

\* What a ring is made of.
LEMMA RingParts ==
    ASSUME NEW r \in Rings
    PROVE  /\ r.count \in 0 .. MAX_SLOTS /\ r.picture \in Pictures \union {"none"}
           /\ r = [count |-> r.count, picture |-> r.picture, slots |-> r.slots]
           /\ DOMAIN r.slots \subseteq Slotted
           /\ r.slots \in [DOMAIN r.slots -> Fds]
           /\ IsFiniteSet(DOMAIN r.slots) /\ Cardinality(DOMAIN r.slots) \in 0 .. MAX_SLOTS
           /\ IsFiniteSet(Owned(r)) /\ Cardinality(Owned(r)) \in 0 .. MAX_SLOTS
           /\ Owned(r) \subseteq Fds
<1> DEFINE D == DOMAIN r.slots
<1>1. PICK S \in SUBSET Slotted : r.slots \in [S -> Fds]
  BY DEF Rings, Slotted
<1>2. D = S
  BY <1>1
<1>3. IsFiniteSet(Slotted) /\ Cardinality(Slotted) = MAX_SLOTS
  BY FS_Interval DEF Slotted
<1>4. IsFiniteSet(D) /\ Cardinality(D) <= MAX_SLOTS
  BY <1>1, <1>2, <1>3, FS_Subset
<1>5. Cardinality(D) \in Nat
  BY <1>4, FS_CardinalityType
<1>6. r.slots \in Surjection(D, Owned(r))
  BY <1>1, <1>2 DEF Surjection, Owned, Range
<1>7. IsFiniteSet(Owned(r)) /\ Cardinality(Owned(r)) <= Cardinality(D)
  BY <1>4, <1>6, FS_Surjection
<1>8. Cardinality(Owned(r)) \in Nat
  BY <1>7, FS_CardinalityType
<1>9. Owned(r) \subseteq Fds
  BY <1>1, <1>2 DEF Owned, Range
<1>10. Cardinality(D) \in 0 .. MAX_SLOTS /\ Cardinality(Owned(r)) \in 0 .. MAX_SLOTS
  BY <1>4, <1>5, <1>7, <1>8
<1>11. /\ r.count \in 0 .. MAX_SLOTS /\ r.picture \in Pictures \union {"none"}
       /\ r = [count |-> r.count, picture |-> r.picture, slots |-> r.slots]
  BY DEF Rings
<1> QED BY <1>1, <1>2, <1>4, <1>7, <1>9, <1>10, <1>11

LEMMA RingMade ==
    ASSUME NEW c \in 0 .. MAX_SLOTS, NEW p \in Pictures \union {"none"},
           NEW S, S \subseteq Slotted, NEW f \in [S -> Fds]
    PROVE  [count |-> c, picture |-> p, slots |-> f] \in Rings
BY DEF Rings, Slotted

LEMMA NoRingFacts ==
    /\ NoRing \in Rings /\ Owned(NoRing) = {} /\ DOMAIN NoRing.slots = {}
    /\ NoRing.count = 0 /\ NoRing.picture = "none"
<1>1. DOMAIN << >> = {} /\ << >> \in [{} -> Fds]
  OBVIOUS
<1>2. NoRing.slots = << >> /\ NoRing.count = 0 /\ NoRing.picture = "none"
  BY DEF NoRing
<1>3. NoRing \in Rings
  <2>1. 0 \in 0 .. MAX_SLOTS /\ {} \subseteq Slotted /\ "none" \in Pictures \union {"none"}
    OBVIOUS
  <2>2. [count |-> 0, picture |-> "none", slots |-> << >>] \in Rings
    BY <1>1, <2>1, RingMade
  <2> QED BY <2>2 DEF NoRing
<1>4. DOMAIN NoRing.slots = {}
  BY <1>1, <1>2
<1>5. Owned(NoRing) = {}
  BY <1>4 DEF Owned, Range
<1> QED BY <1>2, <1>3, <1>4, <1>5

\* The kernel never runs out of numbers: two are free whatever the two rings hold.
LEMMA FreeNumbers ==
    ASSUME FrameSocketTypeOK, DescriptorsAreOwned
    PROVE  /\ Lowest(Fds \ open) \in Fds \ open
           /\ Lowest((Fds \ open) \ {Lowest(Fds \ open)}) \in (Fds \ open) \ {Lowest(Fds \ open)}
<1> DEFINE free == Fds \ open
           x == Lowest(free)
<1>1. /\ IsFiniteSet(Owned(partial)) /\ Cardinality(Owned(partial)) \in 0 .. MAX_SLOTS
      /\ IsFiniteSet(Owned(ring)) /\ Cardinality(Owned(ring)) \in 0 .. MAX_SLOTS
  BY RingParts DEF FrameSocketTypeOK
<1>2. IsFiniteSet(open) /\ Cardinality(open) \in Nat /\ Cardinality(open) <= 2 * MAX_SLOTS
  <2>1. IsFiniteSet(open)
    BY <1>1, FS_Union DEF DescriptorsAreOwned
  <2>2. Cardinality(open) = Cardinality(Owned(partial)) + Cardinality(Owned(ring))
                            - Cardinality(Owned(partial) \cap Owned(ring))
    BY <1>1, FS_Union DEF DescriptorsAreOwned
  <2>3. Cardinality(Owned(partial) \cap Owned(ring)) = 0
    BY FS_EmptySet DEF DescriptorsAreOwned
  <2>4. Cardinality(open) \in Nat
    BY <2>1, FS_CardinalityType
  <2> QED BY <1>1, <2>1, <2>2, <2>3, <2>4
<1>3. ASSUME NEW y, Fds \subseteq open \union {y} PROVE FALSE
  <2>1. IsFiniteSet(open \union {y}) /\ Cardinality(open \union {y}) <= 2 * MAX_SLOTS + 1
    <3>1. /\ IsFiniteSet(open \union {y})
          /\ Cardinality(open \union {y}) = IF y \in open THEN Cardinality(open)
                                                       ELSE Cardinality(open) + 1
      BY <1>2, FS_AddElement
    <3> QED BY <1>2, <3>1
  <2>2. IsFiniteSet(Fds) /\ Cardinality(Fds) <= Cardinality(open \union {y})
    BY <1>3, <2>1, FS_Subset
  <2>3. Cardinality(Fds) \in Nat /\ Cardinality(open \union {y}) \in Nat
    BY <2>1, <2>2, FS_CardinalityType
  <2> QED BY <2>1, <2>2, <2>3
<1>4. free # {} /\ free \ {x} # {}
  BY <1>3
<1>5. free \subseteq Nat /\ free \ {x} \subseteq Nat
  OBVIOUS
<1> QED BY <1>4, <1>5, LowestIsThere

\* What comes with a message was not open, and all but its first descriptor is
\* closed at once.
LEMMA InstalledFacts ==
    ASSUME FrameSocketTypeOK, DescriptorsAreOwned, NEW n \in 0 .. 2
    PROVE  /\ Range(Installed(n)) \subseteq Fds \ open
           /\ n > 0 => /\ Installed(n)[1] \in Range(Installed(n))
                       /\ Surplus(Installed(n)) = Range(Installed(n)) \ {Installed(n)[1]}
<1> DEFINE x == Lowest(Fds \ open)
           y == Lowest((Fds \ open) \ {x})
<1>1. x \in Fds \ open /\ y \in (Fds \ open) \ {x}
  BY FreeNumbers
<1> HIDE DEF x, y
<1>2. CASE n = 0
  BY <1>2 DEF Installed, Range
<1>3. CASE n = 1
  <2>1. Installed(n) = <<x>>
    BY <1>3 DEF Installed, x
  <2>2. Range(<<x>>) = {x} /\ Surplus(<<x>>) = {}
    BY DEF Range, Surplus
  <2> QED BY <1>1, <1>3, <2>1, <2>2
<1>4. CASE n = 2
  <2>1. Installed(n) = <<x, y>>
    BY <1>4 DEF Installed, x, y
  <2>2. Range(<<x, y>>) = {x, y} /\ Surplus(<<x, y>>) = {y}
    <3>1. Range(<<x, y>>) = {x, y}
      BY DEF Range
    <3>2. {<<x, y>>[i] : i \in DOMAIN <<x, y>> \cap {1}} = {x}
      OBVIOUS
    <3> QED BY <1>1, <3>1, <3>2 DEF Surplus
  <2> QED BY <1>1, <1>4, <2>1, <2>2
<1> QED BY <1>2, <1>3, <1>4

\* An error closes everything that was open and nothing else.
LEMMA FailKeeps ==
    ASSUME SocketInv, NEW error, NEW got, Range(got) \subseteq Fds \ open, Fail(error, got)
    PROVE  SocketInv'
<1>1. open' = {} /\ partial' = NoRing /\ ring' = NoRing /\ stage' = "ended" /\ lent' = -1 /\ made' = made
  BY DEF Fail, SocketInv, DescriptorsAreOwned
<1>2. FrameSocketTypeOK' /\ (made \in [Fds -> Pictures \union {"none"}])'
  BY <1>1, NoRingFacts DEF SocketInv, FrameSocketTypeOK
<1>3. DescriptorsAreOwned'
  BY <1>1, NoRingFacts DEF DescriptorsAreOwned
<1>4. ReadingInv' /\ LentFromAWholeRing'
  BY <1>1, NoRingFacts DEF ReadingInv, LentFromAWholeRing
<1> QED BY <1>2, <1>3, <1>4 DEF SocketInv

\* A slot more, with a descriptor nobody had.
Grows(now, r, slot, d) ==
    /\ now.count = r.count /\ now.picture = r.picture
    /\ DOMAIN now.slots = DOMAIN r.slots \union {slot}
    /\ now.slots[slot] = d /\ \A s \in DOMAIN r.slots : now.slots[s] = r.slots[s]

LEMMA PlacedFacts ==
    ASSUME NEW r \in Rings, NEW slot \in Slotted, slot \notin DOMAIN r.slots,
           NEW d \in Fds \ Owned(r)
    PROVE  /\ Placed(r, slot, d) \in Rings /\ Grows(Placed(r, slot, d), r, slot, d)
           /\ Owned(Placed(r, slot, d)) = Owned(r) \union {d}
<1> DEFINE now == Placed(r, slot, d)
           f == [s \in DOMAIN r.slots \union {slot} |-> IF s = slot THEN d ELSE r.slots[s]]
<1>1. now = [count |-> r.count, picture |-> r.picture, slots |-> f]
  BY RingParts DEF Placed
<1>2. f \in [DOMAIN r.slots \union {slot} -> Fds]
  BY RingParts
<1>3. DOMAIN f = DOMAIN r.slots \union {slot} /\ f[slot] = d
      /\ \A s \in DOMAIN r.slots : f[s] = r.slots[s]
  OBVIOUS
<1> HIDE DEF f
<1>4. now \in Rings
  BY <1>1, <1>2, RingMade, RingParts
<1>5. Grows(now, r, slot, d)
  BY <1>1, <1>3 DEF Grows
<1>6. Owned(now) = Owned(r) \union {d}
  BY <1>1, <1>3 DEF Owned, Range
<1> QED BY <1>4, <1>5, <1>6

\* A ring that has as many slots as it says has all of them.
LEMMA FullHasAll ==
    ASSUME NEW r \in Rings, DOMAIN r.slots \subseteq 0 .. r.count - 1, Full(r)
    PROVE  DOMAIN r.slots = 0 .. r.count - 1
<1>1. r.count \in Nat
  BY RingParts
<1>2. IsFiniteSet(0 .. r.count - 1) /\ Cardinality(0 .. r.count - 1) = r.count
  <2>1. /\ IsFiniteSet(0 .. r.count - 1)
        /\ Cardinality(0 .. r.count - 1) = IF 0 > r.count - 1 THEN 0 ELSE (r.count - 1) - 0 + 1
    <3>1. 0 \in Int /\ r.count - 1 \in Int
      BY <1>1
    <3> HIDE DEF Slotted
    <3> QED BY ONLY <3>1, FS_Interval
  <2> QED BY <1>1, <2>1
<1> QED BY <1>2, FS_Subset DEF Full

\* What a header that is accepted begins or goes on with.
LEMMA BegunFacts ==
    ASSUME SocketInv, NEW h \in Headers, parses(h), ~Disagrees(h)
    PROVE  /\ Begun(h) \in Rings /\ h.slot \in Slotted /\ h.slot \notin DOMAIN Begun(h).slots
           /\ h.slot < Begun(h).count /\ h.picture = Begun(h).picture
           /\ Owned(Begun(h)) = Owned(partial)
           /\ partial.count # 0 => Begun(h) = partial
           /\ partial.count = 0 => Begun(h).count = h.count /\ DOMAIN Begun(h).slots = {}
           /\ DOMAIN Begun(h).slots \subseteq 0 .. Begun(h).count - 1
           /\ \A s, t \in DOMAIN Begun(h).slots : Begun(h).slots[s] = Begun(h).slots[t] => s = t
           /\ \A s \in DOMAIN Begun(h).slots : made[Begun(h).slots[s]] = Begun(h).picture
<1> DEFINE b == Begun(h)
<1>1. /\ h.slot \in 0 .. MAX_SLOTS /\ h.count \in 0 .. MAX_SLOTS /\ h.picture \in Pictures
      /\ h.count > 0 /\ h.slot < h.count
  BY DEF Headers, parses
<1>2. partial \in Rings /\ (partial.count = 0 => partial = NoRing)
  BY DEF SocketInv, FrameSocketTypeOK, ReadingInv
<1>3. CASE partial.count = 0
  <2>1. b = [count |-> h.count, picture |-> h.picture, slots |-> << >>]
    BY <1>3 DEF Begun
  <2>2. << >> \in [{} -> Fds]
    OBVIOUS
  <2>3. b \in Rings
    BY <1>1, <2>1, <2>2, RingMade
  <2>4. b.count = h.count /\ b.picture = h.picture /\ DOMAIN b.slots = {}
    BY <2>1
  <2>5. Owned(b) = {}
    BY <2>4 DEF Owned, Range
  <2>6. Owned(partial) = {}
    BY <1>2, <1>3, NoRingFacts
  <2> HIDE DEF b
  <2> QED BY <1>1, <1>3, <2>3, <2>4, <2>5, <2>6 DEF b, Slotted
<1>4. CASE partial.count # 0
  <2>1. b = partial
    BY <1>4 DEF Begun
  <2>2. /\ "slot out of range" \notin Refusals(h) /\ "duplicate slot" \notin Refusals(h)
        /\ "inconsistent ring" \notin Refusals(h)
    BY DEF Disagrees
  <2>3. h.slot < partial.count
    <3>1. ~(h.slot >= b.count)
      BY <2>2 DEF Refusals
    <3> QED BY <1>1, <1>2, <2>1, <3>1, RingParts
  <2>4. h.slot \notin DOMAIN b.slots /\ h.picture = b.picture
    <3> HIDE DEF b
    <3>1. h.slot \notin DOMAIN b.slots
      BY <2>2 DEF Refusals, b
    <3>2. h.picture = b.picture
      BY <2>2 DEF Refusals, b
    <3> QED BY <3>1, <3>2
  <2>5. h.slot \in Slotted
    BY <1>1, <1>2, <2>3, RingParts DEF Slotted
  <2> QED BY <1>2, <1>4, <2>1, <2>3, <2>4, <2>5 DEF SocketInv, ReadingInv, DescriptorsAreOwned
<1> QED BY <1>3, <1>4

\* A header that is accepted: its descriptor goes into the ring that is read, and
\* a ring that is whole takes the place of the one in use.
LEMMA CollectKeeps ==
    ASSUME SocketInv, NEW h \in Headers, stage \in {"collecting", "frames"},
           parses(h), h.fds > 0, collect(h, Installed(h.fds))
    PROVE  /\ SocketInv'
           /\ stage = "collecting" /\ stage' = "collecting" => Missing' < Missing
<1> DEFINE got == Installed(h.fds)
           d == got[1]
           b == Begun(h)
           now == Placed(b, h.slot, d)
<1>1. ~Disagrees(h)
  BY DEF collect
<1>2. /\ b \in Rings /\ h.slot \in Slotted /\ h.slot \notin DOMAIN b.slots
      /\ h.slot < b.count /\ h.picture = b.picture
      /\ Owned(b) = Owned(partial)
      /\ DOMAIN b.slots \subseteq 0 .. b.count - 1
      /\ \A s, t \in DOMAIN b.slots : b.slots[s] = b.slots[t] => s = t
      /\ \A s \in DOMAIN b.slots : made[b.slots[s]] = b.picture
  BY <1>1, BegunFacts
<1>3. /\ partial.count # 0 => b = partial
      /\ partial.count = 0 => b.count = h.count /\ DOMAIN b.slots = {}
  BY <1>1, BegunFacts
<1>4. Range(got) \subseteq Fds \ open /\ d \in Range(got) /\ Surplus(got) = Range(got) \ {d}
  BY InstalledFacts DEF SocketInv, Headers
<1>5. d \in Fds \ open /\ d \notin Owned(b) /\ d \notin Owned(ring)
  BY <1>2, <1>4 DEF SocketInv, DescriptorsAreOwned
<1>6. now \in Rings /\ Grows(now, b, h.slot, d) /\ Owned(now) = Owned(b) \union {d}
  BY <1>2, <1>5, PlacedFacts
<1>7. /\ made' = [made EXCEPT ![d] = h.picture] /\ UNCHANGED <<why, lent>>
      /\ \/ /\ Full(now) /\ stage' = "frames" /\ ring' = now /\ partial' = NoRing
            /\ open' = (open \union Range(got)) \ (Surplus(got) \union Owned(ring))
         \/ /\ ~Full(now) /\ stage' = "collecting" /\ partial' = now /\ ring' = ring
            /\ open' = (open \union Range(got)) \ Surplus(got)
  BY <1>2 DEF collect
<1> HIDE DEF got, d, b, now
<1>8. /\ partial \in Rings /\ ring \in Rings /\ lent \in -1 .. MAX_SLOTS /\ open \subseteq Fds
      /\ made \in [Fds -> Pictures \union {"none"}]
      /\ open = Owned(partial) \union Owned(ring) /\ Owned(partial) \cap Owned(ring) = {}
      /\ \A s, t \in DOMAIN ring.slots : ring.slots[s] = ring.slots[t] => s = t
      /\ h.picture \in Pictures /\ h.count \in 0 .. MAX_SLOTS
  BY DEF SocketInv, FrameSocketTypeOK, DescriptorsAreOwned, Headers
<1>9. made' \in [Fds -> Pictures \union {"none"}]
  BY <1>7, <1>8
<1>10. \A s, t \in DOMAIN now.slots : now.slots[s] = now.slots[t] => s = t
  <2>1. \A s \in DOMAIN b.slots : b.slots[s] \in Owned(b)
    BY DEF Owned, Range
  <2> QED BY <1>2, <1>5, <1>6, <2>1 DEF Grows
<1>11. \A s \in DOMAIN now.slots : made'[now.slots[s]] = now.picture
  <2>1. \A s \in DOMAIN b.slots : b.slots[s] \in Owned(b) /\ b.slots[s] # d
    BY <1>5 DEF Owned, Range
  <2>2. \A s \in DOMAIN b.slots : made'[b.slots[s]] = made[b.slots[s]]
    <3>1. Owned(b) \subseteq Fds
      BY <1>2, RingParts
    <3> QED BY <1>7, <1>8, <2>1, <3>1
  <2>3. made'[d] = h.picture
    BY <1>5, <1>7, <1>8
  <2> QED BY <1>2, <1>6, <2>2, <2>3 DEF Grows
<1>12. DOMAIN now.slots \subseteq 0 .. now.count - 1 /\ now.count # 0
  <2>1. b.count \in Nat /\ h.slot \in Nat
    BY <1>2, RingParts DEF Slotted
  <2>2. h.slot \in 0 .. b.count - 1
    BY <1>2, <2>1
  <2> QED BY <1>2, <1>6, <2>1, <2>2 DEF Grows
<1>13. CASE Full(now)
  <2>1. /\ stage' = "frames" /\ ring' = now /\ partial' = NoRing /\ lent' = lent
        /\ open' = (open \union Range(got)) \ (Surplus(got) \union Owned(ring))
    BY <1>7, <1>13
  <2>2. open' = Owned(now)
    BY <1>2, <1>4, <1>5, <1>6, <1>8, <2>1
  <2>3. FrameSocketTypeOK'
    <3>1. Owned(now) \subseteq Fds
      BY <1>6, RingParts
    <3> QED BY <1>6, <1>8, <2>1, <2>2, <3>1, NoRingFacts DEF FrameSocketTypeOK
  <2>4. DescriptorsAreOwned'
    BY <1>10, <2>1, <2>2, NoRingFacts DEF DescriptorsAreOwned
  <2>5. ReadingInv'
    BY <2>1, NoRingFacts DEF ReadingInv
  <2>6. LentFromAWholeRing'
    <3>1. DOMAIN now.slots = 0 .. now.count - 1
      BY <1>6, <1>12, <1>13, FullHasAll
    <3> QED BY <1>11, <1>13, <2>1, <3>1 DEF LentFromAWholeRing, Full
  <2> QED BY <1>9, <2>1, <2>3, <2>4, <2>5, <2>6 DEF SocketInv
<1>14. CASE ~Full(now)
  <2>1. /\ stage' = "collecting" /\ partial' = now /\ ring' = ring /\ lent' = lent
        /\ open' = (open \union Range(got)) \ Surplus(got)
    BY <1>7, <1>14
  <2>2. open' = Owned(now) \union Owned(ring) /\ Owned(now) \cap Owned(ring) = {}
    BY <1>2, <1>4, <1>5, <1>6, <1>8, <2>1
  <2>3. FrameSocketTypeOK'
    <3>1. open' \subseteq Fds
      BY <1>4, <1>8, <2>1
    <3> QED BY <1>6, <1>8, <2>1, <3>1 DEF FrameSocketTypeOK
  <2>4. DescriptorsAreOwned'
    BY <1>8, <1>10, <2>1, <2>2 DEF DescriptorsAreOwned
  <2>5. ReadingInv'
    BY <1>11, <1>12, <1>14, <2>1 DEF ReadingInv, Full
  <2>6. LentFromAWholeRing'
    BY <2>1 DEF LentFromAWholeRing
  <2>7. ASSUME stage = "collecting" PROVE Missing' < Missing
    <3>1. /\ IsFiniteSet(DOMAIN b.slots) /\ Cardinality(DOMAIN b.slots) \in Nat
          /\ b.count \in 0 .. MAX_SLOTS
      BY <1>2, RingParts
    <3>2. Cardinality(DOMAIN now.slots) = Cardinality(DOMAIN b.slots) + 1
      <4>1. Cardinality(DOMAIN b.slots \union {h.slot}) = Cardinality(DOMAIN b.slots) + 1
        BY <1>2, <3>1, FS_AddElement
      <4> QED BY <1>6, <4>1 DEF Grows
    <3>3. Missing' = b.count - (Cardinality(DOMAIN b.slots) + 1)
      BY <1>6, <1>12, <2>1, <3>2 DEF Missing, Grows
    <3>4. CASE partial.count = 0
      <4>1. Missing = MAX_SLOTS + 1
        BY <3>4 DEF Missing
      <4> QED BY <3>1, <3>3, <4>1
    <3>5. CASE partial.count # 0
      <4>1. Missing = b.count - Cardinality(DOMAIN b.slots)
        BY <1>3, <3>5 DEF Missing
      <4> QED BY <3>1, <3>3, <4>1
    <3> QED BY <3>4, <3>5
  <2> QED BY <1>9, <2>1, <2>3, <2>4, <2>5, <2>6, <2>7 DEF SocketInv
<1> QED BY <1>13, <1>14

LEMMA SocketBegins == FrameSocketInit => SocketInv
<1> SUFFICES ASSUME FrameSocketInit PROVE SocketInv
  OBVIOUS
<1>1. FrameSocketTypeOK /\ made \in [Fds -> Pictures \union {"none"}]
  BY NoRingFacts DEF FrameSocketInit, FrameSocketTypeOK
<1>2. DescriptorsAreOwned /\ ReadingInv /\ LentFromAWholeRing
  BY NoRingFacts DEF FrameSocketInit, DescriptorsAreOwned, ReadingInv, LentFromAWholeRing
<1> QED BY <1>1, <1>2 DEF SocketInv

LEMMA SocketStep ==
    ASSUME SocketInv, [FrameSocketNext]_socketVars
    PROVE  /\ SocketInv'
           /\ [stage = "collecting" /\ stage' = "collecting" => Missing' < Missing]_socketVars
<1> DEFINE Goal == /\ SocketInv'
                   /\ stage = "collecting" /\ stage' = "collecting" => Missing' < Missing
<1>0. Range(<< >>) \subseteq Fds \ open
  BY DEF Range
<1>1. CASE UNCHANGED socketVars
  BY <1>1 DEF SocketInv, FrameSocketTypeOK, DescriptorsAreOwned, ReadingInv, LentFromAWholeRing,
              Owned, Full
<1>2. ASSUME NEW error, NEW got, Range(got) \subseteq Fds \ open, Fail(error, got) PROVE Goal
  BY <1>2, FailKeeps DEF Fail
<1>3. CASE accept
  BY <1>3 DEF accept, SocketInv, FrameSocketTypeOK, DescriptorsAreOwned, ReadingInv,
              LentFromAWholeRing, Owned, Full
<1>4. CASE NotAccepted("cancelled") \/ NotAccepted("no producer") \/ HeaderLate \/ ProducerLeft \/ LoopLeaves
  BY <1>0, <1>2, <1>4 DEF NotAccepted, HeaderLate, ProducerLeft, LoopLeaves
<1>5. ASSUME NEW h \in Headers, ReadsHeader(h) PROVE Goal
  <2>1. Range(Installed(h.fds)) \subseteq Fds \ open
    BY InstalledFacts DEF SocketInv, Headers
  <2>2. CASE \E error : Fail(error, Installed(h.fds))
    BY <1>2, <2>1, <2>2
  <2>3. CASE parses(h) /\ h.fds > 0 /\ collect(h, Installed(h.fds))
    <3>1. stage \in {"collecting", "frames"}
      BY <1>5 DEF ReadsHeader
    <3> QED BY <2>3, <3>1, CollectKeeps
  <2> QED BY <1>5, <2>2, <2>3 DEF ReadsHeader
<1>6. ASSUME NEW r \in Readies, ReadsReady(r) PROVE Goal
  <2>1. Range(Installed(r.fds)) \subseteq Fds \ open
    BY InstalledFacts DEF SocketInv, Readies
  <2>2. CASE \E error : Fail(error, Installed(r.fds))
    BY <1>2, <2>1, <2>2
  <2>3. CASE /\ stage = "frames" /\ r.whole /\ InRing(r)
             /\ stage' = "lent" /\ lent' = r.slot
             /\ UNCHANGED <<why, partial, ring, open, made>>
    <3>1. r.slot \in 0 .. MAX_SLOTS
      BY DEF Readies
    <3>2. ring \in Rings /\ ring.count \in Nat
      BY RingParts DEF SocketInv, FrameSocketTypeOK
    <3>3. r.slot \in 0 .. ring.count - 1
      BY <2>3, <3>1, <3>2 DEF InRing
    <3>4. LentFromAWholeRing'
      BY <2>3, <3>3 DEF SocketInv, LentFromAWholeRing, Full
    <3> QED BY <2>3, <3>1, <3>4 DEF SocketInv, FrameSocketTypeOK, DescriptorsAreOwned, ReadingInv,
                                    Owned, Full
  <2> QED BY <1>6, <2>2, <2>3 DEF ReadsReady
<1>7. CASE drop
  BY <1>7 DEF drop, SocketInv, FrameSocketTypeOK, DescriptorsAreOwned, ReadingInv,
              LentFromAWholeRing, Owned, Full
<1> QED BY <1>1, <1>3, <1>4, <1>5, <1>6, <1>7 DEF FrameSocketNext

-----------------------------------------------------------------------------
(* The saves of a game (saves.rs)                                           *)

USE SavesAssumption
USE DEF saveVars

Dirs == {slot_dir(g, k, who) : g \in Titles \union Cards, k \in SlotKinds,
                               who \in People \union {NoPerson}}
Stands_at == {Nothing, Folder} \union {LinkTo(d) : d \in Dirs}
Locations == {Unwritten, Discarded, Swept} \union {InSlot(d) : d \in Dirs}
             \union {InFolder(p) : p \in Places} \union {Aside(p, n) : p \in Places, n \in Nat}

\* The preparation works for a slot that is there, on places of its game.
WorkInv ==
    job # Idle => /\ job = [stage |-> job.stage, slot |-> job.slot, left |-> job.left]
                  /\ job.stage \in {"link", "move", "sweep", "play"}
                  /\ job.slot \in slots /\ job.left \subseteq Places

SaveTypes ==
    /\ place \in [Places -> Stands_at] /\ slots \subseteq Dirs
    /\ where \in [Saved -> Locations] /\ asides \in [Places -> 0..MaxAside]
    /\ faulty \in BOOLEAN /\ WorkInv

\* As long as nothing failed, the places that are done are links to the slot; once
\* the sweep has passed no link of a title is dead.
LinkedInv ==
    job # Idle /\ ~faulty =>
        /\ \A p \in PlacesOf(job.slot[1]) \ job.left : place[p] = LinkTo(job.slot)
        /\ job.stage \in {"sweep", "play"} => job.left = {}
        /\ job.stage = "play" => \A t \in Titles : ~Dead(t)

SavesInv == SaveTypes /\ NothingIsLost /\ LinkedInv

LEMMA PlacesOfAreThere == \A game : PlacesOf(game) \subseteq Places
BY DEF PlacesOf, Places

LEMMA SlotNamesItsGame ==
    ASSUME NEW game, NEW slot, NEW person
    PROVE  slot_dir(game, slot, person)[1] = game
<1> DEFINE T == {game, "joueur", "debloquee", "neuve", person}
           a == <<game>>
           b == folder_for(slot, person)
<1>1. a \in Seq(T) /\ Len(a) = 1 /\ a[1] = game
  OBVIOUS
<1>2. b \in Seq(T) /\ Len(b) \in Nat
  <2>1. b = <<"joueur", person>> \/ b = <<"debloquee">> \/ b = <<"neuve">>
    BY DEF folder_for
  <2>2. <<"joueur", person>> \in Seq(T) /\ <<"debloquee">> \in Seq(T) /\ <<"neuve">> \in Seq(T)
    OBVIOUS
  <2>3. b \in Seq(T)
    BY <2>1, <2>2
  <2> QED BY <2>3, LenProperties
<1>3. slot_dir(game, slot, person) = a \o b
  BY DEF slot_dir
<1> HIDE DEF a, b, T
<1>4. (a \o b)[1] = a[1]
  <2>1. 1 \in 1..(Len(a) + Len(b)) /\ 1 <= Len(a)
    BY <1>1, <1>2
  <2>2. \A i \in 1..(Len(a) + Len(b)) :
            (a \o b)[i] = IF i <= Len(a) THEN a[i] ELSE b[i - Len(a)]
    BY <1>1, <1>2, ConcatProperties
  <2> QED BY <2>1, <2>2
<1> QED BY <1>1, <1>3, <1>4

\* What a location says.
LEMMA LocationFacts ==
    ASSUME NEW l \in Locations
    PROVE  /\ l.is \in {"unwritten", "slot", "folder", "aside", "discarded", "swept"}
           /\ l.is = "slot" => l = InSlot(l.at) /\ l.at \in Dirs
           /\ l.is = "folder" => l = InFolder(l.at[1]) /\ l.at[1] \in Places
           /\ l.is = "aside" => l.at[1] \in Places /\ l.n \in Nat
           /\ l # Lost
BY DEF Locations, Unwritten, Discarded, Swept, InSlot, InFolder, Aside, Lost

LEMMA StandFacts ==
    ASSUME NEW x \in Stands_at
    PROVE  /\ x.is \in {"nothing", "folder", "link"}
           /\ x.is = "nothing" => x = Nothing
           /\ x.is = "folder" => x = Folder
           /\ x.is = "link" => x = LinkTo(x.to) /\ x.to \in Dirs
BY DEF Stands_at, Nothing, Folder, LinkTo

LEMMA KindsOfPlace ==
    ASSUME NEW slot
    PROVE  /\ Nothing.is = "nothing" /\ Folder.is = "folder" /\ LinkTo(slot).is = "link"
           /\ LinkTo(slot).to = slot /\ Nothing # Folder /\ LinkTo(slot) # Folder
           /\ Nothing # LinkTo(slot)
BY DEF Nothing, Folder, LinkTo

LEMMA IdleFacts == Idle.stage = "idle" /\ Idle.left = {} /\ Idle.slot = <<>>
BY DEF Idle

LEMMA SaveTypesGive ==
    ASSUME SaveTypes, NothingIsLost
    PROVE  SavesTypeOK
<1>1. \A p \in Places : place[p].is \in {"nothing", "folder", "link"}
  BY StandFacts DEF SaveTypes
<1>2. \A s \in Saved : where[s].is \in {"unwritten", "slot", "folder", "aside", "lost", "discarded",
                                       "swept"}
  BY LocationFacts DEF SaveTypes
<1>3. job.left \subseteq Places /\ job.stage \in {"idle", "link", "move", "sweep", "play"}
  BY IdleFacts DEF SaveTypes, WorkInv
<1> QED BY <1>1, <1>2, <1>3 DEF SavesTypeOK, SaveTypes

LEMMA SavesBegin == SavesInit => SavesInv
<1> SUFFICES ASSUME SavesInit PROVE SavesInv
  OBVIOUS
<1>1. SaveTypes
  <2>1. place \in [Places -> Stands_at] /\ where \in [Saved -> Locations]
    BY DEF SavesInit, Stands_at, Locations
  <2>2. 0 \in 0..MaxAside
    OBVIOUS
  <2>3. asides \in [Places -> 0..MaxAside] /\ slots \subseteq Dirs /\ faulty \in BOOLEAN
    BY <2>2 DEF SavesInit
  <2>4. WorkInv
    BY DEF SavesInit, WorkInv
  <2> QED BY <2>1, <2>3, <2>4 DEF SaveTypes
<1>2. NothingIsLost
  BY DEF SavesInit, NothingIsLost, Reachable, Unwritten, Lost
<1>3. LinkedInv
  BY DEF SavesInit, LinkedInv
<1> QED BY <1>1, <1>2, <1>3 DEF SavesInv

\* Files moved to a place where they can be read: the others only need their own.
LEMMA MovedReachably ==
    ASSUME SaveTypes, NothingIsLost, NEW moved, NEW to, where' = Moved(moved, to), to # Lost,
           to.is = "slot" => to.at \in slots',
           to.is = "folder" => place'[to.at[1]] = Folder,
           to.is = "aside" => to.n <= asides'[to.at[1]],
           \A s \in Saved \ moved :
               /\ where[s].is = "slot" => where[s].at \in slots'
               /\ where[s].is = "folder" => place'[where[s].at[1]] = Folder
               /\ where[s].is = "aside" => where[s].n <= asides'[where[s].at[1]]
    PROVE  NothingIsLost'
<1> SUFFICES ASSUME NEW s \in Saved PROVE where'[s] # Lost /\ Reachable(s)'
  BY DEF NothingIsLost
<1>1. CASE s \in moved
  <2>1. where'[s] = to
    BY <1>1 DEF Moved
  <2> QED BY <1>1, <2>1 DEF Reachable
<1>2. CASE s \notin moved
  <2>1. where'[s] = where[s]
    BY <1>2 DEF Moved
  <2>2. where[s] # Lost
    BY DEF NothingIsLost
  <2> QED BY <1>2, <2>1, <2>2 DEF Reachable
<1> QED BY <1>1, <1>2

\* Nothing moves and nothing that holds a save goes.
LEMMA StillReachable ==
    ASSUME SaveTypes, NothingIsLost, where' = where,
           \A s \in Saved :
               /\ where[s].is = "slot" => where[s].at \in slots'
               /\ where[s].is = "folder" => place'[where[s].at[1]] = Folder
               /\ where[s].is = "aside" => where[s].n <= asides'[where[s].at[1]]
    PROVE  NothingIsLost'
BY DEF NothingIsLost, Reachable

\* A place that is not a folder any more held nothing.
LEMMA PlaceFreed ==
    ASSUME SaveTypes, NothingIsLost, NEW p \in Places, NEW x, x # Folder,
           place' = [place EXCEPT ![p] = x], UNCHANGED <<slots, where, asides>>,
           place[p] # Folder \/ Files(InFolder(p)) = {}
    PROVE  NothingIsLost'
<1> SUFFICES ASSUME NEW s \in Saved, where[s].is = "folder" PROVE place'[where[s].at[1]] = Folder
  <2>1. \A s \in Saved : /\ where[s].is = "slot" => where[s].at \in slots'
                         /\ where[s].is = "aside" => where[s].n <= asides'[where[s].at[1]]
    BY DEF NothingIsLost, Reachable
  <2> QED BY <2>1, StillReachable
<1>1. where[s] = InFolder(where[s].at[1]) /\ where[s].at[1] \in Places
  BY LocationFacts DEF SaveTypes
<1>2. place[where[s].at[1]] = Folder
  BY DEF NothingIsLost, Reachable
<1>3. where[s].at[1] # p
  BY <1>1, <1>2 DEF Files
<1> QED BY <1>1, <1>2, <1>3 DEF SaveTypes

LEMMA AtFacts ==
    ASSUME SaveTypes, job # Idle, NEW reached, reached # "idle", At(reached)
    PROVE  /\ job' # Idle /\ job'.stage = reached /\ job'.slot = job.slot /\ job'.left = job.left
           /\ job' = [stage |-> reached, slot |-> job.slot, left |-> job.left]
BY IdleFacts DEF SaveTypes, WorkInv, At

LEMMA Busy ==
    ASSUME job.stage \in {"link", "move", "sweep", "play"} PROVE job # Idle
BY IdleFacts

LEMMA CurrentIsLeft ==
    ASSUME NEW p, Current(p) PROVE p \in job.left
BY DEF Current

\* A preparation at work on a place that becomes x, and is not done before it is
\* a link to the slot.
GoesOn(p, x) ==
    \/ UNCHANGED job
    \/ At("link") \/ At("move")
    \/ job' = [job EXCEPT !.left = @ \ {p}] /\ x = LinkTo(job.slot)

\* One place of those left changes, within the same preparation.
LEMMA OnePlaceOfThoseLeft ==
    ASSUME SavesInv, NEW p \in Places, job.stage \in {"link", "move"}, Current(p),
           NEW x \in Stands_at, place' = [place EXCEPT ![p] = x],
           UNCHANGED <<slots, faulty>>, GoesOn(p, x),
           where' \in [Saved -> Locations], asides' \in [Places -> 0..MaxAside],
           NothingIsLost'
    PROVE  SavesInv'
<1>1. job # Idle /\ p \in job.left /\ SaveTypes /\ WorkInv
  BY Busy, CurrentIsLeft DEF SavesInv, SaveTypes
<1>2. place' \in [Places -> Stands_at]
  BY <1>1 DEF SaveTypes
<1>3. /\ job' # Idle /\ job' = [stage |-> job'.stage, slot |-> job'.slot, left |-> job'.left]
      /\ job'.stage \in {"link", "move"} /\ job'.slot = job.slot
      /\ (job'.left = job.left) \/ (job'.left = job.left \ {p} /\ x = LinkTo(job.slot))
  <2>1. CASE UNCHANGED job
    <3>1. job' = job
      BY <2>1
    <3> QED BY <1>1, <3>1 DEF WorkInv
  <2>2. CASE At("link")
    BY <1>1, <2>2, AtFacts
  <2>4. CASE At("move")
    BY <1>1, <2>4, AtFacts
  <2>3. CASE job' = [job EXCEPT !.left = @ \ {p}] /\ x = LinkTo(job.slot)
    <3>1. job' = [stage |-> job.stage, slot |-> job.slot, left |-> job.left \ {p}]
      BY <1>1, <2>3 DEF WorkInv
    <3> QED BY <2>3, <3>1, IdleFacts
  <2> QED BY <2>1, <2>2, <2>3, <2>4 DEF GoesOn
<1>4. WorkInv'
  BY <1>1, <1>3 DEF WorkInv
<1>5. SaveTypes'
  BY <1>1, <1>2, <1>4 DEF SaveTypes
<1>6. LinkedInv'
  <2> SUFFICES ASSUME ~faulty'
               PROVE  \A q \in PlacesOf(job'.slot[1]) \ job'.left : place'[q] = LinkTo(job'.slot)
    BY <1>3 DEF LinkedInv
  <2> SUFFICES ASSUME NEW q \in PlacesOf(job.slot[1]), q \notin job'.left
               PROVE  place'[q] = LinkTo(job.slot)
    BY <1>3
  <2>0. q \in Places
    BY PlacesOfAreThere
  <2>1. CASE q = p
    <3>1. x = LinkTo(job.slot)
      BY <1>1, <1>3, <2>1
    <3> QED BY <1>1, <2>1, <3>1 DEF SaveTypes
  <2>2. CASE q # p
    <3>1. q \notin job.left
      BY <1>3, <2>2
    <3>2. place[q] = LinkTo(job.slot)
      BY <1>1, <3>1 DEF SavesInv, LinkedInv
    <3> QED BY <1>1, <2>0, <2>2, <3>2 DEF SaveTypes
  <2> QED BY <2>1, <2>2
<1> QED BY <1>5, <1>6 DEF SavesInv

\* Only the stage moves on.
LEMMA OnlyTheStage ==
    ASSUME SavesInv, job # Idle, NEW reached \in {"link", "move", "sweep", "play"}, At(reached),
           UNCHANGED <<place, slots, where, asides>>, faulty' \in BOOLEAN,
           ~faulty' => ~faulty,
           ~faulty' /\ reached = "sweep" => job.left = {},
           reached # "play"
    PROVE  SavesInv'
<1>1. /\ job' # Idle /\ job'.stage = reached /\ job'.slot = job.slot /\ job'.left = job.left
      /\ job' = [stage |-> reached, slot |-> job.slot, left |-> job.left]
  BY AtFacts DEF SavesInv
<1>2. SaveTypes'
  BY <1>1 DEF SavesInv, SaveTypes, WorkInv
<1>3. NothingIsLost'
  BY DEF SavesInv, NothingIsLost, Reachable
<1>4. LinkedInv'
  BY <1>1 DEF SavesInv, LinkedInv
<1> QED BY <1>2, <1>3, <1>4 DEF SavesInv
LEMMA SavesStep ==
    ASSUME SavesInv, [SavesNext]_saveVars
    PROVE  SavesInv'
<1>0. SaveTypes /\ NothingIsLost /\ LinkedInv /\ WorkInv
  BY DEF SavesInv, SaveTypes
<1>1. CASE UNCHANGED saveVars
  BY <1>1 DEF SavesInv, SaveTypes, WorkInv, NothingIsLost, Reachable, LinkedInv, Dead
<1>2. ASSUME NEW g \in Titles \union Cards, NEW k \in SlotKinds, NEW who \in People \union {NoPerson},
             Begin(g, k, who)
      PROVE  SavesInv'
  <2> DEFINE dir == slot_dir(g, k, who)
  <2>1. /\ job' = [stage |-> "link", slot |-> dir, left |-> PlacesOf(g)]
        /\ slots' = slots \union {dir} /\ faulty' = FALSE /\ UNCHANGED <<place, where, asides>>
    BY <1>2 DEF Begin
  <2>2. dir \in Dirs /\ dir[1] = g
    BY SlotNamesItsGame DEF Dirs
  <2> HIDE DEF dir
  <2>3. SaveTypes'
    BY <1>0, <2>1, <2>2, PlacesOfAreThere DEF SaveTypes, WorkInv
  <2>4. NothingIsLost'
    BY <1>0, <2>1 DEF NothingIsLost, Reachable
  <2>5. LinkedInv'
    BY <2>1, <2>2 DEF LinkedInv
  <2> QED BY <2>3, <2>4, <2>5 DEF SavesInv
<1>3. ASSUME NEW p \in Places, Unlink(p) PROVE SavesInv'
  <2>1. NothingIsLost'
    BY <1>0, <1>3, PlaceFreed, KindsOfPlace DEF Unlink
  <2>2. Nothing \in Stands_at
    BY DEF Stands_at
  <2>3. /\ job.stage = "link" /\ Current(p) /\ GoesOn(p, Nothing)
        /\ place' = [place EXCEPT ![p] = Nothing] /\ UNCHANGED <<slots, where, asides, faulty>>
    BY <1>3 DEF Unlink, GoesOn
  <2>4. where' \in [Saved -> Locations] /\ asides' \in [Places -> 0..MaxAside]
    BY <1>0, <2>3 DEF SaveTypes
  <2> QED BY <2>1, <2>2, <2>3, <2>4, OnePlaceOfThoseLeft
<1>4. ASSUME NEW p \in Places, RescueInto(p) PROVE SavesInv'
  BY <1>0, <1>4, OnlyTheStage, Busy DEF RescueInto, SaveTypes
<1>5. ASSUME NEW p \in Places, RemoveEmptied(p) PROVE SavesInv'
  <2>1. NothingIsLost'
    BY <1>0, <1>5, PlaceFreed, KindsOfPlace DEF RemoveEmptied
  <2>2. Nothing \in Stands_at
    BY DEF Stands_at
  <2>3. /\ job.stage = "move" /\ Current(p) /\ GoesOn(p, Nothing)
        /\ place' = [place EXCEPT ![p] = Nothing] /\ UNCHANGED <<slots, where, asides, faulty>>
    BY <1>5 DEF RemoveEmptied, GoesOn
  <2>4. where' \in [Saved -> Locations] /\ asides' \in [Places -> 0..MaxAside]
    BY <1>0, <2>3 DEF SaveTypes
  <2> QED BY <2>1, <2>2, <2>3, <2>4, OnePlaceOfThoseLeft
<1>6. ASSUME NEW p \in Places, SetAside(p) PROVE SavesInv'
  <2> DEFINE moved == Files(InFolder(p))
             to == Aside(p, asides[p] + 1)
  <2>1. /\ job.stage = "link" /\ Current(p) /\ place[p] = Folder /\ asides[p] < MaxAside
        /\ asides' = [asides EXCEPT ![p] = @ + 1] /\ where' = Moved(moved, to)
        /\ place' = [place EXCEPT ![p] = Nothing] /\ UNCHANGED <<slots, job, faulty>>
    BY <1>6 DEF SetAside
  <2>2. asides[p] \in 0..MaxAside /\ asides[p] + 1 \in 0..MaxAside /\ asides[p] + 1 \in Nat
    BY <1>0, <2>1 DEF SaveTypes
  <2>3. asides' \in [Places -> 0..MaxAside] /\ asides'[p] = asides[p] + 1
    BY <1>0, <2>1, <2>2 DEF SaveTypes
  <2>4. to \in Locations /\ to.is = "aside" /\ to.at[1] = p /\ to.n = asides[p] + 1 /\ to # Lost
    BY <2>2 DEF Locations, Aside, Lost
  <2>5. where' \in [Saved -> Locations]
    BY <1>0, <2>1, <2>4 DEF SaveTypes, Moved
  <2>6. ASSUME NEW s \in Saved \ moved
        PROVE  /\ where[s].is = "slot" => where[s].at \in slots'
               /\ where[s].is = "folder" => place'[where[s].at[1]] = Folder
               /\ where[s].is = "aside" => where[s].n <= asides'[where[s].at[1]]
    <3>1. CASE where[s].is = "slot"
      BY <1>0, <2>1, <3>1 DEF NothingIsLost, Reachable
    <3>2. CASE where[s].is = "folder"
      <4>1. where[s] = InFolder(where[s].at[1]) /\ where[s].at[1] \in Places
        BY <1>0, <3>2, LocationFacts DEF SaveTypes
      <4>2. where[s].at[1] # p
        BY <2>6, <4>1 DEF Files
      <4>3. place[where[s].at[1]] = Folder
        BY <1>0, <3>2 DEF NothingIsLost, Reachable
      <4> QED BY <1>0, <2>1, <3>2, <4>1, <4>2, <4>3 DEF SaveTypes
    <3>3. CASE where[s].is = "aside"
      <4>1. where[s].at[1] \in Places /\ where[s].n \in Nat
        BY <1>0, <3>3, LocationFacts DEF SaveTypes
      <4>2. where[s].n <= asides[where[s].at[1]]
        BY <1>0, <3>3 DEF NothingIsLost, Reachable
      <4>3. asides'[where[s].at[1]] \in {asides[where[s].at[1]], asides[where[s].at[1]] + 1}
        BY <1>0, <2>1, <4>1 DEF SaveTypes
      <4>4. asides[where[s].at[1]] \in Nat
        BY <1>0, <4>1 DEF SaveTypes
      <4> QED BY <3>3, <4>1, <4>2, <4>3, <4>4
    <3> QED BY <3>1, <3>2, <3>3
  <2> HIDE DEF moved, to
  <2>7. NothingIsLost'
    <3>1. to.n <= asides'[to.at[1]]
      BY <2>2, <2>3, <2>4
    <3>2. /\ to.is = "slot" => to.at \in slots'
          /\ to.is = "folder" => place'[to.at[1]] = Folder
          /\ to.is = "aside" => to.n <= asides'[to.at[1]]
      BY <2>4, <3>1
    <3> QED BY <1>0, <2>1, <2>4, <2>6, <3>2, MovedReachably
  <2>8. Nothing \in Stands_at
    BY DEF Stands_at
  <2>9. GoesOn(p, Nothing)
    BY <2>1 DEF GoesOn
  <2> QED BY <2>1, <2>3, <2>5, <2>7, <2>8, <2>9, OnePlaceOfThoseLeft
<1>7. ASSUME NEW p \in Places, LinkPlace(p) PROVE SavesInv'
  <2>1. place[p] # Folder /\ LinkTo(job.slot) # Folder
    BY <1>7, KindsOfPlace DEF LinkPlace
  <2>2. NothingIsLost'
    BY <1>0, <1>7, <2>1, PlaceFreed DEF LinkPlace
  <2>3. job.slot \in Dirs
    BY <1>0, <1>7, Busy DEF LinkPlace, WorkInv, SaveTypes
  <2>4. LinkTo(job.slot) \in Stands_at
    BY <2>3 DEF Stands_at
  <2>5. /\ job.stage = "link" /\ Current(p) /\ GoesOn(p, LinkTo(job.slot))
        /\ place' = [place EXCEPT ![p] = LinkTo(job.slot)]
        /\ UNCHANGED <<slots, where, asides, faulty>>
    BY <1>7 DEF LinkPlace, GoesOn
  <2>6. where' \in [Saved -> Locations] /\ asides' \in [Places -> 0..MaxAside]
    BY <1>0, <2>5 DEF SaveTypes
  <2> QED BY <2>2, <2>4, <2>5, <2>6, OnePlaceOfThoseLeft
<1>8. ASSUME NEW p \in Places, NEW s \in Saved, Move(p, s) PROVE SavesInv'
  <2> DEFINE to == InSlot(job.slot)
  <2>1. /\ job.stage = "move" /\ Current(p) /\ where' = Moved({s}, to)
        /\ UNCHANGED <<place, slots, asides, job, faulty>>
    BY <1>8 DEF Move
  <2>2. job.slot \in slots /\ job.slot \in Dirs
    BY <1>0, <2>1, Busy DEF WorkInv, SaveTypes
  <2>3. to \in Locations /\ to.is = "slot" /\ to.at = job.slot /\ to # Lost
    BY <2>2 DEF Locations, InSlot, Lost
  <2> HIDE DEF to
  <2>4. where' \in [Saved -> Locations]
    BY <1>0, <2>1, <2>3 DEF SaveTypes, Moved
  <2>5. NothingIsLost'
    <3>1. \A f \in Saved : /\ where[f].is = "slot" => where[f].at \in slots'
                           /\ where[f].is = "folder" => place'[where[f].at[1]] = Folder
                           /\ where[f].is = "aside" => where[f].n <= asides'[where[f].at[1]]
      BY <1>0, <2>1 DEF NothingIsLost, Reachable
    <3>2. /\ to.is = "slot" => to.at \in slots'
          /\ to.is = "folder" => place'[to.at[1]] = Folder
          /\ to.is = "aside" => to.n <= asides'[to.at[1]]
      BY <2>1, <2>2, <2>3
    <3> QED BY <1>0, <2>1, <2>3, <3>1, <3>2, MovedReachably
  <2>6. SaveTypes' /\ LinkedInv'
    BY <1>0, <2>1, <2>4 DEF SaveTypes, WorkInv, LinkedInv, Dead
  <2> QED BY <2>5, <2>6 DEF SavesInv
<1>9. ASSUME NEW p \in Places, NEW s \in Saved, Write(p, s) PROVE SavesInv'
  <2> DEFINE to == IF place[p].is = "link" THEN InSlot(place[p].to) ELSE InFolder(p)
  <2>1. /\ job.stage = "play" /\ p \in PlacesOf(job.slot[1]) /\ where[s] = Unwritten /\ ~Dead(p)
        /\ where' = Moved({s}, to)
        /\ place' = [place EXCEPT ![p] = IF @ = Nothing THEN Folder ELSE @]
        /\ UNCHANGED <<slots, asides, job, faulty>>
    BY <1>9 DEF Write
  <2>2. /\ place' \in [Places -> Stands_at]
        /\ place'[p] = IF place[p] = Nothing THEN Folder ELSE place[p]
        /\ \A q \in Places : q # p => place'[q] = place[q]
    BY <1>0, <2>1 DEF SaveTypes, Stands_at
  <2>3. /\ to \in Locations /\ to # Lost
        /\ to.is = "slot" => to.at \in slots
        /\ to.is = "folder" => to.at[1] = p /\ place'[p] = Folder
        /\ to.is \in {"slot", "folder"}
    <3>1. CASE place[p].is = "link"
      <4>1. place[p].to \in slots /\ place[p].to \in Dirs
        BY <1>0, <2>1, <3>1 DEF Dead, SaveTypes
      <4>2. to = InSlot(place[p].to)
        BY <3>1
      <4> QED BY <4>1, <4>2 DEF Locations, InSlot, Lost
    <3>2. CASE place[p].is # "link"
      <4>1. place[p] \in {Nothing, Folder}
        BY <1>0, <3>2, StandFacts DEF SaveTypes
      <4>2. place'[p] = Folder
        BY <2>2, <4>1
      <4>3. to = InFolder(p)
        BY <3>2
      <4> QED BY <4>2, <4>3 DEF Locations, InFolder, Lost
    <3> QED BY <3>1, <3>2
  <2> HIDE DEF to
  <2>4. where' \in [Saved -> Locations]
    BY <1>0, <2>1, <2>3 DEF SaveTypes, Moved
  <2>5. NothingIsLost'
    <3>1. ASSUME NEW f \in Saved
          PROVE  /\ where[f].is = "slot" => where[f].at \in slots'
                 /\ where[f].is = "folder" => place'[where[f].at[1]] = Folder
                 /\ where[f].is = "aside" => where[f].n <= asides'[where[f].at[1]]
      <4>1. CASE where[f].is = "folder"
        <5>1. where[f].at[1] \in Places /\ place[where[f].at[1]] = Folder
          BY <1>0, <4>1, LocationFacts DEF SaveTypes, NothingIsLost, Reachable
        <5> QED BY <2>2, <4>1, <5>1
      <4>2. CASE where[f].is # "folder"
        BY <1>0, <2>1, <4>2 DEF NothingIsLost, Reachable
      <4> QED BY <4>1, <4>2
    <3>2. /\ to.is = "slot" => to.at \in slots'
          /\ to.is = "folder" => place'[to.at[1]] = Folder
          /\ to.is = "aside" => to.n <= asides'[to.at[1]]
      BY <2>1, <2>3
    <3> QED BY <1>0, <2>1, <2>3, <3>1, <3>2, MovedReachably
  <2>6. SaveTypes'
    BY <1>0, <2>1, <2>2, <2>4 DEF SaveTypes, WorkInv
  <2>7. ASSUME NEW q \in Places, NEW d, place[q] = LinkTo(d) PROVE place'[q] = LinkTo(d)
    BY <2>2, <2>7, KindsOfPlace
  <2>8. ASSUME NEW q \in Places, ~Dead(q) PROVE ~Dead(q)'
    BY <2>1, <2>2, <2>8, KindsOfPlace DEF Dead
  <2>9. LinkedInv'
    BY <1>0, <2>1, <2>7, <2>8, PlacesOfAreThere DEF LinkedInv, Places
  <2> QED BY <2>5, <2>6, <2>9 DEF SavesInv
<1>10. ASSUME NEW p \in Places, NEW s \in Saved, Restore(p, s) PROVE SavesInv'
  <2>1. /\ job = Idle /\ place[p].is = "link" /\ where[s] = Unwritten
        /\ place' = [place EXCEPT ![p] = Folder] /\ where' = Moved({s}, InFolder(p))
        /\ UNCHANGED <<slots, asides, job, faulty>>
    BY <1>10 DEF Restore
  <2>2. /\ place' \in [Places -> Stands_at] /\ place'[p] = Folder
        /\ \A q \in Places : q # p => place'[q] = place[q]
    BY <1>0, <2>1 DEF SaveTypes, Stands_at
  <2>3. /\ InFolder(p) \in Locations /\ InFolder(p) # Lost /\ InFolder(p).is = "folder"
        /\ InFolder(p).at[1] = p
    BY DEF Locations, InFolder, Lost
  <2>4. where' \in [Saved -> Locations]
    BY <1>0, <2>1, <2>3 DEF SaveTypes, Moved
  <2>5. NothingIsLost'
    <3>1. ASSUME NEW f \in Saved
          PROVE  /\ where[f].is = "slot" => where[f].at \in slots'
                 /\ where[f].is = "folder" => place'[where[f].at[1]] = Folder
                 /\ where[f].is = "aside" => where[f].n <= asides'[where[f].at[1]]
      <4>1. CASE where[f].is = "folder"
        <5>1. where[f].at[1] \in Places /\ place[where[f].at[1]] = Folder
          BY <1>0, <4>1, LocationFacts DEF SaveTypes, NothingIsLost, Reachable
        <5> QED BY <2>2, <4>1, <5>1
      <4>2. CASE where[f].is # "folder"
        BY <1>0, <2>1, <4>2 DEF NothingIsLost, Reachable
      <4> QED BY <4>1, <4>2
    <3> QED BY <1>0, <2>1, <2>2, <2>3, <3>1, MovedReachably
  <2>6. SaveTypes' /\ LinkedInv'
    BY <1>0, <2>1, <2>2, <2>4 DEF SaveTypes, WorkInv, LinkedInv
  <2> QED BY <2>5, <2>6 DEF SavesInv
<1>11. CASE Refuse
  BY <1>0, <1>11, OnlyTheStage, Busy DEF Refuse
<1>12. CASE Linked
  BY <1>0, <1>12, OnlyTheStage, Busy DEF Linked, SaveTypes
<1>13. CASE Sweep
  <2>1. PICK gone \in SUBSET Sweepable :
            LET under == {s \in Saved : where[s].is = "aside" /\ where[s].at[1] \in gone} IN
            /\ place' = [p \in Places |-> IF p \in gone THEN Nothing ELSE place[p]]
            /\ asides' = [p \in Places |-> IF p \in gone THEN 0 ELSE asides[p]]
            /\ where' = Moved(under, Swept)
            /\ faulty' = (faulty \/ gone # Sweepable)
    BY <1>13 DEF Sweep
  <2> DEFINE under == {s \in Saved : where[s].is = "aside" /\ where[s].at[1] \in gone}
  <2>2. job.stage = "sweep" /\ At("play") /\ slots' = slots /\ job # Idle
    BY <1>13, Busy DEF Sweep
  <2>3. /\ job' # Idle /\ job'.stage = "play" /\ job'.slot = job.slot /\ job'.left = job.left
        /\ job' = [stage |-> "play", slot |-> job.slot, left |-> job.left]
    BY <1>0, <2>2, AtFacts
  <2>4. gone \subseteq Places /\ \A p \in gone : place[p].is = "link" /\ Dead(p)
    BY DEF Sweepable, Dead, Places
  <2>5. place' \in [Places -> Stands_at] /\ asides' \in [Places -> 0..MaxAside]
    <3>1. 0 \in 0..MaxAside /\ Nothing \in Stands_at
      BY DEF Stands_at
    <3> QED BY <1>0, <2>1, <3>1 DEF SaveTypes
  <2>6. where' \in [Saved -> Locations]
    BY <1>0, <2>1 DEF SaveTypes, Moved, Locations
  <2>7. faulty' \in BOOLEAN /\ (~faulty' => ~faulty /\ gone = Sweepable)
    BY <1>0, <2>1 DEF SaveTypes
  <2>8. SaveTypes'
    BY <1>0, <2>2, <2>3, <2>5, <2>6, <2>7 DEF SaveTypes, WorkInv
  <2>9. NothingIsLost'
    <3>1. Swept # Lost /\ Swept.is = "swept"
      BY DEF Swept, Lost
    <3>2. ASSUME NEW s \in Saved \ under
          PROVE  /\ where[s].is = "slot" => where[s].at \in slots'
                 /\ where[s].is = "folder" => place'[where[s].at[1]] = Folder
                 /\ where[s].is = "aside" => where[s].n <= asides'[where[s].at[1]]
      <4>1. CASE where[s].is = "folder"
        <5>1. where[s].at[1] \in Places /\ place[where[s].at[1]] = Folder
          BY <1>0, <4>1, LocationFacts DEF SaveTypes, NothingIsLost, Reachable
        <5>2. where[s].at[1] \notin gone
          BY <2>4, <5>1, KindsOfPlace
        <5> QED BY <2>1, <4>1, <5>1, <5>2
      <4>2. CASE where[s].is = "aside"
        <5>1. where[s].at[1] \in Places /\ where[s].n <= asides[where[s].at[1]]
          BY <1>0, <4>2, LocationFacts DEF SaveTypes, NothingIsLost, Reachable
        <5>2. where[s].at[1] \notin gone
          BY <3>2, <4>2
        <5> QED BY <2>1, <4>2, <5>1, <5>2
      <4>3. CASE where[s].is = "slot"
        BY <1>0, <2>2, <4>3 DEF NothingIsLost, Reachable
      <4> QED BY <4>1, <4>2, <4>3
    <3>3. where' = Moved(under, Swept)
      BY <2>1
    <3> HIDE DEF under
    <3>4. /\ Swept.is = "slot" => Swept.at \in slots'
          /\ Swept.is = "folder" => place'[Swept.at[1]] = Folder
          /\ Swept.is = "aside" => Swept.n <= asides'[Swept.at[1]]
      BY <3>1
    <3> QED BY <1>0, <3>1, <3>2, <3>3, <3>4, MovedReachably
  <2>10. LinkedInv'
    <3> SUFFICES ASSUME ~faulty'
                 PROVE  /\ \A p \in PlacesOf(job.slot[1]) \ job.left : place'[p] = LinkTo(job.slot)
                        /\ job.left = {}
                        /\ \A t \in Titles : ~Dead(t)'
      BY <2>3 DEF LinkedInv
    <3>1. /\ \A p \in PlacesOf(job.slot[1]) \ job.left : place[p] = LinkTo(job.slot)
          /\ job.left = {} /\ job.slot \in slots
      BY <1>0, <2>2, <2>7 DEF LinkedInv, WorkInv
    <3>2. ASSUME NEW p \in PlacesOf(job.slot[1]) PROVE place'[p] = LinkTo(job.slot)
      <4>1. p \in Places /\ place[p] = LinkTo(job.slot)
        BY <3>1, PlacesOfAreThere
      <4>2. p \notin gone
        BY <2>4, <3>1, <4>1, KindsOfPlace DEF Dead
      <4> QED BY <2>1, <4>1, <4>2
    <3>3. ASSUME NEW t \in Titles PROVE ~Dead(t)'
      <4>0. t \in Places
        BY DEF Places
      <4>1. CASE t \in gone
        BY <2>1, <4>0, <4>1, KindsOfPlace DEF Dead
      <4>2. CASE t \notin gone
        <5>1. ~Dead(t) /\ place'[t] = place[t]
          BY <2>1, <2>7, <4>0, <4>2 DEF Sweepable
        <5> QED BY <2>2, <5>1 DEF Dead
      <4> QED BY <4>1, <4>2
    <3> QED BY <3>1, <3>2, <3>3
  <2> QED BY <2>8, <2>9, <2>10 DEF SavesInv
<1>14. CASE EndRoom
  BY <1>0, <1>14 DEF EndRoom, SavesInv, SaveTypes, WorkInv, NothingIsLost, Reachable, LinkedInv
<1>15. ASSUME NEW dir \in slots, RemoveSlot(dir) PROVE SavesInv'
  <2>1. /\ job = Idle /\ slots' = slots \ {dir}
        /\ where' = Moved(Files(InSlot(dir)), Discarded) /\ UNCHANGED <<place, asides, job, faulty>>
    BY <1>15 DEF RemoveSlot
  <2>2. where' \in [Saved -> Locations]
    BY <1>0, <2>1 DEF SaveTypes, Moved, Locations
  <2>3. NothingIsLost'
    <3>1. Discarded # Lost /\ Discarded.is = "discarded"
      BY DEF Discarded, Lost
    <3>2. ASSUME NEW s \in Saved \ Files(InSlot(dir))
          PROVE  /\ where[s].is = "slot" => where[s].at \in slots'
                 /\ where[s].is = "folder" => place'[where[s].at[1]] = Folder
                 /\ where[s].is = "aside" => where[s].n <= asides'[where[s].at[1]]
      <4>1. CASE where[s].is = "slot"
        <5>1. where[s] = InSlot(where[s].at) /\ where[s].at \in slots
          BY <1>0, <4>1, LocationFacts DEF SaveTypes, NothingIsLost, Reachable
        <5>2. where[s].at # dir
          BY <3>2, <5>1 DEF Files
        <5> QED BY <2>1, <4>1, <5>1, <5>2
      <4>2. CASE where[s].is # "slot"
        BY <1>0, <2>1, <4>2 DEF NothingIsLost, Reachable
      <4> QED BY <4>1, <4>2
    <3>3. /\ Discarded.is = "slot" => Discarded.at \in slots'
          /\ Discarded.is = "folder" => place'[Discarded.at[1]] = Folder
          /\ Discarded.is = "aside" => Discarded.n <= asides'[Discarded.at[1]]
      BY <3>1
    <3> QED BY <1>0, <2>1, <3>1, <3>2, <3>3, MovedReachably
  <2>4. SaveTypes' /\ LinkedInv'
    BY <1>0, <2>1, <2>2 DEF SaveTypes, WorkInv, LinkedInv
  <2> QED BY <2>3, <2>4 DEF SavesInv
<1> QED BY <1>1, <1>2, <1>3, <1>4, <1>5, <1>6, <1>7, <1>8, <1>9, <1>10, <1>11, <1>12, <1>13,
           <1>14, <1>15 DEF SavesNext

LEMMA SavesInvGives == SavesInv => SavesOK
<1> SUFFICES ASSUME SavesInv PROVE SavesOK
  OBVIOUS
<1>1. SavesTypeOK /\ NothingIsLost
  BY SaveTypesGive DEF SavesInv
<1>2. PlaysOnTheChosenSlot
  <2> SUFFICES ASSUME job.stage = "play", ~faulty
               PROVE  /\ \A p \in PlacesOf(job.slot[1]) : place[p] = LinkTo(job.slot) /\ ~Dead(p)
                      /\ \A t \in Titles : ~Dead(t)
    BY DEF PlaysOnTheChosenSlot
  <2>1. /\ \A p \in PlacesOf(job.slot[1]) : place[p] = LinkTo(job.slot)
        /\ \A t \in Titles : ~Dead(t)
        /\ job.slot \in slots
    BY Busy DEF SavesInv, SaveTypes, LinkedInv, WorkInv
  <2>2. \A p \in PlacesOf(job.slot[1]) : ~Dead(p)
    BY <2>1, KindsOfPlace DEF Dead
  <2> QED BY <2>1, <2>2
<1> QED BY <1>1, <1>2 DEF SavesOK

-----------------------------------------------------------------------------
(* The doors of a room (browser/mod.rs, route.rs, page.rs)                  *)

USE DoorsAssumption
USE DEF doorVars

Replies == {Word(w) : w \in {"none", "refused", "roms", "art", "404", "503", "half", "nohalf", "304"}
                            \union Clipped}
           \union [is : {"page"}, as : Packings, bytes : {"packed", "raw"}]
SeenStreams == {"video", "video?half=1", "sound", "input"}
LetIn == {j \in Conns : door[j] \in Living}

\* Its origin is one that may come in, or was not wholly seen.
MayPass(r) == r.origin \in {"absent", "own"} \/ r.shown # r.origin

\* The threads that live are all counted, and are never more than there may be.
CountInv == IsFiniteSet(sockets) /\ LetIn \subseteq sockets /\ Cardinality(LetIn) <= MAX_CONNECTIONS

\* A connection that is handed over is for a stream; nobody who has not knocked was
\* answered anything; a no that was stored was said.
PassInv ==
    /\ answer \in [Conns -> Replies]
    /\ \A k \in Conns : /\ door[k] = "hand" => classify(req[k]) \in SeenStreams
                        /\ door[k] = "out" => answer[k] = Word("none")
    /\ half = "no" => saidNo

\* After the list was cleared, who is still on the way to the half size read the
\* offer before.
OfferInv ==
    half = "no" /\ ~clearing =>
        /\ halfViewers \subseteq crossed
        /\ \A k \in Conns : door[k] = "hand" /\ classify(req[k]) = "video?half=1" => k \in crossed

DoorsInv == DoorsTypeOK /\ CountInv /\ PassInv /\ OnlyOwnPagesComeIn /\ NoEarlyNo /\ PageIsReadable
            /\ OfferInv

\* A step turns somebody away.
Refuses == \E k \in Conns : answer'[k].is = "refused" /\ answer[k].is # "refused"

LEMMA CountKept ==
    ASSUME CountInv, sockets' = sockets, LetIn' \subseteq LetIn
    PROVE  CountInv'
<1>1. IsFiniteSet(LetIn)
  BY FS_Subset DEF CountInv
<1>2. /\ IsFiniteSet(LetIn') /\ Cardinality(LetIn') <= Cardinality(LetIn)
  BY <1>1, FS_Subset
<1>3. Cardinality(LetIn) \in Nat /\ Cardinality(LetIn') \in Nat
  BY <1>1, <1>2, FS_CardinalityType
<1> QED BY <1>2, <1>3 DEF CountInv

\* What a request is classified as says where it comes from, as far as it was seen.
LEMMA ClassifyFacts ==
    ASSUME NEW r \in Requests
    PROVE  /\ classify(r) \in SeenStreams => MayPass(r)
           /\ classify(r) = "clip" => MayPass(r)
           /\ classify(r) = "page" => r.packing \in Packings
<1>1. CASE r.says = "plain" /\ r.path = "clip"
  BY <1>1 DEF classify, same_origin, SeenStreams, MayPass
<1>2. CASE r.says = "plain" /\ r.path \in {"formats", "roms", "art", "noart"}
  <2>1. classify(r) = r.path
    BY <1>2 DEF classify
  <2> QED BY <1>2, <2>1 DEF SeenStreams
<1>3. CASE r.says = "plain" /\ r.path \notin {"clip", "formats", "roms", "art", "noart"}
  <2>1. classify(r) = "page"
    BY <1>3 DEF classify
  <2> QED BY <1>3, <2>1 DEF SeenStreams
<1>4. CASE r.says # "plain"
  <2>1. CASE r.says = "upgrade" /\ same_origin(r) /\ r.path \in SeenStreams
    <3>1. classify(r) = r.path
      BY <2>1 DEF classify, SeenStreams
    <3> QED BY <2>1, <3>1 DEF SeenStreams, same_origin, MayPass
  <2>2. CASE ~(r.says = "upgrade" /\ same_origin(r) /\ r.path \in SeenStreams)
    <3>1. classify(r) = "nobody"
      BY <1>4, <2>2 DEF classify, SeenStreams
    <3> QED BY <3>1 DEF SeenStreams
  <2> QED BY <2>1, <2>2
<1> QED BY <1>1, <1>2, <1>3, <1>4

LEMMA WordIs == \A w : Word(w).is = w
BY DEF Word

\* A connection that is answered and shut keeps everything that is told of the others.
Answerable(k, a) ==
    /\ a \in Replies /\ a.is # "refused"
    /\ a.is \in Clipped => MayPass(req[k])
    /\ a.is = "nohalf" => saidNo
    /\ a.is = "page" => ((a.as = "raw") <=> (a.bytes = "raw"))

LEMMA SettleKeeps ==
    ASSUME DoorsInv, NEW k \in Conns, door[k] = "classify", NEW a, Answerable(k, a), Settle(k, a),
           UNCHANGED <<backlog, req, sockets, half, clearing, halfViewers, fullViewers, saidNo, crossed>>,
           packed' \in [Packings \ {"raw"} -> {"no", "packed", "raw"}]
    PROVE  DoorsInv' /\ ~Refuses
<1>1. /\ door' \in [Conns -> Living \union {"out", "backlog", "over"}] /\ answer' \in [Conns -> Replies]
      /\ door'[k] = "over" /\ answer'[k] = a
      /\ \A j \in Conns : j # k => door'[j] = door[j] /\ answer'[j] = answer[j]
  BY DEF DoorsInv, DoorsTypeOK, PassInv, Settle, Now, Answerable
<1>2. DoorsTypeOK'
  BY <1>1 DEF DoorsInv, DoorsTypeOK
<1>3. CountInv'
  <2>1. LetIn' \subseteq LetIn
    BY <1>1 DEF LetIn, Living
  <2> QED BY <2>1, CountKept DEF DoorsInv
<1>4. PassInv'
  BY <1>1 DEF DoorsInv, PassInv
<1>5. OnlyOwnPagesComeIn'
  BY <1>1 DEF DoorsInv, OnlyOwnPagesComeIn, Answerable, MayPass
<1>6. NoEarlyNo'
  BY <1>1 DEF DoorsInv, NoEarlyNo, Answerable
<1>7. PageIsReadable'
  BY <1>1 DEF DoorsInv, PageIsReadable, Answerable
<1>8. OfferInv'
  BY <1>1 DEF DoorsInv, OfferInv
<1>9. ~Refuses
  BY <1>1 DEF Refuses, Answerable
<1> QED BY <1>2, <1>3, <1>4, <1>5, <1>6, <1>7, <1>8, <1>9 DEF DoorsInv

LEMMA DoorsBegin == DoorsInit => DoorsInv
<1> SUFFICES ASSUME DoorsInit PROVE DoorsInv
  OBVIOUS
<1>1. DoorsTypeOK
  <2>1. /\ backlog \in Seq(Conns) /\ sockets \subseteq Conns
        /\ half \in {"unknown", "yes", "no"} /\ halfViewers \union fullViewers \union crossed \subseteq Conns
    BY DEF DoorsInit
  <2>2. door \in [Conns -> Living \union {"out", "backlog", "over"}] /\ req \in [Conns -> Requests]
    BY DEF DoorsInit
  <2>3. {clearing, saidNo} \subseteq BOOLEAN
    BY DEF DoorsInit
  <2>4. packed \in [Packings \ {"raw"} -> {"no", "packed", "raw"}]
    BY DEF DoorsInit
  <2> QED BY <2>1, <2>2, <2>3, <2>4 DEF DoorsTypeOK
<1>2. CountInv
  <2>1. LetIn = {}
    BY DEF DoorsInit, LetIn, Living
  <2> QED BY <2>1, FS_EmptySet DEF DoorsInit, CountInv
<1>3. PassInv
  <2>1. Word("none") \in Replies
    BY DEF Replies
  <2> QED BY <2>1 DEF DoorsInit, PassInv
<1>4. OnlyOwnPagesComeIn /\ NoEarlyNo /\ PageIsReadable
  BY WordIs DEF DoorsInit, OnlyOwnPagesComeIn, NoEarlyNo, PageIsReadable, Clipped
<1>5. OfferInv
  BY DEF DoorsInit, OfferInv
<1> QED BY <1>1, <1>2, <1>3, <1>4, <1>5 DEF DoorsInv

\* The count of those inside: who is let in is one more, and only while there is room.
LEMMA AcceptKeeps ==
    ASSUME DoorsInv, Accept
    PROVE  DoorsInv' /\ (Refuses => Cardinality(LetIn) = MAX_CONNECTIONS)
<1> DEFINE k == Head(backlog)
<1>1. k \in Conns /\ backlog' \in Seq(Conns)
  <2>1. backlog \in Seq(Conns) /\ backlog # <<>> /\ backlog' = Tail(backlog)
    BY DEF DoorsInv, DoorsTypeOK, Accept
  <2> QED BY <2>1, HeadTailProperties
<1>2. reap = LetIn
  BY DEF DoorsInv, CountInv, DoorsTypeOK, reap, LetIn
<1>3. IsFiniteSet(LetIn) /\ Cardinality(LetIn) \in Nat
  BY FS_Subset, FS_CardinalityType DEF DoorsInv, CountInv
<1>4. /\ UNCHANGED <<req, half, clearing, halfViewers, fullViewers, packed, saidNo, crossed>>
      /\ \/ /\ Cardinality(LetIn) >= MAX_CONNECTIONS
            /\ door' = [door EXCEPT ![k] = "over"] /\ sockets' = LetIn
            /\ answer' = [answer EXCEPT ![k] = Word("refused")]
         \/ /\ ~(Cardinality(LetIn) >= MAX_CONNECTIONS)
            /\ door' = [door EXCEPT ![k] = "classify"] /\ sockets' = LetIn \union {k}
            /\ answer' = answer
  BY <1>2 DEF Accept, Now
<1> HIDE DEF k
<1>5. /\ door' \in [Conns -> Living \union {"out", "backlog", "over"}]
      /\ door'[k] \in {"over", "classify"} /\ \A j \in Conns : j # k => door'[j] = door[j]
      /\ \A j \in Conns : j # k => answer'[j] = answer[j]
      /\ answer'[k] \in {answer[k], Word("refused")} /\ answer' \in [Conns -> Replies]
  <2>1. Word("refused") \in Replies
    BY DEF Replies
  <2>2. /\ door \in [Conns -> Living \union {"out", "backlog", "over"}]
        /\ answer \in [Conns -> Replies]
    BY DEF DoorsInv, DoorsTypeOK, PassInv, Living
  <2>3. {"over", "classify"} \subseteq Living \union {"out", "backlog", "over"}
    BY DEF Living
  <2>4. CASE door' = [door EXCEPT ![k] = "over"] /\ answer' = [answer EXCEPT ![k] = Word("refused")]
    BY <1>1, <2>1, <2>2, <2>3, <2>4
  <2>5. CASE door' = [door EXCEPT ![k] = "classify"] /\ answer' = answer
    BY <1>1, <2>2, <2>3, <2>5
  <2> QED BY <1>4, <2>4, <2>5
<1>6. CountInv' /\ sockets' \subseteq Conns
  <2>1. CASE Cardinality(LetIn) >= MAX_CONNECTIONS
    <3>1. LetIn' \subseteq LetIn
      BY <1>1, <1>4, <1>5, <2>1 DEF LetIn, Living, DoorsInv, DoorsTypeOK
    <3>2. IsFiniteSet(LetIn') /\ Cardinality(LetIn') <= Cardinality(LetIn) /\ Cardinality(LetIn') \in Nat
      BY <1>3, <3>1, FS_Subset, FS_CardinalityType
    <3>3. Cardinality(LetIn') <= MAX_CONNECTIONS
      BY <1>3, <3>2 DEF DoorsInv, CountInv
    <3>4. sockets' = LetIn
      BY <1>4, <2>1
    <3> QED BY <1>3, <3>1, <3>3, <3>4 DEF CountInv, LetIn
  <2>2. CASE ~(Cardinality(LetIn) >= MAX_CONNECTIONS)
    <3>1. LetIn' \subseteq LetIn \union {k}
      BY <1>5 DEF LetIn
    <3>2. /\ IsFiniteSet(LetIn \union {k}) /\ Cardinality(LetIn \union {k}) \in Nat
          /\ Cardinality(LetIn \union {k}) <= Cardinality(LetIn) + 1
      <4>1. /\ IsFiniteSet(LetIn \union {k})
            /\ Cardinality(LetIn \union {k}) = IF k \in LetIn THEN Cardinality(LetIn)
                                                ELSE Cardinality(LetIn) + 1
        BY <1>3, FS_AddElement
      <4> QED BY <1>3, <4>1
    <3>3. /\ Cardinality(LetIn') <= Cardinality(LetIn \union {k})
          /\ Cardinality(LetIn') \in Nat
      BY <3>1, <3>2, FS_Subset, FS_CardinalityType
    <3>4. Cardinality(LetIn') <= MAX_CONNECTIONS
      BY <1>3, <2>2, <3>2, <3>3
    <3>5. sockets' = LetIn \union {k}
      BY <1>4, <2>2
    <3> QED BY <1>1, <3>1, <3>2, <3>4, <3>5 DEF CountInv, LetIn
  <2> QED BY <2>1, <2>2
<1>7. DoorsTypeOK'
  BY <1>1, <1>4, <1>5, <1>6 DEF DoorsInv, DoorsTypeOK
<1>8. PassInv'
  BY <1>4, <1>5 DEF DoorsInv, PassInv
<1>9. OnlyOwnPagesComeIn' /\ NoEarlyNo' /\ PageIsReadable'
  BY <1>4, <1>5, WordIs DEF DoorsInv, OnlyOwnPagesComeIn, NoEarlyNo, PageIsReadable, Clipped
<1>10. OfferInv'
  BY <1>4, <1>5 DEF DoorsInv, OfferInv
<1>11. ASSUME Refuses PROVE Cardinality(LetIn) = MAX_CONNECTIONS
  <2>1. Cardinality(LetIn) >= MAX_CONNECTIONS
    BY <1>4, <1>11 DEF Refuses
  <2> QED BY <1>3, <2>1 DEF DoorsInv, CountInv
<1> QED BY <1>6, <1>7, <1>8, <1>9, <1>10, <1>11 DEF DoorsInv

\* What leaves the answers alone turns nobody away.
LEMMA NoneRefused == ASSUME answer' = answer PROVE ~Refuses
BY DEF Refuses

LEMMA DoorsStep ==
    ASSUME DoorsInv, [DoorsNext]_doorVars
    PROVE  DoorsInv' /\ (Refuses => Cardinality(LetIn) = MAX_CONNECTIONS)
<1> DEFINE Goal == DoorsInv' /\ (Refuses => Cardinality(LetIn) = MAX_CONNECTIONS)
<1>0. /\ DoorsTypeOK /\ CountInv /\ PassInv /\ OnlyOwnPagesComeIn /\ NoEarlyNo /\ PageIsReadable
      /\ OfferInv
  BY DEF DoorsInv
<1>1. CASE UNCHANGED doorVars
  <2>1. CountInv'
    <3>1. LetIn' = LetIn
      BY <1>1 DEF LetIn
    <3> QED BY <1>0, <1>1, <3>1, CountKept
  <2>2. DoorsInv'
    BY <1>0, <1>1, <2>1 DEF DoorsInv, DoorsTypeOK, PassInv, OnlyOwnPagesComeIn, NoEarlyNo,
                            PageIsReadable, OfferInv
  <2> QED BY <1>1, <2>2, NoneRefused
<1>2. CASE Accept
  BY <1>2, AcceptKeeps
<1>3. CASE ClearHalf
  <2>1. LetIn' = LetIn /\ CountInv'
    <3>1. LetIn' = LetIn
      BY <1>3 DEF ClearHalf, LetIn
    <3> QED BY <1>0, <1>3, <3>1, CountKept DEF ClearHalf
  <2>2. DoorsTypeOK' /\ PassInv'
    BY <1>0, <1>3 DEF ClearHalf, DoorsTypeOK, PassInv
  <2>3. OnlyOwnPagesComeIn' /\ NoEarlyNo' /\ PageIsReadable' /\ OfferInv'
    BY <1>0, <1>3 DEF ClearHalf, OnlyOwnPagesComeIn, NoEarlyNo, PageIsReadable, OfferInv
  <2> QED BY <1>3, <2>1, <2>2, <2>3, NoneRefused DEF ClearHalf, DoorsInv
<1>4. CASE Deliver
  <2>1. CountInv'
    <3>1. LetIn' = LetIn
      BY <1>4 DEF Deliver, LetIn
    <3> QED BY <1>0, <1>4, <3>1, CountKept DEF Deliver
  <2>2. DoorsTypeOK' /\ PassInv'
    BY <1>0, <1>4 DEF Deliver, DoorsTypeOK, PassInv
  <2>3. OnlyOwnPagesComeIn' /\ NoEarlyNo' /\ PageIsReadable' /\ OfferInv'
    BY <1>0, <1>4 DEF Deliver, OnlyOwnPagesComeIn, NoEarlyNo, PageIsReadable, OfferInv
  <2> QED BY <1>4, <2>1, <2>2, <2>3, NoneRefused DEF Deliver, DoorsInv
<1>5. ASSUME NEW offered \in BOOLEAN, half_offered(offered) PROVE Goal
  <2>1. CountInv'
    <3>1. LetIn' = LetIn
      BY <1>5 DEF half_offered, LetIn
    <3> QED BY <1>0, <1>5, <3>1, CountKept DEF half_offered
  <2>2. DoorsTypeOK' /\ PassInv'
    BY <1>0, <1>5 DEF half_offered, DoorsTypeOK, PassInv
  <2>3. OnlyOwnPagesComeIn' /\ NoEarlyNo' /\ PageIsReadable' /\ OfferInv'
    BY <1>0, <1>5 DEF half_offered, OnlyOwnPagesComeIn, NoEarlyNo, PageIsReadable, OfferInv
  <2> QED BY <1>5, <2>1, <2>2, <2>3, NoneRefused DEF half_offered, DoorsInv
<1>6. ASSUME NEW k \in Conns, NEW r \in Requests, Knock(k, r) PROVE Goal
  <2>1. /\ door[k] = "out" /\ door' = [door EXCEPT ![k] = "backlog"] /\ req' = [req EXCEPT ![k] = r]
        /\ backlog' = Append(backlog, k)
        /\ UNCHANGED <<sockets, answer, half, clearing, halfViewers, fullViewers, packed, saidNo, crossed>>
    BY <1>6 DEF Knock
  <2>2. /\ door' \in [Conns -> Living \union {"out", "backlog", "over"}] /\ req' \in [Conns -> Requests]
        /\ door'[k] = "backlog" /\ req'[k] = r
        /\ \A j \in Conns : j # k => door'[j] = door[j] /\ req'[j] = req[j]
    BY <1>0, <2>1 DEF DoorsTypeOK
  <2>3. CountInv'
    <3>1. LetIn' \subseteq LetIn
      BY <2>2 DEF LetIn, Living
    <3> QED BY <1>0, <2>1, <3>1, CountKept
  <2>4. backlog' \in Seq(Conns)
    BY <1>0, <2>1 DEF DoorsTypeOK
  <2>5. DoorsTypeOK'
    BY <1>0, <2>1, <2>2, <2>4 DEF DoorsTypeOK
  <2>6. PassInv' /\ OfferInv'
    BY <1>0, <2>1, <2>2 DEF PassInv, OfferInv
  <2>7. OnlyOwnPagesComeIn'
    <3>1. answer[k].is \notin Clipped
      BY <1>0, <2>1, WordIs DEF PassInv, Clipped
    <3> QED BY <1>0, <2>1, <2>2, <3>1 DEF OnlyOwnPagesComeIn
  <2>8. NoEarlyNo' /\ PageIsReadable'
    BY <1>0, <2>1 DEF NoEarlyNo, PageIsReadable
  <2> QED BY <2>1, <2>3, <2>5, <2>6, <2>7, <2>8, NoneRefused DEF DoorsInv
<1>7. ASSUME NEW k \in Conns, HangUp(k) PROVE Goal
  <2>1. Answerable(k, Word("none"))
    BY WordIs DEF Answerable, Replies, Clipped
  <2> QED BY <1>0, <1>7, <2>1, SettleKeeps DEF HangUp, DoorsTypeOK
<1>8. ASSUME NEW k \in Conns, ServeClip(k) PROVE Goal
  <2>1. PICK a \in Clipped : Settle(k, Word(a))
    BY <1>8 DEF ServeClip
  <2>2. Answerable(k, Word(a))
    <3>1. req[k] \in Requests /\ classify(req[k]) = "clip"
      BY <1>0, <1>8 DEF ServeClip, Routed, DoorsTypeOK
    <3>2. MayPass(req[k])
      BY <3>1, ClassifyFacts
    <3>3. Word(a) \in Replies
      BY DEF Replies
    <3> QED BY <3>2, <3>3, WordIs DEF Answerable, Clipped
  <2> QED BY <1>0, <1>8, <2>1, <2>2, SettleKeeps DEF ServeClip, Routed, DoorsTypeOK
<1>9. ASSUME NEW k \in Conns, ServeBody(k) PROVE Goal
  <2> DEFINE w == IF classify(req[k]) = "noart" THEN "404" ELSE classify(req[k])
  <2>1. w \in {"404", "roms", "art"}
    BY <1>9 DEF ServeBody, Routed
  <2>2. Settle(k, Word(w))
    BY <1>9 DEF ServeBody
  <2> HIDE DEF w
  <2>3. Answerable(k, Word(w))
    BY <2>1, WordIs DEF Answerable, Replies, Clipped
  <2> QED BY <1>0, <1>9, <2>2, <2>3, SettleKeeps DEF ServeBody, Routed, DoorsTypeOK
<1>10. ASSUME NEW k \in Conns, ServeFormats(k) PROVE Goal
  <2>1. formats \in {"half", "nohalf", "503"} /\ (formats = "nohalf" => half = "no")
    BY <1>0 DEF formats, DoorsTypeOK
  <2>2. Answerable(k, Word(formats))
    BY <1>0, <2>1, WordIs DEF Answerable, Replies, Clipped, PassInv
  <2> QED BY <1>0, <1>10, <2>2, SettleKeeps DEF ServeFormats, Routed, DoorsTypeOK
<1>11. ASSUME NEW k \in Conns, ServePage(k) PROVE Goal
  <2> DEFINE p == req[k].packing
  <2>1. door[k] = "classify" /\ p \in Packings
    BY <1>0, <1>11, ClassifyFacts DEF ServePage, Routed, DoorsTypeOK
  <2>2. CASE Settle(k, Word("304")) /\ UNCHANGED packed
    <3>1. Answerable(k, Word("304"))
      BY WordIs DEF Answerable, Replies, Clipped
    <3> QED BY <1>0, <1>11, <2>1, <2>2, <3>1, SettleKeeps DEF ServePage, DoorsTypeOK
  <2>3. ASSUME NEW kept \in IF p = "raw" THEN {"raw"}
                            ELSE IF packed[p] = "no" THEN {"packed", "raw"} ELSE {packed[p]},
               Settle(k, [is |-> "page", as |-> encoding(p, kept), bytes |-> kept]),
               packed' = IF p = "raw" THEN packed ELSE [packed EXCEPT ![p] = kept]
        PROVE  Goal
    <3>1. kept \in {"packed", "raw"} /\ (p = "raw" => kept = "raw")
      BY <1>0, <2>1, <2>3 DEF DoorsTypeOK
    <3>2. encoding(p, kept) \in Packings /\ ((encoding(p, kept) = "raw") <=> (kept = "raw"))
      BY <2>1, <3>1 DEF encoding, Packings
    <3>3. Answerable(k, [is |-> "page", as |-> encoding(p, kept), bytes |-> kept])
      BY <3>1, <3>2 DEF Answerable, Replies, Clipped
    <3>4. packed' \in [Packings \ {"raw"} -> {"no", "packed", "raw"}]
      BY <1>0, <2>3, <3>1 DEF DoorsTypeOK
    <3> QED BY <1>11, <2>1, <2>3, <3>3, <3>4, SettleKeeps DEF ServePage
  <2> QED BY <1>11, <2>2, <2>3 DEF ServePage
<1>12. ASSUME NEW k \in Conns, ServeMissing(k) PROVE Goal
  <2>1. Answerable(k, Word("404"))
    BY WordIs DEF Answerable, Replies, Clipped
  <2> QED BY <1>0, <1>12, <2>1, SettleKeeps DEF ServeMissing, Routed, DoorsTypeOK
<1>13. ASSUME NEW k \in Conns, HandOver(k) PROVE Goal
  <2>1. /\ door[k] = "classify" /\ classify(req[k]) \in SeenStreams
        /\ classify(req[k]) = "video?half=1" => half # "no"
        /\ door' = [door EXCEPT ![k] = "hand"]
        /\ UNCHANGED <<backlog, req, sockets, answer, half, clearing, halfViewers, fullViewers, packed,
                       saidNo, crossed>>
    BY <1>13 DEF HandOver, Routed, SeenStreams
  <2>2. MayPass(req[k])
    BY <1>0, <2>1, ClassifyFacts DEF DoorsTypeOK
  <2>3. /\ door' \in [Conns -> Living \union {"out", "backlog", "over"}]
        /\ door'[k] = "hand" /\ \A j \in Conns : j # k => door'[j] = door[j]
    BY <1>0, <2>1 DEF DoorsTypeOK, Living
  <2>4. CountInv'
    <3>1. LetIn' \subseteq LetIn
      BY <2>1, <2>3 DEF LetIn, Living
    <3> QED BY <1>0, <2>1, <3>1, CountKept
  <2>5. DoorsTypeOK'
    BY <1>0, <2>1, <2>3 DEF DoorsTypeOK
  <2>6. PassInv' /\ OfferInv'
    BY <1>0, <2>1, <2>3 DEF PassInv, OfferInv
  <2>7. OnlyOwnPagesComeIn' /\ NoEarlyNo' /\ PageIsReadable'
    BY <1>0, <2>1, <2>2, <2>3 DEF OnlyOwnPagesComeIn, NoEarlyNo, PageIsReadable, MayPass
  <2> QED BY <2>1, <2>4, <2>5, <2>6, <2>7, NoneRefused DEF DoorsInv
<1>14. ASSUME NEW k \in Conns, JoinStream(k) PROVE Goal
  <2> DEFINE route == classify(req[k])
  <2>1. /\ door[k] = "hand"
        /\ UNCHANGED <<backlog, req, sockets, answer, half, clearing, packed, saidNo, crossed>>
    BY <1>14 DEF JoinStream
  <2>2. route \in SeenStreams
    BY <1>0, <2>1 DEF PassInv
  <2>3. /\ door'[k] \in {"full", "half", "sound", "input", "over"}
        /\ door' \in [Conns -> Living \union {"out", "backlog", "over"}]
        /\ \A j \in Conns : j # k => door'[j] = door[j]
    <3>1. (CASE route = "video" -> "full" [] route = "video?half=1" -> "half" [] OTHER -> route)
              \in {"full", "half", "sound", "input"}
      BY <2>2 DEF SeenStreams
    <3> QED BY <1>0, <1>14, <3>1 DEF JoinStream, DoorsTypeOK, Living, Now
  <2>4. /\ halfViewers' \subseteq halfViewers \union {k} /\ fullViewers' \subseteq fullViewers \union {k}
        /\ k \in halfViewers' => k \in halfViewers \/ route = "video?half=1"
    BY <1>14 DEF JoinStream
  <2>5. CountInv'
    <3>1. LetIn' \subseteq LetIn
      BY <2>1, <2>3 DEF LetIn, Living
    <3> QED BY <1>0, <2>1, <3>1, CountKept
  <2>6. DoorsTypeOK'
    BY <1>0, <2>1, <2>3, <2>4 DEF DoorsTypeOK
  <2>7. PassInv' /\ OfferInv'
    BY <1>0, <2>1, <2>3, <2>4 DEF PassInv, OfferInv
  <2>8. OnlyOwnPagesComeIn' /\ NoEarlyNo' /\ PageIsReadable'
    BY <1>0, <2>1, <2>3 DEF OnlyOwnPagesComeIn, NoEarlyNo, PageIsReadable
  <2> QED BY <2>1, <2>5, <2>6, <2>7, <2>8, NoneRefused DEF DoorsInv
<1>15. ASSUME NEW k \in Conns, LeaveStream(k) PROVE Goal
  <2>1. /\ door' = [door EXCEPT ![k] = "over"]
        /\ UNCHANGED <<backlog, req, sockets, answer, half, clearing, halfViewers, fullViewers, packed,
                       saidNo, crossed>>
    BY <1>15 DEF LeaveStream, Now
  <2>2. /\ door' \in [Conns -> Living \union {"out", "backlog", "over"}]
        /\ door'[k] = "over" /\ \A j \in Conns : j # k => door'[j] = door[j]
    BY <1>0, <2>1 DEF DoorsTypeOK
  <2>3. CountInv'
    <3>1. LetIn' \subseteq LetIn
      BY <2>2 DEF LetIn, Living
    <3> QED BY <1>0, <2>1, <3>1, CountKept
  <2>4. DoorsTypeOK'
    BY <1>0, <2>1, <2>2 DEF DoorsTypeOK
  <2>5. PassInv' /\ OfferInv'
    BY <1>0, <2>1, <2>2 DEF PassInv, OfferInv
  <2>6. OnlyOwnPagesComeIn' /\ NoEarlyNo' /\ PageIsReadable'
    BY <1>0, <2>1, <2>2 DEF OnlyOwnPagesComeIn, NoEarlyNo, PageIsReadable
  <2> QED BY <2>1, <2>3, <2>4, <2>5, <2>6, NoneRefused DEF DoorsInv
<1> QED BY <1>1, <1>2, <1>3, <1>4, <1>5, <1>6, <1>7, <1>8, <1>9, <1>10, <1>11, <1>12, <1>13,
           <1>14, <1>15 DEF DoorsNext

LEMMA DoorsInvGives == DoorsInv => DoorsOK
BY DEF DoorsInv, DoorsOK, OfferInv, DarkOnlyByCrossing

-----------------------------------------------------------------------------
(* The parts together: a part that moves takes its own step, the others stay *)
(* as they are, so each behaves as if it were alone.                         *)

partsAll == <<part, pipeVars, devVars, saveVars, clipVars, doorVars, wireVars, socketVars, libraryVars,
              bannerVars, h264Vars, pipelineVars, lobbyVars>>

\* The invariant of the parts a theorem below is about.
PartsInv == /\ PipeInv /\ DevInv /\ SavesInv /\ DoorsInv /\ WireInv /\ SocketInv
            /\ LibraryInv /\ BannerInv /\ ClipInv /\ PipelineInv /\ LobbyInv

LEMMA EachBegins ==
    PartsInit => /\ PipeInit /\ DevInit /\ SavesInit /\ DoorsInit /\ WireInit /\ FrameSocketInit
                 /\ LibraryInit /\ BannerInit /\ ClipInit /\ PipelineInit /\ LobbyInit
BY DEF PartsInit

\* A theme of the lobby is made of steps of the lobby.
LEMMA ThemesAreTheLobby ==
    NamesTheme \/ HandlersTheme \/ RestartsTheme \/ LaunchTheme \/ OwnerTheme \/ RecoveryTheme
        => LobbyNext
<1>1. Carries \/ Follows => LobbyNext
  BY DEF Carries, Follows, LobbyNext, Handling
<1>2. ASSUME NEW g \in Guests, Comes(g) \/ connect(g) PROVE LobbyNext
  BY <1>2 DEF Comes, LobbyNext, Coming
<1>3. ASSUME NEW g \in Here, Comes(g) \/ connect(g) PROVE LobbyNext
  BY <1>2, <1>3 DEF Here
<1>4. Departs \/ disconnect(<<ann, 1>>) => LobbyNext
  BY ThemesAssumption DEF Departs, LobbyNext, Coming
<1>5. ASSUME NEW P \in SUBSET Chairs, Attributes(P) \/ Detaches(P) PROVE LobbyNext
  BY <1>5 DEF Attributes, Detaches, LobbyNext, Sitting, Here
<1>6. Attributes({1}) \/ Attributes(Chairs) \/ Detaches({1}) \/ Detaches({2}) => LobbyNext
  <2>1. {1} \in SUBSET Chairs /\ {2} \in SUBSET Chairs /\ Chairs \in SUBSET Chairs
    BY ThemesAssumption
  <2> QED BY <1>5, <2>1
<1>7. worker_gives(ann, 1) \/ worker_gives(bob, 2) \/ worker_drops \/ worker_ends => LobbyNext
  <2>1. ann \in Guests /\ bob \in Guests /\ 1 \in Chairs /\ 2 \in Chairs
    BY ThemesAssumption DEF Here
  <2> QED BY <2>1 DEF LobbyNext, Sitting
<1>8. Announces \/ Naming \/ Launching \/ Recoveries \/ read_room \/ speaks_elsewhere => LobbyNext
  BY DEF Announces, LobbyNext, Naming
<1>9. (\E t \in Tasks : times_out(t)) => LobbyNext
  BY DEF LobbyNext, Handling
<1>10. ann \in Guests
  BY ThemesAssumption DEF Here
<1>11. NamesTheme \/ HandlersTheme => LobbyNext
  BY <1>1, <1>3, <1>4, <1>6, <1>8 DEF NamesTheme, HandlersTheme
<1>12. RestartsTheme \/ OwnerTheme => LobbyNext
  BY <1>1, <1>2, <1>4, <1>6, <1>7, <1>8, <1>9, <1>10 DEF RestartsTheme, OwnerTheme
<1>13. LaunchTheme \/ RecoveryTheme => LobbyNext
  BY <1>1, <1>3, <1>6, <1>7, <1>8 DEF LaunchTheme, RecoveryTheme
<1> QED BY <1>11, <1>12, <1>13

LEMMA EachSteps ==
    [PartsNext]_partsAll => /\ [PipeNext]_pipeVars /\ [DevNext]_devVars /\ [SavesNext]_saveVars
                            /\ [DoorsNext]_doorVars /\ [WireNext]_wireVars
                            /\ [FrameSocketNext]_socketVars /\ [LibraryNext]_libraryVars
                            /\ [ClipNext]_clipVars /\ [PipelineNext]_pipelineVars
                            /\ [LobbyNext]_lobbyVars /\ [BannerNext]_bannerVars
<1> SUFFICES ASSUME [PartsNext]_partsAll
             PROVE  /\ [PipeNext]_pipeVars /\ [DevNext]_devVars /\ [SavesNext]_saveVars
                    /\ [DoorsNext]_doorVars /\ [WireNext]_wireVars
                    /\ [FrameSocketNext]_socketVars /\ [LibraryNext]_libraryVars
                    /\ [ClipNext]_clipVars /\ [PipelineNext]_pipelineVars
                    /\ [LobbyNext]_lobbyVars /\ [BannerNext]_bannerVars
  OBVIOUS
<1> USE DEF pipeVars, devVars, wireVars
<1>1. CASE UNCHANGED partsAll
  BY <1>1 DEF partsAll
<1>2. CASE PartsNext
  <2>1. [PipeNext]_pipeVars
    BY <1>2 DEF PartsNext, Keeps, LobbyParts
  <2>2. [DevNext]_devVars
    BY <1>2 DEF PartsNext, Keeps, LobbyParts
  <2>3. [SavesNext]_saveVars
    BY <1>2 DEF PartsNext, Keeps, LobbyParts
  <2>4. [DoorsNext]_doorVars
    BY <1>2 DEF PartsNext, Keeps, LobbyParts
  <2>5. [WireNext]_wireVars
    BY <1>2 DEF PartsNext, Keeps, LobbyParts
  <2>6. [FrameSocketNext]_socketVars
    BY <1>2 DEF PartsNext, Keeps, LobbyParts
  <2>7. [LibraryNext]_libraryVars
    BY <1>2 DEF PartsNext, Keeps, LobbyParts
  <2>8. [ClipNext]_clipVars
    BY <1>2 DEF PartsNext, Keeps, LobbyParts
  <2>9. [PipelineNext]_pipelineVars
    BY <1>2 DEF PartsNext, Keeps, LobbyParts
  <2>10. [LobbyNext]_lobbyVars
    <3>1. part \in LobbyParts => LobbyNext
      BY <1>2, ThemesAreTheLobby DEF PartsNext, LobbyParts
    <3> QED BY <1>2, <3>1 DEF PartsNext
  <2>11. [BannerNext]_bannerVars
    BY <1>2 DEF PartsNext, Keeps, LobbyParts
  <2> QED BY <2>1, <2>2, <2>3, <2>4, <2>5, <2>6, <2>7, <2>8, <2>9, <2>10, <2>11
<1> QED BY <1>1, <1>2

LEMMA PartsStepInv == PartsInv /\ [PartsNext]_partsAll => PartsInv'
<1> SUFFICES ASSUME PartsInv, [PartsNext]_partsAll PROVE PartsInv'
  OBVIOUS
<1>1. /\ [PipeNext]_pipeVars /\ [DevNext]_devVars /\ [SavesNext]_saveVars
      /\ [DoorsNext]_doorVars /\ [WireNext]_wireVars /\ [FrameSocketNext]_socketVars
      /\ [LibraryNext]_libraryVars /\ [ClipNext]_clipVars /\ [PipelineNext]_pipelineVars
      /\ [LobbyNext]_lobbyVars /\ [BannerNext]_bannerVars
  BY EachSteps
<1> QED BY <1>1, PipeStep, DevStep, SavesStep, DoorsStep, WireStep, SocketStep, LibraryStep, ClipStep,
       PipelineStep, BannerStep, LobbyKeeps DEF PartsInv

\* The invariant of the parts, from the specification of them all.
LEMMA PartsInvariant == PartsSpec => []PartsInv /\ [][PartsNext]_partsAll
<1>1. PartsInit => PartsInv
  BY EachBegins, InitInv, DevBegins, SavesBegin, DoorsBegin, WireBegins, SocketBegins,
     LibraryBegins, BannerBegins, ClipBegins, PipelineBegins, LobbyStart DEF PartsInv
<1>2. PartsSpec => PartsInit /\ [][PartsNext]_partsAll
  BY PTL DEF PartsSpec, partsAll
<1> QED BY <1>1, <1>2, PartsStepInv, PTL

\* What a player does reaches the game as it was meant, whatever the width of a
\* message and however many seats and controls there are (protocol, pipe.rs).
THEOREM ControlsAlwaysOK == PartsSpec => []ControlsOK
<1>1. PartsInv => ControlsOK
  BY WireInvGives, InvHolds DEF PartsInv, ControlsOK, WireHolds
<1> QED BY <1>1, PartsInvariant, PTL

\* The devices of a room agree wherever they are said, and a save is lost to no
\* crash, the menu says of a disc what is true of it and its banner is read whole, for
\* any games, cards, people, setups, shelves and files (config.rs, setup.rs, saves.rs,
\* library.rs, banner.rs).
THEOREM FilesAlwaysOK == PartsSpec => []FilesOK
<1>1. PartsInv => FilesOK
  BY DevInvGives, SavesInvGives, LibraryInvGives, BannerInvGives DEF PartsInv, FilesOK, DevicesOK, DevicesHold, DiscsOK
<1> QED BY <1>1, PartsInvariant, PTL

\* Who is let in, what a page is answered and who may be left in the dark are as
\* they should be with any number of connections and any requests (browser/mod.rs).
THEOREM DoorsAlwaysOK == PartsSpec => []DoorsOK
<1>1. PartsInv => DoorsOK
  BY DoorsInvGives DEF PartsInv
<1> QED BY <1>1, PartsInvariant, PTL

\* A clip is bounded and shows its room, a descriptor of the emulator has one
\* owner and a frame is lent from a whole ring, and the chain on the card outlives
\* what runs on it, leaks nothing and encodes each picture whole, for any bounds,
\* slots, sizes and refusals (clip.rs, frame_source.rs, vulkan, Pipeline).
THEOREM MediaAlwaysOK == PartsSpec => []MediaOK
<1>1. PartsInv => MediaOK
  <2> SUFFICES ASSUME PartsInv PROVE MediaOK
    OBVIOUS
  <2>1. ClipTypeOK /\ KeptIsBounded /\ PlayedRoomHasAClip /\ ClipHasItsSound
    BY ClipInvGives DEF PartsInv
  <2>2. FrameSocketTypeOK /\ DescriptorsAreOwned /\ LentFromAWholeRing
    BY DEF PartsInv, SocketInv
  <2>3. /\ PipelineTypeOK /\ NothingLeaks /\ UsedIsAlive /\ GivenBackReadable
        /\ EncodesThisPicture /\ FitsItsChain /\ WholePicture
    BY PipelineInvGives DEF PartsInv
  <2> QED BY <2>1, <2>2, <2>3 DEF MediaOK
<1> QED BY <1>1, PartsInvariant, PTL

\* A connection is refused only when the room is full, and every header a ring
\* accepts brings it nearer to whole (accept_loop, collect_ring).
THEOREM StepsAlwaysOK == PartsSpec => StepsOK
<1>1. PartsInv /\ [PartsNext]_partsAll =>
          [\A k \in Conns : answer'[k].is = "refused" /\ answer[k].is # "refused" =>
               Cardinality({j \in Conns : door[j] \in Living}) = MAX_CONNECTIONS]_doorVars
  <2> SUFFICES ASSUME PartsInv, [DoorsNext]_doorVars
               PROVE  [\A k \in Conns : answer'[k].is = "refused" /\ answer[k].is # "refused" =>
                           Cardinality({j \in Conns : door[j] \in Living}) = MAX_CONNECTIONS]_doorVars
    BY EachSteps
  <2> QED BY DoorsStep DEF PartsInv, Refuses, LetIn
<1>2. PartsInv /\ [PartsNext]_partsAll =>
          [stage = "collecting" /\ stage' = "collecting" => Missing' < Missing]_socketVars
  <2> SUFFICES ASSUME PartsInv, [FrameSocketNext]_socketVars
               PROVE  [stage = "collecting" /\ stage' = "collecting" => Missing' < Missing]_socketVars
    BY EachSteps
  <2> QED BY SocketStep DEF PartsInv
<1> QED BY <1>1, <1>2, PartsInvariant, PTL DEF StepsOK, RefusedOnlyWhenFull, RingReadingProgresses

\* The names under the seats are of who was given them, the worker obeys the owner's
\* seat told last, and the pages show the room as it is, for any pages, logins and
\* seats, and any number of handlers, visits and ends of the worker (rooms.py, server.py).
THEOREM LobbyAlwaysOK == PartsSpec => []LobbyOK
<1>1. PartsInv => LobbyOK
  BY LobbyTyped, NamesHold, OwnerHolds, ShownHolds DEF PartsInv, LobbyOK
<1> QED BY <1>1, PartsInvariant, PTL

\* A launch is accepted only as confirmed by those it is for, and who is here keeps
\* the owner's role, among the other parts as alone (preparation.py, people.py).
THEOREM LobbyStepsAlwaysOK == PartsSpec => LobbyStepsOK
<1>1. PartsInv /\ [PartsNext]_partsAll => [ConfirmedStep]_lobbyVars /\ [HeldStep]_lobbyVars
  BY EachSteps, LaunchStep, RoleStep DEF PartsInv
<1> QED BY <1>1, PartsInvariant, PTL
        DEF LobbyStepsOK, LaunchedAsConfirmed, RoleIsKept, ConfirmedStep, HeldStep

\* Among the other parts as alone, the pipe of a pad implements the abstract level
\* of that pad (pipe.rs).
THEOREM PartsCarryLevels == PartsSpec => PipeCarriesLevels
<1>1. PartsSpec => PipeSpec
  <2>1. PartsInit => PipeInit
    BY EachBegins
  <2>2. [PartsNext]_partsAll => [PipeNext]_pipeVars
    BY EachSteps
  <2> QED BY <2>1, <2>2, PTL DEF PartsSpec, partsAll, PipeSpec
<1> QED BY <1>1, PipeImplementsLevel, PTL
=============================================================================
