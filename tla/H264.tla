-------------------------------- MODULE H264 --------------------------------
(***************************************************************************)
(* The H.264 headers the encoder crate writes itself                       *)
(* (encoder/src/h264/mod.rs) and the bit writer under them                 *)
(* (encoder/src/h264/bitstream.rs): a header is a list of fields, each put *)
(* as a fixed number of bits or as an exp-Golomb code; the bits are padded *)
(* to bytes, and the bytes are wrapped so that no start code shows in them.*)
(* A reader of the standard is the reference: it takes the escapes out and *)
(* reads the codes one after the other.                                    *)
(***************************************************************************)
EXTENDS Integers, Sequences, SequencesExt

CONSTANTS WORD,        \* bits of a word: 32 in the code
          AskedHeaders \* the headers asked for

BYTE == 8
MAX == 2 ^ WORD - 1

\* u32 and i32, where what overflows is lost.
ASSUME WordAssumption == WORD \in Nat /\ WORD >= BYTE

VARIABLES header,     \* what is asked for
          nal,        \* the NAL unit, Unbuilt before
          told        \* the length in bits said of it

h264Vars == <<header, nal, told>>
Unbuilt == <<>>

-----------------------------------------------------------------------------
(* BitWriter.                                                              *)

Bit(v, index) == (v \div 2 ^ index) % 2
put_bits(v, count) == LET n == IF count > WORD THEN WORD ELSE count
                      IN [i \in 1..n |-> Bit(v, n - i)]
Zeros(n) == [i \in 1..n |-> 0]
ToByte(n) == (BYTE - (n % BYTE)) % BYTE

\* Width of v in binary, without its leading zeros.
Size(v) == CHOOSE n \in 0..WORD : v < 2 ^ n /\ (n = 0 \/ 2 ^ (n - 1) <= v)

\* Mutant: the code of v is v in binary, and not v + 1.
put_ue_plain(v) == Zeros(Size(v)) \o put_bits(v, Size(v))
\* saturating_add: the largest word has the code of the one before it.
put_ue(v) == LET shifted == IF v = MAX THEN MAX ELSE v + 1
                 bits == Size(shifted)
             IN Zeros(bits - 1) \o put_bits(shifted, bits)
\* wrapping_mul: the smallest signed word is put as zero.
put_se(v) == LET size == IF v < 0 THEN -v ELSE v
             IN put_ue(IF v > 0 THEN 2 * size - 1 ELSE (2 * size) % 2 ^ WORD)

\* The stop bit, then zeros up to the byte; and finish, which pads what is left.
put_rbsp_trailing_bits(bits) ==
    bits \o <<1>> \o Zeros(ToByte(Len(bits) + 1))
Octet(bits, n) == FoldLeft(LAMBDA v, b : 2 * v + b, 0, SubSeq(bits, (n - 1) * BYTE + 1, n * BYTE))
finish(bits) == LET whole == bits \o Zeros(ToByte(Len(bits)))
                IN [n \in 1 .. Len(whole) \div BYTE |-> Octet(whole, n)]

\* The bytes of the unit after its first: two zeros before a byte that a decoder
\* could take for a boundary, or for an escape, are kept apart from it by a 3.
ESCAPE == 3
\* Mutant: three zeros are waited for.
Splice_late(done, byte, least) ==
    LET escaped == done.zeros >= 3 /\ byte <= least
    IN [out |-> done.out \o (IF escaped THEN <<ESCAPE>> ELSE <<>>) \o <<byte>>,
        zeros |-> IF byte # 0 THEN 0 ELSE IF escaped THEN 1 ELSE done.zeros + 1]
Splice(done, byte, least) ==
    LET escaped == done.zeros >= 2 /\ byte <= least
    IN [out |-> done.out \o (IF escaped THEN <<ESCAPE>> ELSE <<>>) \o <<byte>>,
        zeros |-> IF byte # 0 THEN 0 ELSE IF escaped THEN 1 ELSE done.zeros + 1]
Escaped(rbsp, least) ==
    FoldLeft(LAMBDA done, byte : Splice(done, byte, least), [out |-> <<>>, zeros |-> 0], rbsp).out
\* Mutant: only what would be a boundary is kept apart.
to_nal_unit_bare(idc, kind, rbsp) == <<((idc % 4) * 32) + (kind % 32)>> \o Escaped(rbsp, 2)
to_nal_unit(idc, kind, rbsp) == <<((idc % 4) * 32) + (kind % 32)>> \o Escaped(rbsp, 3)

-----------------------------------------------------------------------------
(* The headers.  What a header may leave out is a sequence of none or one. *)

U(n, v) == [code |-> "u", size |-> n, value |-> v]
UE(v) == [code |-> "ue", size |-> 0, value |-> v]
SE(v) == [code |-> "se", size |-> 0, value |-> v]
F(b) == U(1, IF b THEN 1 ELSE 0)
No == F(FALSE)
When(said, fields) == IF said THEN fields ELSE <<>>
Has(option) == option # <<>>

PutField(f) == CASE f.code = "u" -> put_bits(f.value, f.size)
            [] f.code = "ue" -> put_ue(f.value)
            [] f.code = "se" -> put_se(f.value)
Bits(fields) == FlattenSeq([i \in DOMAIN fields |-> PutField(fields[i])])

HighProfiles == {100, 110, 122, 244, 44, 83, 86, 118, 128}
Less(n) == IF n = 0 THEN 0 ELSE n - 1       \* saturating_sub(1)

\* BT709_LIMITED and NO_REORDERING, the only ones there are.
BT709_LIMITED == [primaries |-> 1, transfer |-> 1, matrix |-> 1, full_range |-> FALSE]
NO_REORDERING == [over |-> TRUE, across |-> 16, down |-> 16, reorder |-> 0, buffering |-> 0]

Colours(c) == <<U(8, c.primaries), U(8, c.transfer), U(8, c.matrix)>>
Restricts(r) == <<F(r.over), UE(0), UE(0), UE(r.across), UE(r.down), UE(r.reorder), UE(r.buffering)>>
Vui(p) ==
    LET signal == Has(p.format) \/ Has(p.colour)
    IN <<F(Has(p.aspect))>> \o When(Has(p.aspect), <<U(8, p.aspect[1])>>)
       \o <<No, F(signal)>>
       \o When(signal, <<U(3, IF Has(p.format) THEN p.format[1] ELSE 5),
                         F(Has(p.colour) /\ p.colour[1].full_range), F(Has(p.colour))>>)
       \o When(Has(p.colour), Colours(p.colour[1]))
       \o <<No, F(Has(p.timing))>>
       \o When(Has(p.timing), <<U(WORD, p.timing[1][1]), U(WORD, p.timing[1][2]), F(TRUE)>>)
       \o <<No, No, No, F(Has(p.restriction))>>
       \o When(Has(p.restriction), Restricts(p.restriction[1]))

SpsFields(p) ==
    LET vui == \/ Has(p.aspect) \/ Has(p.format) \/ Has(p.colour)
               \/ Has(p.timing) \/ Has(p.restriction)
    IN <<U(8, p.profile), U(6, p.constraints), U(2, 0), U(8, p.level), UE(p.id)>>
       \o When(p.profile \in HighProfiles, <<UE(1), UE(0), UE(0), No, No>>)
       \o <<UE(p.frame_num_bits - 4), UE(0), UE(p.order_bits - 4), UE(p.refs), No,
            UE(Less(p.width)), UE(Less(p.height)), F(TRUE), F(TRUE), No, F(vui)>>
       \o When(vui, Vui(p))

PpsFields(p) ==
    <<UE(p.id), UE(p.sps), F(p.cabac), No, UE(0), UE(0), UE(0), No, U(2, 0), SE(p.qp),
      SE(0), SE(0), F(p.deblocking), No, No>>
    \o When(Has(p.transform_8x8), <<F(p.transform_8x8 = <<TRUE>>), No, SE(0)>>)

SliceFields(p) ==
    <<UE(p.first_mb), UE(7), UE(p.pps), U(p.frame_num_bits, p.frame_num)>>
    \o When(p.idr, <<UE(p.idr_id)>>)
    \o <<U(p.order_bits, p.order)>>
    \o When(p.idr, <<No, No>>)
    \o <<SE(p.qp_delta)>>

\* The alignment of CABAC is of ones; a slice header of CAVLC ends in mid-byte.
Ones(n) == [i \in 1..n |-> 1]
\* Mutant: the padding of CABAC is of zeros, as the end of a parameter set is.
Aligned_zeros(bits) == bits \o Zeros(ToByte(Len(bits)))
Aligned(bits) == bits \o Ones(ToByte(Len(bits)))
SliceBits(p) == IF p.cabac THEN Aligned(Bits(SliceFields(p))) ELSE Bits(SliceFields(p))

build_sps(p) == to_nal_unit(3, 7, finish(put_rbsp_trailing_bits(Bits(SpsFields(p)))))
build_pps(p) == to_nal_unit(3, 8, finish(put_rbsp_trailing_bits(Bits(PpsFields(p)))))
build_slice_header(p) == to_nal_unit(3, IF p.idr THEN 5 ELSE 1, finish(SliceBits(p)))

H264Init == header \in AskedHeaders /\ nal = Unbuilt /\ told = 0
Sps == /\ nal = Unbuilt /\ header.kind = "sps"
       /\ nal' = build_sps(header) /\ UNCHANGED <<header, told>>
Pps == /\ nal = Unbuilt /\ header.kind = "pps"
       /\ nal' = build_pps(header) /\ UNCHANGED <<header, told>>
\* Mutant: the padding at the end is counted.
Slice_whole == /\ nal = Unbuilt /\ header.kind = "slice"
               /\ nal' = build_slice_header(header)
               /\ told' = Len(nal') * BYTE
               /\ UNCHANGED header
Slice == /\ nal = Unbuilt /\ header.kind = "slice"
         /\ nal' = build_slice_header(header)
         /\ told' = Len(SliceBits(header)) + BYTE
         /\ UNCHANGED header
H264Next == Sps \/ Pps \/ Slice
H264Spec == H264Init /\ [][H264Next]_h264Vars

-----------------------------------------------------------------------------
(* The reader of the standard.                                             *)

Fields == CASE header.kind = "sps" -> SpsFields(header)
            [] header.kind = "pps" -> PpsFields(header)
            [] header.kind = "slice" -> SliceFields(header)

\* What is left of the bytes without the escapes, and their bits.
Unescaped ==
    FoldLeft(LAMBDA done, byte :
                 IF done.zeros >= 2 /\ byte = ESCAPE
                 THEN [out |-> done.out, zeros |-> 0]
                 ELSE [out |-> Append(done.out, byte), zeros |-> IF byte = 0 THEN done.zeros + 1 ELSE 0],
             [out |-> <<>>, zeros |-> 0], Tail(nal)).out
BitsOf(bytes) == FlattenSeq([n \in DOMAIN bytes |-> [i \in 1..BYTE |-> Bit(bytes[n], BYTE - i)]])
Number(bits) == FoldLeft(LAMBDA v, b : 2 * v + b, 0, bits)

\* A code starts with as many zeros as it has bits after its first one.
Prefix(bits, at) ==
    LET ones == {n \in 0 .. Len(bits) - at : bits[at + n] = 1}
    IN IF ones = {} THEN Len(bits) ELSE CHOOSE n \in ones : \A m \in ones : n <= m
Span(f, bits, at) == IF f.code = "u" THEN IF f.size > WORD THEN WORD ELSE f.size
                     ELSE 2 * Prefix(bits, at) + 1
Seen(f, bits, at) ==
    LET n == Number(SubSeq(bits, at, Min({Len(bits), at + Span(f, bits, at) - 1})))
    IN CASE f.code = "u" -> n
         [] f.code = "ue" -> n - 1
         [] f.code = "se" -> IF (n - 1) % 2 = 1 THEN n \div 2 ELSE -((n - 1) \div 2)
ReadBack(bits) ==
    FoldLeft(LAMBDA done, f : [at |-> done.at + Span(f, bits, done.at),
                               values |-> Append(done.values, Seen(f, bits, done.at))],
             [at |-> 1, values |-> <<>>], Fields)

\* Values the code of a field has room for.
Sayable(f) == CASE f.code = "u" -> f.value < 2 ^ f.size
                [] f.code = "ue" -> f.value < MAX
                [] f.code = "se" -> f.value > -(2 ^ (WORD - 1))

H264TypeOK == /\ header \in AskedHeaders /\ told \in Nat
              /\ nal \in Seq(0..255)

\* A decoder reads every field of a header as it was meant, also after one that
\* its code had no room for, and nothing is left but the padding: the stop bit
\* and zeros, ones of CABAC, or the end of a byte the driver writes over.
\* (build_sps, build_pps, build_slice_header, put_ue, put_se)
HeadersReadBack ==
    nal # Unbuilt =>
        LET bits == BitsOf(Unescaped)
            read == ReadBack(bits)
            rest == SubSeq(bits, read.at, Len(bits))
        IN /\ \A i \in DOMAIN Fields : Sayable(Fields[i]) => read.values[i] = Fields[i].value
           /\ IF header.kind # "slice" THEN /\ Len(rest) \in 1..BYTE
                                            /\ \A i \in DOMAIN rest : rest[i] = (IF i = 1 THEN 1 ELSE 0)
              ELSE /\ Len(rest) < BYTE
                   /\ header.cabac => \A i \in DOMAIN rest : rest[i] = 1

\* However many zeros a header puts in a row, no start code shows inside the
\* unit.  (to_nal_unit)
NoStartCodeInside ==
    \A i \in 3 .. Len(nal) : nal[i - 2] = 0 /\ nal[i - 1] = 0 => nal[i] >= ESCAPE

\* What the driver is told is where the header ends, as long as no escape was
\* put in, and the same number of bits too early for every escape.
\* (build_slice_header)
ToldWhereItEnds ==
    nal # Unbuilt /\ header.kind = "slice" =>
        LET escapes == Len(nal) - 1 - Len(Unescaped)
            ends == told + escapes * BYTE
        IN ends <= Len(nal) * BYTE /\ Len(nal) * BYTE - ends < BYTE
=============================================================================
