---------------------------- MODULE AperPrimitives ----------------------------
(***************************************************************************)
(* The aligned PER codec of the ASN.1 runtime in asn1c_defs, for bits,     *)
(* lengths and the primitive types.  Output is a sequence of bits, flushed *)
(* to octets at the end of a PDU and of an open type; input is a sequence  *)
(* of octets and a position in bits.  An encoder that fails leaves         *)
(* Refused; RC_FAIL and RC_WMORE, which every caller treats alike, are     *)
(* Failed.                                                                 *)
(*                                                                         *)
(* Bounds: no content reaches 16384 octets, where lengths come in          *)
(* fragments: the connector encodes into buffers of 1024, and a received   *)
(* message above 2047 has overrun the dump of the receive loop before it   *)
(* is decoded (RmrReceiver, DumpOverflows).  Integers end at MaxInteger.   *)
(***************************************************************************)
EXTENDS AsnTypes

Refused == <<-1>>
Failed == [ok |-> FALSE]
Got(value, pos) == [ok |-> TRUE, value |-> value, pos |-> pos]

\* A step of an encoder after a step that may have failed, and of a decoder.
Put(po, Next(_)) == IF po = Refused THEN Refused ELSE Next(po)
Get(rval, Next(_, _)) == IF rval.ok THEN Next(rval.value, rval.pos) ELSE Failed

-----------------------------------------------------------------------------
\* Bits and lengths, out.

\* What digits make of a value they are shifted into, the highest one first.
Shifted(start, base, digits) ==
    LET value[i \in 0 .. Len(digits)] ==
            IF i = 0 THEN start ELSE base * value[i - 1] + digits[i]
    IN  value[Len(digits)]

Number(bits) == Shifted(0, 2, bits)

\* Mutant: a unit is not reduced to its low bit.
asn_put_few_bits_Unmasked(po, value, obits) ==
    po \o [i \in 1 .. obits |-> value \div 2^(obits - i)]

asn_put_few_bits(po, value, obits) ==
    po \o [i \in 1 .. obits |-> (value \div 2^(obits - i)) % 2]

asn_put_many_bits(po, units, unit_bits) ==
    po \o [i \in 1 .. Len(units) * unit_bits |->
              (units[(i - 1) \div unit_bits + 1] \div 2^((-i) % unit_bits)) % 2]

\* The bits from a position to the next octet.
Gap(pos) == (8 - (pos % 8)) % 8

aper_put_align(po) == po \o [i \in 1 .. Gap(Len(po)) |-> 0]

asn_put_aligned_flush(po) ==
    LET padded == aper_put_align(po)
    IN  [k \in 1 .. Len(padded) \div 8 |-> Number(SubSeq(padded, 8 * k - 7, 8 * k))]

\* The least number of bits, one at least, for a range.
BitsOf(range) == CHOOSE i \in 1 .. 8 : 2^i >= range /\ (i = 1 \/ 2^(i - 1) < range)

aper_put_nsnnwn(po, range, number) ==
    CASE range <= 255 -> asn_put_few_bits(po, number, BitsOf(range))
      [] range = 256 -> asn_put_few_bits(aper_put_align(po), number, 8)
      [] OTHER -> asn_put_few_bits(aper_put_align(po), number, 16)

\* Mutant: a length of 128 in the short form.
aper_put_length_Short(po, length) ==
    IF length <= 128 THEN asn_put_few_bits(aper_put_align(po), length, 8)
    ELSE asn_put_few_bits(aper_put_align(po), 32768 + length, 16)

aper_put_length(po, length) ==
    IF length <= 127 THEN asn_put_few_bits(aper_put_align(po), length, 8)
    ELSE asn_put_few_bits(aper_put_align(po), 32768 + length, 16)

-----------------------------------------------------------------------------
\* Bits and lengths, in.

BitAt(pd, i) == (pd[i \div 8 + 1] \div 2^(7 - (i % 8))) % 2

asn_get_few_bits(pd, pos, nbits) ==
    IF pos + nbits > 8 * Len(pd) THEN Failed
    ELSE Got(Number([i \in 1 .. nbits |-> BitAt(pd, pos + i - 1)]), pos + nbits)

\* Mutant: what lies behind the end of the input reads as 0.
asn_get_many_bits_PastEnd(pd, pos, n, unit_bits) ==
    Got([k \in 1 .. n |->
            LET unit == asn_get_few_bits(pd, pos + (k - 1) * unit_bits, unit_bits)
            IN  IF unit.ok THEN unit.value ELSE 0],
        pos + n * unit_bits)

asn_get_many_bits(pd, pos, n, unit_bits) ==
    IF pos + n * unit_bits > 8 * Len(pd) THEN Failed
    ELSE Got([k \in 1 .. n |-> asn_get_few_bits(pd, pos + (k - 1) * unit_bits, unit_bits).value],
             pos + n * unit_bits)

aper_get_align(pos) == pos + Gap(pos)

aper_get_nsnnwn(pd, pos, range) ==
    CASE range <= 255 -> asn_get_few_bits(pd, pos, BitsOf(range))
      [] range = 256 -> asn_get_few_bits(pd, aper_get_align(pos), 8)
      [] OTHER -> asn_get_few_bits(pd, aper_get_align(pos), 16)

uper_get_length(pd, pos) ==
    Get(asn_get_few_bits(pd, pos, 8), LAMBDA value, at :
        CASE value < 128 -> Got(value, at)
          [] value \in 128 .. 191 ->
                Get(asn_get_few_bits(pd, at, 8),
                    LAMBDA low, end : Got((value - 128) * 256 + low, end))
          [] OTHER -> Failed)

aper_get_length(pd, pos) == uper_get_length(pd, aper_get_align(pos))

aper_get_nslength(pd, pos) ==
    Get(asn_get_few_bits(pd, pos, 1), LAMBDA long, at :
        IF long = 1 THEN aper_get_length(pd, at)
        ELSE Get(asn_get_few_bits(pd, at, 6), LAMBDA n, end : Got(n + 1, end)))

uper_get_nsnnwn(pd, pos) ==
    Get(asn_get_few_bits(pd, pos, 7), LAMBDA value, at :
        IF value < 64 THEN Got(value, at)
        ELSE Get(asn_get_few_bits(pd, at, 2), LAMBDA low, end :
                 LET bytes == 4 * (value - 64) + low
                 IN  CASE bytes = 0 -> Got(0, end)
                       [] bytes \in {1, 2} -> asn_get_few_bits(pd, end, 8 * bytes)
                       [] OTHER -> Failed))

-----------------------------------------------------------------------------
\* Primitive types.

\* asn_long2INTEGER: the shortest octets, two's complement.
TwosComplement(value) ==
    LET fits(k) == -128 * 256^(k - 1) <= value /\ value < 128 * 256^(k - 1)
        n == IF fits(1) THEN 1 ELSE IF fits(2) THEN 2 ELSE IF fits(3) THEN 3 ELSE 4
    IN  [i \in 1 .. n |-> (value \div 256^(n - i)) % 256]

\* asn_INTEGER2long of at most four octets.
asn_INTEGER2imax(octets) ==
    Shifted(IF octets # <<>> /\ octets[1] > 127 THEN -1 ELSE 0, 256, octets)

\* The octets of a number of more than 16 bits, and of its range.
Magnitude(value) == CHOOSE n \in 1 .. 4 : value \div 256^(n - 1) < 256
                                          /\ (n = 1 \/ value \div 256^(n - 1) > 0)
RangeOctets(range_bits) == (range_bits + 7) \div 8

INTEGER_encode_aper(td, value, po) ==
    LET ct == td.value
        v == value - ct.lower_bound
        octets == TwosComplement(value)
        n == Magnitude(v)
    IN  CASE ct.effective_bits < 0 ->
                asn_put_many_bits(aper_put_length(po, Len(octets)), octets, 8)
          [] ct.effective_bits >= 0 /\ value \notin ct.lower_bound .. ct.upper_bound -> Refused
          [] OTHER ->
                CASE ct.effective_bits < 8 -> asn_put_few_bits(po, v, ct.effective_bits)
                  [] ct.effective_bits = 8 -> asn_put_few_bits(aper_put_align(po), v, 8)
                  [] ct.effective_bits \in 9 .. 16 -> asn_put_few_bits(aper_put_align(po), v, 16)
                  [] OTHER ->
                        asn_put_many_bits(
                            aper_put_align(asn_put_few_bits(po, n - 1,
                                               BitsOf(RangeOctets(ct.effective_bits)))),
                            [i \in 1 .. n |-> (v \div 256^(n - i)) % 256], 8)

INTEGER_decode_aper(td, pd, pos) ==
    LET ct == td.value
        bounded(rval) == Get(rval, LAMBDA v, at : Got(v + ct.lower_bound, at))
    IN  CASE ct.effective_bits < 0 ->
                Get(aper_get_length(pd, pos), LAMBDA n, at :
                    Get(asn_get_many_bits(pd, at, n, 8),
                        LAMBDA octets, end : Got(asn_INTEGER2imax(octets), end)))
          [] ct.effective_bits \in 0 .. 7 -> bounded(asn_get_few_bits(pd, pos, ct.effective_bits))
          [] ct.effective_bits = 8 -> bounded(asn_get_few_bits(pd, aper_get_align(pos), 8))
          [] ct.effective_bits \in 9 .. 16 -> bounded(asn_get_few_bits(pd, aper_get_align(pos), 16))
          [] OTHER ->
                Get(asn_get_few_bits(pd, pos, BitsOf(RangeOctets(ct.effective_bits))),
                    LAMBDA n, at : Get(asn_get_many_bits(pd, aper_get_align(at), n + 1, 8),
                        LAMBDA octets, end :
                            bounded(Got(Shifted(0, 256, octets), end))))

\* Mutant: the value is not looked up in the map.
NativeEnumerated_encode_aper_AnyValue(td, value, po) ==
    asn_put_few_bits(IF td.value.extensible THEN asn_put_few_bits(po, 0, 1) ELSE po,
                     value, td.value.effective_bits)

\* What is not in the map is refused, out and in; no type has values after
\* the extension mark, so the extension bit is sent as 0 and 1 is refused.
NativeEnumerated_encode_aper(td, value, po) ==
    IF value \notin 0 .. Len(td.names) - 1 THEN Refused
    ELSE asn_put_few_bits(IF td.value.extensible THEN asn_put_few_bits(po, 0, 1) ELSE po,
                          value, td.value.effective_bits)

NativeEnumerated_decode_aper(td, pd, pos) ==
    Get(asn_get_few_bits(pd, pos, IF td.value.extensible THEN 1 ELSE 0), LAMBDA inext, at :
        IF inext = 1 THEN Failed
        ELSE Get(asn_get_few_bits(pd, at, td.value.effective_bits), LAMBDA value, end :
                 IF value >= Len(td.names) THEN Failed ELSE Got(value, end)))

\* Octet strings and bit strings: only content of more than two octets is
\* aligned, and the decoder asks the number of units where the encoder asks
\* the number of octets.
UnitBits(td) == IF td.kind = "BIT STRING" THEN 1 ELSE 8
OctetsOf(td, n) == (n * UnitBits(td) + 7) \div 8

OCTET_STRING_encode_aper(td, value, po) ==
    LET size == td.size
        n == Len(value)
        led == IF size.effective_bits = 0 THEN po
               ELSE aper_put_nsnnwn(po, size.upper_bound - size.lower_bound + 1,
                                    n - size.lower_bound)
    IN  CASE size.effective_bits < 0 ->
                asn_put_many_bits(aper_put_length(po, n), value, UnitBits(td))
          [] size.effective_bits >= 0 /\ n \notin size.lower_bound .. size.upper_bound -> Refused
          [] OTHER ->
                asn_put_many_bits(IF OctetsOf(td, n) > 2 THEN aper_put_align(led) ELSE led,
                                  value, UnitBits(td))

OCTET_STRING_decode_aper(td, pd, pos) ==
    LET size == td.size
        content(n, at, wide) ==
            asn_get_many_bits(pd, IF wide THEN aper_get_align(at) ELSE at, n, UnitBits(td))
    IN  CASE size.effective_bits = 0 ->
                content(size.upper_bound, pos, OctetsOf(td, size.upper_bound) > 2)
          [] size.effective_bits > 0 ->
                Get(aper_get_nsnnwn(pd, pos, size.upper_bound - size.lower_bound + 1),
                    LAMBDA n, at : content(n + size.lower_bound, at, n + size.lower_bound > 2))
          [] OTHER -> Get(aper_get_length(pd, pos), LAMBDA n, at : content(n, at, n > 2))
=============================================================================
