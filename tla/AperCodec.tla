----------------------------- MODULE AperCodec -----------------------------
(***************************************************************************)
(* The aligned PER codec of the ASN.1 runtime in asn1c_defs, for the       *)
(* constructed types E2AP and the service model use.                       *)
(***************************************************************************)
EXTENDS AperPrimitives, TLC
LOCAL INSTANCE SequencesExt

-----------------------------------------------------------------------------
\* Constructed types: the encoders.

RECURSIVE aper_encoder(_, _, _)

\* An open type is encoded on its own, from an octet boundary; one that
\* comes out empty is sent as one zero octet.
aper_encode_to_new_buffer(td, value) ==
    Put(aper_encoder(td, value, <<>>), LAMBDA po :
        IF po = <<>> THEN <<0>> ELSE asn_put_aligned_flush(po))

aper_open_type_put(td, value, po) ==
    Put(aper_encode_to_new_buffer(td, value), LAMBDA octets :
        asn_put_many_bits(aper_put_length(po, Len(octets)), octets, 8))

OPEN_TYPE_encode_aper(td, value, po) ==
    LET a == present(td, value)
    IN  IF a = 0 THEN Refused
        ELSE aper_open_type_put(td.alternatives[a].type, value[td.alternatives[a].name], po)

\* An alternative after the extension mark goes out without its index: what
\* would write it asks for a constraint that has just been cleared.
CHOICE_encode_aper(td, value, po) ==
    LET a == present(td, value)
        chosen == td.alternatives[a].type
        content == value[td.alternatives[a].name]
    IN  CASE a = 0 -> Refused
          [] a > td.roots -> aper_open_type_put(chosen, content, asn_put_few_bits(po, 1, 1))
          [] OTHER ->
                aper_encoder(chosen, content,
                             asn_put_few_bits(asn_put_few_bits(po, 0, 1), a - 1, td.range_bits))

SEQUENCE_OF_encode_aper(td, value, po) ==
    LET size == td.size
    IN  IF Len(value) \notin size.lower_bound .. size.upper_bound THEN Refused
        ELSE FoldLeft(LAMBDA out, element : Put(out, LAMBDA o : aper_encoder(td.element, element, o)),
                      aper_put_nsnnwn(po, size.upper_bound - size.lower_bound + 1,
                                      Len(value) - size.lower_bound),
                      value)

Given(value, member) == member.name \in DOMAIN value
Presence(value, members) ==
    [i \in DOMAIN members |-> IF Given(value, members[i]) THEN 1 ELSE 0]

\* The bitmap of the additions, of at most 64, and those that are there.
SEQUENCE_handle_extensions_aper(td, value, po) ==
    FoldLeft(LAMBDA out, member : Put(out, LAMBDA o :
                 aper_open_type_put(member.type, value[member.name], o)),
             asn_put_many_bits(asn_put_few_bits(po, Len(td.additions) - 1, 7),
                               Presence(value, td.additions), 1),
             SelectSeq(td.additions, LAMBDA member : Given(value, member)))

SEQUENCE_encode_aper(td, value, po) ==
    LET extended == \E i \in DOMAIN td.additions : Given(value, td.additions[i])
        marked == IF td.extensible
                  THEN asn_put_few_bits(po, IF extended THEN 1 ELSE 0, 1) ELSE po
        optional == SelectSeq(td.members, LAMBDA member : member.optional)
        root(out, member) ==
            CASE Given(value, member) -> aper_encoder(member.type, value[member.name], out)
              [] ~Given(value, member) /\ member.optional -> out
              [] OTHER -> Refused
        members == FoldLeft(LAMBDA out, member : Put(out, LAMBDA o : root(o, member)),
                            asn_put_many_bits(marked, Presence(value, optional), 1), td.members)
    IN  IF extended
        THEN Put(members, LAMBDA o : SEQUENCE_handle_extensions_aper(td, value, o))
        ELSE members

aper_encoder(td, value, po) ==
    CASE td.kind = "INTEGER" -> INTEGER_encode_aper(td, value, po)
      [] td.kind = "ENUMERATED" -> NativeEnumerated_encode_aper(td, value, po)
      [] td.kind \in {"OCTET STRING", "BIT STRING"} -> OCTET_STRING_encode_aper(td, value, po)
      [] td.kind = "SEQUENCE OF" -> SEQUENCE_OF_encode_aper(td, value, po)
      [] td.kind = "SEQUENCE" -> SEQUENCE_encode_aper(td, value, po)
      [] td.kind = "CHOICE" -> CHOICE_encode_aper(td, value, po)
      [] td.kind = "OPEN TYPE" -> OPEN_TYPE_encode_aper(td, value, po)

\* asn_encode_to_buffer looks at no constraint but those the encoders need.
aper_encode(td, value) == aper_encode_to_new_buffer(td, value)

-----------------------------------------------------------------------------
\* Constructed types: the decoders.

RECURSIVE aper_decoder(_, _, _)

\* What an open type holds has to leave less than an octet unread; a zero
\* octet may stand for a type without content.
open_type_get_simple(td, pd, length) ==
    Get(length, LAMBDA n, at :
        Get(asn_get_many_bits(pd, at, n, 8), LAMBDA spd, end :
            Get(aper_decoder(td, spd, 0), LAMBDA value, read :
                IF 8 * n - read < 8 \/ (read = 0 /\ spd = <<0>>) THEN Got(value, end)
                ELSE Failed)))

\* uper_open_type_get_simple calls the unaligned decoder, for an alternative
\* behind the extension mark of a CHOICE.  Only those of ENB_ID, two BIT STRINGs
\* of a fixed size above 16 bits, are ever decoded so: from the start of spd the
\* two decoders read such a string alike, so the aligned one stands for both.
aper_open_type_get_simple(td, pd, pos) == open_type_get_simple(td, pd, aper_get_length(pd, pos))
uper_open_type_get_simple(td, pd, pos) == open_type_get_simple(td, pd, uper_get_length(pd, pos))

\* What uper_sot_suck reads is dropped.
aper_open_type_skip(pd, pos) ==
    Get(aper_get_length(pd, pos), LAMBDA n, at : asn_get_many_bits(pd, at, n, 8))

\* The cell of the row says the type, its presence index the alternative.
OPEN_TYPE_aper_get(td, parent, pd, pos) ==
    LET id == parent[td.constraining]
        selected == td.selector[id]
        type == CHOOSE a \in DOMAIN td.alternatives : td.alternatives[a].name = selected.type
    IN  IF id \notin DOMAIN td.selector THEN Failed
        ELSE Get(aper_open_type_get_simple(td.alternatives[type].type, pd, pos),
                 LAMBDA value, at :
                    IF selected.presence_index > Len(td.alternatives) THEN Failed
                    ELSE Got(td.alternatives[selected.presence_index].name :> value, at))

CHOICE_decode_aper(td, pd, pos) ==
    LET holding(a, rval) ==
            Get(rval, LAMBDA value, at : Got(td.alternatives[a].name :> value, at))
    IN  Get(asn_get_few_bits(pd, pos, 1), LAMBDA extension, at :
            IF extension = 1
            THEN Get(uper_get_nsnnwn(pd, at), LAMBDA n, next :
                     IF n + td.roots >= Len(td.alternatives) THEN Failed
                     ELSE LET a == n + td.roots + 1
                          IN  holding(a, uper_open_type_get_simple(td.alternatives[a].type,
                                                                   pd, next)))
            ELSE Get(asn_get_few_bits(pd, at, td.range_bits), LAMBDA n, next :
                     IF n >= td.roots THEN Failed
                     ELSE holding(n + 1, aper_decoder(td.alternatives[n + 1].type, pd, next))))

\* The number of elements is not held against the upper bound.
SET_OF_decode_aper(td, pd, pos) ==
    Get(aper_get_nsnnwn(pd, pos, td.size.upper_bound - td.size.lower_bound + 1),
        LAMBDA n, at :
            FoldLeft(LAMBDA rval, i : Get(rval, LAMBDA list, next :
                         Get(aper_decoder(td.element, pd, next),
                             LAMBDA element, end : Got(Append(list, element), end))),
                     Got(<<>>, at), [i \in 1 .. n + td.size.lower_bound |-> i]))

\* Mutant: the bitmap of the additions is read and nothing is skipped.
OverflowExtensions_BitmapOnly(pd, pos) ==
    Get(aper_get_nslength(pd, pos), LAMBDA n, at : asn_get_many_bits(pd, at, n, 1))

\* No type has additions of its own, so every bit of their bitmap is of an
\* overflow extension: the first that is set is skipped, and the loop over
\* the bitmap ends there.
OverflowExtensions(pd, pos) ==
    Get(aper_get_nslength(pd, pos), LAMBDA n, at :
        Get(asn_get_many_bits(pd, at, n, 1), LAMBDA bitmap, next :
            IF \E i \in 1 .. n : bitmap[i] = 1 THEN aper_open_type_skip(pd, next)
            ELSE Got(<<>>, next)))

SEQUENCE_decode_aper(td, pd, pos) ==
    LET optional == SelectSeq(td.members, LAMBDA member : member.optional)
        absent(opres, member) ==
            \E i \in DOMAIN optional : optional[i].name = member.name /\ opres[i] = 0
        root(opres, rval, member) ==
            Get(rval, LAMBDA st, at :
                IF absent(opres, member) THEN rval
                ELSE Get(IF member.type.kind = "OPEN TYPE"
                         THEN OPEN_TYPE_aper_get(member.type, st, pd, at)
                         ELSE aper_decoder(member.type, pd, at),
                         LAMBDA value, end : Got(st @@ (member.name :> value), end)))
    IN  Get(asn_get_few_bits(pd, pos, IF td.extensible THEN 1 ELSE 0), LAMBDA extpresent, at :
        Get(asn_get_many_bits(pd, at, Len(optional), 1), LAMBDA opres, members :
        Get(FoldLeft(LAMBDA rval, member : root(opres, rval, member), Got(<<>>, members),
                     td.members),
            LAMBDA st, end :
                IF extpresent = 0 THEN Got(st, end)
                ELSE Get(OverflowExtensions(pd, end), LAMBDA skipped, last : Got(st, last)))))

aper_decoder(td, pd, pos) ==
    CASE td.kind = "INTEGER" -> INTEGER_decode_aper(td, pd, pos)
      [] td.kind = "ENUMERATED" -> NativeEnumerated_decode_aper(td, pd, pos)
      [] td.kind \in {"OCTET STRING", "BIT STRING"} -> OCTET_STRING_decode_aper(td, pd, pos)
      [] td.kind = "SEQUENCE OF" -> SET_OF_decode_aper(td, pd, pos)
      [] td.kind = "SEQUENCE" -> SEQUENCE_decode_aper(td, pd, pos)
      [] td.kind = "CHOICE" -> CHOICE_decode_aper(td, pd, pos)

\* asn_decode: octets after the value are not an error.
aper_decode(td, pd) == aper_decoder(td, pd, 0)
=============================================================================
