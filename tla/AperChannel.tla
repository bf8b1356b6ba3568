---------------------------- MODULE AperChannel ----------------------------
(***************************************************************************)
(* A value goes from one end of a connection to the other: what the code   *)
(* around the codec does with it, from asn_check_constraints and           *)
(* asn_encode_to_buffer at the sender to asn_decode at the receiver.  The  *)
(* receiver is this program's; the sender is it, too, or an E2 node that   *)
(* speaks a later version of the protocol.  On the way the tail of the     *)
(* octets may be lost, as by a receive buffer that is too small, or the    *)
(* octets of a next message may follow, as in a stream.                    *)
(***************************************************************************)
EXTENDS AperCodec, AsnConstraints

CONSTANTS
    Types,      \* the descriptors by name
    LaterTypes, \* the same in the peer's later version
    Samples     \* the values a peer sends

VARIABLES
    stage,      \* "start", "encoded", "arrived" or "decoded"
    sample,     \* the value on its way
    octets,     \* what the sender encoded, or Refused
    buffer,     \* what arrived
    decoded     \* what the decoder made of it

channel == <<stage, sample, octets, buffer, decoded>>

\* A sample is a value of a type and the room there is for its encoding.
\* later is the most additions any one SEQUENCE in it has that this version
\* does not know, and known the value without them.

None == [ok |-> FALSE]

\* Before anything is sent.
Quiet ==
    /\ stage = "start"
    /\ octets = <<>>
    /\ buffer = <<>>
    /\ decoded = None

SenderType(s) == IF s.later > 0 THEN LaterTypes[s.type] ELSE Types[s.type]

\* The encode functions of xapp-asn give up when the check of the value
\* fails; what it lets pass the encoder looks at for itself, and what does
\* not fit the buffer is an error.
Encoded(s) ==
    LET out == aper_encode(SenderType(s), s.value)
    IN  IF asn_check_constraints(SenderType(s), s.value) /\ out # Refused /\ Len(out) <= s.room
        THEN out ELSE Refused

Encode ==
    /\ stage = "start"
    /\ stage' = "encoded"
    /\ octets' = Encoded(sample)
    /\ UNCHANGED <<sample, buffer, decoded>>

Arrive(content) ==
    /\ stage = "encoded"
    /\ octets # Refused
    /\ stage' = "arrived"
    /\ buffer' = content
    /\ UNCHANGED <<sample, octets, decoded>>

ArriveWhole == Arrive(octets)
ArriveCut == \E n \in 0 .. Len(octets) - 1 : Arrive(SubSeq(octets, 1, n))
ArriveFollowed == \E next \in {<<0>>, octets} : Arrive(octets \o next)

Decode ==
    /\ stage = "arrived"
    /\ stage' = "decoded"
    /\ decoded' = aper_decode(Types[sample.type], buffer)
    /\ UNCHANGED <<sample, octets, buffer>>

-----------------------------------------------------------------------------
Whole == Len(buffer) >= Len(octets)

ChannelTypeOK ==
    /\ stage \in {"start", "encoded", "arrived", "decoded"}
    /\ octets = Refused \/ \A i \in DOMAIN octets : octets[i] \in 0 .. 255
    /\ decoded.ok \in BOOLEAN

\* A value between two ends of the same version arrives as it was sent,
\* whatever follows it in the buffer: asn_decode of asn_encode_to_buffer is
\* the value, for every message, list length and string length of the runs.
ArrivesAsSent ==
    stage = "decoded" /\ Whole /\ sample.later = 0 =>
        decoded.ok /\ decoded.value = sample.value

\* A message that has lost its tail is refused, never taken for a shorter
\* one: the receiver tells by the code of asn_decode alone.
CutIsRefused == stage = "decoded" /\ ~Whole => ~decoded.ok

\* asn_check_constraints stops at the first member without a check of its
\* own and looks at no list length, and the encoder knows only ranges and
\* sizes: together they let through the values that keep to their types,
\* every one of them that fits the buffer and no other.
EncodedAreTheConforming ==
    stage = "encoded" =>
        IF octets # Refused THEN Conforms(SenderType(sample), sample.value)
        ELSE Conforms(SenderType(sample), sample.value)
             => Len(aper_encode(SenderType(sample), sample.value)) > sample.room

\* An addition the peer's later version makes to a type is passed over,
\* wherever it is and absent others beside it, and all this version knows of
\* the message arrives.
LaterIsUnderstood ==
    stage = "decoded" /\ Whole /\ sample.later = 1 =>
        decoded.ok /\ decoded.value = sample.known

\* The comment on the loop over the bitmap of additions: "Skip over overflow
\* extensions which aren't present in this system's version of the protocol"
\* (constr_SEQUENCE.c:1679); so are all of them, when a SEQUENCE has more than
\* one.
OverflowExtensionsSkipped ==
    stage = "decoded" /\ Whole /\ sample.later > 1 =>
        decoded.ok /\ decoded.value = sample.known
=============================================================================
