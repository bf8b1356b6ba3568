---------------------------- MODULE E2apMessages ----------------------------
(***************************************************************************)
(* What the objects of the message classes send and what is read of it at  *)
(* the other end: a use of an object sets its fields, checks and encodes   *)
(* what it then holds; the octets go over the channel and are read into a  *)
(* new helper.                                                             *)
(*                                                                         *)
(* class = "peer": the channel carries one of Samples.                     *)
(*                                                                         *)
(* Bound: only what a peer sends is cut or followed by other octets on the *)
(* way.                                                                    *)
(***************************************************************************)
EXTENDS AperChannel, E2apReading

CONSTANT BufferSizes   \* the sizes of the caller's buffer

VARIABLE dout          \* the helper the receiver reads the fields into

vars == <<channel, memory, dout>>

Unread == [read |-> FALSE]
NothingSent == [type |-> "E2AP_PDU", later |-> 0, value |-> <<>>, known |-> <<>>, room |-> 0]

-----------------------------------------------------------------------------
Init ==
    /\ Quiet
    /\ ObjectInit
    /\ dout = Unread
    /\ IF class = "peer" THEN sample \in Samples ELSE sample = NothingSent

PeerEncode == class = "peer" /\ Encode /\ UNCHANGED <<memory, dout>>

\* An encode function, with a helper and a buffer of the caller's.
ObjectEncode(o, h, size) ==
    /\ stage \in {"start", "encoded"}
    /\ Use(o, h)
    /\ LET pdu == Pdu(class, object', o)
       IN  /\ sample' = [NothingSent EXCEPT !.value = pdu, !.known = pdu, !.room = size]
           /\ octets' = IF Settable(class, o, h) THEN Encoded(sample') ELSE Refused
    /\ stage' = "encoded"
    /\ UNCHANGED <<buffer, decoded, dout>>

Destroy ==
    /\ stage \in {"start", "encoded"}
    /\ DestroyObject
    /\ UNCHANGED <<channel, dout>>

ArrivesWhole == ArriveWhole /\ UNCHANGED <<memory, dout>>
ArrivesCut == class = "peer" /\ ArriveCut /\ UNCHANGED <<memory, dout>>
ArrivesFollowed == class = "peer" /\ ArriveFollowed /\ UNCHANGED <<memory, dout>>
Receive == Decode /\ UNCHANGED <<memory, dout>>

\* The receiver knows the kind of the message by its type in RMR.
GetFields ==
    /\ class # "peer"
    /\ stage = "decoded"
    /\ decoded.ok
    /\ ~dout.read
    /\ dout' = [read |-> TRUE]
               @@ get_fields(class, outcome,
                     decoded.value[outcome].value[Headings[class][outcome].message].protocolIEs)
    /\ UNCHANGED <<channel, memory>>

UseObject ==
    \E o \in (IF class = "peer" THEN {} ELSE DOMAIN Headings[class]), size \in BufferSizes :
        \E h \in Helpers[class] : ObjectEncode(o, h, size)

Next ==
    \/ PeerEncode
    \/ UseObject
    \/ Destroy
    \/ ArrivesWhole
    \/ ArrivesCut
    \/ ArrivesFollowed
    \/ Receive
    \/ GetFields

Spec == Init /\ [][Next]_vars

-----------------------------------------------------------------------------
TypeOK ==
    /\ ChannelTypeOK
    /\ class \in Classes \cup {"peer"}
    /\ uses \in 0 .. MaxUses
    /\ outcome \in {"none", "initiatingMessage", "successfulOutcome", "unsuccessfulOutcome"}
    /\ Alive => DOMAIN object.IE_array = DOMAIN Headings[class]
    /\ dout.read \in BOOLEAN

\* What get_fields reads at the other end, of what the decoder made of the
\* octets the encoder made of the message, is what set_fields was given.
ReadAsGiven == dout.read => AsGiven(dout)
=============================================================================
