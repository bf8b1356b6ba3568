---------------------------- MODULE AsnConstraints ----------------------------
(***************************************************************************)
(* What is asked of a value of a type: what the type promises, and what    *)
(* asn_check_constraints looks at before the value is encoded.             *)
(***************************************************************************)
EXTENDS AsnTypes

RECURSIVE Conforms(_, _)

\* What the types promise: every member present where it must be, every
\* range, enumeration and SIZE respected, all the way down.
Conforms(td, v) ==
    CASE td.kind = "INTEGER" -> InSize(td.value, v)
      [] td.kind = "ENUMERATED" -> v \in 0 .. Len(td.names) - 1
      [] td.kind \in {"OCTET STRING", "BIT STRING"} -> InSize(td.size, Len(v))
      [] td.kind = "SEQUENCE OF" ->
            InSize(td.size, Len(v)) /\ \A i \in DOMAIN v : Conforms(td.element, v[i])
      [] td.kind = "SEQUENCE" ->
            \A i \in DOMAIN td.members :
               LET member == td.members[i]
               IN  IF member.name \in DOMAIN v
                   THEN Conforms(member.type, v[member.name])
                   ELSE member.optional
      [] td.kind \in {"CHOICE", "OPEN TYPE"} ->
            LET a == present(td, v)
            IN  a # 0 /\ Conforms(td.alternatives[a].type, v[td.alternatives[a].name])

RECURSIVE general_constraints(_, _)

\* The constraint function of a member: that of its type; for a list with a
\* SIZE the generated one (memb_..._constraint) looks at its length first.
MemberHolds(member, v) ==
    /\ member.checked /\ member.type.kind = "SEQUENCE OF"
         => InSize(member.type.size, Len(v))
    /\ general_constraints(member.type, v)

\* SEQUENCE_constraint goes over the members; at the first one that has no
\* constraint function of its own it returns the verdict of its type, and
\* the members after it are not looked at.
SEQUENCE_constraint(td, v) ==
    LET given == SelectSeq(td.members, LAMBDA member : member.name \in DOMAIN v)
        holds(i) == MemberHolds(given[i], v[given[i].name])
        last == IF \E i \in DOMAIN given : ~given[i].checked
                THEN CHOOSE i \in DOMAIN given :
                        ~given[i].checked /\ \A j \in 1 .. i - 1 : given[j].checked
                ELSE Len(given)
    IN  \A i \in 1 .. last : holds(i)

\* CHOICE_constraint, which OPEN_TYPE_constraint is another name of.
CHOICE_constraint(td, v) ==
    LET a == present(td, v)
    IN  a # 0 /\ general_constraints(td.alternatives[a].type, v[td.alternatives[a].name])

\* SET_OF_constraint, which SEQUENCE_OF_constraint is another name of: the
\* elements are checked; their number only where it is a member (MemberHolds).
SET_OF_constraint(td, v) == \A i \in DOMAIN v : general_constraints(td.element, v[i])

\* The constraint function of a descriptor: nothing is checked of an
\* enumeration, nor of a string without a SIZE.
general_constraints(td, v) ==
    CASE td.kind = "INTEGER" -> InSize(td.value, v)
      [] td.kind = "ENUMERATED" -> TRUE
      [] td.kind \in {"OCTET STRING", "BIT STRING"} -> td.checked => InSize(td.size, Len(v))
      [] td.kind = "SEQUENCE OF" -> SET_OF_constraint(td, v)
      [] td.kind = "SEQUENCE" -> SEQUENCE_constraint(td, v)
      [] td.kind \in {"CHOICE", "OPEN TYPE"} -> CHOICE_constraint(td, v)

asn_check_constraints(td, v) == general_constraints(td, v)
=============================================================================
