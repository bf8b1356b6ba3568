------------------------------ MODULE AsnTypes ------------------------------
(***************************************************************************)
(* The type descriptors of the ASN.1 runtime in asn1c_defs.  A descriptor  *)
(* is a record: its kind stands for the operations table (asn_OP_...), the      *)
(* other fields for the PER constraints, the member table and the          *)
(* specifics the generated files give it.  BER tags, XER names and the     *)
(* memory layout, which the aligned PER codec does not read, are left out. *)
(*                                                                         *)
(* A value is: an integer, for an ENUMERATED too; a sequence of octets or  *)
(* of bits; a record of the members present, for a SEQUENCE; a record of   *)
(* one field, the alternative present, for a CHOICE or an open type, and   *)
(* the empty record when none is; a sequence, for a SEQUENCE OF.           *)
(***************************************************************************)
EXTENDS Integers, Sequences, FiniteSets

\* asn_per_constraint_t: effective_bits is -1 when there is no constraint.
Bounds(flags, bits, lower, upper) ==
    [extensible |-> flags = "extensible", effective_bits |-> bits,
     lower_bound |-> lower, upper_bound |-> upper]

Fixed(bits, lower, upper) == Bounds("constrained", bits, lower, upper)
Unbounded == Bounds("unconstrained", -1, 0, 0)

\* TLC's integers end here: the bound that stands for the 36 bits of an id.
MaxInteger == 2147483647

NativeInteger(range_bits, lower, upper) ==
    [kind |-> "INTEGER", value |-> Fixed(range_bits, lower, upper)]
UnboundedInteger == [kind |-> "INTEGER", value |-> Unbounded]

\* names[i] is the number i-1: no enumeration of these types leaves a gap.
NativeEnumerated(flags, range_bits, names) ==
    [kind |-> "ENUMERATED", names |-> names,
     value |-> Bounds(flags, range_bits, 0, Len(names) - 1)]

\* checked: the type has a constraint function of its own for its SIZE.
OCTET_STRING(size, checked) ==
    [kind |-> "OCTET STRING", size |-> size, checked |-> checked]
BIT_STRING(size, checked) ==
    [kind |-> "BIT STRING", size |-> size, checked |-> checked]
SEQUENCE_OF(size, element) ==
    [kind |-> "SEQUENCE OF", size |-> size, element |-> element]

(***************************************************************************)
(* Members of a SEQUENCE.  A member is checked when the generated file     *)
(* gives the member itself a constraint function.                          *)
(***************************************************************************)
Member(name, type, optional, checked) ==
    [name |-> name, type |-> type, optional |-> optional, checked |-> checked]
Mandatory(name, type) == Member(name, type, FALSE, FALSE)
Optional(name, type) == Member(name, type, TRUE, FALSE)
Checked(name, type) == Member(name, type, FALSE, TRUE)

\* additions: the members after the extension mark, none in the generated
\* types, those of a later version of the protocol in a peer's.
SEQUENCE(extensible, members) ==
    [kind |-> "SEQUENCE", extensible |-> extensible, members |-> members, additions |-> <<>>]

\* CHOICE: the first roots alternatives are the root of an extensible type.
CHOICE(range_bits, roots, alternatives) ==
    [kind |-> "CHOICE", range_bits |-> range_bits, roots |-> roots,
     alternatives |-> alternatives]
Alternative(name, type) == [name |-> name, type |-> type]

(***************************************************************************)
(* Information object sets: a row per object, its columns as fields.  A    *)
(* selector compares the constraining column with the member decoded       *)
(* before the open type, row after row, and takes the first row that       *)
(* fits; the cells that are not defined have no presence index.            *)
(***************************************************************************)
Selector(rows, constraining, column) ==
    [id \in {rows[r][constraining] : r \in {s \in DOMAIN rows : column \in DOMAIN rows[s]}} |->
        LET defined == {s \in DOMAIN rows : column \in DOMAIN rows[s]}
            row == CHOOSE r \in defined :
                      /\ rows[r][constraining] = id
                      /\ \A s \in defined : rows[s][constraining] = id => r <= s
        IN  [presence_index |-> Cardinality({s \in defined : s <= row}),
             type |-> rows[row][column]]]

\* The cells of a row of an IE set.
IE(id, criticality, Value, presence) ==
    [id |-> id, criticality |-> criticality, Value |-> Value, presence |-> presence]

\* A member whose type the selector picks by the value of another member.
OPEN_TYPE(constraining, selector, alternatives) ==
    [kind |-> "OPEN TYPE", constraining |-> constraining, selector |-> selector,
     alternatives |-> alternatives]

\* The alternative a CHOICE or an open type value holds; 0 when it holds none.
present(td, v) ==
    IF \E a \in DOMAIN td.alternatives : td.alternatives[a].name \in DOMAIN v
    THEN CHOOSE a \in DOMAIN td.alternatives : td.alternatives[a].name \in DOMAIN v
    ELSE 0

InSize(size, n) ==
    size.effective_bits < 0 \/ (size.lower_bound <= n /\ n <= size.upper_bound)

=============================================================================
