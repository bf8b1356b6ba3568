-------------------------- MODULE E2apReadingProofs --------------------------
(***************************************************************************)
(* What the message an object holds consists of, field by field: that it   *)
(* follows the tables of ProtocolIE-Field.c and that get_fields reads of   *)
(* it what set_fields was given, for any helpers and any number of uses.   *)
(***************************************************************************)
EXTENDS E2apReading, E2apObjectsProofs

\* A field of a message, and the message each class makes of a helper.
Field(id, criticality, value) == [id |-> id, criticality |-> criticality, value |-> value]

RequestField(h) ==
    Field(29, reject, Choice("RICrequestID", [ricRequestorID |-> h.req_id, ricInstanceID |-> 0]))
FunctionField(h) == Field(5, reject, Choice("RANfunctionID", h.func_id))
DetailsField(h) ==
    Field(30, reject, Choice("RICsubscriptionDetails",
                             [ricEventTriggerDefinition |-> h.event_def,
                              ricAction_ToBeSetup_List |-> ActionsToBeSetup(h)]))
AdmittedField(h) ==
    Field(17, reject, IF h.admitted = <<>> THEN <<>>
                      ELSE Choice("RICaction_Admitted_List", AdmittedItems(h)))
NotAdmittedField(h) ==
    Field(18, reject, IF h.not_admitted = <<>> THEN <<>>
                      ELSE Choice("RICaction_NotAdmitted_List", NotAdmittedItems(h)))
ProcessField(octets) == Field(20, reject, Choice("RICcallProcessID", octets))

Fields(c, o, h) ==
    {RequestField(h), FunctionField(h)} \cup
    CASE c = "subscription_request" -> {DetailsField(h)}
      [] c = "subscription_response" /\ o = "successfulOutcome" ->
            {AdmittedField(h)}
            \cup (IF h.not_admitted # <<>> /\ KnownCauses(h.not_admitted)
                  THEN {NotAdmittedField(h)} ELSE {})
      [] c = "subscription_response" /\ o # "successfulOutcome" ->
            IF KnownCauses(h.not_admitted) THEN {NotAdmittedField(h)} ELSE {}
      [] c \in {"subscription_delete", "subscription_delete_response"} -> {}
      [] c = "ric_control_request" ->
            {Field(22, reject, Choice("RICcontrolHeader", h.control_header)),
             Field(23, reject, Choice("RICcontrolMessage", h.control_msg))}
            \cup (IF Asked(h)
                  THEN {Field(21, reject, Choice("RICcontrolAckRequest", h.control_ack))} ELSE {})
            \cup (IF Len(h.call_process_id) > 0 THEN {ProcessField(h.call_process_id)} ELSE {})
      [] c = "ric_control_response" /\ o = "successfulOutcome" ->
            {Field(24, reject, Choice("RICcontrolStatus", h.control_status))}
      [] c = "ric_control_response" /\ o # "successfulOutcome" ->
            {Field(1, ignore, Choice("Cause", CauseOf(h)))}
      [] c = "ric_indication" ->
            {Field(15, reject, Choice("RICactionID", h.action_id)),
             Field(27, reject, Choice("RICindicationSN", h.indication_sn)),
             Field(28, reject, Choice("RICindicationType", h.indication_type)),
             Field(25, reject, Choice("RICindicationHeader", h.indication_header)),
             Field(26, reject, Choice("RICindicationMessage", h.indication_msg))}
            \cup (IF Len(h.call_process_id) > 0 THEN {ProcessField(h.indication_msg)} ELSE {})

\* The elements of a message are the fields F, each once.
MadeOf(ies, F) ==
    /\ DOMAIN ies \subseteq Nat
    /\ \A k \in DOMAIN ies : ies[k] \in F
    /\ \A f \in F : \E k \in DOMAIN ies : ies[k] = f
    /\ \A k, l \in DOMAIN ies : ies[k].id = ies[l].id => k = l

-----------------------------------------------------------------------------
(* Lists of entries, by the set of the entries in them.                    *)

ListOf(entries, S) ==
    /\ IsSeq(entries)
    /\ \A k \in DOMAIN entries : entries[k] \in S
    /\ \A e \in S : \E k \in DOMAIN entries : entries[k] = e
    /\ \A k, l \in DOMAIN entries : entries[k] = entries[l] => k = l

\* No two entries of a set are for the same element or of the same id.
Distinct(S) == \A a, b \in S : a.at = b.at \/ a.element.id = b.element.id => a = b

LEMMA ListOfOne ==
  ASSUME NEW a
  PROVE  ListOf(<<a>>, {a})
  <1> DEFINE s == <<a>>
  <1>1. s \in Seq({a}) /\ DOMAIN s = {1} /\ s[1] = a
    OBVIOUS
  <1> HIDE DEF s
  <1>2. ListOf(s, {a})
    BY <1>1 DEF ListOf, IsSeq
  <1> QED
    BY <1>2 DEF s

LEMMA ListOfConcat ==
  ASSUME NEW a, NEW b, NEW S, NEW T, ListOf(a, S), ListOf(b, T), S \cap T = {}
  PROVE  ListOf(a \o b, S \cup T)
  <1> DEFINE s == a \o b
  <1>1. PICK A, B : a \in Seq(A) /\ b \in Seq(B)
    BY DEF ListOf, IsSeq
  <1>2. a \in Seq(A \cup B) /\ b \in Seq(A \cup B)
    BY <1>1
  <1>3. /\ s \in Seq(A \cup B)
        /\ Len(a) \in Nat /\ Len(b) \in Nat /\ Len(s) = Len(a) + Len(b)
        /\ DOMAIN a = 1 .. Len(a) /\ DOMAIN b = 1 .. Len(b) /\ DOMAIN s = 1 .. Len(a) + Len(b)
        /\ \A k \in 1 .. Len(a) : s[k] = a[k]
        /\ \A k \in 1 .. Len(b) : s[Len(a) + k] = b[k]
    BY <1>2, ConcatProperties
  <1> HIDE DEF s
  <1>4. \A k \in DOMAIN s : \/ k \in DOMAIN a /\ s[k] = a[k]
                            \/ k - Len(a) \in DOMAIN b /\ s[k] = b[k - Len(a)]
    <2> TAKE k \in DOMAIN s
    <2>1. CASE k \in 1 .. Len(a)
      BY <1>3, <2>1
    <2>2. CASE k \notin 1 .. Len(a)
      <3>1. k - Len(a) \in 1 .. Len(b) /\ Len(a) + (k - Len(a)) = k
        BY <1>3, <2>2
      <3> QED
        BY <1>3, <3>1
    <2> QED
      BY <2>1, <2>2
  <1>5. \A k \in DOMAIN s : s[k] \in S \cup T
    BY <1>4 DEF ListOf
  <1>6. ASSUME NEW e \in S \cup T PROVE \E k \in DOMAIN s : s[k] = e
    <2>1. CASE e \in S
      <3>1. PICK k \in DOMAIN a : a[k] = e
        BY <2>1 DEF ListOf
      <3> QED
        BY <1>3, <3>1
    <2>2. CASE e \in T
      <3>1. PICK k \in DOMAIN b : b[k] = e
        BY <2>2 DEF ListOf
      <3>2. Len(a) + k \in DOMAIN s
        BY <1>3, <3>1
      <3> QED
        BY <1>3, <3>1, <3>2
    <2> QED
      BY <2>1, <2>2
  <1>7. ASSUME NEW k \in DOMAIN s, NEW l \in DOMAIN s, s[k] = s[l] PROVE k = l
    <2>1. \A i \in DOMAIN a, j \in DOMAIN b : a[i] # b[j]
      BY DEF ListOf
    <2>2. CASE k \in DOMAIN a /\ s[k] = a[k] /\ l \in DOMAIN a /\ s[l] = a[l]
      BY <1>7, <2>2 DEF ListOf
    <2>3. CASE /\ k - Len(a) \in DOMAIN b /\ s[k] = b[k - Len(a)]
               /\ l - Len(a) \in DOMAIN b /\ s[l] = b[l - Len(a)]
      <3>1. k - Len(a) = l - Len(a)
        BY <1>7, <2>3 DEF ListOf
      <3> QED
        BY <1>3, <3>1
    <2> QED
      BY <1>4, <1>7, <2>1, <2>2, <2>3
  <1>8. ListOf(s, S \cup T)
    BY <1>3, <1>5, <1>6, <1>7 DEF ListOf, IsSeq
  <1> QED
    BY <1>8 DEF s

LEMMA ListOfTwo ==
  ASSUME NEW a, NEW b, a # b
  PROVE  ListOf(<<a, b>>, {a, b})
  <1>1. ListOf(<<a>>, {a}) /\ ListOf(<<b>>, {b}) /\ {a} \cap {b} = {} /\ {a} \cup {b} = {a, b}
    BY ListOfOne
  <1>2. ListOf(<<a>> \o <<b>>, {a} \cup {b})
    BY <1>1, ListOfConcat
  <1> QED
    BY <1>1, <1>2, TwoEntries

LEMMA ListOfFive ==
  ASSUME NEW a, NEW b, NEW c, NEW d, NEW e, a \notin {b, c, d, e}, b \notin {c, d, e},
         c \notin {d, e}, d # e
  PROVE  ListOf(<<a, b, c, d, e>>, {a, b, c, d, e})
  <1> DEFINE s == <<a, b, c, d, e>>
  <1>1. /\ s \in Seq({a, b, c, d, e}) /\ DOMAIN s = 1 .. 5
        /\ s[1] = a /\ s[2] = b /\ s[3] = c /\ s[4] = d /\ s[5] = e
    OBVIOUS
  <1> HIDE DEF s
  <1>2. DOMAIN s = {1, 2, 3, 4, 5}
    BY <1>1
  <1>3. ListOf(s, {a, b, c, d, e})
    BY <1>1, <1>2 DEF ListOf, IsSeq
  <1> QED
    BY <1>3 DEF s

LEMMA ListOfWhen ==
  ASSUME NEW entries, NEW S, NEW condition \in BOOLEAN, ListOf(entries, S)
  PROVE  ListOf(When(condition, entries), IF condition THEN S ELSE {})
  <1>1. <<>> \in Seq({}) /\ DOMAIN <<>> = {}
    OBVIOUS
  <1>2. ListOf(<<>>, {})
    BY <1>1 DEF ListOf, IsSeq
  <1> QED
    BY <1>2 DEF When

-----------------------------------------------------------------------------
(* The message a list of entries makes.                                    *)

\* What becomes of an element of an object in its message.
FieldOf(obj, e) == Field(e.id, e.criticality, Value(obj, e))

\* The entries of S become the fields of F.
Become(obj, S, F) ==
    /\ \A a \in S : FieldOf(obj, a.element) \in F
    /\ \A f \in F : \E a \in S : f = FieldOf(obj, a.element)

LEMMA EntryIs ==
  ASSUME NEW entries, NEW S, ListOf(entries, S), Distinct(S), NEW k \in DOMAIN entries
  PROVE  Entry(entries, entries[k].at) = entries[k].element
  <1> DEFINE m == CHOOSE l \in DOMAIN entries : entries[l].at = entries[k].at
  <1>1. m \in DOMAIN entries /\ entries[m].at = entries[k].at
    OBVIOUS
  <1>2. entries[m] = entries[k]
    BY <1>1 DEF ListOf, Distinct
  <1> QED
    BY <1>2 DEF Entry

\* Fields of the message of distinct entries are distinct by their ids.
LEMMA EntriesMake ==
  ASSUME NEW entries, NEW S, ListOf(entries, S), Distinct(S), NEW obj, NEW ies, NEW F,
         Become(obj, S, F), DOMAIN ies = DOMAIN entries,
         \A k \in DOMAIN entries : ies[k] = FieldOf(obj, entries[k].element)
  PROVE  MadeOf(ies, F)
  <1>1. DOMAIN ies \subseteq Nat
    <2>1. PICK T : entries \in Seq(T)
      BY DEF ListOf, IsSeq
    <2>2. DOMAIN entries = 1 .. Len(entries) /\ Len(entries) \in Nat
      BY <2>1
    <2> QED
      BY <2>2
  <1>2. \A k \in DOMAIN ies : ies[k] \in F
    BY DEF ListOf, Become
  <1>3. ASSUME NEW f \in F PROVE \E k \in DOMAIN ies : ies[k] = f
    <2>1. PICK e \in S : f = FieldOf(obj, e.element)
      BY DEF Become
    <2>2. PICK k \in DOMAIN entries : entries[k] = e
      BY DEF ListOf
    <2> QED
      BY <2>1, <2>2
  <1>4. ASSUME NEW k \in DOMAIN ies, NEW l \in DOMAIN ies, ies[k].id = ies[l].id PROVE k = l
    <2>1. entries[k].element.id = entries[l].element.id
      BY <1>4 DEF FieldOf, Field
    <2>2. entries[k] = entries[l]
      BY <2>1 DEF ListOf, Distinct
    <2> QED
      BY <2>2 DEF ListOf
  <1> QED
    BY <1>1, <1>2, <1>3, <1>4 DEF MadeOf

LEMMA AddedMessage ==
  ASSUME NEW c \in Classes, ~FilledOnce(c), NEW x, Shape(c, x), NEW o \in DOMAIN Headings[c],
         NEW entries, NEW S, ListOf(entries, S), Distinct(S), NEW F, Become(x, S, F)
  PROVE  MadeOf(ProtocolIEs(SetAndAdd(x, o, entries), o), F)
  <1> DEFINE r == SetAndAdd(x, o, entries)
             ies == ProtocolIEs(r, o)
  <1>1. /\ r.lists = x.lists /\ r.arrays = x.arrays
        /\ r.protocolIEs[o] = [k \in DOMAIN entries |-> entries[k].at]
        /\ \A k \in DOMAIN entries :
               r.IE_array[o][entries[k].at] = Entry(entries, entries[k].at)
    <2>1. IsSeq(entries)
      BY DEF ListOf
    <2> QED
      BY <2>1, SetAndAddElements
  <1> HIDE DEF r
  <1>2. /\ DOMAIN ies = DOMAIN entries
        /\ \A k \in DOMAIN entries :
               ies[k] = FieldOf(r, r.IE_array[o][r.protocolIEs[o][k]])
    BY <1>1 DEF ProtocolIEs, FieldOf, Field
  <1>3. ASSUME NEW k \in DOMAIN entries PROVE ies[k] = FieldOf(x, entries[k].element)
    <2>1. r.IE_array[o][r.protocolIEs[o][k]] = entries[k].element
      BY <1>1, EntryIs
    <2>2. Value(r, entries[k].element) = Value(x, entries[k].element)
      BY <1>1, SameLists
    <2> HIDE DEF ies
    <2> QED
      BY <1>2, <2>1, <2>2 DEF FieldOf
  <1> HIDE DEF ies
  <1>4. MadeOf(ies, F)
    BY <1>2, <1>3, EntriesMake
  <1> QED
    BY <1>4 DEF ies, r

\* The message of a class that has its elements since its construction: the
\* entries are in the order of the elements.
LEMMA FilledMessage ==
  ASSUME NEW c \in Classes, FilledOnce(c), NEW x, Shape(c, x), NEW o \in DOMAIN Headings[c],
         NEW entries, NEW S, ListOf(entries, S), Distinct(S), NEW F, Become(x, S, F),
         DOMAIN All(c, o) = DOMAIN entries,
         \A k \in DOMAIN entries : entries[k].at = All(c, o)[k]
  PROVE  MadeOf(ProtocolIEs(Set(x, o, entries), o), F)
  <1> DEFINE r == Set(x, o, entries)
             ies == ProtocolIEs(r, o)
  <1>1. /\ r.lists = x.lists /\ r.arrays = x.arrays
        /\ r.protocolIEs[o] = All(c, o)
        /\ \A k \in DOMAIN entries :
               r.IE_array[o][entries[k].at] = Entry(entries, entries[k].at)
    BY SetElements DEF Shape
  <1> HIDE DEF r
  <1>2. /\ DOMAIN ies = DOMAIN entries
        /\ \A k \in DOMAIN entries :
               ies[k] = FieldOf(r, r.IE_array[o][r.protocolIEs[o][k]])
    BY <1>1 DEF ProtocolIEs, FieldOf, Field
  <1>3. ASSUME NEW k \in DOMAIN entries PROVE ies[k] = FieldOf(x, entries[k].element)
    <2>1. r.IE_array[o][r.protocolIEs[o][k]] = entries[k].element
      BY <1>1, EntryIs
    <2>2. Value(r, entries[k].element) = Value(x, entries[k].element)
      BY <1>1, SameLists
    <2> HIDE DEF ies
    <2> QED
      BY <1>2, <2>1, <2>2 DEF FieldOf
  <1> HIDE DEF ies
  <1>4. MadeOf(ies, F)
    BY <1>2, <1>3, EntriesMake
  <1> QED
    BY <1>4 DEF ies, r

\* The field of an element that is not a list.
LEMMA PlainField ==
  ASSUME NEW x, NEW i, NEW id, NEW criticality, NEW name, NEW content,
         name \notin ListNames, name # NOTHING
  PROVE  LET a == At(i, Element(id, criticality, name, content))
         IN  /\ a.at = i /\ a.element.id = id
             /\ FieldOf(x, a.element) = Field(id, criticality, Choice(name, content))
  <1> DEFINE e == Element(id, criticality, name, content)
             a == At(i, e)
  <1>1. e.id = id /\ e.criticality = criticality /\ e.present = name /\ e.content = content
    BY DEF Element
  <1> HIDE DEF e
  <1>2. a.at = i /\ a.element = e
    BY DEF At
  <1> HIDE DEF a
  <1>3. Value(x, e) = Choice(name, content)
    BY <1>1, Zenon DEF Value, ListNames
  <1>4. a.at = i /\ a.element.id = id
        /\ FieldOf(x, a.element) = Field(id, criticality, Choice(name, content))
    BY <1>1, <1>2, <1>3 DEF FieldOf
  <1> QED
    BY <1>4 DEF a, e

\* The two entries every class begins with.
LEMMA RequestAndFunctionFields ==
  ASSUME NEW h
  PROVE  \E a, b : /\ RequestAndFunction(h) = <<a, b>>
                   /\ a.at = 0 /\ a.element.id = 29 /\ b.at = 1 /\ b.element.id = 5
                   /\ \A x : /\ FieldOf(x, a.element) = RequestField(h)
                             /\ FieldOf(x, b.element) = FunctionField(h)
                   /\ ListOf(RequestAndFunction(h), {a, b})
  <1> DEFINE a == At(0, Element(29, reject, "RICrequestID",
                                [ricRequestorID |-> h.req_id, ricInstanceID |-> 0]))
             b == At(1, Element(5, reject, "RANfunctionID", h.func_id))
  <1>1. /\ "RICrequestID" \notin ListNames /\ "RICrequestID" # NOTHING
        /\ "RANfunctionID" \notin ListNames /\ "RANfunctionID" # NOTHING
    BY DEF ListNames, NOTHING
  <1>2. RequestAndFunction(h) = <<a, b>>
    BY DEF RequestAndFunction
  <1>3. \A x : /\ a.at = 0 /\ a.element.id = 29
               /\ FieldOf(x, a.element) = RequestField(h)
    BY <1>1, PlainField DEF RequestField
  <1>4. \A x : /\ b.at = 1 /\ b.element.id = 5
               /\ FieldOf(x, b.element) = FunctionField(h)
    BY <1>1, PlainField DEF FunctionField
  <1> HIDE DEF a, b
  <1>5. ListOf(<<a, b>>, {a, b})
    BY <1>3, <1>4, ListOfTwo
  <1> QED
    BY <1>2, <1>3, <1>4, <1>5

-----------------------------------------------------------------------------
(* The message of each class, of any object of it.                         *)

LEMMA DeleteMessage ==
  ASSUME NEW x, Shape("subscription_delete", x), NEW h
  PROVE  MadeOf(ProtocolIEs(subscription_delete_set_fields(x, h), "initiatingMessage"),
                {RequestField(h), FunctionField(h)})
  <1> DEFINE c == "subscription_delete"
             o == "initiatingMessage"
             entries == RequestAndFunction(h)
             F == {RequestField(h), FunctionField(h)}
  <1>1. c \in Classes /\ FilledOnce(c) /\ o \in DOMAIN Headings[c]
    BY DEF Classes, Headings, FilledOnce
  <1>2. PICK a, b : /\ entries = <<a, b>>
                    /\ a.at = 0 /\ a.element.id = 29 /\ b.at = 1 /\ b.element.id = 5
                    /\ \A y : /\ FieldOf(y, a.element) = RequestField(h)
                              /\ FieldOf(y, b.element) = FunctionField(h)
                    /\ ListOf(entries, {a, b})
    BY RequestAndFunctionFields
  <1>3. Distinct({a, b}) /\ Become(x, {a, b}, F)
    BY <1>2 DEF Distinct, Become
  <1>4. All(c, o) = [i \in 1 .. 2 |-> i - 1]
    BY DEF All, Headings, Heading
  <1>5. /\ DOMAIN All(c, o) = DOMAIN entries
        /\ \A k \in DOMAIN entries : entries[k].at = All(c, o)[k]
    <2>1. DOMAIN entries = 1 .. 2 /\ entries[1] = a /\ entries[2] = b
      BY <1>2
    <2> HIDE DEF entries
    <2>2. \A k \in 1 .. 2 : k = 1 \/ k = 2
      OBVIOUS
    <2> QED
      BY <1>2, <1>4, <2>1, <2>2
  <1> HIDE DEF entries, F, c, o
  <1>6. MadeOf(ProtocolIEs(Set(x, o, entries), o), F)
    BY <1>1, <1>2, <1>3, <1>5, FilledMessage DEF c
  <1> QED
    BY <1>6 DEF F, c, o, entries, subscription_delete_set_fields

LEMMA DeleteResponseMessage ==
  ASSUME NEW x, Shape("subscription_delete_response", x), NEW h,
         NEW o \in DOMAIN Headings["subscription_delete_response"]
  PROVE  MadeOf(ProtocolIEs(subscription_delete_response_set_fields(x, o, h), o),
                {RequestField(h), FunctionField(h)})
  <1> DEFINE c == "subscription_delete_response"
             entries == RequestAndFunction(h)
             F == {RequestField(h), FunctionField(h)}
  <1>1. c \in Classes /\ ~FilledOnce(c)
    BY DEF Classes, Headings, FilledOnce
  <1>2. PICK a, b : /\ a.at = 0 /\ a.element.id = 29 /\ b.at = 1 /\ b.element.id = 5
                    /\ \A y : /\ FieldOf(y, a.element) = RequestField(h)
                              /\ FieldOf(y, b.element) = FunctionField(h)
                    /\ ListOf(entries, {a, b})
    BY RequestAndFunctionFields
  <1>3. Distinct({a, b}) /\ Become(x, {a, b}, F)
    BY <1>2 DEF Distinct, Become
  <1> HIDE DEF entries, F, c
  <1>4. MadeOf(ProtocolIEs(SetAndAdd(x, o, entries), o), F)
    BY <1>1, <1>2, <1>3, AddedMessage DEF c
  <1> QED
    BY <1>4 DEF F, c, entries, subscription_delete_response_set_fields

LEMMA ControlResponseMessage ==
  ASSUME NEW x, Shape("ric_control_response", x), NEW h,
         NEW o \in DOMAIN Headings["ric_control_response"]
  PROVE  MadeOf(ProtocolIEs(ric_control_response_set_fields(x, o, h), o),
                Fields("ric_control_response", o, h))
  <1> DEFINE c == "ric_control_response"
             status == At(2, Element(24, reject, "RICcontrolStatus", h.control_status))
             cause == At(2, Element(1, ignore, "Cause", CauseOf(h)))
             third == IF o = "successfulOutcome" THEN status ELSE cause
             field == IF o = "successfulOutcome"
                      THEN Field(24, reject, Choice("RICcontrolStatus", h.control_status))
                      ELSE Field(1, ignore, Choice("Cause", CauseOf(h)))
             common == RequestAndFunction(h)
             entries == common \o <<third>>
             F == {RequestField(h), FunctionField(h)} \cup {field}
  <1>1. c \in Classes /\ FilledOnce(c)
    BY DEF Classes, Headings, FilledOnce
  <1>2. PICK a, b : /\ common = <<a, b>>
                    /\ a.at = 0 /\ a.element.id = 29 /\ b.at = 1 /\ b.element.id = 5
                    /\ \A y : /\ FieldOf(y, a.element) = RequestField(h)
                              /\ FieldOf(y, b.element) = FunctionField(h)
                    /\ ListOf(common, {a, b})
    BY RequestAndFunctionFields
  <1>3. third.at = 2 /\ third.element.id \in {1, 24} /\ FieldOf(x, third.element) = field
    <2>1. /\ "RICcontrolStatus" \notin ListNames /\ "RICcontrolStatus" # NOTHING
          /\ "Cause" \notin ListNames /\ "Cause" # NOTHING
      BY DEF ListNames, NOTHING
    <2>2. /\ status.at = 2 /\ status.element.id = 24
          /\ FieldOf(x, status.element)
                 = Field(24, reject, Choice("RICcontrolStatus", h.control_status))
      BY <2>1, PlainField
    <2>3. /\ cause.at = 2 /\ cause.element.id = 1
          /\ FieldOf(x, cause.element) = Field(1, ignore, Choice("Cause", CauseOf(h)))
      BY <2>1, PlainField
    <2> HIDE DEF status, cause
    <2> QED
      BY <2>2, <2>3
  <1>4. Fields(c, o, h) = F
    BY DEF Fields
  <1>5. ric_control_response_set_fields(x, o, h) = Set(x, o, entries)
    BY DEF ric_control_response_set_fields
  <1>6. All(c, o) = [i \in 1 .. 3 |-> i - 1]
    BY DEF All, Headings, Heading
  <1> HIDE DEF common, third, field, c
  <1>7. ListOf(entries, {a, b, third})
    <2>1. ListOf(<<third>>, {third}) /\ {a, b} \cap {third} = {}
      BY <1>2, <1>3, ListOfOne
    <2>2. ListOf(entries, {a, b} \cup {third})
      BY <1>2, <2>1, ListOfConcat
    <2> QED
      BY <2>2
  <1>8. Distinct({a, b, third}) /\ Become(x, {a, b, third}, F)
    BY <1>2, <1>3 DEF Distinct, Become
  <1>9. /\ DOMAIN All(c, o) = DOMAIN entries
        /\ \A k \in DOMAIN entries : entries[k].at = All(c, o)[k]
    <2> DEFINE S == {a, b, third}
               last == <<third>>
    <2>1. common \in Seq(S) /\ Len(common) = 2 /\ common[1] = a /\ common[2] = b
      <3>1. <<a, b>> \in Seq(S) /\ Len(<<a, b>>) = 2 /\ <<a, b>>[1] = a /\ <<a, b>>[2] = b
        OBVIOUS
      <3> QED
        BY <1>2, <3>1
    <2>2. last \in Seq(S) /\ Len(last) = 1 /\ last[1] = third
      OBVIOUS
    <2> HIDE DEF S, last
    <2>3. /\ common \o last \in Seq(S) /\ Len(common \o last) = 3
          /\ (common \o last)[1] = a /\ (common \o last)[2] = b /\ (common \o last)[3] = third
      BY <2>1, <2>2, ConcatProperties
    <2>4. entries = common \o last
      BY DEF last
    <2> HIDE DEF entries
    <2>5. DOMAIN entries = 1 .. 3 /\ entries[1] = a /\ entries[2] = b /\ entries[3] = third
      BY <2>3, <2>4
    <2>6. \A k \in 1 .. 3 : k = 1 \/ k = 2 \/ k = 3
      OBVIOUS
    <2> QED
      BY <1>2, <1>3, <1>6, <2>5, <2>6
  <1> HIDE DEF entries, F
  <1>10. MadeOf(ProtocolIEs(Set(x, o, entries), o), F)
    BY <1>1, <1>7, <1>8, <1>9, FilledMessage DEF c
  <1> QED
    BY <1>4, <1>5, <1>10 DEF c

LEMMA ControlRequestMessage ==
  ASSUME NEW x, Shape("ric_control_request", x), NEW h
  PROVE  MadeOf(ProtocolIEs(ric_control_request_set_fields(x, h), "initiatingMessage"),
                Fields("ric_control_request", "initiatingMessage", h))
  <1> DEFINE c == "ric_control_request"
             o == "initiatingMessage"
             header == At(2, Element(22, reject, "RICcontrolHeader", h.control_header))
             message == At(3, Element(23, reject, "RICcontrolMessage", h.control_msg))
             ack == At(4, Element(21, reject, "RICcontrolAckRequest", h.control_ack))
             process == At(5, Element(20, reject, "RICcallProcessID", h.call_process_id))
             asked == Asked(h)
             called == Len(h.call_process_id) > 0
             headerField == Field(22, reject, Choice("RICcontrolHeader", h.control_header))
             messageField == Field(23, reject, Choice("RICcontrolMessage", h.control_msg))
             ackField == Field(21, reject, Choice("RICcontrolAckRequest", h.control_ack))
             common == RequestAndFunction(h)
             entries == common \o <<header, message>> \o When(asked, <<ack>>)
                        \o When(called, <<process>>)
             F == {RequestField(h), FunctionField(h)} \cup
                  {headerField, messageField} \cup (IF asked THEN {ackField} ELSE {})
                  \cup (IF called THEN {ProcessField(h.call_process_id)} ELSE {})
  <1>1. c \in Classes /\ ~FilledOnce(c) /\ o \in DOMAIN Headings[c]
    BY DEF Classes, Headings, FilledOnce
  <1>2. PICK a, b : /\ a.at = 0 /\ a.element.id = 29 /\ b.at = 1 /\ b.element.id = 5
                    /\ \A y : /\ FieldOf(y, a.element) = RequestField(h)
                              /\ FieldOf(y, b.element) = FunctionField(h)
                    /\ ListOf(common, {a, b})
    BY RequestAndFunctionFields
  <1>3. /\ "RICcontrolHeader" \notin ListNames /\ "RICcontrolHeader" # NOTHING
        /\ "RICcontrolMessage" \notin ListNames /\ "RICcontrolMessage" # NOTHING
        /\ "RICcontrolAckRequest" \notin ListNames /\ "RICcontrolAckRequest" # NOTHING
        /\ "RICcallProcessID" \notin ListNames /\ "RICcallProcessID" # NOTHING
    BY DEF ListNames, NOTHING
  <1>4. header.at = 2 /\ header.element.id = 22 /\ FieldOf(x, header.element) = headerField
    BY <1>3, PlainField
  <1>5. message.at = 3 /\ message.element.id = 23 /\ FieldOf(x, message.element) = messageField
    BY <1>3, PlainField
  <1>6. ack.at = 4 /\ ack.element.id = 21 /\ FieldOf(x, ack.element) = ackField
    BY <1>3, PlainField
  <1>7. /\ process.at = 5 /\ process.element.id = 20
        /\ FieldOf(x, process.element) = ProcessField(h.call_process_id)
    BY <1>3, PlainField DEF ProcessField
  <1>8. Fields(c, o, h) = F
    BY DEF Fields
  <1>9. ric_control_request_set_fields(x, h) = SetAndAdd(x, o, entries)
    BY DEF ric_control_request_set_fields
  <1>10. asked \in BOOLEAN /\ called \in BOOLEAN
    BY DEF Asked
  <1> HIDE DEF common, header, message, ack, process, asked, called, headerField, messageField,
               ackField, c, o
  <1> DEFINE A == IF asked THEN {ack} ELSE {}
             P == IF called THEN {process} ELSE {}
             S == {a, b} \cup {header, message} \cup A \cup P
  <1>11. ListOf(entries, S)
    <2>1. ListOf(<<header, message>>, {header, message})
      BY <1>4, <1>5, ListOfTwo
    <2>2. ListOf(When(asked, <<ack>>), A) /\ ListOf(When(called, <<process>>), P)
      BY <1>10, ListOfOne, ListOfWhen
    <2>3. ListOf(common \o <<header, message>>, {a, b} \cup {header, message})
      <3>1. {a, b} \cap {header, message} = {}
        BY <1>2, <1>4, <1>5
      <3> QED
        BY <1>2, <2>1, <3>1, ListOfConcat
    <2>4. ListOf(common \o <<header, message>> \o When(asked, <<ack>>),
                 {a, b} \cup {header, message} \cup A)
      <3>1. ({a, b} \cup {header, message}) \cap A = {}
        BY <1>2, <1>4, <1>5, <1>6
      <3> HIDE DEF A
      <3> QED
        BY <2>2, <2>3, <3>1, ListOfConcat
    <2>5. ({a, b} \cup {header, message} \cup A) \cap P = {}
      BY <1>2, <1>4, <1>5, <1>6, <1>7
    <2> HIDE DEF A, P
    <2> QED
      BY <2>2, <2>4, <2>5, ListOfConcat
  <1>12. Distinct(S)
    BY <1>2, <1>4, <1>5, <1>6, <1>7 DEF Distinct
  <1>13. Become(x, S, F)
    BY <1>2, <1>4, <1>5, <1>6, <1>7 DEF Become
  <1> HIDE DEF S, F, entries
  <1>14. MadeOf(ProtocolIEs(SetAndAdd(x, o, entries), o), F)
    BY <1>1, <1>11, <1>12, <1>13, AddedMessage DEF c
  <1> QED
    BY <1>8, <1>9, <1>14 DEF c, o

LEMMA IndicationMessage ==
  ASSUME NEW x, Shape("ric_indication", x), NEW h
  PROVE  MadeOf(ProtocolIEs(ric_indication_set_fields(x, h), "initiatingMessage"),
                Fields("ric_indication", "initiatingMessage", h))
  <1> DEFINE c == "ric_indication"
             o == "initiatingMessage"
             action == At(2, Element(15, reject, "RICactionID", h.action_id))
             number == At(3, Element(27, reject, "RICindicationSN", h.indication_sn))
             type == At(4, Element(28, reject, "RICindicationType", h.indication_type))
             header == At(5, Element(25, reject, "RICindicationHeader", h.indication_header))
             message == At(6, Element(26, reject, "RICindicationMessage", h.indication_msg))
             process == At(7, Element(20, reject, "RICcallProcessID", h.indication_msg))
             called == Len(h.call_process_id) > 0
             actionField == Field(15, reject, Choice("RICactionID", h.action_id))
             numberField == Field(27, reject, Choice("RICindicationSN", h.indication_sn))
             typeField == Field(28, reject, Choice("RICindicationType", h.indication_type))
             headerField == Field(25, reject, Choice("RICindicationHeader", h.indication_header))
             messageField == Field(26, reject, Choice("RICindicationMessage", h.indication_msg))
             common == RequestAndFunction(h)
             content == <<action, number, type, header, message>>
             five == {action, number, type, header, message}
             entries == common \o content \o When(called, <<process>>)
             F == {RequestField(h), FunctionField(h)} \cup
                  {actionField, numberField, typeField, headerField, messageField}
                  \cup (IF called THEN {ProcessField(h.indication_msg)} ELSE {})
  <1>1. c \in Classes /\ ~FilledOnce(c) /\ o \in DOMAIN Headings[c]
    BY DEF Classes, Headings, FilledOnce
  <1>2. PICK a, b : /\ a.at = 0 /\ a.element.id = 29 /\ b.at = 1 /\ b.element.id = 5
                    /\ \A y : /\ FieldOf(y, a.element) = RequestField(h)
                              /\ FieldOf(y, b.element) = FunctionField(h)
                    /\ ListOf(common, {a, b})
    BY RequestAndFunctionFields
  <1>3. /\ "RICactionID" \notin ListNames /\ "RICactionID" # NOTHING
        /\ "RICindicationSN" \notin ListNames /\ "RICindicationSN" # NOTHING
        /\ "RICindicationType" \notin ListNames /\ "RICindicationType" # NOTHING
        /\ "RICindicationHeader" \notin ListNames /\ "RICindicationHeader" # NOTHING
        /\ "RICindicationMessage" \notin ListNames /\ "RICindicationMessage" # NOTHING
        /\ "RICcallProcessID" \notin ListNames /\ "RICcallProcessID" # NOTHING
    BY DEF ListNames, NOTHING
  <1>4. action.at = 2 /\ action.element.id = 15 /\ FieldOf(x, action.element) = actionField
    <2>1. "RICactionID" \notin ListNames /\ "RICactionID" # NOTHING
      BY <1>3
    <2> QED
      BY <2>1, PlainField
  <1>5. number.at = 3 /\ number.element.id = 27 /\ FieldOf(x, number.element) = numberField
    BY <1>3, PlainField
  <1>6. type.at = 4 /\ type.element.id = 28 /\ FieldOf(x, type.element) = typeField
    <2>1. "RICindicationType" \notin ListNames /\ "RICindicationType" # NOTHING
      BY <1>3
    <2> QED
      BY <2>1, PlainField
  <1>7. header.at = 5 /\ header.element.id = 25 /\ FieldOf(x, header.element) = headerField
    BY <1>3, PlainField
  <1>8. message.at = 6 /\ message.element.id = 26 /\ FieldOf(x, message.element) = messageField
    BY <1>3, PlainField
  <1>9. /\ process.at = 7 /\ process.element.id = 20
        /\ FieldOf(x, process.element) = ProcessField(h.indication_msg)
    BY <1>3, PlainField DEF ProcessField
  <1>10. Fields(c, o, h) = F
    BY DEF Fields
  <1>11. ric_indication_set_fields(x, h) = SetAndAdd(x, o, entries)
    BY DEF ric_indication_set_fields
  <1>12. called \in BOOLEAN
    OBVIOUS
  <1> HIDE DEF common, action, number, type, header, message, process, called, actionField,
               numberField, typeField, headerField, messageField, c, o
  <1> DEFINE P == IF called THEN {process} ELSE {}
             S == {a, b} \cup five \cup P
  <1>13. ListOf(entries, S)
    <2>1. ListOf(content, five)
      BY <1>4, <1>5, <1>6, <1>7, <1>8, ListOfFive
    <2>2. ListOf(When(called, <<process>>), P)
      BY <1>12, ListOfOne, ListOfWhen
    <2>3. ListOf(common \o content, {a, b} \cup five)
      <3>1. {a, b} \cap five = {}
        BY <1>2, <1>4, <1>5, <1>6, <1>7, <1>8
      <3> HIDE DEF five, content
      <3> QED
        BY <1>2, <2>1, <3>1, ListOfConcat
    <2>4. ({a, b} \cup five) \cap P = {}
      BY <1>2, <1>4, <1>5, <1>6, <1>7, <1>8, <1>9
    <2> HIDE DEF P, five, content
    <2> QED
      BY <2>2, <2>3, <2>4, ListOfConcat
  <1>14. Distinct(S)
    BY <1>2, <1>4, <1>5, <1>6, <1>7, <1>8, <1>9 DEF Distinct
  <1>15. Become(x, S, F)
    BY <1>2, <1>4, <1>5, <1>6, <1>7, <1>8, <1>9 DEF Become
  <1> HIDE DEF S, F, entries
  <1>16. MadeOf(ProtocolIEs(SetAndAdd(x, o, entries), o), F)
    BY <1>1, <1>13, <1>14, <1>15, AddedMessage DEF c
  <1> QED
    BY <1>10, <1>11, <1>16 DEF c, o

LEMMA SubscriptionRequestMessage ==
  ASSUME NEW x, Shape("subscription_request", x), NEW h, IsList(h.actions)
  PROVE  MadeOf(ProtocolIEs(subscription_request_set_fields(x, h), "initiatingMessage"),
                Fields("subscription_request", "initiatingMessage", h))
  <1> DEFINE c == "subscription_request"
             o == "initiatingMessage"
             items == ActionsToBeSetup(h)
             n == Len(h.actions)
             X == SetItems(x, "to_be_setup", "action_array", items, n)
             element == Element(30, reject, "RICsubscriptionDetails", h.event_def)
             details == At(2, element)
             common == RequestAndFunction(h)
             entries == common \o <<details>>
             F == {RequestField(h), FunctionField(h)} \cup {DetailsField(h)}
  <1>1. /\ c \in Classes /\ ~FilledOnce(c) /\ o \in DOMAIN Headings[c]
        /\ "action_array" \in Arrays(c) /\ "to_be_setup" \in Lists
    BY DEF Classes, Headings, FilledOnce, Arrays, Lists
  <1>2. PICK a, b : /\ a.at = 0 /\ a.element.id = 29 /\ b.at = 1 /\ b.element.id = 5
                    /\ \A y : /\ FieldOf(y, a.element) = RequestField(h)
                              /\ FieldOf(y, b.element) = FunctionField(h)
                    /\ ListOf(common, {a, b})
    BY RequestAndFunctionFields
  <1>3. Fields(c, o, h) = F
    BY DEF Fields
  <1>4. subscription_request_set_fields(x, h) = SetAndAdd(X, o, entries)
    BY DEF subscription_request_set_fields
  <1>5. IsSeq(items) /\ n \in Nat
    BY ActionsAreSeq
  <1>6. /\ element.id = 30 /\ element.criticality = reject
        /\ element.present = "RICsubscriptionDetails" /\ element.content = h.event_def
    BY DEF Element
  <1>7. DetailsField(h) = Field(30, reject, Choice("RICsubscriptionDetails",
                                                  [ricEventTriggerDefinition |-> h.event_def,
                                                   ricAction_ToBeSetup_List |-> items]))
    BY DEF DetailsField
  <1> HIDE DEF items, n, element, common, c, o
  <1>8. Shape(c, X) /\ Items(X, "to_be_setup") = items
    BY <1>1, <1>5, SetItemsReads DEF c
  <1> HIDE DEF X
  <1>9. details.at = 2 /\ details.element.id = 30 /\ details.element = element
    BY <1>6 DEF At
  <1>10. FieldOf(X, element) = DetailsField(h)
    <2>1. "RICsubscriptionDetails" # NOTHING
      BY DEF NOTHING
    <2>2. Value(X, element) = Choice("RICsubscriptionDetails",
                                     [ricEventTriggerDefinition |-> h.event_def,
                                      ricAction_ToBeSetup_List |-> items])
      BY <1>6, <1>8, <2>1 DEF Value
    <2> QED
      BY <1>6, <1>7, <2>2 DEF FieldOf
  <1> HIDE DEF details
  <1>11. ListOf(entries, {a, b} \cup {details})
    <2>1. ListOf(<<details>>, {details}) /\ {a, b} \cap {details} = {}
      BY <1>2, <1>9, ListOfOne
    <2> QED
      BY <1>2, <2>1, ListOfConcat
  <1>12. Distinct({a, b} \cup {details}) /\ Become(X, {a, b} \cup {details}, F)
    BY <1>2, <1>9, <1>10 DEF Distinct, Become
  <1> HIDE DEF entries, F
  <1>13. MadeOf(ProtocolIEs(SetAndAdd(X, o, entries), o), F)
    BY <1>1, <1>8, <1>11, <1>12, AddedMessage
  <1> QED
    BY <1>3, <1>4, <1>13 DEF c, o

\* The field of an element that is a list, or nothing when the list is empty.
LEMMA ListField ==
  ASSUME NEW x, NEW i, NEW id, NEW name, NEW list, NEW items, NEW empty \in BOOLEAN,
         name \in {"RICaction_Admitted_List", "RICaction_NotAdmitted_List"},
         ~empty => Items(x, list) = items
  PROVE  LET a == At(i, Element(id, reject, IF empty THEN NOTHING ELSE name, list))
         IN  /\ a.at = i /\ a.element.id = id
             /\ FieldOf(x, a.element)
                    = Field(id, reject, IF empty THEN <<>> ELSE Choice(name, items))
  <1> DEFINE e == Element(id, reject, IF empty THEN NOTHING ELSE name, list)
             a == At(i, e)
  <1>1. /\ e.id = id /\ e.criticality = reject /\ e.content = list
        /\ e.present = IF empty THEN NOTHING ELSE name
    BY DEF Element
  <1> HIDE DEF e
  <1>2. a.at = i /\ a.element = e
    BY DEF At
  <1> HIDE DEF a
  <1>3. Value(x, e) = IF empty THEN <<>> ELSE Choice(name, items)
    <2>1. name # NOTHING /\ name # "RICsubscriptionDetails"
      BY DEF NOTHING
    <2>2. CASE empty
      <3>1. e.present = NOTHING
        BY <1>1, <2>2
      <3>2. Value(x, e) = <<>>
        BY <3>1 DEF Value, NOTHING
      <3> QED
        BY <2>2, <3>2
    <2>3. CASE ~empty
      <3>1. /\ e.present = name /\ e.content = list /\ Items(x, list) = items
            /\ e.present # NOTHING /\ e.present # "RICsubscriptionDetails"
        BY <1>1, <2>1, <2>3
      <3>2. Value(x, e) = Choice(name, items)
        BY <3>1, Zenon DEF Value
      <3> QED
        BY <2>3, <3>2
    <2> QED
      BY <2>2, <2>3
  <1>4. /\ a.at = i /\ a.element.id = id
        /\ FieldOf(x, a.element)
               = Field(id, reject, IF empty THEN <<>> ELSE Choice(name, items))
    BY <1>1, <1>2, <1>3 DEF FieldOf
  <1> QED
    BY <1>4 DEF a, e

LEMMA ResponseMessage ==
  ASSUME NEW x, Shape("subscription_response", x), NEW h,
         IsList(h.admitted), IsList(h.not_admitted)
  PROVE  MadeOf(ProtocolIEs(set_fields_success(x, h), "successfulOutcome"),
                Fields("subscription_response", "successfulOutcome", h))
  <1> DEFINE c == "subscription_response"
             o == "successfulOutcome"
             X == BothLists(x, h)
             list == "admitted"
             items == AdmittedItems(h)
             none == h.admitted = <<>>
             admitted == At(2, Element(17, reject, IF none THEN NOTHING
                                                   ELSE "RICaction_Admitted_List", list))
             refused == At(3, Element(18, reject, "RICaction_NotAdmitted_List", "not_admitted"))
             whole == h.not_admitted # <<>> /\ KnownCauses(h.not_admitted)
             common == RequestAndFunction(h)
             entries == common \o <<admitted>> \o When(whole, <<refused>>)
             F == {RequestField(h), FunctionField(h)} \cup
                  ({AdmittedField(h)} \cup (IF whole THEN {NotAdmittedField(h)} ELSE {}))
  <1>1. c \in Classes /\ ~FilledOnce(c) /\ o \in DOMAIN Headings[c]
    BY DEF Classes, Headings, FilledOnce
  <1>2. PICK a, b : /\ a.at = 0 /\ a.element.id = 29 /\ b.at = 1 /\ b.element.id = 5
                    /\ \A y : /\ FieldOf(y, a.element) = RequestField(h)
                              /\ FieldOf(y, b.element) = FunctionField(h)
                    /\ ListOf(common, {a, b})
    BY RequestAndFunctionFields
  <1>3. /\ Shape(c, X) /\ Items(X, list) = items
        /\ h.not_admitted # <<>> => Items(X, "not_admitted") = NotAdmittedItems(h)
    BY BothListsRead
  <1>4. Fields(c, o, h) = F
    BY DEF Fields
  <1>5. set_fields_success(x, h) = SetAndAdd(X, o, entries)
    BY DEF set_fields_success, BothLists
  <1>6. none \in BOOLEAN /\ whole \in BOOLEAN
    OBVIOUS
  <1>7. /\ AdmittedField(h) = Field(17, reject, IF none THEN <<>>
                                    ELSE Choice("RICaction_Admitted_List", items))
        /\ whole => NotAdmittedField(h) = Field(18, reject, Choice("RICaction_NotAdmitted_List",
                                                                  NotAdmittedItems(h)))
    BY DEF AdmittedField, NotAdmittedField
  <1>8. whole => Items(X, "not_admitted") = NotAdmittedItems(h)
    BY <1>3
  <1> HIDE DEF X, common, list, items, none, whole, c, o
  <1>9. admitted.at = 2 /\ admitted.element.id = 17 /\ FieldOf(X, admitted.element) = AdmittedField(h)
    <2>1. none \in BOOLEAN /\ Items(X, list) = items
      BY <1>3, <1>6
    <2>2. AdmittedField(h)
              = Field(17, reject, IF none THEN <<>> ELSE Choice("RICaction_Admitted_List", items))
      BY <1>7
    <2> QED
      BY <2>1, <2>2, ListField
  <1>10. /\ refused.at = 3 /\ refused.element.id = 18
         /\ whole => FieldOf(X, refused.element) = NotAdmittedField(h)
    <2> DEFINE e == Element(18, reject, "RICaction_NotAdmitted_List", "not_admitted")
    <2>1. /\ e.id = 18 /\ e.criticality = reject /\ e.content = "not_admitted"
          /\ e.present = "RICaction_NotAdmitted_List"
      BY DEF Element
    <2> HIDE DEF e
    <2>2. refused.at = 3 /\ refused.element = e
      BY DEF At, e
    <2>3. Value(X, e) = Choice("RICaction_NotAdmitted_List", Items(X, "not_admitted"))
      BY <2>1 DEF Value, NOTHING
    <2> HIDE DEF refused
    <2> QED
      BY <1>7, <1>8, <2>1, <2>2, <2>3 DEF FieldOf
  <1> HIDE DEF admitted, refused
  <1> DEFINE R == IF whole THEN {refused} ELSE {}
             S == {a, b} \cup {admitted} \cup R
  <1>11. ListOf(entries, S)
    <2>1. ListOf(<<admitted>>, {admitted}) /\ {a, b} \cap {admitted} = {}
      BY <1>2, <1>9, ListOfOne
    <2>2. ListOf(common \o <<admitted>>, {a, b} \cup {admitted})
      BY <1>2, <2>1, ListOfConcat
    <2>3. ListOf(When(whole, <<refused>>), R)
      BY <1>6, ListOfOne, ListOfWhen
    <2>4. ({a, b} \cup {admitted}) \cap R = {}
      BY <1>2, <1>9, <1>10
    <2> HIDE DEF R
    <2> QED
      BY <2>2, <2>3, <2>4, ListOfConcat
  <1>12. Distinct(S)
    BY <1>2, <1>9, <1>10 DEF Distinct
  <1>13. Become(X, S, F)
    BY <1>2, <1>9, <1>10 DEF Become
  <1> HIDE DEF S, F, entries
  <1>14. MadeOf(ProtocolIEs(SetAndAdd(X, o, entries), o), F)
    BY <1>1, <1>3, <1>11, <1>12, <1>13, AddedMessage
  <1> QED
    BY <1>4, <1>5, <1>14 DEF c, o

LEMMA FailureMessage ==
  ASSUME NEW x, Shape("subscription_response", x), NEW h, IsList(h.not_admitted)
  PROVE  MadeOf(ProtocolIEs(set_fields_unsuccess(x, h), "unsuccessfulOutcome"),
                Fields("subscription_response", "unsuccessfulOutcome", h))
  <1> DEFINE c == "subscription_response"
             o == "unsuccessfulOutcome"
             list == "failure_not_admitted"
             refusals == NotAdmittedItems(h)
             m == Len(h.not_admitted)
             none == h.not_admitted = <<>>
             refused == At(2, Element(18, reject, IF none THEN NOTHING
                                                  ELSE "RICaction_NotAdmitted_List", list))
             X == SetItems(x, list, "ie_not_admitted_list", refusals, m)
             Y == Set(X, o, <<refused>>)
             whole == KnownCauses(h.not_admitted)
             common == RequestAndFunction(h)
             entries == common \o When(whole, <<refused>>)
             F == {RequestField(h), FunctionField(h)}
                  \cup (IF whole THEN {NotAdmittedField(h)} ELSE {})
  <1>1. /\ c \in Classes /\ ~FilledOnce(c) /\ o \in DOMAIN Headings[c]
        /\ "ie_not_admitted_list" \in Arrays(c) /\ list \in Lists
    BY DEF Classes, Headings, FilledOnce, Arrays, Lists
  <1>2. PICK a, b : /\ a.at = 0 /\ a.element.id = 29 /\ b.at = 1 /\ b.element.id = 5
                    /\ \A y : /\ FieldOf(y, a.element) = RequestField(h)
                              /\ FieldOf(y, b.element) = FunctionField(h)
                    /\ ListOf(common, {a, b})
    BY RequestAndFunctionFields
  <1>3. IsSeq(refusals) /\ m \in Nat
    BY NotAdmittedIsSeq
  <1>4. none \in BOOLEAN /\ whole \in BOOLEAN
    BY DEF KnownCauses
  <1>5. NotAdmittedField(h) = Field(18, reject, IF none THEN <<>>
                                    ELSE Choice("RICaction_NotAdmitted_List", refusals))
    BY DEF NotAdmittedField
  <1>6. Fields(c, o, h) = F
    BY DEF Fields
  <1>7. set_fields_unsuccess(x, h) = SetAndAdd(Y, o, entries)
    BY DEF set_fields_unsuccess, SetNotAdmitted
  <1> HIDE DEF refusals, m, none, whole, common, c, o
  <1>8. Shape(c, X) /\ Items(X, list) = refusals
    BY <1>1, <1>3, SetItemsReads DEF c
  <1> HIDE DEF X
  <1>9. Shape(c, Y) /\ Y.lists = X.lists /\ Y.arrays = X.arrays
    <2> HIDE DEF refused
    <2> QED
      BY <1>1, <1>8, SetElements
  <1>10. /\ refused.at = 2 /\ refused.element.id = 18
         /\ FieldOf(X, refused.element) = NotAdmittedField(h)
    BY <1>4, <1>5, <1>8, ListField
  <1> HIDE DEF refused, Y
  <1>11. FieldOf(Y, refused.element) = NotAdmittedField(h)
    <2>1. Value(Y, refused.element) = Value(X, refused.element)
      BY <1>9, SameLists
    <2> QED
      BY <1>10, <2>1 DEF FieldOf
  <1> DEFINE R == IF whole THEN {refused} ELSE {}
             S == {a, b} \cup R
  <1>12. ListOf(entries, S)
    <2>1. ListOf(When(whole, <<refused>>), R)
      BY <1>4, ListOfOne, ListOfWhen
    <2>2. {a, b} \cap R = {}
      BY <1>2, <1>10
    <2> HIDE DEF R
    <2> QED
      BY <1>2, <2>1, <2>2, ListOfConcat
  <1>13. Distinct(S)
    BY <1>2, <1>10 DEF Distinct
  <1>14. Become(Y, S, F)
    BY <1>2, <1>11 DEF Become
  <1> HIDE DEF S, F, entries
  <1>15. MadeOf(ProtocolIEs(SetAndAdd(Y, o, entries), o), F)
    BY <1>1, <1>9, <1>12, <1>13, <1>14, AddedMessage
  <1> QED
    BY <1>6, <1>7, <1>15 DEF c, o

LEMMA MessageMadeOf ==
  ASSUME NEW c \in Classes, NEW x, Shape(c, x), NEW o \in DOMAIN Headings[c], NEW h \in Helpers[c]
  PROVE  MadeOf(ProtocolIEs(set_fields(c, x, o, h), o), Fields(c, o, h))
  <1>1. c \in {"subscription_request", "subscription_response", "subscription_delete",
               "subscription_delete_response", "ric_control_request", "ric_control_response",
               "ric_indication"}
    BY DEF Classes, Headings
  <1>2. CASE c = "subscription_request"
    <2>1. o = "initiatingMessage" /\ IsList(h.actions)
      BY <1>2, HelpersAssumption DEF Headings
    <2>2. set_fields(c, x, o, h) = subscription_request_set_fields(x, h)
      BY <1>2 DEF set_fields
    <2> QED
      BY <1>2, <2>1, <2>2, SubscriptionRequestMessage
  <1>3. CASE c = "subscription_response"
    <2>1. /\ o = "successfulOutcome" \/ o = "unsuccessfulOutcome"
          /\ IsList(h.admitted) /\ IsList(h.not_admitted)
      BY <1>3, HelpersAssumption DEF Headings
    <2>2. set_fields(c, x, o, h) = IF o = "successfulOutcome" THEN set_fields_success(x, h)
                                   ELSE set_fields_unsuccess(x, h)
      BY <1>3 DEF set_fields
    <2>3. CASE o = "successfulOutcome"
      BY <1>3, <2>1, <2>2, <2>3, ResponseMessage
    <2>4. CASE o = "unsuccessfulOutcome"
      BY <1>3, <2>1, <2>2, <2>4, FailureMessage
    <2> QED
      BY <2>1, <2>3, <2>4
  <1>4. CASE c = "subscription_delete"
    <2>1. o = "initiatingMessage"
      BY <1>4 DEF Headings
    <2>2. set_fields(c, x, o, h) = subscription_delete_set_fields(x, h)
      BY <1>4 DEF set_fields
    <2>3. Fields(c, o, h) = {RequestField(h), FunctionField(h)}
      BY <1>4 DEF Fields
    <2> QED
      BY <1>4, <2>1, <2>2, <2>3, DeleteMessage
  <1>5. CASE c = "subscription_delete_response"
    <2>1. set_fields(c, x, o, h) = subscription_delete_response_set_fields(x, o, h)
      BY <1>5 DEF set_fields
    <2>2. Fields(c, o, h) = {RequestField(h), FunctionField(h)}
      BY <1>5 DEF Fields
    <2> QED
      BY <1>5, <2>1, <2>2, DeleteResponseMessage
  <1>6. CASE c = "ric_control_request"
    <2>1. o = "initiatingMessage"
      BY <1>6 DEF Headings
    <2>2. set_fields(c, x, o, h) = ric_control_request_set_fields(x, h)
      BY <1>6 DEF set_fields
    <2> QED
      BY <1>6, <2>1, <2>2, ControlRequestMessage
  <1>7. CASE c = "ric_control_response"
    <2>1. set_fields(c, x, o, h) = ric_control_response_set_fields(x, o, h)
      BY <1>7 DEF set_fields
    <2> QED
      BY <1>7, <2>1, ControlResponseMessage
  <1>8. CASE c = "ric_indication"
    <2>1. o = "initiatingMessage"
      BY <1>8 DEF Headings
    <2>2. set_fields(c, x, o, h) = ric_indication_set_fields(x, h)
      BY <1>8 DEF set_fields
    <2> QED
      BY <1>8, <2>1, <2>2, IndicationMessage
  <1> QED
    BY <1>1, <1>2, <1>3, <1>4, <1>5, <1>6, <1>7, <1>8

-----------------------------------------------------------------------------
(* The tables of ProtocolIE-Field.c.                                       *)

\* The fields F are those of the table of a message.
FieldsFollow(message, F) ==
    LET rows == Rows[message]
    IN /\ \A f \in F : \E r \in DOMAIN rows : FollowsRow(f, rows[r])
       /\ \A r \in DOMAIN rows :
              \/ rows[r].presence = "optional"
              \/ \E f \in F : f.id = rows[r].id
              \/ message = "RICsubscriptionDeleteFailure" /\ rows[r].Value = "Cause"
              \/ message = "RICsubscriptionFailure" /\ ~KnownCauses(given.not_admitted)

LEMMA PlainFollows ==
  ASSUME NEW id, NEW name, NEW content, NEW p
  PROVE  FollowsRow(Field(id, reject, Choice(name, content)), IE(id, "reject", name, p))
  <1> DEFINE value == Choice(name, content)
             row == IE(id, "reject", name, p)
             f == Field(id, reject, value)
  <1>1. DOMAIN value = {name}
    BY DEF Choice
  <1>2. row.id = id /\ row.criticality = "reject" /\ row.Value = name
    BY DEF IE
  <1>3. f.id = id /\ f.criticality = 0 /\ f.value = value
    BY DEF Field, reject
  <1>4. Criticality.names[0 + 1] = "reject"
    BY DEF Criticality, NativeEnumerated
  <1> HIDE DEF value, row, f
  <1>5. FollowsRow(f, row)
    BY <1>1, <1>2, <1>3, <1>4 DEF FollowsRow
  <1> QED
    BY <1>5 DEF f, row, value

LEMMA CauseFollows ==
  ASSUME NEW content, NEW p
  PROVE  FollowsRow(Field(1, ignore, Choice("Cause", content)), IE(1, "ignore", "Cause", p))
  <1> DEFINE value == Choice("Cause", content)
             row == IE(1, "ignore", "Cause", p)
             f == Field(1, ignore, value)
  <1>1. DOMAIN value = {"Cause"}
    BY DEF Choice
  <1>2. row.id = 1 /\ row.criticality = "ignore" /\ row.Value = "Cause"
    BY DEF IE
  <1>3. f.id = 1 /\ f.criticality = 1 /\ f.value = value
    BY DEF Field, ignore
  <1>4. Criticality.names[1 + 1] = "ignore"
    BY DEF Criticality, NativeEnumerated
  <1> HIDE DEF value, row, f
  <1>5. FollowsRow(f, row)
    BY <1>1, <1>2, <1>3, <1>4 DEF FollowsRow
  <1> QED
    BY <1>5 DEF f, row, value

LEMMA ListFollows ==
  ASSUME NEW id, NEW name, NEW items, NEW p, NEW empty \in BOOLEAN, empty => EmptyList(name)
  PROVE  FollowsRow(Field(id, reject, IF empty THEN <<>> ELSE Choice(name, items)),
                    IE(id, "reject", name, p))
  <1>1. CASE ~empty
    BY <1>1, PlainFollows
  <1>2. CASE empty
    <2> DEFINE row == IE(id, "reject", name, p)
               f == Field(id, reject, <<>>)
    <2>1. row.id = id /\ row.criticality = "reject" /\ row.Value = name
      BY DEF IE
    <2>2. f.id = id /\ f.criticality = 0 /\ f.value = <<>> /\ DOMAIN <<>> = {}
      BY DEF Field, reject
    <2>3. Criticality.names[0 + 1] = "reject"
      BY DEF Criticality, NativeEnumerated
    <2> HIDE DEF row, f
    <2>4. FollowsRow(f, row)
      BY <1>2, <2>1, <2>2, <2>3 DEF FollowsRow
    <2> QED
      BY <1>2, <2>4 DEF f, row
  <1> QED
    BY <1>1, <1>2

\* The rows every table begins with, and the fields that follow them.
LEMMA CommonFollow ==
  ASSUME NEW h, NEW p, NEW q
  PROVE  /\ FollowsRow(RequestField(h), IE(29, "reject", "RICrequestID", p))
         /\ FollowsRow(FunctionField(h), IE(5, "reject", "RANfunctionID", q))
         /\ RequestField(h).id = 29 /\ FunctionField(h).id = 5
  <1>1. /\ FollowsRow(RequestField(h), IE(29, "reject", "RICrequestID", p))
        /\ FollowsRow(FunctionField(h), IE(5, "reject", "RANfunctionID", q))
    BY PlainFollows DEF RequestField, FunctionField
  <1>2. \A id, criticality, value : Field(id, criticality, value).id = id
    BY DEF Field
  <1>3. RequestField(h).id = 29 /\ FunctionField(h).id = 5
    BY <1>2 DEF RequestField, FunctionField
  <1> QED
    BY <1>1, <1>3

LEMMA FieldIds ==
  /\ \A id, criticality, value : Field(id, criticality, value).id = id
  /\ \A id, criticality, name, p : /\ IE(id, criticality, name, p).id = id
                                   /\ IE(id, criticality, name, p).Value = name
                                   /\ IE(id, criticality, name, p).presence = p
  BY DEF Field, IE

LEMMA ControlRequestFollows ==
  ASSUME NEW h
  PROVE  FieldsFollow("RICcontrolRequest", Fields("ric_control_request", "initiatingMessage", h))
  <1> DEFINE rows == Rows["RICcontrolRequest"]
             F == Fields("ric_control_request", "initiatingMessage", h)
             r1 == IE(29, "reject", "RICrequestID", "mandatory")
             r2 == IE(5, "reject", "RANfunctionID", "mandatory")
             r3 == IE(20, "reject", "RICcallProcessID", "optional")
             r4 == IE(22, "reject", "RICcontrolHeader", "mandatory")
             r5 == IE(23, "reject", "RICcontrolMessage", "mandatory")
             r6 == IE(21, "reject", "RICcontrolAckRequest", "optional")
             header == Field(22, reject, Choice("RICcontrolHeader", h.control_header))
             message == Field(23, reject, Choice("RICcontrolMessage", h.control_msg))
             ack == Field(21, reject, Choice("RICcontrolAckRequest", h.control_ack))
             process == ProcessField(h.call_process_id)
  <1>1. rows = <<r1, r2, r3, r4, r5, r6>>
    BY DEF Rows, RICcontrolRequest_IEs_rows
  <1>2. /\ F \subseteq {RequestField(h), FunctionField(h), header, message, ack, process}
        /\ {RequestField(h), FunctionField(h), header, message} \subseteq F
    BY DEF Fields
  <1>3. /\ FollowsRow(RequestField(h), r1) /\ FollowsRow(FunctionField(h), r2)
        /\ RequestField(h).id = 29 /\ FunctionField(h).id = 5
    BY CommonFollow
  <1>4. FollowsRow(process, r3)
    BY PlainFollows DEF ProcessField
  <1>5. FollowsRow(header, r4) /\ FollowsRow(message, r5) /\ FollowsRow(ack, r6)
    BY PlainFollows
  <1>6. header.id = 22 /\ message.id = 23
    BY FieldIds
  <1>7. /\ r1.id = 29 /\ r2.id = 5 /\ r4.id = 22 /\ r5.id = 23
        /\ r3.presence = "optional" /\ r6.presence = "optional"
    BY FieldIds
  <1> HIDE DEF r1, r2, r3, r4, r5, r6, header, message, ack, process, F
  <1>8. /\ DOMAIN rows = 1 .. 6 /\ rows[1] = r1 /\ rows[2] = r2 /\ rows[3] = r3
        /\ rows[4] = r4 /\ rows[5] = r5 /\ rows[6] = r6
    BY <1>1
  <1> HIDE DEF rows
  <1>9. \A r \in 1 .. 6 : r \in {1, 2, 3, 4, 5, 6}
    OBVIOUS
  <1>10. {1, 2, 3, 4, 5, 6} \subseteq DOMAIN rows
    BY <1>8
  <1>11. \A f \in F : \E r \in DOMAIN rows : FollowsRow(f, rows[r])
    BY <1>2, <1>3, <1>4, <1>5, <1>8, <1>10
  <1>12. \A r \in DOMAIN rows : rows[r].presence = "optional" \/ \E f \in F : f.id = rows[r].id
    BY <1>2, <1>3, <1>6, <1>7, <1>8, <1>9
  <1>13. FieldsFollow("RICcontrolRequest", F)
    BY <1>11, <1>12 DEF FieldsFollow, rows
  <1> QED
    BY <1>13 DEF F

LEMMA IndicationFollows ==
  ASSUME NEW h
  PROVE  FieldsFollow("RICindication", Fields("ric_indication", "initiatingMessage", h))
  <1> DEFINE rows == Rows["RICindication"]
             F == Fields("ric_indication", "initiatingMessage", h)
             r1 == IE(29, "reject", "RICrequestID", "mandatory")
             r2 == IE(5, "reject", "RANfunctionID", "mandatory")
             r3 == IE(15, "reject", "RICactionID", "mandatory")
             r4 == IE(27, "reject", "RICindicationSN", "optional")
             r5 == IE(28, "reject", "RICindicationType", "mandatory")
             r6 == IE(25, "reject", "RICindicationHeader", "mandatory")
             r7 == IE(26, "reject", "RICindicationMessage", "mandatory")
             r8 == IE(20, "reject", "RICcallProcessID", "optional")
             action == Field(15, reject, Choice("RICactionID", h.action_id))
             number == Field(27, reject, Choice("RICindicationSN", h.indication_sn))
             type == Field(28, reject, Choice("RICindicationType", h.indication_type))
             header == Field(25, reject, Choice("RICindicationHeader", h.indication_header))
             message == Field(26, reject, Choice("RICindicationMessage", h.indication_msg))
             process == ProcessField(h.indication_msg)
  <1>1. rows = <<r1, r2, r3, r4, r5, r6, r7, r8>>
    BY DEF Rows, RICindication_IEs_rows
  <1>2. /\ F \subseteq {RequestField(h), FunctionField(h), action, number, type, header, message,
                        process}
        /\ {RequestField(h), FunctionField(h), action, type, header, message} \subseteq F
    BY DEF Fields
  <1>3. /\ FollowsRow(RequestField(h), r1) /\ FollowsRow(FunctionField(h), r2)
        /\ RequestField(h).id = 29 /\ FunctionField(h).id = 5
    BY CommonFollow
  <1>4. FollowsRow(process, r8)
    BY PlainFollows DEF ProcessField
  <1>5. /\ FollowsRow(action, r3) /\ FollowsRow(number, r4) /\ FollowsRow(type, r5)
        /\ FollowsRow(header, r6) /\ FollowsRow(message, r7)
    BY PlainFollows
  <1>6. action.id = 15 /\ type.id = 28 /\ header.id = 25 /\ message.id = 26
    BY FieldIds
  <1>7. /\ r1.id = 29 /\ r2.id = 5 /\ r3.id = 15 /\ r5.id = 28 /\ r6.id = 25 /\ r7.id = 26
        /\ r4.presence = "optional" /\ r8.presence = "optional"
    BY FieldIds
  <1> HIDE DEF r1, r2, r3, r4, r5, r6, r7, r8, action, number, type, header, message, process, F
  <1>8. /\ DOMAIN rows = 1 .. 8 /\ rows[1] = r1 /\ rows[2] = r2 /\ rows[3] = r3
        /\ rows[4] = r4 /\ rows[5] = r5 /\ rows[6] = r6 /\ rows[7] = r7 /\ rows[8] = r8
    BY <1>1
  <1> HIDE DEF rows
  <1>9. \A r \in 1 .. 8 : r \in {1, 2, 3, 4, 5, 6, 7, 8}
    OBVIOUS
  <1>10. {1, 2, 3, 4, 5, 6, 7, 8} \subseteq DOMAIN rows
    BY <1>8
  <1>11. \A f \in F : \E r \in DOMAIN rows : FollowsRow(f, rows[r])
    BY <1>2, <1>3, <1>4, <1>5, <1>8, <1>10
  <1>12. \A r \in DOMAIN rows : rows[r].presence = "optional" \/ \E f \in F : f.id = rows[r].id
    BY <1>2, <1>3, <1>6, <1>7, <1>8, <1>9
  <1>13. FieldsFollow("RICindication", F)
    BY <1>11, <1>12 DEF FieldsFollow, rows
  <1> QED
    BY <1>13 DEF F

LEMMA SubscriptionRequestFollows ==
  ASSUME NEW h
  PROVE  FieldsFollow("RICsubscriptionRequest",
                      Fields("subscription_request", "initiatingMessage", h))
  <1> DEFINE rows == Rows["RICsubscriptionRequest"]
             F == Fields("subscription_request", "initiatingMessage", h)
             r1 == IE(29, "reject", "RICrequestID", "mandatory")
             r2 == IE(5, "reject", "RANfunctionID", "mandatory")
             r3 == IE(30, "reject", "RICsubscriptionDetails", "mandatory")
  <1>1. rows = <<r1, r2, r3>>
    BY DEF Rows, RICsubscriptionRequest_IEs_rows
  <1>2. F = {RequestField(h), FunctionField(h), DetailsField(h)}
    BY DEF Fields
  <1>3. /\ FollowsRow(RequestField(h), r1) /\ FollowsRow(FunctionField(h), r2)
        /\ RequestField(h).id = 29 /\ FunctionField(h).id = 5
    BY CommonFollow
  <1>4. FollowsRow(DetailsField(h), r3)
    BY PlainFollows DEF DetailsField
  <1>5. DetailsField(h).id = 30
    BY FieldIds DEF DetailsField
  <1>6. r1.id = 29 /\ r2.id = 5 /\ r3.id = 30
    BY FieldIds
  <1> HIDE DEF r1, r2, r3, F
  <1>7. DOMAIN rows = 1 .. 3 /\ rows[1] = r1 /\ rows[2] = r2 /\ rows[3] = r3
    BY <1>1
  <1> HIDE DEF rows
  <1>8. \A r \in 1 .. 3 : r \in {1, 2, 3}
    OBVIOUS
  <1>9. \A f \in F : \E r \in DOMAIN rows : FollowsRow(f, rows[r])
    BY <1>2, <1>3, <1>4, <1>7
  <1>10. \A r \in DOMAIN rows : \E f \in F : f.id = rows[r].id
    BY <1>2, <1>3, <1>5, <1>6, <1>7, <1>8
  <1>11. FieldsFollow("RICsubscriptionRequest", F)
    BY <1>9, <1>10 DEF FieldsFollow, rows
  <1> QED
    BY <1>11 DEF F

\* The messages of the request to delete: of its failure the cause is left
\* out.
LEMMA DeleteFollows ==
  ASSUME NEW h, NEW message \in {"RICsubscriptionDeleteRequest", "RICsubscriptionDeleteResponse",
                                 "RICsubscriptionDeleteFailure"}
  PROVE  FieldsFollow(message, {RequestField(h), FunctionField(h)})
  <1> DEFINE rows == Rows[message]
             F == {RequestField(h), FunctionField(h)}
             r1 == IE(29, "reject", "RICrequestID", "mandatory")
             r2 == IE(5, "reject", "RANfunctionID", "mandatory")
             r3 == IE(1, "ignore", "Cause", "mandatory")
             r4 == IE(2, "ignore", "CriticalityDiagnostics", "optional")
  <1>1. IF message = "RICsubscriptionDeleteFailure" THEN rows = <<r1, r2, r3, r4>>
        ELSE rows = <<r1, r2>>
    BY DEF Rows, RICsubscriptionDeleteRequest_IEs_rows, RICsubscriptionDeleteResponse_IEs_rows,
           RICsubscriptionDeleteFailure_IEs_rows
  <1>2. /\ FollowsRow(RequestField(h), r1) /\ FollowsRow(FunctionField(h), r2)
        /\ RequestField(h).id = 29 /\ FunctionField(h).id = 5
    BY CommonFollow
  <1>3. /\ r1.id = 29 /\ r2.id = 5
        /\ r3.Value = "Cause" /\ r4.presence = "optional"
    BY FieldIds
  <1> HIDE DEF r1, r2, r3, r4
  <1>4. /\ rows[1] = r1 /\ rows[2] = r2 /\ 1 \in DOMAIN rows /\ 2 \in DOMAIN rows
        /\ \A r \in DOMAIN rows :
               \/ r = 1 \/ r = 2
               \/ message = "RICsubscriptionDeleteFailure" /\ (rows[r] = r3 \/ rows[r] = r4)
    <2>1. CASE message = "RICsubscriptionDeleteFailure"
      <3>1. rows = <<r1, r2, r3, r4>>
        BY <1>1, <2>1
      <3>2. /\ DOMAIN rows = 1 .. 4 /\ rows[1] = r1 /\ rows[2] = r2
            /\ rows[3] = r3 /\ rows[4] = r4
        BY <3>1
      <3> HIDE DEF rows
      <3>3. \A r \in 1 .. 4 : r \in {1, 2, 3, 4}
        OBVIOUS
      <3> QED
        BY <2>1, <3>2, <3>3
    <2>2. CASE message # "RICsubscriptionDeleteFailure"
      <3>1. rows = <<r1, r2>>
        BY <1>1, <2>2
      <3>2. DOMAIN rows = 1 .. 2 /\ rows[1] = r1 /\ rows[2] = r2
        BY <3>1
      <3> HIDE DEF rows
      <3> QED
        BY <3>2
    <2> QED
      BY <2>1, <2>2
  <1> HIDE DEF rows
  <1>5. \A f \in F : \E r \in DOMAIN rows : FollowsRow(f, rows[r])
    BY <1>2, <1>4
  <1>6. \A r \in DOMAIN rows :
            \/ rows[r].presence = "optional"
            \/ \E f \in F : f.id = rows[r].id
            \/ message = "RICsubscriptionDeleteFailure" /\ rows[r].Value = "Cause"
    BY <1>2, <1>3, <1>4
  <1> QED
    BY <1>5, <1>6 DEF FieldsFollow, rows

LEMMA ControlResponseFollows ==
  ASSUME NEW h, NEW o \in {"successfulOutcome", "unsuccessfulOutcome"}
  PROVE  FieldsFollow(IF o = "successfulOutcome" THEN "RICcontrolAcknowledge"
                      ELSE "RICcontrolFailure",
                      Fields("ric_control_response", o, h))
  <1> DEFINE message == IF o = "successfulOutcome" THEN "RICcontrolAcknowledge"
                        ELSE "RICcontrolFailure"
             rows == Rows[message]
             F == Fields("ric_control_response", o, h)
             status == Field(24, reject, Choice("RICcontrolStatus", h.control_status))
             cause == Field(1, ignore, Choice("Cause", CauseOf(h)))
             third == IF o = "successfulOutcome" THEN status ELSE cause
             r1 == IE(29, "reject", "RICrequestID", "mandatory")
             r2 == IE(5, "reject", "RANfunctionID", "mandatory")
             r3 == IE(20, "reject", "RICcallProcessID", "optional")
             r4 == IF o = "successfulOutcome" THEN IE(24, "reject", "RICcontrolStatus", "mandatory")
                   ELSE IE(1, "ignore", "Cause", "mandatory")
             r5 == IE(32, "reject", "RICcontrolOutcome", "optional")
  <1>1. rows = <<r1, r2, r3, r4, r5>>
    BY DEF Rows, RICcontrolAcknowledge_IEs_rows, RICcontrolFailure_IEs_rows
  <1>2. F = {RequestField(h), FunctionField(h), third}
    BY DEF Fields
  <1>3. /\ FollowsRow(RequestField(h), r1) /\ FollowsRow(FunctionField(h), r2)
        /\ RequestField(h).id = 29 /\ FunctionField(h).id = 5
    BY CommonFollow
  <1>4. FollowsRow(third, r4)
    <2>1. FollowsRow(status, IE(24, "reject", "RICcontrolStatus", "mandatory"))
      BY PlainFollows
    <2>2. FollowsRow(cause, IE(1, "ignore", "Cause", "mandatory"))
      BY CauseFollows
    <2> QED
      BY <2>1, <2>2
  <1>5. third.id = r4.id
    <2>1. status.id = 24 /\ cause.id = 1
      BY FieldIds
    <2>2. r4.id = IF o = "successfulOutcome" THEN 24 ELSE 1
      BY FieldIds
    <2> HIDE DEF status, cause, r4
    <2> QED
      BY <2>1, <2>2
  <1>6. r1.id = 29 /\ r2.id = 5 /\ r3.presence = "optional" /\ r5.presence = "optional"
    BY FieldIds
  <1> HIDE DEF r1, r2, r3, r4, r5, third, F
  <1>7. /\ DOMAIN rows = 1 .. 5 /\ rows[1] = r1 /\ rows[2] = r2 /\ rows[3] = r3
        /\ rows[4] = r4 /\ rows[5] = r5
    BY <1>1
  <1> HIDE DEF rows
  <1>8. \A r \in 1 .. 5 : r \in {1, 2, 3, 4, 5}
    OBVIOUS
  <1>9. \A f \in F : \E r \in DOMAIN rows : FollowsRow(f, rows[r])
    BY <1>2, <1>3, <1>4, <1>7
  <1>10. \A r \in DOMAIN rows : rows[r].presence = "optional" \/ \E f \in F : f.id = rows[r].id
    BY <1>2, <1>3, <1>5, <1>6, <1>7, <1>8
  <1>11. FieldsFollow(message, F)
    BY <1>9, <1>10 DEF FieldsFollow, rows
  <1> QED
    BY <1>11 DEF F

LEMMA ResponseFollows ==
  FieldsFollow("RICsubscriptionResponse", Fields("subscription_response", "successfulOutcome", given))
  <1> DEFINE rows == Rows["RICsubscriptionResponse"]
             F == Fields("subscription_response", "successfulOutcome", given)
             r1 == IE(29, "reject", "RICrequestID", "mandatory")
             r2 == IE(5, "reject", "RANfunctionID", "mandatory")
             r3 == IE(17, "reject", "RICaction_Admitted_List", "mandatory")
             r4 == IE(18, "reject", "RICaction_NotAdmitted_List", "optional")
  <1>1. rows = <<r1, r2, r3, r4>>
    BY DEF Rows, RICsubscriptionResponse_IEs_rows
  <1>2. /\ F \subseteq {RequestField(given), FunctionField(given), AdmittedField(given),
                        NotAdmittedField(given)}
        /\ {RequestField(given), FunctionField(given), AdmittedField(given)} \subseteq F
    BY DEF Fields
  <1>3. /\ FollowsRow(RequestField(given), r1) /\ FollowsRow(FunctionField(given), r2)
        /\ RequestField(given).id = 29 /\ FunctionField(given).id = 5
    BY CommonFollow
  <1>4. FollowsRow(AdmittedField(given), r3) /\ AdmittedField(given).id = 17
    <2> DEFINE none == given.admitted = <<>>
               items == AdmittedItems(given)
    <2>1. none \in BOOLEAN /\ (none => EmptyList("RICaction_Admitted_List"))
      BY DEF EmptyList
    <2>2. AdmittedField(given) = Field(17, reject, IF none THEN <<>>
              ELSE Choice("RICaction_Admitted_List", items))
      BY DEF AdmittedField
    <2> HIDE DEF none, items
    <2>3. AdmittedField(given).id = 17
      BY <2>2, FieldIds
    <2>4. FollowsRow(AdmittedField(given), r3)
      BY <2>1, <2>2, ListFollows
    <2> QED
      BY <2>3, <2>4
  <1>5. FollowsRow(NotAdmittedField(given), r4)
    <2> DEFINE none == given.not_admitted = <<>>
    <2>1. none \in BOOLEAN /\ (none => EmptyList("RICaction_NotAdmitted_List"))
      BY DEF EmptyList
    <2>2. NotAdmittedField(given) = Field(18, reject, IF none THEN <<>>
              ELSE Choice("RICaction_NotAdmitted_List", NotAdmittedItems(given)))
      BY DEF NotAdmittedField
    <2> HIDE DEF none
    <2> QED
      BY <2>1, <2>2, ListFollows
  <1>6. r1.id = 29 /\ r2.id = 5 /\ r3.id = 17 /\ r4.presence = "optional"
    BY FieldIds
  <1> HIDE DEF r1, r2, r3, r4, F
  <1>7. /\ DOMAIN rows = 1 .. 4 /\ rows[1] = r1 /\ rows[2] = r2 /\ rows[3] = r3 /\ rows[4] = r4
    BY <1>1
  <1> HIDE DEF rows
  <1>8. \A r \in 1 .. 4 : r \in {1, 2, 3, 4}
    OBVIOUS
  <1>9. \A f \in F : \E r \in DOMAIN rows : FollowsRow(f, rows[r])
    BY <1>2, <1>3, <1>4, <1>5, <1>7
  <1>10. \A r \in DOMAIN rows : rows[r].presence = "optional" \/ \E f \in F : f.id = rows[r].id
    BY <1>2, <1>3, <1>4, <1>6, <1>7, <1>8
  <1>11. FieldsFollow("RICsubscriptionResponse", F)
    BY <1>9, <1>10 DEF FieldsFollow, rows
  <1> QED
    BY <1>11 DEF F

LEMMA FailureFollows ==
  FieldsFollow("RICsubscriptionFailure", Fields("subscription_response", "unsuccessfulOutcome", given))
  <1> DEFINE rows == Rows["RICsubscriptionFailure"]
             F == Fields("subscription_response", "unsuccessfulOutcome", given)
             whole == KnownCauses(given.not_admitted)
             r1 == IE(29, "reject", "RICrequestID", "mandatory")
             r2 == IE(5, "reject", "RANfunctionID", "mandatory")
             r3 == IE(18, "reject", "RICaction_NotAdmitted_List", "mandatory")
             r4 == IE(2, "ignore", "CriticalityDiagnostics", "optional")
  <1>1. rows = <<r1, r2, r3, r4>>
    BY DEF Rows, RICsubscriptionFailure_IEs_rows
  <1>2. /\ F \subseteq {RequestField(given), FunctionField(given), NotAdmittedField(given)}
        /\ {RequestField(given), FunctionField(given)} \subseteq F
        /\ whole => NotAdmittedField(given) \in F
    BY DEF Fields
  <1>3. /\ FollowsRow(RequestField(given), r1) /\ FollowsRow(FunctionField(given), r2)
        /\ RequestField(given).id = 29 /\ FunctionField(given).id = 5
    BY CommonFollow
  <1>4. FollowsRow(NotAdmittedField(given), r3) /\ NotAdmittedField(given).id = 18
    <2> DEFINE none == given.not_admitted = <<>>
    <2>1. none \in BOOLEAN /\ (none => EmptyList("RICaction_NotAdmitted_List"))
      BY DEF EmptyList
    <2>2. NotAdmittedField(given) = Field(18, reject, IF none THEN <<>>
              ELSE Choice("RICaction_NotAdmitted_List", NotAdmittedItems(given)))
      BY DEF NotAdmittedField
    <2> HIDE DEF none
    <2> QED
      BY <2>1, <2>2, ListFollows, FieldIds
  <1>5. r1.id = 29 /\ r2.id = 5 /\ r3.id = 18 /\ r4.presence = "optional"
    BY FieldIds
  <1> HIDE DEF r1, r2, r3, r4, F
  <1>6. /\ DOMAIN rows = 1 .. 4 /\ rows[1] = r1 /\ rows[2] = r2 /\ rows[3] = r3 /\ rows[4] = r4
    BY <1>1
  <1> HIDE DEF rows
  <1>7. \A r \in 1 .. 4 : r \in {1, 2, 3, 4}
    OBVIOUS
  <1>8. \A f \in F : \E r \in DOMAIN rows : FollowsRow(f, rows[r])
    BY <1>2, <1>3, <1>4, <1>6
  <1>9. \A r \in DOMAIN rows : rows[r].presence = "optional" \/ (\E f \in F : f.id = rows[r].id)
                               \/ ~whole
    BY <1>2, <1>3, <1>4, <1>5, <1>6, <1>7
  <1>10. FieldsFollow("RICsubscriptionFailure", F)
    BY <1>8, <1>9 DEF FieldsFollow, rows
  <1> QED
    BY <1>10 DEF F

-----------------------------------------------------------------------------
(* The object that has been used.                                          *)

\* What is known of the last use, and of the message.
LastUse ==
    Alive /\ uses > 0 =>
        /\ class \in Classes
        /\ outcome \in DOMAIN Headings[class]
        /\ given \in Helpers[class]
        /\ MadeOf(ProtocolIEs(object, outcome), Fields(class, outcome, given))

LEMMA InitLastUse == ObjectInit => LastUse
  BY DEF ObjectInit, NotUsed, LastUse

LEMMA StepLastUse == ObjectInv /\ LastUse /\ [ObjectNext]_memory => LastUse'
  <1> SUFFICES ASSUME ObjectInv, LastUse, [ObjectNext]_memory
               PROVE  LastUse'
    OBVIOUS
  <1>1. ASSUME Alive, NEW o \in DOMAIN Headings[class], NEW h \in Helpers[class], Use(o, h)
        PROVE  LastUse'
    <2>1. class \in Classes /\ Shape(class, object)
      BY <1>1 DEF ObjectInv
    <2>2. /\ object' = set_fields(class, object, o, h)
          /\ class' = class /\ outcome' = o /\ given' = h
      BY <1>1 DEF Use
    <2>3. MadeOf(ProtocolIEs(object', o), Fields(class, o, h))
      BY <2>1, <2>2, MessageMadeOf
    <2> QED
      BY <2>1, <2>2, <2>3 DEF LastUse
  <1>2. CASE DestroyObject
    <2>1. object' = Destroyed(object.subsequent - Freed(object))
      BY <1>2 DEF DestroyObject
    <2>2. ~Alive'
      BY <2>1 DEF Destroyed, Alive
    <2> QED
      BY <2>2 DEF LastUse
  <1>3. CASE UNCHANGED memory
    BY <1>3 DEF memory, Alive, LastUse
  <1>4. CASE \E o \in (IF class = "peer" THEN {} ELSE DOMAIN Headings[class]) :
                 \E h \in Helpers[class] : Use(o, h)
    <2>1. PICK o \in DOMAIN Headings[class] : \E h \in Helpers[class] : Use(o, h)
      BY <1>4
    <2>2. PICK h \in Helpers[class] : Use(o, h)
      BY <2>1
    <2>3. Alive
      BY <2>2 DEF Use
    <2> QED
      BY <1>1, <2>2, <2>3
  <1> QED
    BY <1>2, <1>3, <1>4 DEF ObjectNext

LEMMA LastUseInvariance == ObjectSpec => [](ObjectInv /\ LastUse)
  <1>1. ObjectInit => ObjectInv /\ SentIsOfThisUse /\ LastUse
    BY InitObjectInv, InitLastUse
  <1>2. ObjectInv /\ SentIsOfThisUse /\ LastUse /\ [ObjectNext]_memory
            => (ObjectInv /\ SentIsOfThisUse /\ LastUse)'
    BY StepObjectInv, StepLastUse
  <1> QED
    BY <1>1, <1>2, PTL DEF ObjectSpec

\* What the tables ask of the fields is asked of a message made of them.
LEMMA MadeOfFollows ==
  ASSUME NEW ies, NEW F, NEW message, MadeOf(ies, F), FieldsFollow(message, F)
  PROVE  LET rows == Rows[message]
         IN /\ \A k \in DOMAIN ies :
                /\ \E r \in DOMAIN rows : FollowsRow(ies[k], rows[r])
                /\ \A l \in DOMAIN ies : ies[l].id = ies[k].id => l = k
            /\ \A r \in DOMAIN rows :
                   \/ rows[r].presence = "optional"
                   \/ \E k \in DOMAIN ies : ies[k].id = rows[r].id
                   \/ message = "RICsubscriptionDeleteFailure" /\ rows[r].Value = "Cause"
                   \/ message = "RICsubscriptionFailure" /\ ~KnownCauses(given.not_admitted)
  <1> DEFINE rows == Rows[message]
  <1> HIDE DEF rows
  <1>1. /\ \A f \in F : \E r \in DOMAIN rows : FollowsRow(f, rows[r])
        /\ \A r \in DOMAIN rows :
               \/ rows[r].presence = "optional"
               \/ \E f \in F : f.id = rows[r].id
               \/ message = "RICsubscriptionDeleteFailure" /\ rows[r].Value = "Cause"
               \/ message = "RICsubscriptionFailure" /\ ~KnownCauses(given.not_admitted)
    BY DEF FieldsFollow, rows
  <1>2. /\ \A k \in DOMAIN ies :
               /\ \E r \in DOMAIN rows : FollowsRow(ies[k], rows[r])
               /\ \A l \in DOMAIN ies : ies[l].id = ies[k].id => l = k
        /\ \A r \in DOMAIN rows : (\E f \in F : f.id = rows[r].id)
                                      => \E k \in DOMAIN ies : ies[k].id = rows[r].id
    BY <1>1 DEF MadeOf
  <1> QED
    BY <1>1, <1>2 DEF rows

\* Whatever it was used for before, and however set_fields ended, an object
\* never holds a message with an element twice, with one its table in
\* ProtocolIE-Field.c has no row for, or under another id, criticality or
\* alternative than the row's; and only the two mandatory elements the code
\* leaves out can be missing (set_fields of the classes of xapp-asn/e2ap).
THEOREM MessagesFollowTables == ObjectSpec => []SentFollowsTables
  <1>1. ASSUME LastUse, Alive, uses > 0
        PROVE  FieldsFollow(Headings[class][outcome].message, Fields(class, outcome, given))
    <2>1. /\ class \in {"subscription_request", "subscription_response", "subscription_delete",
                        "subscription_delete_response", "ric_control_request",
                        "ric_control_response", "ric_indication"}
          /\ outcome \in DOMAIN Headings[class]
      BY <1>1 DEF LastUse, Classes, Headings
    <2>2. CASE class = "subscription_request"
      <3>1. outcome = "initiatingMessage"
            /\ Headings[class][outcome].message = "RICsubscriptionRequest"
        BY <2>1, <2>2 DEF Headings, Heading
      <3> QED
        BY <2>2, <3>1, SubscriptionRequestFollows
    <2>3. CASE class = "subscription_response"
      <3>1. \/ /\ outcome = "successfulOutcome"
               /\ Headings[class][outcome].message = "RICsubscriptionResponse"
            \/ /\ outcome = "unsuccessfulOutcome"
               /\ Headings[class][outcome].message = "RICsubscriptionFailure"
        BY <2>1, <2>3 DEF Headings, Heading
      <3> QED
        BY <2>3, <3>1, ResponseFollows, FailureFollows
    <2>4. CASE class = "subscription_delete"
      <3>1. Headings[class][outcome].message = "RICsubscriptionDeleteRequest"
        BY <2>1, <2>4 DEF Headings, Heading
      <3>2. Fields(class, outcome, given) = {RequestField(given), FunctionField(given)}
        BY <2>4 DEF Fields
      <3> QED
        BY <3>1, <3>2, DeleteFollows
    <2>5. CASE class = "subscription_delete_response"
      <3>1. Headings[class][outcome].message \in {"RICsubscriptionDeleteResponse",
                                                  "RICsubscriptionDeleteFailure"}
        BY <2>1, <2>5 DEF Headings, Heading
      <3>2. Fields(class, outcome, given) = {RequestField(given), FunctionField(given)}
        BY <2>5 DEF Fields
      <3> QED
        BY <3>1, <3>2, DeleteFollows
    <2>6. CASE class = "ric_control_request"
      <3>1. outcome = "initiatingMessage"
            /\ Headings[class][outcome].message = "RICcontrolRequest"
        BY <2>1, <2>6 DEF Headings, Heading
      <3> QED
        BY <2>6, <3>1, ControlRequestFollows
    <2>7. CASE class = "ric_control_response"
      <3>1. /\ outcome \in {"successfulOutcome", "unsuccessfulOutcome"}
            /\ Headings[class][outcome].message = IF outcome = "successfulOutcome"
                                                  THEN "RICcontrolAcknowledge"
                                                  ELSE "RICcontrolFailure"
        BY <2>1, <2>7 DEF Headings, Heading
      <3> QED
        BY <2>7, <3>1, ControlResponseFollows
    <2>8. CASE class = "ric_indication"
      <3>1. outcome = "initiatingMessage"
            /\ Headings[class][outcome].message = "RICindication"
        BY <2>1, <2>8 DEF Headings, Heading
      <3> QED
        BY <2>8, <3>1, IndicationFollows
    <2> QED
      BY <2>1, <2>2, <2>3, <2>4, <2>5, <2>6, <2>7, <2>8
  <1>2. LastUse => SentFollowsTables
    <2> SUFFICES ASSUME LastUse, Alive, uses > 0
                 PROVE  LET message == Headings[class][outcome].message
                            ies == ProtocolIEs(object, outcome)
                            rows == Rows[message]
                        IN /\ \A k \in DOMAIN ies :
                               /\ \E r \in DOMAIN rows : FollowsRow(ies[k], rows[r])
                               /\ \A l \in DOMAIN ies : ies[l].id = ies[k].id => l = k
                           /\ \A r \in DOMAIN rows :
                                  \/ rows[r].presence = "optional"
                                  \/ \E k \in DOMAIN ies : ies[k].id = rows[r].id
                                  \/ /\ message = "RICsubscriptionDeleteFailure"
                                     /\ rows[r].Value = "Cause"
                                  \/ /\ message = "RICsubscriptionFailure"
                                     /\ ~KnownCauses(given.not_admitted)
      BY DEF SentFollowsTables
    <2> DEFINE message == Headings[class][outcome].message
               ies == ProtocolIEs(object, outcome)
               F == Fields(class, outcome, given)
    <2>1. MadeOf(ies, F) /\ FieldsFollow(message, F)
      BY <1>1 DEF LastUse
    <2> HIDE DEF message, ies, F
    <2> QED
      BY <2>1, MadeOfFollows DEF message, ies
  <1> QED
    BY <1>2, LastUseInvariance, PTL

-----------------------------------------------------------------------------
(* What get_fields reads.                                                  *)

\* What is in the field with an id, of a message that has it.
LEMMA ContentIs ==
  ASSUME NEW ies, NEW F, MadeOf(ies, F), NEW id, NEW criticality, NEW name, NEW content,
         Field(id, criticality, Choice(name, content)) \in F, NEW otherwise
  PROVE  Content(ies, id, name, otherwise) = content
  <1> DEFINE value == Choice(name, content)
             f == Field(id, criticality, value)
             found == {k \in DOMAIN ies : ies[k].id = id /\ name \in DOMAIN ies[k].value}
             last == CHOOSE k \in found : \A l \in found : l <= k
  <1>1. f.id = id /\ f.value = value
    BY DEF Field
  <1>2. name \in DOMAIN value /\ value[name] = content
    BY DEF Choice
  <1>3. f \in F
    OBVIOUS
  <1> HIDE DEF f, value
  <1>4. PICK k \in DOMAIN ies : ies[k] = f
    BY <1>3 DEF MadeOf
  <1>5. found = {k} /\ k \in Nat
    BY <1>1, <1>2, <1>4 DEF MadeOf
  <1> HIDE DEF found
  <1>6. last = k
    <2>1. \E i \in found : \A l \in found : l <= i
      BY <1>5
    <2>2. last \in found
      BY <2>1
    <2> HIDE DEF last
    <2> QED
      BY <1>5, <2>2
  <1>7. found # {}
    BY <1>5
  <1>8. Content(ies, id, name, otherwise) = ies[last].value[name]
    BY <1>7 DEF Content, found
  <1> HIDE DEF last
  <1> QED
    BY <1>1, <1>2, <1>4, <1>6, <1>8

\* Of a message that does not have it, the value of the constructor stands.
LEMMA ContentMissing ==
  ASSUME NEW ies, NEW F, MadeOf(ies, F), NEW id, NEW name,
         \A f \in F : f.id = id => name \notin DOMAIN f.value, NEW otherwise
  PROVE  Content(ies, id, name, otherwise) = otherwise
  <1>1. {k \in DOMAIN ies : ies[k].id = id /\ name \in DOMAIN ies[k].value} = {}
    BY DEF MadeOf
  <1> QED
    BY <1>1 DEF Content

\* The request and the function are in every message.
LEMMA CommonRead ==
  ASSUME NEW ies, NEW F, MadeOf(ies, F), NEW h, {RequestField(h), FunctionField(h)} \subseteq F
  PROVE  func_id(ies) = h.func_id /\ req_id(ies) = h.req_id
  <1>1. func_id(ies) = h.func_id
    <2>1. Field(5, reject, Choice("RANfunctionID", h.func_id)) \in F
      BY DEF FunctionField
    <2> QED
      BY <2>1, ContentIs DEF func_id
  <1>2. req_id(ies) = h.req_id
    <2> DEFINE request == [ricRequestorID |-> h.req_id, ricInstanceID |-> 0]
               otherwise == [ricRequestorID |-> 1]
    <2>1. Field(29, reject, Choice("RICrequestID", request)) \in F
      BY DEF RequestField
    <2>2. request.ricRequestorID = h.req_id
      OBVIOUS
    <2>3. req_id(ies) = Content(ies, 29, "RICrequestID", otherwise).ricRequestorID
      BY DEF req_id
    <2> HIDE DEF request, otherwise
    <2>4. Content(ies, 29, "RICrequestID", otherwise) = request
      BY <2>1, ContentIs
    <2> QED
      BY <2>2, <2>3, <2>4
  <1> QED
    BY <1>1, <1>2

\* A cause and what is in it can be told from its value.
LEMMA CauseRead ==
  ASSUME NEW h, h.cause \in DOMAIN Causes_PR
  PROVE  CauseIn(CauseOf(h)) = h.cause /\ SubCauseIn(CauseOf(h)) = h.sub_cause
  <1> DEFINE name == Causes_PR[h.cause]
             value == Choice(name, h.sub_cause)
  <1>1. CauseOf(h) = value
    BY DEF CauseOf
  <1>2. DOMAIN value = {name} /\ value[name] = h.sub_cause
    BY DEF Choice
  <1>3. \A i, j \in DOMAIN Causes_PR : Causes_PR[i] = Causes_PR[j] => i = j
    BY DEF Causes_PR
  <1> HIDE DEF value
  <1>4. (CHOOSE c \in DOMAIN Causes_PR : Causes_PR[c] \in DOMAIN value) = h.cause
    BY <1>2, <1>3
  <1> QED
    BY <1>1, <1>2, <1>4 DEF CauseIn, SubCauseIn

\* With causes that are all known, no action is left out.
LEMMA AllBeforeUnknown ==
  ASSUME NEW actions, IsList(actions), KnownCauses(actions)
  PROVE  BeforeUnknown(actions) = actions
  <1> DEFINE known == {n \in 0 .. Len(actions) : KnownCauses(SubSeq(actions, 1, n))}
             n == CHOOSE i \in known : \A m \in known : m <= i
  <1>1. PICK S : actions \in Seq(S)
    BY DEF IsList
  <1>2. Len(actions) \in Nat /\ SubSeq(actions, 1, Len(actions)) = actions
    <2>1. Len(actions) \in Nat /\ DOMAIN actions = 1 .. Len(actions)
      BY <1>1
    <2>2. /\ SubSeq(actions, 1, Len(actions)) \in Seq(S)
          /\ Len(SubSeq(actions, 1, Len(actions))) = Len(actions)
          /\ \A i \in 1 .. Len(actions) : SubSeq(actions, 1, Len(actions))[i] = actions[i]
      BY <1>1, <2>1
    <2> QED
      BY <1>1, <2>1, <2>2, SeqEqual
  <1>3. Len(actions) \in known /\ \A m \in known : m \in 0 .. Len(actions)
    <2>1. Len(actions) \in 0 .. Len(actions)
      BY <1>2
    <2>2. KnownCauses(SubSeq(actions, 1, Len(actions)))
      BY <1>2
    <2> QED
      BY <2>1, <2>2
  <1> HIDE DEF known
  <1>4. n \in known /\ \A m \in known : m <= n
    <2>1. \E i \in known : \A m \in known : m <= i
      BY <1>2, <1>3
    <2> QED
      BY <2>1
  <1>5. n = Len(actions)
    BY <1>2, <1>3, <1>4
  <1>6. BeforeUnknown(actions) = SubSeq(actions, 1, n)
    BY DEF BeforeUnknown, known
  <1> QED
    BY <1>2, <1>5, <1>6

\* The lists of actions, from the items that were made of them.
LEMMA NotAdmittedIsRead ==
  ASSUME NEW ies, NEW F, MadeOf(ies, F), NEW h, IsList(h.not_admitted), KnownCauses(h.not_admitted),
         h.not_admitted # <<>>, NotAdmittedField(h) \in F,
         \A i \in DOMAIN h.not_admitted :
             LET action == h.not_admitted[i]
             IN  action = [id |-> action.id, cause |-> action.cause, sub_cause |-> action.sub_cause]
  PROVE  NotAdmittedRead(ies) = h.not_admitted
  <1> DEFINE actions == h.not_admitted
             list == NotAdmittedItems(h)
             item(i) == list[i].value.RICaction_NotAdmitted_Item
             read == [i \in DOMAIN list |->
                         [id |-> item(i).ricActionID, cause |-> CauseIn(item(i).cause),
                          sub_cause |-> SubCauseIn(item(i).cause)]]
  <1>1. Field(18, reject, Choice("RICaction_NotAdmitted_List", list)) \in F
    BY DEF NotAdmittedField
  <1>2. BeforeUnknown(actions) = actions
    BY AllBeforeUnknown
  <1>3. DOMAIN list = DOMAIN actions
    BY <1>2 DEF NotAdmittedItems
  <1>4. ASSUME NEW i \in DOMAIN actions
        PROVE  item(i).ricActionID = actions[i].id /\ item(i).cause = CauseOf(actions[i])
    <2> DEFINE content == [ricActionID |-> actions[i].id, cause |-> CauseOf(actions[i])]
               value == Choice("RICaction_NotAdmitted_Item", content)
    <2>1. list[i] = ItemField(16, "RICaction_NotAdmitted_Item", content)
      BY <1>2 DEF NotAdmittedItems
    <2>2. content.ricActionID = actions[i].id /\ content.cause = CauseOf(actions[i])
      OBVIOUS
    <2> HIDE DEF content
    <2>3. value.RICaction_NotAdmitted_Item = content
      BY DEF Choice
    <2> HIDE DEF list
    <2>4. list[i].value = value
      BY <2>1 DEF ItemField
    <2> QED
      BY <2>2, <2>3, <2>4
  <1>5. ASSUME NEW i \in DOMAIN actions
        PROVE  CauseIn(CauseOf(actions[i])) = actions[i].cause
               /\ SubCauseIn(CauseOf(actions[i])) = actions[i].sub_cause
    <2>1. actions[i].cause \in DOMAIN Causes_PR
      BY DEF KnownCauses
    <2> QED
      BY <2>1, CauseRead
  <1>6. NotAdmittedRead(ies) = read
    <2> HIDE DEF list
    <2>1. Content(ies, 18, "RICaction_NotAdmitted_List", <<>>) = list
      BY <1>1, ContentIs
    <2> QED
      BY <2>1 DEF NotAdmittedRead
  <1> HIDE DEF list
  <1>7. /\ DOMAIN read = DOMAIN actions
        /\ \A i \in DOMAIN actions : read[i] = actions[i]
    BY <1>3, <1>4, <1>5
  <1>8. actions = [i \in DOMAIN actions |-> actions[i]]
    <2>1. PICK S : actions \in Seq(S)
      BY DEF IsList
    <2> QED
      BY <2>1
  <1>9. read = [i \in DOMAIN actions |-> actions[i]]
    BY <1>3, <1>7
  <1> QED
    BY <1>6, <1>8, <1>9

LEMMA EmptyRead ==
  ASSUME NEW ies, NEW F, MadeOf(ies, F)
  PROVE  /\ (\A f \in F : f.id = 18 => "RICaction_NotAdmitted_List" \notin DOMAIN f.value)
                => NotAdmittedRead(ies) = <<>>
         /\ (\A f \in F : f.id = 17 => "RICaction_Admitted_List" \notin DOMAIN f.value)
                => AdmittedRead(ies) = <<>>
  <1>1. ASSUME \A f \in F : f.id = 18 => "RICaction_NotAdmitted_List" \notin DOMAIN f.value
        PROVE  NotAdmittedRead(ies) = <<>>
    <2>1. Content(ies, 18, "RICaction_NotAdmitted_List", <<>>) = <<>>
      BY <1>1, ContentMissing
    <2> QED
      BY <2>1 DEF NotAdmittedRead
  <1>2. ASSUME \A f \in F : f.id = 17 => "RICaction_Admitted_List" \notin DOMAIN f.value
        PROVE  AdmittedRead(ies) = <<>>
    <2>1. Content(ies, 17, "RICaction_Admitted_List", <<>>) = <<>>
      BY <1>2, ContentMissing
    <2> QED
      BY <2>1 DEF AdmittedRead
  <1> QED
    BY <1>1, <1>2

LEMMA AdmittedIsRead ==
  ASSUME NEW ies, NEW F, MadeOf(ies, F), NEW h, IsList(h.admitted), h.admitted # <<>>,
         AdmittedField(h) \in F
  PROVE  AdmittedRead(ies) = h.admitted
  <1> DEFINE admitted == h.admitted
             list == AdmittedItems(h)
             read == [i \in DOMAIN list |-> list[i].value.RICaction_Admitted_Item.ricActionID]
  <1>1. Field(17, reject, Choice("RICaction_Admitted_List", list)) \in F
    BY DEF AdmittedField
  <1>2. DOMAIN list = DOMAIN admitted
    BY DEF AdmittedItems
  <1>3. ASSUME NEW i \in DOMAIN admitted
        PROVE  list[i].value.RICaction_Admitted_Item.ricActionID = admitted[i]
    <2> DEFINE content == [ricActionID |-> admitted[i]]
               value == Choice("RICaction_Admitted_Item", content)
    <2>1. list[i] = ItemField(14, "RICaction_Admitted_Item", content)
      BY DEF AdmittedItems
    <2>2. content.ricActionID = admitted[i]
      OBVIOUS
    <2> HIDE DEF content
    <2>3. value.RICaction_Admitted_Item = content
      BY DEF Choice
    <2> HIDE DEF list
    <2>4. list[i].value = value
      BY <2>1 DEF ItemField
    <2> QED
      BY <2>2, <2>3, <2>4
  <1>4. AdmittedRead(ies) = read
    <2> HIDE DEF list
    <2>1. Content(ies, 17, "RICaction_Admitted_List", <<>>) = list
      BY <1>1, ContentIs
    <2> QED
      BY <2>1 DEF AdmittedRead
  <1> HIDE DEF list
  <1>5. admitted = [i \in DOMAIN admitted |-> admitted[i]]
    <2>1. PICK S : admitted \in Seq(S)
      BY DEF IsList
    <2> QED
      BY <2>1
  <1>6. read = [i \in DOMAIN admitted |-> admitted[i]]
    BY <1>2, <1>3
  <1> QED
    BY <1>4, <1>5, <1>6

-----------------------------------------------------------------------------
(* The classes, of the last helper.                                        *)

LEMMA SubscriptionRequestRead ==
  ASSUME NEW ies, MadeOf(ies, Fields("subscription_request", "initiatingMessage", given))
  PROVE  AsGiven(subscription_request_get_fields(ies))
  <1> DEFINE F == Fields("subscription_request", "initiatingMessage", given)
             read == subscription_request_get_fields(ies)
             content == [ricEventTriggerDefinition |-> given.event_def,
                         ricAction_ToBeSetup_List |-> ActionsToBeSetup(given)]
             otherwise == [ricEventTriggerDefinition |-> <<>>, ricAction_ToBeSetup_List |-> <<>>]
  <1>1. /\ {RequestField(given), FunctionField(given)} \subseteq F
        /\ Field(30, reject, Choice("RICsubscriptionDetails", content)) \in F
    BY DEF Fields, DetailsField
  <1> HIDE DEF F
  <1>2. func_id(ies) = given.func_id
    BY <1>1, CommonRead DEF F
  <1>3. content.ricEventTriggerDefinition = given.event_def
    OBVIOUS
  <1>4. /\ DOMAIN read = {"func_id", "event_def", "actions"}
        /\ read.func_id = func_id(ies)
        /\ read.event_def
               = Content(ies, 30, "RICsubscriptionDetails", otherwise).ricEventTriggerDefinition
    BY DEF subscription_request_get_fields
  <1> HIDE DEF content, otherwise, read
  <1>5. Content(ies, 30, "RICsubscriptionDetails", otherwise) = content
    BY <1>1, ContentIs DEF F
  <1>6. AsGiven(read)
    BY <1>2, <1>3, <1>4, <1>5 DEF AsGiven
  <1> QED
    BY <1>6 DEF read

LEMMA DeleteRead ==
  ASSUME NEW ies, MadeOf(ies, {RequestField(given), FunctionField(given)})
  PROVE  AsGiven([func_id |-> func_id(ies)])
  <1>1. func_id(ies) = given.func_id
    BY CommonRead
  <1> DEFINE read == [func_id |-> func_id(ies)]
  <1>2. DOMAIN read = {"func_id"} /\ read.func_id = given.func_id
    BY <1>1
  <1> HIDE DEF read
  <1>3. AsGiven(read)
    BY <1>2 DEF AsGiven
  <1> QED
    BY <1>3 DEF read

LEMMA ControlRequestRead ==
  ASSUME given \in Helpers["ric_control_request"], NEW ies,
         MadeOf(ies, Fields("ric_control_request", "initiatingMessage", given))
  PROVE  AsGiven(ric_control_request_get_fields(ies))
  <1> DEFINE F == Fields("ric_control_request", "initiatingMessage", given)
             header == Field(22, reject, Choice("RICcontrolHeader", given.control_header))
             message == Field(23, reject, Choice("RICcontrolMessage", given.control_msg))
             ack == Field(21, reject, Choice("RICcontrolAckRequest", given.control_ack))
             process == Field(20, reject, Choice("RICcallProcessID", given.call_process_id))
             called == Len(given.call_process_id) > 0
             read == ric_control_request_get_fields(ies)
  <1>1. /\ {RequestField(given), FunctionField(given), header, message} \subseteq F
        /\ Asked(given) => ack \in F
        /\ called => process \in F
        /\ F \subseteq {RequestField(given), FunctionField(given), header, message}
                       \cup (IF Asked(given) THEN {ack} ELSE {})
                       \cup (IF called THEN {process} ELSE {})
    BY DEF Fields, ProcessField
  <1>2. /\ RequestField(given).id = 29 /\ FunctionField(given).id = 5
        /\ header.id = 22 /\ message.id = 23 /\ ack.id = 21 /\ process.id = 20
    BY FieldIds DEF RequestField, FunctionField
  <1>3. /\ given.control_ack \in Int
        /\ ~called => given.call_process_id = <<>>
    <2>1. given.control_ack \in Int /\ IsList(given.call_process_id)
      BY ReadHelpersAssumption
    <2>2. PICK S : given.call_process_id \in Seq(S)
      BY <2>1 DEF IsList
    <2> QED
      BY <2>1, <2>2
  <1>4. /\ DOMAIN read = {"func_id", "req_id", "control_header", "control_msg", "call_process_id",
                          "control_ack"}
        /\ read.func_id = func_id(ies) /\ read.req_id = req_id(ies)
        /\ read.control_header = Content(ies, 22, "RICcontrolHeader", <<>>)
        /\ read.control_msg = Content(ies, 23, "RICcontrolMessage", <<>>)
        /\ read.call_process_id = Content(ies, 20, "RICcallProcessID", <<>>)
        /\ read.control_ack = Content(ies, 21, "RICcontrolAckRequest", -1)
    BY DEF ric_control_request_get_fields, call_process_id
  <1>5. /\ header \in F => Content(ies, 22, "RICcontrolHeader", <<>>) = given.control_header
        /\ message \in F => Content(ies, 23, "RICcontrolMessage", <<>>) = given.control_msg
    BY ContentIs
  <1>6. /\ ack \in F => Content(ies, 21, "RICcontrolAckRequest", -1) = given.control_ack
        /\ process \in F => Content(ies, 20, "RICcallProcessID", <<>>) = given.call_process_id
    BY ContentIs
  <1> HIDE DEF F, header, message, ack, process, called, read
  <1>7. func_id(ies) = given.func_id /\ req_id(ies) = given.req_id
    BY <1>1, CommonRead DEF F
  <1>8. ~Asked(given) => Content(ies, 21, "RICcontrolAckRequest", -1) = -1
    <2>1. ~Asked(given) => \A f \in F : f.id # 21
      BY <1>1, <1>2
    <2> QED
      BY <2>1, ContentMissing DEF F
  <1>9. ~called => Content(ies, 20, "RICcallProcessID", <<>>) = <<>>
    <2>1. ~called => \A f \in F : f.id # 20
      BY <1>1, <1>2
    <2> QED
      BY <2>1, ContentMissing DEF F
  <1>10. /\ read.control_header = given.control_header /\ read.control_msg = given.control_msg
         /\ read.func_id = given.func_id /\ read.req_id = given.req_id
    BY <1>1, <1>4, <1>5, <1>7
  <1>11. read.call_process_id = given.call_process_id
    BY <1>1, <1>3, <1>4, <1>6, <1>9
  <1>12. \/ read.control_ack = given.control_ack
         \/ given.control_ack < 0 /\ read.control_ack = -1
    BY <1>1, <1>3, <1>4, <1>6, <1>8 DEF Asked
  <1>13. AsGiven(read)
    BY <1>4, <1>10, <1>11, <1>12 DEF AsGiven
  <1> QED
    BY <1>13 DEF read

LEMMA ControlResponseRead ==
  ASSUME class = "ric_control_response", NEW o \in {"successfulOutcome", "unsuccessfulOutcome"},
         Settable(class, o, given), NEW ies,
         MadeOf(ies, Fields("ric_control_response", o, given))
  PROVE  AsGiven(ric_control_response_get_fields(o, ies))
  <1> DEFINE F == Fields("ric_control_response", o, given)
             read == ric_control_response_get_fields(o, ies)
  <1>1. {RequestField(given), FunctionField(given)} \subseteq F
    BY DEF Fields
  <1>2. func_id(ies) = given.func_id /\ req_id(ies) = given.req_id
    <2> HIDE DEF F
    <2> QED
      BY <1>1, CommonRead DEF F
  <1>3. CASE o = "successfulOutcome"
    <2>1. /\ DOMAIN read = {"func_id", "req_id", "call_process_id", "control_status"}
          /\ read.func_id = func_id(ies) /\ read.req_id = req_id(ies)
      BY <1>3 DEF ric_control_response_get_fields
    <2> HIDE DEF read
    <2>2. AsGiven(read)
      BY <1>2, <2>1 DEF AsGiven
    <2> QED
      BY <2>2 DEF read
  <1>4. CASE o = "unsuccessfulOutcome"
    <2> DEFINE cause == Content(ies, 1, "Cause", Choice("ricRequest", 0))
    <2>1. Field(1, ignore, Choice("Cause", CauseOf(given))) \in F
      BY <1>4 DEF Fields
    <2>2. given.cause \in DOMAIN Causes_PR
      BY <1>4 DEF Settable
    <2>3. /\ DOMAIN read = {"func_id", "req_id", "call_process_id", "cause", "sub_cause"}
          /\ read.func_id = func_id(ies) /\ read.req_id = req_id(ies)
          /\ read.cause = CauseIn(cause) /\ read.sub_cause = SubCauseIn(cause)
      BY <1>4 DEF ric_control_response_get_fields
    <2>4. cause = CauseOf(given)
      <3> HIDE DEF F
      <3> QED
        BY <2>1, ContentIs DEF F
    <2>5. CauseIn(cause) = given.cause /\ SubCauseIn(cause) = given.sub_cause
      BY <2>2, <2>4, CauseRead
    <2> HIDE DEF read, cause
    <2>6. AsGiven(read)
      BY <1>2, <2>3, <2>5 DEF AsGiven
    <2> QED
      BY <2>6 DEF read
  <1> QED
    BY <1>3, <1>4

LEMMA IndicationRead ==
  ASSUME class = "ric_indication", NEW ies,
         MadeOf(ies, Fields("ric_indication", "initiatingMessage", given))
  PROVE  AsGiven(ric_indication_get_fields(ies))
  <1> DEFINE F == Fields("ric_indication", "initiatingMessage", given)
             action == Field(15, reject, Choice("RICactionID", given.action_id))
             sn == Field(27, reject, Choice("RICindicationSN", given.indication_sn))
             type == Field(28, reject, Choice("RICindicationType", given.indication_type))
             header == Field(25, reject, Choice("RICindicationHeader", given.indication_header))
             message == Field(26, reject, Choice("RICindicationMessage", given.indication_msg))
             read == ric_indication_get_fields(ies)
  <1>1. {RequestField(given), FunctionField(given), action, sn, type, header, message} \subseteq F
    BY DEF Fields
  <1>2. /\ action \in F => Content(ies, 15, "RICactionID", 1) = given.action_id
        /\ sn \in F => Content(ies, 27, "RICindicationSN", 0) = given.indication_sn
        /\ type \in F => Content(ies, 28, "RICindicationType", 0) = given.indication_type
    BY ContentIs
  <1>3. /\ header \in F => Content(ies, 25, "RICindicationHeader", <<>>) = given.indication_header
        /\ message \in F => Content(ies, 26, "RICindicationMessage", <<>>) = given.indication_msg
    BY ContentIs
  <1>4. /\ DOMAIN read = {"func_id", "req_id", "indication_header", "indication_msg",
                          "indication_sn", "indication_type", "action_id", "call_process_id"}
        /\ read.func_id = func_id(ies) /\ read.req_id = req_id(ies)
        /\ read.indication_header = Content(ies, 25, "RICindicationHeader", <<>>)
        /\ read.indication_msg = Content(ies, 26, "RICindicationMessage", <<>>)
        /\ read.indication_sn = Content(ies, 27, "RICindicationSN", 0)
        /\ read.indication_type = Content(ies, 28, "RICindicationType", 0)
        /\ read.action_id = Content(ies, 15, "RICactionID", 1)
    BY DEF ric_indication_get_fields
  <1> HIDE DEF F, action, sn, type, header, message, read
  <1>5. func_id(ies) = given.func_id /\ req_id(ies) = given.req_id
    BY <1>1, CommonRead DEF F
  <1>6. \A f \in DOMAIN read \ {"call_process_id"} : read[f] = given[f]
    BY <1>1, <1>2, <1>3, <1>4, <1>5
  <1>7. AsGiven(read)
    BY <1>6 DEF AsGiven
  <1> QED
    BY <1>7 DEF read

\* The lists of actions of the last helper, read of a message that has them
\* where the code puts them.
LEMMA ActionsRead ==
  ASSUME given \in Helpers["subscription_response"], NEW ies, NEW F, MadeOf(ies, F),
         F \subseteq {RequestField(given), FunctionField(given), AdmittedField(given),
                      NotAdmittedField(given)}
  PROVE  /\ KnownCauses(given.not_admitted)
            /\ (given.not_admitted # <<>> => NotAdmittedField(given) \in F)
                => NotAdmittedRead(ies) = given.not_admitted
         /\ AdmittedField(given) \in F => AdmittedRead(ies) = given.admitted
  <1>1. IsList(given.not_admitted) /\ IsList(given.admitted)
    BY HelpersAssumption
  <1>2. \A i \in DOMAIN given.not_admitted :
            LET action == given.not_admitted[i]
            IN  action = [id |-> action.id, cause |-> action.cause, sub_cause |-> action.sub_cause]
    BY ReadHelpersAssumption
  <1>3. /\ RequestField(given).id = 29 /\ FunctionField(given).id = 5
        /\ AdmittedField(given).id = 17 /\ NotAdmittedField(given).id = 18
    BY FieldIds DEF RequestField, FunctionField, AdmittedField, NotAdmittedField
  <1>4. ASSUME KnownCauses(given.not_admitted),
               given.not_admitted # <<>> => NotAdmittedField(given) \in F
        PROVE  NotAdmittedRead(ies) = given.not_admitted
    <2>1. CASE given.not_admitted # <<>>
      BY <1>1, <1>2, <1>4, <2>1, NotAdmittedIsRead
    <2>2. CASE given.not_admitted = <<>>
      <3>1. DOMAIN NotAdmittedField(given).value = {}
        BY <2>2, FieldIds DEF NotAdmittedField, Field
      <3>2. \A f \in F : f.id = 18 => "RICaction_NotAdmitted_List" \notin DOMAIN f.value
        BY <1>3, <3>1
      <3> QED
        BY <2>2, <3>2, EmptyRead
    <2> QED
      BY <2>1, <2>2
  <1>5. ASSUME AdmittedField(given) \in F
        PROVE  AdmittedRead(ies) = given.admitted
    <2>1. CASE given.admitted # <<>>
      BY <1>1, <1>5, <2>1, AdmittedIsRead
    <2>2. CASE given.admitted = <<>>
      <3>1. DOMAIN AdmittedField(given).value = {}
        BY <2>2, FieldIds DEF AdmittedField, Field
      <3>2. \A f \in F : f.id = 17 => "RICaction_Admitted_List" \notin DOMAIN f.value
        BY <1>3, <3>1
      <3> QED
        BY <2>2, <3>2, EmptyRead
    <2> QED
      BY <2>1, <2>2
  <1> QED
    BY <1>4, <1>5

LEMMA ResponseRead ==
  ASSUME given \in Helpers["subscription_response"],
         NEW o \in {"successfulOutcome", "unsuccessfulOutcome"}, NEW ies,
         MadeOf(ies, Fields("subscription_response", o, given))
  PROVE  AsGiven(subscription_response_get_fields(o, ies))
  <1> DEFINE F == Fields("subscription_response", o, given)
             whole == KnownCauses(given.not_admitted)
             read == subscription_response_get_fields(o, ies)
  <1>1. /\ F \subseteq {RequestField(given), FunctionField(given), AdmittedField(given),
                        NotAdmittedField(given)}
        /\ {RequestField(given), FunctionField(given)} \subseteq F
        /\ whole => (given.not_admitted # <<>> => NotAdmittedField(given) \in F)
        /\ o = "successfulOutcome" => AdmittedField(given) \in F
    <2>1. CASE o = "successfulOutcome"
      BY <2>1 DEF Fields
    <2>2. CASE o = "unsuccessfulOutcome"
      BY <2>2 DEF Fields
    <2> QED
      BY <2>1, <2>2
  <1>2. /\ DOMAIN read \subseteq {"func_id", "not_admitted", "admitted"}
        /\ o # "successfulOutcome" => DOMAIN read = {"func_id", "not_admitted"}
        /\ read.func_id = func_id(ies)
        /\ read.not_admitted = NotAdmittedRead(ies)
        /\ o = "successfulOutcome" => read.admitted = AdmittedRead(ies)
    <2>1. CASE o = "successfulOutcome"
      BY <2>1 DEF subscription_response_get_fields
    <2>2. CASE o = "unsuccessfulOutcome"
      BY <2>2 DEF subscription_response_get_fields
    <2> QED
      BY <2>1, <2>2
  <1> HIDE DEF F, read
  <1>3. func_id(ies) = given.func_id
    BY <1>1, CommonRead DEF F
  <1>4. /\ whole => NotAdmittedRead(ies) = given.not_admitted
        /\ o = "successfulOutcome" => AdmittedRead(ies) = given.admitted
    <2>1. MadeOf(ies, F)
      BY DEF F
    <2> QED
      BY <1>1, <2>1, ActionsRead
  <1>5. AsGiven(read)
    BY <1>2, <1>3, <1>4 DEF AsGiven
  <1> QED
    BY <1>5 DEF read

\* Whatever an object was used for before, what get_fields of its class reads
\* of the message it now holds is what this use gave set_fields: no value of
\* an earlier use, and none of another element, is taken for it
\* (set_fields and get_fields of the classes of xapp-asn/e2ap).
THEOREM MessagesReadAsGiven == ObjectSpec => []ReadsAsGiven
  <1>1. ASSUME LastUse, Alive, uses > 0, Settable(class, outcome, given)
        PROVE  AsGiven(get_fields(class, outcome, ProtocolIEs(object, outcome)))
    <2> DEFINE ies == ProtocolIEs(object, outcome)
               read == get_fields(class, outcome, ies)
    <2>1. /\ class \in {"subscription_request", "subscription_response", "subscription_delete",
                        "subscription_delete_response", "ric_control_request",
                        "ric_control_response", "ric_indication"}
          /\ outcome \in DOMAIN Headings[class]
          /\ given \in Helpers[class]
      BY <1>1 DEF LastUse, Classes, Headings
    <2>2. MadeOf(ies, Fields(class, outcome, given))
      BY <1>1 DEF LastUse
    <2> HIDE DEF ies
    <2>3. CASE class = "subscription_request"
      <3>1. outcome = "initiatingMessage"
        BY <2>1, <2>3 DEF Headings, Heading
      <3>2. read = subscription_request_get_fields(ies)
        BY <2>3 DEF get_fields
      <3> QED
        BY <2>2, <2>3, <3>1, <3>2, SubscriptionRequestRead DEF ies
    <2>4. CASE class = "subscription_response"
      <3>1. outcome \in {"successfulOutcome", "unsuccessfulOutcome"}
        BY <2>1, <2>4 DEF Headings, Heading
      <3>2. read = subscription_response_get_fields(outcome, ies)
        BY <2>4 DEF get_fields
      <3> QED
        BY <2>1, <2>2, <2>4, <3>1, <3>2, ResponseRead DEF ies
    <2>5. CASE class \in {"subscription_delete", "subscription_delete_response"}
      <3>1. Fields(class, outcome, given) = {RequestField(given), FunctionField(given)}
        BY <2>5 DEF Fields
      <3>2. read = [func_id |-> func_id(ies)]
        BY <2>5 DEF get_fields
      <3> QED
        BY <2>2, <3>1, <3>2, DeleteRead DEF ies
    <2>6. CASE class = "ric_control_request"
      <3>1. outcome = "initiatingMessage"
        BY <2>1, <2>6 DEF Headings, Heading
      <3>2. read = ric_control_request_get_fields(ies)
        BY <2>6 DEF get_fields
      <3> QED
        BY <2>1, <2>2, <2>6, <3>1, <3>2, ControlRequestRead DEF ies
    <2>7. CASE class = "ric_control_response"
      <3>1. outcome \in {"successfulOutcome", "unsuccessfulOutcome"}
        BY <2>1, <2>7 DEF Headings, Heading
      <3>2. read = ric_control_response_get_fields(outcome, ies)
        BY <2>7 DEF get_fields
      <3>3. Settable(class, outcome, given)
        BY <1>1
      <3> QED
        BY <2>2, <2>7, <3>1, <3>2, <3>3, ControlResponseRead DEF ies
    <2>8. CASE class = "ric_indication"
      <3>1. outcome = "initiatingMessage"
        BY <2>1, <2>8 DEF Headings, Heading
      <3>2. read = ric_indication_get_fields(ies)
        BY <2>8 DEF get_fields
      <3> QED
        BY <2>2, <2>8, <3>1, <3>2, IndicationRead DEF ies
    <2> QED
      BY <2>1, <2>3, <2>4, <2>5, <2>6, <2>7, <2>8
  <1>2. LastUse => ReadsAsGiven
    BY <1>1 DEF ReadsAsGiven
  <1> QED
    BY <1>2, LastUseInvariance, PTL
=============================================================================
