-------------------------- MODULE E2apObjectsProofs --------------------------
(***************************************************************************)
(* What a message object sends is of the use it is in, and its subsequent  *)
(* actions are freed, for any helpers and any number of uses.              *)
(***************************************************************************)
EXTENDS E2apObjects, SequenceTheorems, WellFoundedInduction, TLAPS

\* The shape of the memory of an object of class c, which nothing an object
\* is used for changes.  What the lists, the arrays and the elements hold is
\* left open: that is what a use leaves behind.
Shape(c, obj) ==
    /\ DOMAIN obj = {"IE_array", "protocolIEs", "lists", "arrays", "subsequent"}
    /\ DOMAIN obj.IE_array = DOMAIN Headings[c]
    /\ DOMAIN obj.protocolIEs = DOMAIN Headings[c]
    /\ DOMAIN obj.lists = Lists
    /\ DOMAIN obj.arrays = Arrays(c)
    /\ \A a \in Arrays(c) : DOMAIN obj.arrays[a] = {"block", "size", "items"}
    /\ FilledOnce(c) => \A o \in DOMAIN Headings[c] : obj.protocolIEs[o] = All(c, o)

\* The subsequent actions that are allocated are those the destructor frees.
Balanced(obj) == obj.subsequent = Freed(obj) /\ Freed(obj) \in Nat

ObjectInv ==
    IF Alive THEN class \in Classes /\ Shape(class, object) /\ Balanced(object)
    ELSE object.subsequent = 0

-----------------------------------------------------------------------------
\* A new object has the shape of its class.
LEMMA ConstructedShape ==
  ASSUME NEW c \in Classes
  PROVE  Shape(c, Constructed(c)) /\ Balanced(Constructed(c))
  <1> DEFINE obj == Constructed(c)
  <1>1. /\ DOMAIN obj = {"IE_array", "protocolIEs", "lists", "arrays", "subsequent"}
        /\ obj.arrays = [a \in Arrays(c) |->
               [block |-> 1, size |-> INITIAL_LIST_SIZE, items |-> <<>>]]
        /\ DOMAIN obj.IE_array = DOMAIN Headings[c]
        /\ obj.protocolIEs
               = [o \in DOMAIN Headings[c] |-> IF FilledOnce(c) THEN All(c, o) ELSE <<>>]
        /\ DOMAIN obj.lists = Lists
        /\ obj.subsequent = IF c = "subscription_request" THEN INITIAL_LIST_SIZE ELSE 0
    BY DEF Constructed
  <1>2. Shape(c, obj)
    <2>1. \A a \in Arrays(c) : DOMAIN obj.arrays[a] = {"block", "size", "items"}
      BY <1>1
    <2>2. FilledOnce(c) => \A o \in DOMAIN Headings[c] : obj.protocolIEs[o] = All(c, o)
      BY <1>1
    <2> HIDE DEF obj
    <2> QED
      BY <1>1, <2>1, <2>2 DEF Shape
  <1>3. Balanced(obj)
    <2>1. "action_array" \in Arrays(c) <=> c = "subscription_request"
      BY DEF Arrays
    <2>2. DOMAIN obj.arrays = Arrays(c)
      BY <1>1
    <2>3. "action_array" \in Arrays(c) => obj.arrays["action_array"].size = INITIAL_LIST_SIZE
      BY <1>1
    <2> HIDE DEF obj
    <2> QED
      BY <1>1, <2>1, <2>2, <2>3 DEF Balanced, Freed, INITIAL_LIST_SIZE
  <1> QED
    BY <1>2, <1>3

-----------------------------------------------------------------------------
(* The lists of entries that set_fields writes.                            *)

IsSeq(s) == \E S : s \in Seq(S)

\* Two objects give the elements of a list of entries the same values.
Agree(x, y, entries) ==
    /\ IsSeq(entries)
    /\ \A k \in DOMAIN entries :
           Value(x, entries[k].element) = Value(y, entries[k].element)

ListNames == {"RICsubscriptionDetails", "RICaction_Admitted_List", "RICaction_NotAdmitted_List"}

\* The value of an element that is no list is in the element.
LEMMA PlainValue ==
  ASSUME NEW x, NEW y, NEW e, e.present \notin ListNames
  PROVE  Value(x, e) = Value(y, e)
  BY DEF Value, ListNames

LEMMA AgreeOne ==
  ASSUME NEW x, NEW y, NEW i, NEW e, Value(x, e) = Value(y, e)
  PROVE  Agree(x, y, <<At(i, e)>>)
  <1> DEFINE entry == At(i, e)
             entries == <<entry>>
  <1>1. entry.element = e
    BY DEF At
  <1> HIDE DEF entry
  <1>2. entries \in Seq({entry}) /\ \A k \in DOMAIN entries : entries[k] = entry
    OBVIOUS
  <1> HIDE DEF entries
  <1>3. Agree(x, y, entries)
    BY <1>1, <1>2 DEF Agree, IsSeq
  <1> QED
    BY <1>3 DEF entries, entry

LEMMA AgreeConcat ==
  ASSUME NEW x, NEW y, NEW a, NEW b, Agree(x, y, a), Agree(x, y, b)
  PROVE  Agree(x, y, a \o b)
  <1>1. PICK S, T : a \in Seq(S) /\ b \in Seq(T)
    BY DEF Agree, IsSeq
  <1>2. a \in Seq(S \cup T) /\ b \in Seq(S \cup T)
    BY <1>1
  <1>3. a \o b \in Seq(S \cup T)
    BY <1>2
  <1>4. \A k \in DOMAIN (a \o b) :
            \/ k \in DOMAIN a /\ (a \o b)[k] = a[k]
            \/ k - Len(a) \in DOMAIN b /\ (a \o b)[k] = b[k - Len(a)]
    BY <1>2
  <1> QED
    BY <1>3, <1>4 DEF Agree, IsSeq

LEMMA AgreeWhen ==
  ASSUME NEW x, NEW y, NEW condition \in BOOLEAN, NEW entries,
         condition => Agree(x, y, entries)
  PROVE  Agree(x, y, When(condition, entries))
  <1>1. Agree(x, y, <<>>)
    <2>1. <<>> \in Seq({})
      OBVIOUS
    <2> QED
      BY <2>1 DEF Agree, IsSeq
  <1> QED
    BY <1>1 DEF When

LEMMA TwoEntries ==
  ASSUME NEW a, NEW b
  PROVE  <<a>> \o <<b>> = <<a, b>>
  <1> DEFINE S == {a, b}
             s == <<a>>
             t == <<b>>
             u == <<a, b>>
  <1>1. s \in Seq(S) /\ Len(s) = 1 /\ s[1] = a
    OBVIOUS
  <1>2. t \in Seq(S) /\ Len(t) = 1 /\ t[1] = b
    OBVIOUS
  <1>3. u \in Seq(S) /\ Len(u) = 2 /\ u[1] = a /\ u[2] = b
    OBVIOUS
  <1> HIDE DEF S, s, t, u
  <1>4. /\ s \o t \in Seq(S) /\ Len(s \o t) = 2
        /\ (s \o t)[1] = a /\ (s \o t)[2] = b
    BY <1>1, <1>2, ConcatProperties
  <1>5. \A i \in 1 .. Len(u) : (s \o t)[i] = u[i]
    BY <1>3, <1>4
  <1>6. s \o t = u
    BY <1>3, <1>4, <1>5, SeqEqual
  <1> QED
    BY <1>6 DEF s, t, u

LEMMA AgreeRequestAndFunction ==
  ASSUME NEW x, NEW y, NEW h
  PROVE  Agree(x, y, RequestAndFunction(h))
  <1> DEFINE request == Element(29, reject, "RICrequestID",
                                [ricRequestorID |-> h.req_id, ricInstanceID |-> 0])
             function == Element(5, reject, "RANfunctionID", h.func_id)
  <1>1. request.present \notin ListNames /\ function.present \notin ListNames
    BY DEF Element, ListNames
  <1> HIDE DEF request, function
  <1>2. Value(x, request) = Value(y, request) /\ Value(x, function) = Value(y, function)
    BY <1>1, PlainValue
  <1>3. /\ Agree(x, y, <<At(0, request)>>)
        /\ Agree(x, y, <<At(1, function)>>)
    BY <1>2, AgreeOne
  <1>4. Agree(x, y, <<At(0, request)>> \o <<At(1, function)>>)
    BY <1>3, AgreeConcat
  <1>5. <<At(0, request)>> \o <<At(1, function)>> = <<At(0, request), At(1, function)>>
    BY TwoEntries
  <1> QED
    BY <1>4, <1>5 DEF RequestAndFunction, request, function

LEMMA AgreeTwo ==
  ASSUME NEW x, NEW y, NEW a, NEW b,
         Value(x, a.element) = Value(y, a.element),
         Value(x, b.element) = Value(y, b.element)
  PROVE  Agree(x, y, <<a, b>>)
  <1> DEFINE entries == <<a, b>>
  <1>1. entries \in Seq({a, b}) /\ \A k \in DOMAIN entries : entries[k] \in {a, b}
    OBVIOUS
  <1> HIDE DEF entries
  <1>2. Agree(x, y, entries)
    BY <1>1 DEF Agree, IsSeq
  <1> QED
    BY <1>2 DEF entries

LEMMA AgreeFive ==
  ASSUME NEW x, NEW y, NEW a, NEW b, NEW c, NEW d, NEW e,
         Value(x, a.element) = Value(y, a.element),
         Value(x, b.element) = Value(y, b.element),
         Value(x, c.element) = Value(y, c.element),
         Value(x, d.element) = Value(y, d.element),
         Value(x, e.element) = Value(y, e.element)
  PROVE  Agree(x, y, <<a, b, c, d, e>>)
  <1> DEFINE entries == <<a, b, c, d, e>>
  <1>1. entries \in Seq({a, b, c, d, e}) /\ \A k \in DOMAIN entries : entries[k] \in {a, b, c, d, e}
    OBVIOUS
  <1> HIDE DEF entries
  <1>2. Agree(x, y, entries)
    BY <1>1 DEF Agree, IsSeq
  <1> QED
    BY <1>2 DEF entries

-----------------------------------------------------------------------------
(* Elements.                                                               *)

\* The element a list of entries has at an index.
Entry(entries, i) == entries[CHOOSE k \in DOMAIN entries : entries[k].at = i].element

LEMMA Override ==
  ASSUME NEW f, NEW g, NEW i \in DOMAIN f
  PROVE  Over(f, g)[i] = f[i]
  BY DEF Over

\* Set leaves all but the elements alone, and they are those of the entries
\* whatever they were before.
LEMMA SetElements ==
  ASSUME NEW c \in Classes, NEW obj, Shape(c, obj), NEW o \in DOMAIN Headings[c], NEW entries
  PROVE  LET r == Set(obj, o, entries)
         IN  /\ Shape(c, r)
             /\ r.lists = obj.lists /\ r.arrays = obj.arrays
             /\ r.protocolIEs = obj.protocolIEs
             /\ r.subsequent = obj.subsequent
             /\ \A k \in DOMAIN entries :
                    r.IE_array[o][entries[k].at] = Entry(entries, entries[k].at)
  <1> DEFINE I == {entries[k].at : k \in DOMAIN entries}
             new == [i \in I |-> Entry(entries, i)]
             all == Over(new, obj.IE_array[o])
             r == [obj EXCEPT !.IE_array[o] = all]
  <1>1. r = Set(obj, o, entries)
    BY DEF Set, Entry
  <1>2. \A i \in I : all[i] = Entry(entries, i)
    <2>1. DOMAIN new = I /\ \A i \in I : new[i] = Entry(entries, i)
      OBVIOUS
    <2> HIDE DEF new, I
    <2> QED
      BY <2>1, Override
  <1>3. \A k \in DOMAIN entries : all[entries[k].at] = Entry(entries, entries[k].at)
    BY <1>2
  <1> HIDE DEF all, new, I
  <1>4. /\ DOMAIN r = DOMAIN obj
        /\ r.IE_array = [obj.IE_array EXCEPT ![o] = all]
        /\ r.lists = obj.lists /\ r.arrays = obj.arrays
        /\ r.protocolIEs = obj.protocolIEs
        /\ r.subsequent = obj.subsequent
    BY DEF Shape
  <1> HIDE DEF r
  <1>5. r.IE_array[o] = all /\ DOMAIN r.IE_array = DOMAIN obj.IE_array
    BY <1>4 DEF Shape
  <1>6. Shape(c, r)
    BY <1>4, <1>5 DEF Shape
  <1> QED
    BY <1>1, <1>3, <1>4, <1>5, <1>6

LEMMA SetAndAddElements ==
  ASSUME NEW c \in Classes, ~FilledOnce(c), NEW obj, Shape(c, obj),
         NEW o \in DOMAIN Headings[c], NEW entries, IsSeq(entries)
  PROVE  LET r == SetAndAdd(obj, o, entries)
         IN  /\ Shape(c, r)
             /\ r.lists = obj.lists /\ r.arrays = obj.arrays
             /\ r.subsequent = obj.subsequent
             /\ r.protocolIEs[o] = [k \in DOMAIN entries |-> entries[k].at]
             /\ \A k \in DOMAIN entries :
                    r.IE_array[o][entries[k].at] = Entry(entries, entries[k].at)
  <1> DEFINE set == Set(obj, o, entries)
             indices == [k \in DOMAIN entries |-> entries[k].at]
             r == [set EXCEPT !.protocolIEs[o] = Reset(@) \o indices]
  <1>1. r = SetAndAdd(obj, o, entries)
    BY DEF SetAndAdd
  <1>2. <<>> \o indices = indices
    <2>1. PICK S : entries \in Seq(S)
      BY DEF IsSeq
    <2>2. Len(entries) \in Nat /\ DOMAIN entries = 1 .. Len(entries)
      BY <2>1
    <2>3. indices \in Seq({entries[k].at : k \in DOMAIN entries})
      BY <2>2
    <2> HIDE DEF indices
    <2> QED
      BY <2>3, ConcatEmptySeq
  <1>3. /\ Shape(c, set)
        /\ set.lists = obj.lists /\ set.arrays = obj.arrays
        /\ set.protocolIEs = obj.protocolIEs
        /\ set.subsequent = obj.subsequent
        /\ \A k \in DOMAIN entries :
               set.IE_array[o][entries[k].at] = Entry(entries, entries[k].at)
    BY SetElements
  <1> HIDE DEF set, indices
  <1>4. /\ DOMAIN r = DOMAIN set
        /\ r.IE_array = set.IE_array
        /\ r.lists = set.lists /\ r.arrays = set.arrays
        /\ r.subsequent = set.subsequent
        /\ r.protocolIEs = [set.protocolIEs EXCEPT ![o] = indices]
    BY <1>2, <1>3 DEF Shape, Reset
  <1> HIDE DEF r
  <1>5. r.protocolIEs[o] = indices /\ DOMAIN r.protocolIEs = DOMAIN set.protocolIEs
    BY <1>3, <1>4 DEF Shape
  <1>6. Shape(c, r)
    BY <1>3, <1>4, <1>5 DEF Shape
  <1> QED
    BY <1>1, <1>3, <1>4, <1>5, <1>6 DEF indices

-----------------------------------------------------------------------------
(* The message is the elements that are in it and the lists they name.     *)

LEMMA SameElements ==
  ASSUME NEW c, NEW o, NEW x, NEW y,
         x.protocolIEs[o] = y.protocolIEs[o],
         \A k \in DOMAIN x.protocolIEs[o] :
             /\ x.IE_array[o][x.protocolIEs[o][k]] = y.IE_array[o][x.protocolIEs[o][k]]
             /\ Value(x, x.IE_array[o][x.protocolIEs[o][k]])
                    = Value(y, x.IE_array[o][x.protocolIEs[o][k]])
  PROVE  Pdu(c, x, o) = Pdu(c, y, o)
  <1>1. ProtocolIEs(x, o) = ProtocolIEs(y, o)
    BY DEF ProtocolIEs
  <1> QED
    BY <1>1 DEF Pdu

\* The value of an element is the same in objects with the same lists and
\* arrays.
LEMMA SameLists ==
  ASSUME NEW x, NEW y, NEW e, x.lists = y.lists, x.arrays = y.arrays
  PROVE  Value(x, e) = Value(y, e)
  <1>1. \A p : Item(x, p) = Item(y, p)
    BY DEF Item
  <1>2. \A l : Items(x, l) = Items(y, l)
    BY <1>1 DEF Items
  <1> QED
    BY <1>2, Zenon DEF Value

LEMMA EntryAgrees ==
  ASSUME NEW x, NEW y, NEW entries, Agree(x, y, entries), NEW k \in DOMAIN entries
  PROVE  Value(x, Entry(entries, entries[k].at)) = Value(y, Entry(entries, entries[k].at))
  <1>1. \E m \in DOMAIN entries : Entry(entries, entries[k].at) = entries[m].element
    BY DEF Entry
  <1> QED
    BY <1>1 DEF Agree

\* Entries that are set and added make the same message of any two objects
\* that give them the same values.
LEMMA SameAdded ==
  ASSUME NEW c \in Classes, ~FilledOnce(c), NEW x, Shape(c, x), NEW y, Shape(c, y),
         NEW o \in DOMAIN Headings[c], NEW entries, Agree(x, y, entries)
  PROVE  Pdu(c, SetAndAdd(x, o, entries), o) = Pdu(c, SetAndAdd(y, o, entries), o)
  <1> DEFINE rx == SetAndAdd(x, o, entries)
             ry == SetAndAdd(y, o, entries)
  <1>1. IsSeq(entries)
    BY DEF Agree
  <1>2. /\ rx.lists = x.lists /\ rx.arrays = x.arrays
        /\ rx.protocolIEs[o] = [k \in DOMAIN entries |-> entries[k].at]
        /\ \A k \in DOMAIN entries :
               rx.IE_array[o][entries[k].at] = Entry(entries, entries[k].at)
    BY <1>1, SetAndAddElements
  <1>3. /\ ry.lists = y.lists /\ ry.arrays = y.arrays
        /\ ry.protocolIEs[o] = [k \in DOMAIN entries |-> entries[k].at]
        /\ \A k \in DOMAIN entries :
               ry.IE_array[o][entries[k].at] = Entry(entries, entries[k].at)
    BY <1>1, SetAndAddElements
  <1> HIDE DEF rx, ry
  <1>4. ASSUME NEW k \in DOMAIN entries
        PROVE  Value(rx, Entry(entries, entries[k].at)) = Value(ry, Entry(entries, entries[k].at))
    <2> DEFINE e == Entry(entries, entries[k].at)
    <2>1. Value(x, e) = Value(y, e)
      BY EntryAgrees
    <2> HIDE DEF e
    <2>2. Value(rx, e) = Value(x, e) /\ Value(ry, e) = Value(y, e)
      BY <1>2, <1>3, SameLists
    <2> QED
      BY <2>1, <2>2 DEF e
  <1>5. /\ rx.protocolIEs[o] = ry.protocolIEs[o]
        /\ DOMAIN rx.protocolIEs[o] = DOMAIN entries
        /\ \A k \in DOMAIN entries : rx.protocolIEs[o][k] = entries[k].at
    BY <1>2, <1>3
  <1>6. Pdu(c, rx, o) = Pdu(c, ry, o)
    BY <1>2, <1>3, <1>4, <1>5, SameElements
  <1> QED
    BY <1>6 DEF rx, ry

\* So do entries that are set in a message that has all elements since its
\* construction, when there is an entry for each.
LEMMA SameFilled ==
  ASSUME NEW c \in Classes, FilledOnce(c), NEW x, Shape(c, x), NEW y, Shape(c, y),
         NEW o \in DOMAIN Headings[c], NEW entries, Agree(x, y, entries),
         \A k \in DOMAIN All(c, o) : \E m \in DOMAIN entries : entries[m].at = All(c, o)[k]
  PROVE  Pdu(c, Set(x, o, entries), o) = Pdu(c, Set(y, o, entries), o)
  <1> DEFINE rx == Set(x, o, entries)
             ry == Set(y, o, entries)
  <1>1. /\ rx.lists = x.lists /\ rx.arrays = x.arrays
        /\ rx.protocolIEs[o] = All(c, o)
        /\ \A k \in DOMAIN entries :
               rx.IE_array[o][entries[k].at] = Entry(entries, entries[k].at)
    BY SetElements DEF Shape
  <1>2. /\ ry.lists = y.lists /\ ry.arrays = y.arrays
        /\ ry.protocolIEs[o] = All(c, o)
        /\ \A k \in DOMAIN entries :
               ry.IE_array[o][entries[k].at] = Entry(entries, entries[k].at)
    BY SetElements DEF Shape
  <1> HIDE DEF rx, ry
  <1>3. ASSUME NEW k \in DOMAIN entries
        PROVE  Value(rx, Entry(entries, entries[k].at)) = Value(ry, Entry(entries, entries[k].at))
    <2> DEFINE e == Entry(entries, entries[k].at)
    <2>1. Value(x, e) = Value(y, e)
      BY EntryAgrees
    <2> HIDE DEF e
    <2>2. Value(rx, e) = Value(x, e) /\ Value(ry, e) = Value(y, e)
      BY <1>1, <1>2, SameLists
    <2> QED
      BY <2>1, <2>2 DEF e
  <1>4. Pdu(c, rx, o) = Pdu(c, ry, o)
    <2>1. \A k \in DOMAIN All(c, o) :
              /\ rx.IE_array[o][All(c, o)[k]] = ry.IE_array[o][All(c, o)[k]]
              /\ Value(rx, rx.IE_array[o][All(c, o)[k]]) = Value(ry, rx.IE_array[o][All(c, o)[k]])
      BY <1>1, <1>2, <1>3
    <2> QED
      BY <1>1, <1>2, <2>1, SameElements
  <1> QED
    BY <1>4 DEF rx, ry

-----------------------------------------------------------------------------
(* Lists and arrays.                                                       *)

\* An array allocated anew keeps the shape, and the destructor still frees
\* all that is allocated.
LEMMA RoomyShape ==
  ASSUME NEW c \in Classes, NEW obj, Shape(c, obj), NEW array \in Arrays(c), NEW n
  PROVE  LET r == Roomy(obj, array, n)
         IN  /\ Shape(c, r)
             /\ r.lists = obj.lists /\ r.IE_array = obj.IE_array
             /\ r.protocolIEs = obj.protocolIEs
             /\ \A a \in Arrays(c) \ {array} : r.arrays[a] = obj.arrays[a]
             /\ n \in Nat /\ Balanced(obj) => Balanced(r)
  <1>1. CASE Roomy(obj, array, n) = obj
    BY <1>1
  <1>2. CASE Roomy(obj, array, n) = Resize(obj, array, n)
    <2> DEFINE fresh == [block |-> obj.arrays[array].block + 1, size |-> 2 * n, items |-> <<>>]
               left == IF array = "action_array"
                       THEN obj.subsequent - obj.arrays[array].size + 2 * n ELSE obj.subsequent
               r == Resize(obj, array, n)
    <2>1. r = [obj EXCEPT !.arrays[array] = fresh, !.subsequent = left]
      BY DEF Resize, Shape
    <2>2. DOMAIN fresh = {"block", "size", "items"} /\ fresh.size = 2 * n
      OBVIOUS
    <2> HIDE DEF r, fresh, left
    <2>3. /\ DOMAIN r = DOMAIN obj
          /\ r.IE_array = obj.IE_array
          /\ r.lists = obj.lists
          /\ r.protocolIEs = obj.protocolIEs
          /\ r.arrays = [obj.arrays EXCEPT ![array] = fresh]
          /\ r.subsequent = left
      BY <2>1 DEF Shape
    <2>4. /\ DOMAIN r.arrays = DOMAIN obj.arrays
          /\ r.arrays[array] = fresh
          /\ \A a \in Arrays(c) \ {array} : r.arrays[a] = obj.arrays[a]
      BY <2>3 DEF Shape
    <2>5. Shape(c, r)
      BY <2>2, <2>3, <2>4 DEF Shape
    <2>6. ASSUME n \in Nat, Balanced(obj) PROVE Balanced(r)
      <3>1. CASE array = "action_array"
        <4>1. /\ Freed(obj) = obj.arrays[array].size
              /\ Freed(r) = fresh.size
          BY <2>4, <3>1 DEF Freed, Shape
        <4>2. left = 2 * n
          BY <2>6, <3>1, <4>1 DEF left, Balanced
        <4> QED
          BY <2>2, <2>3, <2>6, <4>1, <4>2 DEF Balanced
      <3>2. CASE array # "action_array"
        <4>1. Freed(r) = Freed(obj) /\ left = obj.subsequent
          BY <2>4, <3>2 DEF Freed, Shape, left
        <4> QED
          BY <2>3, <2>6, <4>1 DEF Balanced
      <3> QED
        BY <3>1, <3>2
    <2> QED
      BY <1>2, <2>3, <2>4, <2>5, <2>6 DEF r
  <1> QED
    BY <1>1, <1>2 DEF Roomy

\* After SetItems the list holds the items of the helper, whatever the array
\* and the list held before, and the other lists and arrays are as they were.
LEMMA SetItemsReads ==
  ASSUME NEW c \in Classes, NEW obj, Shape(c, obj), NEW array \in Arrays(c),
         NEW list \in Lists, NEW items, IsSeq(items), NEW n
  PROVE  LET r == SetItems(obj, list, array, items, n)
         IN  /\ Shape(c, r)
             /\ r.IE_array = obj.IE_array /\ r.protocolIEs = obj.protocolIEs
             /\ Items(r, list) = items
             /\ \A l \in Lists \ {list} : r.lists[l] = obj.lists[l]
             /\ \A a \in Arrays(c) \ {array} : r.arrays[a] = obj.arrays[a]
             /\ \A i \in DOMAIN r.lists[list] : r.lists[list][i].array = array
             /\ n \in Nat /\ Balanced(obj) => Balanced(r)
  <1> DEFINE roomy == Roomy(obj, array, n)
             over == Over(items, roomy.arrays[array].items)
             pointers == [i \in DOMAIN items |-> Pointer(roomy, array, i)]
             r == [roomy EXCEPT !.arrays[array].items = over,
                                !.lists[list] = Reset(@) \o pointers]
  <1>1. r = SetItems(obj, list, array, items, n)
    BY DEF SetItems
  <1>2. /\ Shape(c, roomy)
        /\ roomy.lists = obj.lists /\ roomy.IE_array = obj.IE_array
        /\ roomy.protocolIEs = obj.protocolIEs
        /\ \A a \in Arrays(c) \ {array} : roomy.arrays[a] = obj.arrays[a]
        /\ n \in Nat /\ Balanced(obj) => Balanced(roomy)
    BY RoomyShape
  <1>3. PICK S : items \in Seq(S)
    BY DEF IsSeq
  <1>4. Len(items) \in Nat /\ DOMAIN items = 1 .. Len(items)
        /\ items = [i \in DOMAIN items |-> items[i]]
    BY <1>3
  <1>5. <<>> \o pointers = pointers
    <2>1. pointers \in Seq({Pointer(roomy, array, i) : i \in DOMAIN items})
      BY <1>4
    <2> HIDE DEF pointers
    <2> QED
      BY <2>1, ConcatEmptySeq
  <1>6. \A i \in DOMAIN items : over[i] = items[i]
    BY Override
  <1>7. /\ DOMAIN pointers = DOMAIN items
        /\ \A i \in DOMAIN items :
               /\ pointers[i].array = array
               /\ pointers[i].block = roomy.arrays[array].block
               /\ pointers[i].item = i
    BY DEF Pointer
  <1> HIDE DEF roomy, over, pointers
  <1>8. /\ DOMAIN r = DOMAIN roomy
        /\ r.IE_array = roomy.IE_array /\ r.protocolIEs = roomy.protocolIEs
        /\ r.lists = [roomy.lists EXCEPT ![list] = pointers]
        /\ r.arrays = [roomy.arrays EXCEPT ![array].items = over]
        /\ r.subsequent = roomy.subsequent
    BY <1>2, <1>5 DEF Shape, Reset
  <1> HIDE DEF r
  <1>9. /\ DOMAIN r.lists = Lists /\ r.lists[list] = pointers
        /\ \A l \in Lists \ {list} : r.lists[l] = roomy.lists[l]
        /\ DOMAIN r.arrays = Arrays(c)
        /\ \A a \in Arrays(c) \ {array} : r.arrays[a] = roomy.arrays[a]
        /\ r.arrays[array] = [roomy.arrays[array] EXCEPT !.items = over]
    BY <1>2, <1>8 DEF Shape
  <1>10. /\ DOMAIN r.arrays[array] = {"block", "size", "items"}
         /\ r.arrays[array].items = over
         /\ r.arrays[array].block = roomy.arrays[array].block
         /\ r.arrays[array].size = roomy.arrays[array].size
    BY <1>2, <1>9 DEF Shape
  <1>11. Shape(c, r)
    BY <1>2, <1>8, <1>9, <1>10 DEF Shape
  <1>12. Items(r, list) = items
    <2>1. \A i \in DOMAIN items : Item(r, r.lists[list][i]) = items[i]
      BY <1>6, <1>7, <1>9, <1>10 DEF Item
    <2>2. DOMAIN r.lists[list] = DOMAIN items
      BY <1>7, <1>9
    <2>3. Items(r, list) = [i \in DOMAIN items |-> items[i]]
      BY <2>1, <2>2 DEF Items
    <2> QED
      BY <1>4, <2>3
  <1>13. Balanced(roomy) => Balanced(r)
    <2>1. Freed(r) = Freed(roomy)
      BY <1>2, <1>9, <1>10 DEF Freed, Shape
    <2> QED
      BY <1>8, <2>1 DEF Balanced
  <1> QED
    BY <1>1, <1>2, <1>7, <1>8, <1>9, <1>11, <1>12, <1>13

-----------------------------------------------------------------------------
(* The items of a helper.                                                  *)

LEMMA LargestExists ==
  ASSUME NEW N \in Nat, NEW A \in SUBSET (0 .. N), A # {}
  PROVE  \E n \in A : \A m \in A : m <= n
  <1> DEFINE B == {N - a : a \in A}
  <1>1. B \in SUBSET Nat /\ B # {}
    <2>1. \A a \in 0 .. N : N - a \in Nat
      OBVIOUS
    <2> QED
      BY <2>1
  <1>2. PICK b \in B : \A y \in B : ~ (<<y, b>> \in OpToRel(<, Nat))
    BY <1>1, NatLessThanWellFounded, WFMin
  <1>3. ASSUME NEW x \in Nat, NEW y \in Nat, y < x
        PROVE  <<y, x>> \in OpToRel(<, Nat)
    BY <1>3, Zenon DEF OpToRel
  <1>4. \A y \in B : ~ (y < b)
    BY <1>1, <1>2, <1>3, Zenon
  <1>5. PICK n \in A : b = N - n
    OBVIOUS
  <1>6. \A m \in A : m \in 0 .. N /\ ~ (N - m < N - n)
    BY <1>4, <1>5
  <1> QED
    BY <1>6

\* What is before an unknown cause is a beginning of the list, so SetItems is
\* given a list.
LEMMA NotAdmittedIsSeq ==
  ASSUME NEW h, IsList(h.not_admitted)
  PROVE  IsSeq(NotAdmittedItems(h)) /\ Len(h.not_admitted) \in Nat
  <1> DEFINE actions == h.not_admitted
             known == {n \in 0 .. Len(actions) : KnownCauses(SubSeq(actions, 1, n))}
             n == CHOOSE i \in known : \A m \in known : m <= i
             before == BeforeUnknown(actions)
  <1>1. PICK S : actions \in Seq(S)
    BY DEF IsList
  <1>2. Len(actions) \in Nat
    BY <1>1
  <1>3. 0 \in known
    <2>1. SubSeq(actions, 1, 0) = <<>>
      BY SubSeqEmpty
    <2>2. KnownCauses(<<>>)
      BY DEF KnownCauses
    <2>3. 0 \in 0 .. Len(actions)
      BY <1>2
    <2>4. KnownCauses(SubSeq(actions, 1, 0))
      BY <2>1, <2>2, Zenon
    <2> QED
      BY <2>3, <2>4, Zenon
  <1>4. n \in 0 .. Len(actions)
    <2>1. \E i \in known : \A m \in known : m <= i
      BY <1>2, <1>3, LargestExists
    <2> QED
      BY <2>1
  <1>5. before = SubSeq(actions, 1, n)
    BY DEF BeforeUnknown
  <1> HIDE DEF n, before
  <1>6. before \in Seq(S)
    BY <1>1, <1>4, <1>5
  <1>7. Len(before) \in Nat /\ DOMAIN before = 1 .. Len(before)
    BY <1>6
  <1>8. NotAdmittedItems(h) = [i \in DOMAIN before |-> NotAdmittedItems(h)[i]]
    BY DEF NotAdmittedItems, before
  <1>9. NotAdmittedItems(h) \in Seq({NotAdmittedItems(h)[i] : i \in DOMAIN before})
    BY <1>7, <1>8
  <1> QED
    BY <1>2, <1>9 DEF IsSeq

LEMMA AdmittedIsSeq ==
  ASSUME NEW h, IsList(h.admitted)
  PROVE  IsSeq(AdmittedItems(h)) /\ Len(h.admitted) \in Nat
  <1>1. PICK S : h.admitted \in Seq(S)
    BY DEF IsList
  <1>2. Len(h.admitted) \in Nat /\ DOMAIN h.admitted = 1 .. Len(h.admitted)
    BY <1>1
  <1>3. AdmittedItems(h) = [i \in 1 .. Len(h.admitted) |-> AdmittedItems(h)[i]]
    BY <1>2 DEF AdmittedItems
  <1>4. AdmittedItems(h) \in Seq({AdmittedItems(h)[i] : i \in 1 .. Len(h.admitted)})
    BY <1>2, <1>3
  <1> QED
    BY <1>2, <1>4 DEF IsSeq

LEMMA ActionsAreSeq ==
  ASSUME NEW h, IsList(h.actions)
  PROVE  IsSeq(ActionsToBeSetup(h)) /\ Len(h.actions) \in Nat
  <1>1. PICK S : h.actions \in Seq(S)
    BY DEF IsList
  <1>2. Len(h.actions) \in Nat /\ DOMAIN h.actions = 1 .. Len(h.actions)
    BY <1>1
  <1>3. ActionsToBeSetup(h) = [i \in 1 .. Len(h.actions) |-> ActionsToBeSetup(h)[i]]
    BY <1>2 DEF ActionsToBeSetup
  <1>4. ActionsToBeSetup(h) \in Seq({ActionsToBeSetup(h)[i] : i \in 1 .. Len(h.actions)})
    BY <1>2, <1>3
  <1> QED
    BY <1>2, <1>4 DEF IsSeq

-----------------------------------------------------------------------------
(* The classes.  Two objects of a class, whatever they were used for, are  *)
(* given the same helper: they then hold the same message.                 *)

SameUse(c, o, x, rx, ry) ==
    /\ Shape(c, rx)
    /\ Balanced(x) => Balanced(rx)
    /\ Pdu(c, rx, o) = Pdu(c, ry, o)

LEMMA UseAdded ==
  ASSUME NEW c \in Classes, ~FilledOnce(c), NEW x, Shape(c, x), NEW y, Shape(c, y),
         NEW o \in DOMAIN Headings[c], NEW entries, Agree(x, y, entries)
  PROVE  SameUse(c, o, x, SetAndAdd(x, o, entries), SetAndAdd(y, o, entries))
  <1> DEFINE rx == SetAndAdd(x, o, entries)
  <1>1. Shape(c, rx) /\ rx.arrays = x.arrays /\ rx.subsequent = x.subsequent
    <2>1. IsSeq(entries)
      BY DEF Agree
    <2>2. /\ Shape(c, rx)
          /\ rx.lists = x.lists /\ rx.arrays = x.arrays
          /\ rx.subsequent = x.subsequent
          /\ rx.protocolIEs[o] = [k \in DOMAIN entries |-> entries[k].at]
      BY <2>1, SetAndAddElements
    <2> QED
      BY <2>2
  <1>2. Pdu(c, rx, o) = Pdu(c, SetAndAdd(y, o, entries), o)
    BY SameAdded
  <1> HIDE DEF rx
  <1>3. Balanced(x) => Balanced(rx)
    BY <1>1 DEF Balanced, Freed
  <1>4. SameUse(c, o, x, rx, SetAndAdd(y, o, entries))
    BY <1>1, <1>2, <1>3 DEF SameUse
  <1> QED
    BY <1>4 DEF rx

LEMMA UseFilled ==
  ASSUME NEW c \in Classes, FilledOnce(c), NEW x, Shape(c, x), NEW y, Shape(c, y),
         NEW o \in DOMAIN Headings[c], NEW entries, Agree(x, y, entries),
         \A k \in DOMAIN All(c, o) : \E m \in DOMAIN entries : entries[m].at = All(c, o)[k]
  PROVE  SameUse(c, o, x, Set(x, o, entries), Set(y, o, entries))
  <1> DEFINE rx == Set(x, o, entries)
  <1>1. Shape(c, rx) /\ rx.arrays = x.arrays /\ rx.subsequent = x.subsequent
    BY SetElements
  <1>2. Pdu(c, rx, o) = Pdu(c, Set(y, o, entries), o)
    BY SameFilled
  <1> HIDE DEF rx
  <1>3. Balanced(x) => Balanced(rx)
    BY <1>1 DEF Balanced, Freed
  <1>4. SameUse(c, o, x, rx, Set(y, o, entries))
    BY <1>1, <1>2, <1>3 DEF SameUse
  <1> QED
    BY <1>4 DEF rx

LEMMA PlainEntry ==
  ASSUME NEW x, NEW y, NEW i, NEW id, NEW criticality, NEW name, NEW content,
         name \notin ListNames
  PROVE  LET e == At(i, Element(id, criticality, name, content)).element
         IN  Value(x, e) = Value(y, e)
  <1> DEFINE e == Element(id, criticality, name, content)
  <1>1. e.present = name
    BY DEF Element
  <1> HIDE DEF e
  <1>2. Value(x, e) = Value(y, e)
    BY <1>1, PlainValue
  <1>3. At(i, e).element = e
    BY DEF At
  <1> QED
    BY <1>2, <1>3 DEF e

\* The value of an element that is a list is what the list holds.
LEMMA DetailsValue ==
  ASSUME NEW x, NEW y, NEW e, e.present = "RICsubscriptionDetails",
         Items(x, "to_be_setup") = Items(y, "to_be_setup")
  PROVE  Value(x, e) = Value(y, e)
  <1>1. /\ e.present # NOTHING
        /\ e.present \notin {"RICaction_Admitted_List", "RICaction_NotAdmitted_List"}
    BY DEF NOTHING
  <1> QED
    BY <1>1, Zenon DEF Value

LEMMA ListValue ==
  ASSUME NEW x, NEW y, NEW e, e.present \in {"RICaction_Admitted_List", "RICaction_NotAdmitted_List"},
         Items(x, e.content) = Items(y, e.content)
  PROVE  Value(x, e) = Value(y, e)
  <1>1. e.present # NOTHING /\ e.present # "RICsubscriptionDetails"
    BY DEF NOTHING
  <1> QED
    BY <1>1, Zenon DEF Value

\* What a helper is asked for, with any two objects of its class.
LEMMA UseControlRequest ==
  ASSUME NEW x, Shape("ric_control_request", x), NEW y, Shape("ric_control_request", y), NEW h
  PROVE  SameUse("ric_control_request", "initiatingMessage", x,
                 ric_control_request_set_fields(x, h), ric_control_request_set_fields(y, h))
  <1> DEFINE c == "ric_control_request"
             common == RequestAndFunction(h)
             content == <<At(2, Element(22, reject, "RICcontrolHeader", h.control_header)),
                          At(3, Element(23, reject, "RICcontrolMessage", h.control_msg))>>
             ack == <<At(4, Element(21, reject, "RICcontrolAckRequest", h.control_ack))>>
             process == <<At(5, Element(20, reject, "RICcallProcessID", h.call_process_id))>>
             asked == Asked(h)
             called == Len(h.call_process_id) > 0
             entries == common \o content \o When(asked, ack) \o When(called, process)
  <1>1. c \in Classes /\ ~FilledOnce(c) /\ "initiatingMessage" \in DOMAIN Headings[c]
    BY DEF Classes, Headings, FilledOnce
  <1>2. /\ "RICcontrolHeader" \notin ListNames /\ "RICcontrolMessage" \notin ListNames
        /\ "RICcontrolAckRequest" \notin ListNames /\ "RICcallProcessID" \notin ListNames
    BY DEF ListNames
  <1>3. Agree(x, y, common)
    BY AgreeRequestAndFunction
  <1>4. Agree(x, y, content)
    <2> DEFINE a == At(2, Element(22, reject, "RICcontrolHeader", h.control_header))
               b == At(3, Element(23, reject, "RICcontrolMessage", h.control_msg))
    <2>1. Value(x, a.element) = Value(y, a.element) /\ Value(x, b.element) = Value(y, b.element)
      BY <1>2, PlainEntry
    <2> HIDE DEF a, b
    <2>2. Agree(x, y, <<a, b>>)
      BY <2>1, AgreeTwo
    <2> QED
      BY <2>2 DEF a, b
  <1>5. Agree(x, y, ack) /\ Agree(x, y, process)
    <2> DEFINE a == Element(21, reject, "RICcontrolAckRequest", h.control_ack)
               p == Element(20, reject, "RICcallProcessID", h.call_process_id)
    <2>1. a.present = "RICcontrolAckRequest" /\ p.present = "RICcallProcessID"
      BY DEF Element
    <2> HIDE DEF a, p
    <2>2. Value(x, a) = Value(y, a) /\ Value(x, p) = Value(y, p)
      BY <1>2, <2>1, PlainValue
    <2>3. Agree(x, y, <<At(4, a)>>) /\ Agree(x, y, <<At(5, p)>>)
      BY <2>2, AgreeOne
    <2> QED
      BY <2>3 DEF a, p
  <1>6. asked \in BOOLEAN /\ called \in BOOLEAN
    BY DEF Asked
  <1> HIDE DEF common, content, ack, process, asked, called
  <1>7. Agree(x, y, When(asked, ack)) /\ Agree(x, y, When(called, process))
    BY <1>5, <1>6, AgreeWhen
  <1>8. Agree(x, y, common \o content)
    BY <1>3, <1>4, AgreeConcat
  <1>9. Agree(x, y, common \o content \o When(asked, ack))
    BY <1>7, <1>8, AgreeConcat
  <1>10. Agree(x, y, entries)
    BY <1>7, <1>9, AgreeConcat
  <1> HIDE DEF entries, c
  <1>11. SameUse(c, "initiatingMessage", x, SetAndAdd(x, "initiatingMessage", entries),
                 SetAndAdd(y, "initiatingMessage", entries))
    BY <1>1, <1>10, UseAdded DEF c
  <1> QED
    BY <1>11 DEF ric_control_request_set_fields, entries, common, content, ack, process, asked,
                 called, c

LEMMA UseDeleteResponse ==
  ASSUME NEW x, Shape("subscription_delete_response", x),
         NEW y, Shape("subscription_delete_response", y),
         NEW o \in DOMAIN Headings["subscription_delete_response"], NEW h
  PROVE  SameUse("subscription_delete_response", o, x,
                 subscription_delete_response_set_fields(x, o, h),
                 subscription_delete_response_set_fields(y, o, h))
  <1> DEFINE c == "subscription_delete_response"
  <1>1. c \in Classes /\ ~FilledOnce(c)
    BY DEF Classes, Headings, FilledOnce
  <1>2. Agree(x, y, RequestAndFunction(h))
    BY AgreeRequestAndFunction
  <1> HIDE DEF c
  <1>3. SameUse(c, o, x, SetAndAdd(x, o, RequestAndFunction(h)),
                SetAndAdd(y, o, RequestAndFunction(h)))
    BY <1>1, <1>2, UseAdded DEF c
  <1> QED
    BY <1>3 DEF c, subscription_delete_response_set_fields

\* The entries of elements 0 and 1.
LEMMA RequestAndFunctionAt ==
  ASSUME NEW h
  PROVE  LET r == RequestAndFunction(h)
         IN  r \in Seq({r[1], r[2]}) /\ Len(r) = 2 /\ r[1].at = 0 /\ r[2].at = 1
  <1> DEFINE a == Element(29, reject, "RICrequestID",
                          [ricRequestorID |-> h.req_id, ricInstanceID |-> 0])
             b == Element(5, reject, "RANfunctionID", h.func_id)
             first == At(0, a)
             second == At(1, b)
  <1> HIDE DEF a, b
  <1>1. first.at = 0 /\ second.at = 1
    BY DEF At
  <1> HIDE DEF first, second
  <1>2. LET r == <<first, second>>
        IN  r \in Seq({r[1], r[2]}) /\ Len(r) = 2 /\ r[1] = first /\ r[2] = second
    OBVIOUS
  <1>3. RequestAndFunction(h) = <<first, second>>
    BY DEF RequestAndFunction, first, second, a, b
  <1> QED
    BY <1>1, <1>2, <1>3

LEMMA UseDelete ==
  ASSUME NEW x, Shape("subscription_delete", x), NEW y, Shape("subscription_delete", y), NEW h
  PROVE  SameUse("subscription_delete", "initiatingMessage", x,
                 subscription_delete_set_fields(x, h), subscription_delete_set_fields(y, h))
  <1> DEFINE c == "subscription_delete"
             o == "initiatingMessage"
             entries == RequestAndFunction(h)
  <1>1. c \in Classes /\ FilledOnce(c) /\ o \in DOMAIN Headings[c]
    BY DEF Classes, Headings, FilledOnce
  <1>2. Agree(x, y, entries)
    BY AgreeRequestAndFunction
  <1>3. All(c, o) = [i \in 1 .. 2 |-> i - 1]
    BY DEF All, Headings, Heading
  <1>4. entries[1].at = 0 /\ entries[2].at = 1 /\ 1 \in DOMAIN entries /\ 2 \in DOMAIN entries
    <2>1. /\ entries \in Seq({entries[1], entries[2]}) /\ Len(entries) = 2
          /\ entries[1].at = 0 /\ entries[2].at = 1
      BY RequestAndFunctionAt
    <2> HIDE DEF entries
    <2>2. DOMAIN entries = 1 .. 2
      BY <2>1
    <2> QED
      BY <2>1, <2>2
  <1>5. \A k \in DOMAIN All(c, o) : \E m \in DOMAIN entries : entries[m].at = All(c, o)[k]
    <2>1. \A k \in 1 .. 2 : k - 1 = 0 \/ k - 1 = 1
      OBVIOUS
    <2> HIDE DEF entries
    <2> QED
      BY <1>3, <1>4, <2>1
  <1> HIDE DEF c, o, entries
  <1>6. SameUse(c, o, x, Set(x, o, entries), Set(y, o, entries))
    BY <1>1, <1>2, <1>5, UseFilled DEF c
  <1> QED
    BY <1>6 DEF c, o, entries, subscription_delete_set_fields

LEMMA UseControlResponse ==
  ASSUME NEW x, Shape("ric_control_response", x), NEW y, Shape("ric_control_response", y),
         NEW o \in DOMAIN Headings["ric_control_response"], NEW h
  PROVE  SameUse("ric_control_response", o, x,
                 ric_control_response_set_fields(x, o, h),
                 ric_control_response_set_fields(y, o, h))
  <1> DEFINE c == "ric_control_response"
             third == IF o = "successfulOutcome"
                      THEN Element(24, reject, "RICcontrolStatus", h.control_status)
                      ELSE Element(1, ignore, "Cause", CauseOf(h))
             common == RequestAndFunction(h)
             entry == At(2, third)
             entries == common \o <<entry>>
  <1>1. c \in Classes /\ FilledOnce(c)
    BY DEF Classes, Headings, FilledOnce
  <1>2. Value(x, third) = Value(y, third)
    <2>1. third.present \notin ListNames
      BY DEF Element, ListNames
    <2> HIDE DEF third
    <2> QED
      BY <2>1, PlainValue
  <1>3. entry.at = 2
    BY DEF At
  <1>4. Agree(x, y, entries)
    <2>1. Agree(x, y, common)
      BY AgreeRequestAndFunction
    <2>2. Agree(x, y, <<At(2, third)>>)
      <3> HIDE DEF third
      <3> QED
        BY <1>2, AgreeOne
    <2> HIDE DEF third, common
    <2> QED
      BY <2>1, <2>2, AgreeConcat
  <1>5. All(c, o) = [i \in 1 .. 3 |-> i - 1]
    BY DEF All, Headings, Heading
  <1>6. /\ entries[1].at = 0 /\ entries[2].at = 1 /\ entries[3].at = 2
        /\ 1 \in DOMAIN entries /\ 2 \in DOMAIN entries /\ 3 \in DOMAIN entries
    <2>1. /\ common \in Seq({common[1], common[2]}) /\ Len(common) = 2
          /\ common[1].at = 0 /\ common[2].at = 1
      BY RequestAndFunctionAt
    <2> HIDE DEF common, entry
    <2>2. <<entry>> \in Seq({entry}) /\ Len(<<entry>>) = 1 /\ <<entry>>[1] = entry
      OBVIOUS
    <2> DEFINE S == {common[1], common[2], entry}
    <2>3. common \in Seq(S) /\ <<entry>> \in Seq(S)
      BY <2>1, <2>2
    <2>4. /\ Len(entries) = 3 /\ entries \in Seq(S)
          /\ entries[1] = common[1] /\ entries[2] = common[2] /\ entries[3] = entry
      BY <2>1, <2>2, <2>3, ConcatProperties
    <2> HIDE DEF entries, S
    <2> QED
      BY <1>3, <2>1, <2>4
  <1>7. \A k \in DOMAIN All(c, o) : \E m \in DOMAIN entries : entries[m].at = All(c, o)[k]
    <2>1. \A k \in 1 .. 3 : k - 1 = 0 \/ k - 1 = 1 \/ k - 1 = 2
      OBVIOUS
    <2> HIDE DEF entries
    <2> QED
      BY <1>5, <1>6, <2>1
  <1> HIDE DEF c, entries
  <1>8. SameUse(c, o, x, Set(x, o, entries), Set(y, o, entries))
    BY <1>1, <1>4, <1>7, UseFilled DEF c
  <1> QED
    BY <1>8 DEF c, entries, entry, common, third, ric_control_response_set_fields

LEMMA UseIndication ==
  ASSUME NEW x, Shape("ric_indication", x), NEW y, Shape("ric_indication", y), NEW h
  PROVE  SameUse("ric_indication", "initiatingMessage", x,
                 ric_indication_set_fields(x, h), ric_indication_set_fields(y, h))
  <1> DEFINE c == "ric_indication"
             common == RequestAndFunction(h)
             action == At(2, Element(15, reject, "RICactionID", h.action_id))
             number == At(3, Element(27, reject, "RICindicationSN", h.indication_sn))
             type == At(4, Element(28, reject, "RICindicationType", h.indication_type))
             header == At(5, Element(25, reject, "RICindicationHeader", h.indication_header))
             message == At(6, Element(26, reject, "RICindicationMessage", h.indication_msg))
             process == At(7, Element(20, reject, "RICcallProcessID", h.indication_msg))
             called == Len(h.call_process_id) > 0
             content == <<action, number, type, header, message>>
             entries == common \o content \o When(called, <<process>>)
  <1>1. c \in Classes /\ ~FilledOnce(c) /\ "initiatingMessage" \in DOMAIN Headings[c]
    BY DEF Classes, Headings, FilledOnce
  <1>2. /\ "RICactionID" \notin ListNames /\ "RICindicationSN" \notin ListNames
        /\ "RICindicationType" \notin ListNames /\ "RICindicationHeader" \notin ListNames
        /\ "RICindicationMessage" \notin ListNames /\ "RICcallProcessID" \notin ListNames
    BY DEF ListNames
  <1>3. Agree(x, y, common)
    BY AgreeRequestAndFunction
  <1>4. /\ Value(x, action.element) = Value(y, action.element)
        /\ Value(x, number.element) = Value(y, number.element)
        /\ Value(x, type.element) = Value(y, type.element)
        /\ Value(x, header.element) = Value(y, header.element)
        /\ Value(x, message.element) = Value(y, message.element)
    <2>1. Value(x, action.element) = Value(y, action.element)
      BY <1>2, PlainEntry
    <2>2. Value(x, number.element) = Value(y, number.element)
      BY <1>2, PlainEntry
    <2>3. Value(x, type.element) = Value(y, type.element)
      BY <1>2, PlainEntry
    <2>4. Value(x, header.element) = Value(y, header.element)
      BY <1>2, PlainEntry
    <2>5. Value(x, message.element) = Value(y, message.element)
      BY <1>2, PlainEntry
    <2> QED
      BY <2>1, <2>2, <2>3, <2>4, <2>5
  <1>5. Agree(x, y, <<process>>)
    <2> DEFINE p == Element(20, reject, "RICcallProcessID", h.indication_msg)
    <2>1. p.present = "RICcallProcessID"
      BY DEF Element
    <2> HIDE DEF p
    <2>2. Value(x, p) = Value(y, p)
      BY <1>2, <2>1, PlainValue
    <2>3. Agree(x, y, <<At(7, p)>>)
      BY <2>2, AgreeOne
    <2> QED
      BY <2>3 DEF p
  <1>6. called \in BOOLEAN
    OBVIOUS
  <1> HIDE DEF common, action, number, type, header, message, process, called
  <1>7. Agree(x, y, content)
    BY <1>4, AgreeFive
  <1>8. Agree(x, y, When(called, <<process>>))
    BY <1>5, <1>6, AgreeWhen
  <1> HIDE DEF content
  <1>9. Agree(x, y, common \o content)
    BY <1>3, <1>7, AgreeConcat
  <1>10. Agree(x, y, entries)
    BY <1>8, <1>9, AgreeConcat
  <1> HIDE DEF entries, c
  <1>11. SameUse(c, "initiatingMessage", x, SetAndAdd(x, "initiatingMessage", entries),
                 SetAndAdd(y, "initiatingMessage", entries))
    BY <1>1, <1>10, UseAdded DEF c
  <1> QED
    BY <1>11 DEF ric_indication_set_fields, entries, content, common, action, number, type,
                 header, message, process, called, c

\* The list of actions in the details of the subscription.
LEMMA UseSubscriptionRequest ==
  ASSUME NEW x, Shape("subscription_request", x), NEW y, Shape("subscription_request", y),
         NEW h, IsList(h.actions)
  PROVE  SameUse("subscription_request", "initiatingMessage", x,
                 subscription_request_set_fields(x, h), subscription_request_set_fields(y, h))
  <1> DEFINE c == "subscription_request"
             items == ActionsToBeSetup(h)
             n == Len(h.actions)
             X == SetItems(x, "to_be_setup", "action_array", items, n)
             Y == SetItems(y, "to_be_setup", "action_array", items, n)
             details == Element(30, reject, "RICsubscriptionDetails", h.event_def)
             common == RequestAndFunction(h)
             entries == common \o <<At(2, details)>>
  <1>1. /\ c \in Classes /\ ~FilledOnce(c) /\ "initiatingMessage" \in DOMAIN Headings[c]
        /\ "action_array" \in Arrays(c) /\ "to_be_setup" \in Lists
    BY DEF Classes, Headings, FilledOnce, Arrays, Lists
  <1>2. IsSeq(items) /\ n \in Nat
    BY ActionsAreSeq
  <1>3. details.present = "RICsubscriptionDetails"
    BY DEF Element
  <1> HIDE DEF items, n, details, c
  <1>4. Shape(c, X) /\ Items(X, "to_be_setup") = items /\ (Balanced(x) => Balanced(X))
    BY <1>1, <1>2, SetItemsReads DEF c
  <1>5. Shape(c, Y) /\ Items(Y, "to_be_setup") = items
    BY <1>1, <1>2, SetItemsReads DEF c
  <1> HIDE DEF X, Y
  <1>6. Agree(X, Y, entries)
    <2>1. Value(X, details) = Value(Y, details)
      BY <1>3, <1>4, <1>5, DetailsValue
    <2>2. Agree(X, Y, <<At(2, details)>>)
      BY <2>1, AgreeOne
    <2>3. Agree(X, Y, common)
      BY AgreeRequestAndFunction
    <2> HIDE DEF common
    <2> QED
      BY <2>2, <2>3, AgreeConcat
  <1> HIDE DEF entries
  <1>7. SameUse(c, "initiatingMessage", X, SetAndAdd(X, "initiatingMessage", entries),
                SetAndAdd(Y, "initiatingMessage", entries))
    BY <1>1, <1>4, <1>5, <1>6, UseAdded
  <1>8. SameUse(c, "initiatingMessage", x, SetAndAdd(X, "initiatingMessage", entries),
                SetAndAdd(Y, "initiatingMessage", entries))
    BY <1>4, <1>7 DEF SameUse
  <1> QED
    BY <1>8 DEF subscription_request_set_fields, entries, common, details, X, Y, items, n, c

\* The two lists of a response, in arrays of their own.
LEMMA ItemsKept ==
  ASSUME NEW x, NEW y, NEW l, NEW a, x.lists[l] = y.lists[l], x.arrays[a] = y.arrays[a],
         \A i \in DOMAIN y.lists[l] : y.lists[l][i].array = a
  PROVE  Items(x, l) = Items(y, l)
  <1>1. \A i \in DOMAIN y.lists[l] : Item(x, y.lists[l][i]) = Item(y, y.lists[l][i])
    BY DEF Item
  <1> QED
    BY <1>1 DEF Items

\* The object of a successful response before its elements are added.
BothLists(obj, h) ==
    LET admitted == SetItems(obj, "admitted", "ie_admitted_list", AdmittedItems(h), Len(h.admitted))
    IN  IF h.not_admitted = <<>> THEN admitted
        ELSE Set(SetNotAdmitted(admitted, "not_admitted", h), "successfulOutcome",
                 <<At(3, Element(18, reject, "RICaction_NotAdmitted_List", "not_admitted"))>>)

LEMMA BothListsRead ==
  ASSUME NEW x, Shape("subscription_response", x), NEW h,
         IsList(h.admitted), IsList(h.not_admitted)
  PROVE  LET r == BothLists(x, h)
         IN  /\ Shape("subscription_response", r)
             /\ Balanced(x) => Balanced(r)
             /\ Items(r, "admitted") = AdmittedItems(h)
             /\ h.not_admitted # <<>> => Items(r, "not_admitted") = NotAdmittedItems(h)
  <1> DEFINE c == "subscription_response"
             items == AdmittedItems(h)
             n == Len(h.admitted)
             A == SetItems(x, "admitted", "ie_admitted_list", items, n)
             refusals == NotAdmittedItems(h)
             m == Len(h.not_admitted)
             B == SetItems(A, "not_admitted", "ie_not_admitted_list", refusals, m)
             entries == <<At(3, Element(18, reject, "RICaction_NotAdmitted_List", "not_admitted"))>>
             C == Set(B, "successfulOutcome", entries)
  <1>1. /\ c \in Classes /\ "successfulOutcome" \in DOMAIN Headings[c]
        /\ "ie_admitted_list" \in Arrays(c) /\ "ie_not_admitted_list" \in Arrays(c)
        /\ "admitted" \in Lists /\ "not_admitted" \in Lists
    BY DEF Classes, Headings, Arrays, Lists
  <1>2. IsSeq(items) /\ n \in Nat /\ IsSeq(refusals) /\ m \in Nat
    BY AdmittedIsSeq, NotAdmittedIsSeq
  <1>3. BothLists(x, h) = IF h.not_admitted = <<>> THEN A ELSE C
    BY DEF BothLists, SetNotAdmitted
  <1> HIDE DEF items, n, refusals, m, entries, c
  <1>4. /\ Shape(c, A) /\ Items(A, "admitted") = items
        /\ \A i \in DOMAIN A.lists["admitted"] : A.lists["admitted"][i].array = "ie_admitted_list"
        /\ Balanced(x) => Balanced(A)
    BY <1>1, <1>2, SetItemsReads DEF c
  <1> HIDE DEF A
  <1>5. /\ Shape(c, B) /\ Items(B, "not_admitted") = refusals
        /\ B.lists["admitted"] = A.lists["admitted"]
        /\ B.arrays["ie_admitted_list"] = A.arrays["ie_admitted_list"]
        /\ Balanced(A) => Balanced(B)
    <2>1. /\ "admitted" \in Lists \ {"not_admitted"}
          /\ "ie_admitted_list" \in Arrays(c) \ {"ie_not_admitted_list"}
      BY <1>1
    <2>2. /\ Shape(c, B) /\ Items(B, "not_admitted") = refusals
          /\ \A l \in Lists \ {"not_admitted"} : B.lists[l] = A.lists[l]
          /\ \A a \in Arrays(c) \ {"ie_not_admitted_list"} : B.arrays[a] = A.arrays[a]
          /\ Balanced(A) => Balanced(B)
      BY <1>1, <1>2, <1>4, SetItemsReads
    <2> QED
      BY <2>1, <2>2
  <1> HIDE DEF B
  <1>6. Items(B, "admitted") = items
    BY <1>4, <1>5, ItemsKept
  <1>7. /\ Shape(c, C) /\ C.lists = B.lists /\ C.arrays = B.arrays /\ C.subsequent = B.subsequent
    BY <1>1, <1>5, SetElements
  <1> HIDE DEF C
  <1>8. Items(C, "admitted") = items /\ Items(C, "not_admitted") = refusals
    <2>1. \A p : Item(C, p) = Item(B, p)
      BY <1>7 DEF Item
    <2> QED
      BY <1>5, <1>6, <1>7, <2>1 DEF Items
  <1>9. Balanced(B) => Balanced(C)
    BY <1>7 DEF Balanced, Freed
  <1> QED
    BY <1>3, <1>4, <1>5, <1>7, <1>8, <1>9 DEF items, refusals, c

LEMMA UseResponse ==
  ASSUME NEW x, Shape("subscription_response", x), NEW y, Shape("subscription_response", y),
         NEW h, IsList(h.admitted), IsList(h.not_admitted)
  PROVE  SameUse("subscription_response", "successfulOutcome", x,
                 set_fields_success(x, h), set_fields_success(y, h))
  <1> DEFINE c == "subscription_response"
             X == BothLists(x, h)
             Y == BothLists(y, h)
             second == Element(17, reject, IF h.admitted = <<>> THEN NOTHING
                                           ELSE "RICaction_Admitted_List", "admitted")
             third == Element(18, reject, "RICaction_NotAdmitted_List", "not_admitted")
             whole == h.not_admitted # <<>> /\ KnownCauses(h.not_admitted)
             common == RequestAndFunction(h)
             entries == common \o <<At(2, second)>> \o When(whole, <<At(3, third)>>)
  <1>1. c \in Classes /\ ~FilledOnce(c) /\ "successfulOutcome" \in DOMAIN Headings[c]
    BY DEF Classes, Headings, FilledOnce
  <1>2. /\ Shape(c, X) /\ Items(X, "admitted") = AdmittedItems(h)
        /\ h.not_admitted # <<>> => Items(X, "not_admitted") = NotAdmittedItems(h)
        /\ Balanced(x) => Balanced(X)
    BY BothListsRead
  <1>3. /\ Shape(c, Y) /\ Items(Y, "admitted") = AdmittedItems(h)
        /\ h.not_admitted # <<>> => Items(Y, "not_admitted") = NotAdmittedItems(h)
    BY BothListsRead
  <1> HIDE DEF X, Y
  <1>4. Value(X, second) = Value(Y, second)
    <2>1. /\ second.content = "admitted"
          /\ second.present = NOTHING \/ second.present = "RICaction_Admitted_List"
      BY DEF Element
    <2>2. NOTHING \notin ListNames
      BY DEF NOTHING, ListNames
    <2> HIDE DEF second
    <2>3. CASE second.present = NOTHING
      BY <2>2, <2>3, PlainValue
    <2>4. CASE second.present = "RICaction_Admitted_List"
      BY <1>2, <1>3, <2>1, <2>4, ListValue
    <2> QED
      BY <2>1, <2>3, <2>4
  <1>5. ASSUME whole PROVE Value(X, third) = Value(Y, third)
    <2>1. third.content = "not_admitted" /\ third.present = "RICaction_NotAdmitted_List"
      BY DEF Element
    <2>2. Items(X, "not_admitted") = Items(Y, "not_admitted")
      BY <1>2, <1>3, <1>5
    <2> HIDE DEF third
    <2> QED
      BY <2>1, <2>2, ListValue
  <1>6. whole \in BOOLEAN
    OBVIOUS
  <1> HIDE DEF second, third, whole, common
  <1>7. Agree(X, Y, common)
    BY AgreeRequestAndFunction DEF common
  <1>8. Agree(X, Y, <<At(2, second)>>)
    BY <1>4, AgreeOne
  <1>9. Agree(X, Y, When(whole, <<At(3, third)>>))
    <2>1. whole => Agree(X, Y, <<At(3, third)>>)
      BY <1>5, AgreeOne
    <2> QED
      BY <1>6, <2>1, AgreeWhen
  <1>10. Agree(X, Y, common \o <<At(2, second)>>)
    BY <1>7, <1>8, AgreeConcat
  <1>11. Agree(X, Y, entries)
    BY <1>9, <1>10, AgreeConcat
  <1> HIDE DEF entries, c
  <1>12. SameUse(c, "successfulOutcome", X, SetAndAdd(X, "successfulOutcome", entries),
                 SetAndAdd(Y, "successfulOutcome", entries))
    BY <1>1, <1>2, <1>3, <1>11, UseAdded
  <1>13. SameUse(c, "successfulOutcome", x, SetAndAdd(X, "successfulOutcome", entries),
                 SetAndAdd(Y, "successfulOutcome", entries))
    BY <1>2, <1>12 DEF SameUse
  <1>14. /\ set_fields_success(x, h) = SetAndAdd(X, "successfulOutcome", entries)
         /\ set_fields_success(y, h) = SetAndAdd(Y, "successfulOutcome", entries)
    BY DEF set_fields_success, BothLists, X, Y, entries, common, second, third, whole
  <1> QED
    BY <1>13, <1>14 DEF c

LEMMA UseFailure ==
  ASSUME NEW x, Shape("subscription_response", x), NEW y, Shape("subscription_response", y),
         NEW h, IsList(h.not_admitted)
  PROVE  SameUse("subscription_response", "unsuccessfulOutcome", x,
                 set_fields_unsuccess(x, h), set_fields_unsuccess(y, h))
  <1> DEFINE c == "subscription_response"
             o == "unsuccessfulOutcome"
             list == "failure_not_admitted"
             refusals == NotAdmittedItems(h)
             m == Len(h.not_admitted)
             third == Element(18, reject, IF h.not_admitted = <<>> THEN NOTHING
                                          ELSE "RICaction_NotAdmitted_List", list)
             refused == <<At(2, third)>>
             X == SetItems(x, list, "ie_not_admitted_list", refusals, m)
             Y == SetItems(y, list, "ie_not_admitted_list", refusals, m)
             SX == Set(X, o, refused)
             SY == Set(Y, o, refused)
             whole == KnownCauses(h.not_admitted)
             common == RequestAndFunction(h)
             entries == common \o When(whole, refused)
  <1>1. /\ c \in Classes /\ ~FilledOnce(c) /\ o \in DOMAIN Headings[c]
        /\ "ie_not_admitted_list" \in Arrays(c) /\ list \in Lists
    BY DEF Classes, Headings, FilledOnce, Arrays, Lists
  <1>2. IsSeq(refusals) /\ m \in Nat
    BY NotAdmittedIsSeq
  <1>3. /\ third.content = list
        /\ third.present = NOTHING \/ third.present = "RICaction_NotAdmitted_List"
    BY DEF Element
  <1>4. whole \in BOOLEAN
    BY DEF KnownCauses
  <1>5. /\ set_fields_unsuccess(x, h) = SetAndAdd(SX, o, entries)
        /\ set_fields_unsuccess(y, h) = SetAndAdd(SY, o, entries)
    BY DEF set_fields_unsuccess, SetNotAdmitted
  <1> HIDE DEF refusals, m, third, whole, common, c, o, list
  <1>6. Shape(c, X) /\ Items(X, list) = refusals /\ (Balanced(x) => Balanced(X))
    BY <1>1, <1>2, SetItemsReads DEF c
  <1>7. Shape(c, Y) /\ Items(Y, list) = refusals
    BY <1>1, <1>2, SetItemsReads DEF c
  <1> HIDE DEF X, Y, refused
  <1>8. Shape(c, SX) /\ SX.lists = X.lists /\ SX.arrays = X.arrays /\ SX.subsequent = X.subsequent
    BY <1>1, <1>6, SetElements
  <1>9. Shape(c, SY) /\ SY.lists = Y.lists /\ SY.arrays = Y.arrays
    BY <1>1, <1>7, SetElements
  <1> HIDE DEF SX, SY
  <1>10. Value(SX, third) = Value(SY, third)
    <2>1. NOTHING \notin ListNames
      BY DEF NOTHING, ListNames
    <2>2. CASE third.present = NOTHING
      BY <2>1, <2>2, PlainValue
    <2>3. CASE third.present = "RICaction_NotAdmitted_List"
      <3>1. Value(X, third) = Value(Y, third)
        BY <1>3, <1>6, <1>7, <2>3, ListValue
      <3>2. Value(SX, third) = Value(X, third) /\ Value(SY, third) = Value(Y, third)
        BY <1>8, <1>9, SameLists
      <3> QED
        BY <3>1, <3>2
    <2> QED
      BY <1>3, <2>2, <2>3
  <1>11. Agree(SX, SY, When(whole, refused))
    <2>1. Agree(SX, SY, refused)
      BY <1>10, AgreeOne DEF refused
    <2> QED
      BY <1>4, <2>1, AgreeWhen
  <1>12. Agree(SX, SY, common)
    BY AgreeRequestAndFunction DEF common
  <1>13. Agree(SX, SY, entries)
    BY <1>11, <1>12, AgreeConcat
  <1> HIDE DEF entries
  <1>14. SameUse(c, o, SX, SetAndAdd(SX, o, entries), SetAndAdd(SY, o, entries))
    BY <1>1, <1>8, <1>9, <1>13, UseAdded
  <1>15. Balanced(x) => Balanced(SX)
    BY <1>6, <1>8 DEF Balanced, Freed
  <1>16. SameUse(c, o, x, SetAndAdd(SX, o, entries), SetAndAdd(SY, o, entries))
    BY <1>14, <1>15 DEF SameUse
  <1> QED
    BY <1>5, <1>16 DEF c, o

LEMMA UseSame ==
  ASSUME NEW c \in Classes, NEW x, Shape(c, x), NEW y, Shape(c, y),
         NEW o \in DOMAIN Headings[c], NEW h \in Helpers[c]
  PROVE  SameUse(c, o, x, set_fields(c, x, o, h), set_fields(c, y, o, h))
  <1>1. c \in {"subscription_request", "subscription_response", "subscription_delete",
               "subscription_delete_response", "ric_control_request", "ric_control_response",
               "ric_indication"}
    BY DEF Classes, Headings
  <1>2. CASE c = "subscription_request"
    <2>1. o = "initiatingMessage" /\ IsList(h.actions)
      BY <1>2, HelpersAssumption DEF Headings
    <2>2. \A z : set_fields(c, z, o, h) = subscription_request_set_fields(z, h)
      BY <1>2 DEF set_fields
    <2> QED
      BY <1>2, <2>1, <2>2, UseSubscriptionRequest
  <1>3. CASE c = "subscription_response"
    <2>1. /\ o = "successfulOutcome" \/ o = "unsuccessfulOutcome"
          /\ IsList(h.admitted) /\ IsList(h.not_admitted)
      BY <1>3, HelpersAssumption DEF Headings
    <2>2. \A z : set_fields(c, z, o, h) = IF o = "successfulOutcome" THEN set_fields_success(z, h)
                                          ELSE set_fields_unsuccess(z, h)
      BY <1>3 DEF set_fields
    <2>3. CASE o = "successfulOutcome"
      BY <1>3, <2>1, <2>2, <2>3, UseResponse
    <2>4. CASE o = "unsuccessfulOutcome"
      BY <1>3, <2>1, <2>2, <2>4, UseFailure
    <2> QED
      BY <2>1, <2>3, <2>4
  <1>4. CASE c = "subscription_delete"
    <2>1. o = "initiatingMessage"
      BY <1>4 DEF Headings
    <2>2. \A z : set_fields(c, z, o, h) = subscription_delete_set_fields(z, h)
      BY <1>4 DEF set_fields
    <2> QED
      BY <1>4, <2>1, <2>2, UseDelete
  <1>5. CASE c = "subscription_delete_response"
    <2>1. \A z : set_fields(c, z, o, h) = subscription_delete_response_set_fields(z, o, h)
      BY <1>5 DEF set_fields
    <2> QED
      BY <1>5, <2>1, UseDeleteResponse
  <1>6. CASE c = "ric_control_request"
    <2>1. o = "initiatingMessage"
      BY <1>6 DEF Headings
    <2>2. \A z : set_fields(c, z, o, h) = ric_control_request_set_fields(z, h)
      BY <1>6 DEF set_fields
    <2> QED
      BY <1>6, <2>1, <2>2, UseControlRequest
  <1>7. CASE c = "ric_control_response"
    <2>1. \A z : set_fields(c, z, o, h) = ric_control_response_set_fields(z, o, h)
      BY <1>7 DEF set_fields
    <2> QED
      BY <1>7, <2>1, UseControlResponse
  <1>8. CASE c = "ric_indication"
    <2>1. o = "initiatingMessage"
      BY <1>8 DEF Headings
    <2>2. \A z : set_fields(c, z, o, h) = ric_indication_set_fields(z, h)
      BY <1>8 DEF set_fields
    <2> QED
      BY <1>8, <2>1, <2>2, UseIndication
  <1> QED
    BY <1>1, <1>2, <1>3, <1>4, <1>5, <1>6, <1>7, <1>8

-----------------------------------------------------------------------------
(* The object from its construction to its destruction.                    *)

LEMMA InitObjectInv == ObjectInit => ObjectInv /\ SentIsOfThisUse
  <1> SUFFICES ASSUME ObjectInit PROVE ObjectInv /\ SentIsOfThisUse
    OBVIOUS
  <1>1. SentIsOfThisUse
    BY DEF ObjectInit, NotUsed, SentIsOfThisUse
  <1>2. CASE class = "peer" /\ object = Destroyed(0)
    BY <1>1, <1>2 DEF ObjectInv, Alive, Destroyed
  <1>3. CASE class \in Classes /\ object = Constructed(class)
    <2>1. Shape(class, object) /\ Balanced(object)
      BY <1>3, ConstructedShape
    <2>2. class # "peer" /\ "IE_array" \in DOMAIN object
      BY <1>3, <2>1 DEF Classes, Headings, Shape
    <2> QED
      BY <1>1, <1>3, <2>1, <2>2 DEF ObjectInv, Alive
  <1> QED
    BY <1>1, <1>2, <1>3 DEF ObjectInit

LEMMA StepObjectInv ==
  ObjectInv /\ SentIsOfThisUse /\ [ObjectNext]_memory => ObjectInv' /\ SentIsOfThisUse'
  <1> SUFFICES ASSUME ObjectInv, SentIsOfThisUse, [ObjectNext]_memory
               PROVE  ObjectInv' /\ SentIsOfThisUse'
    OBVIOUS
  <1>1. ASSUME Alive, NEW o \in DOMAIN Headings[class], NEW h \in Helpers[class], Use(o, h)
        PROVE  ObjectInv' /\ SentIsOfThisUse'
    <2>1. class \in Classes /\ Shape(class, object) /\ Balanced(object)
      BY <1>1 DEF ObjectInv
    <2> DEFINE new == set_fields(class, object, o, h)
    <2>2. /\ object' = new /\ class' = class /\ outcome' = o /\ given' = h
      BY <1>1 DEF Use
    <2>3. SameUse(class, o, object, new, set_fields(class, Constructed(class), o, h))
      BY <2>1, UseSame, ConstructedShape
    <2> HIDE DEF new
    <2>4. /\ Shape(class, new) /\ Balanced(new)
          /\ Pdu(class, new, o) = Pdu(class, set_fields(class, Constructed(class), o, h), o)
      BY <2>1, <2>3 DEF SameUse
    <2>5. ObjectInv'
      <3>1. "IE_array" \in DOMAIN new /\ class # "peer"
        BY <1>1, <2>4 DEF Shape, Alive
      <3>2. Shape(class', object') /\ Balanced(object')
        BY <2>2, <2>4
      <3> QED
        BY <2>1, <2>2, <3>1, <3>2 DEF ObjectInv, Alive
    <2>6. SentIsOfThisUse'
      BY <2>2, <2>4 DEF SentIsOfThisUse
    <2> QED
      BY <2>5, <2>6
  <1>2. CASE DestroyObject
    <2>1. Alive /\ object.subsequent = Freed(object) /\ Freed(object) \in Nat
      BY <1>2 DEF DestroyObject, ObjectInv, Balanced
    <2>2. object' = Destroyed(0)
      BY <1>2, <2>1 DEF DestroyObject
    <2>3. object'.subsequent = 0 /\ ~Alive'
      BY <2>2 DEF Destroyed, Alive
    <2> QED
      BY <2>3 DEF ObjectInv, SentIsOfThisUse
  <1>3. CASE UNCHANGED memory
    BY <1>3 DEF memory, ObjectInv, Alive, SentIsOfThisUse
  <1>4. CASE \E o \in (IF class = "peer" THEN {} ELSE DOMAIN Headings[class]) :
                 \E h \in Helpers[class] : Use(o, h)
    <2>1. PICK o \in DOMAIN Headings[class] : \E h \in Helpers[class] : Use(o, h)
      BY <1>4
    <2>2. PICK h \in Helpers[class] : Use(o, h)
      BY <2>1
    <2>3. Alive
      BY <2>2 DEF Use
    <2> QED
      BY <1>1, <2>2, <2>3
  <1> QED
    BY <1>2, <1>3, <1>4 DEF ObjectNext

LEMMA ObjectInvariance == ObjectSpec => [](ObjectInv /\ SentIsOfThisUse)
  BY InitObjectInv, StepObjectInv, PTL DEF ObjectSpec

\* The message an object holds after any number of uses is the one a new
\* object makes of the helper of the last: nothing of an earlier use, no item
\* of an array that was freed, however set_fields ended (set_fields of the
\* classes of xapp-asn/e2ap).
THEOREM MessageOfThisUse == ObjectSpec => []SentIsOfThisUse
  BY ObjectInvariance, PTL

\* The destructor frees each subsequent action that was allocated, once
\* (subscription_request.cc:84 and :206).
THEOREM NoActionLeaks == ObjectSpec => []SubsequentActionsFreed
  <1>1. ObjectInv => SubsequentActionsFreed
    BY DEF ObjectInv, Balanced, SubsequentActionsFreed
  <1> QED
    BY <1>1, ObjectInvariance, PTL
==============================================================================
