----------------------------- MODULE E2apObjects -----------------------------
(***************************************************************************)
(* The message classes of xapp-asn/e2ap and their memory.  An object owns  *)
(* the elements of its message, the lists in them and the arrays of items  *)
(* the lists point into, and is used again and again: to encode is to set  *)
(* the fields from a helper and to encode what the object then holds.      *)
(* What a use leaves behind is still there in the next one.                *)
(*                                                                         *)
(* class = "peer": no object; the message comes from an E2 node.           *)
(*                                                                         *)
(* Bound: an object is used MaxUses times.                                 *)
(***************************************************************************)
EXTENDS Integers, Sequences

CONSTANTS
    Helpers,      \* by class, the helpers it is given
    MaxUses

VARIABLES
    class,     \* the class of the object
    object,    \* its memory, or what the destructor has left of it
    uses,      \* how often it has been used
    outcome,   \* of the last use: the alternative of E2AP-PDU
    given      \* of the last use: the helper

memory == <<class, object, uses, outcome, given>>

IsList(s) == s \in Seq({s[i] : i \in DOMAIN s})

\* The fields a helper collects in an std::vector.
ASSUME HelpersAssumption ==
    /\ \A h \in Helpers["subscription_request"] : IsList(h.actions)
    /\ \A h \in Helpers["subscription_response"] : IsList(h.admitted) /\ IsList(h.not_admitted)

Destroyed(left) == [subsequent |-> left]

\* What the encode functions and constructors write at the head of a message.
Heading(procedureCode, criticality, message, elements) ==
    [procedureCode |-> procedureCode, criticality |-> criticality, message |-> message,
     elements |-> elements]
reject == 0
ignore == 1

Headings ==
    [subscription_request |->
        [initiatingMessage |-> Heading(8, ignore, "RICsubscriptionRequest", 3)],
     subscription_response |->
        [successfulOutcome |-> Heading(8, reject, "RICsubscriptionResponse", 4),
         unsuccessfulOutcome |-> Heading(8, reject, "RICsubscriptionFailure", 3)],
     subscription_delete |->
        [initiatingMessage |-> Heading(9, reject, "RICsubscriptionDeleteRequest", 2)],
     subscription_delete_response |->
        [successfulOutcome |-> Heading(9, reject, "RICsubscriptionDeleteResponse", 2),
         unsuccessfulOutcome |-> Heading(9, reject, "RICsubscriptionDeleteFailure", 2)],
     ric_control_request |->
        [initiatingMessage |-> Heading(4, ignore, "RICcontrolRequest", 6)],
     ric_control_response |->
        [successfulOutcome |-> Heading(4, reject, "RICcontrolAcknowledge", 3),
         unsuccessfulOutcome |-> Heading(4, reject, "RICcontrolFailure", 3)],
     ric_indication |->
        [initiatingMessage |-> Heading(5, ignore, "RICindication", 8)]]

Classes == DOMAIN Headings

-----------------------------------------------------------------------------
\* The memory of an object.

\* An element of the array the constructor allocates; content is the value,
\* or the name of the list the value is.
Element(id, criticality, alternative, content) ==
    [id |-> id, criticality |-> criticality, present |-> alternative, content |-> content]
NOTHING == "nothing"
Zeroed == Element(0, 0, NOTHING, 0)

INITIAL_LIST_SIZE == 4
Arrays(c) ==
    CASE c = "subscription_request" -> {"action_array"}
      [] c = "subscription_response" -> {"ie_admitted_list", "ie_not_admitted_list"}
      [] OTHER -> {}
Lists == {"to_be_setup", "admitted", "not_admitted", "failure_not_admitted"}

\* The classes that add all elements to the message when it is constructed.
FilledOnce(c) == c \in {"subscription_delete", "ric_control_response"}
All(c, o) == [i \in 1 .. Headings[c][o].elements |-> i - 1]

\* subsequent counts the subsequent actions that are allocated, one for each
\* item of action_array.
Constructed(c) ==
    [IE_array |-> [o \in DOMAIN Headings[c] |->
                      [i \in 0 .. Headings[c][o].elements - 1 |-> Zeroed]],
     protocolIEs |-> [o \in DOMAIN Headings[c] |-> IF FilledOnce(c) THEN All(c, o) ELSE <<>>],
     lists |-> [l \in Lists |-> <<>>],
     arrays |-> [a \in Arrays(c) |-> [block |-> 1, size |-> INITIAL_LIST_SIZE, items |-> <<>>]],
     subsequent |-> IF c = "subscription_request" THEN INITIAL_LIST_SIZE ELSE 0]

\* Mutant: the list keeps what is in it.
Reset_Kept(list) == list

\* list.count = 0
Reset(list) == <<>>

\* A value of a CHOICE or an open type: the alternative that is present.
Choice(alternative, content) == [a \in {alternative} |-> content]

\* What is written to an array, over what was there.
Over(new, old) ==
    [i \in DOMAIN new \cup DOMAIN old |-> IF i \in DOMAIN new THEN new[i] ELSE old[i]]

\* An entry of what set_fields writes: the element with an index.
At(index, element) == [at |-> index, element |-> element]

Set(obj, o, entries) ==
    [obj EXCEPT !.IE_array[o] =
        Over([i \in {entries[k].at : k \in DOMAIN entries} |->
                 entries[CHOOSE k \in DOMAIN entries : entries[k].at = i].element], @)]

\* The elements are set and added to the message, one after the other.
SetAndAdd(obj, o, entries) ==
    [Set(obj, o, entries) EXCEPT
        !.protocolIEs[o] = Reset(@) \o [k \in DOMAIN entries |-> entries[k].at]]

\* Mutant: the subsequent actions of the old items are not freed.
Resize_Leaks(obj, array, n) ==
    [obj EXCEPT
        !.arrays[array] = [block |-> @.block + 1, size |-> 2 * n, items |-> <<>>],
        !.subsequent = IF array = "action_array" THEN @ + 2 * n ELSE @]

\* free and calloc of twice as many items, when they are too many.
Resize(obj, array, n) ==
    [obj EXCEPT
        !.arrays[array] = [block |-> @.block + 1, size |-> 2 * n, items |-> <<>>],
        !.subsequent = IF array = "action_array"
                       THEN @ - obj.arrays[array].size + 2 * n ELSE @]

TooMany(array, n, size) == IF array = "action_array" THEN size < n ELSE n >= size

Roomy(obj, array, n) ==
    IF TooMany(array, n, obj.arrays[array].size) THEN Resize(obj, array, n) ELSE obj

Pointer(obj, array, i) == [array |-> array, block |-> obj.arrays[array].block, item |-> i]

\* A list points to the items of its array, which are set from the helper;
\* n is the number of them in the helper, and some may be left out.
SetItems(obj, list, array, items, n) ==
    LET roomy == Roomy(obj, array, n)
    IN  [roomy EXCEPT
            !.arrays[array].items = Over(items, @),
            !.lists[list] = Reset(@) \o [i \in DOMAIN items |-> Pointer(roomy, array, i)]]

-----------------------------------------------------------------------------
\* The message an object holds.

\* An item in a block that has been freed can hold anything.
Item(obj, pointer) ==
    IF obj.arrays[pointer.array].block = pointer.block
    THEN obj.arrays[pointer.array].items[pointer.item] ELSE <<>>
Items(obj, list) == [i \in DOMAIN obj.lists[list] |-> Item(obj, obj.lists[list][i])]

Value(obj, element) ==
    CASE element.present = NOTHING -> <<>>
      [] element.present = "RICsubscriptionDetails" ->
            Choice(element.present,
                   [ricEventTriggerDefinition |-> element.content,
                    ricAction_ToBeSetup_List |-> Items(obj, "to_be_setup")])
      [] element.present \in {"RICaction_Admitted_List", "RICaction_NotAdmitted_List"} ->
            Choice(element.present, Items(obj, element.content))
      [] OTHER -> Choice(element.present, element.content)

ProtocolIEs(obj, o) ==
    [k \in DOMAIN obj.protocolIEs[o] |->
        LET element == obj.IE_array[o][obj.protocolIEs[o][k]]
        IN  [id |-> element.id, criticality |-> element.criticality,
             value |-> Value(obj, element)]]

Pdu(c, obj, o) ==
    Choice(o, [procedureCode |-> Headings[c][o].procedureCode,
               criticality |-> Headings[c][o].criticality,
               value |-> Choice(Headings[c][o].message, [protocolIEs |-> ProtocolIEs(obj, o)])])

-----------------------------------------------------------------------------
\* The set_fields functions.

ItemField(id, name, item) == [id |-> id, criticality |-> ignore, value |-> Choice(name, item)]

\* Mutant: the function with the criticality of an item.
RequestAndFunction_Ignored(h) ==
    <<At(0, Element(29, reject, "RICrequestID", [ricRequestorID |-> h.req_id, ricInstanceID |-> 0])),
      At(1, Element(5, ignore, "RANfunctionID", h.func_id))>>

\* Elements 0 and 1 of every message; the instance of the request is never
\* set and stays as calloc left it.
RequestAndFunction(h) ==
    <<At(0, Element(29, reject, "RICrequestID", [ricRequestorID |-> h.req_id, ricInstanceID |-> 0])),
      At(1, Element(5, reject, "RANfunctionID", h.func_id))>>

\* The definition of an action is left out, a subsequent action is always
\* there and its time to wait is the one calloc left.
ActionToBeSetup(action) ==
    ItemField(19, "RICaction_ToBeSetup_Item",
              [ricActionID |-> action.id, ricActionType |-> action.type,
               ricSubsequentAction |->
                   [ricSubsequentActionType |-> action.next_action, ricTimeToWait |-> 0]])

ActionsToBeSetup(h) == [i \in DOMAIN h.actions |-> ActionToBeSetup(h.actions[i])]

subscription_request_set_fields(obj, h) ==
    SetAndAdd(SetItems(obj, "to_be_setup", "action_array",
                       ActionsToBeSetup(h), Len(h.actions)),
              "initiatingMessage",
              RequestAndFunction(h)
              \o <<At(2, Element(30, reject, "RICsubscriptionDetails", h.event_def))>>)

\* Cause_PR_ricRequest is 1.
Causes_PR == <<"ricRequest", "ricService", "transport", "protocol", "misc">>
CauseOf(h) ==
    IF h.cause \in DOMAIN Causes_PR THEN Choice(Causes_PR[h.cause], h.sub_cause) ELSE <<>>

\* At an action with a cause that is none, set_fields returns: the actions
\* before it are in the list, and what comes after the list is not done.
KnownCauses(actions) == \A i \in DOMAIN actions : actions[i].cause \in DOMAIN Causes_PR
BeforeUnknown(actions) ==
    LET known == {n \in 0 .. Len(actions) : KnownCauses(SubSeq(actions, 1, n))}
    IN  SubSeq(actions, 1, CHOOSE n \in known : \A m \in known : m <= n)

NotAdmittedItems(h) ==
    LET before == BeforeUnknown(h.not_admitted)
    IN  [i \in DOMAIN before |->
            ItemField(16, "RICaction_NotAdmitted_Item",
                      [ricActionID |-> before[i].id, cause |-> CauseOf(before[i])])]

SetNotAdmitted(obj, list, h) ==
    SetItems(obj, list, "ie_not_admitted_list", NotAdmittedItems(h), Len(h.not_admitted))

When(condition, entries) == IF condition THEN entries ELSE <<>>

AdmittedItems(h) ==
    [i \in DOMAIN h.admitted |->
        ItemField(14, "RICaction_Admitted_Item", [ricActionID |-> h.admitted[i]])]

set_fields_success(obj, h) ==
    LET refused == <<At(3, Element(18, reject, "RICaction_NotAdmitted_List", "not_admitted"))>>
        admitted == SetItems(obj, "admitted", "ie_admitted_list", AdmittedItems(h), Len(h.admitted))
        both == IF h.not_admitted = <<>> THEN admitted
                ELSE Set(SetNotAdmitted(admitted, "not_admitted", h), "successfulOutcome", refused)
    IN  SetAndAdd(both, "successfulOutcome",
                  RequestAndFunction(h)
                  \o <<At(2, Element(17, reject, IF h.admitted = <<>> THEN NOTHING
                                                 ELSE "RICaction_Admitted_List", "admitted"))>>
                  \o When(h.not_admitted # <<>> /\ KnownCauses(h.not_admitted), refused))

set_fields_unsuccess(obj, h) ==
    LET refused == <<At(2, Element(18, reject, IF h.not_admitted = <<>> THEN NOTHING
                                               ELSE "RICaction_NotAdmitted_List",
                                   "failure_not_admitted"))>>
    IN  SetAndAdd(Set(SetNotAdmitted(obj, "failure_not_admitted", h),
                      "unsuccessfulOutcome", refused),
                  "unsuccessfulOutcome",
                  RequestAndFunction(h) \o When(KnownCauses(h.not_admitted), refused))

\* The elements of the request to delete are in the message since its
\* construction.
subscription_delete_set_fields(obj, h) == Set(obj, "initiatingMessage", RequestAndFunction(h))

subscription_delete_response_set_fields(obj, o, h) == SetAndAdd(obj, o, RequestAndFunction(h))

\* Mutant: noAck, which is 0, is taken for no request.
Asked_Positive(h) == h.control_ack > 0

Asked(h) == h.control_ack >= 0

ric_control_request_set_fields(obj, h) ==
    SetAndAdd(obj, "initiatingMessage",
        RequestAndFunction(h)
        \o <<At(2, Element(22, reject, "RICcontrolHeader", h.control_header)),
             At(3, Element(23, reject, "RICcontrolMessage", h.control_msg))>>
        \o When(Asked(h),
                <<At(4, Element(21, reject, "RICcontrolAckRequest", h.control_ack))>>)
        \o When(Len(h.call_process_id) > 0,
                <<At(5, Element(20, reject, "RICcallProcessID", h.call_process_id))>>))

\* Here, too, the elements are in the messages since their construction.
ric_control_response_set_fields(obj, o, h) ==
    Set(obj, o, RequestAndFunction(h)
                \o <<At(2, IF o = "successfulOutcome"
                           THEN Element(24, reject, "RICcontrolStatus", h.control_status)
                           ELSE Element(1, ignore, "Cause", CauseOf(h)))>>)

\* The call process id is given the octets of the message (line 211).
ric_indication_set_fields(obj, h) ==
    SetAndAdd(obj, "initiatingMessage",
        RequestAndFunction(h)
        \o <<At(2, Element(15, reject, "RICactionID", h.action_id)),
             At(3, Element(27, reject, "RICindicationSN", h.indication_sn)),
             At(4, Element(28, reject, "RICindicationType", h.indication_type)),
             At(5, Element(25, reject, "RICindicationHeader", h.indication_header)),
             At(6, Element(26, reject, "RICindicationMessage", h.indication_msg))>>
        \o When(Len(h.call_process_id) > 0,
                <<At(7, Element(20, reject, "RICcallProcessID", h.indication_msg))>>))

set_fields(c, obj, o, h) ==
    CASE c = "subscription_request" -> subscription_request_set_fields(obj, h)
      [] c = "subscription_response" ->
            IF o = "successfulOutcome" THEN set_fields_success(obj, h)
            ELSE set_fields_unsuccess(obj, h)
      [] c = "subscription_delete" -> subscription_delete_set_fields(obj, h)
      [] c = "subscription_delete_response" -> subscription_delete_response_set_fields(obj, o, h)
      [] c = "ric_control_request" -> ric_control_request_set_fields(obj, h)
      [] c = "ric_control_response" -> ric_control_response_set_fields(obj, o, h)
      [] c = "ric_indication" -> ric_indication_set_fields(obj, h)

\* Only a control failure with a cause that is none makes set_fields fail.
Settable(c, o, h) ==
    c = "ric_control_response" /\ o = "unsuccessfulOutcome" => h.cause \in DOMAIN Causes_PR

-----------------------------------------------------------------------------
NotUsed == uses = 0 /\ outcome = "none" /\ given = <<>>

ObjectInit ==
    /\ NotUsed
    /\ \/ class = "peer" /\ object = Destroyed(0)
       \/ class \in Classes /\ object = Constructed(class)

Alive == class # "peer" /\ "IE_array" \in DOMAIN object

\* What an encode function does to the object, with a helper of the caller's.
Use(o, h) ==
    /\ Alive
    /\ uses < MaxUses
    /\ uses' = uses + 1
    /\ object' = set_fields(class, object, o, h)
    /\ outcome' = o
    /\ given' = h
    /\ UNCHANGED class

\* The destructor frees as many subsequent actions as the array has items.
Freed(obj) ==
    IF "action_array" \in DOMAIN obj.arrays THEN obj.arrays["action_array"].size ELSE 0

DestroyObject ==
    /\ Alive
    /\ uses > 0
    /\ object' = Destroyed(object.subsequent - Freed(object))
    /\ UNCHANGED <<class, uses, outcome, given>>

ObjectNext ==
    \/ \E o \in (IF class = "peer" THEN {} ELSE DOMAIN Headings[class]) :
           \E h \in Helpers[class] : Use(o, h)
    \/ DestroyObject

ObjectSpec == ObjectInit /\ [][ObjectNext]_memory

-----------------------------------------------------------------------------
\* What an object has been used for before does not show: however the uses
\* before this one ended - sent, refused for a cause that is none, a list of
\* seventeen, a value out of range or a buffer too small - the message it
\* holds is the one a new object makes of the helper, with no element or
\* list item of another use and none in an array that has been freed.
SentIsOfThisUse ==
    Alive /\ uses > 0 =>
        Pdu(class, object, outcome)
            = Pdu(class, set_fields(class, Constructed(class), outcome, given), outcome)

\* Every subsequent action that is allocated is freed once, whatever the
\* lists were that had the array of actions allocated anew.
SubsequentActionsFreed ==
    IF Alive THEN object.subsequent = Freed(object) ELSE object.subsequent = 0
=============================================================================
