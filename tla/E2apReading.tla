----------------------------- MODULE E2apReading -----------------------------
(***************************************************************************)
(* What is read of the message an object holds: the get_fields functions   *)
(* of xapp-asn/e2ap, and the tables of ProtocolIE-Field.c a decoder holds  *)
(* the elements against.  Here the message is read as it is in memory;     *)
(* E2apMessages reads what has come through the codec.                     *)
(***************************************************************************)
EXTENDS E2apObjects, E2apPdus

\* The helpers, as far as reading needs to know them: the list of actions not
\* admitted is one of structures of three members, control_ack is an int and
\* call_process_id a string of octets.
ASSUME ReadHelpersAssumption ==
    /\ \A h \in Helpers["subscription_response"] : \A i \in DOMAIN h.not_admitted :
           LET action == h.not_admitted[i]
           IN  action = [id |-> action.id, cause |-> action.cause, sub_cause |-> action.sub_cause]
    /\ \A h \in Helpers["ric_control_request"] :
           h.control_ack \in Int /\ IsList(h.call_process_id)

-----------------------------------------------------------------------------
\* The get_fields functions: what is read, from the elements of a message,
\* over the values the helper's constructor gives.

\* The element with an id, and what is in it; the last one stands.
Content(ies, id, name, otherwise) ==
    LET found == {k \in DOMAIN ies : ies[k].id = id /\ name \in DOMAIN ies[k].value}
    IN  IF found = {} THEN otherwise
        ELSE ies[CHOOSE k \in found : \A l \in found : l <= k].value[name]

func_id(ies) == Content(ies, 5, "RANfunctionID", 0)
req_id(ies) == Content(ies, 29, "RICrequestID", [ricRequestorID |-> 1]).ricRequestorID
call_process_id(ies) == Content(ies, 20, "RICcallProcessID", <<>>)

\* Of the actions only those without a subsequent action.
subscription_request_get_fields(ies) ==
    LET details == Content(ies, 30, "RICsubscriptionDetails",
                           [ricEventTriggerDefinition |-> <<>>, ricAction_ToBeSetup_List |-> <<>>])
        items == [i \in DOMAIN details.ricAction_ToBeSetup_List |->
                     details.ricAction_ToBeSetup_List[i].value.RICaction_ToBeSetup_Item]
        plain == SelectSeq(items, LAMBDA item : "ricSubsequentAction" \notin DOMAIN item)
    IN  [func_id |-> func_id(ies),
         event_def |-> details.ricEventTriggerDefinition,
         actions |-> [i \in DOMAIN plain |->
                         [id |-> plain[i].ricActionID, type |-> plain[i].ricActionType,
                          next_action |-> 0]]]

\* The cause of a value of the CHOICE: its index.
\* Mutant: the first cause is taken for 0.
CauseIn_FromZero(cause) == (CHOOSE c \in DOMAIN Causes_PR : Causes_PR[c] \in DOMAIN cause) - 1

CauseIn(cause) == CHOOSE c \in DOMAIN Causes_PR : Causes_PR[c] \in DOMAIN cause
SubCauseIn(cause) == cause[Causes_PR[CHOOSE c \in DOMAIN Causes_PR : Causes_PR[c] \in DOMAIN cause]]

NotAdmittedRead(ies) ==
    LET list == Content(ies, 18, "RICaction_NotAdmitted_List", <<>>)
        item(i) == list[i].value.RICaction_NotAdmitted_Item
    IN  [i \in DOMAIN list |->
            [id |-> item(i).ricActionID, cause |-> CauseIn(item(i).cause),
             sub_cause |-> SubCauseIn(item(i).cause)]]

AdmittedRead(ies) ==
    LET list == Content(ies, 17, "RICaction_Admitted_List", <<>>)
    IN  [i \in DOMAIN list |-> list[i].value.RICaction_Admitted_Item.ricActionID]

subscription_response_get_fields(o, ies) ==
    IF o = "successfulOutcome"
    THEN [func_id |-> func_id(ies), not_admitted |-> NotAdmittedRead(ies),
          admitted |-> AdmittedRead(ies)]
    ELSE [func_id |-> func_id(ies), not_admitted |-> NotAdmittedRead(ies)]

ric_control_request_get_fields(ies) ==
    [func_id |-> func_id(ies), req_id |-> req_id(ies),
     control_header |-> Content(ies, 22, "RICcontrolHeader", <<>>),
     control_msg |-> Content(ies, 23, "RICcontrolMessage", <<>>),
     call_process_id |-> call_process_id(ies),
     control_ack |-> Content(ies, 21, "RICcontrolAckRequest", -1)]

\* The status is looked for in the element of a cause, which no
\* acknowledgement has: it keeps the value of the constructor.
ric_control_response_get_fields(o, ies) ==
    LET cause == Content(ies, 1, "Cause", Choice("ricRequest", 0))
    IN  IF o = "successfulOutcome"
        THEN [func_id |-> func_id(ies), req_id |-> req_id(ies),
              call_process_id |-> call_process_id(ies), control_status |-> 1]
        ELSE [func_id |-> func_id(ies), req_id |-> req_id(ies),
              call_process_id |-> call_process_id(ies),
              cause |-> CauseIn(cause), sub_cause |-> SubCauseIn(cause)]

ric_indication_get_fields(ies) ==
    [func_id |-> func_id(ies), req_id |-> req_id(ies),
     indication_header |-> Content(ies, 25, "RICindicationHeader", <<>>),
     indication_msg |-> Content(ies, 26, "RICindicationMessage", <<>>),
     indication_sn |-> Content(ies, 27, "RICindicationSN", 0),
     indication_type |-> Content(ies, 28, "RICindicationType", 0),
     action_id |-> Content(ies, 15, "RICactionID", 1),
     call_process_id |-> call_process_id(ies)]

get_fields(c, o, ies) ==
    CASE c = "subscription_request" -> subscription_request_get_fields(ies)
      [] c = "subscription_response" -> subscription_response_get_fields(o, ies)
      [] c \in {"subscription_delete", "subscription_delete_response"} ->
            [func_id |-> func_id(ies)]
      [] c = "ric_control_request" -> ric_control_request_get_fields(ies)
      [] c = "ric_control_response" -> ric_control_response_get_fields(o, ies)
      [] c = "ric_indication" -> ric_indication_get_fields(ies)

-----------------------------------------------------------------------------
Rows ==
    [RICsubscriptionRequest |-> RICsubscriptionRequest_IEs_rows,
     RICsubscriptionResponse |-> RICsubscriptionResponse_IEs_rows,
     RICsubscriptionFailure |-> RICsubscriptionFailure_IEs_rows,
     RICsubscriptionDeleteRequest |-> RICsubscriptionDeleteRequest_IEs_rows,
     RICsubscriptionDeleteResponse |-> RICsubscriptionDeleteResponse_IEs_rows,
     RICsubscriptionDeleteFailure |-> RICsubscriptionDeleteFailure_IEs_rows,
     RICcontrolRequest |-> RICcontrolRequest_IEs_rows,
     RICcontrolAcknowledge |-> RICcontrolAcknowledge_IEs_rows,
     RICcontrolFailure |-> RICcontrolFailure_IEs_rows,
     RICindication |-> RICindication_IEs_rows]

\* A list without items has no alternative in its element: the codec refuses
\* such a message.
EmptyList(name) ==
    \/ name = "RICaction_Admitted_List" /\ given.admitted = <<>>
    \/ name = "RICaction_NotAdmitted_List" /\ given.not_admitted = <<>>

\* An element is as a row of the table says.
FollowsRow(ie, row) ==
    /\ ie.id = row.id
    /\ Criticality.names[ie.criticality + 1] = row.criticality
    /\ \/ DOMAIN ie.value = {row.Value}
       \/ DOMAIN ie.value = {} /\ EmptyList(row.Value)

\* The elements the classes of xapp-asn put into a message are those of the
\* tables of ProtocolIE-Field.c: each is once in it, under the id, with the
\* criticality and in the alternative of a row of its message, and the
\* mandatory ones are there, but for two the code leaves out: the cause of a
\* failure to delete, and the list with a cause that is none in a failure.
SentFollowsTables ==
    Alive /\ uses > 0 =>
        LET message == Headings[class][outcome].message
            ies == ProtocolIEs(object, outcome)
            rows == Rows[message]
        IN /\ \A k \in DOMAIN ies :
               /\ \E r \in DOMAIN rows : FollowsRow(ies[k], rows[r])
               /\ \A l \in DOMAIN ies : ies[l].id = ies[k].id => l = k
           /\ \A r \in DOMAIN rows :
                  \/ rows[r].presence = "optional"
                  \/ \E k \in DOMAIN ies : ies[k].id = rows[r].id
                  \/ message = "RICsubscriptionDeleteFailure" /\ rows[r].Value = "Cause"
                  \/ message = "RICsubscriptionFailure" /\ ~KnownCauses(given.not_admitted)

\* What is read is what was given.  get_fields does not read the request of
\* the subscription messages, an action with a subsequent action, or the
\* status of a control; and what set_fields drops, an unknown cause, the call
\* process of an indication or control response and a negative request for an
\* acknowledgement, cannot be read.
AsGiven(read) ==
    \A f \in DOMAIN read \ {"read", "actions", "control_status"} :
        \/ read[f] = given[f]
        \/ f = "call_process_id" /\ class \in {"ric_indication", "ric_control_response"}
        \/ f = "not_admitted" /\ ~KnownCauses(given.not_admitted)
        \/ f = "control_ack" /\ given.control_ack < 0 /\ read.control_ack = -1

\* Of the message an object holds after a use that did not fail, get_fields
\* reads what set_fields was given.
ReadsAsGiven ==
    Alive /\ uses > 0 /\ Settable(class, outcome, given) =>
        AsGiven(get_fields(class, outcome, ProtocolIEs(object, outcome)))
=============================================================================
