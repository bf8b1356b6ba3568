------------------------------- MODULE MCE2ap -------------------------------
(***************************************************************************)
(* What a peer sends: every message of E2AP with its mandatory elements    *)
(* and one element after another in all its ways, which are the ends of    *)
(* the ranges, the lengths at which an encoding changes, and values out of *)
(* range; then the values of the service model.  And the helpers given to  *)
(* the objects of the connector.                                           *)
(***************************************************************************)
EXTENDS E2apMessages, E2smTypes

Octets(n) == [i \in 1 .. n |-> (37 * i) % 256]
Bits(n) == [i \in 1 .. n |-> i % 2]
Times(n, element) == [i \in 1 .. n |-> element]

\* A field of a set of elements, with the criticality its row says.
Field(row, value) ==
    [id |-> row.id,
     criticality |-> (CHOOSE c \in 1 .. 3 : Criticality.names[c] = row.criticality) - 1,
     value |-> row.Value :> value]

RequestID == [ricRequestorID |-> 100, ricInstanceID |-> 10]
NoCause == <<>>
Causes == <<[ricRequest |-> 10], [ricService |-> 2], [transport |-> 1], [protocol |-> 6],
            [misc |-> 3], [misc |-> 4], NoCause>>

Action(id) ==
    Field(RICaction_ToBeSetup_ItemIEs_rows[1], [ricActionID |-> id, ricActionType |-> 2])
FullAction ==
    Field(RICaction_ToBeSetup_ItemIEs_rows[1],
          [ricActionID |-> 0, ricActionType |-> 0, ricActionDefinition |-> Octets(3),
           ricSubsequentAction |-> [ricSubsequentActionType |-> 1, ricTimeToWait |-> 17]])
Details(trigger, actions) ==
    [ricEventTriggerDefinition |-> trigger, ricAction_ToBeSetup_List |-> actions]
Admitted == Field(RICaction_Admitted_ItemIEs_rows[1], [ricActionID |-> 1])
NotAdmitted(cause) ==
    Field(RICaction_NotAdmitted_ItemIEs_rows[1], [ricActionID |-> 1, cause |-> cause])

Function ==
    Field(RANfunction_ItemIEs_rows[1],
          [ranFunctionID |-> 0, ranFunctionDefinition |-> Octets(2), ranFunctionRevision |-> 4095])
FunctionID == Field(RANfunctionID_ItemIEs_rows[1], [ranFunctionID |-> 7, ranFunctionRevision |-> 1])
FunctionCause == Field(RANfunctionIDcause_ItemIEs_rows[1],
                       [ranFunctionID |-> 7, cause |-> [transport |-> 0]])

gNB(bits) == [plmn_id |-> Octets(3), gnb_id |-> [gnb_ID |-> Bits(bits)]]
Nodes ==
    <<[gNB |-> [global_gNB_ID |-> gNB(29)]], [gNB |-> [global_gNB_ID |-> gNB(22)]],
      [gNB |-> [global_gNB_ID |-> gNB(32), gNB_CU_UP_ID |-> 0, gNB_DU_ID |-> MaxInteger]],
      [gNB |-> [global_gNB_ID |-> gNB(21)]], [gNB |-> [global_gNB_ID |-> gNB(33)]],
      [en_gNB |-> [global_gNB_ID |-> [pLMN_Identity |-> Octets(3), gNB_ID |-> [gNB_ID |-> Bits(24)]]]],
      [en_gNB |-> [global_gNB_ID |-> [pLMN_Identity |-> Octets(2), gNB_ID |-> [gNB_ID |-> Bits(24)]]]]>>
    \o [n \in 1 .. 5 |-> [gNB |-> [global_gNB_ID |-> gNB(22),
                                   gNB_DU_ID |-> <<255, 256, 65536, 16777216, -1>>[n]]]]
    \o [n \in 1 .. 3 |->
           [ng_eNB |-> [global_ng_eNB_ID |-> [plmn_id |-> Octets(3), enb_id |->
                <<[enb_ID_macro |-> Bits(20)], [enb_ID_shortmacro |-> Bits(18)],
                  [enb_ID_longmacro |-> Bits(21)]>>[n]]]]]
    \o [n \in 1 .. 2 |->
           [eNB |-> [global_eNB_ID |-> [pLMN_Identity |-> Octets(3), eNB_ID |->
                <<[macro_eNB_ID |-> Bits(20)], [home_eNB_ID |-> Bits(28)]>>[n]]]]]

Diagnosed == [iECriticality |-> 1, iE_ID |-> 65535, typeOfError |-> 1]
Diagnoses ==
    <<[procedureCode |-> 255, triggeringMessage |-> 2, procedureCriticality |-> 0,
       ricRequestorID |-> RequestID, iEsCriticalityDiagnostics |-> <<Diagnosed, Diagnosed>>],
      <<>>, [iEsCriticalityDiagnostics |-> <<>>]>>

Strings == <<Octets(1), Octets(0), Octets(2), Octets(3)>>

\* The ways of every element; the first is one that keeps to its type.
Ways ==
    [RICrequestID |-> <<RequestID, [ricRequestorID |-> 65535, ricInstanceID |-> 0],
                        [ricRequestorID |-> 0, ricInstanceID |-> 65536]>>,
     RANfunctionID |-> <<100, 0, 4095, 4096>>,
     RICsubscriptionDetails |->
        <<Details(Octets(2), <<FullAction>>), Details(Octets(0), Times(16, Action(255))),
          Details(Octets(1), <<>>), Details(Octets(1), Times(17, Action(1))),
          Details(Octets(1), <<Action(0), Action(256)>>)>>,
     RICcallProcessID |-> Strings,
     RICcontrolHeader |-> Strings,
     RICcontrolMessage |-> <<Octets(2), Octets(127), Octets(128)>>,
     RICcontrolAckRequest |-> <<0, 2, 3>>,
     RICactionID |-> <<1, 0, 255, 256, -1>>,
     RICindicationSN |-> <<0, 65535, 65536>>,
     RICindicationType |-> <<0, 1, 2>>,
     RICindicationHeader |-> Strings,
     RICindicationMessage |-> <<Octets(2), Octets(128)>>,
     RICaction_Admitted_List |-> <<<<Admitted>>, Times(16, Admitted), <<>>, Times(17, Admitted)>>,
     RICaction_NotAdmitted_List |->
        <<<<>>, [c \in 1 .. 5 |-> NotAdmitted(Causes[c])], Times(17, NotAdmitted(Causes[1])),
          <<NotAdmitted(NoCause)>>>>,
     RICcontrolStatus |-> <<0, 2, 3>>,
     RICcontrolOutcome |-> Strings,
     Cause |-> Causes,
     CriticalityDiagnostics |-> Diagnoses,
     TimeToWait |-> <<0, 5, 6>>,
     GlobalRIC_ID |-> <<[pLMN_Identity |-> Octets(3), ric_ID |-> Bits(20)],
                        [pLMN_Identity |-> Octets(3), ric_ID |-> Bits(19)]>>,
     GlobalE2node_ID |-> Nodes,
     RANfunctions_List |-> <<<<Function>>, <<>>, Times(2, Function)>>,
     RANfunctionsID_List |-> <<<<FunctionID>>, <<>>>>,
     RANfunctionsIDcause_List |-> <<<<FunctionCause>>>>]

\* The elements of the messages the connector neither makes nor reads, too.
\* Of a service update only the functions added: the fields of the modified
\* and the deleted ones have no member of their own in the union.
Sets ==
    Rows @@
    [RICserviceUpdate |-> <<RICserviceUpdate_IEs_rows[1]>>,
     RICserviceUpdateAcknowledge |-> RICserviceUpdateAcknowledge_IEs_rows,
     RICserviceUpdateFailure |-> RICserviceUpdateFailure_IEs_rows,
     RICserviceQuery |-> RICserviceQuery_IEs_rows,
     E2setupRequest |-> E2setupRequestIEs_rows,
     E2setupResponse |-> E2setupResponseIEs_rows,
     E2setupFailure |-> E2setupFailureIEs_rows,
     ResetRequest |-> ResetRequestIEs_rows,
     ResetResponse |-> ResetResponseIEs_rows,
     ErrorIndication |-> ErrorIndication_IEs_rows]

\* The mandatory elements of a set, and the element of row r in its way w.
Elements(rows, r, w) ==
    LET sent == SelectSeq([s \in DOMAIN rows |-> s],
                          LAMBDA s : s = r \/ rows[s].presence = "mandatory")
    IN  [i \in DOMAIN sent |->
            Field(rows[sent[i]], Ways[rows[sent[i]].Value][IF sent[i] = r THEN w ELSE 1])]

Message(procedure, column, ies) ==
    [procedureCode |-> procedure.procedureCode,
     criticality |-> (CHOOSE c \in 1 .. 3 : Criticality.names[c] = procedure.criticality) - 1,
     value |-> procedure[column] :> [protocolIEs |-> ies]]

Columns == [InitiatingMessage |-> "initiatingMessage", SuccessfulOutcome |-> "successfulOutcome",
            UnsuccessfulOutcome |-> "unsuccessfulOutcome"]

Procedures == {E2AP_ELEMENTARY_PROCEDURES[p] : p \in DOMAIN E2AP_ELEMENTARY_PROCEDURES}

Pdus ==
    UNION {UNION {UNION {
        {Columns[column] :> Message(procedure, column, Elements(Sets[procedure[column]], r, w)) :
            w \in DOMAIN Ways[Sets[procedure[column]][r].Value]} :
        r \in DOMAIN Sets[procedure[column]]} :
        column \in DOMAIN Columns \cap DOMAIN procedure} :
        procedure \in Procedures}

Parameter(id) == [ranParameter_ID |-> id, ranParameter_Name |-> Octets(1),
                  ranParameter_Test |-> 4, ranParameter_Value |-> Octets(2)]
Headers == {0, 1, -1, 127, 128, -128, -129, 32768, -8388609, MaxInteger}

\* Whose version, the type, the value, and what a receiver knows of it.
Sample(type, value) ==
    [type |-> type, later |-> 0, value |-> value, known |-> value, room |-> 2000]

ServiceSamples ==
    {Sample("E2SM_HelloWorld_ControlHeader",
            [controlHeader_Format1 |-> [controlHeaderParam |-> h]]) : h \in Headers}
    \cup {Sample("E2SM_HelloWorld_IndicationHeader",
                 [indicationHeader_Format1 |-> [indicationHeaderParam |-> h]]) : h \in Headers}
    \cup {Sample("E2SM_HelloWorld_ControlMessage",
                 [controlMessage_Format1 |-> [controlMsgParam |-> Octets(n)]]) : n \in 0 .. 3}
    \cup {Sample("E2SM_HelloWorld_IndicationMessage",
                 [indicationMessage_Format1 |-> [indicationMsgParam |-> Octets(n)]]) : n \in 0 .. 3}
    \cup {Sample("E2SM_HelloWorld_EventTriggerDefinition",
                 [eventDefinition_Format1 |-> [triggerNature |-> n]]) : n \in 0 .. 2}
    \cup {Sample("E2SM_HelloWorld_ActionDefinition",
                 [actionDefinition_Format1 |-> format]) :
              format \in {<<>>, [ranParameter_List |-> <<>>],
                          [ranParameter_List |-> <<Parameter(255), Parameter(0)>>],
                          [ranParameter_List |-> <<Parameter(256)>>]}}

\* Additions of a later version in the message, in an element and in an
\* element of an element.
First == "first" :> Octets(3)
Second == "second" :> Octets(2)
Indication(message, request) ==
    [initiatingMessage |->
        [procedureCode |-> 5, criticality |-> 1, value |-> [RICindication |->
            [protocolIEs |-> <<Field(RICindication_IEs_rows[1], RequestID @@ request),
                               Field(RICindication_IEs_rows[7], Octets(2))>>] @@ message]]]
Response(item, admitted) ==
    [successfulOutcome |->
        [procedureCode |-> 8, criticality |-> 0, value |-> [RICsubscriptionResponse |->
            [protocolIEs |-> <<Field(RICsubscriptionResponse_IEs_rows[3],
                <<Field(RICaction_Admitted_ItemIEs_rows[1], [ricActionID |-> 1] @@ item),
                  Admitted>>)>>] @@ admitted]]]

LaterSample(n, value, known) ==
    [type |-> "E2AP_PDU", later |-> n, value |-> value, known |-> known, room |-> 2000]
With(n, additions) ==
    {LaterSample(n, Indication(additions, <<>>), Indication(<<>>, <<>>)),
     LaterSample(n, Indication(<<>>, additions), Indication(<<>>, <<>>)),
     LaterSample(n, Response(additions, <<>>), Response(<<>>, <<>>)),
     LaterSample(n, Response(<<>>, additions), Response(<<>>, <<>>)),
     LaterSample(n, Response(additions, additions), Response(<<>>, <<>>))}
LaterSamples == With(1, First) \cup With(1, Second) \cup With(2, First @@ Second)

MCSamples == {Sample("E2AP_PDU", pdu) : pdu \in Pdus} \cup ServiceSamples \cup LaterSamples

MCTypes ==
    [E2AP_PDU |-> E2AP_PDU,
     E2SM_HelloWorld_ControlHeader |-> E2SM_HelloWorld_ControlHeader,
     E2SM_HelloWorld_ControlMessage |-> E2SM_HelloWorld_ControlMessage,
     E2SM_HelloWorld_IndicationHeader |-> E2SM_HelloWorld_IndicationHeader,
     E2SM_HelloWorld_IndicationMessage |-> E2SM_HelloWorld_IndicationMessage,
     E2SM_HelloWorld_EventTriggerDefinition |-> E2SM_HelloWorld_EventTriggerDefinition,
     E2SM_HelloWorld_ActionDefinition |-> E2SM_HelloWorld_ActionDefinition]

\* The later version: two additions to every extensible SEQUENCE.
RECURSIVE Later(_)
Later(td) ==
    CASE td.kind = "SEQUENCE" ->
            [td EXCEPT
                !.members = [m \in DOMAIN @ |-> [@[m] EXCEPT !.type = Later(@)]],
                !.additions = IF td.extensible
                              THEN <<Optional("first", OCTET_STRING(Unbounded, FALSE)),
                                     Optional("second", OCTET_STRING(Unbounded, FALSE))>>
                              ELSE @]
      [] td.kind \in {"CHOICE", "OPEN TYPE"} ->
            [td EXCEPT !.alternatives = [a \in DOMAIN @ |-> [@[a] EXCEPT !.type = Later(@)]]]
      [] td.kind = "SEQUENCE OF" -> [td EXCEPT !.element = Later(@)]
      [] OTHER -> td

MCLaterTypes == [E2AP_PDU |-> Later(E2AP_PDU)]

\* Helpers.  Lists of the sizes at which the arrays are allocated anew and
\* of one more than a message takes; causes that are none; ids out of range.
Subscription(id, actions) ==
    [req_id |-> id, func_id |-> 1, event_def |-> Octets(actions),
     actions |-> [i \in 1 .. actions |-> [id |-> i, type |-> i % 3, next_action |-> i % 2]]]
RefusedAction(id, cause) == [id |-> id, cause |-> cause, sub_cause |-> 1]
Decision(id, admitted, not_admitted) ==
    [req_id |-> id, func_id |-> 2, admitted |-> [i \in 1 .. admitted |-> 10 * i],
     not_admitted |-> not_admitted]
Control(id, ack, process, cause, status) ==
    [req_id |-> id, func_id |-> 3, control_header |-> Octets(3), control_msg |-> Octets(2),
     control_ack |-> ack, call_process_id |-> process, cause |-> cause, sub_cause |-> 2,
     control_status |-> status]
Report(id, sn, process) ==
    [req_id |-> id, func_id |-> 4, action_id |-> 5, indication_sn |-> sn, indication_type |-> 0,
     indication_header |-> Octets(1), indication_msg |-> Octets(sn), call_process_id |-> process]

Subscriptions == {Subscription(n, n) : n \in {1, 4, 5, 17}} \cup {Subscription(65536, 2)}
Decisions ==
    {Decision(1, 2, <<>>), Decision(2, 0, <<>>), Decision(3, 4, <<RefusedAction(8, 5)>>),
     Decision(4, 1, <<RefusedAction(1, 2), RefusedAction(2, 0), RefusedAction(3, 3)>>),
     Decision(5, 1, [c \in 1 .. 5 |-> RefusedAction(c, c)]), Decision(65536, 1, <<>>),
     Decision(6, 17, Times(17, RefusedAction(9, 1)))}
Controls ==
    {Control(1, -1, <<>>, 1, 0), Control(2, 2, Octets(1), 4, 2), Control(3, 0, Octets(2), 6, 3),
     Control(4, 3, <<>>, 0, 1), Control(65536, 1, <<>>, 5, 1)}
Reports == {Report(1, 1, <<>>), Report(2, 2, Octets(1)), Report(65536, 3, <<>>), Report(4, 128, <<>>)}

MCHelpers ==
    [subscription_request |-> Subscriptions, subscription_delete |-> Subscriptions,
     subscription_response |-> Decisions, subscription_delete_response |-> Decisions,
     ric_control_request |-> Controls, ric_control_response |-> Controls,
     ric_indication |-> Reports]
=============================================================================
