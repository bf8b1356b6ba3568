------------------------------ MODULE E2apPdus ------------------------------
(***************************************************************************)
(* The messages of E2AP, from ProtocolIE-Field.c and the generated files   *)
(* of the messages: for every set of information elements its rows, the    *)
(* checks and selectors of a field of the set, and the field; then the     *)
(* container, the message, the three kinds of outcome and E2AP-PDU.        *)
(***************************************************************************)
EXTENDS E2apIEs, TLC

\* What is the same in the field of every set: the range of the id, and the
\* selectors of the other two members by the id.
FieldChecks(rows) ==
    [id |-> NativeInteger(16, 0, 65535), criticality |-> Selector(rows, "id", "criticality"),
     value |-> Selector(rows, "id", "Value")]

ProtocolIE_Field(checks, alternatives) ==
    SEQUENCE(FALSE, <<Checked("id", checks.id), Checked("criticality", Criticality),
                      Checked("value", OPEN_TYPE("id", checks.value, alternatives))>>)

\* The cells of a row of the elementary procedures, by the outcomes it has.
Class3(procedureCode, criticality, Initiating) ==
    [procedureCode |-> procedureCode, criticality |-> criticality, InitiatingMessage |-> Initiating]
Class2(procedureCode, criticality, Initiating, Successful) ==
    [SuccessfulOutcome |-> Successful] @@ Class3(procedureCode, criticality, Initiating)
Class1(procedureCode, criticality, Initiating, Successful, Unsuccessful) ==
    [UnsuccessfulOutcome |-> Unsuccessful] @@ Class2(procedureCode, criticality, Initiating, Successful)

OutcomeChecks(rows, outcome) ==
    [procedureCode |-> ProcedureCode, criticality |-> Selector(rows, "procedureCode", "criticality"),
     value |-> Selector(rows, "procedureCode", outcome)]

Outcome(checks, alternatives) ==
    SEQUENCE(FALSE, <<Checked("procedureCode", checks.procedureCode),
                      Checked("criticality", Criticality),
                      Checked("value", OPEN_TYPE("procedureCode", checks.value, alternatives))>>)

RICsubscriptionRequest_IEs_rows == <<
    IE(29, "reject", "RICrequestID", "mandatory"), IE(5, "reject", "RANfunctionID", "mandatory"),
    IE(30, "reject", "RICsubscriptionDetails", "mandatory")>>
RICsubscriptionRequest_IEs_checks == FieldChecks(RICsubscriptionRequest_IEs_rows)

RICaction_ToBeSetup_ItemIEs_rows == <<IE(19, "ignore", "RICaction_ToBeSetup_Item", "mandatory")>>
RICaction_ToBeSetup_ItemIEs_checks == FieldChecks(RICaction_ToBeSetup_ItemIEs_rows)
RICaction_ToBeSetup_ItemIEs == ProtocolIE_Field(RICaction_ToBeSetup_ItemIEs_checks, <<
    Alternative("RICaction_ToBeSetup_Item", RICaction_ToBeSetup_Item)>>)
ProtocolIE_SingleContainer_1415P0 == RICaction_ToBeSetup_ItemIEs
RICactions_ToBeSetup_List == SEQUENCE_OF(Fixed(4, 1, 16), ProtocolIE_SingleContainer_1415P0)
RICsubscriptionDetails == SEQUENCE(TRUE, <<
    Mandatory("ricEventTriggerDefinition", RICeventTriggerDefinition),
    Mandatory("ricAction_ToBeSetup_List", RICactions_ToBeSetup_List)>>)
RICsubscriptionRequest_IEs == ProtocolIE_Field(RICsubscriptionRequest_IEs_checks, <<
    Alternative("RICrequestID", RICrequestID), Alternative("RANfunctionID", RANfunctionID),
    Alternative("RICsubscriptionDetails", RICsubscriptionDetails)>>)
ProtocolIE_Container_1412P0 == SEQUENCE_OF(Fixed(16, 0, 65535), RICsubscriptionRequest_IEs)
RICsubscriptionRequest == SEQUENCE(TRUE, <<Mandatory("protocolIEs", ProtocolIE_Container_1412P0)>>)

RICsubscriptionDeleteRequest_IEs_rows == <<
    IE(29, "reject", "RICrequestID", "mandatory"), IE(5, "reject", "RANfunctionID", "mandatory")>>
RICsubscriptionDeleteRequest_IEs_checks == FieldChecks(RICsubscriptionDeleteRequest_IEs_rows)
RICsubscriptionDeleteRequest_IEs == ProtocolIE_Field(RICsubscriptionDeleteRequest_IEs_checks, <<
    Alternative("RICrequestID", RICrequestID), Alternative("RANfunctionID", RANfunctionID)>>)
ProtocolIE_Container_1412P3 == SEQUENCE_OF(Fixed(16, 0, 65535), RICsubscriptionDeleteRequest_IEs)
RICsubscriptionDeleteRequest == SEQUENCE(TRUE, <<
    Mandatory("protocolIEs", ProtocolIE_Container_1412P3)>>)

RICserviceUpdate_IEs_rows == <<
    IE(10, "reject", "RANfunctions_List", "optional"),
    IE(12, "reject", "RANfunctions_List", "optional"),
    IE(11, "reject", "RANfunctionsID_List", "optional")>>
RICserviceUpdate_IEs_checks == FieldChecks(RICserviceUpdate_IEs_rows)

RANfunction_ItemIEs_rows == <<IE(8, "ignore", "RANfunction_Item", "mandatory")>>
RANfunction_ItemIEs_checks == FieldChecks(RANfunction_ItemIEs_rows)
RANfunction_ItemIEs == ProtocolIE_Field(RANfunction_ItemIEs_checks, <<
    Alternative("RANfunction_Item", RANfunction_Item)>>)
ProtocolIE_SingleContainer_1415P3 == RANfunction_ItemIEs
RANfunctions_List == SEQUENCE_OF(Fixed(9, 0, 256), ProtocolIE_SingleContainer_1415P3)

RANfunctionID_ItemIEs_rows == <<IE(6, "ignore", "RANfunctionID_Item", "mandatory")>>
RANfunctionID_ItemIEs_checks == FieldChecks(RANfunctionID_ItemIEs_rows)
RANfunctionID_ItemIEs == ProtocolIE_Field(RANfunctionID_ItemIEs_checks, <<
    Alternative("RANfunctionID_Item", RANfunctionID_Item)>>)
ProtocolIE_SingleContainer_1415P4 == RANfunctionID_ItemIEs
RANfunctionsID_List == SEQUENCE_OF(Fixed(9, 0, 256), ProtocolIE_SingleContainer_1415P4)
RICserviceUpdate_IEs == ProtocolIE_Field(RICserviceUpdate_IEs_checks, <<
    Alternative("RANfunctions_List", RANfunctions_List),
    Alternative("RANfunctionsID_List", RANfunctionsID_List)>>)
ProtocolIE_Container_1412P16 == SEQUENCE_OF(Fixed(16, 0, 65535), RICserviceUpdate_IEs)
RICserviceUpdate == SEQUENCE(TRUE, <<Mandatory("protocolIEs", ProtocolIE_Container_1412P16)>>)

RICcontrolRequest_IEs_rows == <<
    IE(29, "reject", "RICrequestID", "mandatory"), IE(5, "reject", "RANfunctionID", "mandatory"),
    IE(20, "reject", "RICcallProcessID", "optional"),
    IE(22, "reject", "RICcontrolHeader", "mandatory"),
    IE(23, "reject", "RICcontrolMessage", "mandatory"),
    IE(21, "reject", "RICcontrolAckRequest", "optional")>>
RICcontrolRequest_IEs_checks == FieldChecks(RICcontrolRequest_IEs_rows)
RICcontrolRequest_IEs == ProtocolIE_Field(RICcontrolRequest_IEs_checks, <<
    Alternative("RICrequestID", RICrequestID), Alternative("RANfunctionID", RANfunctionID),
    Alternative("RICcallProcessID", RICcallProcessID),
    Alternative("RICcontrolHeader", RICcontrolHeader),
    Alternative("RICcontrolMessage", RICcontrolMessage),
    Alternative("RICcontrolAckRequest", RICcontrolAckRequest)>>)
ProtocolIE_Container_1412P7 == SEQUENCE_OF(Fixed(16, 0, 65535), RICcontrolRequest_IEs)
RICcontrolRequest == SEQUENCE(TRUE, <<Mandatory("protocolIEs", ProtocolIE_Container_1412P7)>>)

E2setupRequestIEs_rows == <<
    IE(3, "reject", "GlobalE2node_ID", "mandatory"),
    IE(10, "reject", "RANfunctions_List", "optional")>>
E2setupRequestIEs_checks == FieldChecks(E2setupRequestIEs_rows)
E2setupRequestIEs == ProtocolIE_Field(E2setupRequestIEs_checks, <<
    Alternative("GlobalE2node_ID", GlobalE2node_ID),
    Alternative("RANfunctions_List", RANfunctions_List)>>)
ProtocolIE_Container_1412P11 == SEQUENCE_OF(Fixed(16, 0, 65535), E2setupRequestIEs)
E2setupRequest == SEQUENCE(TRUE, <<Mandatory("protocolIEs", ProtocolIE_Container_1412P11)>>)

ResetRequestIEs_rows == <<IE(1, "ignore", "Cause", "mandatory")>>
ResetRequestIEs_checks == FieldChecks(ResetRequestIEs_rows)
ResetRequestIEs == ProtocolIE_Field(ResetRequestIEs_checks, <<Alternative("Cause", Cause)>>)
ProtocolIE_Container_1412P14 == SEQUENCE_OF(Fixed(16, 0, 65535), ResetRequestIEs)
ResetRequest == SEQUENCE(TRUE, <<Mandatory("protocolIEs", ProtocolIE_Container_1412P14)>>)

RICindication_IEs_rows == <<
    IE(29, "reject", "RICrequestID", "mandatory"), IE(5, "reject", "RANfunctionID", "mandatory"),
    IE(15, "reject", "RICactionID", "mandatory"), IE(27, "reject", "RICindicationSN", "optional"),
    IE(28, "reject", "RICindicationType", "mandatory"),
    IE(25, "reject", "RICindicationHeader", "mandatory"),
    IE(26, "reject", "RICindicationMessage", "mandatory"),
    IE(20, "reject", "RICcallProcessID", "optional")>>
RICindication_IEs_checks == FieldChecks(RICindication_IEs_rows)
RICindication_IEs == ProtocolIE_Field(RICindication_IEs_checks, <<
    Alternative("RICrequestID", RICrequestID), Alternative("RANfunctionID", RANfunctionID),
    Alternative("RICactionID", RICactionID), Alternative("RICindicationSN", RICindicationSN),
    Alternative("RICindicationType", RICindicationType),
    Alternative("RICindicationHeader", RICindicationHeader),
    Alternative("RICindicationMessage", RICindicationMessage),
    Alternative("RICcallProcessID", RICcallProcessID)>>)
ProtocolIE_Container_1412P6 == SEQUENCE_OF(Fixed(16, 0, 65535), RICindication_IEs)
RICindication == SEQUENCE(TRUE, <<Mandatory("protocolIEs", ProtocolIE_Container_1412P6)>>)

RICserviceQuery_IEs_rows == <<IE(9, "reject", "RANfunctionsID_List", "optional")>>
RICserviceQuery_IEs_checks == FieldChecks(RICserviceQuery_IEs_rows)
RICserviceQuery_IEs == ProtocolIE_Field(RICserviceQuery_IEs_checks, <<
    Alternative("RANfunctionsID_List", RANfunctionsID_List)>>)
ProtocolIE_Container_1412P19 == SEQUENCE_OF(Fixed(16, 0, 65535), RICserviceQuery_IEs)
RICserviceQuery == SEQUENCE(TRUE, <<Mandatory("protocolIEs", ProtocolIE_Container_1412P19)>>)

ErrorIndication_IEs_rows == <<
    IE(29, "reject", "RICrequestID", "optional"), IE(5, "reject", "RANfunctionID", "optional"),
    IE(1, "ignore", "Cause", "optional"), IE(2, "ignore", "CriticalityDiagnostics", "optional")>>
ErrorIndication_IEs_checks == FieldChecks(ErrorIndication_IEs_rows)
ErrorIndication_IEs == ProtocolIE_Field(ErrorIndication_IEs_checks, <<
    Alternative("RICrequestID", RICrequestID), Alternative("RANfunctionID", RANfunctionID),
    Alternative("Cause", Cause), Alternative("CriticalityDiagnostics", CriticalityDiagnostics)>>)
ProtocolIE_Container_1412P10 == SEQUENCE_OF(Fixed(16, 0, 65535), ErrorIndication_IEs)
ErrorIndication == SEQUENCE(TRUE, <<Mandatory("protocolIEs", ProtocolIE_Container_1412P10)>>)

E2AP_ELEMENTARY_PROCEDURES == <<
    Class1(8, "reject", "RICsubscriptionRequest", "RICsubscriptionResponse", "RICsubscriptionFailure"),
    Class1(9, "reject", "RICsubscriptionDeleteRequest", "RICsubscriptionDeleteResponse", "RICsubscriptionDeleteFailure"),
    Class1(7, "reject", "RICserviceUpdate", "RICserviceUpdateAcknowledge", "RICserviceUpdateFailure"),
    Class1(4, "reject", "RICcontrolRequest", "RICcontrolAcknowledge", "RICcontrolFailure"),
    Class1(1, "reject", "E2setupRequest", "E2setupResponse", "E2setupFailure"),
    Class2(3, "reject", "ResetRequest", "ResetResponse"), Class3(5, "ignore", "RICindication"),
    Class3(6, "ignore", "RICserviceQuery"), Class3(2, "ignore", "ErrorIndication")>>
InitiatingMessage_checks == OutcomeChecks(E2AP_ELEMENTARY_PROCEDURES, "InitiatingMessage")
InitiatingMessage == Outcome(InitiatingMessage_checks, <<
    Alternative("RICsubscriptionRequest", RICsubscriptionRequest),
    Alternative("RICsubscriptionDeleteRequest", RICsubscriptionDeleteRequest),
    Alternative("RICserviceUpdate", RICserviceUpdate),
    Alternative("RICcontrolRequest", RICcontrolRequest),
    Alternative("E2setupRequest", E2setupRequest), Alternative("ResetRequest", ResetRequest),
    Alternative("RICindication", RICindication), Alternative("RICserviceQuery", RICserviceQuery),
    Alternative("ErrorIndication", ErrorIndication)>>)

RICsubscriptionResponse_IEs_rows == <<
    IE(29, "reject", "RICrequestID", "mandatory"), IE(5, "reject", "RANfunctionID", "mandatory"),
    IE(17, "reject", "RICaction_Admitted_List", "mandatory"),
    IE(18, "reject", "RICaction_NotAdmitted_List", "optional")>>
RICsubscriptionResponse_IEs_checks == FieldChecks(RICsubscriptionResponse_IEs_rows)

RICaction_Admitted_ItemIEs_rows == <<IE(14, "ignore", "RICaction_Admitted_Item", "mandatory")>>
RICaction_Admitted_ItemIEs_checks == FieldChecks(RICaction_Admitted_ItemIEs_rows)
RICaction_Admitted_ItemIEs == ProtocolIE_Field(RICaction_Admitted_ItemIEs_checks, <<
    Alternative("RICaction_Admitted_Item", RICaction_Admitted_Item)>>)
ProtocolIE_SingleContainer_1415P1 == RICaction_Admitted_ItemIEs
RICaction_Admitted_List == SEQUENCE_OF(Fixed(4, 1, 16), ProtocolIE_SingleContainer_1415P1)

RICaction_NotAdmitted_ItemIEs_rows == <<
    IE(16, "ignore", "RICaction_NotAdmitted_Item", "mandatory")>>
RICaction_NotAdmitted_ItemIEs_checks == FieldChecks(RICaction_NotAdmitted_ItemIEs_rows)
RICaction_NotAdmitted_ItemIEs == ProtocolIE_Field(RICaction_NotAdmitted_ItemIEs_checks, <<
    Alternative("RICaction_NotAdmitted_Item", RICaction_NotAdmitted_Item)>>)
ProtocolIE_SingleContainer_1415P2 == RICaction_NotAdmitted_ItemIEs
RICaction_NotAdmitted_List == SEQUENCE_OF(Fixed(5, 0, 16), ProtocolIE_SingleContainer_1415P2)
RICsubscriptionResponse_IEs == ProtocolIE_Field(RICsubscriptionResponse_IEs_checks, <<
    Alternative("RICrequestID", RICrequestID), Alternative("RANfunctionID", RANfunctionID),
    Alternative("RICaction_Admitted_List", RICaction_Admitted_List),
    Alternative("RICaction_NotAdmitted_List", RICaction_NotAdmitted_List)>>)
ProtocolIE_Container_1412P1 == SEQUENCE_OF(Fixed(16, 0, 65535), RICsubscriptionResponse_IEs)
RICsubscriptionResponse == SEQUENCE(TRUE, <<Mandatory("protocolIEs", ProtocolIE_Container_1412P1)>>)

RICsubscriptionDeleteResponse_IEs_rows == <<
    IE(29, "reject", "RICrequestID", "mandatory"), IE(5, "reject", "RANfunctionID", "mandatory")>>
RICsubscriptionDeleteResponse_IEs_checks == FieldChecks(RICsubscriptionDeleteResponse_IEs_rows)
RICsubscriptionDeleteResponse_IEs == ProtocolIE_Field(RICsubscriptionDeleteResponse_IEs_checks, <<
    Alternative("RICrequestID", RICrequestID), Alternative("RANfunctionID", RANfunctionID)>>)
ProtocolIE_Container_1412P4 == SEQUENCE_OF(Fixed(16, 0, 65535), RICsubscriptionDeleteResponse_IEs)
RICsubscriptionDeleteResponse == SEQUENCE(TRUE, <<
    Mandatory("protocolIEs", ProtocolIE_Container_1412P4)>>)

RICserviceUpdateAcknowledge_IEs_rows == <<
    IE(9, "reject", "RANfunctionsID_List", "optional"),
    IE(13, "reject", "RANfunctionsIDcause_List", "optional")>>
RICserviceUpdateAcknowledge_IEs_checks == FieldChecks(RICserviceUpdateAcknowledge_IEs_rows)

RANfunctionIDcause_ItemIEs_rows == <<IE(7, "ignore", "RANfunctionIDcause_Item", "mandatory")>>
RANfunctionIDcause_ItemIEs_checks == FieldChecks(RANfunctionIDcause_ItemIEs_rows)
RANfunctionIDcause_ItemIEs == ProtocolIE_Field(RANfunctionIDcause_ItemIEs_checks, <<
    Alternative("RANfunctionIDcause_Item", RANfunctionIDcause_Item)>>)
ProtocolIE_SingleContainer_1415P5 == RANfunctionIDcause_ItemIEs
RANfunctionsIDcause_List == SEQUENCE_OF(Fixed(9, 0, 256), ProtocolIE_SingleContainer_1415P5)
RICserviceUpdateAcknowledge_IEs == ProtocolIE_Field(RICserviceUpdateAcknowledge_IEs_checks, <<
    Alternative("RANfunctionsID_List", RANfunctionsID_List),
    Alternative("RANfunctionsIDcause_List", RANfunctionsIDcause_List)>>)
ProtocolIE_Container_1412P17 == SEQUENCE_OF(Fixed(16, 0, 65535), RICserviceUpdateAcknowledge_IEs)
RICserviceUpdateAcknowledge == SEQUENCE(TRUE, <<
    Mandatory("protocolIEs", ProtocolIE_Container_1412P17)>>)

RICcontrolAcknowledge_IEs_rows == <<
    IE(29, "reject", "RICrequestID", "mandatory"), IE(5, "reject", "RANfunctionID", "mandatory"),
    IE(20, "reject", "RICcallProcessID", "optional"),
    IE(24, "reject", "RICcontrolStatus", "mandatory"),
    IE(32, "reject", "RICcontrolOutcome", "optional")>>
RICcontrolAcknowledge_IEs_checks == FieldChecks(RICcontrolAcknowledge_IEs_rows)
RICcontrolAcknowledge_IEs == ProtocolIE_Field(RICcontrolAcknowledge_IEs_checks, <<
    Alternative("RICrequestID", RICrequestID), Alternative("RANfunctionID", RANfunctionID),
    Alternative("RICcallProcessID", RICcallProcessID),
    Alternative("RICcontrolStatus", RICcontrolStatus),
    Alternative("RICcontrolOutcome", RICcontrolOutcome)>>)
ProtocolIE_Container_1412P8 == SEQUENCE_OF(Fixed(16, 0, 65535), RICcontrolAcknowledge_IEs)
RICcontrolAcknowledge == SEQUENCE(TRUE, <<Mandatory("protocolIEs", ProtocolIE_Container_1412P8)>>)

E2setupResponseIEs_rows == <<
    IE(4, "reject", "GlobalRIC_ID", "mandatory"),
    IE(9, "reject", "RANfunctionsID_List", "optional"),
    IE(13, "reject", "RANfunctionsIDcause_List", "optional")>>
E2setupResponseIEs_checks == FieldChecks(E2setupResponseIEs_rows)
E2setupResponseIEs == ProtocolIE_Field(E2setupResponseIEs_checks, <<
    Alternative("GlobalRIC_ID", GlobalRIC_ID),
    Alternative("RANfunctionsID_List", RANfunctionsID_List),
    Alternative("RANfunctionsIDcause_List", RANfunctionsIDcause_List)>>)
ProtocolIE_Container_1412P12 == SEQUENCE_OF(Fixed(16, 0, 65535), E2setupResponseIEs)
E2setupResponse == SEQUENCE(TRUE, <<Mandatory("protocolIEs", ProtocolIE_Container_1412P12)>>)

ResetResponseIEs_rows == <<IE(2, "ignore", "CriticalityDiagnostics", "optional")>>
ResetResponseIEs_checks == FieldChecks(ResetResponseIEs_rows)
ResetResponseIEs == ProtocolIE_Field(ResetResponseIEs_checks, <<
    Alternative("CriticalityDiagnostics", CriticalityDiagnostics)>>)
ProtocolIE_Container_1412P15 == SEQUENCE_OF(Fixed(16, 0, 65535), ResetResponseIEs)
ResetResponse == SEQUENCE(TRUE, <<Mandatory("protocolIEs", ProtocolIE_Container_1412P15)>>)
SuccessfulOutcome_checks == OutcomeChecks(E2AP_ELEMENTARY_PROCEDURES, "SuccessfulOutcome")
SuccessfulOutcome == Outcome(SuccessfulOutcome_checks, <<
    Alternative("RICsubscriptionResponse", RICsubscriptionResponse),
    Alternative("RICsubscriptionDeleteResponse", RICsubscriptionDeleteResponse),
    Alternative("RICserviceUpdateAcknowledge", RICserviceUpdateAcknowledge),
    Alternative("RICcontrolAcknowledge", RICcontrolAcknowledge),
    Alternative("E2setupResponse", E2setupResponse), Alternative("ResetResponse", ResetResponse)>>)

RICsubscriptionFailure_IEs_rows == <<
    IE(29, "reject", "RICrequestID", "mandatory"), IE(5, "reject", "RANfunctionID", "mandatory"),
    IE(18, "reject", "RICaction_NotAdmitted_List", "mandatory"),
    IE(2, "ignore", "CriticalityDiagnostics", "optional")>>
RICsubscriptionFailure_IEs_checks == FieldChecks(RICsubscriptionFailure_IEs_rows)
RICsubscriptionFailure_IEs == ProtocolIE_Field(RICsubscriptionFailure_IEs_checks, <<
    Alternative("RICrequestID", RICrequestID), Alternative("RANfunctionID", RANfunctionID),
    Alternative("RICaction_NotAdmitted_List", RICaction_NotAdmitted_List),
    Alternative("CriticalityDiagnostics", CriticalityDiagnostics)>>)
ProtocolIE_Container_1412P2 == SEQUENCE_OF(Fixed(16, 0, 65535), RICsubscriptionFailure_IEs)
RICsubscriptionFailure == SEQUENCE(TRUE, <<Mandatory("protocolIEs", ProtocolIE_Container_1412P2)>>)

RICsubscriptionDeleteFailure_IEs_rows == <<
    IE(29, "reject", "RICrequestID", "mandatory"), IE(5, "reject", "RANfunctionID", "mandatory"),
    IE(1, "ignore", "Cause", "mandatory"), IE(2, "ignore", "CriticalityDiagnostics", "optional")>>
RICsubscriptionDeleteFailure_IEs_checks == FieldChecks(RICsubscriptionDeleteFailure_IEs_rows)
RICsubscriptionDeleteFailure_IEs == ProtocolIE_Field(RICsubscriptionDeleteFailure_IEs_checks, <<
    Alternative("RICrequestID", RICrequestID), Alternative("RANfunctionID", RANfunctionID),
    Alternative("Cause", Cause), Alternative("CriticalityDiagnostics", CriticalityDiagnostics)>>)
ProtocolIE_Container_1412P5 == SEQUENCE_OF(Fixed(16, 0, 65535), RICsubscriptionDeleteFailure_IEs)
RICsubscriptionDeleteFailure == SEQUENCE(TRUE, <<
    Mandatory("protocolIEs", ProtocolIE_Container_1412P5)>>)

RICserviceUpdateFailure_IEs_rows == <<
    IE(13, "ignore", "RANfunctionsIDcause_List", "optional"),
    IE(31, "ignore", "TimeToWait", "optional"),
    IE(2, "ignore", "CriticalityDiagnostics", "optional")>>
RICserviceUpdateFailure_IEs_checks == FieldChecks(RICserviceUpdateFailure_IEs_rows)
RICserviceUpdateFailure_IEs == ProtocolIE_Field(RICserviceUpdateFailure_IEs_checks, <<
    Alternative("RANfunctionsIDcause_List", RANfunctionsIDcause_List),
    Alternative("TimeToWait", TimeToWait),
    Alternative("CriticalityDiagnostics", CriticalityDiagnostics)>>)
ProtocolIE_Container_1412P18 == SEQUENCE_OF(Fixed(16, 0, 65535), RICserviceUpdateFailure_IEs)
RICserviceUpdateFailure == SEQUENCE(TRUE, <<
    Mandatory("protocolIEs", ProtocolIE_Container_1412P18)>>)

RICcontrolFailure_IEs_rows == <<
    IE(29, "reject", "RICrequestID", "mandatory"), IE(5, "reject", "RANfunctionID", "mandatory"),
    IE(20, "reject", "RICcallProcessID", "optional"), IE(1, "ignore", "Cause", "mandatory"),
    IE(32, "reject", "RICcontrolOutcome", "optional")>>
RICcontrolFailure_IEs_checks == FieldChecks(RICcontrolFailure_IEs_rows)
RICcontrolFailure_IEs == ProtocolIE_Field(RICcontrolFailure_IEs_checks, <<
    Alternative("RICrequestID", RICrequestID), Alternative("RANfunctionID", RANfunctionID),
    Alternative("RICcallProcessID", RICcallProcessID), Alternative("Cause", Cause),
    Alternative("RICcontrolOutcome", RICcontrolOutcome)>>)
ProtocolIE_Container_1412P9 == SEQUENCE_OF(Fixed(16, 0, 65535), RICcontrolFailure_IEs)
RICcontrolFailure == SEQUENCE(TRUE, <<Mandatory("protocolIEs", ProtocolIE_Container_1412P9)>>)

E2setupFailureIEs_rows == <<
    IE(1, "ignore", "Cause", "mandatory"), IE(31, "ignore", "TimeToWait", "optional"),
    IE(2, "ignore", "CriticalityDiagnostics", "optional")>>
E2setupFailureIEs_checks == FieldChecks(E2setupFailureIEs_rows)
E2setupFailureIEs == ProtocolIE_Field(E2setupFailureIEs_checks, <<
    Alternative("Cause", Cause), Alternative("TimeToWait", TimeToWait),
    Alternative("CriticalityDiagnostics", CriticalityDiagnostics)>>)
ProtocolIE_Container_1412P13 == SEQUENCE_OF(Fixed(16, 0, 65535), E2setupFailureIEs)
E2setupFailure == SEQUENCE(TRUE, <<Mandatory("protocolIEs", ProtocolIE_Container_1412P13)>>)
UnsuccessfulOutcome_checks == OutcomeChecks(E2AP_ELEMENTARY_PROCEDURES, "UnsuccessfulOutcome")
UnsuccessfulOutcome == Outcome(UnsuccessfulOutcome_checks, <<
    Alternative("RICsubscriptionFailure", RICsubscriptionFailure),
    Alternative("RICsubscriptionDeleteFailure", RICsubscriptionDeleteFailure),
    Alternative("RICserviceUpdateFailure", RICserviceUpdateFailure),
    Alternative("RICcontrolFailure", RICcontrolFailure),
    Alternative("E2setupFailure", E2setupFailure)>>)

E2AP_PDU == CHOICE(2, 3, <<
    Alternative("initiatingMessage", InitiatingMessage),
    Alternative("successfulOutcome", SuccessfulOutcome),
    Alternative("unsuccessfulOutcome", UnsuccessfulOutcome)>>)
=============================================================================
