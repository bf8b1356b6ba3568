------------------------------ MODULE E2apIEs ------------------------------
(***************************************************************************)
(* The information elements of E2AP: the descriptors of the generated      *)
(* files of asn1c_defs, one definition per type and in the order in which  *)
(* they need each other.                                                   *)
(***************************************************************************)
EXTENDS AsnTypes

ProcedureCode == NativeInteger(8, 0, 255)
Criticality == NativeEnumerated("constrained", 2, <<"reject", "ignore", "notify">>)
ProtocolIE_ID == NativeInteger(16, 0, 65535)

RICrequestID == SEQUENCE(TRUE, <<
    Checked("ricRequestorID", NativeInteger(16, 0, 65535)),
    Checked("ricInstanceID", NativeInteger(16, 0, 65535))>>)
RANfunctionID == NativeInteger(12, 0, 4095)
RICeventTriggerDefinition == OCTET_STRING(Unbounded, FALSE)
RICactionID == NativeInteger(8, 0, 255)
RICactionType == NativeEnumerated("extensible", 2, <<"report", "insert", "policy">>)
RICactionDefinition == OCTET_STRING(Unbounded, FALSE)
RICsubsequentActionType == NativeEnumerated("extensible", 1, <<"continue", "wait">>)

RICtimeToWait == NativeEnumerated("extensible", 5, <<
    "zero", "w1ms", "w2ms", "w5ms", "w10ms", "w20ms", "w30ms", "w40ms", "w50ms", "w100ms", "w200ms",
    "w500ms", "w1s", "w2s", "w5s", "w10s", "w20s", "w60s">>)

RICsubsequentAction == SEQUENCE(TRUE, <<
    Mandatory("ricSubsequentActionType", RICsubsequentActionType),
    Mandatory("ricTimeToWait", RICtimeToWait)>>)

RICaction_ToBeSetup_Item == SEQUENCE(TRUE, <<
    Mandatory("ricActionID", RICactionID), Mandatory("ricActionType", RICactionType),
    Optional("ricActionDefinition", RICactionDefinition),
    Optional("ricSubsequentAction", RICsubsequentAction)>>)
RANfunctionDefinition == OCTET_STRING(Unbounded, FALSE)
RANfunctionRevision == NativeInteger(12, 0, 4095)

RANfunction_Item == SEQUENCE(TRUE, <<
    Mandatory("ranFunctionID", RANfunctionID),
    Mandatory("ranFunctionDefinition", RANfunctionDefinition),
    Mandatory("ranFunctionRevision", RANfunctionRevision)>>)

RANfunctionID_Item == SEQUENCE(TRUE, <<
    Mandatory("ranFunctionID", RANfunctionID),
    Mandatory("ranFunctionRevision", RANfunctionRevision)>>)
RICcallProcessID == OCTET_STRING(Unbounded, FALSE)
RICcontrolHeader == OCTET_STRING(Unbounded, FALSE)
RICcontrolMessage == OCTET_STRING(Unbounded, FALSE)
RICcontrolAckRequest == NativeEnumerated("extensible", 2, <<"noAck", "ack", "nAck">>)
PLMN_Identity == OCTET_STRING(Fixed(0, 3, 3), TRUE)
GNB_ID_Choice == CHOICE(0, 1, <<Alternative("gnb_ID", BIT_STRING(Fixed(4, 22, 32), TRUE))>>)

GlobalgNB_ID == SEQUENCE(TRUE, <<
    Mandatory("plmn_id", PLMN_Identity), Mandatory("gnb_id", GNB_ID_Choice)>>)
GNB_CU_UP_ID == NativeInteger(36, 0, MaxInteger)
GNB_DU_ID == NativeInteger(36, 0, MaxInteger)

GlobalE2node_gNB_ID == SEQUENCE(TRUE, <<
    Mandatory("global_gNB_ID", GlobalgNB_ID), Optional("gNB_CU_UP_ID", GNB_CU_UP_ID),
    Optional("gNB_DU_ID", GNB_DU_ID)>>)
ENGNB_ID == CHOICE(0, 1, <<Alternative("gNB_ID", BIT_STRING(Fixed(4, 22, 32), TRUE))>>)

GlobalenGNB_ID == SEQUENCE(TRUE, <<
    Mandatory("pLMN_Identity", PLMN_Identity), Mandatory("gNB_ID", ENGNB_ID)>>)
GlobalE2node_en_gNB_ID == SEQUENCE(TRUE, <<Mandatory("global_gNB_ID", GlobalenGNB_ID)>>)

ENB_ID_Choice == CHOICE(2, 3, <<
    Alternative("enb_ID_macro", BIT_STRING(Fixed(0, 20, 20), TRUE)),
    Alternative("enb_ID_shortmacro", BIT_STRING(Fixed(0, 18, 18), TRUE)),
    Alternative("enb_ID_longmacro", BIT_STRING(Fixed(0, 21, 21), TRUE))>>)

GlobalngeNB_ID == SEQUENCE(TRUE, <<
    Mandatory("plmn_id", PLMN_Identity), Mandatory("enb_id", ENB_ID_Choice)>>)
GlobalE2node_ng_eNB_ID == SEQUENCE(TRUE, <<Mandatory("global_ng_eNB_ID", GlobalngeNB_ID)>>)

ENB_ID == CHOICE(1, 2, <<
    Alternative("macro_eNB_ID", BIT_STRING(Fixed(0, 20, 20), TRUE)),
    Alternative("home_eNB_ID", BIT_STRING(Fixed(0, 28, 28), TRUE)),
    Alternative("short_Macro_eNB_ID", BIT_STRING(Fixed(0, 18, 18), TRUE)),
    Alternative("long_Macro_eNB_ID", BIT_STRING(Fixed(0, 21, 21), TRUE))>>)

GlobalENB_ID == SEQUENCE(TRUE, <<
    Mandatory("pLMN_Identity", PLMN_Identity), Mandatory("eNB_ID", ENB_ID)>>)
GlobalE2node_eNB_ID == SEQUENCE(TRUE, <<Mandatory("global_eNB_ID", GlobalENB_ID)>>)

GlobalE2node_ID == CHOICE(2, 4, <<
    Alternative("gNB", GlobalE2node_gNB_ID), Alternative("en_gNB", GlobalE2node_en_gNB_ID),
    Alternative("ng_eNB", GlobalE2node_ng_eNB_ID), Alternative("eNB", GlobalE2node_eNB_ID)>>)

CauseRIC == NativeEnumerated("extensible", 4, <<
    "ran_function_id_Invalid", "action_not_supported", "excessive_actions", "duplicate_action",
    "duplicate_event", "function_resource_limit", "request_id_unknown",
    "inconsistent_action_subsequent_action_sequence", "control_message_invalid",
    "call_process_id_invalid", "unspecified">>)

CauseRICservice == NativeEnumerated("extensible", 2, <<
    "function_not_required", "excessive_functions", "ric_resource_limit">>)

CauseTransport == NativeEnumerated("extensible", 1, <<
    "unspecified", "transport_resource_unavailable">>)

CauseProtocol == NativeEnumerated("extensible", 3, <<
    "transfer_syntax_error", "abstract_syntax_error_reject",
    "abstract_syntax_error_ignore_and_notify", "message_not_compatible_with_receiver_state",
    "semantic_error", "abstract_syntax_error_falsely_constructed_message", "unspecified">>)

CauseMisc == NativeEnumerated("extensible", 2, <<
    "control_processing_overload", "hardware_failure", "om_intervention", "unspecified">>)

Cause == CHOICE(3, 5, <<
    Alternative("ricRequest", CauseRIC), Alternative("ricService", CauseRICservice),
    Alternative("transport", CauseTransport), Alternative("protocol", CauseProtocol),
    Alternative("misc", CauseMisc)>>)
RICindicationSN == NativeInteger(16, 0, 65535)
RICindicationType == NativeEnumerated("extensible", 1, <<"report", "insert">>)
RICindicationHeader == OCTET_STRING(Unbounded, FALSE)
RICindicationMessage == OCTET_STRING(Unbounded, FALSE)

TriggeringMessage == NativeEnumerated("constrained", 2, <<
    "initiating_message", "successful_outcome", "unsuccessfull_outcome">>)
TypeOfError == NativeEnumerated("extensible", 1, <<"not_understood", "missing">>)

CriticalityDiagnostics_IE_Item == SEQUENCE(TRUE, <<
    Mandatory("iECriticality", Criticality), Mandatory("iE_ID", ProtocolIE_ID),
    Mandatory("typeOfError", TypeOfError)>>)
CriticalityDiagnostics_IE_List == SEQUENCE_OF(Fixed(8, 1, 256), CriticalityDiagnostics_IE_Item)

CriticalityDiagnostics == SEQUENCE(TRUE, <<
    Optional("procedureCode", ProcedureCode), Optional("triggeringMessage", TriggeringMessage),
    Optional("procedureCriticality", Criticality), Optional("ricRequestorID", RICrequestID),
    Optional("iEsCriticalityDiagnostics", CriticalityDiagnostics_IE_List)>>)
RICaction_Admitted_Item == SEQUENCE(TRUE, <<Mandatory("ricActionID", RICactionID)>>)

RICaction_NotAdmitted_Item == SEQUENCE(TRUE, <<
    Mandatory("ricActionID", RICactionID), Mandatory("cause", Cause)>>)

RANfunctionIDcause_Item == SEQUENCE(TRUE, <<
    Mandatory("ranFunctionID", RANfunctionID), Mandatory("cause", Cause)>>)
RICcontrolStatus == NativeEnumerated("extensible", 2, <<"success", "rejected", "failed">>)
RICcontrolOutcome == OCTET_STRING(Unbounded, FALSE)

GlobalRIC_ID == SEQUENCE(TRUE, <<
    Mandatory("pLMN_Identity", PLMN_Identity),
    Checked("ric_ID", BIT_STRING(Fixed(0, 20, 20), TRUE))>>)
TimeToWait == NativeEnumerated("extensible", 3, <<"v1s", "v2s", "v5s", "v10s", "v20s", "v60s">>)
=============================================================================
