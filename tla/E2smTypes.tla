------------------------------ MODULE E2smTypes ------------------------------
(***************************************************************************)
(* The service model E2SM-HelloWorld: the descriptors of the generated     *)
(* files E2SM-HelloWorld-*.c, HW-*.c and RANparameter-*.c of asn1c_defs.   *)
(***************************************************************************)
EXTENDS AsnTypes

RANparameter_ID == NativeInteger(8, 0, 255)
RANparameter_Name == OCTET_STRING(Unbounded, FALSE)

RANparameter_Test == NativeEnumerated("extensible", 3, <<
    "equal", "greaterthan", "lessthan", "contains", "present">>)
RANparameter_Value == OCTET_STRING(Unbounded, FALSE)

RANparameter_Item == SEQUENCE(TRUE, <<
    Mandatory("ranParameter_ID", RANparameter_ID),
    Mandatory("ranParameter_Name", RANparameter_Name),
    Mandatory("ranParameter_Test", RANparameter_Test),
    Mandatory("ranParameter_Value", RANparameter_Value)>>)
ranParameter_List == SEQUENCE_OF(Fixed(8, 1, 255), RANparameter_Item)

E2SM_HelloWorld_ActionDefinition_Format1 == SEQUENCE(TRUE, <<
    Member("ranParameter_List", ranParameter_List, TRUE, TRUE)>>)

E2SM_HelloWorld_ActionDefinition == CHOICE(0, 1, <<
    Alternative("actionDefinition_Format1", E2SM_HelloWorld_ActionDefinition_Format1)>>)
HW_Header == UnboundedInteger

E2SM_HelloWorld_ControlHeader_Format1 == SEQUENCE(TRUE, <<
    Mandatory("controlHeaderParam", HW_Header)>>)

E2SM_HelloWorld_ControlHeader == CHOICE(0, 1, <<
    Alternative("controlHeader_Format1", E2SM_HelloWorld_ControlHeader_Format1)>>)
HW_Message == OCTET_STRING(Unbounded, FALSE)

E2SM_HelloWorld_ControlMessage_Format1 == SEQUENCE(TRUE, <<
    Mandatory("controlMsgParam", HW_Message)>>)

E2SM_HelloWorld_ControlMessage == CHOICE(0, 1, <<
    Alternative("controlMessage_Format1", E2SM_HelloWorld_ControlMessage_Format1)>>)
HW_TriggerNature == NativeEnumerated("extensible", 1, <<"now", "onchange">>)

E2SM_HelloWorld_EventTriggerDefinition_Format1 == SEQUENCE(TRUE, <<
    Mandatory("triggerNature", HW_TriggerNature)>>)

E2SM_HelloWorld_EventTriggerDefinition == CHOICE(0, 1, <<
    Alternative("eventDefinition_Format1", E2SM_HelloWorld_EventTriggerDefinition_Format1)>>)

E2SM_HelloWorld_IndicationHeader_Format1 == SEQUENCE(TRUE, <<
    Mandatory("indicationHeaderParam", HW_Header)>>)

E2SM_HelloWorld_IndicationHeader == CHOICE(0, 1, <<
    Alternative("indicationHeader_Format1", E2SM_HelloWorld_IndicationHeader_Format1)>>)

E2SM_HelloWorld_IndicationMessage_Format1 == SEQUENCE(TRUE, <<
    Mandatory("indicationMsgParam", HW_Message)>>)

E2SM_HelloWorld_IndicationMessage == CHOICE(0, 1, <<
    Alternative("indicationMessage_Format1", E2SM_HelloWorld_IndicationMessage_Format1)>>)
HW_ControlCommand == NativeEnumerated("extensible", 1, <<"addition", "deletion">>)
=============================================================================
