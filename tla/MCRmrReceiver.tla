---------------------------- MODULE MCRmrReceiver ----------------------------
\* The receivers of the object and messages of every kind the processor
\* tells apart.
EXTENDS RmrReceiver
CONSTANTS r1

NoText == [text |-> "none"]
Msg(mtype, state, payload) ==
  [mtype |-> mtype, state |-> state, payload |-> payload, size |-> "short"]
Sized(mtype, size, payload) ==
  [mtype |-> mtype, state |-> "RMR_OK", payload |-> payload, size |-> size]
Policy(operation, id, instance) ==
  [operation |-> operation, policy_type_id |-> id,
   policy_instance_id |-> instance]

MCContents ==
  { Msg(RIC_HEALTH_CHECK_REQ, "RMR_OK", NoText),
    Msg(RIC_HEALTH_CHECK_REQ, "RMR_ERR_TIMEOUT", NoText),
    Msg(RIC_INDICATION, "RMR_OK", NoText),
    Msg(RIC_INDICATION, "RMR_ERR_TIMEOUT", NoText),
    Msg(RIC_SUB_RESP, "RMR_OK", NoText),
    Msg(A1_POLICY_REQ, "RMR_OK", Policy("CREATE", 1, "i1")),
    Msg(A1_POLICY_REQ, "RMR_OK", Policy("DELETE", 1, "i1")),
    Msg(A1_POLICY_REQ, "RMR_OK", [operation |-> "CREATE"]),
    Msg(A1_POLICY_REQ, "RMR_OK", Policy("CREATE", 1, Mistyped)),
    Msg(12012, "RMR_OK", NoText),
    Msg(-1, "RMR_OK", NoText),
    Sized(A1_POLICY_REQ, "long", Policy("CREATE", 1, "i1")),
    Sized(RIC_INDICATION, "oversize", NoText),
    Sized(RIC_HEALTH_CHECK_REQ, "oversize", NoText) }
=============================================================================
