----------------------------- MODULE RmrReceiver -----------------------------
(***************************************************************************)
(* XappRmr::xapp_rmr_receive and the message processor it calls            *)
(* (XappMsgHandler::operator() and a1_policy_handler): a receiver takes    *)
(* one message from RMR at a time, dispatches it by its type, and returns  *)
(* the same buffer to its sender when the processor asks for it.  The      *)
(* buffer is a member of the XappRmr object, so receivers of one object    *)
(* share it; the program starts one, with start_xapp_receiver.             *)
(*                                                                         *)
(* Messages are numbered in the order of their arrival.  An A1 payload is  *)
(* a partial map from JSON members to values, {} what does not parse; a    *)
(* member of another type than the handler reads has the value Mistyped.   *)
(* The length a message arrives with is one of three classes: "short" what *)
(* its hexadecimal dump has room for (2047 octets), "long" up to           *)
(* MAX_RMR_RECV_SIZE (65536), "oversize" above.                            *)
(***************************************************************************)
EXTENDS Integers, Sequences, SequencesExt, TLC

CONSTANTS Receivers,    \* the threads in xapp_rmr_receive
          Contents,     \* bound: what messages may be
          MaxMessages,  \* bound: how many arrive
          xapp_id,      \* what the handler was constructed with
          Mistyped

Ids == 1 .. MaxMessages
NoMsg == 0

ASSUME MessagesAssumption == MaxMessages \in Nat
ASSUME ContentsAssumption ==
  \A c \in Contents :
    c \in [mtype : Int, state : {c.state}, payload : {c.payload},
           size : {"short", "long", "oversize"}]

VARIABLES
  incoming,   \* what RMR holds for the port
  arrived,    \* history: what each message was when it arrived
  _listen,    \* the loop condition
  received,   \* _xapp_received_buff: the message in it
  mbuf,       \* what the buffer of each message holds now
  pc,         \* where each receiver is
  resend,     \* the flag of each receiver
  alive,      \* the process has not died
  dispatched, \* history: <<handler, message>> of the calls made
  returned    \* history: <<message, buffer>> returned to its sender

vars == <<incoming, arrived, _listen, received, mbuf, pc, resend, alive,
          dispatched, returned>>
traffic == <<incoming, arrived>>

TypeOK ==
  /\ incoming \in Seq(Ids)
  /\ DOMAIN arrived = 1 .. Len(arrived) /\ Len(arrived) <= MaxMessages
  /\ \A i \in DOMAIN arrived : arrived[i] \in Contents
  /\ DOMAIN mbuf = DOMAIN arrived
  /\ _listen \in BOOLEAN
  /\ received \in DOMAIN arrived \cup {NoMsg}
  /\ pc \in [Receivers -> {"listen", "receive", "check", "process", "agents",
                           "return", "done", "gone"}]
  /\ resend \in [Receivers -> BOOLEAN]
  /\ alive \in BOOLEAN
  /\ dispatched \in Seq({"agents", "subscriptions"} \X DOMAIN arrived)
  /\ \A i \in 1 .. Len(returned) : returned[i][1] \in DOMAIN arrived

\* start_xapp_receiver has set _listen and the context is ready.
Init ==
  /\ incoming = <<>> /\ arrived = <<>> /\ mbuf = <<>>
  /\ _listen = TRUE
  /\ received = NoMsg
  /\ pc = [r \in Receivers |-> "listen"]
  /\ resend = [r \in Receivers |-> FALSE]
  /\ alive = TRUE
  /\ dispatched = <<>> /\ returned = <<>>

Goto(r, from, to) ==
  alive /\ alive' = alive /\ pc[r] = from /\ pc' = [pc EXCEPT ![r] = to]

-----------------------------------------------------------------------------
(* The other side and the owner of the object.                             *)

Arrive(c) ==
  /\ alive
  /\ Len(arrived) < MaxMessages
  /\ arrived' = Append(arrived, c)
  /\ mbuf' = Append(mbuf, c)
  /\ incoming' = Append(incoming, Len(arrived) + 1)
  /\ UNCHANGED <<_listen, received, pc, resend, alive, dispatched, returned>>

\* set_listen(false), as stop() does.
set_listen ==
  /\ alive /\ _listen
  /\ _listen' = FALSE
  /\ UNCHANGED <<traffic, received, mbuf, pc, resend, alive, dispatched,
                 returned>>

-----------------------------------------------------------------------------
(* The loop.                                                               *)

Listen(r) ==
  /\ Goto(r, "listen", IF _listen THEN "receive" ELSE "done")
  /\ UNCHANGED <<traffic, _listen, received, mbuf, resend, dispatched,
                 returned>>

\* rmr_rcv_msg blocks; what it returns replaces the buffer it was given.
rmr_rcv_msg(r) ==
  /\ Goto(r, "receive", "check")
  /\ incoming # <<>>
  /\ received' = Head(incoming)
  /\ incoming' = Tail(incoming)
  /\ UNCHANGED <<arrived, _listen, mbuf, resend, dispatched, returned>>

Good(m) == mbuf[m].mtype >= 0 /\ mbuf[m].state = "RMR_OK"

\* Mutant: the state is not looked at.
CheckMsg_TypeOnly(r) ==
  /\ Goto(r, "check", IF mbuf[received].mtype >= 0 THEN "process" ELSE "gone")
  /\ UNCHANGED <<traffic, _listen, received, mbuf, resend, dispatched,
                 returned>>

\* Mutant: the buffer is released on the error path.
CheckMsg_Frees(r) ==
  /\ Goto(r, "check", IF Good(received) THEN "process" ELSE "gone")
  /\ mbuf' = IF Good(received) THEN mbuf ELSE SubSeq(mbuf, 1, received - 1)
  /\ UNCHANGED <<traffic, _listen, received, resend, dispatched, returned>>

\* A message RMR marks as bad makes the thread return, the buffer kept.
CheckMsg(r) ==
  /\ Goto(r, "check", IF Good(received) THEN "process" ELSE "gone")
  /\ UNCHANGED <<traffic, _listen, received, mbuf, resend, dispatched,
                 returned>>

\* The process dies in the middle of a message.
Dies ==
  /\ alive' = FALSE
  /\ UNCHANGED <<traffic, _listen, received, mbuf, pc, resend, dispatched,
                 returned>>

\* The dump of a message that is not short runs past printBuffer.  What that
\* does is undefined: the process dies of it here, or goes on with Process.
DumpOverflows(r) ==
  /\ alive /\ pc[r] = "process"
  /\ mbuf[received].size # "short"
  /\ Dies

-----------------------------------------------------------------------------
(* The processor: XappMsgHandler::operator().                              *)

RIC_HEALTH_CHECK_REQ == 100
RIC_HEALTH_CHECK_RESP == 101
RIC_SUB_RESP == 12011
RIC_INDICATION == 12050
A1_POLICY_REQ == 20010
A1_POLICY_RESP == 20011

Oversize(m) == mbuf[m].size = "oversize"

Dispatch(handler, m) == dispatched' = Append(dispatched, <<handler, m>>)
Resend(r, b) == resend' = [resend EXCEPT ![r] = b]

HealthCheck(r, m) ==
  /\ mbuf[m].mtype = RIC_HEALTH_CHECK_REQ
  /\ mbuf' = [mbuf EXCEPT ![m].mtype = RIC_HEALTH_CHECK_RESP,
                          ![m].payload = [text |-> "HELLOWORLD OK"]]
  /\ Resend(r, TRUE)
  /\ UNCHANGED dispatched

SubscriptionResponse(r, m) ==
  /\ mbuf[m].mtype = RIC_SUB_RESP
  /\ Dispatch("subscriptions", m)
  /\ Resend(r, FALSE)
  /\ UNCHANGED mbuf

\* The members a1_policy_handler reads, one after the other; it gives up at
\* the first that is missing, and one of the wrong type fails an assertion.
PolicyMembers == <<"operation", "policy_type_id", "policy_instance_id">>
AssertFails(p) ==
  \E k \in 1 .. 3 : /\ \A j \in 1 .. k : PolicyMembers[j] \in DOMAIN p
                    /\ p[PolicyMembers[k]] = Mistyped

\* What it accepts: all three members, and CREATE of policy 1.
a1_policy_handler(p) ==
  /\ ~AssertFails(p)
  /\ {"operation", "policy_type_id", "policy_instance_id"} \subseteq DOMAIN p
  /\ p.policy_type_id = 1 /\ p.operation = "CREATE"

\* The answer it writes over the request.
A1Answer(p) ==
  [k \in (DOMAIN p \ {"operation"}) \cup {"handler_id", "status"} |->
     CASE k = "handler_id" -> xapp_id [] k = "status" -> "OK" [] OTHER -> p[k]]

A1PolicyRequest(r, m) ==
  /\ mbuf[m].mtype = A1_POLICY_REQ
  /\ ~AssertFails(mbuf[m].payload)
  /\ IF a1_policy_handler(mbuf[m].payload)
       THEN /\ mbuf' = [mbuf EXCEPT ![m].mtype = A1_POLICY_RESP,
                                    ![m].payload = A1Answer(@)]
            /\ Resend(r, TRUE)
       ELSE UNCHANGED <<mbuf, resend>>
  /\ UNCHANGED dispatched

Unknown(r, m) ==
  /\ mbuf[m].mtype \notin {RIC_HEALTH_CHECK_REQ, RIC_INDICATION, RIC_SUB_RESP,
                           A1_POLICY_REQ}
  /\ Resend(r, FALSE)
  /\ UNCHANGED <<mbuf, dispatched>>

\* The early return leaves the flag alone.
Ignore(r, m) == Oversize(m) /\ UNCHANGED <<mbuf, resend, dispatched>>

Process(r) ==
  /\ Goto(r, "process", "return")
  /\ \/ Ignore(r, received)
     \/ /\ ~Oversize(received)
        /\ \/ HealthCheck(r, received)
           \/ SubscriptionResponse(r, received)
           \/ A1PolicyRequest(r, received)
           \/ Unknown(r, received)
  /\ UNCHANGED <<traffic, _listen, received, returned>>

PolicyAborts(r) ==
  /\ alive /\ pc[r] = "process"
  /\ ~Oversize(received) /\ mbuf[received].mtype = A1_POLICY_REQ
  /\ AssertFails(mbuf[received].payload)
  /\ Dies

\* The thread goes into process_ric_indication; the flag is left alone.
Indication(r) ==
  /\ Goto(r, "process", "agents")
  /\ ~Oversize(received) /\ mbuf[received].mtype = RIC_INDICATION
  /\ Dispatch("agents", received)
  /\ UNCHANGED <<traffic, _listen, received, mbuf, resend, returned>>

\* There it sends to the agent of the gNB: it comes back, dies of a broken
\* connection, or stays for as long as the agent does not read.
IndicationReturns(r) ==
  /\ Goto(r, "agents", "return")
  /\ UNCHANGED <<traffic, _listen, received, mbuf, resend, dispatched,
                 returned>>

IndicationDies(r) == alive /\ pc[r] = "agents" /\ Dies

-----------------------------------------------------------------------------

\* Mutant: the flag stays set after a message was returned.
Return_KeepsFlag(r) ==
  /\ Goto(r, "return", "listen")
  /\ returned' = IF resend[r]
                   THEN Append(returned, <<received, mbuf[received]>>)
                   ELSE returned
  /\ UNCHANGED <<traffic, _listen, received, mbuf, resend, dispatched>>

\* Mutant: the loop is left, not continued, after an answer.
Return_Leaves(r) ==
  /\ Goto(r, "return", IF resend[r] THEN "done" ELSE "listen")
  /\ returned' = IF resend[r]
                   THEN Append(returned, <<received, mbuf[received]>>)
                   ELSE returned
  /\ Resend(r, FALSE)
  /\ UNCHANGED <<traffic, _listen, received, mbuf, dispatched>>

Return(r) ==
  /\ Goto(r, "return", "listen")
  /\ returned' = IF resend[r]
                   THEN Append(returned, <<received, mbuf[received]>>)
                   ELSE returned
  /\ Resend(r, FALSE)
  /\ UNCHANGED <<traffic, _listen, received, mbuf, dispatched>>

\* What the thread does by itself, and what depends on an agent.
Receiver(r) ==
  \/ Listen(r) \/ rmr_rcv_msg(r) \/ CheckMsg(r) \/ DumpOverflows(r)
  \/ Process(r) \/ PolicyAborts(r) \/ Indication(r) \/ Return(r)
InAgents(r) == IndicationReturns(r) \/ IndicationDies(r)

\* The process is dead, or all receivers have returned or wait for a message
\* that does not come.
Quiet ==
  /\ \/ ~alive
     \/ /\ \A r \in Receivers : \/ pc[r] \in {"done", "gone"}
                                \/ pc[r] = "receive" /\ incoming = <<>>
        /\ Len(arrived) = MaxMessages /\ ~_listen
  /\ UNCHANGED vars

Next ==
  \/ \E c \in Contents : Arrive(c)
  \/ set_listen
  \/ \E r \in Receivers : Receiver(r) \/ InAgents(r)
  \/ Quiet

\* The thread is scheduled; no agent is bound to read what it is sent.
Spec == Init /\ [][Next]_vars /\ \A r \in Receivers : WF_vars(Receiver(r))

-----------------------------------------------------------------------------
(* Properties.                                                             *)

Bad(c) == c.state # "RMR_OK" \/ c.mtype < 0
Ignored(c) == Bad(c) \/ c.size = "oversize"
Accepted(c) == /\ ~Ignored(c)
               /\ \/ c.mtype = RIC_HEALTH_CHECK_REQ
                  \/ c.mtype = A1_POLICY_REQ /\ a1_policy_handler(c.payload)

\* What is returned to a sender answers a request of that sender: a response
\* type, with the status and, for a policy, the instance it asked for.  No
\* flag of an earlier message makes another one bounce.
ReturnedAreAnswers ==
  \A i \in 1 .. Len(returned) :
    LET request == arrived[returned[i][1]]  answer == returned[i][2] IN
    /\ Accepted(request)
    /\ \/ answer.mtype = RIC_HEALTH_CHECK_RESP
       \/ /\ answer.mtype = A1_POLICY_RESP
          /\ answer.payload.status = "OK"
          /\ answer.payload.policy_instance_id
               = request.payload.policy_instance_id

Taken == {i \in DOMAIN arrived : ~Contains(incoming, i)}
BetweenMessages ==
  \A r \in Receivers : pc[r] \in {"listen", "receive", "done", "gone"}

\* A history names each of the messages due once, in the order of arrival.
OnceInOrder(messages, due) ==
  /\ \A j, k \in DOMAIN messages : j < k => messages[j] < messages[k]
  /\ Range(messages) = due

HandedOn(c) == ~Ignored(c) /\ c.mtype \in {RIC_INDICATION, RIC_SUB_RESP}
Handler(c) == IF c.mtype = RIC_INDICATION THEN "agents" ELSE "subscriptions"

\* Between messages, every accepted request taken has been answered exactly
\* once, and every indication and subscription response of a legal length was
\* handed on exactly once and to its handler, each in the order of arrival.
HandledOnceInOrder ==
  BetweenMessages =>
    /\ OnceInOrder([k \in DOMAIN returned |-> returned[k][1]],
                   {i \in Taken : Accepted(arrived[i])})
    /\ OnceInOrder([k \in DOMAIN dispatched |-> dispatched[k][2]],
                   {i \in Taken : HandedOn(arrived[i])})
    /\ \A k \in DOMAIN dispatched :
         dispatched[k][1] = Handler(arrived[dispatched[k][2]])

\* As long as the agents let every send come back, no message waits for ever:
\* the receiver leaves its loop only when it is told to, dies, or ends on a bad
\* message that came before.  Neither an early return, a rejected policy nor an
\* answer keeps it from the next message.
NoneWaitsForEver ==
  (\A r \in Receivers : []<>(pc[r] # "agents")) =>
    \A i \in Ids :
      (i \in DOMAIN arrived /\ Contains(incoming, i))
        ~> \/ ~Contains(incoming, i) \/ ~_listen \/ ~alive
           \/ \E b \in Taken : b < i /\ Bad(arrived[b])
=============================================================================
