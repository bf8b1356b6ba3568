----------------------------- MODULE XappSystem -----------------------------
(***************************************************************************)
(* The connector, its subscriptions, the base xApp and the gNBs, from      *)
(* startup to the control loop: main (hw_xapp_main.cc, Xapp::startup)      *)
(* waits for one datagram of the base xApp, connects to it, once, and      *)
(* subscribes to the gNBs; a gNB it has subscribed to reports; the         *)
(* receiver forwards the reports over TCP; the base xApp (run_xapp.py)     *)
(* answers what it reads; what the agent's thread reads is passed to       *)
(* xapp_rmr_send as a control request.  AgentConnector is the agents' side *)
(* of the connector; SubscriptionService stands for the subscription       *)
(* handler, which implements it.                                           *)
(*                                                                         *)
(* TCP keeps no message boundaries: a stream is a sequence of halves of    *)
(* messages, and a read returns any part of what is there.                 *)
(***************************************************************************)
EXTENDS AgentConnector

CONSTANTS GnbSeq,      \* the gNB list of R-NIB, when there is one
          MaxReports   \* bound: how many indications the gNBs send

ASSUME ProgramAssumption == Len(AgentList) = 1
ASSUME ListAssumption == GnbSeq \in Seq(Gnbs) /\ MaxReports \in Nat

agent == AgentList[1]

VARIABLES
  main,      \* where the main thread is
  datagram,  \* the indication request: unsent, queued, lost or read; or
             \* recvfrom has failed
  base,      \* where the base xApp is
  inbox,     \* what RMR holds for the connector
  reports,   \* how many indications the gNBs have sent
  down,      \* the stream to the base xApp: halves of indications
  up,        \* the stream from it: halves of answers
  answers,   \* how many answers it has sent
  buf,       \* what the agent's thread has read
  passed,    \* history: what xapp_rmr_send was given as controls, in order
  turn, phase, outcome, late, sent, answered  \* of SubscriptionService

Subs == INSTANCE SubscriptionService
          WITH Requesters <- {"main"}, GnbList <- [r \in {"main"} |-> GnbSeq]

agents == vars
subs == <<turn, phase, outcome, late, sent, answered>>
upward == <<up, answers>>
control == <<buf, passed>>
start == <<main, datagram>>
sysVars == <<agents, subs, start, base, inbox, reports, down, upward, control>>

Halves(n) == <<<<n, 1>>, <<n, 2>>>>

SystemTypeOK ==
  /\ TypeOK
  /\ main \in {"boot", "await", "connect", "subscribe", "running"}
  /\ datagram \in {"unsent", "queued", "lost", "read", "failed"}
  /\ base \in {"starting", "opening", "listening", "serving", "dead"}
  /\ inbox \in Seq({"report"} \X Gnbs \cup {"response"} \X Subs!Calls)
  /\ down \in Seq({1, 2})
  /\ up \in Seq((1 .. answers) \X {1, 2})
  /\ (buf # <<>>) = (agent \in chunk)

SystemInit ==
  /\ Init
  /\ Subs!Init
  /\ main = "boot" /\ datagram = "unsent" /\ base = "starting"
  /\ inbox = <<>> /\ reports = 0
  /\ down = <<>> /\ up = <<>> /\ answers = 0
  /\ buf = <<>> /\ passed = <<>>

-----------------------------------------------------------------------------
(* The main thread.                                                        *)

\* Settings, RMR, the receiver: then the port of the datagram is bound.
BindPort ==
  /\ Alive
  /\ main = "boot" /\ main' = "await"
  /\ UNCHANGED <<agents, subs, datagram, base, inbox, reports, down, upward,
                 control>>

\* oneshot_external_control_message_udp returns; the list of gNBs is read and
\* the external control thread starts.
ReceiveDatagram ==
  /\ Alive
  /\ main = "await" /\ main' = "connect"
  /\ datagram = "queued" /\ datagram' = "read"
  /\ UNCHANGED <<agents, subs, base, inbox, reports, down, upward, control>>

\* socket or bind fails: the startup goes on with an empty request.
PortFails ==
  /\ Alive
  /\ main = "boot" /\ main' = "connect"
  /\ UNCHANGED <<agents, subs, datagram, base, inbox, reports, down, upward,
                 control>>

\* recvfrom fails: the startup goes on with -1 for the length of the request.
ReceiveFails ==
  /\ Alive
  /\ main = "await" /\ main' = "connect"
  /\ datagram' = "failed"
  /\ UNCHANGED <<agents, subs, base, inbox, reports, down, upward, control>>

\* The one attempt to connect: a base xApp that does not listen refuses.
Connect ==
  /\ main = "connect" /\ main' = "subscribe"
  /\ Open(base \in {"listening", "serving"})
  /\ UNCHANGED <<subs, datagram, base, inbox, reports, down, upward, control>>

\* Mutant: a call waits for its response without a deadline.
Subscribe_NoDeadline ==
  /\ Alive
  /\ main = "subscribe" /\ gnblisted
  /\ \/ Subs!Begin("main") \/ Subs!Refuse("main") \/ Subs!Admit("main")
     \/ Subs!SendFails("main") \/ Subs!Send("main") \/ Subs!Succeed("main")
  /\ UNCHANGED <<agents, start, base, inbox, reports, down, upward, control>>

\* startup_subscribe_requests: one call after the other.
Subscribe ==
  /\ Alive
  /\ main = "subscribe" /\ gnblisted
  /\ \/ Subs!Begin("main") \/ Subs!Refuse("main") \/ Subs!Admit("main")
     \/ Subs!SendFails("main") \/ Subs!Send("main") \/ Subs!Lapse("main")
     \/ Subs!Succeed("main")
  /\ UNCHANGED <<agents, start, base, inbox, reports, down, upward, control>>

\* Encoding an event definition of length -1 reads on behind its buffer, which
\* may kill the process; if it does not, main goes on as always.
EncodeOverruns ==
  /\ Alive
  /\ main = "subscribe" /\ gnblisted
  /\ datagram = "failed"
  /\ phase["main"] = "idle" /\ turn["main"] < Len(GnbSeq)
  /\ process' = "crashed"
  /\ UNCHANGED <<maps, threads, gnblisted, history, subs, start, base, inbox,
                 reports, down, upward, control>>

Subscribed ==
  /\ Alive
  /\ main = "subscribe" /\ main' = "running"
  /\ \/ ~gnblisted
     \/ turn["main"] = Len(GnbSeq) /\ phase["main"] = "idle"
  /\ UNCHANGED <<agents, subs, datagram, base, inbox, reports, down, upward,
                 control>>

MainThread ==
  \/ BindPort \/ PortFails \/ ReceiveDatagram \/ ReceiveFails \/ Connect
  \/ Subscribe \/ EncodeOverruns \/ Subscribed

-----------------------------------------------------------------------------
(* The subscription manager and the gNBs, behind RMR.                      *)

Respond(c) ==
  /\ c \in sent \ answered
  /\ ~Contains(inbox, <<"response", c>>)
  /\ inbox' = Append(inbox, <<"response", c>>)
  /\ UNCHANGED <<agents, subs, start, base, reports, down, upward, control>>

\* A gNB reports once the subscription was sent.  A request to stop may be on
\* its way for long, or lost.
Report(g) ==
  /\ \E c \in sent : Subs!Gnb(c) = g
  /\ reports < MaxReports
  /\ reports' = reports + 1
  /\ inbox' = Append(inbox, <<"report", g>>)
  /\ UNCHANGED <<agents, subs, start, base, down, upward, control>>

-----------------------------------------------------------------------------
(* The receiver: one message at a time, to its end.                        *)

ReceiveResponse ==
  /\ Alive /\ indication = Idle
  /\ inbox # <<>> /\ Head(inbox)[1] = "response"
  /\ Subs!Deliver(Head(inbox)[2])
  /\ inbox' = Tail(inbox)
  /\ UNCHANGED <<agents, start, base, reports, down, upward, control>>

ReceiveReport ==
  /\ inbox # <<>> /\ Head(inbox)[1] = "report"
  /\ Indication(Head(inbox)[2])
  /\ inbox' = Tail(inbox)
  /\ UNCHANGED <<subs, start, base, reports, down, upward, control>>

\* What is sent reaches the base xApp as long as it is there.
Forward ==
  LET reaches == indication.agent = agent /\ agent \in agentIp_socket
                 /\ base # "dead"
  IN
  /\ send_socket_limited
  /\ delivered' = delivered \cup
       (IF reaches THEN {<<agent, indication.gnb>>} ELSE {})
  /\ down' = IF reaches THEN down \o <<1, 2>> ELSE down
  /\ UNCHANGED <<subs, start, base, inbox, reports, upward, control>>

\* Once the peer has closed, send may raise SIGPIPE, which nobody handles.
ForwardBroken ==
  /\ Alive
  /\ indication.agent = agent /\ agent \in agentIp_socket
  /\ base = "dead"
  /\ process' = "crashed"
  /\ UNCHANGED <<maps, threads, gnblisted, history, subs, start, base, inbox,
                 reports, down, upward, control>>

ReceiverThread == ReceiveResponse \/ ReceiveReport \/ Forward \/ ForwardBroken

-----------------------------------------------------------------------------
(* The base xApp: main of run_xapp.py.                                     *)

\* It sleeps for a second and sends the indication request, once.
SendDatagram ==
  /\ base = "starting" /\ base' = "opening"
  /\ datagram' = IF main = "await" THEN "queued"
                 ELSE IF datagram = "unsent" THEN "lost" ELSE datagram
  /\ UNCHANGED <<agents, subs, main, inbox, reports, down, upward, control>>

BaseListen ==
  /\ base = "opening" /\ base' = "listening"
  /\ UNCHANGED <<agents, subs, start, inbox, reports, down, upward, control>>

BaseAccept ==
  /\ base = "listening" /\ base' = "serving"
  /\ agent \in agentIp_socket
  /\ UNCHANGED <<agents, subs, start, inbox, reports, down, upward, control>>

\* What was read is parsed as one message.  A run of whole messages parses;
\* of a part of one, the parser may raise, which ends the program.
Parses(data) == Head(data) = 1 /\ Last(data) = 2

BaseAnswer ==
  /\ base = "serving"
  /\ \E n \in 1 .. Len(down) :
       /\ down' = SubSeq(down, n + 1, Len(down))
       /\ \/ /\ answers' = answers + 1
             /\ up' = up \o Halves(answers + 1)
             /\ UNCHANGED base
          \/ /\ ~Parses(SubSeq(down, 1, n))
             /\ base' = "dead"
             /\ UNCHANGED upward
  /\ UNCHANGED <<agents, subs, start, inbox, reports, control>>

BaseXapp == SendDatagram \/ BaseListen \/ BaseAccept \/ BaseAnswer

-----------------------------------------------------------------------------
(* The thread of the agent and the external control thread.                *)

\* Mutant: recv waits for a full buffer.
AgentRecv_WaitsForAll ==
  /\ Recv(agent)
  /\ Len(up) >= 3
  /\ buf' = SubSeq(up, 1, 3)
  /\ up' = SubSeq(up, 4, Len(up))
  /\ UNCHANGED <<subs, start, base, inbox, reports, down, answers, passed>>

\* recv returns what is there, up to a limit, whole messages or not.
AgentRecv ==
  /\ Recv(agent)
  /\ \E n \in 1 .. Len(up) :
       /\ buf' = SubSeq(up, 1, n)
       /\ up' = SubSeq(up, n + 1, Len(up))
  /\ UNCHANGED <<subs, start, base, inbox, reports, down, answers, passed>>

\* Mutant: the buffer keeps what was sent.
AgentSendControl_KeepsBuffer ==
  /\ SendControl(agent)
  /\ passed' = IF PassedOn(agent) THEN passed \o buf ELSE passed
  /\ UNCHANGED <<buf, subs, start, base, inbox, reports, down, upward>>

\* What is read is passed to xapp_rmr_send as it is, whether RMR takes it or
\* not (ControlSent, ControlLost).
AgentSendControl ==
  /\ SendControl(agent)
  /\ passed' = IF PassedOn(agent) THEN passed \o buf ELSE passed
  /\ buf' = <<>>
  /\ UNCHANGED <<subs, start, base, inbox, reports, down, upward>>

ExternalControl ==
  /\ main \notin {"boot", "await"}
  /\ ExternalThread
  /\ UNCHANGED <<subs, start, base, inbox, reports, down, upward, control>>

-----------------------------------------------------------------------------

SystemNext ==
  \/ MainThread \/ ReceiverThread \/ BaseXapp
  \/ AgentRecv \/ AgentSendControl \/ ExternalControl
  \/ \E c \in Subs!Calls : Respond(c)
  \/ \E g \in Gnbs : Report(g)

\* Main and the agent's thread run.  A call of the subscription handler returns
\* (CallReturns of SubscriptionHandler), the steps of Subscribe including the
\* passing of its time, and so does one of xapp_rmr_send (SendReturns of
\* RmrSender).  The receiver may be held in send by a base xApp that does not
\* read, so it owes nothing; nor do the base xApp, the other side of RMR and
\* the operator.
SystemFairness ==
  /\ WF_sysVars(BindPort \/ ReceiveDatagram \/ Connect \/ Subscribed)
  /\ WF_sysVars(Subscribe)
  /\ WF_sysVars(AgentRecv \/ AgentSendControl)

SystemSpec == SystemInit /\ [][SystemNext]_sysVars /\ SystemFairness

-----------------------------------------------------------------------------
(* Properties.                                                             *)

AllHalves(n) == [i \in 1 .. 2 * n |-> <<(i + 1) \div 2, 2 - (i % 2)>>]

\* What the base xApp answers is passed to xapp_rmr_send as a stream: in order,
\* nothing left out, nothing twice, though handle_rx_msg_agent drops what it
\* reads before the agent has a gNB: an answer follows an indication, and the
\* binding comes before the indication is forwarded.  What RMR then refuses is
\* lost (ControlLost).
PassedAsAnswered ==
  passed \o buf \o up = AllHalves(answers)

\* handle_rx_msg_agent passes every answer of the base xApp to xapp_rmr_send,
\* though the receiver may be held in send, unless the process ends.
AnswersPassedOn ==
  \A n \in 1 .. MaxReports :
    answers >= n ~> Contains(passed, <<n, 2>>) \/ process # "running"

\* Once the datagram has come, Xapp::startup ends, whatever the base xApp, the
\* gNBs and the subscription manager do and though the receiver may be held in
\* send, unless the process ends.
StartupEnds == datagram = "queued" ~> main = "running" \/ process # "running"
=============================================================================
