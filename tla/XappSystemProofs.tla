-------------------------- MODULE XappSystemProofs --------------------------
(***************************************************************************)
(* Proofs about XappSystem, for any list of gNBs and any number of         *)
(* reports: its type, that the agents' side keeps the invariant of         *)
(* AgentConnector when it runs with the rest of the program, and that      *)
(* every answer of the base xApp is passed on to RMR, in order.            *)
(***************************************************************************)
EXTENDS XappSystem, AgentConnectorProofs, SequenceTheorems

-----------------------------------------------------------------------------
(* Streams.                                                                *)

\* What a read leaves follows what it returns.
LEMMA ReadSplits ==
  ASSUME NEW S, NEW s \in Seq(S), NEW n \in 1 .. Len(s)
  PROVE  /\ SubSeq(s, 1, n) \in Seq(S) /\ SubSeq(s, 1, n) # <<>>
         /\ SubSeq(s, n + 1, Len(s)) \in Seq(S)
         /\ SubSeq(s, 1, n) \o SubSeq(s, n + 1, Len(s)) = s
  <1>1. Len(s) \in Nat /\ \A i \in 1 .. Len(s) : s[i] \in S
    BY LenProperties, ElementOfSeq
  <1>2. SubSeq(s, 1, n) \in Seq(S) /\ Len(SubSeq(s, 1, n)) = n
    BY <1>1, SubSeqProperties
  <1>3. SubSeq(s, n + 1, Len(s)) \in Seq(S)
    BY <1>1, SubSeqProperties
  <1>4. SubSeq(s, 1, n) \o SubSeq(s, n + 1, Len(s)) = SubSeq(s, 1, Len(s))
    BY <1>1, ConcatAdjacentSubSeq
  <1> QED
    BY <1>1, <1>2, <1>3, <1>4, SubSeqFull

Half == Nat \X {1, 2}

\* One more answer is two more halves.
LEMMA AnswerHalves ==
  ASSUME NEW n \in Nat
  PROVE  /\ AllHalves(n) \in Seq(Half) /\ Len(AllHalves(n)) = 2 * n
         /\ Halves(n + 1) \in Seq(Half)
         /\ AllHalves(n) \o Halves(n + 1) = AllHalves(n + 1)
  <1> DEFINE half(i) == <<(i + 1) \div 2, 2 - (i % 2)>>
  <1>1. \A i \in Nat \ {0} : half(i) \in Half
    <2> TAKE i \in Nat \ {0}
    <2>1. (i + 1) \div 2 \in Nat
      OBVIOUS
    <2>2. 2 - (i % 2) \in {1, 2}
      OBVIOUS
    <2> QED
      BY <2>1, <2>2 DEF Half
  <1>2. \A i \in Nat : i = 2 * n + 1 => half(i) = <<n + 1, 1>>
    OBVIOUS
  <1>b. \A i \in Nat : i = 2 * n + 2 => half(i) = <<n + 1, 2>>
    OBVIOUS
  <1>3. \A m \in Nat : /\ AllHalves(m) \in Seq(Half) /\ Len(AllHalves(m)) = 2 * m
                       /\ \A i \in 1 .. 2 * m : AllHalves(m)[i] = half(i)
    <2> TAKE m \in Nat
    <2>1. AllHalves(m) \in [1 .. 2 * m -> Half] /\ 2 * m \in Nat
      BY <1>1 DEF AllHalves
    <2>2. \A i \in 1 .. 2 * m : AllHalves(m)[i] = half(i)
      BY DEF AllHalves
    <2> HIDE DEF half
    <2> QED
      BY <2>1, <2>2, SeqDef
  <1> HIDE DEF half
  <1>4. /\ Halves(n + 1) \in Seq(Half) /\ Len(Halves(n + 1)) = 2
        /\ Halves(n + 1)[1] = <<n + 1, 1>> /\ Halves(n + 1)[2] = <<n + 1, 2>>
    BY DEF Halves, Half
  <1> DEFINE t == AllHalves(n) \o Halves(n + 1)
  <1>a. /\ AllHalves(n) \in Seq(Half) /\ Len(AllHalves(n)) = 2 * n
        /\ \A i \in 1 .. 2 * n : AllHalves(n)[i] = half(i)
    BY <1>3
  <1>5. /\ t \in Seq(Half) /\ Len(t) = Len(AllHalves(n)) + Len(Halves(n + 1))
        /\ \A i \in 1 .. Len(AllHalves(n)) + Len(Halves(n + 1)) :
             t[i] = IF i <= Len(AllHalves(n)) THEN AllHalves(n)[i]
                    ELSE Halves(n + 1)[i - Len(AllHalves(n))]
    BY <1>a, <1>4, ConcatProperties
  <1> HIDE DEF t
  <1>6. \A i \in 1 .. 2 * n + 2 : t[i] = half(i)
    <2> TAKE i \in 1 .. 2 * n + 2
    <2>1. CASE i <= 2 * n
      BY <1>a, <1>4, <1>5, <2>1
    <2>2. CASE i = 2 * n + 1
      <3>1. i \in Nat /\ ~(i <= 2 * n) /\ i - 2 * n = 1
        BY <2>2
      <3>2. t[i] = Halves(n + 1)[1]
        BY <1>a, <1>4, <1>5, <3>1
      <3>3. half(i) = <<n + 1, 1>>
        BY <1>2, <2>2, <3>1
      <3> QED
        BY <1>4, <3>2, <3>3
    <2>3. CASE i = 2 * n + 2
      <3>1. i \in Nat /\ ~(i <= 2 * n) /\ i - 2 * n = 2
        BY <2>3
      <3>2. t[i] = Halves(n + 1)[2]
        BY <1>a, <1>4, <1>5, <3>1
      <3>3. half(i) = <<n + 1, 2>>
        BY <1>b, <2>3, <3>1
      <3> QED
        BY <1>4, <3>2, <3>3
    <2> QED
      BY <2>1, <2>2, <2>3
  <1>7. AllHalves(n + 1) \in Seq(Half) /\ Len(AllHalves(n + 1)) = 2 * n + 2
        /\ \A i \in 1 .. 2 * n + 2 : AllHalves(n + 1)[i] = half(i)
    BY <1>3
  <1>8. t = AllHalves(n + 1)
    <2>1. Len(t) = 2 * n + 2
      BY <1>a, <1>4, <1>5
    <2>2. \A i \in 1 .. Len(t) : t[i] = AllHalves(n + 1)[i]
      BY <1>6, <1>7, <2>1
    <2> QED
      BY <1>5, <1>7, <2>1, <2>2, SeqEqual
  <1> QED
    BY <1>a, <1>4, <1>8 DEF t

-----------------------------------------------------------------------------
(* The inductive invariant.                                                *)

\* Without the list of gNBs nobody is subscribed to, and nothing flows.
ListInv ==
  gnblisted \/ (/\ sent = {} /\ inbox = <<>> /\ indication = Idle
                /\ down = <<>> /\ answers = 0)

\* The agent is bound before an indication is on its way to it.
BoundFirst ==
  Bound(agent) \/ (indication.agent # agent /\ down = <<>> /\ answers = 0)

StreamInv ==
  /\ answers \in Nat
  /\ buf \in Seq(Half)
  /\ passed \in Seq(Half)

SystemInv ==
  /\ IInv
  /\ SystemTypeOK
  /\ StreamInv
  /\ ListInv
  /\ BoundFirst
  /\ PassedAsAnswered

-----------------------------------------------------------------------------
(* The agents' side.                                                       *)

LEMMA AgentIsOne == agent \in Agents /\ agent # NoAgent
  <1>1. 1 \in DOMAIN AgentList /\ agent \in Agents
    BY ProgramAssumption, AgentAssumption DEF agent, Agents, ToSet
  <1>2. Agents \in SUBSET Nat
    BY AgentsAreRanks
  <1> QED
    BY <1>1, <1>2, AgentAssumption

\* What the receiver takes from RMR.
LEMMA InboxHead ==
  ASSUME SystemTypeOK, inbox # <<>>
  PROVE  /\ Tail(inbox) \in Seq({"report"} \X Gnbs \cup {"response"} \X Subs!Calls)
         /\ Head(inbox)[1] = "report" => Head(inbox)[2] \in Gnbs
  <1> DEFINE M == {"report"} \X Gnbs \cup {"response"} \X Subs!Calls
  <1>1. inbox \in Seq(M)
    BY DEF SystemTypeOK
  <1> HIDE DEF M
  <1>2. Head(inbox) \in M /\ Tail(inbox) \in Seq(M)
    BY <1>1, HeadTailProperties
  <1> QED
    BY <1>2 DEF M

Crash == process' = "crashed" /\ UNCHANGED <<maps, threads, gnblisted, history>>

\* A step of the system is a step of AgentConnector, or kills the process.
LEMMA AgentsSide == SystemTypeOK /\ [SystemNext]_sysVars => [Next]_vars \/ Crash
  <1> SUFFICES ASSUME SystemTypeOK, [SystemNext]_sysVars
               PROVE  [Next]_vars \/ Crash
    OBVIOUS
  <1>1. CASE UNCHANGED agents
    BY <1>1 DEF agents
  <1>2. CASE MainThread
    <2>1. CASE Connect
      <3> DEFINE connected == base \in {"listening", "serving"}
      <3>1. connected \in BOOLEAN /\ Open(connected)
        BY <2>1 DEF Connect
      <3> HIDE DEF connected
      <3> QED
        BY <3>1, Zenon DEF Next, Main
    <2> QED
      BY <1>1, <1>2, <2>1 DEF MainThread, BindPort, PortFails, ReceiveDatagram,
        ReceiveFails, EncodeOverruns, Subscribe, Subscribed, Crash
  <1>3. CASE ReceiverThread
    <2>1. CASE ReceiveReport
      <3>1. Indication(Head(inbox)[2]) /\ inbox # <<>> /\ Head(inbox)[1] = "report"
        BY <2>1 DEF ReceiveReport
      <3>2. Head(inbox)[2] \in Gnbs
        BY <3>1, InboxHead
      <3> QED
        BY <3>1, <3>2 DEF Next, Receiver
    <2> QED
      BY <1>1, <1>3, <2>1 DEF ReceiverThread, ReceiveResponse, Forward,
        ForwardBroken, Crash,
                              Next, Receiver
  <1>4. CASE BaseXapp
    BY <1>1, <1>4 DEF BaseXapp, SendDatagram, BaseListen, BaseAccept, BaseAnswer
  <1>5. CASE AgentRecv \/ AgentSendControl
    BY <1>5, AgentIsOne DEF AgentRecv, AgentSendControl, Next, AgentThread
  <1>6. CASE ExternalControl
    BY <1>6 DEF ExternalControl, Next
  <1>7. CASE (\E c \in Subs!Calls : Respond(c)) \/ (\E g \in Gnbs : Report(g))
    BY <1>1, <1>7 DEF Respond, Report
  <1> QED
    BY <1>1, <1>2, <1>3, <1>4, <1>5, <1>6, <1>7 DEF SystemNext, sysVars

\* The agents' side keeps its invariant, and its bindings, in the system.
LEMMA AgentsKept ==
  ASSUME IInv, SystemTypeOK, [SystemNext]_sysVars
  PROVE  IInv' /\ (Bound(agent) => Bound(agent)') /\ gnblisted' = gnblisted
  <1>1. CASE [Next]_vars
    <2>1. gnblisted' = gnblisted
      BY <1>1 DEF Next, vars, Main, Open, Receiver, Indication,
        send_socket_limited, AgentThread, Recv, SendControl, ControlSent,
        ControlLost, Handled, ExternalThread,
        TerminateMessage, TerminateOne, TerminateUnbound
    <2>2. Bound(agent) => Bound(agent)'
      BY <1>1, AgentIsOne, BindingsLast DEF IInv
    <2> QED
      BY <1>1, <2>1, <2>2, InvariantStep
  <1>2. CASE Crash
    <2>1. UNCHANGED <<agentIp_socket, agentIp_gnbId, opened, indication, chunk, it,
                      gnblisted, seen, delivered, controls, due, reporting,
                      terminated>> /\ process' = "crashed"
      BY <1>2 DEF Crash, maps, threads, history
    <2> QED
      BY <2>1 DEF IInv, TypeOK, BoundInv, OneAgentPerGnb, RouteInv,
        ControlsKeepGnb, LoopInv, SignalAfterRequests, Bound, AgentsOf
  <1> QED
    BY <1>1, <1>2, AgentsSide

-----------------------------------------------------------------------------
(* Every step keeps the invariant.                                         *)

\* The list comes before all that flows.
LEMMA ListStep ==
  ASSUME SystemInv, [SystemNext]_sysVars
  PROVE  ListInv'
  <1>1. gnblisted' = gnblisted
    BY AgentsKept DEF SystemInv
  <1>2. SUFFICES ASSUME ~gnblisted
                 PROVE  /\ sent' = {} /\ inbox' = <<>> /\ indication' = Idle
                        /\ down' = <<>> /\ answers' = 0
    BY <1>1 DEF ListInv, Idle
  <1>3. /\ sent = {} /\ inbox = <<>> /\ indication = Idle
        /\ down = <<>> /\ answers = 0
    BY <1>2 DEF SystemInv, ListInv
  <1>4. CASE MainThread
    BY <1>2, <1>3, <1>4 DEF MainThread, BindPort, PortFails, ReceiveDatagram,
      ReceiveFails, EncodeOverruns, Connect, Open,
      Subscribe, Subscribed, agents, subs, upward, vars, threads
  <1>5. CASE BaseXapp
    BY <1>3, <1>5 DEF BaseXapp, SendDatagram, BaseListen, BaseAccept, BaseAnswer,
      agents, subs, upward, vars, threads
  <1>6. CASE AgentRecv \/ AgentSendControl
    BY <1>3, <1>6 DEF AgentRecv, AgentSendControl, Recv, SendControl, ControlSent,
      ControlLost, Handled, subs, upward
  <1>7. CASE ExternalControl
    BY <1>3, <1>7 DEF ExternalControl, ExternalThread, TerminateMessage,
      TerminateOne, TerminateUnbound, subs, upward, threads
  <1>8. CASE ReceiverThread
    BY <1>3, <1>8, AgentIsOne DEF ReceiverThread, ReceiveResponse, ReceiveReport,
      Forward, send_socket_limited, ForwardBroken, Idle
  <1>9. CASE (\E c \in Subs!Calls : Respond(c)) \/ (\E g \in Gnbs : Report(g))
    BY <1>3, <1>9 DEF Respond, Report
  <1>10. CASE UNCHANGED sysVars
    BY <1>3, <1>10 DEF sysVars, agents, subs, upward, vars, threads
  <1> QED
    BY <1>4, <1>5, <1>6, <1>7, <1>8, <1>9, <1>10 DEF SystemNext

\* The receiver binds the agent before it forwards the first indication, and
\* the base xApp answers what was forwarded.
LEMMA BoundFirstStep ==
  ASSUME SystemInv, [SystemNext]_sysVars
  PROVE  BoundFirst'
  <1>1. Bound(agent) => Bound(agent)'
    BY AgentsKept DEF SystemInv
  <1>2. CASE Bound(agent)
    BY <1>1, <1>2 DEF BoundFirst
  <1>3. CASE ReceiveReport
    <2>1. find_agent_ip_from_gnb(Head(inbox)[2]) /\ Head(inbox)[2] \in Gnbs
          /\ UNCHANGED <<down, answers>>
      BY <1>3, InboxHead DEF SystemInv, ReceiveReport, Indication, upward
    <2>2. indication'.agent = agent => Bound(agent)'
      BY <2>1, DestinationBound, AgentIsOne DEF SystemInv, SystemTypeOK, Bound
    <2> QED
      BY <1>2, <2>1, <2>2 DEF SystemInv, BoundFirst
  <1>4. ASSUME ~Bound(agent), UNCHANGED <<indication, down, answers>>
        PROVE  BoundFirst'
    BY <1>4 DEF SystemInv, BoundFirst
  <1>5. ASSUME ~Bound(agent), indication' = Idle, UNCHANGED <<down, answers>>
        PROVE  BoundFirst'
    BY <1>5, AgentIsOne DEF SystemInv, BoundFirst, Idle
  <1>6. CASE MainThread \/ AgentRecv \/ AgentSendControl \/ ExternalControl
    <2>1. UNCHANGED <<indication, down, answers>>
      BY <1>6 DEF MainThread, BindPort, PortFails, ReceiveDatagram, ReceiveFails,
        EncodeOverruns, Connect, Open,
        Subscribe, Subscribed, AgentRecv, AgentSendControl, Recv, SendControl,
        ControlSent, ControlLost, Handled,
        ExternalControl, ExternalThread, TerminateMessage, TerminateOne,
        TerminateUnbound, agents, upward, vars, threads
    <2> QED
      BY <1>2, <1>4, <2>1
  <1>7. CASE BaseXapp
    <2>1. CASE BaseAnswer
      <3>1. Bound(agent) \/ Len(down) = 0
        BY DEF SystemInv, BoundFirst
      <3> QED
        BY <1>2, <2>1, <3>1 DEF BaseAnswer
    <2>2. CASE ~BaseAnswer
      BY <1>2, <1>4, <1>7, <2>2 DEF BaseXapp, SendDatagram, BaseListen, BaseAccept,
        agents, upward, vars, threads
    <2> QED
      BY <2>1, <2>2
  <1>8. CASE ReceiveResponse \/ ForwardBroken
    BY <1>2, <1>4, <1>8 DEF ReceiveResponse, ForwardBroken, agents, upward, vars,
      threads
  <1>9. CASE Forward
    <2>1. ~Bound(agent) => indication' = Idle /\ UNCHANGED <<down, answers>>
      BY <1>9 DEF Forward, send_socket_limited, SystemInv, BoundFirst, upward
    <2> QED
      BY <1>2, <1>5, <2>1
  <1>10. CASE \/ UNCHANGED sysVars \/ (\E c \in Subs!Calls : Respond(c))
              \/ (\E g \in Gnbs : Report(g))
    <2>1. UNCHANGED <<indication, down, answers>>
      BY <1>10 DEF Respond, Report, sysVars, agents, upward, vars, threads
    <2> QED
      BY <1>2, <1>4, <2>1
  <1> QED
    BY <1>3, <1>6, <1>7, <1>8, <1>9, <1>10 DEF SystemNext, ReceiverThread

\* What the stream is made of.
LEMMA UpIsHalves ==
  ASSUME SystemInv
  PROVE  up \in Seq(Half)
  <1>1. (1 .. answers) \X {1, 2} \subseteq Half
    BY DEF SystemInv, StreamInv, Half
  <1> QED
    BY <1>1, SeqMonotonic DEF SystemInv, SystemTypeOK

\* The agent's thread moves what it reads, and what it holds is sent on.
LEMMA StreamStep ==
  ASSUME SystemInv, [SystemNext]_sysVars
  PROVE  StreamInv' /\ PassedAsAnswered'
  <1>1. /\ answers \in Nat /\ up \in Seq(Half) /\ buf \in Seq(Half)
        /\ passed \in Seq(Half) /\ passed \o buf \in Seq(Half)
        /\ passed \o buf \o up = AllHalves(answers)
        /\ (buf # <<>>) = (agent \in chunk)
    BY UpIsHalves, ConcatProperties DEF SystemInv, StreamInv, SystemTypeOK,
      PassedAsAnswered
  <1>a. \A s, t, u \in Seq(Half) : s \o (t \o u) = s \o t \o u
    BY ConcatAssociative
  <1>2. ASSUME UNCHANGED <<answers, up, buf, passed>>
        PROVE  StreamInv' /\ PassedAsAnswered'
    BY <1>1, <1>2 DEF StreamInv, PassedAsAnswered
  <1>3. CASE BaseAnswer
    <2>1. CASE answers' = answers + 1 /\ up' = up \o Halves(answers + 1)
      <3>1. buf' = buf /\ passed' = passed
        BY <1>3 DEF BaseAnswer, control
      <3>2. Halves(answers + 1) \in Seq(Half)
            /\ AllHalves(answers) \o Halves(answers + 1) = AllHalves(answers + 1)
        BY <1>1, AnswerHalves
      <3>3. (passed \o buf) \o (up \o Halves(answers + 1))
              = ((passed \o buf) \o up) \o Halves(answers + 1)
        BY <1>1, <1>a, <3>2, Zenon
      <3>4. passed' \o buf' \o up' = AllHalves(answers')
        BY <1>1, <2>1, <3>1, <3>2, <3>3, Zenon
      <3>5. StreamInv'
        BY <1>1, <2>1, <3>1 DEF StreamInv
      <3> QED
        BY <3>4, <3>5 DEF PassedAsAnswered
    <2>2. CASE UNCHANGED upward
      BY <1>2, <1>3, <2>2 DEF BaseAnswer, upward, control
    <2> QED
      BY <1>3, <2>1, <2>2 DEF BaseAnswer
  <1>4. CASE AgentRecv
    <2>1. PICK n \in 1 .. Len(up) :
            buf' = SubSeq(up, 1, n) /\ up' = SubSeq(up, n + 1, Len(up))
      BY <1>4 DEF AgentRecv
    <2>2. buf' \in Seq(Half) /\ up' \in Seq(Half) /\ buf' \o up' = up
      BY <1>1, <2>1, ReadSplits
    <2>3. buf = <<>> /\ passed' = passed /\ answers' = answers
      BY <1>1, <1>4 DEF AgentRecv, Recv
    <2>4. passed \o up = AllHalves(answers)
      BY <1>1, <2>3, ConcatEmptySeq
    <2>5. (passed \o buf') \o up' = passed \o (buf' \o up')
      BY <1>1, <1>a, <2>2, Zenon
    <2> QED
      BY <1>1, <2>2, <2>3, <2>4, <2>5 DEF StreamInv, PassedAsAnswered
  <1>5. CASE AgentSendControl
    <2>1. agent \in chunk /\ buf' = <<>> /\ UNCHANGED <<answers, up>>
      BY <1>5 DEF AgentSendControl, SendControl, ControlSent, ControlLost, Handled,
        upward
    <2>2. Bound(agent) /\ gnblisted
      <3>1. SUFFICES answers # 0
        BY DEF SystemInv, BoundFirst, ListInv
      <3>2. Len(buf) \in Nat \ {0} /\ Len(passed) \in Nat /\ Len(up) \in Nat
        BY <1>1, <2>1, EmptySeq, LenProperties
      <3>3. Len(AllHalves(answers)) = Len(passed) + Len(buf) + Len(up)
        BY <1>1, ConcatProperties
      <3> QED
        BY <1>1, <3>2, <3>3, AnswerHalves
    <2>3. passed' = passed \o buf
      BY <1>5, <2>2 DEF AgentSendControl, PassedOn
    <2>4. passed' \o buf' = passed' /\ buf' \in Seq(Half)
      BY <1>1, <2>1, <2>3, ConcatEmptySeq, EmptySeq
    <2> QED
      BY <1>1, <2>1, <2>3, <2>4 DEF StreamInv, PassedAsAnswered
  <1>6. CASE MainThread \/ ReceiverThread
    BY <1>2, <1>6 DEF MainThread, BindPort, PortFails, ReceiveDatagram,
      ReceiveFails, EncodeOverruns, Connect, Subscribe,
      Subscribed, ReceiverThread, ReceiveResponse, ReceiveReport, Forward,
      ForwardBroken, upward, control
  <1>7. CASE SendDatagram \/ BaseListen \/ BaseAccept \/ ExternalControl
    BY <1>2, <1>7 DEF SendDatagram, BaseListen, BaseAccept, ExternalControl,
      upward, control
  <1>8. CASE \/ UNCHANGED sysVars \/ (\E c \in Subs!Calls : Respond(c))
             \/ (\E g \in Gnbs : Report(g))
    BY <1>2, <1>8 DEF Respond, Report, sysVars, upward, control
  <1> QED
    BY <1>3, <1>4, <1>5, <1>6, <1>7, <1>8 DEF SystemNext, BaseXapp

LEMMA SystemTypeStep ==
  ASSUME SystemInv, [SystemNext]_sysVars
  PROVE  SystemTypeOK'
  <1> DEFINE M == {"report"} \X Gnbs \cup {"response"} \X Subs!Calls
             Places == /\ main \in {"boot", "await", "connect", "subscribe", "running"}
                       /\ datagram \in {"unsent", "queued", "lost", "read", "failed"}
                       /\ base \in {"starting", "opening", "listening", "serving", "dead"}
             Held == (buf # <<>>) = (agent \in chunk)
  <1>1. TypeOK'
    BY AgentsKept DEF SystemInv, IInv
  <1>2. /\ Places /\ inbox \in Seq(M) /\ down \in Seq({1, 2})
        /\ up \in Seq((1 .. answers) \X {1, 2}) /\ Held /\ answers \in Nat
    BY DEF SystemInv, SystemTypeOK, StreamInv
  <1>3. SUFFICES Places' /\ (inbox \in Seq(M))' /\ (down \in Seq({1, 2}))'
                 /\ (up \in Seq((1 .. answers) \X {1, 2}))' /\ Held'
    BY <1>1 DEF SystemTypeOK
  <1> HIDE DEF M
  <1>4. CASE MainThread
    <2>1. UNCHANGED <<inbox, down, up, answers, buf, chunk, base>>
      BY <1>4 DEF MainThread, BindPort, PortFails, ReceiveDatagram, ReceiveFails,
        EncodeOverruns, Connect, Open, Subscribe,
        Subscribed, agents, vars, threads, upward, control
    <2>2. Places'
      BY <1>2, <1>4 DEF MainThread, BindPort, PortFails, ReceiveDatagram,
        ReceiveFails, EncodeOverruns, Connect, Subscribe,
        Subscribed, start
    <2> QED
      BY <1>2, <2>1, <2>2
  <1>5. CASE ReceiverThread
    <2>1. UNCHANGED <<main, datagram, base, up, answers, buf, chunk>>
      BY <1>5 DEF ReceiverThread, ReceiveResponse, ReceiveReport, Indication, Forward,
        send_socket_limited, ForwardBroken, agents, vars, threads, upward, control,
        start
    <2>2. inbox' = inbox \/ (inbox # <<>> /\ inbox' = Tail(inbox))
      BY <1>5 DEF ReceiverThread, ReceiveResponse, ReceiveReport, Forward, ForwardBroken
    <2>3. inbox' \in Seq(M)
      BY <1>2, <2>2, HeadTailProperties
    <2>4. down' = down \/ down' = down \o <<1, 2>>
      BY <1>5 DEF ReceiverThread, ReceiveResponse, ReceiveReport, Forward, ForwardBroken
    <2>5. <<1, 2>> \in Seq({1, 2})
      OBVIOUS
    <2>6. down' \in Seq({1, 2})
      <3> DEFINE D == {1, 2}
                 whole == <<1, 2>>
      <3>1. down \in Seq(D) /\ whole \in Seq(D)
        BY <1>2, <2>5
      <3>2. down' = down \/ down' = down \o whole
        BY <2>4
      <3> HIDE DEF D, whole
      <3>3. down' \in Seq(D)
        BY <3>1, <3>2, ConcatProperties
      <3> QED
        BY <3>3 DEF D
    <2> QED
      BY <1>2, <2>1, <2>3, <2>6 DEF M
  <1>6. CASE SendDatagram \/ BaseListen \/ BaseAccept
    <2>1. UNCHANGED <<inbox, down, up, answers, buf, chunk>>
      BY <1>6 DEF SendDatagram, BaseListen, BaseAccept, agents, vars, threads,
        upward, control
    <2>2. Places'
      BY <1>2, <1>6 DEF SendDatagram, BaseListen, BaseAccept, start
    <2> QED
      BY <1>2, <2>1, <2>2
  <1>7. CASE BaseAnswer
    <2>1. UNCHANGED <<main, datagram, inbox, buf, chunk>> /\ base' \in {base, "dead"}
      BY <1>7 DEF BaseAnswer, agents, vars, threads, control, start
    <2>2. down' \in Seq({1, 2})
      <3>1. PICK n \in 1 .. Len(down) : down' = SubSeq(down, n + 1, Len(down))
        BY <1>7 DEF BaseAnswer
      <3> QED
        BY <1>2, <3>1, ReadSplits
    <2>3. up' \in Seq((1 .. answers') \X {1, 2})
      <3>1. CASE answers' = answers + 1 /\ up' = up \o Halves(answers + 1)
        <4> DEFINE T == (1 .. answers + 1) \X {1, 2}
        <4>1. (1 .. answers) \X {1, 2} \subseteq T
          BY <1>2
        <4>2. up \in Seq(T)
          BY <1>2, <4>1, SeqMonotonic
        <4>3. Halves(answers + 1) \in Seq(T)
          BY <1>2 DEF Halves
        <4> HIDE DEF T
        <4>4. up \o Halves(answers + 1) \in Seq(T)
          BY <4>2, <4>3, ConcatProperties
        <4> QED
          BY <3>1, <4>4 DEF T
      <3>2. CASE UNCHANGED upward
        BY <1>2, <3>2 DEF upward
      <3> QED
        BY <1>7, <3>1, <3>2 DEF BaseAnswer
    <2> QED
      BY <1>2, <2>1, <2>2, <2>3
  <1>8. CASE AgentRecv
    <2>1. PICK n \in 1 .. Len(up) :
            buf' = SubSeq(up, 1, n) /\ up' = SubSeq(up, n + 1, Len(up))
      BY <1>8 DEF AgentRecv
    <2>2. UNCHANGED <<main, datagram, base, inbox, down, answers>>
          /\ chunk' = chunk \cup {agent}
      BY <1>8 DEF AgentRecv, Recv, start
    <2>3. buf' # <<>> /\ up' \in Seq((1 .. answers) \X {1, 2})
      BY <1>2, <2>1, ReadSplits
    <2> QED
      BY <1>2, <2>2, <2>3
  <1>9. CASE AgentSendControl
    <2>1. UNCHANGED <<main, datagram, base, inbox, down, up, answers>>
          /\ chunk' = chunk \ {agent} /\ buf' = <<>>
      BY <1>9 DEF AgentSendControl, SendControl, ControlSent, ControlLost, Handled,
        start, upward
    <2> QED
      BY <1>2, <2>1
  <1>10. CASE ExternalControl
    <2>1. UNCHANGED <<main, datagram, base, inbox, down, up, answers, buf, chunk>>
      BY <1>10 DEF ExternalControl, ExternalThread, TerminateMessage, TerminateOne,
        TerminateUnbound, threads, start, upward, control
    <2> QED
      BY <1>2, <2>1
  <1>11. ASSUME NEW c \in Subs!Calls, Respond(c)
         PROVE  Places' /\ (inbox \in Seq(M))' /\ (down \in Seq({1, 2}))'
                 /\ (up \in Seq((1 .. answers) \X {1, 2}))' /\ Held'
    <2>1. UNCHANGED <<main, datagram, base, down, up, answers, buf, chunk>>
          /\ inbox' = Append(inbox, <<"response", c>>)
      BY <1>11 DEF Respond, agents, vars, threads, start, upward, control
    <2>2. <<"response", c>> \in M
      BY DEF M
    <2>3. inbox' \in Seq(M)
      BY <1>2, <2>1, <2>2, AppendProperties
    <2> QED
      BY <1>2, <2>1, <2>3 DEF M
  <1>12. ASSUME NEW g \in Gnbs, Report(g)
         PROVE  Places' /\ (inbox \in Seq(M))' /\ (down \in Seq({1, 2}))'
                 /\ (up \in Seq((1 .. answers) \X {1, 2}))' /\ Held'
    <2>1. UNCHANGED <<main, datagram, base, down, up, answers, buf, chunk>>
          /\ inbox' = Append(inbox, <<"report", g>>)
      BY <1>12 DEF Report, agents, vars, threads, start, upward, control
    <2>2. <<"report", g>> \in M
      BY DEF M
    <2>3. inbox' \in Seq(M)
      BY <1>2, <2>1, <2>2, AppendProperties
    <2> QED
      BY <1>2, <2>1, <2>3 DEF M
  <1>13. CASE UNCHANGED sysVars
    <2>1. UNCHANGED <<main, datagram, base, inbox, down, up, answers, buf, chunk>>
      BY <1>13 DEF sysVars, agents, vars, threads, start, upward, control
    <2> QED
      BY <1>2, <2>1
  <1> QED
    BY <1>4, <1>5, <1>6, <1>7, <1>8, <1>9, <1>10, <1>11, <1>12, <1>13
    DEF SystemNext, BaseXapp

-----------------------------------------------------------------------------

LEMMA InitSystemInv == SystemInit => SystemInv
  <1> SUFFICES ASSUME SystemInit
               PROVE  SystemInv
    OBVIOUS
  <1>1. IInv
    BY InitIInv DEF SystemInit
  <1>2. SystemTypeOK /\ ListInv /\ BoundFirst /\ StreamInv
    BY <1>1, AgentIsOne
    DEF IInv, SystemInit, Init, Subs!Init, SystemTypeOK, ListInv, BoundFirst,
    StreamInv, Idle
  <1>3. AllHalves(0) = <<>>
    BY AnswerHalves, EmptySeq
  <1>4. PassedAsAnswered
    BY <1>3 DEF SystemInit, PassedAsAnswered
  <1> QED
    BY <1>1, <1>2, <1>4 DEF SystemInv

\* The invariant holds of every run of the program.
THEOREM SystemInvariance == SystemSpec => []SystemInv
  <1>1. SystemInv /\ [SystemNext]_sysVars => SystemInv'
    BY AgentsKept, ListStep, BoundFirstStep, StreamStep, SystemTypeStep DEF SystemInv
  <1> QED
    BY <1>1, InitSystemInv, PTL DEF SystemSpec

\* The state stays in its declared types.
THEOREM SystemTypes == SystemSpec => []SystemTypeOK
  BY SystemInvariance, PTL DEF SystemInv

\* What the base xApp answers is passed to xapp_rmr_send in order, nothing left
\* out and nothing twice, whatever handle_rx_msg_agent reads at a time.
THEOREM AnswersInOrder == SystemSpec => []PassedAsAnswered
  BY SystemInvariance, PTL DEF SystemInv

\* In the program, too, an agent's control requests go to one gNB, a gNB has
\* one agent, and the process is signalled after the gNBs were asked to stop.
THEOREM AgentsInProgram ==
  SystemSpec => [](OneAgentPerGnb /\ ControlsKeepGnb /\ SignalAfterRequests)
  BY SystemInvariance, PTL DEF SystemInv, IInv
==============================================================================
