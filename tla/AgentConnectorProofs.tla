------------------------ MODULE AgentConnectorProofs ------------------------
(***************************************************************************)
(* The bindings of gNBs to agents and the termination loop, for any list   *)
(* of agents and any set of gNBs.                                          *)
(***************************************************************************)
EXTENDS AgentConnector, WellFoundedInduction, FiniteSetTheorems, TLAPS

\* The agents of a set have a first and a last one.
LEMMA AgentsAreRanks == Agents \subseteq 1 .. Len(AgentList) /\ Len(AgentList) \in Nat
  BY AgentAssumption DEF ToSet, Agents

LEMMA MinExists ==
  ASSUME NEW A \in SUBSET Nat, A # {}
  PROVE  Min(A) \in A /\ \A a \in A : Min(A) <= a
  <1>1. \E x \in A : \A y \in A : ~ (<<y, x>> \in OpToRel(<, Nat))
    BY NatLessThanWellFounded, WFMin
  <1>2. ASSUME NEW x \in Nat, NEW y \in Nat, y < x
        PROVE  <<y, x>> \in OpToRel(<, Nat)
    BY <1>2, Zenon DEF OpToRel
  <1>3. PICK x \in A : \A y \in A : ~ (<<y, x>> \in OpToRel(<, Nat))
    BY <1>1
  <1>4. \A y \in A : ~ (y < x)
    BY <1>2, <1>3, Zenon
  <1>5. \E y \in A : \A z \in A : y <= z
    BY <1>4
  <1> QED
    BY <1>5 DEF Min

LEMMA MaxExists ==
  ASSUME NEW N \in Nat, NEW A \in SUBSET (1 .. N), A # {}
  PROVE  Max(A) \in A
  <1> DEFINE B == {N - a : a \in A}
  <1>1. B \in SUBSET Nat /\ B # {}
    <2>1. \A a \in A : a \in 1 .. N
      OBVIOUS
    <2>2. \A a \in 1 .. N : N - a \in Nat
      OBVIOUS
    <2> QED
      BY <2>1, <2>2
  <1>2. Min(B) \in B /\ \A b \in B : Min(B) <= b
    BY <1>1, MinExists
  <1>3. PICK a \in A : Min(B) = N - a
    BY <1>2
  <1>4. \E m \in A : \A b \in A : m >= b
    <2>1. \A b \in A : b \in Nat /\ N - a <= N - b
      BY <1>2, <1>3
    <2> QED
      BY <2>1
  <1> QED
    BY <1>4 DEF Max

\* Where an iteration over a set of agents begins.
LEMMA BeginsFirst ==
  ASSUME NEW A \in SUBSET Agents
  PROVE  /\ A = {} => Begin(A) = NoAgent
         /\ A # {} => Begin(A) \in A /\ Begin(A) # NoAgent
         /\ \A a \in A : Begin(A) <= a
  <1>1. A \in SUBSET Nat
    BY AgentsAreRanks
  <1> QED
    BY <1>1, MinExists, AgentAssumption DEF Begin

-----------------------------------------------------------------------------
(* The inductive invariant.                                                *)

\* Only connected agents are bound, and only to gNBs that have reported.
BoundInv ==
  \A a \in Agents : Bound(a) => a \in agentIp_socket /\ agentIp_gnbId[a] \in seen

\* The receiver sends what it holds to the agent of the gNB, if there is one.
RouteInv ==
  indication # Idle => \A a \in AgentsOf(indication.gnb) : a = indication.agent

\* The loop has asked the gNBs of the agents behind the iterator.
LoopInv ==
  /\ \A a \in due : Bound(a)
  /\ it # NoAgent /\ gnblisted =>
       \A a \in due : a < it => agentIp_gnbId[a] \in terminated

IInv ==
  /\ TypeOK
  /\ BoundInv
  /\ OneAgentPerGnb
  /\ RouteInv
  /\ ControlsKeepGnb
  /\ LoopInv
  /\ SignalAfterRequests

LEMMA InitIInv == Init => IInv
  BY GnbAssumption, AgentAssumption, AgentsAreRanks
  DEF Init, IInv, TypeOK, BoundInv, OneAgentPerGnb, RouteInv, ControlsKeepGnb,
      LoopInv, SignalAfterRequests, Bound, AgentsOf, Idle

-----------------------------------------------------------------------------
(* What one turn of the receiver does to the bindings.                     *)

\* A gNB is bound to a free agent only when it has none, and the agent it
\* gets, or already has, is the destination.
LEMMA Binding ==
  ASSUME TypeOK, OneAgentPerGnb, NEW g \in Gnbs, find_agent_ip_from_gnb(g)
  PROVE  /\ indication' \in [gnb : {g}, agent : agentIp_socket \cup Agents \cup {NoAgent}]
         /\ \/ agentIp_gnbId' = agentIp_gnbId
            \/ \E a \in Free : /\ AgentsOf(g) = {}
                               /\ agentIp_gnbId' = [agentIp_gnbId EXCEPT ![a] = g]
         /\ \A a \in Agents : agentIp_gnbId'[a] = g => a = indication'.agent
  <1> DEFINE N == Len(AgentList)
  <1>1. agentIp_socket \in SUBSET (1 .. N) /\ N \in Nat /\ Free \subseteq agentIp_socket
    BY AgentsAreRanks DEF TypeOK, Free
  <1>2. CASE AgentsOf(g) # {} /\ Route(g, Min(AgentsOf(g))) /\ UNCHANGED agentIp_gnbId
    <2>1. Min(AgentsOf(g)) \in AgentsOf(g)
      BY <1>2, MinExists, AgentsAreRanks DEF AgentsOf
    <2>2. \A a \in Agents : agentIp_gnbId[a] = g => a = Min(AgentsOf(g))
      BY <2>1, GnbAssumption DEF AgentsOf, OneAgentPerGnb, Bound
    <2> QED
      BY <1>2, <2>1, <2>2 DEF Route, AgentsOf
  <1>3. CASE AgentsOf(g) = {} /\ Free # {} /\ Bind(g, Min(Free))
    <2>1. Min(Free) \in Free
      <3>1. Free \in SUBSET Nat
        BY <1>1
      <3> QED
        BY <1>3, <3>1, MinExists
    <2>2. agentIp_gnbId' = [agentIp_gnbId EXCEPT ![Min(Free)] = g]
          /\ indication' = [gnb |-> g, agent |-> Min(Free)]
      BY <1>3 DEF Bind, Route
    <2>3. \A a \in Agents : agentIp_gnbId'[a] = g => a = Min(Free)
      BY <1>3, <2>1, <2>2 DEF TypeOK, AgentsOf
    <2>4. Min(Free) \in Agents
      BY <1>1, <2>1 DEF TypeOK
    <2> QED
      BY <1>3, <2>1, <2>2, <2>3, <2>4
  <1>4. CASE /\ AgentsOf(g) = {} /\ Free = {} /\ UNCHANGED agentIp_gnbId
             /\ Route(g, IF agentIp_socket = {} THEN NoAgent ELSE Max(agentIp_socket))
    <2>1. agentIp_socket # {} => Max(agentIp_socket) \in agentIp_socket
      BY <1>1, MaxExists
    <2>2. \A a \in Agents : agentIp_gnbId'[a] # g
      BY <1>4 DEF AgentsOf
    <2> QED
      BY <1>4, <2>1, <2>2 DEF Route
  <1> QED
    BY <1>2, <1>3, <1>4 DEF find_agent_ip_from_gnb

\* The agent an indication is routed to has a gNB, its own or another.
LEMMA DestinationBound ==
  ASSUME TypeOK, NEW g \in Gnbs, find_agent_ip_from_gnb(g),
         indication'.agent \in Agents
  PROVE  agentIp_gnbId'[indication'.agent] # NoGnb
  <1> DEFINE N == Len(AgentList)
  <1>1. agentIp_socket \in SUBSET (1 .. N) /\ N \in Nat /\ Free \subseteq agentIp_socket
    BY AgentsAreRanks DEF TypeOK, Free
  <1>2. CASE AgentsOf(g) # {} /\ Route(g, Min(AgentsOf(g))) /\ UNCHANGED agentIp_gnbId
    <2>1. Min(AgentsOf(g)) \in AgentsOf(g)
      BY <1>2, MinExists, AgentsAreRanks DEF AgentsOf
    <2> QED
      BY <1>2, <2>1, GnbAssumption DEF Route, AgentsOf
  <1>3. CASE Free # {} /\ Bind(g, Min(Free))
    BY <1>3, GnbAssumption DEF Bind, Route, TypeOK
  <1>4. CASE /\ Free = {} /\ UNCHANGED agentIp_gnbId
             /\ Route(g, IF agentIp_socket = {} THEN NoAgent ELSE Max(agentIp_socket))
    <2>0. Agents \in SUBSET Nat
      BY AgentsAreRanks
    <2>1. agentIp_socket # {}
      BY <1>4, <2>0, AgentAssumption DEF Route
    <2>2. Max(agentIp_socket) \in agentIp_socket
      BY <1>1, <2>1, MaxExists
    <2> QED
      BY <1>4, <2>1, <2>2 DEF Route, Free, Bound
  <1> QED
    BY <1>2, <1>3, <1>4 DEF find_agent_ip_from_gnb

-----------------------------------------------------------------------------
(* Every step keeps the invariant.                                         *)

LEMMA TypeStep == TypeOK /\ OneAgentPerGnb /\ [Next]_vars => TypeOK'
  <1> SUFFICES ASSUME TypeOK, OneAgentPerGnb, [Next]_vars
               PROVE  TypeOK'
    OBVIOUS
  <1>1. CASE Main
    <2>1. PICK connected \in BOOLEAN : Open(connected)
      BY <1>1 DEF Main
    <2>2. opened + 1 \in 1 .. Len(AgentList)
      BY <2>1, AgentsAreRanks DEF Open, TypeOK
    <2>3. AgentList[opened + 1] \in Agents
      BY <2>2, AgentAssumption DEF Agents, ToSet
    <2>4. agentIp_socket' \subseteq Agents /\ agentIp_socket \subseteq agentIp_socket'
      BY <2>1, <2>3 DEF Open, TypeOK
    <2>5. opened' \in 0 .. Len(AgentList)
      BY <2>1, <2>2 DEF Open
    <2> QED
      BY <2>1, <2>4, <2>5 DEF Open, TypeOK, history
  <1>2. ASSUME NEW g \in Gnbs, Indication(g)
        PROVE  TypeOK'
    <2>1. find_agent_ip_from_gnb(g)
      BY <1>2 DEF Indication
    <2>2. /\ indication' \in [gnb : Gnbs, agent : Agents \cup {NoAgent}]
          /\ agentIp_gnbId' \in [Agents -> Gnbs \cup {NoGnb}]
      BY <2>1, Binding DEF TypeOK, Free
    <2> QED
      BY <1>2, <2>2 DEF Indication, TypeOK
  <1>3. CASE send_socket_limited
    <2>1. indication \in [gnb : Gnbs, agent : Agents \cup {NoAgent}]
      BY <1>3 DEF send_socket_limited, TypeOK
    <2>2. delivered' \subseteq Agents \X Gnbs
      BY <1>3, <2>1 DEF send_socket_limited, TypeOK
    <2> QED
      BY <1>3, <2>2 DEF send_socket_limited, TypeOK, maps
  <1>4. ASSUME NEW a \in Agents, AgentThread(a)
        PROVE  TypeOK'
    <2>1. CASE Recv(a)
      BY <1>4, <2>1 DEF Recv, TypeOK, maps, history
    <2>2. CASE SendControl(a)
      <3>1. controls' \subseteq Agents \X Gnbs /\ Handled(a)
        BY <1>4, <2>2 DEF SendControl, ControlSent, ControlLost, PassedOn, Bound, TypeOK
      <3> QED
        BY <3>1 DEF Handled, TypeOK, maps
    <2> QED
      BY <1>4, <2>1, <2>2 DEF AgentThread
  <1>5. CASE TerminateMessage
    <2>1. agentIp_socket \subseteq Agents
      BY DEF TypeOK
    <2>2. it' \in agentIp_socket \cup {NoAgent}
      BY <1>5, <2>1, BeginsFirst DEF TerminateMessage
    <2>3. reporting' \subseteq Gnbs
      BY <1>5 DEF TerminateMessage, TypeOK
    <2> QED
      BY <1>5, <2>1, <2>2, <2>3 DEF TerminateMessage, Signalled, TypeOK, maps
  <1>6. CASE TerminateOne
    <2>1. {a \in agentIp_socket : a > it} \in SUBSET Agents
      BY DEF TypeOK
    <2>2. it' \in agentIp_socket \cup {NoAgent}
      BY <1>6, <2>1, BeginsFirst DEF TerminateOne, Following
    <2>3. agentIp_gnbId[it] \in Gnbs
      BY <1>6 DEF TerminateOne, Bound, TypeOK
    <2> QED
      BY <1>6, <2>2, <2>3 DEF TerminateOne, Signalled, TypeOK, maps
  <1>7. CASE TerminateUnbound
    BY <1>7 DEF TerminateUnbound, TypeOK, maps, threads, history
  <1>8. CASE UNCHANGED vars
    BY <1>8 DEF vars, TypeOK, maps, threads, history
  <1> QED
    BY <1>1, <1>2, <1>3, <1>4, <1>5, <1>6, <1>7, <1>8
    DEF Next, Receiver, ExternalThread

\* The steps of the other threads leave bindings and reports alone.
LEMMA ReceiverBinds ==
  ASSUME [Next]_vars, \A g \in Gnbs : ~ Indication(g)
  PROVE  /\ agentIp_gnbId' = agentIp_gnbId /\ seen' = seen
         /\ agentIp_socket \subseteq agentIp_socket'
         /\ indication' \in {indication, Idle}
  BY DEF Next, vars, Main, Open, Receiver, send_socket_limited, AgentThread, Recv,
         SendControl, ControlSent, ControlLost, Handled, ExternalThread,
         TerminateMessage, TerminateOne, TerminateUnbound, maps, threads, history

\* A bound agent stays bound, to the same gNB.
LEMMA BindingsLast ==
  ASSUME TypeOK, OneAgentPerGnb, [Next]_vars, NEW a \in Agents, Bound(a)
  PROVE  agentIp_gnbId'[a] = agentIp_gnbId[a] /\ Bound(a)'
  <1>1. CASE \E g \in Gnbs : Indication(g)
    <2>1. PICK g \in Gnbs : find_agent_ip_from_gnb(g)
      BY <1>1 DEF Indication
    <2> QED
      BY <2>1, Binding DEF TypeOK, Bound, Free
  <1>2. CASE \A g \in Gnbs : ~ Indication(g)
    BY <1>2, ReceiverBinds DEF Bound
  <1> QED
    BY <1>1, <1>2

LEMMA BoundStep == IInv /\ [Next]_vars => BoundInv' /\ OneAgentPerGnb' /\ RouteInv'
  <1> SUFFICES ASSUME IInv, [Next]_vars
               PROVE  BoundInv' /\ OneAgentPerGnb' /\ RouteInv'
    OBVIOUS
  <1> USE DEF IInv
  <1>1. ASSUME NEW g \in Gnbs, Indication(g)
        PROVE  BoundInv' /\ OneAgentPerGnb' /\ RouteInv'
    <2>1. find_agent_ip_from_gnb(g) /\ seen' = seen \cup {g}
          /\ agentIp_socket' = agentIp_socket
      BY <1>1 DEF Indication
    <2>2. /\ indication'.gnb = g
          /\ \A a \in Agents : agentIp_gnbId'[a] = g => a = indication'.agent
          /\ \A a \in Agents : agentIp_gnbId'[a] = agentIp_gnbId[a]
                                \/ (a \in Free /\ agentIp_gnbId'[a] = g)
      BY <2>1, Binding DEF TypeOK
    <2>3. BoundInv'
      BY <2>1, <2>2 DEF BoundInv, Bound, Free
    <2>4. OneAgentPerGnb'
      BY <2>2, GnbAssumption DEF OneAgentPerGnb, Bound
    <2>5. RouteInv'
      BY <2>2 DEF RouteInv, AgentsOf
    <2> QED
      BY <2>3, <2>4, <2>5
  <1>2. CASE \A g \in Gnbs : ~ Indication(g)
    <2>1. BoundInv' /\ OneAgentPerGnb'
      BY <1>2, ReceiverBinds DEF BoundInv, OneAgentPerGnb, Bound
    <2>2. RouteInv'
      BY <1>2, ReceiverBinds DEF RouteInv, AgentsOf
    <2> QED
      BY <2>1, <2>2
  <1> QED
    BY <1>1, <1>2

LEMMA ControlStep == IInv /\ [Next]_vars => ControlsKeepGnb'
  <1> SUFFICES ASSUME IInv, [Next]_vars, NEW c \in controls'
               PROVE  agentIp_gnbId'[c[1]] = c[2] /\ c[2] \in seen'
    BY DEF ControlsKeepGnb
  <1>1. seen \subseteq seen'
    BY ReceiverBinds DEF Indication
  <1>2. CASE c \in controls
    <2>1. c[1] \in Agents /\ c[2] \in Gnbs /\ agentIp_gnbId[c[1]] = c[2]
          /\ c[2] \in seen
      BY <1>2 DEF IInv, TypeOK, ControlsKeepGnb
    <2>2. Bound(c[1])
      BY <2>1, GnbAssumption DEF Bound
    <2> QED
      BY <1>1, <2>1, <2>2, BindingsLast DEF IInv
  <1>3. CASE c \notin controls
    <2>1. PICK a \in Agents : SendControl(a)
      BY <1>3 DEF Next, vars, Main, Open, Receiver, Indication,
        send_socket_limited, AgentThread, Recv, ExternalThread, TerminateMessage,
        TerminateOne, TerminateUnbound, threads, history
    <2>2. Bound(a) /\ c = <<a, agentIp_gnbId[a]>>
      BY <1>3, <2>1 DEF SendControl, ControlSent, ControlLost, PassedOn
    <2> QED
      BY <1>1, <2>2, BindingsLast DEF IInv, BoundInv
  <1> QED
    BY <1>2, <1>3

\* The agents due keep their gNB, and what was asked stays asked.
LEMMA LoopKept ==
  ASSUME IInv, [Next]_vars,
         UNCHANGED <<it, process, due, terminated, gnblisted>>
  PROVE  LoopInv' /\ SignalAfterRequests'
  <1>1. \A a \in due : Bound(a)' /\ agentIp_gnbId'[a] = agentIp_gnbId[a]
    BY BindingsLast DEF IInv, TypeOK, LoopInv
  <1> QED
    BY <1>1 DEF IInv, LoopInv, SignalAfterRequests

LEMMA LoopStep == IInv /\ [Next]_vars => LoopInv' /\ SignalAfterRequests'
  <1> SUFFICES ASSUME IInv, [Next]_vars
               PROVE  LoopInv' /\ SignalAfterRequests'
    OBVIOUS
  <1> USE DEF IInv
  <1>1. CASE TerminateMessage
    <2>1. agentIp_socket \in SUBSET Agents
      BY DEF TypeOK
    <2>2. /\ it' = Begin(agentIp_socket) /\ due' \subseteq agentIp_socket
          /\ \A a \in due' : Bound(a)
          /\ UNCHANGED <<agentIp_gnbId, gnblisted, terminated>>
      BY <1>1 DEF TerminateMessage, maps
    <2>3. it' = NoAgent => due' = {}
      BY <2>1, <2>2, BeginsFirst
    <2>4. \A a \in due' : ~ (a < it')
      <3>1. \A a \in due' : it' <= a
        BY <2>1, <2>2, BeginsFirst
      <3>2. agentIp_socket # {} => it' \in agentIp_socket
        BY <2>1, <2>2, BeginsFirst
      <3>3. agentIp_socket \subseteq Nat
        BY <2>1, AgentsAreRanks
      <3>4. ASSUME NEW a \in due'
            PROVE  a \in Nat /\ it' \in Nat
        BY <2>2, <3>2, <3>3, <3>4
      <3> QED
        BY <3>1, <3>4
    <2> QED
      BY <2>2, <2>3, <2>4 DEF LoopInv, SignalAfterRequests, Bound
  <1>2. CASE TerminateOne
    <2> DEFINE rest == {a \in agentIp_socket : a > it}
    <2>1. /\ it # NoAgent /\ it' = Begin(rest)
          /\ terminated' = IF gnblisted THEN terminated \cup {agentIp_gnbId[it]}
                                        ELSE terminated
          /\ UNCHANGED <<agentIp_socket, agentIp_gnbId, gnblisted, due>>
      BY <1>2 DEF TerminateOne, Following, maps
    <2>2. rest \in SUBSET Agents /\ due \subseteq agentIp_socket
          /\ agentIp_socket \subseteq Nat /\ it \in Nat
      <3>1. agentIp_socket \subseteq Nat
        BY AgentsAreRanks DEF TypeOK
      <3>2. it \in agentIp_socket /\ due \subseteq agentIp_socket
        BY <2>1 DEF TypeOK, LoopInv, BoundInv
      <3> QED
        BY <3>1, <3>2 DEF TypeOK
    <2>3. ASSUME gnblisted, NEW a \in due, a \notin rest
          PROVE  agentIp_gnbId[a] \in terminated'
      <3>1. a < it \/ a = it
        BY <2>2, <2>3
      <3> QED
        BY <2>1, <2>3, <3>1 DEF LoopInv
    <2>4. it' = NoAgent => rest = {}
      BY <2>1, <2>2, BeginsFirst
    <2>5. ASSUME it' # NoAgent, NEW a \in due, a < it'
          PROVE  a \notin rest
      <3>1. it' \in rest /\ \A b \in rest : it' <= b
        BY <2>1, <2>2, <2>5, BeginsFirst
      <3>2. it' \in Nat /\ a \in Nat
        BY <2>2, <3>1
      <3> QED
        BY <2>5, <3>1, <3>2
    <2> HIDE DEF rest
    <2>6. LoopInv'
      BY <2>1, <2>3, <2>5 DEF LoopInv, Bound
    <2>7. SignalAfterRequests'
      BY <2>1, <2>3, <2>4 DEF SignalAfterRequests
    <2> QED
      BY <2>6, <2>7
  <1>3. CASE TerminateUnbound
    <2>1. process' = "crashed" /\ LoopInv'
      BY <1>3 DEF TerminateUnbound, LoopInv, Bound, maps, threads, history
    <2> QED
      BY <2>1 DEF SignalAfterRequests
  <1>4. CASE Main \/ Receiver \/ (\E a \in Agents : AgentThread(a)) \/ UNCHANGED vars
    <2>1. UNCHANGED <<it, process, due, terminated, gnblisted>>
      BY <1>4 DEF vars, Main, Open, Receiver, Indication, send_socket_limited,
                  AgentThread, Recv, SendControl, ControlSent, ControlLost, Handled,
                  threads, history
    <2> QED
      BY <2>1, LoopKept
  <1> QED
    BY <1>1, <1>2, <1>3, <1>4 DEF Next, ExternalThread

-----------------------------------------------------------------------------

LEMMA InvariantStep == IInv /\ [Next]_vars => IInv'
  BY TypeStep, BoundStep, ControlStep, LoopStep DEF IInv

\* The invariant holds of every run, whatever the list of agents and the gNBs.
THEOREM Invariance == Spec => []IInv
  BY InvariantStep, InitIInv, PTL DEF Spec

\* The state stays in its declared types.
THEOREM TypeCorrect == Spec => []TypeOK
  BY Invariance, PTL DEF IInv

\* find_agent_ip_from_gnb never gives one gNB to two agents.
THEOREM OneAgent == Spec => []OneAgentPerGnb
  BY Invariance, PTL DEF IInv

\* The controls that handle_rx_msg_agent makes of an agent's answers go to one
\* gNB for the whole run, and only to one that has reported.
THEOREM ControlsKept == Spec => []ControlsKeepGnb
  BY Invariance, PTL DEF IInv

\* terminate_du_reporting signals the process only after asking the gNB of
\* every agent that was bound when the request came.
THEOREM SignalLast == Spec => []SignalAfterRequests
  BY Invariance, PTL DEF IInv

\* procRicIndication sends the indications of a gNB with an agent to no other.
THEOREM IndicationsKept == Spec => IndicationsKeepAgent
  <1> DEFINE Kept == \A d \in delivered' \ delivered :
                       AgentsOf(d[2]) # {} => AgentsOf(d[2]) = {d[1]}
  <1>1. ASSUME IInv, [Next]_vars
        PROVE  [Kept]_vars
    <2>1. SUFFICES ASSUME NEW d \in delivered' \ delivered, AgentsOf(d[2]) # {}
                   PROVE  AgentsOf(d[2]) = {d[1]}
      OBVIOUS
    <2>2. send_socket_limited
      BY <1>1, <2>1 DEF Next, vars, Main, Open, Receiver, Indication, AgentThread,
        Recv, SendControl, ControlSent, ControlLost, Handled, ExternalThread,
        TerminateMessage, TerminateOne, TerminateUnbound, threads, history
    <2>3. indication # Idle /\ d = <<indication.agent, indication.gnb>>
      BY <2>1, <2>2 DEF send_socket_limited
    <2> QED
      BY <1>1, <2>1, <2>3 DEF IInv, RouteInv
  <1> QED
    BY <1>1, Invariance, PTL DEF Spec, IndicationsKeepAgent

-----------------------------------------------------------------------------
(* Agents shared beyond capacity.                                          *)

\* Finitely many gNBs have reported, and one step adds one.
SeenInv == IsFiniteSet(seen)

LEMMA SeenStep == SeenInv /\ [Next]_vars => SeenInv'
  <1> SUFFICES ASSUME SeenInv, [Next]_vars
               PROVE  IsFiniteSet(seen')
    BY DEF SeenInv
  <1>1. CASE \E g \in Gnbs : Indication(g)
    <2>1. PICK g \in Gnbs : seen' = seen \cup {g}
      BY <1>1 DEF Indication
    <2> QED
      BY <2>1, FS_AddElement DEF SeenInv
  <1>2. CASE \A g \in Gnbs : ~ Indication(g)
    BY <1>2, ReceiverBinds DEF SeenInv
  <1> QED
    BY <1>1, <1>2

LEMMA FinitelyMany == Spec => []SeenInv
  <1>1. Init => SeenInv
    BY FS_EmptySet DEF Init, SeenInv
  <1> QED
    BY <1>1, SeenStep, PTL DEF Spec

\* When every connected agent has a gNB, and a gNB that has none reports, more
\* gNBs have reported than agents are connected.
LEMMA BeyondCapacity ==
  ASSUME TypeOK, BoundInv, OneAgentPerGnb, Free = {}, NEW g \in Gnbs, AgentsOf(g) = {},
         NEW S, seen \cup {g} \subseteq S, IsFiniteSet(S)
  PROVE  Cardinality(S) > Cardinality(agentIp_socket)
  <1> DEFINE f == [a \in agentIp_socket |-> agentIp_gnbId[a]]
  <1>1. agentIp_socket \subseteq Agents /\ \A a \in agentIp_socket : Bound(a)
    BY DEF TypeOK, Free
  <1>2. \A a \in agentIp_socket : agentIp_gnbId[a] \in S \ {g}
    BY <1>1 DEF BoundInv, AgentsOf
  <1>3. \A a, b \in agentIp_socket : agentIp_gnbId[a] = agentIp_gnbId[b] => a = b
    BY <1>1 DEF OneAgentPerGnb
  <1>4. f \in Injection(agentIp_socket, S \ {g})
    BY <1>2, <1>3 DEF Injection, IsInjective
  <1>5. IsFiniteSet(S \ {g}) /\ Cardinality(S \ {g}) = Cardinality(S) - 1
    BY FS_RemoveElement
  <1>6. IsFiniteSet(agentIp_socket) /\ Cardinality(agentIp_socket) <= Cardinality(S \ {g})
    BY <1>4, <1>5, FS_Injection
  <1>7. Cardinality(S) \in Nat /\ Cardinality(agentIp_socket) \in Nat
    BY <1>6, FS_CardinalityType
  <1> QED
    BY <1>5, <1>6, <1>7

\* procRicIndication sends an indication to an agent of another gNB only when
\* more gNBs have reported than agents are connected.
THEOREM SharedBeyondCapacity == Spec => SharedOnlyBeyondCapacity
  <1> DEFINE Excused == ~Misrouted /\ Misrouted'
                          => Cardinality(seen') > Cardinality(agentIp_socket)
  <1>1. ASSUME IInv, SeenInv, [Next]_vars
        PROVE  [Excused]_vars
    <2>1. SUFFICES ASSUME ~Misrouted, Misrouted'
                   PROVE  Cardinality(seen') > Cardinality(agentIp_socket)
      OBVIOUS
    <2>2. PICK g \in Gnbs : Indication(g)
      <3>1. ASSUME \A g \in Gnbs : ~ Indication(g)
            PROVE  FALSE
        BY <1>1, <2>1, <3>1, ReceiverBinds DEF Misrouted, Idle
      <3> QED
        BY <3>1
    <2>3. /\ find_agent_ip_from_gnb(g) /\ seen' = seen \cup {g}
          /\ indication'.gnb = g
          /\ \A a \in Agents : agentIp_gnbId'[a] = g => a = indication'.agent
      BY <1>1, <2>2, Binding DEF Indication, IInv
    <2>4. CASE AgentsOf(g) # {} /\ UNCHANGED agentIp_gnbId
      BY <2>1, <2>3, <2>4 DEF Misrouted, AgentsOf
    <2>5. CASE AgentsOf(g) = {} /\ Free # {} /\ Bind(g, Min(Free))
      <3>1. Min(Free) \in Free
        <4>1. Free \subseteq agentIp_socket /\ agentIp_socket \subseteq Agents
          BY <1>1 DEF Free, IInv, TypeOK
        <4>2. Free \in SUBSET Nat
          BY <4>1, AgentsAreRanks
        <4> QED
          BY <2>5, <4>2, MinExists
      <3>2. agentIp_gnbId'[Min(Free)] = g
        BY <1>1, <2>5, <3>1 DEF Bind, Free, IInv, TypeOK
      <3> QED
        BY <2>1, <2>5, <3>2 DEF Bind, Route, Misrouted
    <2>6. CASE AgentsOf(g) = {} /\ Free = {}
      <3>1. IsFiniteSet(seen')
        BY <1>1, SeenStep DEF SeenInv
      <3> QED
        BY <1>1, <2>3, <2>6, <3>1, BeyondCapacity DEF IInv
    <2> QED
      BY <2>3, <2>4, <2>5, <2>6 DEF find_agent_ip_from_gnb
  <1> QED
    BY <1>1, FinitelyMany, Invariance, PTL DEF Spec, SharedOnlyBeyondCapacity
==============================================================================
