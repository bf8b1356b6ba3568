--------------------------- MODULE AgentConnector ---------------------------
(***************************************************************************)
(* The control loop between gNBs and agents (agent_connector.cc, the agent *)
(* and external control threads of xapp.cc, procRicIndication).  Main      *)
(* opens a socket per agent; the receiver hands the indications of a gNB   *)
(* to the agent bound to it, binding a free one to a gNB it has not seen;  *)
(* each agent's thread sends what the agent answers to the bound gNB; the  *)
(* external control thread asks the gNBs to stop and signals the process.  *)
(* The maps agentIp_socket and agentIp_gnbId are shared with no lock.      *)
(*                                                                         *)
(* An agent is its rank in the order of std::map; a socket descriptor is   *)
(* identified with its agent.                                              *)
(***************************************************************************)
EXTENDS Integers, FiniteSets, SequencesExt

CONSTANTS AgentList,  \* drl_agent_ip
          Gnbs,       \* the gNBs that send indications
          NoGnb,      \* no gNB
          NoAgent     \* the empty address, the end of an iteration

Agents == ToSet(AgentList)

ASSUME AgentAssumption ==
  /\ AgentList \in Seq(1 .. Len(AgentList)) /\ IsInjective(AgentList)
  /\ NoAgent \notin Nat
ASSUME GnbAssumption == NoGnb \notin Gnbs

VARIABLES
  agentIp_socket,  \* the agents whose socket is open
  agentIp_gnbId,   \* the gNB each agent is bound to, or NoGnb
  opened,          \* how many agents main has tried
  gnblisted,       \* rnib_gnblist is not empty
  indication,      \* the indication the receiver holds, and where it sends it
  chunk,           \* the agents whose thread holds received data
  it,              \* the iterator of terminate_du_reporting
  process,         \* whether the process runs, was signalled or died
  seen,            \* history: the gNBs that sent an indication
  delivered,       \* history: <<agent, gNB>> of the indications sent on
  controls,        \* history: <<agent, gNB>> of the control requests RMR took
  due,             \* history: the agents bound when termination started,
  reporting,       \* and the gNBs whose indications had reached an agent
  terminated       \* history: the gNBs asked to stop, whatever RMR did with it

maps == <<agentIp_socket, agentIp_gnbId>>
threads == <<opened, indication, chunk, it>>
history == <<seen, delivered, controls, due, reporting, terminated>>
vars == <<maps, threads, gnblisted, process, history>>

Idle == [gnb |-> NoGnb, agent |-> NoAgent]

TypeOK ==
  /\ agentIp_socket \subseteq Agents
  /\ agentIp_gnbId \in [Agents -> Gnbs \cup {NoGnb}]
  /\ opened \in 0 .. Len(AgentList)
  /\ gnblisted \in BOOLEAN
  /\ indication \in [gnb : Gnbs, agent : Agents \cup {NoAgent}] \cup {Idle}
  /\ chunk \subseteq agentIp_socket
  /\ it \in agentIp_socket \cup {NoAgent}
  /\ process \in {"running", "signalled", "crashed"}
  /\ seen \subseteq Gnbs
  /\ delivered \subseteq Agents \X Gnbs
  /\ controls \subseteq Agents \X Gnbs
  /\ due \subseteq Agents
  /\ reporting \subseteq Gnbs
  /\ terminated \subseteq Gnbs

Init ==
  /\ agentIp_socket = {}
  /\ agentIp_gnbId = [a \in Agents |-> NoGnb]
  /\ opened = 0
  /\ gnblisted \in BOOLEAN
  /\ indication = Idle
  /\ chunk = {}
  /\ it = NoAgent
  /\ process = "running"
  /\ seen = {} /\ delivered = {} /\ controls = {}
  /\ due = {} /\ reporting = {} /\ terminated = {}

Alive == process # "crashed"
Bound(a) == agentIp_gnbId[a] # NoGnb
AgentsOf(g) == {a \in Agents : agentIp_gnbId[a] = g}
Free == {a \in agentIp_socket : ~Bound(a)}

\* Where an iteration over the agents A begins, in the order of the map.
Begin(A) == IF A = {} THEN NoAgent ELSE Min(A)

-----------------------------------------------------------------------------
(* Main: open_control_socket_agent for each agent, once.  The agent's      *)
(* thread starts when its socket is open.                                  *)

Open(connected) ==
  /\ Alive
  /\ opened < Len(AgentList)
  /\ opened' = opened + 1
  /\ agentIp_socket' =
       agentIp_socket \cup (IF connected THEN {AgentList[opened + 1]} ELSE {})
  /\ UNCHANGED <<agentIp_gnbId, gnblisted, indication, chunk, it, process,
                 history>>

-----------------------------------------------------------------------------
(* The receiver: procRicIndication.                                        *)

\* Binds agent a to gNB g and keeps a as the destination.
Route(g, a) == indication' = [gnb |-> g, agent |-> a]
Bind(g, a) == agentIp_gnbId' = [agentIp_gnbId EXCEPT ![a] = g] /\ Route(g, a)

\* Mutant: an agent is searched for without a look at the bindings.
find_agent_ip_from_gnb_Forgets(g) ==
  \/ /\ Free # {}
     /\ Bind(g, Min(Free))
  \/ /\ Free = {}
     /\ Route(g, IF agentIp_socket = {} THEN NoAgent ELSE Max(agentIp_socket))
     /\ UNCHANGED agentIp_gnbId

\* Mutant: the loop ends at the first socket.
find_agent_ip_from_gnb_FirstSocket(g) ==
  \/ /\ AgentsOf(g) # {}
     /\ Route(g, Min(AgentsOf(g)))
     /\ UNCHANGED agentIp_gnbId
  \/ /\ AgentsOf(g) = {}
     /\ LET a == Begin(agentIp_socket)
        IN  IF a \in Free THEN Bind(g, a)
                          ELSE Route(g, a) /\ UNCHANGED agentIp_gnbId

\* Mutant: the agent the loop ended with is bound, free or not.
find_agent_ip_from_gnb_Rebinds(g) ==
  \/ /\ AgentsOf(g) # {}
     /\ Route(g, Min(AgentsOf(g)))
     /\ UNCHANGED agentIp_gnbId
  \/ /\ AgentsOf(g) = {} /\ agentIp_socket # {}
     /\ Bind(g, IF Free # {} THEN Min(Free) ELSE Max(agentIp_socket))
  \/ /\ AgentsOf(g) = {} /\ agentIp_socket = {}
     /\ Route(g, NoAgent)
     /\ UNCHANGED agentIp_gnbId

\* Mutant: the agent that was found is not recorded.
find_agent_ip_from_gnb_Unrecorded(g) ==
  /\ Route(g, IF AgentsOf(g) # {} THEN Min(AgentsOf(g))
              ELSE IF Free # {} THEN Min(Free)
              ELSE IF agentIp_socket = {} THEN NoAgent ELSE Max(agentIp_socket))
  /\ UNCHANGED agentIp_gnbId

\* The agent bound to g; else the first free one, which is bound; else, with
\* every agent taken, the one the loop over the sockets ended with.
find_agent_ip_from_gnb(g) ==
  \/ /\ AgentsOf(g) # {}
     /\ Route(g, Min(AgentsOf(g)))
     /\ UNCHANGED agentIp_gnbId
  \/ /\ AgentsOf(g) = {} /\ Free # {}
     /\ Bind(g, Min(Free))
  \/ /\ AgentsOf(g) = {} /\ Free = {}
     /\ Route(g, IF agentIp_socket = {} THEN NoAgent ELSE Max(agentIp_socket))
     /\ UNCHANGED agentIp_gnbId

Indication(g) ==
  /\ Alive
  /\ indication = Idle
  /\ find_agent_ip_from_gnb(g)
  /\ seen' = seen \cup {g}
  /\ UNCHANGED <<agentIp_socket, opened, chunk, it, gnblisted, process,
                 delivered, controls, due, reporting, terminated>>

\* There may be no socket (-1) and send may fail (-2): nobody looks.
send_socket_limited ==
  /\ Alive
  /\ indication # Idle
  /\ delivered' \in {delivered} \cup
       (IF indication.agent \in agentIp_socket
          THEN {delivered \cup {<<indication.agent, indication.gnb>>}}
          ELSE {})
  /\ indication' = Idle
  /\ UNCHANGED <<maps, opened, chunk, it, gnblisted, process, seen, controls,
                 due, reporting, terminated>>

-----------------------------------------------------------------------------
(* The thread of agent a: handle_rx_msg_agent.                             *)

Recv(a) ==
  /\ Alive
  /\ a \in agentIp_socket \ chunk
  /\ chunk' = chunk \cup {a}
  /\ UNCHANGED <<maps, opened, indication, it, gnblisted, process, history>>

\* The thread is through with the data, whatever became of it.
Handled(a) ==
  /\ Alive
  /\ a \in chunk
  /\ chunk' = chunk \ {a}
  /\ UNCHANGED <<maps, opened, indication, it, gnblisted, process, seen,
                 delivered, due, reporting, terminated>>

\* xapp_rmr_send gets a control request only for the data of an agent with a
\* gNB, and with a list of gNBs.
PassedOn(a) == Bound(a) /\ gnblisted

ControlSent(a) ==
  /\ Handled(a)
  /\ PassedOn(a)
  /\ controls' = controls \cup {<<a, agentIp_gnbId[a]>>}

\* The data is dropped; or xapp_rmr_send has used up its attempts, which is
\* logged: in both cases the control is gone.
ControlLost(a) ==
  /\ Handled(a)
  /\ UNCHANGED controls

SendControl(a) == ControlSent(a) \/ ControlLost(a)

-----------------------------------------------------------------------------
(* The external control thread: terminate_du_reporting.  `it` is NoAgent   *)
(* outside the loop, which signals the process when it ends.               *)

Signalled(next) == IF next = NoAgent THEN "signalled" ELSE process

TerminateMessage ==
  /\ Alive
  /\ it = NoAgent
  /\ it' = Begin(agentIp_socket)
  /\ process' = Signalled(it')
  /\ due' = {a \in agentIp_socket : Bound(a)}
  /\ reporting' = {d[2] : d \in delivered}
  /\ UNCHANGED <<maps, opened, indication, chunk, gnblisted, seen, delivered,
                 controls, terminated>>

\* Mutant: the iterator advances twice.
Following_Twice ==
  LET rest == {a \in agentIp_socket : a > it}
  IN  IF rest = {} THEN NoAgent ELSE Begin(rest \ {Min(rest)})

\* Mutant: the loop starts again.
Following_Restarts == Begin(agentIp_socket \ {it})

\* Mutant: the next agent is taken, its socket open or not.
Following_AnyAgent == IF it < Len(AgentList) THEN it + 1 ELSE NoAgent

\* ++it: the map may have grown since.
Following == Begin({a \in agentIp_socket : a > it})

\* The request is passed to xapp_rmr_send; nobody looks whether RMR took it.
TerminateOne ==
  /\ Alive
  /\ it # NoAgent
  /\ Bound(it)
  /\ terminated' = IF gnblisted THEN terminated \cup {agentIp_gnbId[it]}
                                ELSE terminated
  /\ it' = Following
  /\ process' = Signalled(it')
  /\ UNCHANGED <<maps, opened, indication, chunk, gnblisted, seen, delivered,
                 controls, due, reporting>>

\* An agent without a gNB: the end of agentIp_gnbId is dereferenced, which
\* reads the next global object as a string and kills the process.
TerminateUnbound ==
  /\ Alive
  /\ it # NoAgent
  /\ ~Bound(it)
  /\ process' = "crashed"
  /\ UNCHANGED <<maps, threads, gnblisted, history>>

-----------------------------------------------------------------------------

Main == \E connected \in BOOLEAN : Open(connected)
Receiver == (\E g \in Gnbs : Indication(g)) \/ send_socket_limited
AgentThread(a) == Recv(a) \/ SendControl(a)
ExternalThread == TerminateMessage \/ TerminateOne \/ TerminateUnbound

Next ==
  \/ Main \/ Receiver \/ ExternalThread
  \/ \E a \in Agents : AgentThread(a)

\* The external control thread runs: it calls only xapp_rmr_send, which returns
\* (SendReturns of RmrSender).  Nothing is assumed of the others: agents may
\* never connect or answer, and send to one that does not read may block.
Fairness == WF_vars(TerminateOne \/ TerminateUnbound)

Spec == Init /\ [][Next]_vars /\ Fairness

-----------------------------------------------------------------------------
(* Properties.                                                             *)

\* Two agents never control the same gNB.
OneAgentPerGnb ==
  \A a, b \in Agents : Bound(a) /\ agentIp_gnbId[a] = agentIp_gnbId[b] => a = b

\* Over the whole run the controls an agent causes go to one gNB, the one it
\* is bound to, which has sent an indication.
ControlsKeepGnb ==
  \A c \in controls : agentIp_gnbId[c[1]] = c[2] /\ c[2] \in seen

\* Once a gNB has an agent, no other agent gets its indications.
IndicationsKeepAgent ==
  [][\A d \in delivered' \ delivered :
       AgentsOf(d[2]) # {} => AgentsOf(d[2]) = {d[1]}]_vars

\* An agent gets an indication of a gNB that is not its own only when more
\* gNBs have reported than agents are connected.
Misrouted == indication.agent # NoAgent
             /\ agentIp_gnbId[indication.agent] # indication.gnb
SharedOnlyBeyondCapacity ==
  [][~Misrouted /\ Misrouted'
       => Cardinality(seen') > Cardinality(agentIp_socket)]_vars

\* The process is signalled only after every gNB that had an agent when the
\* request came was asked to stop.
SignalAfterRequests ==
  process = "signalled" /\ it = NoAgent /\ gnblisted
    => \A a \in due : agentIp_gnbId[a] \in terminated

\* A request to terminate ends in the signal or in the death of the process,
\* though agents connect while the loop runs.
TerminationEnds == it # NoAgent ~> process # "running"

\* xapp.cc: "terminate all DU reportings and shutdown xApp": when the process
\* is signalled, every gNB whose indications had reached an agent when the
\* request came has been asked to stop.
TerminatesAll ==
  process = "signalled" /\ it = NoAgent /\ gnblisted
    => reporting \subseteq terminated
=============================================================================
