------------------------- MODULE SubscriptionService -------------------------
(***************************************************************************)
(* What SubscriptionHandler promises the threads that call it, without its *)
(* tables, addresses, lock and condition variable:                         *)
(*   - at most one admitted call per gNB at any time;                      *)
(*   - a call is refused only when another call for its gNB came first;    *)
(*   - a request is sent at most once, by an admitted call;                *)
(*   - a call that was sent succeeds, and returns only once a response for *)
(*     its gNB was delivered or its time was over.                         *)
(***************************************************************************)
EXTENDS Naturals, Sequences

CONSTANTS Requesters, GnbList

Calls == UNION {{<<r, i>> : i \in DOMAIN GnbList[r]} : r \in Requesters}
Gnb(c) == GnbList[c[1]][c[2]]

VARIABLES turn,      \* the current (or last) call of each requester
          phase,     \* how far that call is
          outcome,   \* what it returned
          late,      \* whether its time is over
          sent,      \* the calls whose request was sent
          answered   \* the calls whose response was delivered

vars == <<turn, phase, outcome, late, sent, answered>>

Init ==
  /\ turn = [r \in Requesters |-> 0]
  /\ phase = [r \in Requesters |-> "idle"]
  /\ outcome = [r \in Requesters |-> "none"]
  /\ late = [r \in Requesters |-> FALSE]
  /\ sent = {}
  /\ answered = {}

Current(r) == <<r, turn[r]>>
Admitted(r) == phase[r] \in {"admitted", "sent"}

Move(r, from, to, res) ==
  /\ phase[r] = from
  /\ phase' = [phase EXCEPT ![r] = to]
  /\ outcome' = [outcome EXCEPT ![r] = res]

Begin(r) ==
  /\ turn[r] < Len(GnbList[r])
  /\ Move(r, "idle", "begun", "none")
  /\ turn' = [turn EXCEPT ![r] = @ + 1]
  /\ late' = [late EXCEPT ![r] = FALSE]
  /\ UNCHANGED <<sent, answered>>

Refuse(r) ==
  /\ Move(r, "begun", "idle", "SUBSCR_ERR_DUPLICATE")
  /\ \E c \in Calls \ {Current(r)} :
       c[2] <= turn[c[1]] /\ Gnb(c) = Gnb(Current(r))
  /\ UNCHANGED <<turn, late, sent, answered>>

Admit(r) ==
  /\ Move(r, "begun", "admitted", "none")
  /\ \A q \in Requesters \ {r} :
       Admitted(q) => Gnb(Current(q)) # Gnb(Current(r))
  /\ UNCHANGED <<turn, late, sent, answered>>

SendFails(r) ==
  /\ Move(r, "admitted", "idle", "SUBSCR_ERR_TX")
  /\ UNCHANGED <<turn, late, sent, answered>>

Send(r) ==
  /\ Current(r) \notin sent
  /\ Move(r, "admitted", "sent", "none")
  /\ sent' = sent \cup {Current(r)}
  /\ UNCHANGED <<turn, late, answered>>

Deliver(c) ==
  /\ c \in sent \ answered
  /\ answered' = answered \cup {c}
  /\ UNCHANGED <<turn, phase, outcome, late, sent>>

Lapse(r) ==
  /\ phase[r] = "sent"
  /\ late' = [late EXCEPT ![r] = TRUE]
  /\ UNCHANGED <<turn, phase, outcome, sent, answered>>

Succeed(r) ==
  /\ Move(r, "sent", "idle", "SUBSCR_SUCCESS")
  /\ late[r] \/ \E c \in answered : Gnb(c) = Gnb(Current(r))
  /\ UNCHANGED <<turn, late, sent, answered>>

Next ==
  \/ \E r \in Requesters :
       Begin(r) \/ Refuse(r) \/ Admit(r) \/ SendFails(r) \/ Send(r)
         \/ Lapse(r) \/ Succeed(r)
  \/ \E c \in Calls : Deliver(c)

Spec == Init /\ [][Next]_vars
=============================================================================
