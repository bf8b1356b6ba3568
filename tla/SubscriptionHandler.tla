------------------------- MODULE SubscriptionHandler -------------------------
(***************************************************************************)
(* The class SubscriptionHandler (xapp-mgmt/subs_mgmt.hpp, subs_mgmt.cc):  *)
(* threads that ask for E2 subscriptions and block for the answer, and the *)
(* RMR receiver thread that reports the responses.                         *)
(*                                                                         *)
(* A transaction identifier is a char*: the tables are keyed by the        *)
(* address, while the lookups compare the gNB names the addresses hold.    *)
(* A requester has one address, its meid buffer, identified here with the  *)
(* requester; a response brings an address of its own, the copy of the     *)
(* MEID that RMR allocates for it, identified with the call it answers.    *)
(*                                                                         *)
(* Each operation of an unordered_map is one step; the receiver takes no   *)
(* lock, so its check and its assignment are separate steps.               *)
(***************************************************************************)
EXTENDS Naturals, Sequences

CONSTANTS Requesters,   \* threads that call manage_subscription_request
          Gnbs,         \* the gNB names
          GnbList,      \* the gNBs each of them subscribes to, in order
          NoThread,     \* nobody holds _data_lock
          NoCall        \* the receiver handles no response

\* Call i of requester r is the i-th turn of the loop over its gNB list.
Calls == UNION {{<<r, i>> : i \in DOMAIN GnbList[r]} : r \in Requesters}
Gnb(c) == GnbList[c[1]][c[2]]

\* The addresses that can key the tables: the requesters' meid buffers and
\* the copy of the MEID made for the response to each call.
Key == Requesters \cup Calls

ASSUME GnbListAssumption == GnbList \in [Requesters -> Seq(Gnbs)]
ASSUME AddressAssumption == Requesters \cap Calls = {}
ASSUME SentinelAssumption == NoThread \notin Requesters /\ NoCall \notin Calls

Status == {"request_pending", "request_success", "request_failed",
           "delete_request_pending", "delete_request_success",
           "delete_request_failed", "request_duplicate"}
Result == {"none", "SUBSCR_SUCCESS", "SUBSCR_ERR_TX", "SUBSCR_ERR_FAIL",
           "SUBSCR_ERR_UNKNOWN", "SUBSCR_ERR_DUPLICATE"}

VARIABLES
  status_table,  \* the request table; "absent" where there is no entry
  trans_table,   \* the addresses with a transmitter entry
  lock,          \* owner of _data_lock
  pc,            \* where each requester is
  idx,           \* its current (or last) call
  result,        \* what that call returned, "none" while undecided
  expired,       \* its time_out has elapsed since the transmission
  rpc,           \* where the receiver is in manage_subscription_response
  rcv,           \* the call whose response it handles
  exchange       \* what happened to each call outside the handler

vars == <<status_table, trans_table, lock, pc, idx, result, expired,
          rpc, rcv, exchange>>
receiverVars == <<rpc, rcv>>

TypeOK ==
  /\ status_table \in [Key -> Status \cup {"absent"}]
  /\ trans_table \subseteq Key
  /\ lock \in Requesters \cup {NoThread}
  /\ pc \in [Requesters -> {"idle", "add", "insert", "relock", "tx", "loop",
                            "waiting", "woken", "check", "finish"}]
  /\ idx \in [Requesters -> Nat]
  /\ \A r \in Requesters : idx[r] <= Len(GnbList[r])
  /\ result \in [Requesters -> Result]
  /\ expired \in [Requesters -> BOOLEAN]
  /\ rpc \in {"idle", "lookup", "recheck", "assign", "notify"}
  /\ rcv \in Calls \cup {NoCall}
  /\ exchange \in [Calls -> {"none", "asked", "resp", "fail", "read", "dropped"}]

Init ==
  /\ status_table = [k \in Key |-> "absent"]
  /\ trans_table = {}
  /\ lock = NoThread
  /\ pc = [r \in Requesters |-> "idle"]
  /\ idx = [r \in Requesters |-> 0]
  /\ result = [r \in Requesters |-> "none"]
  /\ expired = [r \in Requesters |-> FALSE]
  /\ rpc = "idle"
  /\ rcv = NoCall
  /\ exchange = [c \in Calls |-> "none"]

-----------------------------------------------------------------------------
(* Lookups: by the name an address holds now.                              *)

CurrentCall(r) == <<r, idx[r]>>
Name(k) == IF k \in Requesters THEN Gnb(CurrentCall(k)) ELSE Gnb(k)

Matches(name) == {k \in Key : status_table[k] # "absent" /\ Name(k) = name}
transaction_present(name) == Matches(name) # {}

\* What get_request_status can return: the status of the first match in hash
\* order, which is any of them, or -1.  find_transaction takes the table by
\* value and returns an iterator into that copy, which is destroyed when it
\* returns: the status is read from a freed node, whatever other threads do.
\* That is undefined; in the build (-O2, glibc) freeing overwrites the first
\* 16 octets of a node, the status lies behind them, and the thread allocates
\* nothing before it reads: the status is that of the table when it was copied.
get_request_status(name) ==
  IF transaction_present(name) THEN {status_table[k] : k \in Matches(name)}
                               ELSE {"not_found"}

\* Mutant: two branches of the wait loop are swapped.
ResultOf_Swapped(status) ==
  CASE status = "request_success"   -> "SUBSCR_ERR_FAIL"
    [] status = "request_failed"    -> "SUBSCR_SUCCESS"
    [] status = "request_duplicate" -> "SUBSCR_ERR_DUPLICATE"
    [] OTHER                        -> "SUBSCR_ERR_UNKNOWN"

\* The code returned for a status other than pending.
ResultOf(status) ==
  CASE status = "request_success"   -> "SUBSCR_SUCCESS"
    [] status = "request_failed"    -> "SUBSCR_ERR_FAIL"
    [] status = "request_duplicate" -> "SUBSCR_ERR_DUPLICATE"
    [] OTHER                        -> "SUBSCR_ERR_UNKNOWN"

-----------------------------------------------------------------------------
(* A requester.  It holds _data_lock at insert, tx, loop, check, finish.   *)

Acquire(r) == lock = NoThread /\ lock' = r
Release(r) == lock = r /\ lock' = NoThread
Goto(r, from, to) == pc[r] = from /\ pc' = [pc EXCEPT ![r] = to]
Return(r, res) == result' = [result EXCEPT ![r] = res]

\* Mutant: the loop over the list runs once too often.
Subscribe_OffByOne(r) ==
  /\ Goto(r, "idle", "add")
  /\ idx[r] <= Len(GnbList[r])
  /\ idx' = [idx EXCEPT ![r] = @ + 1]
  /\ Return(r, "none")
  /\ expired' = [expired EXCEPT ![r] = FALSE]
  /\ UNCHANGED <<status_table, trans_table, lock, receiverVars, exchange>>

\* startup_subscribe_requests copies the next gNB name to meid and calls.
Subscribe(r) ==
  /\ Goto(r, "idle", "add")
  /\ idx[r] < Len(GnbList[r])
  /\ idx' = [idx EXCEPT ![r] = @ + 1]
  /\ Return(r, "none")
  /\ expired' = [expired EXCEPT ![r] = FALSE]
  /\ UNCHANGED <<status_table, trans_table, lock, receiverVars, exchange>>

\* add_request_entry refuses a name that is in the table ...
AddRefused(r) ==
  /\ Goto(r, "add", "idle")
  /\ lock = NoThread
  /\ transaction_present(Name(r))
  /\ Return(r, "SUBSCR_ERR_DUPLICATE")
  /\ UNCHANGED <<status_table, trans_table, lock, idx, expired, receiverVars,
                 exchange>>

\* Mutant: the lookup compares addresses, as status_table.find(id) did.
AddLookup_ByAddress(r) ==
  /\ Goto(r, "add", "insert")
  /\ Acquire(r)
  /\ status_table[r] = "absent"
  /\ UNCHANGED <<status_table, trans_table, idx, result, expired, receiverVars,
                 exchange>>

\* ... and otherwise, still under the lock, inserts a pending entry.
AddLookup(r) ==
  /\ Goto(r, "add", "insert")
  /\ Acquire(r)
  /\ ~transaction_present(Name(r))
  /\ UNCHANGED <<status_table, trans_table, idx, result, expired, receiverVars,
                 exchange>>

AddInsert(r) ==
  /\ Goto(r, "insert", "relock")
  /\ Release(r)
  /\ status_table' = [status_table EXCEPT ![r] = "request_pending"]
  /\ UNCHANGED <<trans_table, idx, result, expired, receiverVars, exchange>>

LockToSend(r) ==
  /\ Goto(r, "relock", "tx")
  /\ Acquire(r)
  /\ UNCHANGED <<status_table, trans_table, idx, result, expired, receiverVars,
                 exchange>>

\* delete_request_entry erases by address, from both tables.
delete_request_entry(r) ==
  /\ status_table' = [status_table EXCEPT ![r] = "absent"]
  /\ trans_table' = trans_table \ {r}

\* add_transmitter_entry, again by name.
add_transmitter_entry(r) ==
  trans_table' = IF \E k \in trans_table : Name(k) = Name(r)
                   THEN trans_table ELSE trans_table \cup {r}

\* tx() sends the request; the clock of the time-out starts.
Transmit(r) ==
  /\ Goto(r, "tx", "loop")
  /\ exchange' = [exchange EXCEPT ![CurrentCall(r)] = "asked"]
  /\ add_transmitter_entry(r)
  /\ UNCHANGED <<status_table, lock, idx, result, expired, receiverVars>>

\* Mutant: a failed transmission returns without clearing its entry.
TransmitFails_KeepsEntry(r) ==
  /\ Goto(r, "tx", "idle")
  /\ Return(r, "SUBSCR_ERR_TX")
  /\ Release(r)
  /\ UNCHANGED <<status_table, trans_table, idx, expired, receiverVars, exchange>>

TransmitFails(r) ==
  /\ Goto(r, "tx", "idle")
  /\ delete_request_entry(r)
  /\ Return(r, "SUBSCR_ERR_TX")
  /\ Release(r)
  /\ UNCHANGED <<idx, expired, receiverVars, exchange>>

\* Mutant: the thread sleeps with the lock held.
WaitFor_KeepsLock(r) ==
  /\ Goto(r, "loop", "waiting")
  /\ UNCHANGED <<status_table, trans_table, lock, idx, result, expired,
                 receiverVars, exchange>>

\* wait_for releases the lock and blocks, in one step.
WaitFor(r) ==
  /\ Goto(r, "loop", "waiting")
  /\ Release(r)
  /\ UNCHANGED <<status_table, trans_table, idx, result, expired, receiverVars,
                 exchange>>

\* The wait ends without a notification: it timed out, or spuriously.
WakeUp(r) ==
  /\ Goto(r, "waiting", "woken")
  /\ UNCHANGED <<status_table, trans_table, lock, idx, result, expired,
                 receiverVars, exchange>>

Relock(r) ==
  /\ Goto(r, "woken", "check")
  /\ Acquire(r)
  /\ UNCHANGED <<status_table, trans_table, idx, result, expired, receiverVars,
                 exchange>>

\* Mutant: every wake-up counts as the time-out.
CheckPending_AnyWakeUp(r) ==
  /\ Goto(r, "check", "finish")
  /\ "request_pending" \in get_request_status(Name(r))
  /\ Return(r, "SUBSCR_SUCCESS")
  /\ UNCHANGED <<status_table, trans_table, lock, idx, expired, receiverVars,
                 exchange>>

\* Mutant: the elapsed time is never looked at.
CheckPending_NoTimeOut(r) ==
  /\ Goto(r, "check", "loop")
  /\ "request_pending" \in get_request_status(Name(r))
  /\ UNCHANGED <<status_table, trans_table, lock, idx, result, expired,
                 receiverVars, exchange>>

\* The status is pending: give up after the time-out, wait again before it.
CheckPending(r) ==
  /\ pc[r] = "check"
  /\ "request_pending" \in get_request_status(Name(r))
  /\ IF expired[r] THEN Goto(r, "check", "finish") /\ Return(r, "SUBSCR_SUCCESS")
                   ELSE Goto(r, "check", "loop") /\ UNCHANGED result
  /\ UNCHANGED <<status_table, trans_table, lock, idx, expired, receiverVars,
                 exchange>>

\* Any other status ends the wait.
CheckDone(r) ==
  /\ Goto(r, "check", "finish")
  /\ \E s \in get_request_status(Name(r)) \ {"request_pending"} :
       Return(r, ResultOf(s))
  /\ UNCHANGED <<status_table, trans_table, lock, idx, expired, receiverVars,
                 exchange>>

\* delete_request_entry, unlock, return.
Finish(r) ==
  /\ Goto(r, "finish", "idle")
  /\ delete_request_entry(r)
  /\ Release(r)
  /\ UNCHANGED <<idx, result, expired, receiverVars, exchange>>

\* The clock passes start + _time_out.
Expire(r) ==
  /\ pc[r] \in {"loop", "waiting", "woken", "check"}
  /\ ~expired[r]
  /\ expired' = [expired EXCEPT ![r] = TRUE]
  /\ UNCHANGED <<status_table, trans_table, lock, pc, idx, result,
                 receiverVars, exchange>>

Requester(r) ==
  \/ Subscribe(r) \/ AddRefused(r) \/ AddLookup(r) \/ AddInsert(r)
  \/ LockToSend(r) \/ Transmit(r) \/ TransmitFails(r) \/ WaitFor(r)
  \/ WakeUp(r) \/ Relock(r) \/ CheckPending(r) \/ CheckDone(r) \/ Finish(r)

-----------------------------------------------------------------------------
(* The RMR receiver thread, in manage_subscription_response.  No lock.     *)

requesterVars == <<trans_table, lock, idx, result, expired>>

ReceiverGoto(from, to) == rpc = from /\ rpc' = to

Receive(c) ==
  /\ ReceiverGoto("idle", "lookup")
  /\ exchange[c] = "resp"
  /\ exchange' = [exchange EXCEPT ![c] = "read"]
  /\ rcv' = c
  /\ UNCHANGED <<status_table, pc, requesterVars>>

\* Mutant: a failure message is handled as a response.
ReceiveFailure_AsResponse(c) ==
  /\ ReceiverGoto("idle", "lookup")
  /\ exchange[c] = "fail"
  /\ exchange' = [exchange EXCEPT ![c] = "dropped"]
  /\ rcv' = c
  /\ UNCHANGED <<status_table, pc, requesterVars>>

\* Only RIC_SUB_RESP is dispatched to the handler; a failure message meets
\* the default branch and is logged.
ReceiveFailure(c) ==
  /\ rpc = "idle"
  /\ exchange[c] = "fail"
  /\ exchange' = [exchange EXCEPT ![c] = "dropped"]
  /\ UNCHANGED <<status_table, pc, requesterVars, receiverVars>>

is_request_entry ==
  /\ rpc = "lookup"
  /\ IF transaction_present(Gnb(rcv))
       THEN rpc' = "recheck" /\ UNCHANGED rcv
       ELSE rpc' = "idle" /\ rcv' = NoCall
  /\ UNCHANGED <<status_table, pc, requesterVars, exchange>>

\* set_request_status checks again ...
SetLookup ==
  /\ rpc = "recheck"
  /\ rpc' = IF transaction_present(Gnb(rcv)) THEN "assign" ELSE "notify"
  /\ UNCHANGED <<status_table, pc, requesterVars, rcv, exchange>>

\* ... and assigns under the response's own address.
SetAssign ==
  /\ ReceiverGoto("assign", "notify")
  /\ status_table' = [status_table EXCEPT ![rcv] = "request_success"]
  /\ UNCHANGED <<pc, requesterVars, rcv, exchange>>

NotifyAll ==
  /\ ReceiverGoto("notify", "idle")
  /\ rcv' = NoCall
  /\ pc' = [r \in Requesters |-> IF pc[r] = "waiting" THEN "woken" ELSE pc[r]]
  /\ UNCHANGED <<status_table, requesterVars, exchange>>

Receiver ==
  \/ \E c \in Calls : Receive(c) \/ ReceiveFailure(c)
  \/ is_request_entry \/ SetLookup \/ SetAssign \/ NotifyAll

-----------------------------------------------------------------------------
(* The subscription manager on the other side: it answers a request once,  *)
(* at any time or never.                                                   *)

Answer(c, kind) ==
  /\ exchange[c] = "asked"
  /\ exchange' = [exchange EXCEPT ![c] = kind]
  /\ UNCHANGED <<status_table, pc, requesterVars, receiverVars>>

\* When every subscription has been tried, main sleeps for ever.
MainSleeps ==
  /\ \A r \in Requesters : pc[r] = "idle" /\ idx[r] = Len(GnbList[r])
  /\ UNCHANGED vars

Next ==
  \/ \E r \in Requesters : Requester(r) \/ Expire(r)
  \/ Receiver
  \/ \E c \in Calls, kind \in {"resp", "fail"} : Answer(c, kind)
  \/ MainSleeps

\* The threads are scheduled and the clock runs; nobody has to answer.
Fairness ==
  /\ \A r \in Requesters : WF_vars(Requester(r)) /\ WF_vars(Expire(r))
  /\ WF_vars(Receiver)

Spec == Init /\ [][Next]_vars /\ Fairness

-----------------------------------------------------------------------------
(* Properties.                                                             *)

\* The requester's entry is in the table.
InCall(r) == pc[r] \in {"relock", "tx", "loop", "waiting", "woken", "check",
                        "finish"}
\* Its request has been sent.
Sent(r) == pc[r] \in {"loop", "waiting", "woken", "check", "finish"}

\* Two threads are never subscribing to the same gNB at once: the lookup of
\* add_request_entry and its insertion are one critical section, and it
\* compares names, not addresses.
NoTwoCallsPerGnb ==
  \A r, q \in Requesters :
    r # q /\ InCall(r) /\ InCall(q) => Name(r) # Name(q)

\* A requester's own entries last exactly as long as its call, on every
\* return path, and no response ever touches them: the response is recorded
\* under another address.
OwnEntryExact ==
  /\ \A r \in Requesters :
       status_table[r] = IF InCall(r) THEN "request_pending" ELSE "absent"
  /\ trans_table = {r \in Requesters : Sent(r)}

\* An entry under a response's address records the success of a call whose
\* request was sent and whose response was delivered, never of one that was
\* only asked for or that failed.
ResponseEntryHonest ==
  \A c \in Calls :
    status_table[c] # "absent" =>
      /\ status_table[c] = "request_success"
      /\ exchange[c] = "read"
      /\ c[2] <= idx[c[1]]

\* A call that returns success before its time-out was answered: a response
\* naming its gNB was delivered (to it or to an earlier call).
EarlySuccessIsAnswered ==
  \A r \in Requesters :
    pc[r] = "finish" /\ result[r] = "SUBSCR_SUCCESS" /\ ~expired[r] =>
      \E c \in Calls : Gnb(c) = Name(r) /\ exchange[c] = "read"

\* When every gNB is subscribed to once, as startup_subscribe_requests does
\* with the RNIB list, a call that succeeds early got its own response and
\* no call is refused as a duplicate.
OwnResponse ==
  \A r \in Requesters :
    /\ result[r] # "SUBSCR_ERR_DUPLICATE"
    /\ pc[r] = "finish" /\ ~expired[r] => exchange[CurrentCall(r)] = "read"

\* Every call returns: a response, its loss, its refusal and a notification
\* that comes between the transmission and the wait all end in a return.
CallReturns ==
  \A r \in Requesters : pc[r] = "add" ~> pc[r] = "idle"

\* The handler implements SubscriptionService.
PhaseAt ==
  [idle |-> "idle", add |-> "begun", insert |-> "begun",
   relock |-> "admitted", tx |-> "admitted", loop |-> "sent",
   waiting |-> "sent", woken |-> "sent", check |-> "sent", finish |-> "sent"]
Phase(r) == PhaseAt[pc[r]]

Service == INSTANCE SubscriptionService WITH
  turn <- idx,
  phase <- [r \in Requesters |-> Phase(r)],
  outcome <- [r \in Requesters |-> IF pc[r] = "finish" THEN "none"
                                                       ELSE result[r]],
  late <- expired,
  sent <- {c \in Calls : exchange[c] # "none"},
  answered <- {c \in Calls : exchange[c] = "read"}

ImplementsService == Service!Spec

-----------------------------------------------------------------------------
(* The inductive invariant behind them.                                    *)

\* The lock is held exactly in the critical sections of the code.
LockInv ==
  \A r \in Requesters :
    pc[r] \in {"insert", "tx", "loop", "check", "finish"} <=> lock = r

\* A call under way has a number; before its transmission nobody has heard of
\* it, nor of any later one.
CallInv ==
  /\ \A r \in Requesters : pc[r] # "idle" => idx[r] >= 1
  /\ \A r \in Requesters :
       pc[r] \in {"add", "insert", "relock", "tx"} =>
         exchange[CurrentCall(r)] = "none"
  /\ \A c \in Calls : exchange[c] # "none" => c[2] <= idx[c[1]]

\* Between its lookup and its insertion a call is alone with its name.
InsertInv ==
  \A r, q \in Requesters :
    pc[r] = "insert" /\ InCall(q) => Name(q) # Name(r)

\* A call decides its result in the check, and only to succeed: the other
\* branches of the wait loop are never taken.
ResultInv ==
  \A r \in Requesters :
    /\ pc[r] \notin {"idle", "finish"} => result[r] = "none"
    /\ pc[r] = "finish" =>
         /\ result[r] = "SUBSCR_SUCCESS"
         /\ expired[r] \/ \E c \in Calls : /\ Gnb(c) = Name(r)
                                         /\ exchange[c] = "read"

ReceiverInv == rpc # "idle" => rcv \in Calls /\ exchange[rcv] = "read"

\* The safety properties and what keeps them true; it is inductive.
IInv ==
  /\ TypeOK
  /\ LockInv
  /\ CallInv
  /\ OwnEntryExact
  /\ NoTwoCallsPerGnb
  /\ InsertInv
  /\ ResponseEntryHonest
  /\ ResultInv
  /\ ReceiverInv

-----------------------------------------------------------------------------
(* What a comment of the code says of it.                                 *)

\* subs_mgmt.cc, set_request_status: "change status of a request only if it
\* exists": the receiver changes entries and creates none.
StatusChangesOnlyExisting ==
  [][SetAssign => status_table[rcv] # "absent"]_vars
=============================================================================
