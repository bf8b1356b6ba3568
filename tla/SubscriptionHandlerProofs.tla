---------------------- MODULE SubscriptionHandlerProofs ----------------------
(***************************************************************************)
(* Proofs about SubscriptionHandler, for any set of requesters and any     *)
(* lists of gNBs: its type, its safety invariants through the inductive    *)
(* invariant IInv, and that it implements SubscriptionService.             *)
(***************************************************************************)
EXTENDS SubscriptionHandler, TLAPS

\* A call is a pair of a requester and a position of its list.
LEMMA CallIsPair ==
  /\ \A c \in Calls : /\ c = <<c[1], c[2]>>
                      /\ c[1] \in Requesters
                      /\ c[2] \in 1 .. Len(GnbList[c[1]])
  /\ \A r \in Requesters : \A i \in 1 .. Len(GnbList[r]) : <<r, i>> \in Calls
<1>1. \A r \in Requesters : DOMAIN GnbList[r] = 1 .. Len(GnbList[r])
  BY GnbListAssumption
<1>2. QED
  BY <1>1 DEF Calls

\* Type correctness: no step stores a value outside the declared types; in
\* particular every lookup that returns a status returns one of the enum.
LEMMA TypeStep == TypeOK /\ [Next]_vars => TypeOK'
<1> SUFFICES ASSUME TypeOK, [Next]_vars PROVE TypeOK'
  OBVIOUS
<1> USE DEF TypeOK, receiverVars, requesterVars, Goto, Return, Key
<1>1. ASSUME NEW r \in Requesters, Subscribe(r) PROVE TypeOK'
  <2>1. Len(GnbList[r]) \in Nat
    BY GnbListAssumption
  <2>2. QED
    BY <1>1, <2>1 DEF Subscribe, Result
<1>2. ASSUME NEW r \in Requesters, AddRefused(r) PROVE TypeOK'
  BY <1>2 DEF AddRefused, Result
<1>3. ASSUME NEW r \in Requesters, AddLookup(r) PROVE TypeOK'
  BY <1>3 DEF AddLookup, Acquire
<1>4. ASSUME NEW r \in Requesters, AddInsert(r) PROVE TypeOK'
  BY <1>4 DEF AddInsert, Release, Status
<1>5. ASSUME NEW r \in Requesters, LockToSend(r) PROVE TypeOK'
  BY <1>5 DEF LockToSend, Acquire
<1>6. ASSUME NEW r \in Requesters, Transmit(r) PROVE TypeOK'
  BY <1>6 DEF Transmit, add_transmitter_entry
<1>7. ASSUME NEW r \in Requesters, TransmitFails(r) PROVE TypeOK'
  BY <1>7 DEF TransmitFails, delete_request_entry, Release, Result
<1>8. ASSUME NEW r \in Requesters, WaitFor(r) PROVE TypeOK'
  BY <1>8 DEF WaitFor, Release
<1>9. ASSUME NEW r \in Requesters, WakeUp(r) PROVE TypeOK'
  BY <1>9 DEF WakeUp
<1>10. ASSUME NEW r \in Requesters, Relock(r) PROVE TypeOK'
  BY <1>10 DEF Relock, Acquire
<1>11. ASSUME NEW r \in Requesters, CheckPending(r) PROVE TypeOK'
  BY <1>11 DEF CheckPending, Result
<1>12. ASSUME NEW r \in Requesters, CheckDone(r) PROVE TypeOK'
  <2>1. \A s : ResultOf(s) \in Result
    BY DEF ResultOf, Result
  <2>2. QED
    BY <1>12, <2>1 DEF CheckDone
<1>13. ASSUME NEW r \in Requesters, Finish(r) PROVE TypeOK'
  BY <1>13 DEF Finish, delete_request_entry, Release
<1>14. ASSUME NEW r \in Requesters, Expire(r) PROVE TypeOK'
  BY <1>14 DEF Expire
<1>15. ASSUME NEW c \in Calls, Receive(c) PROVE TypeOK'
  BY <1>15 DEF Receive, ReceiverGoto
<1>16. ASSUME NEW c \in Calls, ReceiveFailure(c) PROVE TypeOK'
  BY <1>16 DEF ReceiveFailure
<1>17. CASE is_request_entry
  BY <1>17 DEF is_request_entry
<1>18. CASE SetLookup
  BY <1>18 DEF SetLookup
<1>19. CASE SetAssign
  BY <1>19 DEF SetAssign, ReceiverGoto, Status
<1>20. CASE NotifyAll
  BY <1>20 DEF NotifyAll, ReceiverGoto
<1>21. ASSUME NEW c \in Calls, NEW kind \in {"resp", "fail"}, Answer(c, kind)
       PROVE TypeOK'
  BY <1>21 DEF Answer
<1>22. CASE UNCHANGED vars
  BY <1>22 DEF vars
<1>23. QED
  BY <1>1, <1>2, <1>3, <1>4, <1>5, <1>6, <1>7, <1>8, <1>9, <1>10, <1>11,
     <1>12, <1>13, <1>14, <1>15, <1>16, <1>17, <1>18, <1>19, <1>20, <1>21,
     <1>22 DEF Next, Requester, Receiver, MainSleeps

THEOREM TypeCorrect == Spec => []TypeOK
<1>1. Init => TypeOK
  <2>1. \A r \in Requesters : Len(GnbList[r]) \in Nat
    BY GnbListAssumption
  <2>2. QED
    BY <2>1 DEF Init, TypeOK, Result
<1>2. QED
  BY <1>1, TypeStep, PTL DEF Spec

-----------------------------------------------------------------------------
(* The inductive invariant.                                                *)

\* What the name of an address depends on.
LEMMA Names ==
  /\ \A r \in Requesters : Name(r) = GnbList[r][idx[r]]
  /\ \A c \in Calls : Name(c) = Gnb(c)
  /\ \A r \in Requesters : Gnb(CurrentCall(r)) = Name(r)
BY AddressAssumption DEF Name, Gnb, CurrentCall

\* The lock is held exactly in the critical sections.
LEMMA LockStep == TypeOK /\ LockInv /\ [Next]_vars => LockInv'
<1> SUFFICES ASSUME TypeOK, LockInv, [Next]_vars PROVE LockInv'
  OBVIOUS
<1> USE SentinelAssumption
        DEF TypeOK, LockInv, Goto, Acquire, Release, requesterVars
<1>1. ASSUME NEW r \in Requesters, Requester(r) PROVE LockInv'
  <2>1. CASE Subscribe(r) \/ AddRefused(r) \/ AddLookup(r)
    BY <2>1 DEF Subscribe, AddRefused, AddLookup
  <2>2. CASE AddInsert(r) \/ LockToSend(r) \/ Transmit(r) \/ TransmitFails(r)
    BY <2>2 DEF AddInsert, LockToSend, Transmit, TransmitFails
  <2>3. CASE WaitFor(r) \/ WakeUp(r) \/ Relock(r)
    BY <2>3 DEF WaitFor, WakeUp, Relock
  <2>4. CASE CheckPending(r) \/ CheckDone(r) \/ Finish(r)
    BY <2>4 DEF CheckPending, CheckDone, Finish
  <2>5. QED
    BY <1>1, <2>1, <2>2, <2>3, <2>4 DEF Requester
<1>2. ASSUME NEW r \in Requesters, Expire(r) PROVE LockInv'
  BY <1>2 DEF Expire
<1>3. CASE Receiver
  BY <1>3 DEF Receiver, Receive, ReceiveFailure, is_request_entry, SetLookup,
              SetAssign, NotifyAll
<1>4. ASSUME NEW c \in Calls, NEW kind \in {"resp", "fail"}, Answer(c, kind)
      PROVE LockInv'
  BY <1>4 DEF Answer
<1>5. CASE UNCHANGED vars
  BY <1>5 DEF vars
<1>6. QED
  BY <1>1, <1>2, <1>3, <1>4, <1>5 DEF Next, MainSleeps

LEMMA CurrentIsCall ==
  ASSUME TypeOK, CallInv
  PROVE  \A r \in Requesters : pc[r] # "idle" => CurrentCall(r) \in Calls
<1>1. \A r \in Requesters : Len(GnbList[r]) \in Nat
  BY GnbListAssumption
<1>2. \A r \in Requesters : pc[r] # "idle" => idx[r] \in 1 .. Len(GnbList[r])
  BY <1>1 DEF TypeOK, CallInv
<1>3. QED
  BY <1>2, CallIsPair DEF CurrentCall

\* A call is numbered when it begins, and silent until it transmits.
LEMMA CallStep == TypeOK /\ CallInv /\ [Next]_vars => CallInv'
<1> SUFFICES ASSUME TypeOK, CallInv, [Next]_vars PROVE CallInv'
  OBVIOUS
<1> USE DEF TypeOK, CallInv, Goto, requesterVars, CurrentCall
<1>1. ASSUME NEW r \in Requesters, Requester(r) PROVE CallInv'
  <2>1. CASE Subscribe(r)
    <3>1. idx[r] + 1 \in 1 .. Len(GnbList[r])
      BY <2>1, GnbListAssumption DEF Subscribe
    <3>2. <<r, idx[r] + 1>> \in Calls
      BY <3>1, CallIsPair
    <3>3. exchange[<<r, idx[r] + 1>>] = "none"
      BY <3>2
    <3>4. QED
      BY <2>1, <3>3, CallIsPair DEF Subscribe
  <2>2. CASE AddRefused(r) \/ AddLookup(r) \/ AddInsert(r) \/ LockToSend(r)
               \/ TransmitFails(r)
    BY <2>2 DEF AddRefused, AddLookup, AddInsert, LockToSend, TransmitFails
  <2>3. CASE Transmit(r)
    BY <2>3, CallIsPair DEF Transmit
  <2>4. CASE WaitFor(r) \/ WakeUp(r) \/ Relock(r)
    BY <2>4 DEF WaitFor, WakeUp, Relock
  <2>5. CASE CheckPending(r) \/ CheckDone(r) \/ Finish(r)
    BY <2>5 DEF CheckPending, CheckDone, Finish
  <2>6. QED
    BY <1>1, <2>1, <2>2, <2>3, <2>4, <2>5 DEF Requester
<1>2. ASSUME NEW r \in Requesters, Expire(r) PROVE CallInv'
  BY <1>2 DEF Expire
<1>3. CASE Receiver
  <2>1. ASSUME NEW c \in Calls, Receive(c) \/ ReceiveFailure(c)
        PROVE CallInv'
    <3>1. /\ exchange[c] # "none"
          /\ exchange' \in {[exchange EXCEPT ![c] = "read"],
                            [exchange EXCEPT ![c] = "dropped"]}
          /\ UNCHANGED <<pc, idx>>
      BY <2>1 DEF Receive, ReceiveFailure, receiverVars
    <3>2. \A r \in Requesters :
            pc[r] # "idle" /\ exchange[CurrentCall(r)] = "none"
              => exchange'[CurrentCall(r)] = "none"
      BY <3>1, CurrentIsCall
    <3>3. QED
      BY <3>1, <3>2
  <2>2. CASE is_request_entry \/ SetLookup \/ SetAssign \/ NotifyAll
    BY <2>2 DEF is_request_entry, SetLookup, SetAssign, NotifyAll
  <2>3. QED
    BY <1>3, <2>1, <2>2 DEF Receiver
<1>4. ASSUME NEW c \in Calls, NEW kind \in {"resp", "fail"}, Answer(c, kind)
      PROVE CallInv'
  BY <1>4 DEF Answer
<1>5. CASE UNCHANGED vars
  BY <1>5 DEF vars
<1>6. QED
  BY <1>1, <1>2, <1>3, <1>4, <1>5 DEF Next, MainSleeps

\* A response is handled after it was delivered, and its entry records that.
LEMMA ResponseStep ==
  TypeOK /\ CallInv /\ ReceiverInv /\ ResponseEntryHonest /\ [Next]_vars
    => ReceiverInv' /\ ResponseEntryHonest'
<1> SUFFICES ASSUME TypeOK, CallInv, ReceiverInv, ResponseEntryHonest,
                    [Next]_vars
             PROVE ReceiverInv' /\ ResponseEntryHonest'
  OBVIOUS
<1> USE AddressAssumption
        DEF TypeOK, CallInv, ReceiverInv, ResponseEntryHonest, Goto,
            requesterVars, receiverVars, CurrentCall, Key
<1>1. ASSUME NEW r \in Requesters, Requester(r)
      PROVE ReceiverInv' /\ ResponseEntryHonest'
  <2>1. CASE Subscribe(r)
    <3>1. \A c \in Calls : idx[c[1]] <= idx'[c[1]]
      BY <2>1, CallIsPair DEF Subscribe
    <3>2. \A c \in Calls : c[2] \in Nat /\ idx[c[1]] \in Nat /\ idx'[c[1]] \in Nat
      BY <2>1, CallIsPair DEF Subscribe
    <3>3. UNCHANGED <<status_table, exchange, rpc, rcv>>
      BY <2>1 DEF Subscribe
    <3>4. QED
      BY <3>1, <3>2, <3>3
  <2>0. CASE AddRefused(r) \/ AddLookup(r)
    BY <2>0 DEF AddRefused, AddLookup
  <2>2. CASE AddInsert(r) \/ LockToSend(r) \/ TransmitFails(r)
    BY <2>2 DEF AddInsert, LockToSend, TransmitFails, delete_request_entry
  <2>3. CASE Transmit(r)
    BY <2>3 DEF Transmit
  <2>4. CASE WaitFor(r) \/ WakeUp(r) \/ Relock(r)
    BY <2>4 DEF WaitFor, WakeUp, Relock
  <2>5. CASE CheckPending(r) \/ CheckDone(r) \/ Finish(r)
    BY <2>5 DEF CheckPending, CheckDone, Finish, delete_request_entry
  <2>6. QED
    BY <1>1, <2>0, <2>1, <2>2, <2>3, <2>4, <2>5 DEF Requester
<1>2. ASSUME NEW r \in Requesters, Expire(r)
      PROVE ReceiverInv' /\ ResponseEntryHonest'
  BY <1>2 DEF Expire
<1>3. CASE Receiver
  <2>1. CASE \E c \in Calls : Receive(c) \/ ReceiveFailure(c)
    BY <2>1 DEF Receive, ReceiveFailure, ReceiverGoto
  <2>2. CASE is_request_entry \/ SetLookup \/ NotifyAll
    BY <2>2 DEF is_request_entry, SetLookup, NotifyAll, ReceiverGoto
  <2>3. CASE SetAssign
    BY <2>3 DEF SetAssign, ReceiverGoto
  <2>4. QED
    BY <1>3, <2>1, <2>2, <2>3 DEF Receiver
<1>4. ASSUME NEW c \in Calls, NEW kind \in {"resp", "fail"}, Answer(c, kind)
      PROVE ReceiverInv' /\ ResponseEntryHonest'
  BY <1>4 DEF Answer
<1>5. CASE UNCHANGED vars
  BY <1>5 DEF vars
<1>6. QED
  BY <1>1, <1>2, <1>3, <1>4, <1>5 DEF Next, MainSleeps

\* The requester's own entries: made by its insertion and its transmission,
\* erased on both return paths, touched by no other thread.
LEMMA OwnEntryStep ==
  TypeOK /\ OwnEntryExact /\ NoTwoCallsPerGnb /\ ReceiverInv /\ [Next]_vars
    => OwnEntryExact'
<1> SUFFICES ASSUME TypeOK, OwnEntryExact, NoTwoCallsPerGnb, ReceiverInv,
                    [Next]_vars
             PROVE OwnEntryExact'
  OBVIOUS
<1> USE AddressAssumption
        DEF TypeOK, OwnEntryExact, InCall, Sent, Goto, requesterVars,
            receiverVars, Key
<1>1. ASSUME NEW r \in Requesters, Requester(r) PROVE OwnEntryExact'
  <2>1. CASE Subscribe(r) \/ AddRefused(r) \/ AddLookup(r)
    BY <2>1 DEF Subscribe, AddRefused, AddLookup
  <2>2. CASE AddInsert(r)
    BY <2>2 DEF AddInsert
  <2>3. CASE LockToSend(r) \/ WaitFor(r) \/ WakeUp(r) \/ Relock(r)
    BY <2>3 DEF LockToSend, WaitFor, WakeUp, Relock
  <2>4. CASE Transmit(r)
    <3>1. \A k \in trans_table : Name(k) # Name(r)
      BY <2>4 DEF Transmit, NoTwoCallsPerGnb
    <3>2. trans_table' = trans_table \cup {r}
      BY <2>4, <3>1 DEF Transmit, add_transmitter_entry
    <3>3. QED
      BY <2>4, <3>2 DEF Transmit
  <2>5. CASE TransmitFails(r)
    BY <2>5 DEF TransmitFails, delete_request_entry
  <2>6. CASE CheckPending(r) \/ CheckDone(r)
    BY <2>6 DEF CheckPending, CheckDone
  <2>7. CASE Finish(r)
    BY <2>7 DEF Finish, delete_request_entry
  <2>8. QED
    BY <1>1, <2>1, <2>2, <2>3, <2>4, <2>5, <2>6, <2>7 DEF Requester
<1>2. ASSUME NEW r \in Requesters, Expire(r) PROVE OwnEntryExact'
  BY <1>2 DEF Expire
<1>3. CASE Receiver
  <2>1. CASE \E c \in Calls : Receive(c) \/ ReceiveFailure(c)
    BY <2>1 DEF Receive, ReceiveFailure
  <2>2. CASE is_request_entry \/ SetLookup
    BY <2>2 DEF is_request_entry, SetLookup
  <2>3. CASE SetAssign
    BY <2>3 DEF SetAssign, ReceiverGoto, ReceiverInv
  <2>4. CASE NotifyAll
    BY <2>4 DEF NotifyAll
  <2>5. QED
    BY <1>3, <2>1, <2>2, <2>3, <2>4 DEF Receiver
<1>4. ASSUME NEW c \in Calls, NEW kind \in {"resp", "fail"}, Answer(c, kind)
      PROVE OwnEntryExact'
  BY <1>4 DEF Answer
<1>5. CASE UNCHANGED vars
  BY <1>5 DEF vars
<1>6. QED
  BY <1>1, <1>2, <1>3, <1>4, <1>5 DEF Next, MainSleeps

\* Names are alone in the table: the lookup sees every call under way, and
\* the lock keeps others out until the insertion.
LEMMA AloneStep ==
  TypeOK /\ LockInv /\ OwnEntryExact /\ NoTwoCallsPerGnb /\ InsertInv
    /\ [Next]_vars => NoTwoCallsPerGnb' /\ InsertInv'
<1> SUFFICES ASSUME TypeOK, LockInv, OwnEntryExact, NoTwoCallsPerGnb,
                    InsertInv, [Next]_vars
             PROVE NoTwoCallsPerGnb' /\ InsertInv'
  OBVIOUS
<1> USE DEF TypeOK, NoTwoCallsPerGnb, InsertInv, InCall, Goto, requesterVars
<1>0. \A r \in Requesters : idx'[r] = idx[r] => Name(r)' = Name(r)
  BY Names DEF Name, CurrentCall
\* What is left to the steps that begin no call and insert no entry.
<1>9. ASSUME idx' = idx,
             \A q \in Requesters : InCall(q)' => InCall(q),
             \A q \in Requesters : pc'[q] = "insert" => pc[q] = "insert"
      PROVE NoTwoCallsPerGnb' /\ InsertInv'
  <2>1. \A r \in Requesters : Name(r)' = Name(r)
    BY <1>0, <1>9
  <2>2. NoTwoCallsPerGnb'
    BY <2>1, <1>9
  <2>3. InsertInv'
    BY <2>1, <1>9
  <2>4. QED
    BY <2>2, <2>3
<1>1. ASSUME NEW r \in Requesters, Requester(r)
      PROVE NoTwoCallsPerGnb' /\ InsertInv'
  <2>1. CASE Subscribe(r)
    <3>1. \A q \in Requesters \ {r} : idx'[q] = idx[q]
      BY <2>1 DEF Subscribe
    <3>2. QED
      BY <2>1, <3>1, <1>0 DEF Subscribe
  <2>2. CASE AddLookup(r)
    <3>1. \A q \in Requesters : InCall(q) => Name(q) # Name(r)
      BY <2>2 DEF AddLookup, transaction_present, Matches, OwnEntryExact, Key
    <3>2. \A q \in Requesters : pc[q] # "insert"
      BY <2>2, SentinelAssumption DEF AddLookup, Acquire, LockInv
    <3>3. QED
      BY <2>2, <3>1, <3>2, <1>0 DEF AddLookup
  <2>3. CASE AddInsert(r)
    <3>1. \A q \in Requesters \ {r} : pc[q] # "insert"
      BY <2>3 DEF AddInsert, LockInv
    <3>2. QED
      BY <2>3, <3>1, <1>0 DEF AddInsert
  <2>4. CASE AddRefused(r) \/ LockToSend(r) \/ Transmit(r) \/ TransmitFails(r)
    <3>1. /\ idx' = idx
          /\ \A q \in Requesters : InCall(q)' => InCall(q)
          /\ \A q \in Requesters : pc'[q] = "insert" => pc[q] = "insert"
      BY <2>4 DEF AddRefused, LockToSend, Transmit, TransmitFails
    <3>2. QED
      BY <3>1, <1>9
  <2>5. CASE WaitFor(r) \/ WakeUp(r) \/ Relock(r)
    <3>1. /\ idx' = idx
          /\ \A q \in Requesters : InCall(q)' => InCall(q)
          /\ \A q \in Requesters : pc'[q] = "insert" => pc[q] = "insert"
      BY <2>5 DEF WaitFor, WakeUp, Relock
    <3>2. QED
      BY <3>1, <1>9
  <2>6. CASE CheckPending(r) \/ CheckDone(r) \/ Finish(r)
    <3>1. /\ idx' = idx
          /\ \A q \in Requesters : InCall(q)' => InCall(q)
          /\ \A q \in Requesters : pc'[q] = "insert" => pc[q] = "insert"
      BY <2>6 DEF CheckPending, CheckDone, Finish
    <3>2. QED
      BY <3>1, <1>9
  <2>7. QED
    BY <1>1, <2>1, <2>2, <2>3, <2>4, <2>5, <2>6 DEF Requester
<1>2. ASSUME NEW r \in Requesters, Expire(r)
      PROVE NoTwoCallsPerGnb' /\ InsertInv'
  BY <1>2, <1>0 DEF Expire
<1>3. CASE Receiver
  BY <1>3, <1>0 DEF Receiver, Receive, ReceiveFailure, is_request_entry,
                    SetLookup, SetAssign, NotifyAll
<1>4. ASSUME NEW c \in Calls, NEW kind \in {"resp", "fail"}, Answer(c, kind)
      PROVE NoTwoCallsPerGnb' /\ InsertInv'
  BY <1>4, <1>0 DEF Answer
<1>5. CASE UNCHANGED vars
  BY <1>5, <1>0 DEF vars
<1>6. QED
  BY <1>1, <1>2, <1>3, <1>4, <1>5 DEF Next, MainSleeps

\* A response that was delivered stays delivered: calls are not reused.
LEMMA ReadStays ==
  ASSUME TypeOK, CallInv, [Next]_vars
  PROVE  \A c \in Calls : exchange[c] = "read" => exchange'[c] = "read"
<1> USE DEF TypeOK, receiverVars
<1>1. ASSUME NEW r \in Requesters, Requester(r)
      PROVE \A c \in Calls : exchange[c] = "read" => exchange'[c] = "read"
  <2>1. CASE Transmit(r)
    BY <2>1 DEF Transmit, Goto, CallInv
  <2>2. ~Transmit(r) => UNCHANGED exchange
    BY <1>1
       DEF Requester, Subscribe, AddRefused, AddLookup, AddInsert, LockToSend,
           TransmitFails, WaitFor, WakeUp, Relock, CheckPending, CheckDone,
           Finish
  <2>3. QED
    BY <2>1, <2>2
<1>2. ASSUME NEW r \in Requesters, Expire(r)
      PROVE \A c \in Calls : exchange[c] = "read" => exchange'[c] = "read"
  BY <1>2 DEF Expire
<1>3. CASE Receiver
  BY <1>3 DEF Receiver, Receive, ReceiveFailure, is_request_entry, SetLookup,
              SetAssign, NotifyAll
<1>4. ASSUME NEW d \in Calls, NEW kind \in {"resp", "fail"}, Answer(d, kind)
      PROVE \A c \in Calls : exchange[c] = "read" => exchange'[c] = "read"
  BY <1>4 DEF Answer
<1>5. CASE UNCHANGED vars
  BY <1>5 DEF vars
<1>6. QED
  BY <1>1, <1>2, <1>3, <1>4, <1>5 DEF Next, MainSleeps

\* What the check can read: the requester's own pending entry, or the entry
\* of a response that was delivered for its gNB.
LEMMA StatusRead ==
  ASSUME TypeOK, OwnEntryExact, NoTwoCallsPerGnb, ResponseEntryHonest,
         NEW r \in Requesters, InCall(r),
         NEW s \in get_request_status(Name(r)), s # "request_pending"
  PROVE  /\ s = "request_success"
         /\ \E c \in Calls : Gnb(c) = Name(r) /\ exchange[c] = "read"
<1>1. r \in Matches(Name(r))
  BY DEF Matches, Key, OwnEntryExact
<1>2. PICK k \in Matches(Name(r)) : s = status_table[k]
  BY <1>1 DEF get_request_status, transaction_present
<1>3. k \notin Requesters
  BY <1>2 DEF OwnEntryExact, Matches
<1>4. k \in Calls /\ Gnb(k) = Name(r) /\ status_table[k] # "absent"
  BY <1>2, <1>3, Names DEF Matches, Key
<1>5. QED
  BY <1>2, <1>4 DEF ResponseEntryHonest

\* The check decides success or goes on waiting.
LEMMA ResultStep ==
  TypeOK /\ CallInv /\ OwnEntryExact /\ NoTwoCallsPerGnb
    /\ ResponseEntryHonest /\ ResultInv /\ [Next]_vars => ResultInv'
<1> SUFFICES ASSUME TypeOK, CallInv, OwnEntryExact, NoTwoCallsPerGnb,
                    ResponseEntryHonest, ResultInv, [Next]_vars
             PROVE ResultInv'
  OBVIOUS
<1> DEFINE Answered(r) == \E c \in Calls : Gnb(c) = Name(r) /\ exchange[c] = "read"
<1>0. \A r \in Requesters : idx'[r] = idx[r] /\ Answered(r) => Answered(r)'
  BY ReadStays DEF Name, CurrentCall, Gnb
<1> HIDE DEF Answered
<1>a. ResultInv' <=> \A r \in Requesters :
        /\ pc'[r] \notin {"idle", "finish"} => result'[r] = "none"
        /\ pc'[r] = "finish" =>
             result'[r] = "SUBSCR_SUCCESS" /\ (expired'[r] \/ Answered(r)')
  BY DEF ResultInv, Answered
<1>b. \A r \in Requesters :
        /\ pc[r] \notin {"idle", "finish"} => result[r] = "none"
        /\ pc[r] = "finish" =>
             result[r] = "SUBSCR_SUCCESS" /\ (expired[r] \/ Answered(r))
  BY DEF ResultInv, Answered
<1> USE DEF TypeOK, Goto, Return, requesterVars
<1>1. ASSUME NEW r \in Requesters, Requester(r) PROVE ResultInv'
  <2>1. CASE Subscribe(r)
    <3>1. \A q \in Requesters \ {r} : idx'[q] = idx[q] /\ expired'[q] = expired[q]
      BY <2>1 DEF Subscribe
    <3>2. QED
      BY <2>1, <3>1, <1>0, <1>a, <1>b DEF Subscribe
  <2>2. CASE AddRefused(r) \/ AddLookup(r) \/ AddInsert(r) \/ LockToSend(r)
    BY <2>2, <1>0, <1>a, <1>b DEF AddRefused, AddLookup, AddInsert, LockToSend
  <2>3. CASE Transmit(r) \/ TransmitFails(r)
    BY <2>3, <1>0, <1>a, <1>b DEF Transmit, TransmitFails
  <2>4. CASE WaitFor(r) \/ WakeUp(r) \/ Relock(r) \/ Finish(r)
    BY <2>4, <1>0, <1>a, <1>b DEF WaitFor, WakeUp, Relock, Finish
  <2>5. CASE CheckPending(r)
    BY <2>5, <1>0, <1>a, <1>b DEF CheckPending
  <2>6. CASE CheckDone(r)
    <3>1. PICK s \in get_request_status(Name(r)) \ {"request_pending"} :
            result' = [result EXCEPT ![r] = ResultOf(s)]
      BY <2>6 DEF CheckDone
    <3>2. InCall(r)
      BY <2>6 DEF CheckDone, InCall
    <3>3. s = "request_success" /\ Answered(r)
      BY <3>1, <3>2, StatusRead DEF Answered
    <3>4. ResultOf(s) = "SUBSCR_SUCCESS"
      BY <3>3, Zenon DEF ResultOf
    <3>5. QED
      BY <2>6, <3>1, <3>3, <3>4, <1>0, <1>a, <1>b DEF CheckDone
  <2>7. QED
    BY <1>1, <2>1, <2>2, <2>3, <2>4, <2>5, <2>6 DEF Requester
<1>2. ASSUME NEW r \in Requesters, Expire(r) PROVE ResultInv'
  BY <1>2, <1>0, <1>a, <1>b DEF Expire
<1>3. CASE Receiver
  BY <1>3, <1>0, <1>a, <1>b
     DEF Receiver, Receive, ReceiveFailure, is_request_entry, SetLookup,
         SetAssign, NotifyAll
<1>4. ASSUME NEW c \in Calls, NEW kind \in {"resp", "fail"}, Answer(c, kind)
      PROVE ResultInv'
  BY <1>4, <1>0, <1>a, <1>b DEF Answer
<1>5. CASE UNCHANGED vars
  BY <1>5, <1>0, <1>a, <1>b DEF vars
<1>6. QED
  BY <1>1, <1>2, <1>3, <1>4, <1>5 DEF Next, MainSleeps

LEMMA InitIInv == Init => IInv
<1>1. \A r \in Requesters : Len(GnbList[r]) \in Nat
  BY GnbListAssumption
<1>2. QED
  BY <1>1, SentinelAssumption
     DEF Init, IInv, TypeOK, Result, LockInv, CallInv, OwnEntryExact, InCall,
         Sent, NoTwoCallsPerGnb, InsertInv, ResponseEntryHonest, ResultInv,
         ReceiverInv, Key

\* The inductive invariant, for every number of requesters and any lists.
THEOREM Invariance == Spec => []IInv
<1>1. IInv /\ [Next]_vars => IInv'
  BY TypeStep, LockStep, CallStep, OwnEntryStep, AloneStep, ResponseStep,
     ResultStep DEF IInv
<1>2. QED
  BY InitIInv, <1>1, PTL DEF Spec

\* No two threads are ever subscribing to the same gNB.
THEOREM OneCallPerGnb == Spec => []NoTwoCallsPerGnb
<1>1. IInv => NoTwoCallsPerGnb
  BY DEF IInv
<1>2. QED
  BY <1>1, Invariance, PTL

\* A call's own entries never outlive it and are never overwritten.
THEOREM OwnEntries == Spec => []OwnEntryExact
<1>1. IInv => OwnEntryExact
  BY DEF IInv
<1>2. QED
  BY <1>1, Invariance, PTL

\* The entries the receiver creates all record delivered responses.
THEOREM HonestResponses == Spec => []ResponseEntryHonest
<1>1. IInv => ResponseEntryHonest
  BY DEF IInv
<1>2. QED
  BY <1>1, Invariance, PTL

\* Success before the time-out means that a response for the gNB came.
THEOREM EarlySuccess == Spec => []EarlySuccessIsAnswered
<1>1. IInv => EarlySuccessIsAnswered
  BY DEF IInv, ResultInv, EarlySuccessIsAnswered
<1>2. QED
  BY <1>1, Invariance, PTL

-----------------------------------------------------------------------------
(* The program: every gNB is subscribed to once.                           *)

\* startup_subscribe_requests runs over a list without repetitions.
EachGnbOnce == \A c, d \in Calls : Gnb(c) = Gnb(d) => c = d

NoDuplicate == \A r \in Requesters : result[r] # "SUBSCR_ERR_DUPLICATE"

\* A name in the table is that of another call: the call's own entry is not
\* made yet, nor has anybody answered it.
LEMMA NeverRefused ==
  ASSUME EachGnbOnce, IInv, NEW r \in Requesters
  PROVE  ~ AddRefused(r)
<1> SUFFICES ASSUME AddRefused(r) PROVE FALSE
  OBVIOUS
<1>1. pc[r] = "add" /\ transaction_present(Name(r))
  BY DEF AddRefused, Goto
<1>2. \A q \in Requesters : pc[q] # "idle" => CurrentCall(q) \in Calls
  BY CurrentIsCall DEF IInv
<1>3. PICK k \in Key : status_table[k] # "absent" /\ Name(k) = Name(r)
  BY <1>1 DEF transaction_present, Matches
<1>4. CASE k \in Requesters
  <2>1. InCall(k) /\ ~InCall(r) /\ pc[k] # "idle" /\ pc[r] # "idle"
    BY <1>1, <1>3, <1>4 DEF IInv, OwnEntryExact, InCall
  <2>2. CurrentCall(k) = CurrentCall(r)
    BY <1>2, <1>3, <1>4, <2>1, Names DEF EachGnbOnce
  <2>3. QED
    BY <2>1, <2>2 DEF CurrentCall
<1>5. CASE k \in Calls
  <2>1. k = CurrentCall(r)
    BY <1>1, <1>2, <1>3, <1>5, Names DEF EachGnbOnce
  <2>2. exchange[k] = "read" /\ exchange[CurrentCall(r)] = "none"
    BY <1>1, <1>3, <1>5 DEF IInv, ResponseEntryHonest, CallInv
  <2>3. QED
    BY <2>1, <2>2
<1>6. QED
  BY <1>4, <1>5 DEF Key

LEMMA NoDuplicateStep ==
  ASSUME EachGnbOnce, IInv, NoDuplicate, [Next]_vars
  PROVE  NoDuplicate'
<1> USE DEF NoDuplicate, Return, IInv, TypeOK
<1>1. ASSUME NEW r \in Requesters, Requester(r) PROVE NoDuplicate'
  <2>1. CASE Subscribe(r) \/ AddLookup(r) \/ AddInsert(r) \/ LockToSend(r)
    BY <2>1 DEF Subscribe, AddLookup, AddInsert, LockToSend
  <2>2. CASE Transmit(r) \/ TransmitFails(r) \/ WaitFor(r) \/ WakeUp(r)
               \/ Relock(r) \/ Finish(r)
    BY <2>2 DEF Transmit, TransmitFails, WaitFor, WakeUp, Relock, Finish
  <2>3. CASE CheckPending(r)
    BY <2>3 DEF CheckPending
  <2>4. CASE CheckDone(r)
    <3>1. PICK s \in get_request_status(Name(r)) \ {"request_pending"} :
            result' = [result EXCEPT ![r] = ResultOf(s)]
      BY <2>4 DEF CheckDone
    <3>2. InCall(r)
      BY <2>4 DEF CheckDone, Goto, InCall
    <3>3. s = "request_success"
      BY <3>1, <3>2, StatusRead
    <3>4. ResultOf(s) = "SUBSCR_SUCCESS"
      BY <3>3, Zenon DEF ResultOf
    <3>5. QED
      BY <3>1, <3>4
  <2>5. QED
    BY <1>1, <2>1, <2>2, <2>3, <2>4, NeverRefused DEF Requester
<1>2. (\A r \in Requesters : ~Requester(r)) => result' = result
  BY DEF Next, Expire, Receiver, Receive, ReceiveFailure, is_request_entry,
         SetLookup, SetAssign, NotifyAll, Answer, MainSleeps, vars,
         requesterVars
<1>3. QED
  BY <1>1, <1>2

\* In the program no call is refused as a duplicate, and one that succeeds
\* before its time-out was answered itself.
THEOREM OwnResponses ==
  ASSUME EachGnbOnce
  PROVE  Spec => []OwnResponse
<1>1. Init => NoDuplicate
  BY DEF Init, NoDuplicate
<1>2. IInv /\ NoDuplicate /\ [Next]_vars => NoDuplicate'
  BY NoDuplicateStep
<1>3. IInv /\ NoDuplicate => OwnResponse
  <2> SUFFICES ASSUME IInv, NoDuplicate, NEW r \in Requesters, pc[r] = "finish",
                      ~expired[r]
               PROVE  exchange[CurrentCall(r)] = "read"
    BY DEF OwnResponse, NoDuplicate
  <2>1. PICK c \in Calls : Gnb(c) = Name(r) /\ exchange[c] = "read"
    BY DEF IInv, ResultInv
  <2>2. CurrentCall(r) \in Calls
    BY CurrentIsCall DEF IInv
  <2>3. QED
    BY <2>1, <2>2, Names DEF EachGnbOnce
<1>4. QED
  BY <1>1, <1>2, <1>3, Invariance, PTL DEF Spec

-----------------------------------------------------------------------------
(* SubscriptionHandler implements SubscriptionService: every step is one   *)
(* of the service or leaves its state alone, under IInv.                   *)

\* The abstract state, named.
AbstractPhase == [r \in Requesters |-> Phase(r)]
AbstractOutcome ==
  [r \in Requesters |-> IF pc[r] = "finish" THEN "none" ELSE result[r]]
AbstractSent == {c \in Calls : exchange[c] # "none"}
AbstractAnswered == {c \in Calls : exchange[c] = "read"}

LEMMA PhaseIs ==
  \A r \in Requesters :
    /\ pc[r] = "idle" => Phase(r) = "idle"
    /\ pc[r] \in {"add", "insert"} => Phase(r) = "begun"
    /\ pc[r] \in {"relock", "tx"} => Phase(r) = "admitted"
    /\ pc[r] \in {"loop", "waiting", "woken", "check", "finish"} => Phase(r) = "sent"
BY DEF Phase, PhaseAt

\* A step that leaves every requester's phase and outcome alone, and sends
\* and delivers nothing, is a stutter.
LEMMA Stutter ==
  ASSUME \A r \in Requesters : Phase(r)' = Phase(r),
         AbstractOutcome' = AbstractOutcome,
         UNCHANGED <<idx, expired>>,
         AbstractSent' = AbstractSent, AbstractAnswered' = AbstractAnswered
  PROVE  UNCHANGED Service!vars
<1>1. AbstractPhase' = AbstractPhase
  BY DEF AbstractPhase
<1>2. QED
  BY <1>1 DEF Service!vars, AbstractPhase, AbstractOutcome, AbstractSent,
              AbstractAnswered

\* The current call of a requester moves from one phase to the next.
LEMMA MoveStep ==
  ASSUME NEW r \in Requesters, NEW from, NEW to, NEW res,
         Phase(r) = from, Phase(r)' = to,
         IF pc'[r] = "finish" THEN res = "none" ELSE res = result'[r],
         \A q \in Requesters \ {r} :
           pc'[q] = pc[q] /\ (pc[q] = "finish" \/ result'[q] = result[q])
  PROVE  Service!Move(r, from, to, res)
<1>1. \A q \in Requesters \ {r} : Phase(q)' = Phase(q)
  BY DEF Phase
<1>2. AbstractPhase' = [AbstractPhase EXCEPT ![r] = to]
  BY <1>1 DEF AbstractPhase
<1>3. AbstractOutcome' = [AbstractOutcome EXCEPT ![r] = res]
  BY DEF AbstractOutcome
<1>4. AbstractPhase[r] = from
  BY DEF AbstractPhase
<1>5. QED
  BY <1>2, <1>3, <1>4 DEF Service!Move, AbstractPhase, AbstractOutcome
\* Every step of the handler is a step of the service or a stutter.
LEMMA ServiceStep ==
  ASSUME IInv, IInv', [Next]_vars
  PROVE  [Service!Next]_(Service!vars)
<1> USE DEF Goto, Return, requesterVars, receiverVars
<1>0. TypeOK
  BY DEF IInv
<1>s. ASSUME NEW r \in Requesters,
             \A q \in Requesters \ {r} : UNCHANGED <<pc[q], result[q]>>,
             Phase(r)' = Phase(r),
             pc'[r] = "finish" \/ result'[r] = result[r],
             pc[r] = "finish" => pc'[r] = "finish",
             pc'[r] = "finish" => pc[r] = "finish" \/ result[r] = "none",
             UNCHANGED <<idx, expired, exchange>>
      PROVE  UNCHANGED Service!vars
  <2>1. \A q \in Requesters \ {r} : Phase(q)' = Phase(q)
    BY <1>s DEF Phase
  <2>2. AbstractOutcome' = AbstractOutcome
    BY <1>s DEF AbstractOutcome
  <2>3. QED
    BY <1>s, <2>1, <2>2, Stutter DEF AbstractSent, AbstractAnswered
<1>1. ASSUME NEW r \in Requesters, Requester(r)
      PROVE  [Service!Next]_(Service!vars)
  <2>1. ASSUME Subscribe(r) PROVE Service!Begin(r)
    <3>1. Phase(r) = "idle" /\ Phase(r)' = "begun"
      BY <2>1, <1>0, PhaseIs DEF Subscribe, TypeOK, Phase, PhaseAt
    <3>2. Service!Move(r, "idle", "begun", "none")
      BY <2>1, <3>1, <1>0, MoveStep DEF Subscribe, TypeOK
    <3>3. QED
      BY <2>1, <3>2 DEF Subscribe, Service!Begin
  <2>2. ASSUME AddRefused(r) PROVE Service!Refuse(r)
    <3>1. Phase(r) = "begun" /\ Phase(r)' = "idle"
      BY <2>2, <1>0, PhaseIs DEF AddRefused, TypeOK, Phase, PhaseAt
    <3>2. Service!Move(r, "begun", "idle", "SUBSCR_ERR_DUPLICATE")
      BY <2>2, <3>1, <1>0, MoveStep DEF AddRefused, TypeOK
    <3>3. PICK k \in Key : status_table[k] # "absent" /\ Name(k) = Name(r)
      BY <2>2 DEF AddRefused, transaction_present, Matches
    <3>4. \E c \in Calls \ {CurrentCall(r)} :
            c[2] <= idx[c[1]] /\ Gnb(c) = Name(r)
      <4>1. CASE k \in Requesters
        <5>1. InCall(k) /\ k # r
          BY <2>2, <3>3, <4>1 DEF AddRefused, IInv, OwnEntryExact, InCall
        <5>2. CurrentCall(k) \in Calls
          BY <4>1, <5>1, <1>0, CurrentIsCall DEF IInv, InCall
        <5>3. QED
          BY <3>3, <4>1, <5>1, <5>2, <1>0, Names DEF CurrentCall, TypeOK
      <4>2. CASE k \in Calls
        <5>1. exchange[k] = "read" /\ k[2] <= idx[k[1]] /\ Gnb(k) = Name(r)
          BY <3>3, <4>2, Names DEF IInv, ResponseEntryHonest
        <5>2. exchange[CurrentCall(r)] = "none"
          BY <2>2 DEF AddRefused, IInv, CallInv
        <5>3. QED
          BY <4>2, <5>1, <5>2
      <4>3. QED
        BY <4>1, <4>2 DEF Key
    <3>5. QED
      BY <2>2, <3>2, <3>4, Names
         DEF AddRefused, Service!Refuse, Service!Calls, Calls, Service!Gnb,
             Gnb, Service!Current, CurrentCall
  <2>3. ASSUME AddInsert(r) PROVE Service!Admit(r)
    <3>1. Phase(r) = "begun" /\ Phase(r)' = "admitted"
      BY <2>3, <1>0, PhaseIs DEF AddInsert, TypeOK, Phase, PhaseAt
    <3>2. Service!Move(r, "begun", "admitted", "none")
      BY <2>3, <3>1, <1>0, MoveStep DEF AddInsert, TypeOK, IInv, ResultInv
    <3>3. \A q \in Requesters \ {r} : Service!Admitted(q) => InCall(q)
      BY <1>0, PhaseIs DEF Service!Admitted, InCall, TypeOK
    <3>4. \A q \in Requesters : InCall(q) => Name(q) # Name(r)
      BY <2>3 DEF AddInsert, IInv, InsertInv
    <3>5. QED
      BY <2>3, <3>2, <3>3, <3>4, Names
         DEF AddInsert, Service!Admit, Service!Gnb, Gnb, Service!Current,
             CurrentCall
  <2>4. ASSUME Transmit(r) PROVE Service!Send(r)
    <3>1. Phase(r) = "admitted" /\ Phase(r)' = "sent"
      BY <2>4, <1>0, PhaseIs DEF Transmit, TypeOK, Phase, PhaseAt
    <3>2. Service!Move(r, "admitted", "sent", "none")
      BY <2>4, <3>1, <1>0, MoveStep DEF Transmit, TypeOK, IInv, ResultInv
    <3>3. exchange[CurrentCall(r)] = "none" /\ CurrentCall(r) \in Calls
      BY <2>4, <1>0, CurrentIsCall DEF Transmit, IInv, CallInv
    <3>4. /\ AbstractSent' = AbstractSent \cup {CurrentCall(r)}
          /\ AbstractAnswered' = AbstractAnswered
      BY <2>4, <3>3, <1>0
         DEF Transmit, AbstractSent, AbstractAnswered, TypeOK
    <3>5. QED
      BY <2>4, <3>2, <3>3, <3>4
         DEF Transmit, Service!Send, Service!Current, CurrentCall,
             AbstractSent, AbstractAnswered
  <2>5. ASSUME TransmitFails(r) PROVE Service!SendFails(r)
    <3>1. Phase(r) = "admitted" /\ Phase(r)' = "idle"
      BY <2>5, <1>0, PhaseIs DEF TransmitFails, TypeOK, Phase, PhaseAt
    <3>2. Service!Move(r, "admitted", "idle", "SUBSCR_ERR_TX")
      BY <2>5, <3>1, <1>0, MoveStep DEF TransmitFails, TypeOK
    <3>3. QED
      BY <2>5, <3>2 DEF TransmitFails, Service!SendFails
  <2>6. ASSUME Finish(r) PROVE Service!Succeed(r)
    <3>1. Phase(r) = "sent" /\ Phase(r)' = "idle"
      BY <2>6, <1>0, PhaseIs DEF Finish, TypeOK, Phase, PhaseAt
    <3>2. /\ result[r] = "SUBSCR_SUCCESS"
          /\ expired[r] \/ \E c \in AbstractAnswered : Gnb(c) = Name(r)
      BY <2>6 DEF Finish, IInv, ResultInv, AbstractAnswered
    <3>3. Service!Move(r, "sent", "idle", "SUBSCR_SUCCESS")
      BY <2>6, <3>1, <3>2, <1>0, MoveStep DEF Finish, TypeOK
    <3>4. QED
      BY <2>6, <3>2, <3>3, Names
         DEF Finish, Service!Succeed, Service!Gnb, Gnb, Service!Current,
             CurrentCall, AbstractAnswered
  <2>7. CASE AddLookup(r) \/ LockToSend(r)
    <3>1. Phase(r)' = Phase(r)
      BY <2>7, <1>0, PhaseIs DEF AddLookup, LockToSend, TypeOK, Phase, PhaseAt
    <3>2. QED
      BY <2>7, <3>1, <1>s, <1>0 DEF AddLookup, LockToSend, TypeOK
  <2>8. CASE WaitFor(r) \/ WakeUp(r) \/ Relock(r)
    <3>1. Phase(r) = "sent" /\ Phase(r)' = "sent"
      BY <2>8, <1>0, PhaseIs DEF WaitFor, WakeUp, Relock, TypeOK, Phase, PhaseAt
    <3>2. QED
      BY <2>8, <3>1, <1>s, <1>0 DEF WaitFor, WakeUp, Relock, TypeOK
  <2>9. CASE CheckPending(r) \/ CheckDone(r)
    <3>1. Phase(r) = "sent" /\ Phase(r)' = "sent"
      BY <2>9, <1>0, PhaseIs DEF CheckPending, CheckDone, TypeOK, Phase, PhaseAt
    <3>2. result[r] = "none"
      BY <2>9 DEF CheckPending, CheckDone, IInv, ResultInv
    <3>3. QED
      BY <2>9, <3>1, <3>2, <1>s, <1>0 DEF CheckPending, CheckDone, TypeOK
  <2>10. QED
    BY <1>1, <2>1, <2>2, <2>3, <2>4, <2>5, <2>6, <2>7, <2>8, <2>9
       DEF Requester, Service!Next
<1>2. ASSUME NEW r \in Requesters, Expire(r) PROVE Service!Lapse(r)
  <2>1. Phase(r) = "sent"
    BY <1>2, PhaseIs DEF Expire
  <2>2. AbstractPhase' = AbstractPhase /\ AbstractOutcome' = AbstractOutcome
    BY <1>2 DEF Expire, AbstractPhase, AbstractOutcome, Phase
  <2>3. QED
    BY <1>2, <2>1, <2>2 DEF Expire, Service!Lapse, AbstractPhase, AbstractOutcome
<1>3. CASE Receiver
  <2>1. ASSUME NEW c \in Calls, Receive(c) PROVE Service!Deliver(c)
    <3>1. /\ AbstractSent' = AbstractSent
          /\ AbstractAnswered' = AbstractAnswered \cup {c}
          /\ c \in AbstractSent \ AbstractAnswered
      BY <2>1, <1>0 DEF Receive, AbstractSent, AbstractAnswered, TypeOK
    <3>2. AbstractPhase' = AbstractPhase /\ AbstractOutcome' = AbstractOutcome
      BY <2>1 DEF Receive, AbstractPhase, AbstractOutcome, Phase
    <3>3. QED
      BY <2>1, <3>1, <3>2
         DEF Receive, Service!Deliver, AbstractPhase, AbstractOutcome,
             AbstractSent, AbstractAnswered
  <2>2. ASSUME NEW c \in Calls, ReceiveFailure(c) PROVE UNCHANGED Service!vars
    <3>1. AbstractSent' = AbstractSent /\ AbstractAnswered' = AbstractAnswered
      BY <2>2, <1>0 DEF ReceiveFailure, AbstractSent, AbstractAnswered, TypeOK
    <3>2. AbstractOutcome' = AbstractOutcome
      BY <2>2 DEF ReceiveFailure, AbstractOutcome
    <3>3. QED
      BY <2>2, <3>1, <3>2, Stutter DEF ReceiveFailure, Phase
  <2>3. CASE is_request_entry \/ SetLookup \/ SetAssign
    <3>1. UNCHANGED <<pc, idx, result, expired, exchange>>
      BY <2>3 DEF is_request_entry, SetLookup, SetAssign
    <3>2. AbstractOutcome' = AbstractOutcome
      BY <3>1 DEF AbstractOutcome
    <3>3. UNCHANGED Service!vars
      BY <3>1, <3>2, Stutter DEF Phase, AbstractSent, AbstractAnswered
    <3>4. QED
      BY <3>3
  <2>4. CASE NotifyAll
    <3>1. \A r \in Requesters : Phase(r)' = Phase(r)
      BY <2>4, <1>0, PhaseIs DEF NotifyAll, Phase, PhaseAt, TypeOK
    <3>2. AbstractOutcome' = AbstractOutcome
      BY <2>4, <1>0 DEF NotifyAll, AbstractOutcome, TypeOK
    <3>3. UNCHANGED Service!vars
      BY <2>4, <3>1, <3>2, Stutter DEF NotifyAll, AbstractSent, AbstractAnswered
    <3>4. QED
      BY <3>3
  <2>5. QED
    BY <1>3, <2>1, <2>2, <2>3, <2>4
       DEF Receiver, Service!Next, Service!Calls, Calls
<1>4. ASSUME NEW c \in Calls, NEW kind \in {"resp", "fail"}, Answer(c, kind)
      PROVE  UNCHANGED Service!vars
  <2>1. AbstractSent' = AbstractSent /\ AbstractAnswered' = AbstractAnswered
    BY <1>4, <1>0 DEF Answer, AbstractSent, AbstractAnswered, TypeOK
  <2>2. AbstractOutcome' = AbstractOutcome
    BY <1>4 DEF Answer, AbstractOutcome
  <2>3. QED
    BY <1>4, <2>1, <2>2, Stutter DEF Answer, Phase
<1>5. CASE UNCHANGED vars
  <2>1. AbstractOutcome' = AbstractOutcome
    BY <1>5 DEF vars, AbstractOutcome
  <2>2. QED
    BY <1>5, <2>1, Stutter DEF vars, Phase, AbstractSent, AbstractAnswered
<1>6. QED
  BY <1>1, <1>2, <1>3, <1>4, <1>5 DEF Next, MainSleeps, Service!Next

\* The handler implements the service it is meant to give its callers.
THEOREM Refinement == Spec => ImplementsService
<1>1. Init => Service!Init
  BY PhaseIs DEF Init, Service!Init, Phase, PhaseAt
<1>2. IInv /\ IInv' /\ [Next]_vars => [Service!Next]_(Service!vars)
  BY ServiceStep
<1>3. QED
  BY <1>1, <1>2, Invariance, PTL DEF Spec, ImplementsService, Service!Spec
=============================================================================
