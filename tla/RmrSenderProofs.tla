--------------------------- MODULE RmrSenderProofs ---------------------------
(***************************************************************************)
(* The calls of xapp_rmr_send that overlap no other, for any threads, any  *)
(* number of calls and attempts.                                           *)
(***************************************************************************)
EXTENDS RmrSender, TLAPS

-----------------------------------------------------------------------------
(* The inductive invariant.                                                *)

Active(t) == pc[t] # "idle"
Begun == {c \in Calls : c[2] <= calls[c[1]]}
Current == {c \in Calls : Active(c[1]) /\ c = Call(c[1])}

\* The calls that have returned and overlapped no other.
Old == Begun \ (overlapped \cup Current)

\* The buffers a thread can still get at.
Reachable == {send_buff} \cup {reg[t] : t \in Senders}

\* Where a thread holds a pointer, and that it is in a call.
CallInv ==
  \A t \in Senders :
    /\ Active(t) => calls[t] >= 1
    /\ pc[t] \in {"idle", "alloc", "store", "reset"} => reg[t] = NULL
    /\ pc[t] \in {"payload", "retry"} => reg[t] # NULL

\* What a call has not allocated is empty, and nobody points to it; nothing is
\* known of a call that has not begun.
NotStored(b) == \/ b \notin Begun
                \/ b \in Current /\ pc[b[1]] \in {"alloc", "store"}
FreshInv ==
  /\ \A b \in Calls : NotStored(b) =>
       b \notin Reachable /\ header[b] = NULL /\ payload[b] = NULL
  /\ \A b \in Calls : {header[b], payload[b]} \subseteq Begun \cup {NULL}
  /\ \A i \in 1 .. Len(sent) : sent[i].payload \in Begun \cup {NULL}
  /\ \A c \in Calls \ Begun : res[c] = "none"

\* The header or the payload of an earlier call is in reach only in the
\* member, and only until a thread has written over it.
HeldBack(b, places) ==
  /\ send_buff = b
  /\ \A t \in Senders : \/ pc[t] \in {"idle", "alloc"}
                        \/ pc[t] \in places /\ reg[t] = b
StaleInv ==
  \A b \in Reachable \ {NULL} :
    /\ header[b] \in Old => HeldBack(b, {"header"})
    /\ payload[b] \in Old => HeldBack(b, {"header", "payload"})

\* A call that overlaps no other is the only one there is ...
Alone(t) == \A u \in Senders \ {t} : pc[u] = "idle"

Holds(b, c) == b # NULL => header[b] = c /\ payload[b] = c

\* ... and the member and its own pointer are what its own steps made them.
Undisturbed(t) ==
  /\ pc[t] = "store" => send_buff = NULL
  /\ pc[t] \in {"header", "payload"} => send_buff = reg[t]
  /\ pc[t] = "payload" => header[reg[t]] = Call(t)
  /\ pc[t] = "load" => /\ Holds(send_buff, Call(t))
                       /\ send_buff = NULL => attempts[t] < NAttempts
  /\ pc[t] \in {"send", "assign", "test", "retry"} => Holds(reg[t], Call(t))
  /\ pc[t] \in {"test", "retry"} => send_buff = reg[t]

\* RMR has its message exactly when the result of rmr_send_msg says so.
Truth(t) ==
  /\ res[Call(t)] = "none"
  /\ pc[t] \in {"assign", "test"} => (Succeeded(t) <=> Accepted(Call(t)) # {})
  /\ pc[t] = "reset" => Accepted(Call(t)) # {}
  /\ pc[t] \notin {"assign", "test", "reset"} => Accepted(Call(t)) = {}

LoneInv ==
  \A t \in Senders : Active(t) /\ Call(t) \notin overlapped
                       => Alone(t) /\ Undisturbed(t) /\ Truth(t)

IInv ==
  /\ TypeOK
  /\ CallInv
  /\ FreshInv
  /\ StaleInv
  /\ LoneInv
  /\ LoneMessageIntact
  /\ LoneResultTellsTruth
  /\ NullOnlyUnallocatedOrByOverlap

-----------------------------------------------------------------------------
(* Calls, and what a step does to the sets of them.                        *)

LEMMA CallsAre ==
  /\ \A t \in Senders : \A i \in 1 .. Quota[t] : <<t, i>> \in Calls
  /\ \A c \in Calls : /\ c[1] \in Senders /\ c[2] \in 1 .. Quota[c[1]]
                       /\ c = <<c[1], c[2]>>
  BY DEF Calls

\* The call a thread is in.
LEMMA CallOfActive ==
  ASSUME TypeOK, CallInv, NEW t \in Senders, Active(t)
  PROVE  Call(t) \in Calls \cap Begun \cap Current /\ Call(t) # NULL
  <1>1. calls[t] \in 1 .. Quota[t]
    BY SenderAssumption DEF TypeOK, CallInv
  <1>2. Call(t) \in Calls
    BY <1>1, CallsAre DEF Call
  <1> QED
    BY <1>1, <1>2, NullAssumption DEF Call, Begun, Current

\* The steps a thread takes within a call leave the sets alone.
LEMMA WithinCall ==
  ASSUME TypeOK, NEW t \in Senders, NEW to, Active(t), to # "idle",
         pc' = [pc EXCEPT ![t] = to], calls' = calls, overlapped' = overlapped
  PROVE  Begun' = Begun /\ Current' = Current /\ Old' = Old
  <1>1. \A u \in Senders : Active(u)' <=> Active(u)
    BY DEF TypeOK, Active
  <1>2. Begun' = Begun
    BY DEF Begun
  <1>3. Current' = Current
    BY <1>1, CallsAre DEF Current, Call
  <1> QED
    BY <1>2, <1>3 DEF Old

\* A call that begins was none of them before, and can only make calls overlap.
LEMMA BeginsCall ==
  ASSUME TypeOK, NEW t \in Senders, Begin(t)
  PROVE  /\ Call(t)' \in Calls \ Begun /\ Call(t)' = <<t, calls[t] + 1>>
         /\ Begun' = Begun \cup {Call(t)'}
         /\ Current' = Current \cup {Call(t)'}
         /\ Old' \subseteq Old /\ overlapped \subseteq overlapped'
         /\ \A u \in Senders \ {t} : Call(u)' = Call(u)
  <1> DEFINE new == <<t, calls[t] + 1>>
  <1>1. calls[t] \in Nat /\ calls[t] + 1 \in 1 .. Quota[t] /\ calls'[t] = calls[t] + 1
    <2>1. calls[t] \in Nat /\ Quota[t] \in Nat /\ calls[t] < Quota[t]
      BY SenderAssumption DEF TypeOK, Begin
    <2>2. calls'[t] = calls[t] + 1
      BY DEF TypeOK, Begin
    <2> QED
      BY <2>1, <2>2
  <1>2. Call(t)' = new /\ new \in Calls /\ new \notin Begun
    BY <1>1, CallsAre DEF Call, Begun
  <1>3. \A u \in Senders \ {t} : Call(u)' = Call(u) /\ calls'[u] = calls[u]
    BY DEF Call, Begin, TypeOK
  <1>4. Begun' = Begun \cup {new}
    <2>1. \A c \in Calls : c[1] # t => (c \in Begun' <=> c \in Begun) /\ c # new
      BY <1>3, CallsAre DEF Begun
    <2>2. \A c \in Calls : c[1] = t => (c \in Begun' <=> c \in Begun \/ c = new)
      <3>1. TAKE c \in Calls
      <3>2. HAVE c[1] = t
      <3>3. c[2] \in Nat /\ c = <<t, c[2]>>
        BY <3>2, CallsAre, SenderAssumption
      <3>4. c[2] <= calls[t] + 1 <=> c[2] <= calls[t] \/ c[2] = calls[t] + 1
        BY <1>1, <3>3
      <3> QED
        BY <1>1, <3>2, <3>3, <3>4 DEF Begun
    <2>3. Begun' \subseteq Calls /\ Begun \subseteq Calls
      BY DEF Begun
    <2> QED
      BY <1>2, <2>1, <2>2, <2>3
  <1>5. Current' = Current \cup {new}
    <2>1. \A c \in Calls : c[1] # t => (c \in Current' <=> c \in Current) /\ c # new
      BY <1>3, CallsAre DEF Current, Active, Begin, Goto, TypeOK
    <2>2. \A c \in Calls : c[1] = t => (c \in Current' <=> c = new) /\ c \notin Current
      BY <1>2 DEF Current, Active, Begin, Goto, TypeOK
    <2>3. Current' \subseteq Calls /\ Current \subseteq Calls
      BY DEF Current
    <2> QED
      BY <1>2, <2>1, <2>2, <2>3
  <1>6. overlapped \subseteq overlapped'
    BY DEF Begin
  <1>7. Old' \subseteq Old
    BY <1>4, <1>5, <1>6 DEF Old
  <1> QED
    BY <1>2, <1>3, <1>4, <1>5, <1>6, <1>7

\* A call that returns becomes an earlier one.
Return(t) == ReturnTrue(t) \/ ReturnFalse(t)

LEMMA ReturnsCall ==
  ASSUME TypeOK, CallInv, NEW t \in Senders, Return(t)
  PROVE  /\ pc[t] \in {"reset", "retry", "test"} /\ pc' = [pc EXCEPT ![t] = "idle"]
         /\ calls' = calls /\ overlapped' = overlapped
         /\ Begun' = Begun
         /\ Current' = Current \ {Call(t)}
         /\ Old' = Old \cup ({Call(t)} \ overlapped)
  <1>1. /\ pc[t] \in {"reset", "retry", "test"} /\ pc' = [pc EXCEPT ![t] = "idle"]
        /\ calls' = calls /\ overlapped' = overlapped
    BY DEF Return, ReturnTrue, ReturnFalse, Goto, AttemptFailed
  <1>2. Begun' = Begun
    BY <1>1 DEF Begun
  <1>3. Current' = Current \ {Call(t)}
    <2>1. \A c \in Calls : c[1] # t => (c \in Current' <=> c \in Current) /\ c # Call(t)
      BY <1>1, CallsAre DEF Current, Active, Call, TypeOK
    <2>2. \A c \in Calls : c[1] = t => c \notin Current' /\ (c \in Current <=> c = Call(t))
      BY <1>1 DEF Current, Active, Call, TypeOK
    <2>3. Current' \subseteq Calls /\ Current \subseteq Calls
      BY DEF Current
    <2> QED
      BY <2>1, <2>2, <2>3
  <1>4. Call(t) \in Begun
    BY <1>1, CallOfActive DEF Active
  <1> QED
    BY <1>1, <1>2, <1>3, <1>4 DEF Old

-----------------------------------------------------------------------------
(* Types, and where a thread holds a pointer.                              *)

LEMMA InitIInv == Init => IInv
  <1> SUFFICES ASSUME Init PROVE IInv
    OBVIOUS
  <1> USE SenderAssumption, NullAssumption DEF Init
  <1>1. TypeOK
    <2>1. \A t \in Senders : calls[t] <= Quota[t]
      <3>1. TAKE t \in Senders
      <3>2. Quota[t] \in Nat /\ calls[t] = 0
        OBVIOUS
      <3> QED
        BY <3>2
    <2>2. attempts \in [Senders -> 0 .. NAttempts]
      BY 0 \in 0 .. NAttempts
    <2>3. sent \in Seq([header : Calls \cup {NULL}, payload : Calls \cup {NULL}])
      OBVIOUS
    <2> QED
      BY <2>1, <2>2, <2>3 DEF TypeOK, State
  <1>2. CallInv
    BY DEF CallInv, Active
  <1>3. Begun = {} /\ Current = {} /\ Reachable \subseteq {NULL}
    <2>1. \A c \in Calls : c \notin Begun
      BY CallsAre DEF Begun
    <2>2. \A c \in Calls : c \notin Current
      BY CallsAre DEF Current, Active
    <2> QED
      BY <2>1, <2>2 DEF Begun, Current, Reachable
  <1>4. FreshInv
    BY <1>3 DEF FreshInv, NotStored
  <1>5. StaleInv
    BY <1>3 DEF StaleInv
  <1>6. LoneInv
    BY DEF LoneInv, Active
  <1>7. sent = <<>> /\ Len(sent) = 0
    OBVIOUS
  <1>8. LoneMessageIntact /\ LoneResultTellsTruth /\ NullOnlyUnallocatedOrByOverlap
    BY <1>7 DEF LoneMessageIntact, LoneResultTellsTruth, NullOnlyUnallocatedOrByOverlap, Accepted
  <1> QED
    BY <1>1, <1>2, <1>4, <1>5, <1>6, <1>8 DEF IInv

LEMMA TypeStep ==
  ASSUME TypeOK, CallInv, NEW t \in Senders, Sender(t)
  PROVE  TypeOK' /\ CallInv'
  <1> USE NullAssumption DEF TypeOK, CallInv, Active, Goto, Load
  <1> DEFINE Message == [header : Calls \cup {NULL}, payload : Calls \cup {NULL}]
  <1>0. Active(t) => Call(t) \in Calls
    BY CallOfActive
  <1>1. CASE Begin(t)
    <2>1. overlapped' \subseteq Calls
      <3>1. \A u \in Senders \ {t} : pc[u] # "idle" => Call(u) \in Calls
        BY CallOfActive
      <3>2. <<t, calls[t] + 1>> \in Calls
        BY <1>1, BeginsCall
      <3>3. \A c \in overlapped' : \/ c \in overlapped \/ c = <<t, calls[t] + 1>>
                                  \/ \E u \in Senders \ {t} : pc[u] # "idle" /\ c = Call(u)
        BY <1>1 DEF Begin
      <3>4. ASSUME NEW c \in overlapped' PROVE c \in Calls
        <4>1. CASE c \in overlapped
          BY <4>1
        <4>2. CASE c = <<t, calls[t] + 1>>
          BY <3>2, <4>2
        <4>3. ASSUME NEW u \in Senders \ {t}, pc[u] # "idle", c = Call(u)
              PROVE  c \in Calls
          BY <3>1, <4>3
        <4> QED
          BY <3>3, <4>1, <4>2, <4>3
      <3> QED
        BY <3>4
    <2>2. calls[t] + 1 \in Nat /\ calls[t] + 1 <= Quota[t] /\ calls[t] + 1 >= 1
      <3>1. calls[t] \in Nat /\ Quota[t] \in Nat /\ calls[t] < Quota[t]
        BY <1>1, SenderAssumption DEF Begin
      <3> QED
        BY <3>1
    <2>3. NAttempts \in 0 .. NAttempts
      BY SenderAssumption
    <2> QED
      BY <1>1, <2>1, <2>2, <2>3 DEF Begin, buffers
  <1>2. CASE TestNull(t)
    BY <1>2 DEF TestNull, buffers, outcome
  <1>3. CASE StoreNew(t)
    BY <1>0, <1>3 DEF StoreNew, buffers, outcome
  <1>3a. CASE AllocFails(t)
    BY <1>3a DEF AllocFails, buffers, outcome
  <1>4. CASE WriteHeader(t)
    BY <1>0, <1>4 DEF WriteHeader, buffers, outcome
  <1>5. CASE WritePayload(t)
    BY <1>0, <1>5 DEF WritePayload, buffers, outcome
  <1>6. CASE LoadToSend(t)
    BY <1>6 DEF LoadToSend, buffers, outcome
  <1>7. CASE Crash(t)
    BY <1>7 DEF Crash, buffers, outcome
  <1>8. CASE SendAccepted(t)
    <2>1. sent' \in Seq(Message)
      <3>1. reg[t] \in Calls
        BY <1>8 DEF SendAccepted
      <3>2. [header |-> header[reg[t]], payload |-> payload[reg[t]]] \in Message
        BY <3>1
      <3> QED
        BY <1>8, <3>2 DEF SendAccepted
    <2> QED
      BY <1>8, <2>1 DEF SendAccepted, buffers, outcome, State
  <1>9. CASE SendRefused(t)
    BY <1>9 DEF SendRefused, buffers, outcome, State
  <1>10. CASE SendReturnsNull(t)
    BY <1>10 DEF SendReturnsNull, buffers, outcome
  <1>11. CASE Assign(t)
    BY <1>11 DEF Assign, buffers, outcome
  <1>12. CASE TestOK(t)
    BY <1>12, SenderAssumption DEF TestOK, buffers, outcome
  <1>13. CASE ReturnTrue(t)
    BY <1>0, <1>13 DEF ReturnTrue, buffers, outcome
  <1>14. CASE TestRefused(t)
    BY <1>14 DEF TestRefused, buffers, outcome
  <1>15. CASE Retry(t)
    <2>1. attempts[t] - 1 \in 0 .. NAttempts
      BY <1>15, SenderAssumption DEF Retry
    <2> QED
      BY <1>15, <2>1 DEF Retry, AttemptFailed, buffers, outcome
  <1>16. CASE ReturnFalse(t)
    <2>1. 0 \in 0 .. NAttempts
      BY SenderAssumption
    <2> QED
      BY <1>0, <1>16, <2>1 DEF ReturnFalse, AttemptFailed, buffers, outcome
  <1> QED
    BY <1>1, <1>2, <1>3, <1>3a, <1>4, <1>5, <1>6, <1>7, <1>8, <1>9, <1>10,
       <1>11, <1>12, <1>13, <1>14, <1>15, <1>16 DEF Sender

-----------------------------------------------------------------------------
(* What one step does to the pointers, the buffers and the results.        *)

LEMMA OnlyItsOwn ==
  ASSUME TypeOK, NEW t \in Senders, Sender(t)
  PROVE  \A u \in Senders \ {t} : /\ pc'[u] = pc[u] /\ calls'[u] = calls[u]
                                  /\ reg'[u] = reg[u] /\ attempts'[u] = attempts[u]
                                  /\ Call(u)' = Call(u)
  BY DEF TypeOK, Sender, Goto, Load, buffers, outcome, Call, AttemptFailed,
     Begin, TestNull, StoreNew, AllocFails, WriteHeader, WritePayload, LoadToSend, Crash,
     SendAccepted, SendRefused, SendReturnsNull, Assign, TestOK, ReturnTrue,
     TestRefused, Retry, ReturnFalse

LEMMA MemberStep ==
  ASSUME TypeOK, NEW t \in Senders, Sender(t)
  PROVE  \/ send_buff' = send_buff
         \/ StoreNew(t) /\ send_buff' = Call(t)
         \/ Assign(t) /\ send_buff' = reg[t]
         \/ (ReturnTrue(t) \/ AllocFails(t)) /\ send_buff' = NULL
  BY DEF TypeOK, Sender, Goto, Load, buffers, outcome, AttemptFailed,
     Begin, TestNull, StoreNew, AllocFails, WriteHeader, WritePayload, LoadToSend, Crash,
     SendAccepted, SendRefused, SendReturnsNull, Assign, TestOK, ReturnTrue,
     TestRefused, Retry, ReturnFalse

LEMMA RegisterStep ==
  ASSUME TypeOK, NEW t \in Senders, Sender(t)
  PROVE  \/ reg'[t] = reg[t]
         \/ StoreNew(t) /\ reg'[t] = Call(t)
         \/ (TestNull(t) \/ LoadToSend(t)) /\ reg'[t] = send_buff
         \/ reg'[t] = NULL
  BY DEF TypeOK, Sender, Goto, Load, buffers, outcome, AttemptFailed,
     Begin, TestNull, StoreNew, AllocFails, WriteHeader, WritePayload, LoadToSend, Crash,
     SendAccepted, SendRefused, SendReturnsNull, Assign, TestOK, ReturnTrue,
     TestRefused, Retry, ReturnFalse

\* Only a new buffer comes into reach.
LEMMA ReachableStep ==
  ASSUME TypeOK, NEW t \in Senders, Sender(t)
  PROVE  \A b \in Reachable' : b \in Reachable \/ b = NULL \/ (StoreNew(t) /\ b = Call(t))
  <1>1. send_buff' \in Reachable \cup {NULL} \/ (StoreNew(t) /\ send_buff' = Call(t))
    BY MemberStep DEF Reachable
  <1>2. reg'[t] \in Reachable \cup {NULL} \/ (StoreNew(t) /\ reg'[t] = Call(t))
    BY RegisterStep DEF Reachable
  <1>3. \A u \in Senders \ {t} : reg'[u] \in Reachable
    BY OnlyItsOwn DEF Reachable
  <1> QED
    BY <1>1, <1>2, <1>3 DEF Reachable

LEMMA WriteStep ==
  ASSUME TypeOK, CallInv, NEW t \in Senders, Sender(t)
  PROVE  /\ \/ header' = header
            \/ WriteHeader(t) /\ reg[t] \in Calls /\ header' = [header EXCEPT ![reg[t]] = Call(t)]
         /\ \/ payload' = payload
            \/ WritePayload(t) /\ send_buff \in Calls /\ payload' = [payload EXCEPT ![send_buff] = Call(t)]
  BY DEF TypeOK, CallInv, Sender, Goto, Load, buffers, outcome, AttemptFailed,
     Begin, TestNull, StoreNew, AllocFails, WriteHeader, WritePayload, LoadToSend, Crash,
     SendAccepted, SendRefused, SendReturnsNull, Assign, TestOK, ReturnTrue,
     TestRefused, Retry, ReturnFalse

LEMMA OutcomeStep ==
  ASSUME TypeOK, NEW t \in Senders, Sender(t)
  PROVE  /\ \/ sent' = sent
            \/ SendAccepted(t) /\ reg[t] \in Calls
               /\ sent' = Append(sent, [header |-> header[reg[t]], payload |-> payload[reg[t]]])
         /\ \/ res' = res
            \/ ReturnTrue(t) /\ res' = [res EXCEPT ![Call(t)] = "true"]
            \/ ReturnFalse(t) /\ res' = [res EXCEPT ![Call(t)] = "false"]
  BY DEF TypeOK, Sender, Goto, Load, buffers, outcome, AttemptFailed,
     Begin, TestNull, StoreNew, AllocFails, WriteHeader, WritePayload, LoadToSend, Crash,
     SendAccepted, SendRefused, SendReturnsNull, Assign, TestOK, ReturnTrue,
     TestRefused, Retry, ReturnFalse

\* A step begins a call, returns from it, or goes on with it.
LEMMA PlaceStep ==
  ASSUME TypeOK, NEW t \in Senders, Sender(t)
  PROVE  \/ Begin(t)
         \/ Return(t)
         \/ /\ Active(t) /\ calls' = calls /\ overlapped' = overlapped
            /\ pc'[t] # "idle" /\ pc' = [pc EXCEPT ![t] = pc'[t]]
  BY DEF TypeOK, OutOfMemory, Sender, Return, Active, Goto, Load, buffers, outcome, AttemptFailed,
     TestNull, StoreNew, AllocFails, WriteHeader, WritePayload, LoadToSend, Crash,
     SendAccepted, SendRefused, SendReturnsNull, Assign, TestOK,
     TestRefused, Retry

\* Calls begin and never come back to where they have not stored a buffer.
LEMMA SetsStep ==
  ASSUME TypeOK, CallInv, NEW t \in Senders, Sender(t)
  PROVE  /\ Begun \subseteq Begun'
         /\ \A b \in Calls : NotStored(b)' => NotStored(b)
         /\ Begun' = Begun \/ (Begin(t) /\ Begun' = Begun \cup {Call(t)'})
  <1>1. CASE Begin(t)
    <2>1. /\ Call(t)' \in Calls \ Begun /\ Begun' = Begun \cup {Call(t)'}
          /\ Current' = Current \cup {Call(t)'}
      BY <1>1, BeginsCall
    <2>2. \A b \in Current : b[1] # t
      BY <1>1 DEF Current, Active, Begin, Goto
    <2>3. \A b \in Current : pc'[b[1]] = pc[b[1]]
      BY <2>2, CallsAre, OnlyItsOwn DEF Current
    <2> QED
      BY <1>1, <2>1, <2>3 DEF NotStored
  <1>2. CASE Return(t)
    <2>1. Begun' = Begun /\ Current' = Current \ {Call(t)}
      BY <1>2, ReturnsCall
    <2>2. \A b \in Current' : b[1] # t
      <3>1. pc'[t] = "idle"
        BY <1>2, ReturnsCall DEF TypeOK
      <3> QED
        BY <3>1 DEF Current, Active
    <2>3. \A b \in Current' : pc'[b[1]] = pc[b[1]]
      BY <2>1, <2>2, CallsAre, OnlyItsOwn DEF Current
    <2> QED
      BY <2>1, <2>3 DEF NotStored
  <1>3. CASE /\ Active(t) /\ calls' = calls /\ overlapped' = overlapped
             /\ pc'[t] # "idle" /\ pc' = [pc EXCEPT ![t] = pc'[t]]
    <2>1. Begun' = Begun /\ Current' = Current
      BY <1>3, WithinCall
    <2>2. pc'[t] \in {"alloc", "store"} => pc[t] \in {"alloc", "store"}
      BY <1>3 DEF TypeOK, Sender, Active, Goto, Load, buffers, outcome, AttemptFailed,
         Begin, TestNull, StoreNew, AllocFails, WriteHeader, WritePayload, LoadToSend, Crash,
         SendAccepted, SendRefused, SendReturnsNull, Assign, TestOK, ReturnTrue,
         TestRefused, Retry, ReturnFalse
    <2>3. \A b \in Calls : pc'[b[1]] \in {"alloc", "store"} => pc[b[1]] \in {"alloc", "store"}
      BY <2>2, CallsAre, OnlyItsOwn
    <2> QED
      BY <2>1, <2>3 DEF NotStored
  <1> QED
    BY <1>1, <1>2, <1>3, PlaceStep

LEMMA FreshStep ==
  ASSUME TypeOK, CallInv, FreshInv, NEW t \in Senders, Sender(t)
  PROVE  FreshInv'
  <1>1. ASSUME NEW b \in Calls, NotStored(b)'
        PROVE  b \notin Reachable' /\ header'[b] = NULL /\ payload'[b] = NULL
    <2>1. b \notin Reachable /\ header[b] = NULL /\ payload[b] = NULL
      BY <1>1, SetsStep DEF FreshInv
    <2>2. StoreNew(t) => Call(t) # b
      <3>1. SUFFICES ASSUME StoreNew(t), b = Call(t) PROVE FALSE
        OBVIOUS
      <3>2. Begun' = Begun /\ b \in Begun /\ pc'[t] = "header" /\ b[1] = t
        BY <3>1, CallOfActive, WithinCall DEF StoreNew, Goto, Active, TypeOK, outcome, Call
      <3> QED
        BY <1>1, <3>2 DEF NotStored
    <2>3. b \notin Reachable'
      BY <2>1, <2>2, ReachableStep, NullAssumption
    <2>4. reg[t] # b /\ send_buff # b
      BY <2>1 DEF Reachable
    <2>5. header'[b] = header[b] /\ payload'[b] = payload[b]
      BY <2>4, WriteStep DEF TypeOK
    <2> QED
      BY <2>1, <2>3, <2>5
  <1>2. (WriteHeader(t) \/ WritePayload(t)) => Call(t) \in Begun
    BY CallOfActive DEF WriteHeader, WritePayload, Goto, Active
  <1>3. ASSUME NEW b \in Calls
        PROVE  {header'[b], payload'[b]} \subseteq Begun' \cup {NULL}
    BY <1>2, SetsStep, WriteStep DEF FreshInv, TypeOK
  <1>4. ASSUME NEW i \in 1 .. Len(sent')
        PROVE  sent'[i].payload \in Begun' \cup {NULL}
    <2>1. CASE sent' = sent
      BY <1>4, <2>1, SetsStep DEF FreshInv
    <2>2. CASE /\ reg[t] \in Calls
               /\ sent' = Append(sent, [header |-> header[reg[t]], payload |-> payload[reg[t]]])
      <3>1. CASE i = Len(sent) + 1
        BY <2>2, <3>1, SetsStep DEF FreshInv, TypeOK
      <3>2. CASE i \in 1 .. Len(sent)
        BY <2>2, <3>2, SetsStep DEF FreshInv, TypeOK
      <3> QED
        BY <1>4, <2>2, <3>1, <3>2 DEF TypeOK
    <2> QED
      BY <2>1, <2>2, OutcomeStep
  <1>5. ASSUME NEW c \in Calls \ Begun'
        PROVE  res'[c] = "none"
    <2>1. c \notin Begun
      BY SetsStep
    <2>2. (ReturnTrue(t) \/ ReturnFalse(t)) => Call(t) \in Begun
      BY CallOfActive DEF ReturnTrue, ReturnFalse, AttemptFailed, Goto, Active
    <2>3. res'[c] = res[c]
      BY <2>1, <2>2, OutcomeStep DEF TypeOK
    <2> QED
      BY <2>1, <2>3 DEF FreshInv
  <1> QED
    BY <1>1, <1>3, <1>4, <1>5 DEF FreshInv

-----------------------------------------------------------------------------
(* What an earlier call left behind.                                       *)

LEMMA StaleStep ==
  ASSUME TypeOK, TypeOK', CallInv, CallInv', FreshInv, StaleInv, LoneInv,
         NEW t \in Senders, Sender(t)
  PROVE  StaleInv'
  <1>0. SUFFICES ASSUME NEW b \in Reachable', b # NULL
                 PROVE  /\ header'[b] \in Old' => HeldBack(b, {"header"})'
                        /\ payload'[b] \in Old' => HeldBack(b, {"header", "payload"})'
    BY DEF StaleInv
  <1>1. b \in Calls
    BY <1>0 DEF Reachable, TypeOK
  <1>2. b \in Reachable \/ (StoreNew(t) /\ b = Call(t))
    BY <1>0, ReachableStep
  <1>3. \A u \in Senders \ {t} : pc'[u] = pc[u] /\ reg'[u] = reg[u]
    BY OnlyItsOwn
  <1>4. CASE Begin(t)
    <2>1. b \in Reachable /\ header' = header /\ payload' = payload /\ Old' \subseteq Old
      BY <1>2, <1>4, BeginsCall DEF Begin, StoreNew, Goto, buffers
    <2>2. send_buff' = send_buff /\ pc'[t] = "alloc"
      BY <1>4 DEF Begin, Goto, TypeOK
    <2>3. ASSUME NEW places, HeldBack(b, places) PROVE HeldBack(b, places)'
      BY <1>3, <2>2, <2>3 DEF HeldBack
    <2> QED
      BY <1>0, <2>1, <2>3 DEF StaleInv
  <1>5. CASE Return(t) /\ Call(t) \notin overlapped
    <2>1. Alone(t) /\ pc'[t] = "idle"
      <3>1. pc[t] \in {"reset", "retry", "test"} /\ pc' = [pc EXCEPT ![t] = "idle"]
        BY <1>5, ReturnsCall
      <3> QED
        BY <1>5, <3>1 DEF LoneInv, TypeOK, Active
    <2>2. \A u \in Senders : pc'[u] = "idle" /\ reg'[u] = NULL
      BY <1>3, <2>1 DEF Alone, CallInv
    <2>3. send_buff' = b
      BY <1>0, <2>2 DEF Reachable
    <2> QED
      BY <2>2, <2>3 DEF HeldBack
  <1>6. CASE Return(t) /\ Call(t) \in overlapped
    <2>1. Old' = Old /\ pc[t] \in {"reset", "retry", "test"}
      BY <1>6, ReturnsCall
    <2>2. b \in Reachable /\ header' = header /\ payload' = payload
      BY <1>2, <1>6 DEF Return, ReturnTrue, ReturnFalse, StoreNew, Goto, AttemptFailed, buffers
    <2>3. header[b] \notin Old /\ payload[b] \notin Old
      BY <1>0, <2>1, <2>2 DEF StaleInv, HeldBack
    <2> QED
      BY <2>1, <2>2, <2>3
  <1>7. CASE /\ Active(t) /\ calls' = calls /\ overlapped' = overlapped
             /\ pc'[t] # "idle" /\ pc' = [pc EXCEPT ![t] = pc'[t]]
    <2>1. Old' = Old
      BY <1>7, WithinCall
    <2>2. Call(t) \notin Old /\ NULL \notin Old
      BY <1>7, CallOfActive, NullAssumption DEF Old, Begun
    <2>3. CASE TestNull(t)
      <3>1. b \in Reachable /\ header' = header /\ payload' = payload /\ send_buff' = send_buff
        BY <1>2, <2>3 DEF TestNull, StoreNew, Goto, buffers
      <3>2. send_buff = b => pc'[t] = "header" /\ reg'[t] = b
        BY <1>0, <2>3 DEF TestNull, Goto, Load, TypeOK
      <3>3. ASSUME NEW places, "header" \in places, HeldBack(b, places) PROVE HeldBack(b, places)'
        BY <1>3, <3>1, <3>2, <3>3 DEF HeldBack
      <3> QED
        BY <1>0, <2>1, <3>1, <3>3 DEF StaleInv
    <2>4. CASE StoreNew(t)
      <3>1. header' = header /\ payload' = payload /\ pc[t] = "store"
        BY <2>4 DEF StoreNew, Goto, buffers
      <3>2. CASE b \in Reachable
        BY <1>0, <2>1, <3>1, <3>2 DEF StaleInv, HeldBack
      <3>3. CASE b = Call(t)
        <4>1. NotStored(b)
          BY <1>1, <3>1, <3>3 DEF NotStored, Current, Active, Call
        <4> QED
          BY <1>1, <2>1, <2>2, <3>1, <4>1 DEF FreshInv
      <3> QED
        BY <1>2, <3>2, <3>3
    <2>4a. CASE AllocFails(t)
      <3>1. /\ header' = header /\ payload' = payload /\ pc[t] = "store"
            /\ b \in Reachable
        BY <1>2, <1>7, <2>4a, CallOfActive DEF AllocFails, StoreNew, Goto, buffers
      <3> QED
        BY <1>0, <2>1, <3>1 DEF StaleInv, HeldBack
    <2>5. CASE WriteHeader(t)
      <3>1. /\ b \in Reachable /\ pc[t] = "header" /\ pc'[t] = "payload"
            /\ header' = [header EXCEPT ![reg[t]] = Call(t)]
            /\ payload' = payload /\ send_buff' = send_buff /\ reg' = reg
        BY <1>2, <2>5 DEF WriteHeader, StoreNew, Goto, TypeOK
      <3>2. header'[b] \notin Old
        <4>1. CASE reg[t] = b
          BY <1>1, <2>2, <3>1, <4>1 DEF TypeOK
        <4>2. CASE reg[t] # b
          BY <1>0, <1>1, <3>1, <4>2 DEF StaleInv, HeldBack, TypeOK
        <4> QED
          BY <4>1, <4>2
      <3>3. HeldBack(b, {"header", "payload"}) => HeldBack(b, {"header", "payload"})'
        BY <1>3, <3>1 DEF HeldBack
      <3> QED
        BY <1>0, <2>1, <3>1, <3>2, <3>3 DEF StaleInv
    <2>6. CASE WritePayload(t)
      <3>1. /\ b \in Reachable /\ pc[t] = "payload" /\ header' = header
            /\ payload' = [payload EXCEPT ![send_buff] = Call(t)]
        BY <1>2, <2>6 DEF WritePayload, StoreNew, Goto
      <3>2. header'[b] \notin Old
        BY <1>0, <3>1 DEF StaleInv, HeldBack
      <3>3. payload'[b] \notin Old
        <4>1. CASE send_buff = b
          BY <1>1, <2>2, <3>1, <4>1 DEF TypeOK
        <4>2. CASE send_buff # b
          BY <1>0, <1>1, <3>1, <4>2 DEF StaleInv, HeldBack, TypeOK
        <4> QED
          BY <4>1, <4>2
      <3> QED
        BY <2>1, <3>2, <3>3
    <2>7. CASE Crash(t)
      <3>1. /\ b \in Reachable /\ header' = header /\ payload' = payload
            /\ send_buff' = send_buff /\ pc' = pc /\ reg' = reg
        BY <1>2, <2>7 DEF Crash, OutOfMemory, StoreNew, buffers, Goto
      <3> QED
        BY <1>0, <2>1, <3>1 DEF StaleInv, HeldBack
    <2>8. CASE \/ LoadToSend(t) \/ SendAccepted(t) \/ SendRefused(t) \/ SendReturnsNull(t)
               \/ Assign(t) \/ TestOK(t) \/ TestRefused(t) \/ Retry(t)
      <3>1. /\ pc[t] \in {"load", "send", "assign", "test", "retry"}
            /\ header' = header /\ payload' = payload
        BY <2>8 DEF LoadToSend, SendAccepted, SendRefused, SendReturnsNull, Assign, TestOK,
                    TestRefused, Retry, AttemptFailed, Goto, buffers
      <3>2. b \in Reachable
        BY <1>2, <3>1 DEF StoreNew, Goto
      <3>3. header[b] \notin Old /\ payload[b] \notin Old
        BY <1>0, <3>1, <3>2 DEF StaleInv, HeldBack
      <3> QED
        BY <2>1, <3>1, <3>3
    <2>9. ~Begin(t) /\ ~ReturnTrue(t) /\ ~ReturnFalse(t)
      BY <1>7 DEF Active, Begin, ReturnTrue, ReturnFalse, Goto, TypeOK
    <2> QED
      BY <2>3, <2>4, <2>4a, <2>5, <2>6, <2>7, <2>8, <2>9 DEF Sender
  <1> QED
    BY <1>4, <1>5, <1>6, <1>7, PlaceStep

-----------------------------------------------------------------------------
(* The call that overlaps no other.                                        *)

LEMMA AcceptedStep ==
  ASSUME TypeOK, NEW t \in Senders, Sender(t), NEW c
  PROVE  \/ Accepted(c)' = Accepted(c)
         \/ /\ SendAccepted(t) /\ payload[reg[t]] = c
            /\ Accepted(c)' = Accepted(c) \cup {Len(sent) + 1}
  <1>1. CASE sent' = sent
    BY <1>1 DEF Accepted
  <1>2. CASE /\ SendAccepted(t)
             /\ sent' = Append(sent, [header |-> header[reg[t]], payload |-> payload[reg[t]]])
    <2>1. /\ Len(sent') = Len(sent) + 1 /\ Len(sent) \in Nat
          /\ \A i \in 1 .. Len(sent) : sent'[i] = sent[i]
          /\ sent'[Len(sent) + 1].payload = payload[reg[t]]
      BY <1>2 DEF TypeOK
    <2>2. 1 .. Len(sent') = (1 .. Len(sent)) \cup {Len(sent) + 1}
      BY <2>1
    <2>3. CASE payload[reg[t]] = c
      BY <1>2, <2>1, <2>2, <2>3 DEF Accepted
    <2>4. CASE payload[reg[t]] # c
      BY <2>1, <2>2, <2>4 DEF Accepted
    <2> QED
      BY <2>3, <2>4
  <1> QED
    BY <1>1, <1>2, OutcomeStep

\* While a thread is in a call that overlaps no other, no other is in one.
LEMMA LoneOrOverlapped ==
  ASSUME LoneInv, NEW t \in Senders, Active(t), NEW u \in Senders, Active(u),
         Call(t) \notin overlapped
  PROVE  u = t
  BY DEF LoneInv, Alone, Active

LEMMA LoneBegins ==
  ASSUME TypeOK, CallInv, FreshInv, NEW t \in Senders, Begin(t),
         Call(t)' \notin overlapped'
  PROVE  Alone(t)' /\ Undisturbed(t)' /\ Truth(t)'
  <1> DEFINE new == Call(t)'
  <1>1. pc' = [pc EXCEPT ![t] = "alloc"] /\ pc'[t] = "alloc"
    BY DEF Begin, Goto, TypeOK
  <1>2. new \in Calls \ Begun /\ new # NULL /\ new = <<t, calls[t] + 1>>
    BY BeginsCall, NullAssumption
  <1>3. \A u \in Senders \ {t} : pc[u] = "idle"
    BY <1>2 DEF Begin
  <1>4. Alone(t)'
    BY <1>1, <1>3 DEF Alone, TypeOK
  <1>5. Undisturbed(t)'
    BY <1>1 DEF Undisturbed
  <1>6. res'[new] = "none" /\ sent' = sent
    BY <1>2 DEF FreshInv, Begin
  <1>7. \A i \in 1 .. Len(sent') : sent'[i].payload # new
    BY <1>2, <1>6 DEF FreshInv
  <1>8. Accepted(Call(t))' = {}
    BY <1>7 DEF Accepted
  <1> QED
    BY <1>1, <1>4, <1>5, <1>6, <1>8 DEF Truth

LEMMA LoneGoesOn ==
  ASSUME TypeOK, TypeOK', CallInv, NEW t \in Senders, Sender(t), Active(t),
         calls' = calls, pc'[t] # "idle",
         Alone(t), Undisturbed(t), Truth(t)
  PROVE  Alone(t)' /\ Undisturbed(t)' /\ Truth(t)'
  <1>0. PICK c : c = Call(t)
    OBVIOUS
  <1>1. /\ c = Call(t) /\ Call(t)' = c /\ c \in Calls /\ c # NULL
        /\ Accepted(Call(t))' = Accepted(c)'
    BY <1>0, CallOfActive DEF Call, Accepted
  <1>2. Alone(t)'
    BY OnlyItsOwn DEF Alone
  <1>3. res'[c] = res[c]
    BY OutcomeStep DEF ReturnTrue, ReturnFalse, Goto, TypeOK
  <1>4. ~SendAccepted(t) => Accepted(c)' = Accepted(c)
    BY AcceptedStep
  <1> USE DEF Goto, Load, TypeOK
  <1>5. CASE TestNull(t)
    BY <1>1, <1>2, <1>3, <1>4, <1>5 DEF TestNull, Undisturbed, Truth, SendAccepted
  <1>6. CASE StoreNew(t)
    BY <1>1, <1>2, <1>3, <1>4, <1>6 DEF StoreNew, Undisturbed, Truth, SendAccepted
  <1>6a. CASE AllocFails(t)
    BY <1>1, <1>2, <1>3, <1>4, <1>6a DEF AllocFails, Undisturbed, Truth, SendAccepted
  <1>7. CASE WriteHeader(t)
    <2>1. reg[t] \in Calls
      BY <1>7 DEF WriteHeader
    <2> QED
      BY <1>1, <1>2, <1>3, <1>4, <1>7, <2>1 DEF WriteHeader, Undisturbed, Truth, SendAccepted
  <1>8. CASE WritePayload(t)
    BY <1>1, <1>2, <1>3, <1>4, <1>8 DEF WritePayload, Undisturbed, Holds, Truth, SendAccepted
  <1>9. CASE LoadToSend(t)
    BY <1>1, <1>2, <1>3, <1>4, <1>9
    DEF LoadToSend, buffers, Undisturbed, Holds, Truth, SendAccepted
  <1>10. CASE Crash(t)
    BY <1>1, <1>2, <1>3, <1>4, <1>10
    DEF Crash, buffers, Undisturbed, Holds, Truth, SendAccepted, Succeeded
  <1>11. CASE SendAccepted(t)
    <2>1. Undisturbed(t)'
      BY <1>1, <1>11 DEF SendAccepted, Undisturbed, Holds
    <2>2. Accepted(c)' # {}
      <3>1. payload[reg[t]] = c
        BY <1>1, <1>11 DEF SendAccepted, Undisturbed, Holds, Truth
      <3>2. /\ Len(sent') = Len(sent) + 1 /\ Len(sent) \in Nat
            /\ sent'[Len(sent) + 1].payload = payload[reg[t]]
        BY <1>11 DEF SendAccepted
      <3>3. Len(sent) + 1 \in Accepted(c)'
        BY <3>1, <3>2 DEF Accepted
      <3> QED
        BY <3>3
    <2>3. Succeeded(t)' /\ pc'[t] = "assign"
      BY <1>11 DEF SendAccepted, Succeeded
    <2> QED
      BY <1>1, <1>2, <1>3, <2>1, <2>2, <2>3 DEF Truth
  <1>12. CASE SendRefused(t)
    <2>1. Undisturbed(t)'
      BY <1>1, <1>12 DEF SendRefused, Undisturbed, Holds
    <2>2. ~Succeeded(t)' /\ pc'[t] = "assign" /\ pc[t] = "send" /\ sent' = sent
      BY <1>12 DEF SendRefused, Succeeded, outcome
    <2>3. Accepted(c)' = {}
      BY <1>1, <2>2 DEF Truth, Accepted
    <2> QED
      BY <1>1, <1>2, <1>3, <2>1, <2>2, <2>3 DEF Truth
  <1>13. CASE SendReturnsNull(t)
    <2>1. Undisturbed(t)'
      BY <1>1, <1>13 DEF SendReturnsNull, Undisturbed, Holds
    <2>2. ~Succeeded(t)' /\ pc'[t] = "assign" /\ pc[t] = "send" /\ sent' = sent
      BY <1>13 DEF SendReturnsNull, Succeeded, outcome
    <2>3. Accepted(c)' = {}
      BY <1>1, <2>2 DEF Truth, Accepted
    <2> QED
      BY <1>1, <1>2, <1>3, <2>1, <2>2, <2>3 DEF Truth
  <1>14. CASE Assign(t)
    BY <1>1, <1>2, <1>3, <1>4, <1>14
    DEF Assign, buffers, Undisturbed, Holds, Truth, SendAccepted, Succeeded
  <1>15. CASE TestOK(t)
    BY <1>1, <1>2, <1>3, <1>4, <1>15 DEF TestOK, Undisturbed, Truth, SendAccepted
  <1>16. CASE TestRefused(t)
    BY <1>1, <1>2, <1>3, <1>4, <1>16
    DEF TestRefused, buffers, Undisturbed, Holds, Truth, SendAccepted
  <1>17. CASE Retry(t)
    <2>1. attempts'[t] < NAttempts
      BY <1>17, SenderAssumption DEF Retry
    <2>2. pc'[t] = "load" /\ send_buff' = send_buff /\ header' = header /\ payload' = payload
      BY <1>17 DEF Retry, buffers
    <2>3. pc[t] \in {"test", "retry"} /\ Holds(send_buff, c) /\ Accepted(c) = {}
      BY <1>1, <1>17 DEF Retry, AttemptFailed, Undisturbed, Truth, Succeeded
    <2>4. Undisturbed(t)'
      BY <1>1, <2>1, <2>2, <2>3 DEF Undisturbed, Holds
    <2>5. Accepted(c)' = {}
      BY <1>4, <2>3 DEF SendAccepted
    <2> QED
      BY <1>1, <1>2, <1>3, <2>2, <2>4, <2>5 DEF Truth
  <1>18. ~Begin(t) /\ ~ReturnTrue(t) /\ ~ReturnFalse(t)
    BY DEF Begin, ReturnTrue, ReturnFalse, Active
  <1> QED
    BY <1>5, <1>6, <1>6a, <1>7, <1>8, <1>9, <1>10, <1>11, <1>12, <1>13, <1>14,
       <1>15, <1>16, <1>17, <1>18 DEF Sender

LEMMA LoneStep ==
  ASSUME TypeOK, TypeOK', CallInv, FreshInv, LoneInv, NEW t \in Senders, Sender(t)
  PROVE  LoneInv'
  <1>1. SUFFICES ASSUME NEW u \in Senders, Active(u)', Call(u)' \notin overlapped'
                 PROVE  Alone(u)' /\ Undisturbed(u)' /\ Truth(u)'
    BY DEF LoneInv
  <1>2. CASE u # t
    <2>1. Active(u) /\ Call(u)' = Call(u)
      BY <1>1, <1>2, OnlyItsOwn DEF Active
    <2>2. ~Begin(t)
      BY <1>1, <1>2, <2>1 DEF Begin, Active
    <2>3. Active(t) /\ overlapped' = overlapped
      BY <2>2, PlaceStep, ReturnsCall DEF Active
    <2> QED
      BY <1>1, <1>2, <2>1, <2>3, LoneOrOverlapped
  <1>3. CASE u = t /\ Begin(t)
    BY <1>1, <1>3, LoneBegins
  <1>4. CASE u = t /\ ~Begin(t)
    <2>1. ~Return(t)
      BY <1>1, <1>4, ReturnsCall DEF Active, TypeOK
    <2>2. Active(t) /\ calls' = calls /\ overlapped' = overlapped /\ pc'[t] # "idle"
      BY <1>4, <2>1, PlaceStep
    <2>3. Call(t) \notin overlapped
      BY <1>1, <1>4, <2>2 DEF Call
    <2> QED
      BY <1>4, <2>2, <2>3, LoneGoesOn DEF LoneInv
  <1> QED
    BY <1>2, <1>3, <1>4

-----------------------------------------------------------------------------
(* What RMR is given, what a call returns, and where NULL is met.          *)

\* A buffer on its way to RMR holds the one lone message there is, or only
\* what overlapping calls wrote.
LEMMA OnItsWay ==
  ASSUME TypeOK, FreshInv, StaleInv, LoneInv, NEW t \in Senders, pc[t] = "send",
         reg[t] \in Calls
  PROVE  \/ /\ Call(t) \notin overlapped
            /\ header[reg[t]] = Call(t) /\ payload[reg[t]] = Call(t)
         \/ {header[reg[t]], payload[reg[t]]} \subseteq overlapped \cup {NULL}
  <1>1. CASE Call(t) \notin overlapped
    BY <1>1, NullAssumption DEF LoneInv, Undisturbed, Holds, Active
  <1>2. CASE Call(t) \in overlapped
    <2>1. SUFFICES ASSUME NEW x \in {header[reg[t]], payload[reg[t]]}, x # NULL
                   PROVE  x \in overlapped
      OBVIOUS
    <2>2. x \in Begun
      BY <2>1 DEF FreshInv
    <2>3. x \notin Old
      BY <2>1, NullAssumption DEF StaleInv, HeldBack, Reachable
    <2>4. CASE x \in Current /\ x \notin overlapped
      <3>1. x[1] \in Senders /\ Active(x[1]) /\ Call(x[1]) = x
        BY <2>4, CallsAre DEF Current
      <3>2. x[1] = t
        BY <2>4, <3>1, LoneOrOverlapped DEF Active
      <3> QED
        BY <1>2, <2>4, <3>1, <3>2
    <2> QED
      BY <2>2, <2>3, <2>4 DEF Old
  <1> QED
    BY <1>1, <1>2

LEMMA OverlappedStep ==
  ASSUME TypeOK, CallInv, NEW t \in Senders, Sender(t)
  PROVE  overlapped \subseteq overlapped'
  BY PlaceStep, BeginsCall, ReturnsCall

LEMMA MessageStep ==
  ASSUME TypeOK, CallInv, FreshInv, StaleInv, LoneInv, LoneMessageIntact,
         NEW t \in Senders, Sender(t)
  PROVE  LoneMessageIntact'
  <1>1. CASE sent' = sent
    BY <1>1, OverlappedStep DEF LoneMessageIntact
  <1>2. CASE /\ SendAccepted(t) /\ reg[t] \in Calls
             /\ sent' = Append(sent, [header |-> header[reg[t]], payload |-> payload[reg[t]]])
    <2>1. /\ Len(sent') = Len(sent) + 1 /\ Len(sent) \in Nat
          /\ \A i \in 1 .. Len(sent) : sent'[i] = sent[i]
          /\ sent'[Len(sent) + 1] = [header |-> header[reg[t]], payload |-> payload[reg[t]]]
      BY <1>2 DEF TypeOK
    <2>2. pc[t] = "send" /\ overlapped' = overlapped
      BY <1>2 DEF SendAccepted, Goto
    <2>3. ASSUME NEW i \in 1 .. Len(sent'),
                 {sent'[i].header, sent'[i].payload} \ (overlapped' \cup {NULL}) # {}
          PROVE  sent'[i].header = sent'[i].payload
      <3>1. CASE i \in 1 .. Len(sent)
        BY <2>1, <2>2, <2>3, <3>1 DEF LoneMessageIntact
      <3>2. CASE i = Len(sent) + 1
        BY <1>2, <2>1, <2>2, <2>3, <3>2, OnItsWay
      <3> QED
        BY <2>1, <2>3, <3>1, <3>2
    <2> QED
      BY <2>3 DEF LoneMessageIntact
  <1> QED
    BY <1>1, <1>2, OutcomeStep

LEMMA ResultStep ==
  ASSUME TypeOK, CallInv, FreshInv, StaleInv, LoneInv, LoneResultTellsTruth,
         NEW t \in Senders, Sender(t)
  PROVE  LoneResultTellsTruth'
  <1> DEFINE Honest(c) == /\ \A i, j \in Accepted(c) : i = j
                          /\ res[c] = "true" => Accepted(c) # {}
                          /\ res[c] = "false" => Accepted(c) = {}
  <1>1. SUFFICES ASSUME NEW c \in Calls, c \notin overlapped' PROVE Honest(c)'
    BY DEF LoneResultTellsTruth
  <1>2. c \notin overlapped /\ Honest(c)
    BY <1>1, OverlappedStep DEF LoneResultTellsTruth
  <1>3. c = Call(t) /\ Active(t) => Truth(t)
    BY <1>2 DEF LoneInv
  <1>4. CASE /\ SendAccepted(t) /\ payload[reg[t]] = c
             /\ Accepted(c)' = Accepted(c) \cup {Len(sent) + 1}
    <2>1. pc[t] = "send" /\ reg[t] \in Calls /\ res' = res
      BY <1>4 DEF SendAccepted, Goto, TypeOK
    <2>2. c = Call(t)
      BY <1>1, <1>2, <1>4, <2>1, OnItsWay, NullAssumption
    <2>3. Accepted(c) = {} /\ res[c] = "none"
      BY <1>3, <2>1, <2>2 DEF Truth, Active
    <2> QED
      BY <1>4, <2>1, <2>3
  <1>5. CASE Accepted(c)' = Accepted(c) /\ res'[c] = res[c]
    BY <1>2, <1>5
  <1>6. CASE Accepted(c)' = Accepted(c) /\ ReturnTrue(t) /\ c = Call(t)
    <2>1. pc[t] = "reset" /\ res'[c] = "true"
      BY <1>6 DEF ReturnTrue, Goto, TypeOK
    <2>2. Accepted(c) # {}
      BY <1>3, <1>6, <2>1 DEF Truth, Active
    <2> QED
      BY <1>2, <1>6, <2>1, <2>2
  <1>7. CASE Accepted(c)' = Accepted(c) /\ ReturnFalse(t) /\ c = Call(t)
    <2>1. AttemptFailed(t) /\ res'[c] = "false"
      BY <1>7 DEF ReturnFalse, TypeOK
    <2>2. Accepted(c) = {}
      BY <1>3, <1>7, <2>1 DEF Truth, Active, AttemptFailed, Succeeded
    <2> QED
      BY <1>2, <1>7, <2>1, <2>2
  <1>8. res'[c] = res[c] \/ (ReturnTrue(t) /\ c = Call(t)) \/ (ReturnFalse(t) /\ c = Call(t))
    BY OutcomeStep DEF TypeOK
  <1>9. SendAccepted(t) => res' = res
    BY DEF SendAccepted
  <1> QED
    BY <1>4, <1>5, <1>6, <1>7, <1>8, <1>9, AcceptedStep

LEMMA NullStep ==
  ASSUME TypeOK, CallInv, LoneInv, NEW t \in Senders, Sender(t)
  PROVE  NullOnlyUnallocatedOrByOverlap'
  <1>1. CASE Crash(t)
    <2>1. pc' = pc /\ reg' = reg /\ calls' = calls /\ overlapped' = overlapped
      BY <1>1 DEF Crash
    <2>2. CASE OutOfMemory(t)
      BY <2>1, <2>2 DEF NullOnlyUnallocatedOrByOverlap, OutOfMemory
    <2>3. CASE ~OutOfMemory(t)
      <3>1. /\ pc[t] \in {"payload", "load", "retry"} /\ send_buff = NULL
            /\ pc[t] = "load" => attempts[t] = NAttempts
        BY <1>1, <2>3 DEF Crash
      <3>2. Call(t) \in overlapped
        <4>1. SUFFICES ASSUME Call(t) \notin overlapped PROVE FALSE
          OBVIOUS
        <4>2. Undisturbed(t) /\ attempts[t] \in Nat /\ NAttempts \in Nat
          BY <3>1, <4>1, SenderAssumption DEF LoneInv, Active, TypeOK
        <4> QED
          BY <3>1, <4>2 DEF Undisturbed, CallInv
      <3> QED
        BY <2>1, <3>1, <3>2 DEF NullOnlyUnallocatedOrByOverlap, Call
    <2> QED
      BY <2>2, <2>3
  <1>2. CASE ~crashed'
    BY <1>2 DEF NullOnlyUnallocatedOrByOverlap
  <1>3. Crash(t) \/ ~crashed'
    BY DEF Sender, Goto, outcome, Begin, TestNull, StoreNew, AllocFails, WriteHeader, WritePayload,
       LoadToSend, SendAccepted, SendRefused, SendReturnsNull, Assign, TestOK, ReturnTrue,
       TestRefused, Retry, ReturnFalse
  <1> QED
    BY <1>1, <1>2, <1>3

-----------------------------------------------------------------------------
(* The theorems.                                                           *)

LEMMA NextIInv == IInv /\ [Next]_vars => IInv'
  <1>1. ASSUME IInv, NEW t \in Senders, Sender(t)
        PROVE  IInv'
    <2>1. TypeOK' /\ CallInv'
      BY <1>1, TypeStep DEF IInv
    <2>2. FreshInv'
      BY <1>1, FreshStep DEF IInv
    <2>3. StaleInv'
      BY <1>1, <2>1, StaleStep DEF IInv
    <2>4. LoneInv'
      BY <1>1, <2>1, LoneStep DEF IInv
    <2>5. LoneMessageIntact' /\ LoneResultTellsTruth' /\ NullOnlyUnallocatedOrByOverlap'
      BY <1>1, MessageStep, ResultStep, NullStep DEF IInv
    <2> QED
      BY <2>1, <2>2, <2>3, <2>4, <2>5 DEF IInv
  <1>2. ASSUME IInv, UNCHANGED vars
        PROVE  IInv'
    <2> USE <1>2 DEF vars, buffers, outcome
    <2>1. TypeOK' /\ CallInv'
      BY DEF IInv, TypeOK, CallInv, Active
    <2>2. /\ Begun' = Begun /\ Current' = Current /\ Reachable' = Reachable
          /\ Old' = Old
      BY DEF Begun, Current, Old, Reachable, Active, Call
    <2>3. FreshInv'
      BY <2>2 DEF IInv, FreshInv, NotStored
    <2>4. StaleInv'
      BY <2>2 DEF IInv, StaleInv, HeldBack
    <2>5. LoneInv'
      BY DEF IInv, LoneInv, Alone, Undisturbed, Holds, Truth, Succeeded, Accepted, Active, Call
    <2>6. LoneMessageIntact' /\ LoneResultTellsTruth' /\ NullOnlyUnallocatedOrByOverlap'
      BY DEF IInv, LoneMessageIntact, LoneResultTellsTruth, Accepted, NullOnlyUnallocatedOrByOverlap,
         OutOfMemory, Call
    <2> QED
      BY <2>1, <2>3, <2>4, <2>5, <2>6 DEF IInv
  <1> QED
    BY <1>1, <1>2 DEF Next, Done

\* The inductive invariant holds in every behaviour of the senders.
THEOREM Invariance == Spec => []IInv
  BY InitIInv, NextIInv, PTL DEF Spec

\* Every variable keeps its type: the retries are counted down to 0, never
\* below it.
THEOREM TypeCorrect == Spec => []TypeOK
  BY Invariance, PTL DEF IInv

\* What RMR accepts from a call of xapp_rmr_send that overlaps no other carries
\* the header and the payload of that call, whatever buffer earlier calls left.
THEOREM MessageOfOneCall == Spec => []LoneMessageIntact
  BY Invariance, PTL DEF IInv

\* Such a call returns true exactly when RMR accepted its message, once.
THEOREM ResultIsTrue == Spec => []LoneResultTellsTruth
  BY Invariance, PTL DEF IInv

\* NULL is dereferenced only where rmr_alloc_msg gave no buffer, or in a call
\* that overlaps another: never because of what rmr_send_msg has answered.
THEOREM NullNeedsCause == Spec => []NullOnlyUnallocatedOrByOverlap
  BY Invariance, PTL DEF IInv
==============================================================================
