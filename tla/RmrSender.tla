------------------------------ MODULE RmrSender ------------------------------
(***************************************************************************)
(* XappRmr::xapp_rmr_send (xapp-utils/xapp_rmr.cc): a message is written   *)
(* into the member _xapp_send_buff and handed to RMR, a bounded number of  *)
(* times.  The object is shared by main (subscriptions), the agent threads *)
(* (control requests) and the external control thread (termination), and   *)
(* the member has no lock.  Every load and store of it is a step of its    *)
(* own, placed where the -O2 build of the Makefile has it: the pointer is  *)
(* loaded again after each call into another library, and the result of    *)
(* rmr_send_msg is tested in the register it was returned in.              *)
(*                                                                         *)
(* A buffer is identified with the call that allocated it.  The header and *)
(* the payload of a message are represented by the call they come from.    *)
(***************************************************************************)
EXTENDS Integers, Sequences

CONSTANTS Senders,    \* the threads that send
          Quota,      \* bound: how many calls each thread makes
          NAttempts,  \* _nattempts
          NULL

Calls == UNION {{t} \X (1 .. Quota[t]) : t \in Senders}

ASSUME SenderAssumption == Quota \in [Senders -> Nat] /\ NAttempts \in Nat \ {0}
ASSUME NullAssumption == NULL \notin Calls

VARIABLES
  send_buff,  \* _xapp_send_buff: a buffer or NULL
  header,     \* whose header each buffer holds
  payload,    \* whose payload
  state,      \* the state RMR left in it
  pc,         \* where each sender is
  calls,      \* how many calls it has made
  attempts,   \* rmr_attempts
  reg,        \* the pointer the thread holds in a register
  res,        \* what each call returned, "none" before
  sent,       \* the messages RMR accepted, in order
  crashed,    \* the process dereferenced NULL
  overlapped  \* history: the calls that ran while another one did

vars == <<send_buff, header, payload, state, pc, calls, attempts, reg, res,
          sent, crashed, overlapped>>
buffers == <<header, payload, state>>
outcome == <<res, sent, crashed, overlapped>>

State == {"new", "RMR_OK", "RMR_ERR_RETRY"}

TypeOK ==
  /\ send_buff \in Calls \cup {NULL}
  /\ header \in [Calls -> Calls \cup {NULL}]
  /\ payload \in [Calls -> Calls \cup {NULL}]
  /\ state \in [Calls -> State]
  /\ pc \in [Senders -> {"idle", "alloc", "store", "header", "payload", "load",
                         "send", "assign", "test", "reset", "retry"}]
  /\ calls \in [Senders -> Nat] /\ \A t \in Senders : calls[t] <= Quota[t]
  /\ attempts \in [Senders -> 0 .. NAttempts]
  /\ reg \in [Senders -> Calls \cup {NULL}]
  /\ res \in [Calls -> {"none", "true", "false"}]
  /\ sent \in Seq([header : Calls \cup {NULL}, payload : Calls \cup {NULL}])
  /\ crashed \in BOOLEAN
  /\ overlapped \subseteq Calls

Init ==
  /\ send_buff = NULL
  /\ header = [b \in Calls |-> NULL]
  /\ payload = [b \in Calls |-> NULL]
  /\ state = [b \in Calls |-> "new"]
  /\ pc = [t \in Senders |-> "idle"]
  /\ calls = [t \in Senders |-> 0]
  /\ attempts = [t \in Senders |-> 0]
  /\ reg = [t \in Senders |-> NULL]
  /\ res = [c \in Calls |-> "none"]
  /\ sent = <<>>
  /\ crashed = FALSE
  /\ overlapped = {}

Call(t) == <<t, calls[t]>>
Goto(t, from, to) == ~crashed /\ pc[t] = from /\ pc' = [pc EXCEPT ![t] = to]
Load(t, pointer) == reg' = [reg EXCEPT ![t] = pointer]

-----------------------------------------------------------------------------

Begin(t) ==
  /\ Goto(t, "idle", "alloc")
  /\ calls[t] < Quota[t]
  /\ calls' = [calls EXCEPT ![t] = @ + 1]
  /\ attempts' = [attempts EXCEPT ![t] = NAttempts]
  /\ LET others == {u \in Senders \ {t} : pc[u] # "idle"}
     IN  overlapped' = IF others = {} THEN overlapped
                       ELSE overlapped \cup {<<t, calls[t] + 1>>}
                                       \cup {Call(u) : u \in others}
  /\ UNCHANGED <<send_buff, buffers, reg, res, sent, crashed>>

\* Mutant: the member is taken for a buffer without a look.
TestNull_NoCheck(t) ==
  /\ Goto(t, "alloc", "payload")
  /\ UNCHANGED <<send_buff, buffers, calls, attempts, reg, outcome>>

\* A buffer is allocated only when the member is NULL ...
TestNull(t) ==
  /\ Goto(t, "alloc", IF send_buff = NULL THEN "store" ELSE "header")
  /\ Load(t, send_buff)
  /\ UNCHANGED <<send_buff, buffers, calls, attempts, outcome>>

\* ... and stored after the test.
StoreNew(t) ==
  /\ Goto(t, "store", "header")
  /\ send_buff' = Call(t)
  /\ Load(t, Call(t))
  /\ UNCHANGED <<buffers, calls, attempts, outcome>>

\* rmr_alloc_msg has no memory to give; its result is stored all the same,
\* and nobody looks at it.
AllocFails(t) ==
  /\ Goto(t, "store", "header")
  /\ send_buff' = NULL
  /\ Load(t, NULL)
  /\ UNCHANGED <<buffers, calls, attempts, outcome>>

\* Mutant: a buffer that is there from a failed call is taken as filled.
WriteHeader_ReuseFilled(t) ==
  /\ reg[t] # NULL
  /\ Goto(t, "header", IF payload[reg[t]] = NULL THEN "payload" ELSE "load")
  /\ header' = [header EXCEPT ![reg[t]] = Call(t)]
  /\ UNCHANGED <<send_buff, payload, state, calls, attempts, reg, outcome>>

\* rmr_header writes through the pointer that was tested or allocated.
WriteHeader(t) ==
  /\ Goto(t, "header", "payload")
  /\ reg[t] # NULL
  /\ header' = [header EXCEPT ![reg[t]] = Call(t)]
  /\ UNCHANGED <<send_buff, payload, state, calls, attempts, reg, outcome>>

\* The memcpy writes to the buffer the member points to by then.
WritePayload(t) ==
  /\ Goto(t, "payload", "load")
  /\ send_buff # NULL
  /\ payload' = [payload EXCEPT ![send_buff] = Call(t)]
  /\ UNCHANGED <<send_buff, header, state, calls, attempts, reg, outcome>>

\* The pointer for rmr_send_msg: before the first attempt the length is
\* written through it, before the others it is only passed on.
LoadToSend(t) ==
  /\ Goto(t, "load", "send")
  /\ send_buff # NULL \/ attempts[t] < NAttempts
  /\ Load(t, send_buff)
  /\ UNCHANGED <<send_buff, buffers, calls, attempts, outcome>>

\* rmr_header is about to write to the buffer that could not be allocated.
OutOfMemory(t) == pc[t] = "header" /\ reg[t] = NULL

\* NULL is dereferenced: no buffer could be allocated, or another thread has
\* reset the member since.
Crash(t) ==
  /\ ~crashed
  /\ \/ OutOfMemory(t)
     \/ pc[t] \in {"payload", "retry"} /\ send_buff = NULL
     \/ pc[t] = "load" /\ attempts[t] = NAttempts /\ send_buff = NULL
  /\ crashed' = TRUE
  /\ UNCHANGED <<send_buff, buffers, pc, calls, attempts, reg, res, sent,
                 overlapped>>

\* rmr_send_msg accepts the message, asks for a retry, or keeps the buffer;
\* given NULL it returns NULL.
SendAccepted(t) ==
  /\ Goto(t, "send", "assign")
  /\ reg[t] # NULL
  /\ sent' = Append(sent, [header |-> header[reg[t]],
                           payload |-> payload[reg[t]]])
  /\ state' = [state EXCEPT ![reg[t]] = "RMR_OK"]
  /\ UNCHANGED <<send_buff, header, payload, calls, attempts, reg, res,
                 crashed, overlapped>>

SendRefused(t) ==
  /\ Goto(t, "send", "assign")
  /\ reg[t] # NULL
  /\ state' = [state EXCEPT ![reg[t]] = "RMR_ERR_RETRY"]
  /\ UNCHANGED <<send_buff, header, payload, calls, attempts, reg, outcome>>

SendReturnsNull(t) ==
  /\ Goto(t, "send", "assign")
  /\ Load(t, NULL)
  /\ UNCHANGED <<send_buff, buffers, calls, attempts, outcome>>

\* The result of rmr_send_msg is stored in the member.
Assign(t) ==
  /\ Goto(t, "assign", "test")
  /\ send_buff' = reg[t]
  /\ UNCHANGED <<buffers, calls, attempts, reg, outcome>>

Succeeded(t) == reg[t] # NULL /\ state[reg[t]] = "RMR_OK"

\* Mutant: the loop goes on after RMR_OK until the attempts are used up.
TestOK_KeepsSending(t) ==
  /\ Goto(t, "test", IF attempts[t] = 1 THEN "reset" ELSE "load")
  /\ Succeeded(t)
  /\ attempts' = [attempts EXCEPT ![t] = @ - 1]
  /\ UNCHANGED <<send_buff, buffers, calls, reg, outcome>>

TestOK(t) ==
  /\ Goto(t, "test", "reset")
  /\ Succeeded(t)
  /\ attempts' = [attempts EXCEPT ![t] = 0]
  /\ Load(t, NULL)
  /\ UNCHANGED <<send_buff, buffers, calls, outcome>>

\* RMR_OK: the member is reset and the call returns true.
ReturnTrue(t) ==
  /\ Goto(t, "reset", "idle")
  /\ send_buff' = NULL
  /\ res' = [res EXCEPT ![Call(t)] = "true"]
  /\ UNCHANGED <<buffers, calls, attempts, reg, sent, crashed, overlapped>>

\* Any other state: the branch looks at the member once more.
TestRefused(t) ==
  /\ Goto(t, "test", "retry")
  /\ reg[t] # NULL /\ ~Succeeded(t)
  /\ UNCHANGED <<send_buff, buffers, calls, attempts, reg, outcome>>

AttemptFailed(t) == \/ pc[t] = "retry" /\ send_buff # NULL
                    \/ pc[t] = "test" /\ reg[t] = NULL

\* Mutant: the loop runs while rmr_attempts >= 0.
Retry_OffByOne(t) ==
  /\ AttemptFailed(t)
  /\ Goto(t, pc[t], "load")
  /\ attempts' = [attempts EXCEPT ![t] = @ - 1]
  /\ Load(t, NULL)
  /\ UNCHANGED <<send_buff, buffers, calls, outcome>>

\* Mutant: only a NULL result is counted.
Retry_Uncounted(t) ==
  /\ AttemptFailed(t)
  /\ Goto(t, pc[t], "load")
  /\ attempts[t] > 1
  /\ attempts' = [attempts EXCEPT ![t] = IF pc[t] = "test" THEN @ - 1 ELSE @]
  /\ Load(t, NULL)
  /\ UNCHANGED <<send_buff, buffers, calls, outcome>>

\* A failed attempt, a NULL result included, is counted.
Retry(t) ==
  /\ AttemptFailed(t)
  /\ Goto(t, pc[t], "load")
  /\ attempts[t] > 1
  /\ attempts' = [attempts EXCEPT ![t] = @ - 1]
  /\ Load(t, NULL)
  /\ UNCHANGED <<send_buff, buffers, calls, outcome>>

ReturnFalse(t) ==
  /\ AttemptFailed(t)
  /\ Goto(t, pc[t], "idle")
  /\ attempts[t] <= 1
  /\ attempts' = [attempts EXCEPT ![t] = 0]
  /\ Load(t, NULL)
  /\ res' = [res EXCEPT ![Call(t)] = "false"]
  /\ UNCHANGED <<send_buff, buffers, calls, sent, crashed, overlapped>>

Sender(t) ==
  \/ Begin(t) \/ TestNull(t) \/ StoreNew(t) \/ AllocFails(t)
  \/ WriteHeader(t) \/ WritePayload(t) \/ LoadToSend(t) \/ Crash(t)
  \/ SendAccepted(t) \/ SendRefused(t) \/ SendReturnsNull(t)
  \/ Assign(t) \/ TestOK(t) \/ ReturnTrue(t) \/ TestRefused(t)
  \/ Retry(t) \/ ReturnFalse(t)

\* Every sender has made its calls: no more of the program to follow.
Done ==
  /\ crashed \/ \A t \in Senders : pc[t] = "idle" /\ calls[t] = Quota[t]
  /\ UNCHANGED vars

Next == (\E t \in Senders : Sender(t)) \/ Done

Spec == Init /\ [][Next]_vars /\ \A t \in Senders : WF_vars(Sender(t))

-----------------------------------------------------------------------------
(* Properties.                                                             *)

\* What RMR accepts from a call that overlaps no other carries the header and
\* the payload of that call, whatever buffer earlier calls left behind.
LoneMessageIntact ==
  \A i \in 1 .. Len(sent) :
    {sent[i].header, sent[i].payload} \ (overlapped \cup {NULL}) # {}
      => sent[i].header = sent[i].payload

Accepted(c) == {i \in 1 .. Len(sent) : sent[i].payload = c}

\* Such a call returns true exactly when RMR accepted its message, and RMR
\* accepts it no second time, whatever failures and retries came in between.
LoneResultTellsTruth ==
  \A c \in Calls \ overlapped :
    /\ \A i, j \in Accepted(c) : i = j
    /\ res[c] = "true" => Accepted(c) # {}
    /\ res[c] = "false" => Accepted(c) = {}

\* The process dies of a NULL buffer in one of two ways only: rmr_alloc_msg had
\* no memory to give and rmr_header wrote to its result, or a call that overlaps
\* another found the member NULL after its own test.  No sequence of refusals
\* and NULL results of rmr_send_msg leads a call that overlaps no other there.
NullOnlyUnallocatedOrByOverlap ==
  crashed => \E t \in Senders :
    \/ OutOfMemory(t)
    \/ pc[t] \in {"payload", "load", "retry"} /\ Call(t) \in overlapped

\* Every send returns, unless the process dies: the attempts are used up even
\* when another thread replaces the buffer under the test.
SendReturns == \A t \in Senders : pc[t] = "alloc" ~> pc[t] = "idle" \/ crashed

\* xapp_rmr.cc: "RMR Send with payload and header": what RMR accepts carries
\* the header and the payload of one call.
MessageIntact ==
  \A i \in 1 .. Len(sent) : sent[i].header = sent[i].payload
=============================================================================
