-------------------------- MODULE RmrReceiverProofs --------------------------
(***************************************************************************)
(* The receive loop: its types, for any receivers of one buffer, and what  *)
(* it answers and hands on, for the one receiver the program starts.       *)
(***************************************************************************)
EXTENDS RmrReceiver, SequenceTheorems, TLAPS

\* start_xapp_receiver is called once: one thread at most is in the loop.
AtMostOneReceiver == \A r, s \in Receivers : r = s

-----------------------------------------------------------------------------
(* The inductive invariant of any receivers.                               *)

\* How many messages the receivers have taken from RMR.
NTaken == Len(arrived) - Len(incoming)

\* RMR holds the latest messages, in the order of their arrival.
QueueInv ==
  /\ arrived \in Seq(Contents)
  /\ NTaken >= 0
  /\ \A i \in 1 .. Len(incoming) : incoming[i] = NTaken + i

\* What an accepted request is turned into, in its own buffer.
HealthAnswer(c) == [c EXCEPT !.mtype = RIC_HEALTH_CHECK_RESP,
                             !.payload = [text |-> "HELLOWORLD OK"]]
PolicyAnswer(c) == [c EXCEPT !.mtype = A1_POLICY_RESP, !.payload = A1Answer(@)]

\* A buffer holds the message that arrived in it, or, once the message has been
\* taken, the answer to it.
Buffers == Contents \cup {HealthAnswer(c) : c \in Contents}
                    \cup {PolicyAnswer(c) : c \in Contents}
BufferInv ==
  /\ mbuf \in Seq(Buffers) /\ Len(mbuf) = Len(arrived)
  /\ \A m \in 1 .. Len(arrived) :
       \/ mbuf[m] = arrived[m]
       \/ /\ arrived[m].mtype = RIC_HEALTH_CHECK_REQ
          /\ mbuf[m] = HealthAnswer(arrived[m])
       \/ /\ arrived[m].mtype = A1_POLICY_REQ
          /\ a1_policy_handler(arrived[m].payload)
          /\ mbuf[m] = PolicyAnswer(arrived[m])
  /\ \A m \in 1 .. Len(arrived) : m > NTaken => mbuf[m] = arrived[m]

\* A receiver with a message in hand has one that arrived.
HeldInv ==
  /\ \A r \in Receivers : pc[r] \in {"check", "process", "agents", "return"} => received # NoMsg
  /\ received <= NTaken
  /\ returned \in Seq(Ids \X Buffers)

TypeInv == TypeOK /\ QueueInv /\ BufferInv /\ HeldInv

-----------------------------------------------------------------------------
(* The inductive invariant of one receiver.                                *)

Answers(request, answer) ==
  \/ answer.mtype = RIC_HEALTH_CHECK_RESP
  \/ /\ answer.mtype = A1_POLICY_RESP
     /\ answer.payload.status = "OK"
     /\ answer.payload.policy_instance_id = request.payload.policy_instance_id

\* Its message is the last one taken, unchanged until it is processed; the flag
\* is set between the processor and the return, for an answer only.
InHandInv ==
  \A r \in Receivers :
    /\ pc[r] \in {"check", "process", "agents", "return"} => received = NTaken
    /\ pc[r] \in {"check", "process"} => mbuf[received] = arrived[received]
    /\ pc[r] \in {"process", "agents", "return"} => ~Bad(arrived[received])
    /\ pc[r] \in {"agents", "return"} =>
         /\ resend[r] <=> Accepted(arrived[received])
         /\ resend[r] => Answers(arrived[received], mbuf[received])
    /\ resend[r] => pc[r] \in {"agents", "return"}

\* The histories are complete up to the message in hand.
InHand(places) == \E r \in Receivers : pc[r] \in places
NDone(places) == IF InHand(places) THEN NTaken - 1 ELSE NTaken
NReturned == NDone({"check", "process", "agents", "return"})
NDispatched == NDone({"check", "process"})

HistoryInv ==
  /\ OnceInOrder([k \in DOMAIN returned |-> returned[k][1]],
                 {i \in 1 .. NReturned : Accepted(arrived[i])})
  /\ OnceInOrder([k \in DOMAIN dispatched |-> dispatched[k][2]],
                 {i \in 1 .. NDispatched : HandedOn(arrived[i])})
  /\ \A k \in DOMAIN dispatched :
       dispatched[k][1] = Handler(arrived[dispatched[k][2]])

OneInv == InHandInv /\ ReturnedAreAnswers /\ HistoryInv

-----------------------------------------------------------------------------
(* What the operators do.                                                  *)

LEMMA MessageTypes ==
  ASSUME NEW c \in Contents
  PROVE  /\ HealthAnswer(c).mtype = RIC_HEALTH_CHECK_RESP
         /\ PolicyAnswer(c).mtype = A1_POLICY_RESP
         /\ PolicyAnswer(c).payload = A1Answer(c.payload)
         /\ c.mtype \in Int
  BY ContentsAssumption DEF HealthAnswer, PolicyAnswer

LEMMA TwoFields ==
  ASSUME NEW S, NEW s \in Seq(S), NEW m \in 1 .. Len(s), NEW x, NEW y,
         NEW T, NEW U, NEW V, s[m] \in [mtype : Int, state : T, payload : U, size : V]
  PROVE  [s EXCEPT ![m].mtype = x, ![m].payload = y]
           = [s EXCEPT ![m] = [s[m] EXCEPT !.mtype = x, !.payload = y]]
  OBVIOUS

\* An accepted policy keeps the instance it asked for in its answer.
LEMMA PolicyAnswered ==
  ASSUME NEW p, a1_policy_handler(p)
  PROVE  /\ A1Answer(p).status = "OK"
         /\ A1Answer(p).policy_instance_id = p.policy_instance_id
  <1>1. "policy_instance_id" \in DOMAIN p
    BY DEF a1_policy_handler
  <1> QED
    BY <1>1 DEF A1Answer

\* Messages are between the handled and the waiting.
LEMMA TakenAre == ASSUME TypeOK, QueueInv PROVE Taken = 1 .. NTaken
  <1>1. /\ Len(arrived) \in Nat /\ Len(incoming) \in Nat /\ NTaken \in Nat
        /\ DOMAIN arrived = 1 .. Len(arrived)
    BY DEF TypeOK, QueueInv, NTaken
  <1>2. ASSUME NEW i \in 1 .. Len(arrived)
        PROVE  Contains(incoming, i) <=> i > NTaken
    <2>1. CASE i > NTaken
      <3>1. i - NTaken \in 1 .. Len(incoming)
        BY <1>1, <2>1 DEF NTaken
      <3>2. incoming[i - NTaken] = i
        BY <1>1, <3>1 DEF QueueInv
      <3> QED
        BY <2>1, <3>1, <3>2 DEF Contains
    <2>2. CASE i <= NTaken
      BY <1>1, <2>2 DEF Contains, QueueInv
    <2> QED
      BY <1>1, <2>1, <2>2
  <1>3. NTaken <= Len(arrived)
    BY <1>1 DEF NTaken
  <1> QED
    BY <1>1, <1>2, <1>3 DEF Taken

\* The processor answers in the buffer, hands the message on, or does neither.
Handle(r) == Process(r) \/ Indication(r)

LEMMA ProcessStep ==
  ASSUME TypeInv, NEW r \in Receivers, Handle(r)
  PROVE  /\ received \in 1 .. Len(arrived) /\ Len(arrived) \in Nat
         /\ pc[r] = "process" /\ pc' = [pc EXCEPT ![r] = pc'[r]]
         /\ pc'[r] \in {"agents", "return"}
         /\ \/ mbuf' = mbuf
            \/ /\ arrived[received].mtype = RIC_HEALTH_CHECK_REQ
               /\ mbuf' = [mbuf EXCEPT ![received] = HealthAnswer(arrived[received])]
            \/ /\ arrived[received].mtype = A1_POLICY_REQ
               /\ a1_policy_handler(arrived[received].payload)
               /\ mbuf' = [mbuf EXCEPT ![received] = PolicyAnswer(arrived[received])]
         /\ \/ dispatched' = dispatched
            \/ \E h \in {"agents", "subscriptions"} :
                 dispatched' = Append(dispatched, <<h, received>>)
         /\ resend' \in [Receivers -> BOOLEAN]
         /\ \A s \in Receivers \ {r} : resend'[s] = resend[s]
         /\ UNCHANGED <<traffic, _listen, received, alive, returned>>
  <1> DEFINE m == received
  <1> USE DEF Handle
  <1>1. m \in 1 .. Len(arrived) /\ Len(arrived) \in Nat /\ pc[r] = "process"
    BY DEF Process, Indication, Goto, TypeInv, TypeOK, HeldInv, NoMsg
  <1>0. /\ pc' = [pc EXCEPT ![r] = pc'[r]] /\ pc'[r] \in {"agents", "return"}
        /\ UNCHANGED <<traffic, _listen, received, alive, returned>>
    BY DEF Process, Indication, Goto, TypeInv, TypeOK
  <1>2. mbuf \in Seq(Buffers) /\ m \in 1 .. Len(mbuf) /\ arrived[m] \in Contents
    BY <1>1 DEF TypeInv, TypeOK, BufferInv
  <1>3. arrived[m] \in [mtype : Int, state : {arrived[m].state}, payload : {arrived[m].payload},
                       size : {"short", "long", "oversize"}]
    BY <1>2, ContentsAssumption
  <1>4. mbuf[m].mtype \in {RIC_HEALTH_CHECK_REQ, A1_POLICY_REQ} => mbuf[m] = arrived[m]
    BY <1>1, <1>2, MessageTypes
    DEF TypeInv, BufferInv, RIC_HEALTH_CHECK_REQ, A1_POLICY_REQ, RIC_HEALTH_CHECK_RESP,
        A1_POLICY_RESP
  <1>5. \A x, y : mbuf[m] = arrived[m] =>
          [mbuf EXCEPT ![m].mtype = x, ![m].payload = y]
            = [mbuf EXCEPT ![m] = [arrived[m] EXCEPT !.mtype = x, !.payload = y]]
    BY <1>2, <1>3, TwoFields
  <1>6. CASE HealthCheck(r, m)
    <2>1. mbuf' = [mbuf EXCEPT ![m] = HealthAnswer(arrived[m])]
      BY <1>4, <1>5, <1>6 DEF HealthCheck, HealthAnswer
    <2> QED
      BY <1>0, <1>1, <1>4, <1>6, <2>1 DEF HealthCheck, Resend, TypeInv, TypeOK
  <1>7. CASE Indication(r)
    BY <1>0, <1>1, <1>7 DEF Indication, Dispatch, TypeInv, TypeOK
  <1>8. CASE SubscriptionResponse(r, m)
    BY <1>0, <1>1, <1>8 DEF SubscriptionResponse, Resend, Dispatch, TypeInv, TypeOK
  <1>9. CASE A1PolicyRequest(r, m) /\ a1_policy_handler(mbuf[m].payload)
    <2>1. mbuf[m] = arrived[m]
      BY <1>4, <1>9 DEF A1PolicyRequest
    <2>2. mbuf' = [mbuf EXCEPT ![m].mtype = A1_POLICY_RESP,
                               ![m].payload = A1Answer(arrived[m].payload)]
      BY <1>2, <1>3, <1>9, <2>1 DEF A1PolicyRequest
    <2>3. mbuf' = [mbuf EXCEPT ![m] = PolicyAnswer(arrived[m])]
      BY <1>3, <1>5, <2>1, <2>2 DEF PolicyAnswer
    <2> QED
      BY <1>0, <1>1, <1>9, <2>1, <2>3 DEF A1PolicyRequest, Resend, TypeInv, TypeOK
  <1>10. CASE A1PolicyRequest(r, m) /\ ~a1_policy_handler(mbuf[m].payload)
    BY <1>0, <1>1, <1>10 DEF A1PolicyRequest, TypeInv, TypeOK
  <1>11. CASE Unknown(r, m)
    BY <1>0, <1>1, <1>11 DEF Unknown, Resend, TypeInv, TypeOK
  <1>12. CASE Ignore(r, m)
    BY <1>0, <1>1, <1>12 DEF Ignore, TypeInv, TypeOK
  <1> QED
    BY <1>6, <1>7, <1>8, <1>9, <1>10, <1>11, <1>12 DEF Process

-----------------------------------------------------------------------------
(* Any receivers.                                                          *)

LEMMA InitTypeInv == Init => TypeInv
  <1> SUFFICES ASSUME Init PROVE TypeInv
    OBVIOUS
  <1>1. <<>> \in Seq(Contents) /\ <<>> \in Seq(Buffers) /\ Len(<<>>) = 0
    OBVIOUS
  <1>2. TypeOK
    BY <1>1, MessagesAssumption DEF Init, TypeOK
  <1> QED
    BY <1>1, <1>2 DEF Init, TypeInv, QueueInv, BufferInv, HeldInv, NTaken, NoMsg

LEMMA ArriveTypeInv ==
  ASSUME TypeInv, NEW c \in Contents, Arrive(c)
  PROVE  TypeInv'
  <1> USE DEF TypeInv, Arrive
  <1>1. /\ Len(arrived) \in Nat /\ Len(incoming) \in Nat /\ MaxMessages \in Nat
        /\ Len(arrived) < MaxMessages /\ DOMAIN arrived = 1 .. Len(arrived)
    BY MessagesAssumption DEF TypeOK
  <1>2. /\ arrived' \in Seq(Contents) /\ Len(arrived') = Len(arrived) + 1
        /\ \A i \in 1 .. Len(arrived) : arrived'[i] = arrived[i]
        /\ arrived'[Len(arrived) + 1] = c
    BY DEF QueueInv
  <1>3. c \in Buffers
    BY DEF Buffers
  <1>4. /\ mbuf' \in Seq(Buffers) /\ Len(mbuf') = Len(arrived')
        /\ \A i \in 1 .. Len(arrived) : mbuf'[i] = mbuf[i]
        /\ mbuf'[Len(arrived) + 1] = c
    BY <1>1, <1>2, <1>3 DEF BufferInv
  <1>5. /\ incoming' \in Seq(Ids) /\ Len(incoming') = Len(incoming) + 1
        /\ \A i \in 1 .. Len(incoming) : incoming'[i] = incoming[i]
        /\ incoming'[Len(incoming) + 1] = Len(arrived) + 1
    <2>1. Len(arrived) + 1 \in Ids
      BY <1>1 DEF Ids
    <2> QED
      BY <2>1 DEF TypeOK
  <1>6. NTaken' = NTaken
    BY <1>1, <1>2, <1>5 DEF NTaken
  <1>7. QueueInv'
    <2>1. NTaken + (Len(incoming) + 1) = Len(arrived) + 1
      BY <1>1 DEF NTaken
    <2>2. \A i \in 1 .. Len(incoming') : i \in 1 .. Len(incoming) \/ i = Len(incoming) + 1
      BY <1>1, <1>5
    <2> QED
      BY <1>2, <1>5, <1>6, <2>1, <2>2 DEF QueueInv
  <1>8. BufferInv'
    <2>1. \A m \in 1 .. Len(arrived') : m \in 1 .. Len(arrived) \/ m = Len(arrived) + 1
      BY <1>1, <1>2
    <2> QED
      BY <1>2, <1>4, <1>6, <2>1 DEF BufferInv
  <1>9. HeldInv'
    BY <1>6 DEF HeldInv
  <1>10. TypeOK'
    <2>1. DOMAIN arrived' = 1 .. Len(arrived') /\ DOMAIN arrived \subseteq DOMAIN arrived'
      BY <1>1, <1>2
    <2>2. dispatched' \in Seq({"agents", "subscriptions"} \X DOMAIN arrived')
      <3>1. {"agents", "subscriptions"} \X DOMAIN arrived
               \subseteq {"agents", "subscriptions"} \X DOMAIN arrived'
        BY <2>1
      <3>2. dispatched \in Seq({"agents", "subscriptions"} \X DOMAIN arrived')
        BY <3>1, SeqMonotonic DEF TypeOK
      <3> QED
        BY <3>2
    <2>3. DOMAIN mbuf' = DOMAIN arrived'
      BY <1>4, <2>1
    <2>4. Len(arrived') <= MaxMessages
      BY <1>1, <1>2
    <2>5. \A i \in DOMAIN arrived' : arrived'[i] \in Contents
      BY <1>2, <2>1
    <2> QED
      BY <1>5, <2>1, <2>2, <2>3, <2>4, <2>5 DEF TypeOK
  <1> QED
    BY <1>7, <1>8, <1>9, <1>10

\* What leaves the messages, the buffers and the places alone keeps the types.
LEMMA DiesTypeInv == TypeInv /\ Dies => TypeInv'
  BY DEF Dies, traffic, TypeInv, TypeOK, QueueInv, BufferInv, HeldInv, NTaken

LEMMA Deaths ==
  ASSUME NEW r \in Receivers,
         DumpOverflows(r) \/ PolicyAborts(r) \/ IndicationDies(r)
  PROVE  Dies
  BY DEF DumpOverflows, PolicyAborts, IndicationDies

LEMMA ReceiverTypeInv ==
  ASSUME TypeInv, NEW r \in Receivers, Receiver(r) \/ InAgents(r)
  PROVE  TypeInv'
  <1> USE DEF TypeInv
  <1>1. CASE Listen(r)
    BY <1>1 DEF Listen, Goto, traffic, TypeOK, QueueInv, BufferInv, HeldInv, NTaken
  <1>2. CASE rmr_rcv_msg(r)
    <2>1. /\ incoming \in Seq(Ids) /\ incoming # <<>> /\ arrived' = arrived /\ mbuf' = mbuf
          /\ incoming' = Tail(incoming) /\ received' = incoming[1]
          /\ Len(incoming) \in Nat /\ Len(incoming) >= 1 /\ Len(arrived) \in Nat
      BY <1>2 DEF rmr_rcv_msg, TypeOK
    <2>2. /\ incoming' \in Seq(Ids) /\ Len(incoming') = Len(incoming) - 1
          /\ \A i \in 1 .. Len(incoming') : incoming'[i] = incoming[i + 1]
      BY <2>1
    <2>3. NTaken' = NTaken + 1 /\ NTaken' <= Len(arrived) /\ NTaken \in Nat
      BY <2>1, <2>2 DEF NTaken, QueueInv
    <2>4. received' = NTaken'
      BY <2>1, <2>3 DEF QueueInv
    <2>5. QueueInv'
      <3>1. \A i \in 1 .. Len(incoming') :
              i + 1 \in 1 .. Len(incoming) /\ NTaken + (i + 1) = NTaken' + i
        BY <2>1, <2>2, <2>3
      <3>2. \A i \in 1 .. Len(incoming') : incoming'[i] = NTaken' + i
        BY <2>2, <3>1 DEF QueueInv
      <3> QED
        BY <2>1, <2>3, <3>2 DEF QueueInv
    <2>6. BufferInv'
      BY <2>1, <2>3 DEF BufferInv
    <2>7. HeldInv'
      BY <1>2, <2>3, <2>4 DEF HeldInv, rmr_rcv_msg, NoMsg
    <2>8. received' \in DOMAIN arrived
      BY <2>3, <2>4 DEF TypeOK
    <2> QED
      BY <1>2, <2>1, <2>2, <2>5, <2>6, <2>7, <2>8 DEF TypeOK, rmr_rcv_msg, Goto
  <1>3. CASE CheckMsg(r)
    BY <1>3 DEF CheckMsg, Goto, traffic, TypeOK, QueueInv, BufferInv, HeldInv, NTaken
  <1>4. CASE Handle(r)
    <2> DEFINE m == received
    <2>1. m \in 1 .. Len(arrived) /\ arrived[m] \in Contents
      BY <1>4, ProcessStep DEF TypeOK
    <2>2. /\ HealthAnswer(arrived[m]) \in Buffers /\ PolicyAnswer(arrived[m]) \in Buffers
          /\ UNCHANGED <<arrived, incoming, received, returned>>
      BY <1>4, <2>1, ProcessStep DEF Buffers, traffic
    <2>0. NTaken' = NTaken /\ NTaken \in Int /\ m <= NTaken
      BY <2>2 DEF NTaken, TypeOK, HeldInv
    <2>3. BufferInv' /\ DOMAIN mbuf' = DOMAIN mbuf
      <3>1. CASE mbuf' = mbuf
        BY <2>0, <2>2, <3>1 DEF BufferInv
      <3>2. ASSUME NEW b \in Buffers, mbuf' = [mbuf EXCEPT ![m] = b],
                   \/ arrived[m].mtype = RIC_HEALTH_CHECK_REQ /\ b = HealthAnswer(arrived[m])
                   \/ /\ arrived[m].mtype = A1_POLICY_REQ
                      /\ a1_policy_handler(arrived[m].payload) /\ b = PolicyAnswer(arrived[m])
            PROVE  BufferInv' /\ DOMAIN mbuf' = DOMAIN mbuf
        <4>1. mbuf' \in Seq(Buffers) /\ Len(mbuf') = Len(mbuf)
          <5>1. mbuf \in Seq(Buffers) /\ m \in 1 .. Len(mbuf)
            BY <2>1 DEF BufferInv
          <5> QED
            BY <3>2, <5>1, ExceptSeq
        <4>2. /\ \A i \in 1 .. Len(arrived) : i # m => mbuf'[i] = mbuf[i]
              /\ mbuf'[m] = b
          BY <2>1, <3>2 DEF BufferInv
        <4> QED
          BY <2>0, <2>2, <3>2, <4>1, <4>2 DEF BufferInv
      <3> QED
        BY <1>4, <2>2, <3>1, <3>2, ProcessStep
    <2>4. HeldInv' /\ QueueInv'
      BY <1>4, <2>2, ProcessStep DEF HeldInv, QueueInv, NTaken, TypeOK
    <2>5. dispatched' \in Seq({"agents", "subscriptions"} \X DOMAIN arrived')
      <3>1. \A h \in {"agents", "subscriptions"} :
              <<h, m>> \in {"agents", "subscriptions"} \X DOMAIN arrived
        BY <2>1 DEF TypeOK
      <3>2. ASSUME NEW h \in {"agents", "subscriptions"},
                   dispatched' = Append(dispatched, <<h, m>>)
            PROVE  dispatched' \in Seq({"agents", "subscriptions"} \X DOMAIN arrived)
        BY <3>1, <3>2, AppendProperties DEF TypeOK
      <3> QED
        BY <1>4, <2>2, <3>2, ProcessStep DEF TypeOK
    <2> QED
      BY <1>4, <2>2, <2>3, <2>4, <2>5, ProcessStep DEF TypeOK, traffic
  <1>5. CASE Return(r)
    <2>1. received \in 1 .. Len(arrived) /\ mbuf[received] \in Buffers /\ received \in Ids
      BY <1>5, MessagesAssumption DEF Return, Goto, TypeOK, HeldInv, BufferInv, NoMsg, Ids
    <2>2. returned' \in Seq(Ids \X Buffers)
      BY <1>5, <2>1 DEF Return, HeldInv
    <2>3. \A i \in 1 .. Len(returned') : returned'[i][1] \in DOMAIN arrived
      <3>1. CASE returned' = returned
        BY <3>1 DEF TypeOK
      <3>2. CASE returned' = Append(returned, <<received, mbuf[received]>>)
        BY <2>1, <3>2 DEF TypeOK, HeldInv
      <3> QED
        BY <1>5, <3>1, <3>2 DEF Return
    <2> QED
      BY <1>5, <2>2, <2>3
      DEF Return, Resend, Goto, traffic, TypeOK, QueueInv, BufferInv, HeldInv, NTaken
  <1>6. CASE IndicationReturns(r)
    BY <1>6 DEF IndicationReturns, Goto, traffic, TypeOK, QueueInv, BufferInv, HeldInv, NTaken
  <1>7. CASE DumpOverflows(r) \/ PolicyAborts(r) \/ IndicationDies(r)
    BY <1>7, Deaths, DiesTypeInv
  <1> QED
    BY <1>1, <1>2, <1>3, <1>4, <1>5, <1>6, <1>7 DEF Receiver, InAgents, Handle

LEMMA NextTypeInv == TypeInv /\ [Next]_vars => TypeInv'
  <1> SUFFICES ASSUME TypeInv, [Next]_vars PROVE TypeInv'
    OBVIOUS
  <1>1. CASE set_listen
    BY <1>1 DEF set_listen, traffic, TypeInv, TypeOK, QueueInv, BufferInv, HeldInv, NTaken
  <1>2. CASE UNCHANGED vars
    BY <1>2 DEF vars, traffic, TypeInv, TypeOK, QueueInv, BufferInv, HeldInv, NTaken
  <1> QED
    BY <1>1, <1>2, ArriveTypeInv, ReceiverTypeInv DEF Next, Quiet

-----------------------------------------------------------------------------
(* One receiver.                                                           *)

LEMMA OneMore ==
  ASSUME NEW n \in Nat, NEW f, DOMAIN f = 1 .. n, NEW g, DOMAIN g = 1 .. (n + 1),
         \A k \in 1 .. n : g[k] = f[k],
         NEW D, OnceInOrder(f, D), \A d \in D : d < g[n + 1]
  PROVE  OnceInOrder(g, D \cup {g[n + 1]})
  <1>1. 1 .. (n + 1) = (1 .. n) \cup {n + 1}
    OBVIOUS
  <1>2. Range(g) = Range(f) \cup {g[n + 1]}
    BY <1>1 DEF Range
  <1>3. ASSUME NEW j \in 1 .. (n + 1), NEW k \in 1 .. (n + 1), j < k
        PROVE  g[j] < g[k]
    <2>1. CASE k \in 1 .. n
      BY <1>3, <2>1 DEF OnceInOrder
    <2>2. CASE k = n + 1
      <3>1. j \in 1 .. n
        BY <1>3, <2>2
      <3>2. g[j] \in D
        BY <3>1 DEF OnceInOrder, Range
      <3> QED
        BY <2>2, <3>2
    <2> QED
      BY <1>1, <2>1, <2>2
  <1> QED
    BY <1>2, <1>3 DEF OnceInOrder

\* The messages two histories name.
Answered(h) == [k \in DOMAIN h |-> h[k][1]]
Given(h) == [k \in DOMAIN h |-> h[k][2]]

LEMMA AnsweredAppend ==
  ASSUME NEW S, NEW h \in Seq(S), NEW e \in S, NEW D, OnceInOrder(Answered(h), D),
         \A d \in D : d < e[1]
  PROVE  OnceInOrder(Answered(Append(h, e)), D \cup {e[1]})
  <1>1. /\ Len(h) \in Nat /\ DOMAIN h = 1 .. Len(h)
        /\ DOMAIN Append(h, e) = 1 .. (Len(h) + 1)
        /\ \A k \in 1 .. Len(h) : Append(h, e)[k] = h[k]
        /\ Append(h, e)[Len(h) + 1] = e
    BY AppendProperties
  <1> QED
    BY <1>1, OneMore DEF Answered

LEMMA GivenAppend ==
  ASSUME NEW S, NEW h \in Seq(S), NEW e \in S, NEW D, OnceInOrder(Given(h), D),
         \A d \in D : d < e[2]
  PROVE  OnceInOrder(Given(Append(h, e)), D \cup {e[2]})
  <1>1. /\ Len(h) \in Nat /\ DOMAIN h = 1 .. Len(h)
        /\ DOMAIN Append(h, e) = 1 .. (Len(h) + 1)
        /\ \A k \in 1 .. Len(h) : Append(h, e)[k] = h[k]
        /\ Append(h, e)[Len(h) + 1] = e
    BY AppendProperties
  <1> QED
    BY <1>1, OneMore DEF Given

\* What the processor does with a message no one has touched.
LEMMA ProcessFresh ==
  ASSUME TypeInv, NEW r \in Receivers, Handle(r), ~resend[r],
         mbuf[received] = arrived[received], ~Bad(arrived[received])
  PROVE  /\ resend'[r] <=> Accepted(arrived[received])
         /\ resend'[r] => Answers(arrived[received], mbuf'[received])
         /\ dispatched' = IF HandedOn(arrived[received])
                            THEN Append(dispatched, <<Handler(arrived[received]), received>>)
                            ELSE dispatched
  <1> DEFINE m == received
  <1>1. /\ m \in 1 .. Len(arrived) /\ arrived[m] \in Contents /\ resend \in [Receivers -> BOOLEAN]
        /\ mbuf \in Seq(Buffers) /\ m \in 1 .. Len(mbuf)
    BY ProcessStep DEF TypeInv, TypeOK, BufferInv
  <1>2. arrived[m] \in [mtype : Int, state : {arrived[m].state}, payload : {arrived[m].payload},
                       size : {"short", "long", "oversize"}]
    BY <1>1, ContentsAssumption
  <1>3. \A x, y : [mbuf EXCEPT ![m].mtype = x, ![m].payload = y][m]
                    = [arrived[m] EXCEPT !.mtype = x, !.payload = y]
    BY <1>1, <1>2
  <1>10. CASE Ignore(r, m)
    BY <1>1, <1>10 DEF Ignore, Oversize, Accepted, HandedOn, Ignored
  <1>11. CASE ~Oversize(m) /\ ~Ignore(r, m)
    <2> USE <1>11 DEF Oversize, Ignored, RIC_HEALTH_CHECK_REQ, RIC_INDICATION, RIC_SUB_RESP,
                      A1_POLICY_REQ, HandedOn, Accepted
    <2>4. CASE HealthCheck(r, m)
      <3>1. mbuf' = [mbuf EXCEPT ![m].mtype = RIC_HEALTH_CHECK_RESP,
                                 ![m].payload = [text |-> "HELLOWORLD OK"]]
        BY <2>4 DEF HealthCheck
      <3>2. mbuf'[m] = HealthAnswer(arrived[m])
        BY <1>3, <3>1 DEF HealthAnswer
      <3>3. Answers(arrived[m], mbuf'[m])
        BY <1>1, <3>2, MessageTypes DEF Answers
      <3>4. Accepted(arrived[m]) /\ ~HandedOn(arrived[m])
        <4>1. arrived[m].mtype = 100
          BY <2>4 DEF HealthCheck
        <4> QED
          BY <4>1
      <3>5. resend'[r] /\ dispatched' = dispatched
        BY <1>1, <2>4 DEF HealthCheck, Resend
      <3> QED
        BY <3>3, <3>4, <3>5
    <2>5. CASE Indication(r)
      BY <1>1, <2>5 DEF Indication, Dispatch, Handler
    <2>6. CASE SubscriptionResponse(r, m)
      BY <1>1, <2>6 DEF SubscriptionResponse, Resend, Dispatch, Handler
    <2>7. CASE A1PolicyRequest(r, m) /\ a1_policy_handler(mbuf[m].payload)
      <3>1. mbuf' = [mbuf EXCEPT ![m].mtype = A1_POLICY_RESP,
                                 ![m].payload = A1Answer(arrived[m].payload)]
        BY <1>1, <1>2, <2>7 DEF A1PolicyRequest
      <3>2. mbuf'[m] = PolicyAnswer(arrived[m])
        BY <1>2, <1>3, <3>1 DEF PolicyAnswer
      <3>3. Answers(arrived[m], mbuf'[m])
        BY <1>1, <2>7, <3>2, MessageTypes, PolicyAnswered DEF Answers
      <3> QED
        BY <1>1, <2>7, <3>3 DEF A1PolicyRequest, Resend
    <2>8. CASE A1PolicyRequest(r, m) /\ ~a1_policy_handler(mbuf[m].payload)
      BY <1>1, <2>8 DEF A1PolicyRequest
    <2>9. CASE Unknown(r, m)
      BY <1>1, <2>9 DEF Unknown, Resend
    <2> QED
      BY <2>4, <2>5, <2>6, <2>7, <2>8, <2>9 DEF Handle, Process
  <1> QED
    BY <1>10, <1>11 DEF Handle, Process, Indication, Ignore

LEMMA InHandOfOne ==
  ASSUME AtMostOneReceiver, NEW r \in Receivers, NEW places
  PROVE  InHand(places) <=> pc[r] \in places
  BY DEF AtMostOneReceiver, InHand

\* Nothing but the receiver changes what is in hand.
LEMMA Unmoved ==
  ASSUME AtMostOneReceiver, TypeInv, TypeInv', OneInv, pc' = pc, resend' = resend,
         received' = received, returned' = returned, dispatched' = dispatched,
         NTaken' = NTaken,
         \A i \in 1 .. NTaken : arrived'[i] = arrived[i] /\ mbuf'[i] = mbuf[i]
  PROVE  OneInv'
  <1>0. NTaken \in Nat /\ NTaken <= Len(arrived)
    BY DEF TypeInv, TypeOK, QueueInv, NTaken
  <1>1. InHandInv'
    <2>1. SUFFICES ASSUME NEW r \in Receivers
                   PROVE  /\ pc[r] \in {"check", "process", "agents", "return"} => received = NTaken
                          /\ pc[r] \in {"check", "process"} => mbuf'[received] = arrived'[received]
                          /\ pc[r] \in {"process", "agents", "return"} => ~Bad(arrived'[received])
                          /\ pc[r] \in {"agents", "return"} =>
                               /\ resend[r] <=> Accepted(arrived'[received])
                               /\ resend[r] => Answers(arrived'[received], mbuf'[received])
                          /\ resend[r] => pc[r] \in {"agents", "return"}
      BY DEF InHandInv
    <2>2. pc[r] \in {"check", "process", "agents", "return"} => received \in 1 .. NTaken
      BY <1>0 DEF OneInv, InHandInv, TypeInv, TypeOK, HeldInv, NoMsg
    <2> QED
      BY <2>2 DEF OneInv, InHandInv
  <1>2. ReturnedAreAnswers'
    <2>1. \A i \in 1 .. Len(returned) : returned[i][1] \in 1 .. NTaken
      <3>1. Answered(returned) = [k \in DOMAIN returned |-> returned[k][1]]
            /\ DOMAIN returned = 1 .. Len(returned)
        BY DEF Answered, TypeInv, HeldInv
      <3>2. NReturned <= NTaken /\ NReturned \in Int
        BY <1>0 DEF NReturned, NDone
      <3>3. \A i \in 1 .. Len(returned) : returned[i][1] \in 1 .. NReturned
        BY <3>1 DEF OneInv, HistoryInv, OnceInOrder, Range
      <3> QED
        BY <1>0, <3>2, <3>3
    <2> QED
      BY <2>1 DEF OneInv, ReturnedAreAnswers
  <1>3. HistoryInv'
    <2>1. /\ NReturned' = NReturned /\ NDispatched' = NDispatched
          /\ NReturned <= NTaken /\ NDispatched <= NTaken
          /\ NReturned \in Int /\ NDispatched \in Int
      BY <1>0 DEF NReturned, NDispatched, NDone, InHand
    <2>2. /\ \A i \in 1 .. NReturned : arrived'[i] = arrived[i]
          /\ \A i \in 1 .. NDispatched : arrived'[i] = arrived[i]
      BY <1>0, <2>1
    <2>3. {i \in 1 .. NReturned : Accepted(arrived'[i])} = {i \in 1 .. NReturned : Accepted(arrived[i])}
          /\ {i \in 1 .. NDispatched : HandedOn(arrived'[i])}
               = {i \in 1 .. NDispatched : HandedOn(arrived[i])}
      BY <2>2
    <2>4. \A k \in DOMAIN dispatched : dispatched[k][2] \in 1 .. NDispatched
      BY DEF OneInv, HistoryInv, OnceInOrder, Range
    <2> QED
      BY <2>1, <2>2, <2>3, <2>4 DEF OneInv, HistoryInv
  <1> QED
    BY <1>1, <1>2, <1>3 DEF OneInv

LEMMA ReceiverInHand ==
  ASSUME AtMostOneReceiver, TypeInv, TypeInv', OneInv, NEW r \in Receivers,
         Receiver(r) \/ IndicationReturns(r), ~Dies
  PROVE  InHandInv' /\ ReturnedAreAnswers'
  <1> USE DEF OneInv, InHandInv, TypeInv
  <1>0. Receivers = {r}
    BY DEF AtMostOneReceiver
  <1>1. CASE Listen(r)
    BY <1>0, <1>1 DEF Listen, Goto, traffic, TypeOK, NTaken, ReturnedAreAnswers
  <1>2. CASE rmr_rcv_msg(r)
    <2>1. /\ pc' = [pc EXCEPT ![r] = "check"] /\ pc[r] = "receive"
          /\ received' = incoming[1] /\ incoming' = Tail(incoming) /\ incoming # <<>>
          /\ UNCHANGED <<arrived, mbuf, resend, returned>>
      BY <1>2 DEF rmr_rcv_msg, Goto, TypeOK
    <2>2. received' = NTaken + 1 /\ NTaken' = NTaken + 1
      BY <2>1 DEF QueueInv, NTaken, TypeOK
    <2>3. received' \in 1 .. Len(arrived)
      BY <2>1, <2>2 DEF TypeOK, QueueInv, NTaken
    <2>4. mbuf[received'] = arrived[received']
      <3>1. NTaken \in Int /\ received' > NTaken
        BY <2>2 DEF NTaken, TypeOK
      <3> QED
        BY <2>3, <3>1 DEF BufferInv
    <2> QED
      BY <1>0, <2>1, <2>2, <2>4 DEF ReturnedAreAnswers, TypeOK
  <1>3. CASE CheckMsg(r)
    <2>1. Good(received) => ~Bad(arrived[received])
      <3>1. pc[r] = "check" /\ received \in 1 .. Len(arrived)
        BY <1>3 DEF CheckMsg, Goto, TypeOK, HeldInv, NoMsg
      <3>2. mbuf[received] = arrived[received] /\ arrived[received].mtype \in Int
        BY <3>1, MessageTypes DEF TypeOK
      <3> QED
        BY <3>2 DEF Good, Bad
    <2> QED
      BY <1>0, <1>3, <2>1 DEF CheckMsg, Goto, traffic, TypeOK, NTaken, ReturnedAreAnswers
  <1>4. CASE Handle(r)
    <2>1. /\ pc[r] = "process" /\ pc'[r] \in {"agents", "return"}
          /\ UNCHANGED <<arrived, incoming, received, returned>>
      BY <1>4, ProcessStep DEF traffic
    <2>2. /\ resend'[r] <=> Accepted(arrived[received])
          /\ resend'[r] => Answers(arrived[received], mbuf'[received])
      BY <1>4, <2>1, ProcessFresh
    <2> QED
      BY <1>0, <2>1, <2>2 DEF ReturnedAreAnswers, TypeOK, NTaken
  <1>5. CASE Return(r)
    <2>1. /\ pc[r] = "return" /\ pc'[r] = "listen" /\ ~resend'[r]
          /\ UNCHANGED <<arrived, incoming, received, mbuf>>
          /\ returned' = returned
             \/ (resend[r] /\ returned' = Append(returned, <<received, mbuf[received]>>))
      BY <1>5 DEF Return, Goto, Resend, TypeOK, traffic
    <2>2. InHandInv'
      BY <1>0, <2>1
    <2>3. ASSUME resend[r], returned' = Append(returned, <<received, mbuf[received]>>)
          PROVE  ReturnedAreAnswers'
      <3>1. Accepted(arrived[received]) /\ Answers(arrived[received], mbuf[received])
        BY <2>1, <2>3
      <3>2. /\ Len(returned) \in Nat /\ Len(returned') = Len(returned) + 1
            /\ \A i \in 1 .. Len(returned) : returned'[i] = returned[i]
            /\ returned'[Len(returned) + 1] = <<received, mbuf[received]>>
        BY <2>3 DEF HeldInv
      <3>3. \A i \in 1 .. Len(returned') : i \in 1 .. Len(returned) \/ i = Len(returned) + 1
        BY <3>2
      <3>4. ASSUME NEW i \in 1 .. Len(returned')
            PROVE  Accepted(arrived[returned'[i][1]])
                   /\ Answers(arrived[returned'[i][1]], returned'[i][2])
        <4>1. CASE i \in 1 .. Len(returned)
          BY <3>2, <4>1 DEF ReturnedAreAnswers, Answers
        <4>2. CASE i = Len(returned) + 1
          BY <3>1, <3>2, <4>2
        <4> QED
          BY <3>3, <4>1, <4>2
      <3> QED
        BY <2>1, <3>4 DEF ReturnedAreAnswers, Answers
    <2> QED
      BY <2>1, <2>2, <2>3 DEF ReturnedAreAnswers
  <1>6. CASE IndicationReturns(r)
    BY <1>0, <1>6 DEF IndicationReturns, Goto, traffic, TypeOK, NTaken, ReturnedAreAnswers
  <1> QED
    BY <1>1, <1>2, <1>3, <1>4, <1>5, <1>6, Deaths DEF Receiver, Handle

LEMMA ReceiverHistory ==
  ASSUME AtMostOneReceiver, TypeInv, OneInv, NEW r \in Receivers,
         Receiver(r) \/ IndicationReturns(r), ~Dies
  PROVE  HistoryInv'
  <1> DEFINE Requests(n) == {i \in 1 .. n : Accepted(arrived[i])}
             Reports(n) == {i \in 1 .. n : HandedOn(arrived[i])}
  <1>1. /\ NReturned = IF pc[r] \in {"check", "process", "agents", "return"} THEN NTaken - 1 ELSE NTaken
        /\ NDispatched = IF pc[r] \in {"check", "process"} THEN NTaken - 1 ELSE NTaken
    BY InHandOfOne DEF NReturned, NDispatched, NDone
  <1>2. /\ NReturned' = IF pc'[r] \in {"check", "process", "agents", "return"} THEN NTaken' - 1 ELSE NTaken'
        /\ NDispatched' = IF pc'[r] \in {"check", "process"} THEN NTaken' - 1 ELSE NTaken'
    BY DEF NReturned, NDispatched, NDone, InHand, AtMostOneReceiver
  <1>3. /\ OnceInOrder(Answered(returned), Requests(NReturned))
        /\ OnceInOrder(Given(dispatched), Reports(NDispatched))
        /\ \A k \in DOMAIN dispatched : dispatched[k][1] = Handler(arrived[dispatched[k][2]])
    BY DEF OneInv, HistoryInv, Answered, Given
  <1>4. SUFFICES /\ arrived' = arrived
                 /\ OnceInOrder(Answered(returned'), Requests(NReturned'))
                 /\ OnceInOrder(Given(dispatched'), Reports(NDispatched'))
                 /\ \A k \in DOMAIN dispatched' :
                      dispatched'[k][1] = Handler(arrived[dispatched'[k][2]])
    BY DEF HistoryInv, Answered, Given
  <1>5. /\ NTaken \in Nat /\ NTaken <= Len(arrived) /\ DOMAIN arrived = 1 .. Len(arrived)
        /\ Len(arrived) \in Nat
    BY DEF TypeInv, TypeOK, QueueInv, NTaken
  <1>6. pc[r] \in {"check", "process", "agents", "return"} => received = NTaken /\ NTaken >= 1
    BY <1>5 DEF OneInv, InHandInv, TypeInv, TypeOK, HeldInv, NoMsg
  <1>7. ASSUME NTaken >= 1
        PROVE  /\ Requests(NTaken) = IF Accepted(arrived[NTaken])
                                       THEN Requests(NTaken - 1) \cup {NTaken}
                                       ELSE Requests(NTaken - 1)
               /\ Reports(NTaken) = IF HandedOn(arrived[NTaken])
                                      THEN Reports(NTaken - 1) \cup {NTaken}
                                      ELSE Reports(NTaken - 1)
    <2>1. 1 .. NTaken = (1 .. (NTaken - 1)) \cup {NTaken}
      BY <1>5, <1>7
    <2> QED
      BY <2>1
  <1>8. CASE Listen(r)
    <2>1. /\ pc[r] = "listen" /\ pc'[r] \in {"receive", "done"} /\ NTaken' = NTaken
          /\ UNCHANGED <<arrived, returned, dispatched>>
      BY <1>8 DEF Listen, Goto, traffic, TypeInv, TypeOK, NTaken
    <2> QED
      BY <1>1, <1>2, <1>3, <2>1
  <1>9. CASE rmr_rcv_msg(r)
    <2>1. /\ pc[r] = "receive" /\ pc'[r] = "check"
          /\ UNCHANGED <<arrived, returned, dispatched>>
      BY <1>9 DEF rmr_rcv_msg, Goto, TypeInv, TypeOK
    <2>2. NTaken' = NTaken + 1
      BY <1>9 DEF rmr_rcv_msg, TypeInv, TypeOK, NTaken
    <2>3. NReturned' = NReturned /\ NDispatched' = NDispatched
      BY <1>1, <1>2, <1>5, <2>1, <2>2
    <2> QED
      BY <1>3, <2>1, <2>3
  <1>10. CASE CheckMsg(r)
    <2>1. /\ pc[r] = "check" /\ NTaken' = NTaken
          /\ pc'[r] = IF Good(received) THEN "process" ELSE "gone"
          /\ UNCHANGED <<arrived, returned, dispatched>>
      BY <1>10 DEF CheckMsg, Goto, traffic, TypeInv, TypeOK, NTaken
    <2>2. ~Good(received) => Bad(arrived[NTaken])
      <3>1. mbuf[received] = arrived[received] /\ arrived[received].mtype \in Int
        <4>1. received \in DOMAIN arrived
          BY <1>5, <1>6, <2>1
        <4> QED
          BY <2>1, <4>1, MessageTypes DEF OneInv, InHandInv, TypeInv, TypeOK
      <3> QED
        BY <1>6, <2>1, <3>1 DEF Good, Bad
    <2>3. CASE Good(received)
      BY <1>1, <1>2, <1>3, <2>1, <2>3
    <2>4. CASE ~Good(received)
      <3>1. Requests(NTaken) = Requests(NTaken - 1) /\ Reports(NTaken) = Reports(NTaken - 1)
        BY <1>6, <1>7, <2>1, <2>2, <2>4 DEF Accepted, HandedOn, Ignored
      <3> QED
        BY <1>1, <1>2, <1>3, <2>1, <2>4, <3>1
    <2> QED
      BY <2>3, <2>4
  <1>11. CASE Handle(r)
    <2>1. /\ pc[r] = "process" /\ pc'[r] \in {"agents", "return"} /\ NTaken' = NTaken
          /\ UNCHANGED <<arrived, returned>>
      BY <1>11, ProcessStep DEF traffic, TypeInv, TypeOK, NTaken
    <2>2. dispatched' = IF HandedOn(arrived[NTaken])
                          THEN Append(dispatched, <<Handler(arrived[NTaken]), NTaken>>)
                          ELSE dispatched
      BY <1>6, <1>11, <2>1, ProcessFresh DEF OneInv, InHandInv
    <2>3. OnceInOrder(Answered(returned'), Requests(NReturned'))
      BY <1>1, <1>2, <1>3, <2>1
    <2>4. CASE ~HandedOn(arrived[NTaken])
      BY <1>1, <1>2, <1>3, <1>6, <1>7, <2>1, <2>2, <2>3, <2>4
    <2>5. CASE HandedOn(arrived[NTaken])
      <3> DEFINE e == <<Handler(arrived[NTaken]), NTaken>>
                 S == {"agents", "subscriptions"} \X DOMAIN arrived
      <3>1. e \in S /\ dispatched \in Seq(S) /\ dispatched' = Append(dispatched, e)
        BY <1>5, <1>6, <2>1, <2>2, <2>5 DEF Handler, TypeInv, TypeOK
      <3>2. \A d \in Reports(NTaken - 1) : d < e[2]
        BY <1>5
      <3>3. OnceInOrder(Given(dispatched'), Reports(NTaken - 1) \cup {e[2]})
        BY <1>1, <1>3, <2>1, <3>1, <3>2, GivenAppend
      <3>4. \A k \in DOMAIN dispatched' :
              dispatched'[k][1] = Handler(arrived[dispatched'[k][2]])
        <4>1. /\ DOMAIN dispatched = 1 .. Len(dispatched)
              /\ \A k \in DOMAIN dispatched' : \/ k \in 1 .. Len(dispatched)
                                               \/ k = Len(dispatched) + 1
              /\ \A k \in 1 .. Len(dispatched) : dispatched'[k] = dispatched[k]
              /\ dispatched'[Len(dispatched) + 1] = e
          BY <3>1, AppendProperties
        <4> QED
          BY <1>3, <4>1
      <3> QED
        BY <1>2, <1>6, <1>7, <2>1, <2>3, <2>5, <3>3, <3>4
    <2> QED
      BY <2>4, <2>5
  <1>12. CASE Return(r)
    <2>1. /\ pc[r] = "return" /\ pc'[r] = "listen" /\ NTaken' = NTaken
          /\ UNCHANGED <<arrived, dispatched>>
          /\ returned' = IF resend[r] THEN Append(returned, <<received, mbuf[received]>>)
                                      ELSE returned
      BY <1>12 DEF Return, Goto, traffic, TypeInv, TypeOK, NTaken
    <2>2. resend[r] <=> Accepted(arrived[NTaken])
      BY <1>6, <2>1 DEF OneInv, InHandInv
    <2>3. CASE ~resend[r]
      BY <1>1, <1>2, <1>3, <1>6, <1>7, <2>1, <2>2, <2>3
    <2>4. CASE resend[r]
      <3> DEFINE e == <<received, mbuf[received]>>
      <3>1. e \in Ids \X Buffers /\ returned \in Seq(Ids \X Buffers)
        BY <1>5, <1>6, <2>1, MessagesAssumption DEF TypeInv, TypeOK, HeldInv, BufferInv, Ids
      <3>2. \A d \in Requests(NTaken - 1) : d < e[1]
        BY <1>5, <1>6, <2>1
      <3>3. OnceInOrder(Answered(returned'), Requests(NTaken - 1) \cup {e[1]})
        BY <1>1, <1>3, <2>1, <2>4, <3>1, <3>2, AnsweredAppend
      <3> QED
        BY <1>1, <1>2, <1>3, <1>6, <1>7, <2>1, <2>2, <2>4, <3>3
    <2> QED
      BY <2>3, <2>4
  <1>13. CASE IndicationReturns(r)
    <2>1. /\ pc[r] = "agents" /\ pc'[r] = "return" /\ NTaken' = NTaken
          /\ UNCHANGED <<arrived, returned, dispatched>>
      BY <1>13 DEF IndicationReturns, Goto, traffic, TypeInv, TypeOK, NTaken
    <2> QED
      BY <1>1, <1>2, <1>3, <2>1
  <1> QED
    BY <1>8, <1>9, <1>10, <1>11, <1>12, <1>13, Deaths DEF Receiver, Handle

LEMMA InitOneInv == Init => OneInv
  <1> SUFFICES ASSUME Init PROVE OneInv
    OBVIOUS
  <1>1. /\ arrived = <<>> /\ incoming = <<>> /\ returned = <<>> /\ dispatched = <<>>
        /\ Len(arrived) = 0 /\ Len(incoming) = 0 /\ Len(returned) = 0 /\ NTaken = 0
    BY DEF Init, NTaken
  <1>2. NReturned = 0 /\ NDispatched = 0
    BY <1>1 DEF Init, NReturned, NDispatched, NDone, InHand
  <1>3. HistoryInv
    BY <1>1, <1>2 DEF HistoryInv, OnceInOrder, Range
  <1> QED
    BY <1>1, <1>3 DEF Init, OneInv, InHandInv, ReturnedAreAnswers

LEMMA NextOneInv ==
  ASSUME AtMostOneReceiver
  PROVE  TypeInv /\ TypeInv' /\ OneInv /\ [Next]_vars => OneInv'
  <1> SUFFICES ASSUME TypeInv, TypeInv', OneInv, [Next]_vars PROVE OneInv'
    OBVIOUS
  <1>1. ASSUME NEW c \in Contents, Arrive(c)
        PROVE  OneInv'
    <2>1. NTaken' = NTaken /\ NTaken <= Len(arrived) /\ NTaken \in Nat /\ Len(arrived) \in Nat
      BY <1>1 DEF Arrive, TypeInv, TypeOK, QueueInv, NTaken
    <2>2. \A i \in 1 .. Len(arrived) : arrived'[i] = arrived[i] /\ mbuf'[i] = mbuf[i]
      BY <1>1 DEF Arrive, TypeInv, QueueInv, BufferInv
    <2>3. \A i \in 1 .. NTaken : arrived'[i] = arrived[i] /\ mbuf'[i] = mbuf[i]
      BY <2>1, <2>2
    <2> QED
      BY <1>1, <2>1, <2>3, Unmoved DEF Arrive
  <1>2. CASE set_listen \/ UNCHANGED vars \/ Dies
    BY <1>2, Unmoved DEF set_listen, vars, Dies, traffic, NTaken
  <1>3. ASSUME NEW r \in Receivers, Receiver(r) \/ IndicationReturns(r), ~Dies
        PROVE  OneInv'
    BY <1>3, ReceiverInHand, ReceiverHistory DEF OneInv
  <1> QED
    BY <1>1, <1>2, <1>3, Deaths DEF Next, Quiet, InAgents

-----------------------------------------------------------------------------
(* The theorems.                                                           *)

\* Every variable of the receive loop keeps its type, and a buffer holds what
\* arrived in it or the answer to that, however many receivers share it.
THEOREM Types == Spec => []TypeInv
  BY InitTypeInv, NextTypeInv, PTL DEF Spec

\* The types alone.
THEOREM TypeCorrect == Spec => []TypeOK
  BY Types, PTL DEF TypeInv

\* The inductive invariant of the one receiver.
THEOREM OneReceiver ==
  ASSUME AtMostOneReceiver
  PROVE  Spec => []OneInv
  <1>1. TypeInv /\ TypeInv' /\ OneInv /\ [Next]_vars => OneInv'
    BY NextOneInv
  <1> QED
    BY <1>1, InitOneInv, Types, PTL DEF Spec

\* What the one receiver returns to a sender answers a request of that sender.
THEOREM AnswersOnly ==
  ASSUME AtMostOneReceiver
  PROVE  Spec => []ReturnedAreAnswers
  BY OneReceiver, PTL DEF OneInv

\* Between messages, each accepted request has been answered once and each
\* indication and subscription response handed on once, in order of arrival.
THEOREM EachHandledOnce ==
  ASSUME AtMostOneReceiver
  PROVE  Spec => []HandledOnceInOrder
  <1>1. TypeInv /\ OneInv => HandledOnceInOrder
    <2> SUFFICES ASSUME TypeInv, OneInv, BetweenMessages
                 PROVE  /\ OnceInOrder([k \in DOMAIN returned |-> returned[k][1]],
                                       {i \in Taken : Accepted(arrived[i])})
                        /\ OnceInOrder([k \in DOMAIN dispatched |-> dispatched[k][2]],
                                       {i \in Taken : HandedOn(arrived[i])})
                        /\ \A k \in DOMAIN dispatched :
                             dispatched[k][1] = Handler(arrived[dispatched[k][2]])
      BY DEF HandledOnceInOrder
    <2>1. NReturned = NTaken /\ NDispatched = NTaken
      BY DEF BetweenMessages, NReturned, NDispatched, NDone, InHand
    <2>2. Taken = 1 .. NTaken
      BY TakenAre DEF TypeInv
    <2> QED
      BY <2>1, <2>2 DEF OneInv, HistoryInv
  <1> QED
    BY <1>1, OneReceiver, Types, PTL
==============================================================================
