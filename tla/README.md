# Verification of xapp-oai

TLA+ specifications of the xApp connector in `src/xapp-sm-connector` (a C++
process that subscribes to gNBs through the RIC's message router, RMR), of its
control loop with the agent in `src/base-xapp`, and of the E2AP messages the two
ends of RMR exchange: their classes, their types and their encoding. The modules
are checked with TLC on small instances; the safety properties of the
concurrent parts, of their composition and of the message objects, and that the
codec returns what it was given of every primitive type and refuses one that is cut
off, are proved with TLAPS for every instance.

Contents: 1 the system, 2 plan, 3 the modules, 4 runs, bounds and fairness,
5 proofs, 6 what the runs found, 7 limits.

## 1. The system

| Component | State | Operations | Hard behaviour | Correct when |
|---|---|---|---|---|
| Subscription handler (`xapp-mgmt/subs_mgmt.*`) | `status_table`, `trans_table` (keyed by `char*` address, looked up by name), `_data_lock`, `_cv` | `manage_subscription_request` (blocks), `manage_subscription_response`, the table helpers | requesters and receiver interleave, the receiver locks nothing; wake-ups, lost notifications, time-out against late answer | one call per gNB at a time; entries live as long as the call; success is a response or the time-out; every call returns |
| RMR sender (`xapp-utils/xapp_rmr.cc`) | the member `_xapp_send_buff` | `xapp_rmr_send`, `rmr_header` | three kinds of threads share one buffer without a lock; failed sends leave it behind; NULL results and allocations that fail unchecked; bounded retries | what RMR accepts is what the caller passed; `true` means accepted once; every call returns |
| RMR receive loop (`xapp_rmr.hpp`) | `_xapp_received_buff`, `_listen`, `resend` | `xapp_rmr_receive`, `set_listen` | ends on one bad message; dumps messages of any length into a fixed buffer; resend flag carried between messages | what goes back answers a request; each message handled once, in order; none waits for ever unless the loop has a reason to end |
| Message handler (`xapp-mgmt/msgs_proc.cc`) | none of its own | dispatch on the RMR type, indications, A1 requests | runs in the receiver thread and blocks it, in `send` for as long as an agent does not read; early returns, assertions that end the process | each type reaches its handler |
| Agent connector (`agent_connector.cc`) | `agentIp_socket`, `agentIp_gnbId` | open, find the agent of a gNB, send | maps shared by main, receiver, agent threads and the control thread, no lock; more gNBs than agents | one gNB per agent, for the whole run; answers are passed on to the gNB the reports came from |
| Agent threads, external control (`xapp.cc`) | received chunks, an iterator | `handle_rx_msg_agent`, `handle_external_control_message`, `terminate_du_reporting` | termination at any time, iteration over a map that grows | all reporting gNBs asked to stop before the signal |
| Startup (`hw_xapp_main.cc`, `xapp.cc`) | `rnib_gnblist`, threads | wait for the indication request, read the gNB list, open agents, subscribe | order against the base xApp; nothing is retried | the loop closes or the failure shows |
| Base xApp (`base-xapp/run_xapp.py`) | one connection | one datagram, accept, reply per indication | starts before or after the connector | every indication answered |
| E2AP, E2SM codecs (`xapp-asn`) | message objects reused between messages: elements, lists, arrays of items | `set_fields`, `get_fields`, encode, the destructors | list growth, stale fields, early returns | a message is made of its own helper only; get after set returns what was set |
| ASN.1 runtime and types (`asn1c_defs`) | none of its own | aligned PER encoder and decoder, constraint check, over the type tables | lengths and ranges at their edges, input that ends early, additions of a later version, checks that stop half way | decode of encode is the value; what is cut is refused; only values that keep to their types are sent; unknown additions are passed over |
| Configuration (`xapp_config.cc`) | a map of settings | defaults, environment, command line | precedence | last source wins |

The threads are: main (startup, subscriptions, then sleeps for ever), the RMR
receiver (started before startup), one thread per connected agent, the external
control thread. They call the same `XappRmr` object, the same
`SubscriptionHandler` and the same two global maps.

`PROJECT.json` lists every component with its status, and under `hazards` the
lines where the hard behaviour bites.

## 2. Plan

| Step | Module | Content | State |
|---|---|---|---|
| 1 | `SubscriptionHandler` | the handler, lock by lock | done |
| 2 | `SubscriptionService` | what it promises its callers; refinement | done |
| 3 | `SubscriptionHandlerProofs` | inductive invariant, own responses; refinement theorem | done |
| 4 | `RmrSender`, `RmrSenderProofs` | the shared send buffer; its three safety properties for any senders | done |
| 5 | `AgentConnector` | bindings, routing, termination | done |
| 6 | `AgentConnectorProofs` | bindings, controls, sharing and the termination loop for any agents and gNBs | done |
| 7 | `RmrReceiver`, `RmrReceiverProofs` | receive loop: the member buffer, resend flag, bad message, health check, A1; its properties for any messages | done |
| 8 | `XappSystem`, `XappSystemProofs` | connector and base xApp from startup to the control loop; the subscription service stands for the handler, as the refinement allows | done |
| 9 | `AsnTypes`, `E2apIEs`, `E2apPdus`, `E2smTypes` | the type tables of the generated files | done |
| 10 | `AsnConstraints`, `AperPrimitives`, `AperCodec`, `AperChannel` | the constraint check, the aligned PER codec of the primitive and of the constructed types, and a value that goes through it | done |
| 11 | `E2apObjects`, `E2apObjectsProofs` | the message classes, over objects used again; their memory for any helpers and uses | done |
| 12 | `E2apReading`, `E2apReadingProofs` | what is read of a message, and the tables it is held against; both for any helpers and uses | done |
| 13 | `E2apMessages` | what the objects send, through the codec and back | done |
| 14 | `AperPrimitivesProofs` | the primitive types arrive as they were sent, for any values and surroundings, and are refused if their end is missing | done |

Order of what is left: an abstract sender that is one atomic step, implemented by
calls that do not overlap; the helper objects that collect decoded fields, used
again; the A1 policies of startup and shutdown, should the program come to call
them.

## 3. The modules

### SubscriptionHandler
Each requester goes through the steps between lock operations of
`manage_subscription_request`: `AddLookup`/`AddInsert` (or `AddRefused`) are
`add_request_entry`; `LockToSend`, `Transmit` or `TransmitFails`; then the loop
`WaitFor`, `WakeUp` (time-out, spurious), `Relock`, `CheckPending` or
`CheckDone`, and `Finish`. The receiver's steps `is_request_entry`,
`SetLookup`, `SetAssign`, `NotifyAll` are `manage_subscription_response` with
the table read twice and written without the lock.

Addresses are kept apart from names, since the tables hash the address of a
`char*` while `transaction_present` and `find_transaction` compare the text. A
requester's address is its `meid` buffer, whose text changes with each gNB
(`Name`); a response has an address of its own, because `rmr_get_meid` copies
the MEID to fresh memory when it is given no buffer. (`msgs_proc.cc:180`
passes an uninitialised pointer; in the `-O2` build it is zero.)

`get_request_status` reads through an iterator into a copy of the table that is
already destroyed (section 7); the model has what the build makes of it.

`Answer` is the subscription manager: it answers a request with a response or
a failure, once, at any time or never.

### SubscriptionService
The promise: admission of at most one call per gNB, refusal only after another
call for that gNB, sending once, and success only after a delivered response
for the gNB or the time-out. `ImplementsService` in `SubscriptionHandler` gives
the mapping: `PhaseAt` collapses the program counter to the phase of a call,
and a result becomes visible when the call returns.

### RmrSender
`xapp_rmr_send` with one step for every load and store of `_xapp_send_buff`.
Concurrent access to it is a data race, so the model has the accesses that the
Makefile's `-O2` build makes: the member is loaded for the NULL test and used by
`rmr_header` from the register, loaded again for the `memcpy`, again for the
length and the first send, before each later send, and in the retry branch; the
result of `rmr_send_msg` is stored in the member but tested in its register. A
step through a NULL pointer kills the process. RMR (external) accepts the
message, asks for a retry, or returns NULL. `rmr_alloc_msg` gives a buffer
(`StoreNew`) or none (`AllocFails`): nobody checks it, and `rmr_header` then writes
through NULL (`OutOfMemory`), in a call that need not overlap any other.

### AgentConnector
Agents are numbered by their rank in the order of `std::map`. `Open` is one
turn of the loop in `Xapp::startup`; `Indication` and `send_socket_limited` are
`procRicIndication`; `Recv` and `SendControl` the agent's thread;
`TerminateMessage`, `TerminateOne`, `TerminateUnbound` the external control
thread, whose iterator `it` sees agents that main adds behind it. An agent
without a gNB makes `terminate_du_reporting` dereference `agentIp_gnbId.end()`;
with the layout of the globals this reads a string from the next object and the
process dies of it (checked on the compiled fragment), so the model's outcome is
`crashed`. What an agent answers becomes a control request that RMR takes
(`ControlSent`, which `controls` records) or is lost (`ControlLost`): dropped for want
of a gNB, or given up by `xapp_rmr_send` after its attempts, which
`send_ric_control_request_withsize` only logs. A request to stop a gNB is passed to
`xapp_rmr_send` in the same way and nobody looks at the result, so `terminated` says
who was asked, not who heard.

### RmrReceiver
`xapp_rmr_receive` as the steps between its shared accesses: the test of
`_listen`, `rmr_rcv_msg`, the test of the message, the processor, the return of
the buffer. `Process` is `XappMsgHandler::operator()`, with its early return for an
oversize message (`Ignore`) and one disjunct per case of its switch with what the
case does to the buffer and to the flag; only some of the cases assign the flag. An
A1 payload is the map of its JSON members, which is all that `a1_policy_handler`
tells apart; a member of a type it does not expect fails an assertion of rapidjson
and ends the process (`PolicyAborts`). An indication is a place of its own
(`"agents"`): the thread is then in `send` to an agent, from which it comes back
(`IndicationReturns`), in which it may die of SIGPIPE (`IndicationDies`), and in which
it stays for as long as the agent does not read.

The loop dumps each message before the processor sees it, two characters an octet
into 4096. A length is therefore one of three classes, what the dump has room for,
more, and more than `MAX_RMR_RECV_SIZE`; the outcome of an overrun is undefined, and
the model has the death of the process or none (`DumpOverflows`).
`set_listen(false)` may come at any time.

### XappSystem
Extends `AgentConnector` and takes `SubscriptionService` for the subscription
handler, which implements it. It adds the main thread of `main` and
`Xapp::startup`, the queue of RMR, the base xApp of `run_xapp.py`, its one
datagram (lost when the port is not bound) and both directions of its TCP stream.
The one-shot receive of the datagram may fail, at its port (`PortFails`) or in
`recvfrom` (`ReceiveFails`); the startup goes on with an empty request, or with one of
length -1, whose encoding may kill the process (`EncodeOverruns`).
A stream is a sequence of halves of messages and a read takes any prefix, so
messages are split and joined; the parser of the base xApp may raise on a part,
which ends it. `passed` is the stream of all that was given to `xapp_rmr_send` as
control requests. Whether RMR then takes each of them is not in it: the composition
keeps both outcomes of `AgentConnector`, and its properties end at that call. Once
the base xApp has ended, sending to it may raise SIGPIPE, which nobody handles
(`ForwardBroken`).

### AsnTypes, AsnConstraints, E2apIEs, E2apPdus, E2smTypes
A type descriptor is a record; `E2apIEs`, `E2apPdus` and `E2smTypes` have one
definition per generated type, with the ranges, sizes, optional members and
extension marks of its tables, and for the open types the rows and selectors of
`ProtocolIE-Field.c`. `AsnConstraints` has the constraint check of the runtime
(`asn_check_constraints`, which stops at the first member of a SEQUENCE without
a check of its own, and looks at the length of a list only as a member that has one) and `Conforms`, the reference: what the types promise.

### AperPrimitives, AperCodec, AperChannel
The encoder writes bits and the decoder reads at a position, one operator per
function of the runtime. `AperPrimitives` has octet alignment, lengths, normally
small numbers, ranges, integers, enumerations and strings; `AperCodec` the types
that contain others, SEQUENCE OF, SEQUENCE with its optional members and
additions, CHOICE and open types, which follow the types down by recursion. `AperChannel` sends a value through it:
check, encode into a buffer of some size, lose the tail or append octets,
decode. The octets of the modelled encoder were compared with those of the
compiled runtime on 196 messages and are the same; so was the outcome of
`e2ap_later`: the compiled decoder refuses the message of the counterexample,
and takes the one with a single addition.

### E2apObjects
The seven classes of `xapp-asn/e2ap`. An object owns the elements of its message,
the lists in them and the arrays of items that the lists point to; `Use` is what an
encode function does to it with the `set_fields` it calls, over whatever the
earlier uses left, and `DestroyObject` the destructor. The elements that a
`set_fields` writes and adds are a list of entries, in the order of the code. An
array that grows is freed and allocated anew, so the model numbers its blocks and
an item of a freed block reads as nothing. The module has no recursive operator,
so that its memory can be proved about apart from the codec.

### E2apReading
The `get_fields` functions, over the elements of a message as it is in memory, and
the rows of `ProtocolIE-Field.c` by which a decoder takes an element or refuses it.

### E2apMessages
Extends `E2apReading` and `AperChannel`: `ObjectEncode` is `Use` with the check and
the encoding of the message the object then holds, `GetFields` is `get_fields` at
the other end, of what the decoder made of the octets, into a helper as its
constructor leaves it. The class `"peer"`
stands for the E2 node: no object, and the channel carries one of `Samples`. Every
step either leaves the object alone or contains `Use` or `DestroyObject`, so what is
proved of `ObjectSpec` holds in it.

## 4. Runs, bounds and fairness

| Run | Instance | Shows |
|---|---|---|
| `sub_program` | the program: main, three gNBs, each once | types, `OwnResponse`, `CallReturns` |
| `sub_callers` | two threads, `<<g1, g1>>` and `<<g1, g2>>` | the inductive invariant, the safety properties and the refinement, with threads that meet on a gNB, and a gNB subscribed to again |
| `rmr_senders` | main sends twice, an agent thread once, two attempts | soundness of calls that overlap no other, whatever the state left by earlier failures; what a NULL buffer comes from; every call returns |
| `agents` | agents listed as `<<2, 1>>`, three gNBs | bindings, routing, the termination loop |
| `receiver` | the one receiver, three messages of fourteen kinds | what is returned, what is handed on and in which order, what ends the loop |
| `system` | the program with its one base xApp, one gNB, two reports | answers are passed to `xapp_rmr_send` as one stream with nothing left out; startup ends |
| `e2ap` | every message of E2AP, each element in all its ways; each class with its helpers, twice | the codec, the classes, their memory and what is read of them, before the codec (`ReadsAsGiven`) and behind it (`ReadAsGiven`) |
| `sub_status_existing`, `rmr_mixed`, `agents_terminate`, `e2ap_later` | the same instances, `agents_terminate` with the single agent of the program | counterexamples, section 6 |

Why these bounds are enough to meet the interesting cases. `sub_callers` has a
thread that repeats a gNB after an earlier response left its entry, and a
collision of two threads in every step. In `rmr_senders` each thread can find
the buffer of a failed call, reset a buffer under the other and use up its
attempts (ten in the code; two distinguish first, last and retry). In `agents`
there are more gNBs than agents, agents that never connect, that connect between
two indications or while the termination loop is behind or ahead of them, and
the list order differs from the map order. In `receiver` any kind of message
can come before, between and after any other, which is what the flag and the
order of the calls depend on. In `system` two reports make two answers that a
read can split and join in every way. In `e2ap` the values are the ends of every
range, one beyond them, every alternative, lists of none, one, sixteen and
seventeen, strings at the lengths where the encoding changes (0, 1, 2, 3, 127,
128), and the helpers' lists have the sizes at which the arrays are allocated
anew; `MaxUses = 2` is the use that leaves something behind and the one that
finds it; the two `BufferSizes` are one that is too small for the longer messages
and one that never is. Only what a peer sends is cut or followed. Nothing else
is bounded: messages and time-outs may come any number of times where state does
not count them.

Assumptions about data: no message reaches 16384 octets, where lengths come in
fragments: the connector encodes into buffers of 1024 octets (`BUFFER_SIZE`), and a
message it receives, which may have up to 65536, has overrun the dump of the receive
loop when it has more than 2047, before it is decoded. Integers end at
`MaxInteger`, which stands for the bound of the one 36-bit type.

Fairness. Weak fairness per thread: the operating system schedules every
runnable thread, and a condition that lets a step happen stays true for the
steps assumed fair. In `SubscriptionHandler` also for the clock (`Expire`); none
for the other side, which may never answer, so `CallReturns` holds by the
time-out alone. Two kinds of calls are taken to return: `xapp_rmr_send`
(`SendReturns` of `RmrSender`) and `manage_subscription_request` (`CallReturns`).
`send` to an agent is not: it blocks while the agent does not read. So in
`AgentConnector` only the external control thread is fair, which calls nothing but
`xapp_rmr_send`. In `RmrReceiver` the receiver is, but not for coming back from an
indication: `NoneWaitsForEver` has that it always does as its condition, and lists the
other reasons a message may wait for ever (told to stop, a process that died, a bad
message before). In `XappSystem` main and the agent's thread are, and neither the
receiver nor the base xApp, the gNBs, the subscription manager and the operator:
`StartupEnds` and `AnswersPassedOn` hold though the receiver may be held in `send`
for ever. Both except the end of the process. `StartupEnds` starts from the
datagram in the queue, because the base xApp sends it once and nothing makes it
wait for the port, and holds though the datagram may then fail to be read. The
fairness of `Subscribe` is `CallReturns` of the handler. Mutexes are not assumed
fair: `CallReturns` needs no strong fairness with the one requester of the program,
and is checked only there.

Deadlock is not checked in `agents`, `agents_terminate` and `system`, where the
process may die, nor in `e2ap` and `e2ap_later`, whose behaviours end when the
value has arrived and been read; in the other modules the end of the program is
an explicit stutter (`MainSleeps`, `Done`, `Quiet`).

## 5. Proofs

Assumptions are the named `ASSUME`s of the modules: shapes of the constants and
sentinels outside the sets they mark. No bound on the number of threads, gNBs,
agents, messages, attempts or uses. Two theorems have a hypothesis of their own,
named below with the code that justifies it.

### Subscriptions
`SubscriptionHandlerProofs` proves `Spec => []IInv`. The four properties are not
inductive: that the requester's own entry is pending throughout its call
(`OwnEntryExact`) needs that responses write only under their own address and
that the erase on each return path happens under the lock (`LockInv`);
`NoTwoCallsPerGnb` needs that a thread between its lookup and its insertion is
alone with its name (`InsertInv`), which again needs the lock and that names of
other threads' entries are visible to the lookup (`OwnEntryExact`);
`EarlySuccess` needs that the only result the check can yield is success
(`ResultInv`), because every entry is the pending one of a requester or an honest
success (`ResponseEntryHonest`), and honest entries need that what the receiver
holds has been delivered (`ReceiverInv`, `CallInv`). The proof has one lemma per
conjunct, each by cases on the actions.

`OwnResponses` says that a call is never answered by what another call left. It
holds under `EachGnbOnce`, each gNB is asked for once, which is what the program
does as long as R-NIB lists each gNB once: `startup_subscribe_requests` goes over
the list a single time. Under it no call is refused as a duplicate (`NoDuplicate`,
`NeverRefused`), and one that succeeds early was answered itself. Without it the run
`sub_status_existing` shows how an entry outlives its call.

Its theorem `Refinement` proves `Spec => ImplementsService`: initial states
map to initial states and under `IInv` each step maps to a step of the service or
to a stutter. `Refuse` needs the invariant to show that the entry found belongs
to another call.

### Agents
`AgentConnectorProofs` proves, for any agents and gNBs, that two agents never
control one gNB (`OneAgent`), that an agent's control requests go to one gNB over
the whole run (`ControlsKept`), that the indications of a gNB with an agent go to
no other (`IndicationsKept`), and that the process is signalled only after every
gNB bound when termination began was asked (`SignalLast`). The strengthening
relates what a thread holds to what it will do: the destination the receiver
holds for a gNB that has an agent is that agent (`RouteInv`), which lasts because
only the receiver binds; only connected agents are bound (`BoundInv`), so the
iteration over the sockets meets all that are due; and the gNBs of the agents
behind the iterator have been asked (`LoopInv`), which survives agents that
connect behind it because they are not due. The lemmas on `Min` and `Max` of a
set of agents come from the well-foundedness of the naturals.

`SharedBeyondCapacity`: an indication goes to the agent of another gNB only when
more gNBs have reported than agents are connected. Each connected agent then has
a gNB of its own that has reported, so there are as many of those, and the gNB
without an agent is one more; this is a count of finite sets, and that the sets
are finite is an invariant of its own (`SeenInv`).

### Sending
`RmrSenderProofs` proves for any set of sending threads, calls and attempts that
what RMR accepts in a call that met no other is what the caller passed
(`MessageOfOneCall`), that its result is the truth (`ResultIsTrue`), and that a
NULL buffer is dereferenced only where `rmr_alloc_msg` had none to give or in a call
that another overlapped (`NullNeedsCause`): refusals and NULL results of
`rmr_send_msg`, in any order, lead no lone call there. The
properties speak of calls that were alone, but their start is a buffer that calls
which were not alone have left in any state. So the invariant must say what an old
buffer can do: no thread holds or reaches a buffer that a call has not allocated yet
(`FreshInv`), what an earlier call left is reachable only through the member and
only until the call overwrites it (`StaleInv`), and a thread that is alone with the
member has in its registers what the member has (`LoneInv`).

### Receiving
`RmrReceiverProofs` proves type correctness for any number of receivers, with the
invariant that RMR still holds the latest messages, that a buffer holds the message
that arrived in it or the answer to it, and that a receiver with a message in hand
has one that was taken (`TypeInv`: `QueueInv`, `BufferInv`, `HeldInv`). That only answers go back
(`AnswersOnly`) and that every message is handled once and in its order
(`EachHandledOnce`) is proved under `AtMostOneReceiver`: the member
`_xapp_received_buff` is not protected, and `main` starts one receiver thread
(`start_xapp_receiver`, called once, at `hw_xapp_main.cc:90`). What is in hand is then the last message taken
(`InHandInv`), and the history of what was handed on is the history of what was
received, but for the one in hand (`HistoryInv`).

### The program
`XappSystemProofs` proves of the composition, for any gNBs and any number of
reports, that the answers of the base xApp are passed to `xapp_rmr_send` as one
stream with nothing left out, doubled or out of order (`AnswersInOrder`, of
`PassedAsAnswered`; what RMR refuses after that is lost), and that the
properties of the agents hold in it (`AgentsInProgram`), where the process can also
end in a broken pipe. The invariant
adds to that of the agents the order of startup: without the list of gNBs nobody is
subscribed to and nothing flows (`ListInv`), and the agent is bound before an
indication is on its way to it (`BoundFirst`), so that every answer meets a gNB to
go to. The streams are sequences of halves (`StreamInv`); two lemmas say that what a
read returns and what it leaves make up the stream (`ReadSplits`), and that one more
answer is two more halves (`AnswerHalves`).

### Message objects
`E2apObjectsProofs` proves that the message an object holds after any number of
uses is the one a new object makes of the last helper (`MessageOfThisUse`), and
that each subsequent action allocated is freed once (`NoActionLeaks`). The
invariant says almost nothing of what is in the memory, on purpose: it fixes the
shape of an object (`Shape`) and leaves the contents of elements, lists and arrays
open. The heart is `UseSame`: two objects of a class of any contents, given the same
helper, hold the same message. It rests on three facts: an entry that is set reads
as it was set (`SetElements`); a list that is set points only to items of the array
as it is after the growth, so none in a freed block (`SetItemsReads`); and every
element that is in the message was set in this use (`SameAdded`), or, for the
classes that add their elements in the constructor, each of them has an entry
(`SameFilled`). The other list of an array, which still points to freed items, is
never in the message.

`E2apReadingProofs` goes on to what is in the message. From `UseSame` the message
is the one a new object makes, and for a new object it can be written down: `Fields`
lists the elements of each class and outcome, and `LastUse` says that the elements
of the message are these, in some order and each once. Two theorems follow, element
by element. `MessagesFollowTables`: each element is a row of its table, none is
twice, and the mandatory ones are there but for the two the code leaves out.
`MessagesReadAsGiven`: `get_fields` reads of it what `set_fields` was given. Both
are about `ObjectSpec`, because the specification of `E2apMessages` reaches the
recursive codec; every step of it is one of `ObjectSpec` or leaves the object alone.

### Primitive types
`AperPrimitivesProofs` proves that what the encoder of a primitive type puts behind
any bits its decoder reads back, whatever follows: integers (`IntegerArrives`),
enumerations (`EnumeratedArrives`), octet and bit strings (`StringArrives`). The
input of a decoder is any octets that carry the bits of the output (`Carries`), and
`FlushCarries` says that the octets `asn_put_aligned_flush` makes do, with anything
behind them. Shifting digits into a number is recursive; what it comes to
is proved without induction over sequences, by the uniqueness of a function with its
recurrence (`ShiftedUnique`), and that from the least counterexample in the
naturals (`NatInSet`). From there the proof goes up as the code does: bits and units
(`FewBitsArrive`, `ManyBitsArrive`), lengths in one octet and two (`LengthArrives`),
numbers in a range (`NumberArrives`), two's complement (`TwosComplementIs`), and one
lemma per case of each coder.

The hypotheses are the ranges of the code. A length is less than 16384, from where
it comes in fragments. An integer without a constraint has four octets at most
(`Long`), one with a range lies in it and its type has the bits for the range, as the
tables of asn1c have (`Holds`). A string without a constraint, of a fixed size or of a
size in a range is covered (`Fits`), but for bit strings of three to sixteen bits
whose size is in a range: there the encoder does not align, since they have no more
than two octets, and the decoder does, since they have more than two units
(`OCTET_STRING.c`). No type of E2AP in use has such a size.

What is cut off is refused (`IntegerCutRefused`, `EnumeratedCutRefused`,
`StringCutRefused`, with the same hypotheses): an input that begins as the output
does and ends before it (`CutShort`), as the first octets of a flushed output do
that are not all of them (`FlushCutShort`). The input may end in any step of the
coder. Then either the step that ends first fails, or it is carried whole
(`CutOrCarried`) and what follows fails; a length of two octets can also end between
them (`LongLengthCut`). No decoder goes on after a step that failed, so none makes a
shorter value of what is there.

### Only model-checked
- Liveness (`CallReturns`, `SendReturns`, `TerminationEnds`, `NoneWaitsForEver`,
  `AnswersPassedOn`, `StartupEnds`): out of the prover's reach.
- The codec as a whole (`ArrivesAsSent`, `CutIsRefused`, `EncodedAreTheConforming`,
  `LaterIsUnderstood`): the operators of the constructed types follow the types down
  by recursion, and what they compute for every type takes induction over data,
  which the prover cannot do. That values arrive and that cut ones are refused is
  proved of the primitive types.
- `ReadAsGiven`: it says of the decoded message what `ReadsAsGiven`, proved, says of
  the message in memory; the step between them is `ArrivesAsSent`.
- The types of `E2apMessages`, which are those of what goes through the codec.

## 6. What the runs found

Each is a run that TLC must refute, with the quoted statement in
`PROJECT.json`:
- `sub_status_existing`: `set_request_status` tests by name and assigns by
  address, so it adds an entry, which stays and makes a later request for the
  gNB a duplicate of nothing;
- `rmr_mixed`: two senders mix the header of one message with the payload of the
  other;
- `agents_terminate`: a gNB that shares the only agent is not asked to stop;
- `e2ap_later`: of the additions a later version of the protocol makes to one
  SEQUENCE, the aligned PER decoder passes over the first only (the loop in
  `SEQUENCE_decode_aper` lacks the `continue` its unaligned twin has), and the
  message is refused.

Differences from what one would expect, which no statement in the repository
contradicts and which the models therefore simply have: a failure to delete is
encoded without its mandatory cause (`subscription_delete_response.cc:216`); an
action not admitted with an unknown cause makes `set_fields` return and the list
go missing from a message that is encoded all the same
(`subscription_response.cc:323`); an indication with a call process id gets the
octets of its message as the id (`e2ap_indication.cc:211`); the status of a
control is looked for in the element of a cause (`e2ap_control_response.cc:336`)
and so never read. `AsGiven` and `SentFollowsTables` name these exceptions. A
subscription that is never answered, or answered with a failure, returns success
when its time has passed: that is the declared assumption of the code
(`subs_mgmt.hpp:226`, `docs/user-guide.rst:153-155`), and the models have it.

## 7. Limits

- Operations of `unordered_map` and `std::map` are single steps. Their races
  with other threads (the receiver inserts into `status_table` without the
  lock a requester holds) are data races in the containers themselves; what a
  torn bucket list or tree does is not modelled.
- `find_transaction` (`subs_mgmt.cc:153`) takes the table by value and returns an
  iterator into that copy, which is destroyed with the call. `get_request_status`
  reads the status through it, which is a use after free in every wait, with no other
  thread involved. The model has the outcome of the build: with glibc, freeing a
  node overwrites its first 16 octets, the status lies behind them, and the thread
  allocates nothing of that size before it reads (checked on the compiled fragment).
  The result is then the status at the time of the copy; with another allocator it
  could be anything.
- The clock is monotone and time has no length: `Expire` only says that the
  time-out has passed.
- The pointer that `msgs_proc.cc:168` and `:180` pass to `rmr_get_meid` is not
  set; the models take the outcome of the `-O2` build, in which it is NULL.
- The dump of the receive loop (`xapp_rmr.hpp:135-140`) writes two characters an
  octet into 4096, for messages whose limit, looked at later, is 65536. Above 2047
  octets it runs past its buffer. What that does to the stack is not modelled beyond
  dying or going on.
- What `rmr_rts_msg` makes of the buffer the member still points to is the
  library's.
- `AgentConnector` and `XappSystem` take `xapp_rmr_send` as a step that ends; that the
  process may die in it of a NULL buffer is in `RmrSender` only. Such a death stops
  every step, and the liveness properties except it.
- `XappSystem`: one agent, as in the program; the gNB list of R-NIB is whole or
  empty, its JSON is not parsed; a dead connector leaves the base xApp waiting;
  an agent that closes leaves a thread that spins, which the model shows as
  one that stutters.
- Codec: BER, XER, OER and unaligned PER, fragments, printing and freeing are
  left out. An alternative behind the extension mark of a CHOICE
  (`ENB_ID`, `constr_CHOICE.c:1170`) is encoded without its index and does not
  decode, and is decoded with the unaligned decoder, for which the aligned one stands
  (`AperCodec` says why they agree on the two there are); of a service update only the first element can be told from the
  others in the union (`ProtocolIE-Field.c:561`). The samples leave these values
  out.
- Message classes: the size argument, which an encode sets to what it wrote and
  so limits the next one, is a new choice of the caller in each use; helpers
  are fresh when they are read into.
- Not modelled: the E2SM classes and the shared data layer, which the program
  does not use; `XappSettings`, which is assignments in a row; generated
  protobuf code; the older formats, which are not built; the process launch
  script and the test clients. `clear()`, `send_socket`, `handle_rx_msg`,
  `close_control_socket_agent`, `Run`, `stop` and `startup_get_policies` are not
  reached by the program.
