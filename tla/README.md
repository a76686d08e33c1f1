# ketphone: specifications and proofs

TLA+ models of the ketphone core (`src/src`), checked with TLC on small
instances and, where marked, proved with TLAPS for every value of the constants.

## The system

ketphone is a SIP phone as a library. Its parts, and how they meet:

| part | source | modules | state |
|---|---|---|---|
| Registration | `core/user_agent.cpp` | `Registration`, `RegistrationLiveness` | modelled, safety proved |
| Calls | `core/user_agent.cpp` | `CallAgent`, `CallLiveness` | modelled, safety proved |
| Commands, shutdown | `core/engine.cpp` | `EngineCommands` | modelled, safety proved |
| TLS signalling link | `core/engine.cpp` | `Link` | modelled, proved |
| TLS with OpenSSL | `net/tls_openssl.cpp` | `TlsConnection`, `ByteStream` | modelled, safety proved |
| TLS on Apple | `net/tls_apple.cpp` | `AppleTls`, `StreamCallbacks` | partly, contract proved |
| Stream framer, inbound path | `sip/stream_framer.cpp`, `core/engine.cpp` | `StreamFramer`, `InboundStream` | modelled, safety proved |
| SDP, SRTP, media session, RTP | `sip/sdp.cpp`, `core/`, `media/` | `SecureMedia`, `MediaReceive` | partly, safety proved |
| Jitter buffer | `media/jitter_buffer.cpp` | `JitterBuffer` | modelled, proved |
| Sample rings | `media/spsc_ring.hpp` | `SpscRing`, `SampleQueue` | modelled, proved |

An application thread calls the C API. `Engine::run` queues the command for the
network thread and waits for its promise. The network thread runs one loop:
commands, callbacks of the TLS connection, relinking and reconnecting, SIP and
RTP datagrams, the user agent's timers, and every 20 ms a frame of audio each
way. The user agent is a single-threaded state machine that queues events; the
engine delivers them between its steps. A TLS connection has a thread or a
dispatch queue of its own that posts into an inbox. The realtime audio thread
shares one ring in each direction with the network thread.

## Modules

**Registration.** `wanted`, `registered`, `inFlight`, `nextAttempt` are `struct
Registration`; `transactions` the outstanding REGISTERs, keyed by branch. One
action per entry point: `StartRegistration`, `StopRegistration`, `Shutdown`,
`Respond` (on_response and on_register_final), `OnTimer`, `OnTransportDown`,
`OnTransportUp`. There is no clock: an armed timer may fire at any later step,
which covers every timing. The server answers any outstanding REGISTER with any
status, in any order, or not at all. `reported`, `binding` and `doubtful`
observe what the application was told and what the server holds.
`AppWaits` says the application registers again only when no unregister is
outstanding; see the findings for what happens otherwise.
`RegistrationLiveness` adds an environment that becomes calm.

**CallAgent.** The call, its INVITE, CANCEL and BYE transactions, incoming
INVITEs, media socket and events. Commands are `Dial`, `Answer`, `Reject`,
`Hangup`, `Shutdown`; messages are `OnProvisional`, `OnAccepted`,
`OnLateAccepted`, `OnFailed`, `OnOtherFinal`, `OnInvite`, `OnReInvite`, `OnAck`,
`OnBye`, `OnCancel`; then `OnTimer` and `OnTransportDown`. The far end decides
once on each INVITE (`Decide`), but its messages come early, late, repeated or
never; addresses may not resolve and keys may not be made. `peer`, `heard`,
`cancelled`, `answered`, `acked`, `response`, `up` and `story` observe both ends.
`up` holds the dialogs this side has answered or acknowledged and not seen a BYE
for; a 2xx it drops leaves a dialog up at the far end only, which is a finding.
A BYE with the call's Call-ID ends the call in every state, as in `on_request`.
`CallLiveness` adds fairness.

**EngineCommands.** Application threads, the queue with `closed_`, the loop,
`stop()` with its grace period, and the refusal of abandoned commands.
Commands given from the event callback run inline and are steps of the loop.
Nobody calls an engine after its destruction returned.

**Link.** `pc` is where the network thread is in `loop()`; the connection's
thread posts `Connected`, `Data` and `Closed` at any time, tagged with its
generation. The user agent is reduced to its requests: waiting in `pending_`,
discarded, or handed to the connection of some generation. Doubling of the
back-off is modelled in seconds; when it ends is left to choice.

**TlsConnection** implements **ByteStream.** `pc` is where `run()` of the
OpenSSL connection is: trying endpoints, shaking hands, the rounds of `wait()`,
and in `pump` reading, taking the outbox, writing, polling, draining the wake
pipe. `owner` is the network thread between calls, inside `send` (bytes queued,
wake-up not yet written) or inside the destructor. A byte is its place in the
order of sending, so order, loss and repetition show. The peer may send, stay
silent, stop reading or close at any time; SSL calls are their outcomes.
`ByteStream` is what `tls_transport.hpp` promises; `IsByteStream` maps the bytes
in `pending` and the outbox to its queue. Polls are not interrupted by signals.

**AppleTls** implements **StreamCallbacks.** The dispatch queue runs one block
at a time: state changes, completed receives, and the cancel of the destructor.
A block begins, may call the listener under the mutex, and ends, so that the
destructor of the network thread can come between. Network.framework is
external; it may enqueue blocks that a cancel has overtaken. A TLS error after
the connection was up is reported as `HandshakeFailed`, as `tls_apple.cpp:56`
maps it. `send`, the creation of the connection and trust evaluation are calls
into the system and left out.

**InboundStream** composes **AppleTls**, the engine's inbox, `drain_link` and
**StreamFramer**: from the bytes of a server to the messages the user agent is
handed. A symbol stands for bytes the framer does not tell apart: a carriage
return, a line feed, a line of text, a whole Content-Length line. The framework
may cut the stream between any two symbols; a cut inside a line of text is no
different to the framer from one before it. `Streams` are sequences of messages,
keep-alives and malformed texts; `Say` gives the bytes and where each item ends.
What these are is defined beside the framer, not by it: a message is a start
line, a head and the body the head announces (`WellFormed`); a malformed text is
too long, or has a head without a usable length (`IllFormed`).
`StreamAssumption` asks the constants to be of these kinds.

**SecureMedia** is the media of one call. The phone dials or is called, answers,
hears re-INVITEs; each description carries what `parse_audio` keeps of it:
codec, profile, crypto lines with their tags and keys, the families of its
address. `StartMedia` and `UseKeys` follow the engine: which endpoint the socket
can reach, when a context is kept and when it is made anew, and what a context
that cannot be made leaves behind. `SendFrame` protects with the sequence number
libsrtp turns into an index. `MediaReceive` adds the packets of the far end on a
network that loses, repeats and delays them, the replay window, the change of
source, and the extended sequence numbers and loss count of `ReceiveStatistics`.
The models assume:

- signalling with keys goes over TLS: it arrives in order, or is lost when the
  connection drops;
- a far end whose re-INVITE gets no response gives the call up;
- the far end's packet counter for a key starts in its first cycle, and keys
  that were replaced do not come back;
- when a packet arrives, the newest one counted of its source is less than half
  a cycle of sequence numbers away (`InReach`): no outage and no delay reaches 11
  minutes. A sender that restarts its numbers goes ahead by more than
  `kMaxDropout` and less than half a cycle (`ReceiveAssumption`).

How many packets a call has is not limited: `MaxFarSent` bounds the instance TLC
checks and nothing in the proofs.

**JitterBuffer.** `Put` takes any sequence number at any time; `Pop` follows a
20 ms schedule and may be late by a frame. Time is in units of 10 ms. The
shrinking loop is given by where it stops. Payloads and statistics are left
out. The engine's skip after a stall of more than ten frames is not modelled.

**SpscRing** implements **SampleQueue.** `push` is a load, one step per copied
value, and a store; `pop` likewise; `discard` a load and a store. The index
stores release and the loads acquire, and each index has one writer, so a
sequential interleaving of these steps is what the memory model allows; a
loaded index may be out of date when used, which is part of the model. The
capacity is the power of two the constructor finds for the minimum it is given;
indices wrap at `IndexModulus`. `IsFifoQueue` maps the slots between the indices to the
abstract queue.

Definitions whose names end in an underscore and a word (`OnTimer_NoRetry`) are
mutants: the definition after them with a plausible mistake. Every property has
one that violates it, which shows that the instance is large enough to tell.

## Runs

| run | shows |
|---|---|
| `registration` | With an application that waits: a wanted registration has a REGISTER outstanding or scheduled unless refused for good (`KeptRefreshed`); the application's last news agrees with `registered` (`ApplicationKnows`); a registration that completes after a stop is taken back (`UnregisterSticks`). In a calm environment it is reached and kept (`EventuallyStaysRegistered`), and an unwanted one comes to rest (`UnwantedComesToRest`). |
| `calls` | Every call's events form a legal story (`StoriesLegal`); the media socket follows the call (`SocketFollowsCall`); an INVITE given up is cancelled when, and only when, its call noted a provisional response, unless the far end ended the call with a BYE (`CancelWhenAllowed`); the dialogs that are up are those of the current call (`NoOrphanDialog`); an INVITE that rang is ringing or has had its end (`RingingOrAnswered`), and gets one final response (`OneFinalResponse`); no call waits forever for an answer or an ACK (`NoCallHangs`). |
| `link` | Requests are never stranded on a dead connection (`NoRequestStranded`), `framer_` never joins two connections' bytes (`FramerFresh`), a replaced connection's callbacks change nothing (`UpIsReal`), and relinking drops only the connection that was suspected (`RelinkDropsSuspect`). |
| `commands` | A caller waits exactly while its command is queued or in hand, once (`WaitingIsQueued`); every command is answered (`EveryCommandAnswered`), and destruction ends (`DestroyEnds`). |
| `tls_connection` | The pump never sleeps on bytes in the outbox (`WakeUpComes`); bytes go out in order and once, after the handshake (`IsByteStream`); a byte given to `send` goes out unless the connection ends (`SentGoesOut`); the listener hears how connecting went and when the connection is lost (`ListenerHears`); the destructor returns (`DestroyReturns`). |
| `inbound_stream` | The user agent is handed exactly the messages that came whole (`MessagesExact`), none is lost at an orderly close (`NothingLostAtClose`); callbacks come one at a time and not after the end (`KeepsCallbacks`); what the server says is heard and what it closes is dropped (`ServerIsHeard`). |
| `secure_media` | With SRTP, media has a context each way, and with no offer under way each end hears with the key the other sends with (`KeysAgree`); no key is used twice with one index (`OutboundIndexGrows`); with SRTP a packet is taken once, also across a re-INVITE (`TakenOnce`), gets its place in the stream (`PlacedRight`), and is counted lost only if it did not come or carried no PCMA (`LostIsReal`). |
| `jitter_buffer` | None is left behind the playout point (`QueuedAhead`), frames play in order and once within a stream (`PlayedInOrder`), drops are spaced and growing does not trigger shrinking (`ShrinksSparingly`). |
| `ring` | No slot is touched by both threads (`NoSlotRace`); the ring is a bounded queue (`IsFifoQueue`), and a discard leaves exactly what was pushed since it began (`DiscardIsExact`). |

Three runs show a disagreement between the code and what its documents,
comments or tests say:

| run | what happens |
|---|---|
| `registration_reregister` | Register while an unregister is in flight: nothing is sent, and when the unregister finishes nothing is scheduled. The registration is lost without an event. |
| `calls_late_answer` | A 2xx that comes after its INVITE transaction timed out or went with its connection is neither acknowledged nor ended. |
| `calls_ring_again` | A retransmitted INVITE that arrives after its call ended rings as a new call. |

The same models show smaller differences, kept out of the runs: a far end whose
media address does not resolve is reported answered although media never starts,
where `ketphone.h:57` says that media is flowing; register, unregister, register
before the first answer ends in a reported 200 for a binding the server has
removed; a connection that closes during a refresh is reported as 408 where
`user_agent.hpp:112` says 503; shutting down after a failed refresh sends no
removal for a binding the server may hold; `user_agent.cpp:594` promises a CANCEL
once a provisional response arrives, but after a shutdown before the first one,
or a BYE while the call is still being set up, the response finds no call and the
INVITE is left without one; a BYE before the call is connected is reported as
`RemoteHangup`, which `ketphone.h:67` reserves for connected calls, and before an
incoming call is answered it leaves the INVITE without a final response; packets of
another payload type (DTMF, comfort noise) are ignored before they are counted
(`media_session.cpp:55`) but share the sequence numbers, so the packets after them
count them as lost, where `ketphone.h:145` says "Packets that never arrived".

### Bounds

- `registration`: three branches, as many REGISTERs outstanding as the handlers
  can produce in a burst; statuses 200, 401, 403 and 500 are one of each class
  the code tells apart.
- `calls`: two call ids, so that a late message meets a newer call, and one
  caller, whose INVITE may come again.
- `link`: seven generations, enough for two full cycles of connect, loss and
  reconnect with failures between; three events in the inbox; room for one
  pending request of two, so that the limit is met. Generations stop the run.
- `tls_connection`: three bytes, so that some are written, some left over and
  some still in the outbox; two reads' worth of input, two endpoints, a wake
  pipe that holds two bytes and so fills up. Resolving the server's name comes
  before the endpoints and is outside the deadline: `DestroyReturns` counts from
  there. The peer sends finitely much: the read loop of `pump` does not look at
  anything else while data keeps coming.
- `inbound_stream`: a message with and one without a body, the body looking like
  a keep-alive; a keep-alive; a message without a length, one that is too long,
  and lines without an end. The inbox holds two events, so that cutting and draining overlap.
- `secure_media`: one, two and no crypto lines; phones with and without SRTP, on
  either family; two epochs of keys, two sources. Sequence numbers wrap at 32,
  three packets go out from the last one before the wrap, and the far end sends
  three, PCMA or not, with jumps beyond the dropout between them. Dropout and
  replay window are small and the jump is below half a cycle, so that a packet can
  be late, too late, lost before a jump and out of order around the wrap.
- `commands`: three threads, each issuing any number of commands.
- `ring`: four slots, indices that wrap after eight, chunks of up to three
  values, more than the space left.
- `jitter_buffer`: every limit scaled down to between two and four; sequence
  numbers 0 to 5, a clock of eleven units. The clock stops the run.

Deadlock is not checked where the system may really stop: after shutdown or
destruction, when nothing is wanted, or at a bound.

### Fairness

- `registration`: only once the environment is calm, the server answers, the
  timer fires and the connection comes back.
- `calls`: the loop never polls past `next_deadline()`, so an expired deadline
  is acted on. A provisional response moves an INVITE's deadline, so this
  assumes that a far end does not send them forever. Messages are not fair.
- `commands`: the network thread keeps running, since its poll waits at most
  200 ms, and time passes. The application promises nothing.
- `tls_connection`: both threads run on and finish the calls they began, time
  passes, and the socket takes bytes again some time after it was full. The
  peer need not send or close anything.
- `inbound_stream`: the dispatch queue runs on, a receive for which there are
  bytes completes, and the network thread drains its inbox. The server need not
  say anything.

## Proofs

Each argument is an inductive invariant, kept by every action in turn, from
which the property follows.

`Signalling_proofs`, for any set of branches, any statuses between 200 and
699 and either transport (`RegistrationAssumption`):

- `TypeCorrect`: `Spec => []TypeOK`, including that no two outstanding
  REGISTERs share a branch.
- `RegistrationSafe`: `Spec => [](ApplicationKnows /\ UnregisterSticks)`,
  whatever the application does. `KnowledgeInv` adds what the handlers rely on: an
  application that stopped has been told nothing since, and a binding not put in
  doubt by a later failure is the registration in place or about to be removed.
- `RegistrationKept`: if the application waits, `KeptRefreshed` always holds.
  `RefreshInv` adds that a REGISTER marked in flight is outstanding, and that no
  removal is while registration is wanted, which is where `AppWaits` enters.

and for any requests and any bounds on connections, inbox and
pending requests (`LinkAssumption`):

- `LinkSafe`: `NoRequestStranded`, `FramerFresh` and `UpIsReal` always hold.
- `RelinkSafe`: `LinkSpec => RelinkDropsSuspect`.
- `LinkTypeCorrect`: `LinkSpec => []LinkTypeOK`, including that the wait before
  reconnecting stays between one and thirty seconds.

The strengthening is about the events between the two threads. `Timely` says
that an event in the inbox, or in the batch being drained, is of a connection
made so far, and that one of the current generation means its connection is
still there and, for Connected, past its handshake. Counting the generation up
makes everything on its way stale at once (`TimelyNext`), which is why
`drop_link` and `connect_link` need not empty the inbox. `RelinkInv` adds that
`relink_` blames the present connection unless the link is down, and is clear
whenever `loop()` reaches `connect_link`; without the second half a suspicion
could pass to the next connection.

`CallAgent_proofs`, for any number of calls, any callers and either transport
(`CallAgentAssumption`):

- `CallSafe`: `SocketFollowsCall`, `NoOrphanDialog` and `RingingOrAnswered`
  always hold. `Inv` adds which fields a state and direction of the call allow,
  that ids come from the counter, and that the transactions belong to the
  current call or to an earlier one: an INVITE of the current call is on its
  latest branch, and a BYE is for a call that is over.
- `OneAnswer`: `Spec => OneFinalResponse`.
- `CancelSafe`: `Spec => []CancelWhenAllowed`. `CancelInv` ties `provisional`
  and `cancel` of the call to what was heard and sent on its latest branch, and
  says that an INVITE that outlives its call is `Settled`: no provisional response
  was noted, it was cancelled, or a BYE ended the call. It stays so because the
  story of a call that is over does not change (`OthersTold`).
- `StoriesSafe`: `Spec => []StoriesLegal`. `StoryInv` says that ids not given out
  have no story, that every call but the current one has ended, and which events
  the state of the current call allows: none that ends it, at most progress while
  it calls, and just its arrival until an incoming call is acknowledged.
  `LegalAppend` then says which event may follow.
- `TypeCorrect`: `Spec => []TypeOK`, from these invariants and `Rest`.

`ThreadQueues_proofs`, for any threads (`EngineCommandsAssumption`):

- `CommandsSafe`: `Spec => []WaitingIsQueued`. `Inv` follows the commands
  through queue and batch: each thread that waits has one, and nothing is queued
  once `closed_` is set.

and for any minimum capacity, any values and any index type whose size is a
multiple of the capacity (`SpscRingAssumption`):

- `RingRaceFree`: `RingSpec => []NoSlotRace`; `RingIsQueue`: `RingSpec =>
  IsFifoQueue`, the refinement of `SampleQueue`; `DiscardsExactly`: `RingSpec =>
  DiscardIsExact`. `RingInv` says what a loaded index is still good for: the
  space `push` counted is at most the space there is now, what it copied so far
  lies right after `write_`, and what `pop` counted and copied is the beginning of
  what is readable. The work is arithmetic: `CapacityFound` shows that the
  power of two the constructor doubles up to is there for every minimum,
  `MaskedWrap` that masking an index that wrapped gives the slot it
  would have had, `DistanceMoves` that distances add up as long as they stay below
  the capacity, and `SlotsDiffer` that different distances are different slots.

`TlsConnection_proofs`, for any number of sends, any input and any capacity of
the wake pipe (`TlsAssumption`):

- `TypeCorrect`: `Spec => []TypeOK`.
- `WakeUpSafe`: `Spec => []WakeUpComes`. The invariant has to cover the whole
  stretch from taking the outbox to sleeping, in which the pipe is not drained.
- `KeepsContract`: `Spec => IsByteStream`, the refinement of `ByteStream`.
  `StreamInv` ties where the thread is to what the listener was told, and says
  that until the end the bytes written, pending and in the outbox add up to
  the bytes given to `send`. A `Send`, `Connected`, `End` or successful `Write`
  is then a step of the contract, and every other step is none; taking the
  outbox is none because what is queued is `pending` followed by the outbox.

`InboundStream_proofs`, for any number of bytes (`AppleAssumption`), any stream
and any bound of the inbox:

- `CallbacksKept`: `Spec => KeepsCallbacks`, the refinement of
  `StreamCallbacks`. `ListenerInv` says that the listener is set only while the
  connection is used and has not closed; `ReadyInv` that there is one ready
  block in its life, and no receive before the listener heard of it.
  `CallbacksKeptInEngine`: `InboundSpec => KeepsCallbacks`, because every step of
  the composition is one of the connection or leaves it alone.
- `EverythingPushed`: `InboundSpec => []PushedAtClose`: when `drain_link` comes to
  the on_closed of a connection that did not fail, the framer was given every
  byte the server sent. `DeliveryInv` says that the bytes between the framework
  and the framer have no gap: the events of the inbox join up (`InboxInv`); while
  there is a listener one receive is outstanding, waiting or running, and what it
  holds begins where the inbox ends (`ReceiveInv`); and a block for a connection
  that waited comes before the one that says it is ready (`WaitedInv`), without
  which `close` could be reported as orderly too early.

`InboundMessages_proofs`, for any messages, malformed texts and streams of them
(`StreamAssumption`):

- `MessagesAreExact`: `InboundSpec => []MessagesExact`. `FramerInv` says where in
  the stream the framer is, at whatever step of `drain_link`: some items are dealt
  with, the messages among them were handed over and none of them is malformed;
  after them only line ends were skipped; and the buffer holds the bytes from
  there to the last one pushed (`Position`). `RangeInv` keeps every event within
  what was said. A turn of the loop then skips line ends to the beginning of the
  next item (`OneAfter`), and what `next` does there is settled by that item: a
  message that is whole is cut out (`NextCutsMessage`), part of one is kept
  (`NextKeepsPart`), and from a malformed text nothing is ever cut
  (`NextRefuses`), however much of it and of what follows is in the buffer. These
  three rest on `SameHead`: two texts of which one begins with the other have the
  same head once both have its empty line.
- `NothingLost`: `InboundSpec => []NothingLostAtClose`, from `EverythingPushed`
  and `MessagesAreExact`.

The stream is a recursive definition; what it needs of induction, that the ends
exist (`EndsExist`), grow (`EndsGrow`) and leave no byte without an item
(`ItemOf`), is shown from the least counterexample (`LeastNat`). These lemmas and
the ones on `next` are in `InboundStream_proofs`.

`SecureMedia_proofs`, for any configurations, descriptions, tags, key changes
and packets (`MediaAssumption`, `ReceiveAssumption`):

- `KeysSafe`: `MediaSpec => []KeysAgree`. `KeyInv` says, for what is on the
  wire, which keys it will bring: an answer or a 200 names the key this side
  sends with and the line whose key it hears with, and an offer that is refused
  leaves both ends with the keys they had.
- `IndexGrows`: `MediaSpec => OutboundIndexGrows`. `OutInv`: the next sequence
  number is the one after the highest index protected, modulo the cycle, so that
  libsrtp, which places a number next to the highest index (`NextIndex`), always
  infers the next one; and a context without packets is one whose key has not
  been used.
- `PacketsTakenOnce`: `MediaSpec => []TakenOnce`. `TakenInv`: every packet taken
  with the current key is in the replay window, those of other keys are of older
  epochs, and an offer under way brings either the current key, which keeps the
  context, or a newer one.
- `NumbersPlaced`: `MediaSpec => []PlacedRight`, and `LossesReal`: `MediaSpec =>
  []LostIsReal`. `SourceInv` is about the sender: its numbers have no gap but the
  jumps. `StatisticsInv` says that extended
  numbers are the sent ones moved by whole cycles, that everything from the base
  to the highest was sent, and that at least as many packets were received as
  are counted; what is expected and not counted was then sent and not counted.
  Both rest on `InReach`: beyond half a cycle no receiver can tell in which cycle a
  packet was sent.

`JitterBuffer_proofs`, for any limits, sequence numbers and clock
(`JitterBufferAssumption`):

- `QueueSafe`: `Spec => []QueuedAhead`; `PlaysInOrder`: `Spec =>
  PlayedInOrder`; `DropsSparingly`: `Spec => ShrinksSparingly`. `PlayInv` adds
  that what was played lies behind the playout point, that the counter of pops
  since a drop never runs ahead of the pops there were, that a delay which has
  just grown is within a frame of its target, and
  `Measured`: the window of transit times is not empty once a frame was put,
  which is what the comment on `desired_offset_us` (`jitter_buffer.cpp:132`)
  relies on. The lemmas on least elements and percentiles show that the target is
  then always defined.
- `TypeCorrect`: `Spec => []TypeOK`, including that at most `kWindow` transits are
  kept. `Limits` has the bounds that `PlayInv` leaves out.

Every safety property of the passing runs is proved: invariants, action
properties and refinements. Only model-checked is liveness
(`EventuallyStaysRegistered`, `UnwantedComesToRest`, `NoCallHangs`,
`EveryCommandAnswered`, `DestroyEnds`, `SentGoesOut`, `ListenerHears`,
`DestroyReturns`, `ServerIsHeard`), which needs fairness and ENABLED, out of the
prover's reach.

## Not modelled

- SIP messages, digest, base64, MD5, PEM, the text of SDP and the building of
  headers are functions of bytes without state. What the other parts need of
  them, whether a message, an offer or a challenge is usable, is a choice there.
- G.711 is a table; its tests are exhaustive. The interarrival jitter is a
  running average for display. Concealment and sample encoding change no state
  the properties see.
- Sockets, name resolution and trust evaluation are calls into the system;
  their outcomes are choices.
- The C API checks arguments and calls what is modelled; the Swift and CoreAudio
  layer and the command line tool are wrappers around it.
- Time is order: a wait of length zero, as `next_deadline` gives when a retry is
  due while a REGISTER is in flight (`user_agent.cpp:801`), is not visible.
- Requests that do not fit into `pending_` are dropped without a word
  (`engine.cpp:242`); `NoRequestStranded` exempts them, and their transaction
  ends by its deadline.
