# DataPeer: a TLA+ verification project

DataPeer is a C++/Qt program in which a *client peer* connects to a *server
peer* over TCP, is *coupled* with it by a handshake, a login and a connect
request, keeps the session alive with heartbeats, exchanges *actions* on the
same connection and *data messages* over a pair of UDP sockets. This directory
models the program in TLA+, from the bytes of a message to the two peers: the
framing and the message objects, the coupling, the sessions over the server's
one slot, the actions, and the data connections that follow the coupling. TLC
checks the models on small instances. TLAPS proves for instances of every size
each safety property that TLC checks: every invariant, every action property,
and both refinements. Only liveness rests on TLC alone.

Source paths below are relative to `src/`.

## 1. Inventory

### Components, their state and their operations

| Component | State | Operations | What makes it correct |
|---|---|---|---|
| `ServerCouplingHandler` (`comm/server`) | `m_handshaked`, `m_authorized`, `m_coupled`, `m_peerDataPort`, `m_timer` | the three requests, the heartbeat, the timeout; signals `coupled`, `failed` | grants the steps in order and once; flags match what the client was told; a watched client is watched by the right timer |
| `ClientCouplingHandler` (`comm/client`) | `m_coupled`, `m_peerDataPort`, `m_timer` | `startCoupling`, the three responses, timeout, heartbeat | never asks out of turn; an attempt ends |
| `CommunicationServer` (`comm/server`) | `m_server`, `m_socket`, `m_couplingHandler`, `m_actionHandler`, `m_transceiver` | `start`, `stop`, `dropClient`, `onNewConnection`, `startCoupling`, `onCoupled`, `processMessage`, `sendAction` | one slot, consistent, given back, never confused between two sessions |
| `CommunicationClient` (`comm/client`) | `m_socket`, `m_couplingHandler`, `m_actionHandler`, `m_transceiver` | `connectToHost`, `disconnectFromHost`, `startCoupling`, `onCoupled`, `processMessage`, `sendAction` | its queued slots find what they assert; messages find their handler; the end is reported |
| `Transceiver`, `Message` (`lib`) | `m_buffer` and its position, `m_device`, `m_callback` | `listen`, `send`, `write`, `onReadyRead`, `readData`, `flush`, `stop`; `getBounds`, `toBytes`, `fromBytes` | each message once, in order, whole; a bounded buffer; nothing of an old device |
| `ActionHandler` (`comm/actions`) | `m_pendingActions`; the ids of requests | `sendAction`, `onActionRequest`, `onActionResponse` | each callback is called at most once, with its own response, or goes with its session |
| `ClientPeer`, `ServerPeer` | the communication object, the data channel | connect, disconnect; start, stop, drop; `sendAction` | the data connection follows the coupling |
| `DataChannel`, `DataPeer` (`comm`) | `m_in`, `m_out`, `m_receiver`, `m_port`; `m_state` | `start`, `connectTo`, `releaseConnection`, `send`; the queued signals, `setState`, `onFailed` | an old event does not end a new connection; the state follows the connection; a receiver that listens hears |
| demo program (`main.cpp`) | two worker threads, `g_running` | connects, requests two actions, streams data, stops the server | threads end; no use of a socket that another thread resets |
| message objects and serialization (`lib`) | the fields, `m_serializer` (cached references to them), `m_content`, `m_typeIds` | `toBytes`, `fromBytes`, `is`, `as`, copy, assign, move, destroy | an object refers to its own fields only; every reading of a message is what was sent |

### How they interact

* A peer owns its communication object; that owns the socket, the transceiver,
  the coupling handler and the action handler. All of it runs in one thread,
  under one Qt event loop.
* The transceiver calls `processMessage` synchronously for each message it
  finds in the bytes of one `readyRead`; `ROUTE_MESSAGE` passes it to the
  coupling or the action handler *through an unchecked pointer*.
* The handlers send through the transceiver, synchronously, and report
  `coupled`, `failed` (server) and the socket's `connected` and `disconnected`
  through *queued* signals. A queued signal carries no sender, and neither
  `dropClient()` nor destroying its sender cancels it. The client's `failed`
  is a direct call that aborts the socket.
* `dropClient()` deletes the socket with `deleteLater()`; closing a socket
  stops the transceiver that is linked to it.
* A peer owns its data channel for its whole life. `start` and
  `connectToHost` bind the input socket; `peerConnected` and `connected` of the
  communication object make the output socket, whose `connected` lets the
  receiver listen; each end of a session releases it. The channel's three
  signals are *queued* to the peer's state, and the output socket's
  `disconnected` is queued to `releaseConnection`.
* The demo's two worker threads read the state and send without a lock.
* A client that goes away is noticed by the closing of its connection or, when
  its host is lost, by the timer alone.

### What is hard here

The order of queued events against socket notifiers and timers; two clients
competing for one slot; sends that fail halfway through a handler; messages cut
by TCP; hosts that vanish; calls of the application at any moment; request ids
that collide; signals of the data channel that lag behind it; datagrams that
come before anybody listens; cached references in objects that are copied. The
list, each entry at its line, is `hazards` in `PROJECT.json`.

## 2. Modules

```
CouplingMessages <- ServerCoupling <- ServerCouplingHandler <- MCServerCouplingHandler
                                          |  implements CouplingGate
EventLoop, CouplingMessages <- TcpLink <- CommunicationClient --+
                               TcpLink, ServerCoupling <- CommunicationServer --+-- Communication <- MCCommunication
Communication <- SessionHistory <- MCSessions
                     |  implements SessionService
DataChannel <- DataPeers            |  runs on SessionService
ActionHandler <- MCActionHandler
Messages <- MCMessages
Transceiver

ServerCoupling                                <- ServerCouplingTheorems
ServerCouplingHandler, ServerCouplingTheorems <- ServerCouplingHandlerProofs
Communication, ServerCouplingTheorems         <- CommunicationProofs
SessionHistory, CommunicationProofs           <- SessionProofs
ActionHandler                                 <- ActionHandlerProofs
Messages                                      <- MessagesProofs
Transceiver                                   <- TransceiverProofs
DataPeers                                     <- DataPeersProofs
```

`SessionService` joins the two halves: `Communication` with its history is shown
to implement it, and `DataPeers` uses its actions for what the communication
layer may do. That the layer keeps to the service is proved
(`ServiceImplemented`). `DataPeers` restricts the service in two places, and so
has to show that it leaves out nothing that the layer does: `ServerCouples` asks
that no end of a session waits at the server, which the layer keeps with drops
and without (`CouplesInAPassOfItsOwn`); `DropClient` asks that no coupling
waits, which the application has to keep, as the finding `DropDuringCoupling`
says.

| Module | Models | Correspondence |
|---|---|---|
| `CouplingMessages` | `msg/coupling.h`, `msg/actions.h` | a message is a record of kind, step, port or result; credentials become the verdict of `authorize()` |
| `ServerCoupling` | the handler object as a record, each request as an operator on it | shared by the next module and by `CommunicationServer` |
| `ServerCouplingHandler` | one handler against a client that sends anything at any time | one action per handler; `Answer` when the response is sent, `AnswerLost` when `SEND_RESPONSE` returns early |
| `CouplingGate` | the abstract promise: three grants in order, and a port that is visible with the last and never changes | refined by `StageOf`, `PortOf` |
| `EventLoop` | Qt's event loop (external): posted events and what one pass may still serve | `CanServe`, `Post`, `Deliver`, `Forget` |
| `TcpLink` | the two ends of each connection and the messages in flight (external), and what `Transceiver` makes of a read | a message that is split over two reads is lost |
| `CommunicationClient` | one connection attempt: the object, its handler, its action handler | one action per slot, notifier or timer; a slot runs to its end (`Idle`), the messages of one read are handed over one by one (`cBuffer`) |
| `CommunicationServer` | the slot, from `start()` to `stop()` | the same; `mSocket`, `sCoupling`, `sActions` are the three pointers, `sDevice` and `sLinks` the transceiver's device and the sockets it is connected to |
| `Communication` | all clients and the server | `Next`, fairness, all properties of the composition |
| `SessionHistory` | `Communication` with a history variable: `granted`, the clients that the server has ever coupled | it records, and no step of `Communication` depends on it; `AtServer` and `AtClient` map the handlers, the queued signals and the history to the phases of a session |
| `SessionService` | what the layer promises to the peers: sessions announced one at a time at the server, each once, and to a client only if the server coupled it before | a phase for each side of each session; one that the server ends without coupling it is `refused`, and its client never hears of it |
| `Transceiver` | framing at the receiving end of a byte stream | bytes become tokens: garbage, start, header, content, end; positions and sizes count tokens |
| `ActionHandler` | both action handlers over several sessions | one action per handler; a call of `sendAction` is a member of `Calls`; the id is any member of `Ids`, as the code lets ids collide |
| `DataChannel` | one `DataChannel` with its `DataPeer`'s state, as operators on a record | `Started`, `ConnectedTo`, `Released`, `Linked`, `InputLost` are the methods and slots |
| `DataPeers` | `ClientPeer`, `ServerPeer`, their channels and the worker threads | one action per call and slot; what waits in a loop is the channel's `queue` |
| `Messages` | message objects: fields, cached references, content, class names | `Lineage` is a class with its bases, `Heirs` those derived by `MessageOf`, `Declaring` those with `SERIALIZABLE_FIELDS`; `Chain` is what `initContextChain` adds of them, `Ids` what `addId` inserts; a field stands for all that one class declares |

Definitions named *Mutant of ...* are faulty variants of the definition that
follows them. No specification uses them: each is a bug the properties are
known to notice (`mutants` in `PROJECT.json`).

### Modelling decisions

* **Event loop.** One pass first delivers all posted events, those posted
  meanwhile included, and then serves each ready notifier at most once, and
  then the timers. So a queued slot waits for the *other* notifiers of its
  pass, but never for a second call of the same one. Whether an action can
  overtake a queued `onCoupled()` depends on just this.
* **Application calls** (`dropClient`, `sendAction`, `disconnectFromHost`,
  `stop`) come between any two slots. `UserDropClient` counts as a callback of
  another source (`"app"`), the data channel for instance.
* **A client is an attempt.** `ClientPeer::connectToHost` makes a new
  `CommunicationClient` each time, so that a client that connects again is
  another member of `Clients`. Its data port is named after it.
* **Crashes.** A null pointer or a failed assertion ends the process
  (`CrashInRouter`, `CrashInOnCoupled`, `ClientCrash`), as in a debug build;
  its sockets close. The client's assertions are stated as an invariant
  instead (`ClientAssertsHold`), and no run violates it.
* **Split messages.** In `Communication` a message that is cut by the
  transport disappears; `Transceiver` shows what becomes of it token by token
  (`LostIffSplit` is what `TcpLink` takes for granted). That its remains may
  also be glued to another message is the finding `MalformedSlice`; its
  consequences beyond `processMessage()` are not followed further.
  `ActionHandler` lets it lose any message (`Lose`).
* **Sends succeed** on a connected socket, as QTcpSocket buffers them; they
  fail on a closed one (`HeartbeatFails`). `ServerCouplingHandler` lets any
  send fail.
* **Request ids.** `NextRequestId` is static in a header and a plain
  `ActionRequest` has the id -1, so that `SendAction` may give a call any id. A
  call that shares its id with another that is still under way is noted in
  `mixed`: for those the code confuses the answers, and `OwnAnswer` and
  `NoLostCallback` say nothing of them; `AnsweredOnce` speaks of all.
* **UDP.** What a datagram does to the input it reaches is modelled, not its
  content: read when the receiver listens, and otherwise left unread. In Qt 5
  a bound `QUdpSocket` does not repeat `readyRead` until the datagram is read,
  and `Transceiver::listen` reads at once only from a device that is open,
  which a socket that was only bound is not; so the input stays deaf until
  `start` binds a new one. An output socket to an address is connected
  at once; one to a name after a lookup (`Resolved`), unless it is cached.
  Loss and reordering of datagrams have no effect on any state here.
* **Threads.** A worker reads `isConnected()`, then `m_out`, then writes: three
  actions, between which the main thread may do anything. What a write to a
  destroyed socket does is undefined in C++; in the model it fails.
* **Filtered queues.** What `removePostedEvents` leaves of a queue is the
  sequence of the events at the places that stay (`Selected`), each placed by
  the number of those before it. `SelectSeq` says the same, but it is recursive
  and the provers know nothing of it.
* **Input socket.** `InputFails` is `disconnected` of the bound socket. Qt
  reports it only for a socket that was connected, which this one is not; the
  slot is modelled because it is in the code, and switched on by `Faults`.
* **Message objects.** The bytes of a value are the value, and a class with
  several fields has one place for all of them. The trailing sentinel that stays
  in `m_content` is left out: it is behind the last field.
* **Which fields are written.** `SERIALIZABLE_FIELDS` goes on with
  `SerializableHeir::initBaseContext`, and that name is the one of the nearest
  `SerializableHeir` at or above the class. A class that is derived plainly, as
  `CouplingResponse` is from `CouplingMessage`, so skips the fields of its base,
  and the next heir below it finds only the last that declares any (`Adds`). The
  names of the classes do not skip: a response carries the id of
  `CouplingMessage`, but not its `m_step`. A field that only constructors set
  (`Fixed`) has the value that the constructors of the class give it (`Preset`)
  when its messages do not carry it.
* **History.** A session that has left the slot keeps no trace of how far it
  came, so that nothing in the state tells a client that was coupled from one
  that was turned away. `granted` tells it: it takes in whoever holds the slot
  with a coupling after a step, and is read by the mapping to `SessionService`
  alone.
* **Time** is abstracted: a running timer may fire whenever the loop is free.

## 3. Runs

| Run | Question | Bounds | Result |
|---|---|---|---|
| `CouplingHandler` | does the server's handler keep its promise to an arbitrary client? | 2 ports, 5 responses | holds |
| `Sessions` | do sessions of two clients stay apart, does everything queued find what it expects, is what must come next queued, and do the peers see the abstract service? | 2 clients, 2 messages in flight, 1 split message, actions of both sides, a server that stops and starts; no drops | holds |
| `Drops` | what survives `dropClient()` at any moment? | 1 drop, no split message; no actions by the server | holds |
| `Liveness` | does every attempt end, and is the slot given back? | 2 clients, 1 message in flight, 1 split, 1 mortal host | holds |
| `Reads` | framing when reads end anywhere | 4 messages of 4 tokens, a limit of 8 tokens | holds |
| `Actions` | is each callback called once, with its own answer, or gone with its session? | 3 calls of two sides, 2 ids, 2 sessions, 1 lost message | holds |
| `DataPeers` | do the data connections follow the coupling? | 2 sessions, a worker at the server, faults of both inputs, 3 events waiting | holds |
| `Messages` | whose fields does an object read and write? | 2 objects, 2 values, five classes of the coupling: `CouplingMessage`, `ConnectRequest`, `CouplingResponse`, `HandshakeResponse`, `ConnectResponse` | holds |
| `DropDuringCoupling` | `Q_ASSERT(m_couplingHandler)` in `onCoupled()` | as `Drops` | **violated** |
| `ActionBeforeCoupled` | every message of a client finds its handler, also when the server's application sends actions | as `Sessions`, no split | **violated** |
| `MalformedSlice` | what reaches `processMessage()` is of a known kind | 2 messages, any reads | **violated** |
| `DeafChannel` | a receiver that listens hears | as `DataPeers`, no faults | **violated** |

*Why the bounds are enough.* The slot is single: one client holds it and one
other competes for it, inherits it, or is hit by what the first left behind.
Five responses let a client pass the three steps and be refused twice, at any
place. Two messages in flight let an action and a coupling message share a
read, and a heartbeat an action. One split message may be any of the protocol.
One drop is enough for a leftover to meet a second session. Two parts of
neighbouring messages exceed the buffer limit of 8 tokens without holding a
whole message, so that the flush by size happens as well as the flush after a
message. Two ids and three calls, two of them by one side, let ids be shared
within a side, across sides and across sessions; a third call of the same side
was tried and changes nothing. Two sessions let a leftover of the first reach
the second at each peer, and with three events waiting a whole teardown
(`release` and two `disconnected`) can be pending. The bound `QueueCap` guards
only what the application and the network do, never a delivery. Two objects
are an original and a copy; places are reused, so that a destroyed object has
successors. The five classes are an heir with an heir, and a plainly derived
class with one heir that declares fields and one that does not; the other
messages of the repository repeat these shapes. `CHECK_DEADLOCK FALSE` stands where a system stops legally:
all attempts used, the server stopped, all messages read.

*Constants of the model that bound it:* `MaxReplies`, `ChanCap` (of actions and
heartbeats; the protocol's own messages are bounded by its turns), `MaxLost`,
`MaxDrops`, `MaxSent`, `MaxSessions`, `QueueCap`, `Sessions`. Symmetry of clients and ports is used in safety runs
only; both are only compared.

### The findings

* **`DropDuringCoupling`.** `onCoupled()` is queued. A `dropClient()` between
  the emission and the delivery resets the handler, and the slot asserts and
  then dereferences it. With drops, also `ServerRoutes` (a message read before
  the deferred deletion), `EventsOfThisSession`, `EndsForItsOwnCause` (the old
  socket's `disconnected` ends the next session), `ImplementsService` and
  `DeviceOfTheSlot` (the deletion detaches the transceiver from the next
  session's socket) fail; this is why those are checked in `Sessions` only, and
  why `DataPeers` leaves out a `dropClient()` while `coupled` waits.
  What holds with drops is `CoupledTogether`, `NothingForgotten`, and of the
  service `OneServed` and `CoupledBefore`.
* **`ActionBeforeCoupled`.** The server tells the client that it is coupled and
  may send an action at once; when both arrive in one read, the client routes
  the action to a null `m_actionHandler`. The opposite direction is safe
  (`ServerRoutes`): the client can act only after its own queued slot, and the
  server's notifier is not served twice in the pass that queued its slot.
* **`MalformedSlice`.** The buffer is overwritten from position 0, not
  appended to, so that a split message can be glued to another.
* **`DeafChannel`.** Each input is bound long before its receiver listens: the
  peers couple one after the other, and the first may send at once. In the
  shortest trace the server has its data connection and sends while the
  client's `connected` still waits; the client's input stays deaf although both
  peers report Connected. The same happens to a datagram that arrives between
  two sessions, as `start` keeps the input that is there.

One more disagreement has no run, since no doc or assertion denies it:
`ROUTE_MESSAGE` reads every message `as<CouplingMessage>()`
(`comm/message_router.h:7`), and the first bytes behind the header of a response
are its `result`, so that the reading has the result as its `m_step`. Nobody
calls `step()` on that reading, and the handler reads the same content again as
the response it is, correctly. `ReadsBack` therefore speaks of the fields that
both classes write; `OnlyItsOwnIsMisread` says which readings have a field that
they should not trust.

## 4. Fairness

`FairSpec` of `Communication` assumes of each event loop that it keeps running
(weak fairness of its slots and notifiers), of the timer of a client that waits
for an answer that it fires if it stays running (it is restarted at most twice
in an attempt), and of the listening socket that it is served (strong
fairness, since the model sees it ready only between two batches of another
socket, while each pass of the real loop serves all that is ready). The timer
of the server's handler is fair only when the client is lost and cannot restart
it. Nothing is assumed of the application, of heartbeats, of hosts or of the
network beyond delivery on open connections.

`FairSpec` of `ActionHandler` assumes that what a side has to read is read, and
that a side whose connection is closed notices it and lets go of its handler
(both are notifiers of its loop); nobody has to send, and no session has to
end. `FairSpec` of `DataPeers` assumes that the loops deliver what waits and
that the lookup of the host's name succeeds (`Resolved`); a lookup that fails
is reported by nobody, see the hazards.

## 5. Proofs

The proofs rest on the named assumptions on the constants and on nothing else:
`NoPortAssumption`, `MaxRepliesAssumption`, `NoneAssumption`, `LinkAssumption`,
`ServerAssumption`, `ActorsAssumption`, `PortsAssumption`,
`TransceiverAssumption`, `ActionAssumption`, `SessionsAssumption`,
`PeersAssumption` and `ClassAssumption`. TLC evaluates each of them on its
instances. The number of clients, of ports, of drops, of messages and of their
tokens, of calls and ids, of sessions and waiting events, of objects and classes
is left open, and behaviours are of any length. Two hypotheses are not
assumptions on the model but stand in the theorems that need them:
`MaxDrops = 0` (the application drops no client) and `Server \notin Actors` (it
sends no action of its own). The code does not keep these promises without
them: the runs `DropDuringCoupling` and `ActionBeforeCoupled` show it. What
holds with drops and actions too is proved without.

**`ServerCouplingHandlerProofs`**: one handler against any client, for every
set of ports and every bound on the responses.

* `TypeCorrect`, `StepsInOrder`, `BeliefsMatch`, `TimerWatches`: the type
  invariant and the three safety invariants that the run `CouplingHandler`
  checks;
* `HandlerImplementsGate`: the handler implements `CouplingGate`.

*Argument.* The invariant about the past (`AcceptedInOrder`) is not inductive
alone, because it speaks of the list of responses while the code decides by
its flags. `IInv` joins it with `FlagsMatchReplies`, which ties each flag to an
accepting response in the list, with the order of the flags (authorized implies
handshaked, coupled implies authorized), with the state of the timer, and with
the fact that a coupled handler knows a port. A granted step appends the
response and sets the flag at once; a lost one does neither.
`InductiveInvariant` has one step for each action, and one below it for each
conjunct. The refinement maps the flags to the stage and hides the port until
the handler is coupled: a `ConnectRequest` whose response is lost leaves a port
behind that a later one may replace.

**`ServerCouplingTheorems`**: what the requests do to the record of a handler
(types, which of its fields a step leaves alone, when a request is accepted).
Both the proofs of the handler and those of the composition use it.

**`CommunicationProofs`**: the composition, for every number of clients, of
messages in flight, of split messages and of drops, with actions of either
application.

* `TypeCorrect`: the type invariant;
* `SlotStaysConsistent`: handler, socket and action handler of the slot are set
  and reset together;
* `NoConnectionForgotten`: an accepted connection holds the slot or is about to
  be deleted.

*Argument.* `IInv` is the conjunction of the three. They need each other: the
timer of the handler posts an event that names `mSocket`, which has its type
only because a handler exists beside a socket alone (`SlotConsistent`); and
`dropClient()` posts the deletion that `NoSocketLeak` demands for `mSocket`, so
that it must know the slot to be taken exactly when a socket is there. The
lemmas treat first what a post, a delivery and a read do to the queues, then
the steps of a client, which leave the server's part alone, then those of the
server, then the events that are queued at the server: no step removes a
deletion from the queue but the delivery of it.

**`SessionProofs`**: what happens between the two sides, in layers; each is an
invariant of its own that uses the earlier ones and the `IInv` of
`CommunicationProofs`.

* With drops, losses and actions of either side:
  `TakingTurns`; `ClientNeverAsserts` (`ClientAssertsHold`), `BothSidesAgree`
  (`CoupledTogether`), `RefusedOnlyByLogin` (`NeverOutOfTurn`).
* With drops, losses and actions, too: `NothingIsForgotten` (`NothingForgotten`)
  and, with the history, `PeersRelyOnService`: the server serves one session at
  a time, and has granted each that its client believes to be coupled.
* With all of these, too: `CouplesInAPassOfItsOwn`: a session couples only when
  no event waits for the server.
* If the server's application sends no actions: `ClientMessagesRouted`
  (`ClientRoutes`).
* If it drops no client: `TransceiverOfTheSlot` (`DeviceOfTheSlot`),
  `NoForeignEvent` (`EventsOfThisSession`), `ServerNeverAsserts`
  (`ServerAssertsHold`), `ServerMessagesRouted` (`ServerRoutes`), `EndsByItself`
  (`EndsForItsOwnCause`) and `ServiceImplemented` (`ImplementsService`).

*Argument.* `TurnInv`: of the requests and responses of a coupling at most one
is under way, on the wire or in a read that is being worked off, and none
unless the client waits for it. That lets the next layers speak of *the*
message under way. `ClientInv` ties what waits in a client's loop to the state
of its objects: at most one event, `connected` only before the handler exists,
`coupled` only beside a coupled one. `CouplingInv` says that the request under
way is the next one that the server's flags allow, that a response tells what
the flags say, and that a client which believes itself coupled is so at the
server, *if it holds the slot*; a drop only takes the slot away, so that it
disturbs nothing of this. `SlotOpenInv`: the socket that holds the slot is
open, or its `disconnected` waits. No step takes that
event from the queue but its delivery, which frees the slot (`EndsAwaited`); and
the socket is not destroyed meanwhile, since a deletion is queued only for a
socket that has left the slot, and none takes it twice.
With `NoSocketLeak` and what `ClientInv` says of a client's next event
this is `NothingForgotten`, the safety in the liveness properties: whatever must
take a session further, end it or free the slot is queued, and fairness has only
to deliver it. `RoutedInv`: to a client without an action handler no
action is under way. `SessionInv` is what a drop breaks: the transceiver's
device is the slot's socket, every queued `failed`, `disconnected` or `coupled`
is of the session that holds the slot, `coupled` comes first in the queue, and
what is left of a read beside it is not an action, since the client cannot have
sent one yet. A free slot leaves nothing that could be served. `GrantedInv`
needs no promise about drops: a client that is coupled, or to which the
acceptance of its `ConnectRequest` is under way, is in `granted`, and the
session in the slot is there exactly when its handler is coupled. The refinement maps the
objects, the queued signals and the history to the phases of a session; each
step is a step of the service or a stutter. `SessionInv` decides which at the
server: without it the `disconnected` of an old socket would end a session that
the service still has announced. `GrantedInv` does at the client: it couples
only with a session that the service has coupled, which may have ended since.
`PassInv` looks at one pass of the server's loop. A coupling takes three calls
of the same notifier, since the client takes turns, and a pass makes one. So a
session that is accepted while events wait, which a drop can bring about, has
not shaken hands before these are delivered (`NewInPass`), and its
`ConnectRequest` is not in hand while one waits (`ConnectsAlone`). With
`MaxDrops = 0` `SessionInv` would give the same at once; the peers need it with
drops.

**`TransceiverProofs`**: every length of message, every limit, every stream and
every way to cut it into reads, over `stop()` and new devices.

* `TypeCorrect`: types;
* `BufferIsBounded`: the buffer is never longer than the largest single read;
* `HandedOverInOrder` (`IntactInOrder`): what arrives untouched arrives once and
  in the order of sending;
* `LostWhenSplit` (`LostIffSplit`): the messages that arrive untouched are
  exactly those that some read held whole.

*Argument.* `BoundedByOneRead` needs that the position is still 0 while a read
has found no slice (`PositionFollowsSlices`): such a read may end without a
flush, and the next one must overwrite from the start. The order needs to know
what is in the buffer, which is overwritten and not cut. During a read, its
first tokens are a piece of the stream just read, in order and without a gap;
what lies behind them is `Stale`: it came earlier and holds no start sentinel
before an end sentinel, so that a slice can begin only in the new part. If one
reaches into the stale part it is not an untouched message, since the rest of a
message is younger than its start. A read ends only when no bounds are left
behind the position; so nothing whole is overwritten (`Found`), and the whole
buffer is stale for the next read. That a buffer without bounds holds no slice
(`NoBounds`) takes the first start sentinel and the first end after it, which
exist as least elements of sets of numbers (`LeastOf`, from the well-foundedness
of the order).

**`ActionHandlerProofs`**: any set of calls of both sides with any ids, any
number of sessions and of lost messages.

* `TypeCorrect`: types, and a side whose session is over keeps no callback;
* `CalledOnce` (`AnsweredOnce`): no callback is called twice;
* `ToldItsOwnVerdict` (`OwnAnswer`): a callback hears of its own request;
* `NoCallbackForgotten` (`NoLostCallback`): while both ends are connected and
  nothing was lost, a callback that waits is in the map, and what will release
  it is on its way.

*Argument.* That a callback is called once needs that the map holds only
callbacks that have not been called, and each of them once. `Unheard` says so:
an entry belongs to this side, stands under the id of its own call, was sent
and not heard. Two entries of the same call would stand under the same id.
`emplace` keeps the earlier entry, a new call is not in the map because it is
unsent, and what `onActionResponse` calls it also erases, even after a callback
that has sent its message again. Whose answer it is follows from what travels
(`Traced`): each message was made of a call, a response has the verdict on the
request it was made of, a call is under way once, and a call outside `mixed` is
alone under its id. A response under that id is then its own, and nothing else
can take its entry out of the map.

**`MessagesProofs`**: any tree of classes, derived by `MessageOf` or plainly, with
fields or without, and any number of objects.

* `TypeCorrect`: types;
* `RefersToItself` (`OwnFields`): the cached references of an object lead to its
  own fields, to those that its messages carry and in the order in which they
  are read;
* `EveryReadingIsTrue` (`ReadsBack`): a received message, read as any of its
  classes, has the values that were sent, in all fields that both classes write;
* `OnlyItsOwnIsMisread`: a class that is an heir reads at most one field that its
  sender did not write, its own, which is its last, and only if a plainly derived
  class with fields is between the two.

*Argument.* `Sound` says of one object that its references are its own, and,
when it came from a received message, that its content and class names are
what the sender wrote. Every action replaces an object by one that is sound: a
copy has no references, a reading makes new ones. That two classes of a line read
a field from the same place is a matter of counting: the place of a field in the
chain is the number of classes up to its own that contribute (`Rank`,
`ChainIs`). Up to a base that is an heir, a class and that base have the same
line, and whether a class there contributes is decided by those up to the next
heir; so the two contribute the same, but perhaps for the base itself
(`AddedBelow`), and every field that both write has the same place (`SamePlace`).
What is left over is the heir's own field, at the end of its chain.
`ClassAssumption` says only that the bases of a base are the front of the line.

**`DataPeersProofs`**: any number of sessions, queues of any length, workers and
faults at any peer.

* `TypeCorrect`: types;
* `StateComesRight` (`StateFollowsChannel`): with the waiting signals delivered,
  the state of a peer is that of its connection;
* `ReleaseFindsNoOther` (`ReleaseHitsOwn`): a queued release is never of an
  earlier session;
* `ConnectedWhileCoupled` (`ConnectionFollowsCoupling`): a data connection
  belongs to the session that is announced, and while the input stands, the
  session that is announced has its data connection;
* `PeersInvariant`: the invariant behind these, with `OneServed` and
  `CoupledBefore` of the service beneath;
* `LostInputEndsSession` (`FailureTearsDown`): a peer that lost its input has a
  `failed` waiting that will end its session.

*Argument.* `ChannelOK` speaks of one channel: it listens exactly while it is
linked, it is linked only with an output, the waiting signals lead to the state
it is in, and while a release or a coupling waits there is no output. The last
needs an order of the queue (`Ordered`): a coupling waits once at most, not
behind an end of a session, and no release behind it. Each method of
the channel preserves this (`Follows`), which is proved once and used for both
peers. `ClientOK` and `ServerOK` tie the output and a waiting coupling to the
phase of the session in the service, and a lost input to a waiting `failed`
that changes the state, and so reaches `onFailed()`: it stands behind a
`disconnected`, or at the head while the state is not yet Failed.

`CoupledBefore` of the service is what makes the client's connection one with a
session that the server coupled, so it is carried along with the invariant.

*Only model-checked:* liveness, that is `AttemptEnds`, `SlotFreedOnClose`,
`SlotFreedOnSilence`, `EndReachesClient`, `Answered` and `CoupledConnects`.
Liveness under fairness and `ENABLED` are out of the prover's reach; what is
proved of the first four is their safety part, `NothingForgotten`. The four
properties of the findings do not hold, so there is nothing to prove.

## 6. Not modelled

* A callback of an action that ends the session destroys the handler that is
  calling it, and a worker may write to a socket that is being destroyed:
  undefined behaviour without a bounded set of outcomes. The windows are in the
  models or the hazards; what happens in them is not.
* The content and type of data messages, the encoding of values by
  `QDataStream`, the header of `PeerMessage` (its id is never set and never
  read), partial writes, and several datagrams read as one.
* An empty callback for actions: `onActionRequest` would throw
  `std::bad_function_call` out of a slot. The demo's client sets none, and its
  server sends no actions.
* Sockets that `onNewConnection()` aborts without deleting are not counted.
* When the demo starts its threads, and how it ends: the worker of the model may
  send as soon as the state is Connected, as any user of the library may, while
  that of the demo is started by the first action.
* The build.

## 7. Plan

Done: the coupling protocol (1), the sessions over one slot (2), the framing
(3), the proofs of the server's handler, of the slot and of the buffer (4), the
action handlers (5), the data channels and peers on the abstract service (6),
the worker threads (7), the message objects (8), proofs of the last and of the
callbacks (9), the proofs of the sessions, of the refinement of
`SessionService`, of the answers, of the framing and of the peers (10), that
nothing a session waits for is forgotten, and the history of the grants, with
which the service tells refused sessions from ended ones (11), the classes that
are derived plainly, and that a session couples when no event waits (12).

Next (13): a timed variant of the heartbeat, interval against half the interval.
