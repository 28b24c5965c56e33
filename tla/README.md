# A TLA+ verification of tokio-centrifuge

This directory holds TLA+ specifications of the Rust crate in `src/`: a client
and a server for the Centrifuge real-time protocol, built on tokio. The models
are translated from the code; TLC checks them on small instances, and TLAPS
proves the main theorems for every value of the constants.

`PROJECT.json` lists the runs, the mutants, the lines each definition models,
the findings, the hazards and the theorems. This file explains them.

## 1. The system

| component | source | state it keeps | operations |
|---|---|---|---|
| connection life cycle | `client.rs` `ClientInner`, `Client` | `state`, `closer_write`, `pub_ch_write`, `sub_ch_write`, `server_info`, the senders of `connect()`/`disconnect()` futures | `connect`, `disconnect`, `do_connection_cycle` (one background task per cycle) |
| websocket handler | `client_handler.rs` | reply map, id counter, batch and commands of the writer | reader task, writer task, one timer task per request |
| subscriptions | `subscription.rs`, `client.rs` 484-663 | per subscription: state, store, two vectors of senders; per session: `subscribed_channels` | `subscribe`, `unsubscribe`, `publish`, `remove_subscription`, the subscription task, one task per command |
| publish and rpc queues | `client.rs` `MessageStore`, `publish_task` | messages with deadlines, activity channel | `send`, `get_next`, `reset_channel` |
| server session | `server.rs` `ServerSession` | `state`, subscriptions with their abort handles, semaphore, reply channel | `process_command` |
| serve | `server.rs` `Server::serve` | ping and pong timers, writer batch | reader task, writer task |
| conversions | `protocol/` | none | six conversions between enums and wire structs |
| frames, codes, backoff | `utils.rs`, `errors.rs`, `config.rs` | none | pure functions |

How they interact:

- All of the client's shared state is in one `ClientInner` behind one mutex.
  The public calls lock it, change state and return a future; the background
  tasks lock it between their awaits.
- `move_to_connecting` spawns a task that runs `do_connection_cycle`: a loop of
  attempts (delay, dial, handshake), then one session, then one last critical
  section that may spawn the next cycle. The only link from `ClientInner` to a
  running cycle is `closer_write`, the sender of the attempt's closer channel;
  *dropping* it is how `disconnect()` ends a connection.
- An attempt starts `websocket_handler` on its socket and gets a sender of the
  handler's control channel. Requests are `(command, reply sender, timeout)`.
- A session has a subscription task, fed with ids by `sub_ch_write`. It spawns
  a free-standing task per Subscribe or Unsubscribe command, which sends it,
  awaits the reply and then changes the subscription under the mutex. The
  handler's reader applies Unsubscribe pushes to the subscriptions directly.
- Publishes and rpcs go through a `MessageStore`, which a `publish_task` of the
  session empties into the control channel.
- The server runs a reader and a writer per connection. The reader processes
  commands one after the other; handlers of calls and subscriptions are tasks
  of the session's `JoinSet`, limited by a semaphore. Reader and tasks put
  replies and pushes into one bounded reply channel, which the writer empties.
  `closer_tx` tells the reader that the writer is done; an error in the reply
  channel tells the writer that the reader is.

What is hard: several cycles may be alive at once, each looking at `state`
between awaits; futures are resolved by whichever task comes along; tasks
outlive the session they belong to; one reply map is shared by three kinds of
task; everything depends on dropping senders and receivers at the right time.
`hazards` in `PROJECT.json` lists them line by line.

What makes each part correct:

- *life cycle*: a Connected client has a task that watches its socket; a
  disconnected client leaves no socket and no task behind; futures resolve;
  awaiting `disconnect()` suffices to have one cycle at a time.
- *handler*: each request is answered once, requests keep their order, and the
  handler ends once the connection does.
- *subscriptions*: client and server agree whenever nothing is under way; calls
  resolve; whatever is left of one session, the next one knows what it has to
  subscribe to.
- *queues*: a message is sent once or answered, in order, and no wake-up of the
  task that empties the queue is lost.
- *server*: at most one reply per command, and none lost in silence but a
  Subscribe's; entries match their tasks; nothing blocks for ever; timers
  give up only clients that were asked; both tasks and all others end together.
- *conversions*: what is sent is what is received.

## 2. The modules

### ClientConnection

The connection life cycle, `client.rs`. An action is one critical section of
the mutex, or one await that completes between two of them.

- `state`, `closerWrite`, `serverInfo`, `pubStore`: the fields of
  `ClientInner`. A channel or a `server_info` is named by the cycle it belongs
  to. `future`: for each caller, the future it holds; `"connect"` and
  `"disconnect"` mean that its sender is in `on_connected_ch` or
  `on_disconnected_ch`. `poisoned`: a task has panicked with the mutex held.
- `pc`, `result`, `closerMsg`, `sock`: for each cycle, its position in
  `do_connection_cycle`, the `Result<_, bool>` of its attempt, its closer
  channel's message, and the state of the `websocket_handler` it has started
  (running, or returned with `need_reconnect`).
- A closer channel closes when its last sender is gone: the one in
  `closer_write`, and the attempt's own clone (`HoldsCloser`), which lives
  until `do_handshake` is over. `CloserClosed` says exactly this. It is why
  the closer branches of `do_delay` and `do_connect` are never taken.
- The end of an attempt is split where the code splits it: `Settle` (lines
  459-482) and `EnterConnected` (484-503) are two critical sections.
- `Next` is any use of the API. `SerialNext` is the most careful use: an
  application awaits every `disconnect()` before it calls `connect()` again,
  and drops no future.

`MCClientConnection` instantiates it.

### WebSocketHandler and RequestReply

`websocket_handler`, one connection: reader, writer, timers, reply map. The
r-th request is the number r, also as its id. `control`, `batch`, `commands`,
`flight` and `wire` are the places a request passes through; `replyMap` holds
those whose answer is awaited. The writer's steps are as fine as another task
can see: spawning the timer and inserting the entry are two (`WriterArms`,
`WriterInserts`), because the timer may fire between them. A write that fails,
a frame that cannot be encoded, a request that is too late when the writer
gets to it, pings, and every way in which the reader can end are modelled.
The server keeps to the protocol as far as ids go: it replies to ids it has
seen, any number of times, at any time. What a frame leaves out of a batch is
`Without`, written out so that it can be reasoned about; `MCWebSocketHandler`
has TLC check that it is `SelectSeq` on every sequence of the run's size
(`WithoutSelects`).

`RequestReply` is what the handler promises: each request is answered at most
once, with an answer that stands, and no request is pending once the handler
has returned. `PromiseKept` is the refinement, with
`Promise == INSTANCE RequestReply WITH open <- ~returned`.

### Subscriptions and Membership

The subscriptions of a client over one or more sessions. `state`, `pubStore`,
`subWaits` and `unsubWaits` are the fields of `SubscriptionInner` (the vectors
of senders only as empty or not), `tasks` the command tasks in their slots.
The rest is kept for each session, that is, for each cycle that has become
Connected: `subChs` is its id channel, `records` the `subscribed_channels` of
its subscription task, `serving` and `pushes` what the server holds for its
connection and has pushed. A session is `"live"`, then `"lost"` (the connection
is gone, while the subscription task still runs until the join loop sees it),
then `"down"`.

Sessions may overlap: after `disconnect()` and `connect()` a new cycle enters
Connected (`SessionStarts`, lines 484-503) without waiting for the join loop of
the last one, whose connection, subscription task and command tasks may all
still be at work, and whose pushes may still be read. They no longer hear of
new calls, as `sub_ch_write` is the last session's (`link`, `subCh`,
`subscribed` and `served` are the values for that one), but they change the
same subscriptions. The command's way to
the server and the server's handling of it are one step, `Serve`; what lies
between keeps the order (module WebSocketHandler, `WireInOrder`). Command tasks
may take their `Serve` and `Apply` steps in any order, since they are separate
tokio tasks. `Faults` adds error replies, timeouts and the server's own
Unsubscribe pushes.

A subscription id is never used again (slotmap keys are versioned), so that a
subscription made anew for the channel of a removed one (`NewSubscription`) has
an id of its own; server and pushes know only the channel, `ChannelOf[s]`.
`sub_name_to_id` is implied by `exists`: a channel has at most one existing id.

`PatientNext` is an application that awaits each future before its next call on
the same subscription, the removal included. `MCSubscriptions` instantiates the
module.

`Membership` is what patient use is promised, channel by channel: the
application joins and leaves, the server admits and dismisses, and each takes a
step only after the other's, until the connection of the first session ends or
a second session starts. `PromiseKept` is the
refinement. `View` maps the channel's subscription, if there is one, to the
application's side of it (an Unsubscribed one is leaving as long as its
`unsubscribe()` waits), `served` is the server's side, and `InFirstSession` the
connection. It is stronger than `Agreement`, which speaks only of states in
which nothing is under way.

### PublishQueue

One `MessageStore`, the client's or a subscription's, the calls that fill it
and the publish tasks that empty it. `isOpen` and `queue` are the store;
`listener` is the task whose receiver belongs to the store's current activity
channel, so that `reset_channel` and the drop of a store or a task are
assignments to it. `signal` is the `()` in a task's own channel. The store is
opened and closed by its owner at any time, tasks are spawned at any time, and
the tasks of two sessions may work on the same store: this is more than either
kind of store allows, and covers both. Deadlines are a counter, `late`, since
all messages of a store have the same timeout. Messages that a task hands over
go to WebSocketHandler.

### Server

`Server::serve` and `ServerSession`, one connection of the server, `server.rs`.
The i-th command of the connection is the number i, also as its id and as the
name of the task it may spawn; `outcome` says what has become of it: a
`"reply"` was written, or it was `"dropped"`, where that happens (undecodable,
rejected, behind an error in its batch, left out by the encoder, in a write that
fails, sent to or queued for a writer that has ended, in an aborted task), or at
the latest at the return of `serve()`. A reply that is written when the command
has come to something already makes it `"again"`, which nothing allows: this is
how a second reply to a command shows.

- `session`, `subscriptions`, `replyCh`, `aborted`: the session's state, its
  entries (the task each `Subscription` would abort), the reply channel, and the
  tasks that were told to abort but have not come to an await since.
- `task`: where a spawned task stands. A subscription goes from `"handler"` to
  `"answer"` and then back and forth between `"stream"` and `"publish"`; at the
  end, or when it is refused, it first removes the entry of its channel
  (`TaskRemovesEntry`) and then sends its last message (`TaskSends`). Between
  the two it may be cancelled: the entry that it removed aborts it, or another.
  `Awaiting` are the places where an abort can take effect; a task goes on over
  the others.
- `reader`: the biased select is `Select`, with one action per branch whose
  guards say that the branches before it are not ready; `process_command` is
  one action per command and outcome, split where it awaits (`on_connect`, a
  permit, a send).
- `pingIn`, `pongIn`: the two timers, in ticks; `Far` is a timer that is not
  armed. `pinged` is a history variable: a ping was sent since the last reset.
- `writer`: `recv_many` takes a batch; an error in it ends the connection after
  the replies before it, and drops the rest; a reply that JSON cannot express
  is left out and ends the connection with `InappropriateProtocol`. `flight` has
  the replies that are being written at their places in the batch, so that a
  reply that is in it twice counts twice.
- `Permits`, `Entries` and `Len(replyCh)` are compared with the code's limits.

A task that holds a permit may wait for room in the reply channel while the
reader waits for the permit and the writer for a message: `CommandsAnswered`
says that this ring always opens. `PromiseKept` is the same abstract promise as
the handler's, RequestReply, with `"reply"` and `"dropped"` as the only ways to
settle a command: neither a second reply nor a reply after the command was given
up is a step of it, and both are steps that change `outcome`.

`MCServer` instantiates it twice: without timers (`server_session`), and with
timers and batches of two (`server_timers`).

### Conversions

The conversions of `protocol/mod.rs`. An enum's value is a record of a kind and
a body; a struct is a function from field names to optional bodies. `FirstOf`
is the chain of `if let`, in its order. The module is proved about and has no
state.

## 3. The runs

| run | module | asks | distinct states |
|---|---|---|---|
| `connection_any_use` | MCClientConnection | what holds for any overlapping calls | 488,751 |
| `connection_serial` | MCClientConnection | what careful use adds | 16,594 |
| `connection_panic` | MCClientConnection | does the assertion of `move_to_connected` hold? **no** | |
| `connection_abandoned` | MCClientConnection | does a terminal failure reach Disconnected? **no** | |
| `connection_disconnect_hangs` | MCClientConnection | does every `disconnect()` resolve? **no** | |
| `handler` | MCWebSocketHandler | answers, order and end of one connection | 184,688 |
| `subscriptions_any_use` | MCSubscriptions | nothing is lost or leaks, whatever happens, also in overlapping sessions | 2,755,710 |
| `subscriptions_patient` | MCSubscriptions | agreement with the server, and calls that resolve | 2,186 |
| `subscriptions_retry` | MCSubscriptions | does `subscribe()` resolve after an error reply? **no** | |
| `publish_queue` | PublishQueue | messages, wake-ups and order, with two publish tasks | 318,584 |
| `server_session` | MCServer | commands, tasks, entries, limits and the end of a server's connection | 196,590 |
| `server_timers` | MCServer | pings, pongs, batches, and the code a client is given up with | 98,718 |

Properties:

- `ConnectedIsOwned`: stale cycles, which look only at `state`, can never leave
  a Connected client without the task that watches its socket.
- `DisconnectedSocketsClosing`, `Quiesces`: whichever attempt overwrote
  `closer_write`, every socket is told to close, and once the client stays
  Disconnected all tasks end.
- `PendingConnectIsServed`, `ConnectResolves`: a waiting `connect()` is
  answered by some attempt, perhaps not its own.
- `SingleCycle`, `CloserReachesSocket`, `ConnectFuturesSettled`: under careful
  use the cycles never overlap, and `disconnect()` reaches the right socket.
- `PendingIsHeld`, `PromiseKept`: reader, timer, encoder, writer and the final
  drain compete for the entries; each request is answered once.
- `WireInOrder`: the order of requests over control channel, batch, carried-over
  commands, flight and wire, late and unencodable ones included.
- `TimedRequestResolves`, `HandlerEnds`: timeouts work even with a dead writer
  (except for the timer race, hazard at `client_handler.rs:187`), and the
  handler ends when its reader does.
- `SubscribingIsKnown`: no order of calls, replies, pushes and sessions lets a
  Subscribing subscription fall between the state and the subscription task of
  the last session, whatever earlier sessions that are not over do to it.
- `Agreement`, `NoDoubleSubscribe`, `ServedIsOnRecord`, `PromiseKept`
  (Subscriptions), `SubscribeResolves`, `UnsubscribeResolves`: the subscription
  protocol does what it should when each call is awaited. They need the restrictions of their run: with
  overlapping calls, error replies, pushes or a second session the code does
  not have them (see the hazards and the findings).

- `PendingIsHeld`, `HandedOverInOrder`, `ReconnectKeepsQueue` (PublishQueue):
  no message is forgotten, doubled or reordered by a task, even when a stale
  task finds a store that was made for its successor.
- `NoLostWakeup`, `StoreIsEmptied`: a task that listens never sleeps on a
  message, however sends, resets and its own rounds interleave.

- `EntriesMatchTasks`: an entry and a task that was not aborted are always the
  same subscription, although a late task removes whatever entry its channel
  has by then.
- `NoSilentLoss`: when a command that was decoded is lost, wherever that happens,
  the connection has an error to end with, so that the client learns of it. A
  Subscribe is the exception (its task may abort itself with its error reply
  unsent, or be aborted by an Unsubscribe).
- `PromiseKept` (Server), `CommandsAnswered`, `ServeEnds`: a reply is written at
  most once, and not for a command that was given up; all commands are answered or dropped in the end, and reader, writer,
  `serve()` and all tasks end once any of them does.
- `NoPongMeansSilence`, `PingsAreAnswered`, `StayAwayIsDeserved`: a client is
  given up only after a ping, and is given up after a ping if it stays silent;
  one that keeps to the protocol is never told not to reconnect.

The type invariants also hold what a value may be together with another
(in Subscriptions, what of a session may outlive it).

Each property has a mutant: an operator beside the original, with a comment
that says what is faulty about it. With the mutant the property fails.

### Bounds

- Connection: two cycle slots and two callers. Two cycles are what an overlap
  needs: a stale one and a current one. A slot is reused when its task and its
  socket are gone, so that runs are unbounded in time. The only effect of the
  bound is that `Connect` waits for a free slot; the proofs have no bound.
- Handler: three requests, a control channel of two, batches of two. So the
  channel can be full, a batch can carry over to the next, and a late request
  can be first, in the middle or last.
- Subscriptions, any use: one channel, whose subscription may be removed and made
  anew once, two sessions that may overlap, two command tasks and two queued ids,
  over both sessions together. That is enough for a command task of the first
  session to change what a task of the second has done, and for both sessions
  to have an id in their channels. A third session would add another stale one.
- Subscriptions, patient use: three command tasks and three queued ids, two
  channels in one session, one of which may get a new subscription. With three
  tasks a Subscribe, an Unsubscribe and a second Subscribe can be under way at
  once, in any order.
- `Notify` and `Spawn` wait when a bound is reached. The slots of the tasks are
  symmetric in the run without liveness.
- Queue: two tasks, three messages, two taken at a time, so that a task can
  leave messages in the store while it sends, and another can take them.
- Server, session: every limit (permits, subscriptions, reply channel) is one, so
  that it is reached at once, and batches are of one message therefore. Two
  commands may be unread and come in one frame, so that a frame goes on after a
  command that waited or failed. Four commands are what the hardest case
  takes: Connect, Subscribe, Unsubscribe and a second Subscribe of the same
  channel while the first one's task still runs, or Subscribe and two calls
  that meet at the permit.
- Server, timers: two commands (Connect, and one that keeps reader or tasks busy),
  any number of pongs, a reply channel and batches of two: an error may be the
  first or the second message of a batch, and the encoder may leave out either
  reply or both. Both intervals are one tick, so that ping and pong may
  also elapse together. One message may be unread, which is the client's pause:
  with two, a client that always has the next frame ready, none of them a pong
  that is decoded, would keep the last branch of the biased select from ever
  being reached, and `PingsAreAnswered` would fail.
- Longer batches, frames and channels, and all limits, are covered by the proofs.

Deadlock is not checked: a panic with the mutex held stops the client for good,
a handler comes to its end, and a model whose sessions or messages are used up
may stop.

### Fairness

- Connection: weak fairness of each cycle's steps and of the handler's
  reaction to its closer channel. tokio runs tasks that can run; a delay ends,
  a dial is bounded by the operating system, and a handshake by `read_timeout`.
  Neither the server nor the application owes anything.
- Handler: weak fairness of the tasks and timers. Strong fairness of
  `WriterReceives`, because the writer's select prefers pings: this says that
  the server does not send pings faster than pongs are written. Writes are
  assumed to end.
- Subscriptions: weak fairness of the tasks, and of the server's handling of a
  command as long as the connection is live.
- Server: weak fairness of reader, writer, tasks and time: user handlers and
  `on_connect` end, and writes end. Strong fairness of a send that waits for
  room, as tokio's channel serves its waiters in their order; of tasks' sends
  other than publications, for the same reason; and of `ReadMessage` and
  `PongTimerFires`, since the branches before them in the biased select are
  ready only now and then when the intervals are long enough (pings) and the
  client pauses (messages). Streams and clients owe nothing.
- Queue: weak fairness of the tasks; the handler, while it runs, makes room in
  the control channel, and a send fails once it has ended.

## 4. The proofs

`ClientConnectionProofs` proves, for any finite or infinite sets of cycles and
callers, from the assumption that `NoCycle` is not a cycle:

- `Invariance`: `Spec => []IInv`. `IInv` is `TypeOK`, `StoreKept`,
  `ConnectedIsOwned`, `CloserMatches` and `PendingConnectIsServed`.
  `ConnectedIsOwned` is not inductive alone: that a publish store is there
  needs `StoreKept`. `DisconnectedSocketsClosing` follows once `CloserMatches`
  says that the closer of a Disconnected client, if a late attempt has put one
  there, belongs to no open socket. `TypeStep`, `StoreStep`, `OwnedStep`,
  `CloserStep` and `ServedStep` are one lemma per conjunct, each with one step
  per action.
- `TypeCorrect`, `OwnedWhileConnected`, `NoSocketLeft`, `ConnectIsServed`: the
  safety properties of `connection_any_use`.
- `SerialUse`: `SerialSpec => [](IInv /\ SerialInv)`. The heart of `SerialInv`
  is `DisconnectWaits`: a waiting `disconnect()` keeps the client Disconnected,
  and a Disconnected client for which none waits has no cycle left, so that a
  `connect()` that awaits it starts the only one. `CloserIsCurrent` and
  `NoneWaitsAtEntry` carry the other two results.
- `OneCycle`, `CloserReaches`, `FuturesSettled`: the properties of
  `connection_serial`.

`ServerInvariant` and `ServerProofs` prove, for any number of commands and
channels and any limits, from `ServerAssumption`:

- `Invariance`: `Spec => []IInv`. The invariant follows a command on its way.
  It waits in one place of one queue (`QueuedOnce`), nothing is known of it
  before the reader gets to it (`QueuedIsFresh`, `ReaderPlace`), only calls and
  subscriptions have tasks (`TaskKinds`), and who may still answer it (the
  queues, or the task that holds its permit) has not done so (`AnsweredOnce`).
  Its answer is then in one place, the reader's hand, the channel or the flight
  (`SaidOnce`), also when a batch is cut off or the encoder leaves a part out, so
  that what is written is written for the first time.
  `PingFirst` is why NoPong means silence: the ping timer is never behind the
  pong timer unless a ping was sent. `EndsEmpty`, `EndIsTold` and `Limits` are
  what the other parts need of the ends of writer and reader, and of the bounds.
- `TypeCorrect`, `EntriesAreTasks`, `CallsAreNotLost`, `NoPongIsDeserved`: the
  invariants of the runs. `Settling` is the lemma that a command is settled once,
  with a case for each action that settles one. `NoSilentLoss` is inductive with
  `EndIsTold`, since the error to end with is passed on from the reader to the
  channel, the batch and the Close frame (`DoomedStays`). That entries and tasks
  match is inductive together
  with `TaskKinds`: only subscriptions are ever in `Entered`'s last places.
- `PromiseIsKept`: `Spec => PromiseKept`, the refinement of RequestReply, from
  the invariant and `Settling` (`PromiseStep`).
- `NobodyIsSentAway`: `Spec => []StayAwayIsDeserved`. It needs two invariants
  beyond `IInv`. `InTheOrderSent`: commands are read in the order in which they
  were sent, whatever pongs lie between them, so that the first command that is
  processed is the first there was. `HarshIsDeserved`: a code that says "stay
  away" is on its way (in the reply channel, a task's message, or a task's
  verdict) only after a client that was not lawful, or was never let in.

`ConversionsProofs` proves, for any bodies and channels, that each conversion
there and back is the identity (`CommandRoundTrip`, `PushRoundTrip`,
`ReplyRoundTrip`), that an error in a reply wins over all other fields
(`ErrorWins`), and that a `RawCommand` and a `RawReply` stand for Empty (the
client's pong and the server's ping) exactly if they have no field set
(`EmptyIsNoField`).

`WebSocketHandlerProofs` proves, for any number of requests and any positive
capacities (`BoundsAssumption`):

- `Invariance`: `Spec => []IInv`. `PendingIsHeld` is inductive only if no
  request is twice in the batch or the control channel, which `SentInOrder`
  says, and if what is to be empty is (`EmptyWhere`). What is on its way to the
  wire is left out: no answer depends on it.
- `PendingHeld`, and `PromiseIsKept`: the handler, too, refines RequestReply, one
  case per action (`PromiseStep`). `NotStranded` says that as long as no request
  is late, none is left in the writer.
- `TypeCorrect` and `WrittenInOrder`. The order on the wire is inductive once it
  spans the whole way of a request (`LineInOrder`): what is written, in flight,
  in the writer's commands, in its batch and in the control channel are
  increasing sequences, each before the next. `WithoutKeeps` says that leaving
  requests out does not reorder the rest.

`SubscriptionsProofs` proves, for any finite set of subscriptions and any number
of command tasks:

- `TypeCorrect` and `SubscribingKnown`, for any number of sessions, overlapping
  ones included, any use and any of the faults. What is added to make them inductive is `OthersAreOff`:
  only what exists is ever not Unsubscribed.
- `PatientInvariance`: `PatientSpec => []PatientInv`, from the assumption that
  the server does nothing worse than refuse to subscribe
  (`Faults \subseteq {"refuse"}`). None of the properties of patient use is
  inductive, for each is about one moment of a subscription's life. The
  invariant (`Lives`) lists its stages: at each, what state, waiting calls,
  record, id channel, command tasks and server are together. That a
  subscription has at most one command task, whose command and reply fit its
  stage, is part of it (`Doing`), and so is that a removed subscription leaves
  nothing behind that could touch its successor (`Off`). `QueuedOnce` and
  `ServedExists` are what the subscription task's steps need. It says nothing
  after the first session, and with reason: a command task that is left over
  from it may then do harm (see the hazards).
- `NeverSubscribedTwice` and `NothingServedLeaks`, with refusals, and
  `AgreementInFirstSession` without any fault (`Faults = {}`): after a refusal
  a subscription may be `Stuck`, which is finding 4. They say `sessions <= 1 =>
  ...`, where the run sets `MaxSessions = 1`.
- `PromiseIsKept`: `PatientSpec => PromiseKept`, the refinement of Membership,
  with refusals and for any number of sessions, one case per action
  (`PromiseStep`).

`PublishQueueProofs` proves, for any number of messages, tasks and any
`Capacity`, all the safety properties of `publish_queue`: `TypeCorrect`,
`PendingHeld`, `NoWakeupLost`, `InOrder` and `QueueIsKept`. The invariant rests
on the order: since messages are published, and so expire, in order
(`PublishedInOrder`), what is popped from the front is all that is expired
(`PrunedQueue`), and what one task holds comes before what is in the store
(`Ordered`).

`QueueLemmas` has what they share: queues that grow, shrink and are cut, and
queues in increasing order.

The invariants were checked by TLC before they were proved. Model-checked only
are:

- Liveness: `Quiesces`, `ConnectResolves`, `TimedRequestResolves`, `HandlerEnds`,
  `SubscribeResolves`, `UnsubscribeResolves`, `StoreIsEmptied`,
  `CommandsAnswered`, `ServeEnds` and `PingsAreAnswered`. Liveness under
  fairness is out of the prover's reach.
- That `Without` is `SelectSeq` (`WithoutSelects`), which is recursive: of such a
  definition nothing can be proved without induction over sequences.

Every safety invariant and every refinement that a run checks is also proved.

## 5. Findings

1. **A disconnect() can poison the client** (`connection_panic`). Between
   `Settle` and `EnterConnected` the mutex is free. A `disconnect()` there makes
   `assert_eq!` (`client.rs:164`) panic with the mutex held. Every later call
   panics.
2. **A terminal failure leaves the client Connecting** (`connection_abandoned`).
   Comment and code differ (`client.rs:175-176` against 476-478): no task is
   left, `on_disconnected` is not called, and `connect()` answers Ok.
3. **disconnect() may never resolve** (`connection_disconnect_hangs`): after
   finding 2, or when the connection is lost at the same moment.
4. **subscribe() after an error reply is never sent** (`subscriptions_retry`)
   in the same session: the subscription task believes it has been already.
5. `client.rs:388` says that an error reply to the handshake means "don't
   reconnect"; the code reconnects if the error is temporary.
6. `client.rs:804-806` says that `connect()` resolves once the connection is
   established, and never if it never is. It resolves with Ok while the client
   is only Connecting, and with Err when the first attempt fails.

Met on the way, and listed as hazards: a reply to an abandoned `subscribe()`
resurrects the subscription without a store for publications; an
`unsubscribe()` between two sessions never resolves; a command task of an
earlier session, which may not even be over, can unsubscribe a subscription of
the present one; `remove_subscription()`
right after `unsubscribe()` keeps the server's subscription alive; a late
request drops the rest of its batch; a publish task that has lost its
connection, but is not aborted yet, drops what the queue holds.

## 6. What is not modelled

- Panics of callbacks and callbacks that call the client again. A task of the
  join loop that panics.
- Contents: commands, replies, tokens, publications, encodings; the length of
  delays and timeouts; the wrap of 32-bit ids.
- The `timeout_at` by which the caller of `publish()` or `rpc()` gives up on its
  own.
- Server: the `on_disconnect` callback, which is called once when a Connected
  session is dropped; panics of user handlers and of `on_connect` (a panic of
  the reader leaves the writer and `serve()` waiting for the session's tasks);
  the routers; which handler is called with which contents.
- `utils.rs`: the bytes of frames, JSON and protobuf bodies. What a frame that
  can't be decoded or encoded does to the connection is modelled.
- `config.rs`: setters, and the length of a delay, which is floating-point
  arithmetic. The models let a delay take any time.
- `errors.rs`: texts, and the codes the library never uses itself.
- `events.rs`: data. `cli/main.rs` (not a target of the crate) and `examples/`:
  users of the library.

## 7. Plan

Done: ClientConnection, WebSocketHandler, RequestReply, Subscriptions,
Membership, PublishQueue, Server and Conversions, each with its proofs. Next:

1. The length-delimited frames of `utils.rs`, as functions.
2. What of patient use survives a second session: which of the stages, and
   under which condition on the sessions and tasks that are left over.
3. Batches of three in the server's runs, so that an error stands between two
   replies.
