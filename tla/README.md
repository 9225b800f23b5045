# CipherChat: TLA+ models, checks and proofs

CipherChat is a chat server and client in C. The server runs one detached
thread per connection. The threads share two tables, each behind its own
mutex: the registry of logged-in clients with their outgoing queues, and the
routing table of file transfers. No thread holds both mutexes, and no handler
holds one between two calls, so what can go wrong between threads goes wrong
between two such calls. That is the granularity of the server's models. The
client has one thread; what interleaves there is arriving frames, failing
library calls, other programs and the server.

## The parts and their modules

| Part | Source | Modules |
|---|---|---|
| File routing table | `server_file_routes.c` | `FileRoutes` |
| Client registry, outgoing queues | `client_manager.c` | `ClientManager`; `Mailbox` (abstract) |
| File frame handlers, connection threads | `server_files.c`, `server.c` | `FileRelay` = `FileRoutes` + `ClientManager` + threads |
| TLS loop of a client | `server_worker.c` | `ClientWorker`, implements `Mailbox` |
| Chat commands, keys | `server.c`, `client_manager.c` | `ServerChat` = `ClientManager` + threads |
| Client program: pending packages | `client.c` | `ChatClients` = `ServerChat` + programs |
| Client: sending a file | `client_file_sender.c` | `FileSender` = `FileRelay` + senders |
| Client: receiving files | `client_file_receiver.c` | `FileReceiver` |
| Accept loop, signals | `server.c` (`main`, `stop_server`) | `ServerMain` |
| TLS handshake, login, shutdown | `network.c`, `common.c`, `server.c` | `TlsLifecycle` |
| The server process | `server.c` | `ServerProcess` = `ServerMain` + `TlsLifecycle` |
| Framing | `common.c`, `server_worker.c` | `Framing` |
| File frame codec | `file_protocol.c` | `FileProtocol` |
| Command lines | `command_parser.c`, `client.c` | `CommandParser` |
| Flow in both directions | `server_worker.c`, `client.c` | `Duplex` |

How they interact: `main` accepts a connection and starts a thread
(`handle_client`), which does the handshake and the login, then runs the TLS
loop, which calls a handler for each complete frame. A handler looks names and
ids up in the registry, updates the routing table and queues frames for other
clients; queueing wakes the recipient's loop through an eventfd. When the loop
returns, the thread removes its client from the registry, then purges its
routes, telling the other ends. `ServerTypes` and `WireBytes` hold what several
modules share (client ids; big-endian numbers).

## How state and actions correspond to the code

`FileRoutes`: each function runs under `routes_mutex` and is one action with
its name; what it returns is a state function (`AddResult`, `ChunkResult`,
`FinishResult`, `EndpointOf`, `AbortActions`). The flags `active` and `discard`
are one field `mode`. The width of outbound ids is `OutboundIdSpace`. On its
own (`RoutesSpec`) it allows more calls than the handlers make.

`ClientManager`: the same under `clients_mutex`. `queue_frame_to_client_id`
succeeds (`Enqueue`) or fails (`EnqueueFails`): unknown client, full queue,
or, when `AllocationsFail` is TRUE, no memory. Client ids are unbounded; the
wrap of the 64-bit counter is left out.

`FileRelay`: a thread's record has a `pc` that names its next registry or table
call and the locals the handler keeps between calls. Replies are `todo`
messages, sent one per step because each is a critical section of its own. The
history variable `streams` says, per recipient and outbound id, how much of a
transfer the recipient has been sent. A frame is decodable, malformed with a
readable id, or unreadable; a decoded frame can always be encoded again.

`ServerChat`: the same for text commands, key registration, lookup and
ciphertexts. Texts are identified by the frame they come from. Histories record
logins, keys, requests and everything queued.

`ChatClients`: client programs with pending lists, and a FIFO per direction
between each program and its thread. `Typing` is what each user types.
`crypto_box` is ideal: a box opens with the key it was made for and names the
key it was made with.

`FileSender`: `send_file` on each connection in front of `FileRelay`'s threads.
The file's bytes are a length. `fates` remembers what became of a file.

`FileReceiver`: one action per frame handler. Every library call may fail,
`unlink` included (`undeletable` remembers those), and `OtherProgram` creates
or removes files in the download directory between frames. A byte of a package
is its file's name and a position, which is what authentication tells apart.

`ClientWorker`: `run_client_worker` call by call. Other threads, the peer and
OpenSSL (done, WANT_READ, WANT_WRITE, close_notify, fatal) are nondeterministic.
A read may have to write control data of TLS first and then wants room; retried,
it may want room again, return input or want input. The history variable
`put_off` says that a frame was not written in this pass because of that.

`ServerMain`: `main` with `stop_server` as a handler that may run, and be
interrupted by another one, between any two steps. `TlsLifecycle`: one
connection from accept to close; time passes inside library calls.
`ServerProcess` runs both; when `main` returns the threads end where they are.

`Framing`: the writers (the worker's, `send_frame`, `send_message`) and the
three readers (the worker's, `receive_frame`, `receive_message`) over byte
sequences. A call of `send_all` writes its buffer whole, unless the connection
breaks; a stream ends with a close_notify or is cut, between frames or in one,
and only the first is an orderly end. `FileProtocol`: every
encoder, decoder and validator over bytes of a small base. `CommandParser`:
`parse_command` and the client's own dispatch over lines whose characters are
the ones that matter, against a declarative grammar.

`Duplex`: only the room in queues and sockets, for several clients at once.

`MC` modules give constants their values. A definition commented as a mutant is
a plausible wrong version of the definition after it, kept to show that a
property can fail. No module uses a definition of that kind.

## Runs

| Run | Question | Instance |
|---|---|---|
| `routes` | Does the table keep ids unique, find free ids and keep rejected transfers rejected? | 2 clients, 2 transfer ids, 3 slots, outbound ids 1..3 |
| `relay` | Do the handlers stay consistent when threads interleave, leave or overflow? | 3 connections over 2 slots and names, 3 and 1 frames, 2-byte files, queues of 2 |
| `relay_live` | Do transfers without a route, and overflowed clients, come to an end? | 2 connections, 3 frames |
| `relay_no_memory` | Is a recipient told of every failed transfer without memory? (no) | as `relay_live`, allocations fail |
| `worker` | Are wake-ups lost, frames stuck, OpenSSL's rules broken? Is it a mailbox? | 4 frames against a queue of 2, 2 pieces of input |
| `receiver` | Are transfers mixed, temporary files left over or files overwritten? | 3 ids, 2 entries, 2 names, sizes too small, wrong, right, too large |
| `chat` | Do broadcasts, private messages and keys survive logins, departures and overflow? | 3 connections, 1 and 2 requests, queues of 1 |
| `programs` | Is every package encrypted for, shown to and resolved for the right user? | 3 packages to 2 names, at most 2 pending, a recipient that may log in again with another key |
| `sender` | Is a sent file delivered or reported, and its table entry returned? | 2 files, ids that wrap each time, a replaceable recipient, allocations fail |
| `server_process` | Do deadlines, clean-up and signals work whatever the peer does? | 2 signals, 1 connection, timeouts of 4, 3 and 2 ticks |
| `wire` | Do readers, codecs and parsers agree with their references? | all streams of up to 7 bytes 0..2 with both endings, frames of up to 3 bytes, messages of up to 2 and a buffer for 1; file frames up to the limits and beyond; all lines of up to 7 (or 4) characters |
| `duplex` | Is a sender held up by a recipient that does not read? | 3 users, queues of 2, sockets of 1 |

Why the bounds are enough: the frames cover begin, chunk and end of a file; the
third connection takes over a name and a slot; queues overflow at the next
frame; outbound and transfer counters wrap; every limit on a length (user
names, file names, chunks, frames) is met and passed by one; every timeout
lasts several library calls. Names, keys, temporary names and idle connections
are interchangeable where symmetry is used, and it is used in safety runs only
(`relay`, `relay_no_memory`, `receiver`, `chat`, `sender`). Deadlock is checked
for the routing table and the receiver, which can always go on; the other
systems stop when their budgets of frames, users or connections are spent.

What they show, beyond the comment at each property:

- `NoOrphanRoute`, `StreamsWellFormed`, `NoAbandonedStream`,
  `UnroutedStreamsEnd`: the race between looking a recipient up, adding a route
  and the purge of a leaving client leaves no route behind; each recipient gets
  begin, chunks, then end after exactly the declared bytes or error; a recipient
  that stays is told of every transfer that ends.
- `NothingInherited`: `add_client` leaves the queue of its slot as it is, and
  yet no client finds a frame, a key or an overflow of the one before it.
- `OverflowSealsQueue`, `OverflowDisconnects`, `ImplementsMailbox`: a slow
  client is cut off before a gap in its stream can show, by its own worker,
  which is woken for it even if its peer is silent.
- `NoLostWakeup`, `EveryFrameWritten`, `GracefulCloseIsSafe`: clear, check,
  take, sleep loses nothing, a frame waits for an event of its own or was put
  off for a read's control data (see below), and a copy of the connection
  without `tls_io_failed` is harmless.
- `BroadcastComplete`, `NoSilentLoss`, `SenderAuthentic`, `EncryptedForName`,
  `ShownAuthentic`, `PendingAccounted`, `PackagesResolved`: snapshots and
  two-step lookups are right although clients reconnect between the steps, and
  key replies match pending packages one to one.
- `SentFilesAreSound`, `SlotsReturned`, `NoFileLostSilently`: sender and server
  agree, and a failed file leaves nothing in the table once its end is read.
- `TransfersSeparate`, `NoStrayTemps`, `NeverOverwritten`: what the program's
  README promises of downloads holds on every error path.
- `ReadsWhatIsThere`, `FramesArrive`: however reads split a stream and wherever
  it ends, the frames handed over are those it holds, and an orderly end means
  that nothing is missing.
- `DeadlinesHold`, `ReleasedOnce`, `NeverHangs`, `ListenerReleased`,
  `SignalStops`: the same for timeouts, connections and signals.
- `SendsFinish`: a recipient that does not read does not hold its senders up.

### Refinement

`ClientWorker` implements `Mailbox` under the mapping `Box`: what the mailbox
holds is the frame in the worker's buffer followed by the queue; it is sealed
while `outgoing_failed` is set. TLC checks it with `Mailbox`'s fairness
(`ImplementsMailbox`); the safety part is also proved (`WorkerIsMailbox`).
`FileRelay` refines `FileRoutes` and `ClientManager` (`RelayUsesItsParts`).

### Finding

`relay_no_memory`: when `malloc` (or `eventfd_write`) fails for a recipient that
stays connected, the route becomes a tombstone or is gone, only the sender is
told, and the recipient is never sent an error frame. Its temporary file stays
until its own connection ends, while `src/README.md`, lines 110-111, says that
temporary files are removed if the transfer fails.

### Behaviours met while modelling

These are not checked as violations; a reader of the models will meet them.

- `log_connected_clients` has room for 1024 bytes and stops at the first name
  that does not fit (`ListRoom` in `ServerChat`).
- A typed name with a control character passes the client's parser and is
  refused by the server with a text instead of a key reply, so that package
  stays pending until the connection ends. `Typing` has no such name.
- `run_client_worker` does not write a frame while a read wants room
  (`read_wait` is POLLOUT), and retries the read afterwards in the same pass.
  If that read now wants input, the pass ends in a poll for input only: the
  frame has not been tried, so nothing polls for room, and it waits until the
  peer sends something or another frame is queued. `NoLostWakeup` and
  `EveryFrameWritten` except exactly the frames put off like this.
- Two clients that send each other long files can wait for each other: a client
  in `send_file` does not read, and a worker with a pending write does not read
  either. `SendsFinish` excepts exactly this: a sender whose own worker holds a
  frame that its socket, full of what it has not read, does not take.

## Fairness

- `RelayFairSpec`: weak fairness of `Proceed(c)`. A thread inside a handler, or
  on its way out, never waits for a client: queueing does not block and mutexes
  are held briefly. Receiving, delivering and leaving are not fair.
  `LeaveOverflowed` is among the fair steps because `Mailbox`'s fairness, which
  `worker` checks, says a sealed mailbox is closed.
- `WorkerFairSpec`: weak fairness of the worker's own steps, nothing of the
  peer. `EveryFrameWritten` states its own conditions: the peer goes on reading,
  OpenSSL never asks for input during a write (TLS 1.3 after the handshake,
  `create_context`), and from some time on no frame is put off for a read.
- `SystemFairSpec`: threads, programs and the network move what they have;
  users need not type, leave or log in.
- `ProcessSpec`: `main` and the thread are scheduled. `MainRuns` leaves out the
  arrival of connections and signals, and the thread's fair steps leave out the
  end of the client loop, which is up to the user. The clock moves because at
  most `MaxCallsPerTick` calls fit between two ticks.
- `DuplexSpec`: workers run and a client that sends goes on sending; no client
  need read.

## Proofs

All theorems hold for every value of the constants that satisfies the named
`ASSUME`s of the modules. A module's proofs are in the module of its name with
`Proofs` added, with three exceptions. `FileRelayLemmas` has the proofs about
`FileRoutes` and the layer under `FileRelayProofs`: `RelayInv` and how a
thread's step changes its record, the registry and the table.
`ServerChatMessages` and `ServerChatDelivery` continue `ServerChatProofs`.
`EndpointProofs` has those about `ServerProcess` and `FileReceiver`. Each proof
of an invariant names an inductive one, shows that it holds initially and is
kept by every action, one lemma or step per action, and derives the property
from it.

- Routing table. `RoutesSafe`: `RoutesTypeOK`, `RouteKeysUnique`,
  `OutboundIdsUnique`, `LiveRoutesSound`; `RoutesInv` is their conjunction,
  since keys must be unique for "the slot found for a key" to be the only one.
  `AllocatorNeverGivesUp`: `AllocationSucceeds`. The ids the search tries are
  all different although the counter wraps and skips zero, and fewer live
  routes than tries can be in the way, so one is free. It holds for an id space
  with at least as many nonzero ids as slots (the code has 2^32 - 1 and 400).
  `RoutesLiveOnce` is the action property `RouteLifecycle`.
- Registry. `ClientsSafe`: `ClientsTypeOK`, `ClientsDistinct`,
  `NothingInherited`, `OverflowSealsQueue`. `add_client` does not reset the
  queue of its slot, so `ClientsInv` needs free slots to be blank, and the next
  id to be above all ids in use. `ClientsKeepIdentity` is the action property
  `ClientLifecycle`.
- Relay. `RelayLeavesNoRoute`: `NoOrphanRoute`. It is far from inductive.
  `RelayInv` adds the invariants of both tables; `ThreadsOk` (which locals are
  in use at which call); `OwnersInv` (a thread between login and abort has an
  id of its own, and every active slot a thread that will remove it);
  `BeginTargets` (the route a thread has just added leads to the recipient it
  looked up); and `KnownIds` (routes and lookups name only ids already given
  out and welcomed). Each action has a lemma that it keeps `RelayInv` and is a
  step of both tables or leaves them alone, from which `RelayUsesItsParts`
  follows.
- Chat threads. `SendersAreAuthentic`: `SenderAuthentic`; `ChatSealsQueues`:
  `OverflowSealsQueue` for the registry as these threads use it. `ChatInv` has
  the registry's invariant; `ThreadsInv` (ids are never shared, and a thread
  between login and removal has an active slot); `HistoryInv` (names and keys
  of the registry are those of the histories, and an id not yet given out has
  none); `HandlersInv` (what is between two calls of a handler fits the request
  it works on); and `AuthenticInv`, which says of frames in a handler's hands
  what `SenderAuthentic` says of queued ones. A name or a key, once there, is
  never replaced for an id, which is why a frame stays authentic after its
  sender has left.
- Chat messages. `NothingDeliveredTwice`: `DeliveredOnce`, in every
  configuration. `BroadcastsReachAll`: `BroadcastComplete`, and
  `MessagesNeverVanish`: `NoSilentLoss`, both while `AllocationsFail` is FALSE;
  without memory a queued copy can be dropped without a trace and both are
  false. `MessagesInv` says that a queued frame belongs to a request in the
  log, that a message has at most one outcome and none while its handler runs,
  and that a broadcast's copies go to its recipients, one each, and not yet to
  those still on the sender's list. `NothingLost` is the converse: a handled
  message of a sender still served has an outcome, and a recipient still served
  that is off the list has its copy. The steps are of three shapes (`Rests`,
  `Hears`, `Handles`), each with one lemma that it keeps both. From there to
  the properties, which count, goes `OneOccurrence`: a set of frames with at
  most one member has cardinality 0 or 1.
- Worker. `WorkerSeesItsWork`: `NoLostWakeup` with its exception;
  `WorkerEndsInOrder`: `GracefulCloseIsSafe` and `OneDirectionPends`.
  `StaysAwake` is the heart of `WorkerInv`: from the check of the queue to the
  poll, what the worker has seen of its queue is true unless it has been woken
  since. `FramesInOrder` numbers the frames in buffer and queue, from which
  `WorkerIsMailbox` follows step by step.
- Receiver. `TransfersDoNotMix`: `TransfersSeparate`; `TempsAreAccountedFor`:
  `NoStrayTemps`; `SavingNeverReplaces`: the action property `NeverOverwritten`.
  `ReceiverInv` adds that a transfer's temporary file is none that could not be
  deleted before.
- Process. `MainClosesItsListener`: `ListenerReleased`; `TimeoutsAreKept`:
  `DeadlinesHold`; `ConnectionsReleasedOnce`: `ReleasedOnce`. `ProcessInv` ties
  the handle, the flags and the deadline to where the thread is, and the open
  socket to `server_fd` however the handlers nest.

Only model-checked: liveness and everything under fairness (out of the
prover's reach); `StreamsWellFormed` and `NoAbandonedStream`, which for all
constants would have to exclude a wrapped outbound id that a recipient still
has open; `RelayTypeOK`; the properties of `ChatClients` and `FileSender`,
whose invariants would span the programs and both directions of the network;
and the functions of `Framing`, `FileProtocol` and `CommandParser`, which need
induction over sequences. Proved only, and in no run: `RouteKeysUnique`,
`LiveRoutesSound`, `ClientsDistinct`, `ClientLifecycle`, `OneDirectionPends`,
`DeliveredOnce`.

## Not modelled

- Certificate and key loading (`create_context`), resolving and connecting in
  `connect_to_server`, the download directory's creation: I/O whose failure
  ends the program. The client's side of the handshake runs the same code with
  the same deadlines.
- Prompt, history and display of the client (readline), and the wording and
  formatting of messages, `format_message` included: no property is about them.
- The cryptography of libsodium and OpenSSL, which is ideal.
- A client that is killed: the code has no recovery to check, so its temporary
  files stay.
- Failures of `fcntl`, `poll` and `eventfd_read` in the worker, which end the
  loop like any other error, and the wrap of the 64-bit client ids.
