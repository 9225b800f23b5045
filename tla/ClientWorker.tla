---------------------------- MODULE ClientWorker ----------------------------
(***************************************************************************)
(* One client's nonblocking TLS loop (server_worker.c), from the moment    *)
(* the client is activated until it is removed, with the other threads     *)
(* that queue frames for it, its peer, and the kernel and OpenSSL between  *)
(* them.                                                                   *)
(*                                                                         *)
(* A step of the loop is one system, library or registry call.  OpenSSL is *)
(* nondeterministic within its interface: a call completes, asks to be     *)
(* retried when the socket is readable or writable, meets close_notify or  *)
(* fails for good.  Bytes are abstracted: a successful read leaves the     *)
(* worker in the middle of a frame or completes one.  Some input is TLS    *)
(* control data (a key update, say), which a read consumes by itself and   *)
(* may have to answer before it goes on.                                   *)
(***************************************************************************)
EXTENDS ClientManager

CONSTANTS
    MaxSends,         \* bound: frames queued for the client
    MaxInput,         \* bound: pieces of input the peer has in flight
    WriteMayWantRead  \* may OpenSSL ask for input during a write?

Me == 0              \* the slot of the client
MyId == 1

ASSUME WorkerAssumption ==
    /\ MyId \in ClientIds
    /\ MaxSends \in Nat
    /\ MaxInput \in Nat \ {0}
    /\ WriteMayWantRead \in BOOLEAN
    /\ 1 .. MaxSends \subseteq Frames

VARIABLES
    pc,          \* the worker's next call
    wake,        \* is the eventfd counter nonzero?
    writing,     \* the frame in the outgoing buffer, 0 if outgoing_length = 0
    write_wait,  \* poll events the pending write waits for
    read_wait,   \* poll events the last read waits for
    mid_frame,   \* received # 0
    progress,
    put_off,     \* history: was this turn's write put off for a read?
    result,      \* what run_client_worker returned
    tls_io_failed,
    input,       \* pieces of input that have arrived and were not read
    room,        \* does the socket accept output?
    peer_open,   \* has the peer not closed its side?
    accepted,    \* history: frames queued so far, numbered from 1
    written      \* history: frames handed over to TLS

localVars == <<writing, write_wait, read_wait, mid_frame, progress, put_off,
               result, tls_io_failed>>
netVars == <<input, room, peer_open>>
workerVars == <<clientVars, pc, wake, localVars, netVars, accepted, written>>

NoWait == "none"

\* The client has just been activated: frames may be queued before the
\* worker's first turn, and its input may already be there.
WorkerInit ==
    /\ \E name \in ValidUsernames :
          clients = [i \in ClientSlots |->
                       IF i # Me THEN FreeClient
                       ELSE [FreeClient EXCEPT !.active = TRUE,
                                !.ready = TRUE, !.id = MyId,
                                !.username = name]]
    /\ next_client_id = MyId + 1
    /\ pc = "top" /\ wake = FALSE
    /\ writing = 0 /\ write_wait = NoWait /\ read_wait = NoWait
    /\ mid_frame = FALSE /\ progress = FALSE /\ put_off = FALSE
    /\ result = 0 /\ tls_io_failed = FALSE
    /\ input = 0 /\ room = TRUE /\ peer_open = TRUE
    /\ accepted = 0 /\ written = <<>>

(***************************************************************************)
(* queue_frame_to_client_id with its eventfd: the worker is woken when the *)
(* client is addressable, also when the queue turns out to be full.        *)
(***************************************************************************)
\* Mutant: the worker is not woken when the queue is full.
QueueWakesIfAccepted ==
    /\ accepted < MaxSends
    /\ \/ Enqueue(MyId, accepted + 1) /\ accepted' = accepted + 1
       \/ EnqueueFails(MyId) /\ UNCHANGED accepted
    /\ wake' = (wake \/ QueueResult(MyId) = "OK")

QueueForMe ==
    /\ accepted < MaxSends
    /\ \/ Enqueue(MyId, accepted + 1) /\ accepted' = accepted + 1
       \/ EnqueueFails(MyId) /\ UNCHANGED accepted
    /\ wake' = (wake \/ ReadySlots(MyId) # {})

OtherThread ==
    /\ QueueForMe
    /\ UNCHANGED <<pc, localVars, netVars, written>>

-----------------------------------------------------------------------------
\* run_client_worker returns; handle_client's remove_client is next.
Returns(value) == pc' = "remove" /\ result' = value

ReadEventfd ==
    /\ pc = "top"
    /\ wake' = FALSE /\ put_off' = FALSE
    /\ pc' = "status"
    /\ UNCHANGED <<clientVars, writing, write_wait, read_wait, mid_frame,
                   progress, result, tls_io_failed, netVars, accepted,
                   written>>

\* Mutant: a frame is taken while another is still in the buffer.
CheckStatusAlwaysTakes ==
    /\ pc = "status"
    /\ \/ /\ OutputOk(MyId)
          /\ pc' = "take" /\ progress' = FALSE
          /\ UNCHANGED result
       \/ ~OutputOk(MyId) /\ Returns(-1) /\ UNCHANGED progress
    /\ UNCHANGED <<clientVars, wake, writing, write_wait, read_wait,
                   mid_frame, put_off, tls_io_failed, netVars, accepted,
                   written>>

CheckStatus ==
    /\ pc = "status"
    /\ \/ /\ OutputOk(MyId)
          /\ pc' = IF writing = 0 THEN "take" ELSE "write"
          /\ progress' = FALSE
          /\ UNCHANGED result
       \/ ~OutputOk(MyId) /\ Returns(-1) /\ UNCHANGED progress
    /\ UNCHANGED <<clientVars, wake, writing, write_wait, read_wait,
                   mid_frame, put_off, tls_io_failed, netVars, accepted,
                   written>>

Take ==
    /\ pc = "take"
    /\ \/ /\ take_outgoing_frame(MyId)
          /\ writing' = Head(clients[Me].outgoing)
          /\ pc' = "write"
          /\ UNCHANGED result
       \/ /\ OutputOk(MyId) /\ clients[Me].outgoing = <<>>
          /\ pc' = "write"
          /\ UNCHANGED <<clientVars, writing, result>>
       \/ /\ ~OutputOk(MyId)
          /\ Returns(-1)
          /\ UNCHANGED <<clientVars, writing>>
    /\ UNCHANGED <<wake, write_wait, read_wait, mid_frame, progress, put_off,
                   tls_io_failed, netVars, accepted, written>>

\* A write is attempted unless a read has control data to write first.
WriteAllowed == writing # 0 /\ read_wait # "POLLOUT"

WriteCompletes ==
    /\ pc = "write" /\ WriteAllowed /\ room
    /\ room' \in BOOLEAN
    /\ written' = Append(written, writing)
    /\ writing' = 0 /\ write_wait' = NoWait /\ progress' = TRUE
    /\ pc' = "read"
    /\ UNCHANGED <<clientVars, wake, read_wait, mid_frame, put_off, result,
                   tls_io_failed, input, peer_open, accepted>>

WriteWants ==
    /\ pc = "write" /\ WriteAllowed
    /\ \/ ~room /\ write_wait' = "POLLOUT"
       \/ WriteMayWantRead /\ input = 0 /\ write_wait' = "POLLIN"
    /\ pc' = "read"
    /\ UNCHANGED <<clientVars, wake, writing, read_wait, mid_frame, progress,
                   put_off, result, tls_io_failed, netVars, accepted,
                   written>>

\* A reset connection: fatal errors set tls_io_failed (tls_retry).
WriteFails ==
    /\ pc = "write" /\ WriteAllowed /\ ~peer_open
    /\ tls_io_failed' \in BOOLEAN
    /\ Returns(-1)
    /\ UNCHANGED <<clientVars, wake, writing, write_wait, read_wait,
                   mid_frame, progress, put_off, netVars, accepted, written>>

\* There is no frame, or it is put off for the read.
WriteSkipped ==
    /\ pc = "write" /\ ~WriteAllowed
    /\ put_off' = (writing # 0)
    /\ pc' = "read"
    /\ UNCHANGED <<clientVars, wake, writing, write_wait, read_wait,
                   mid_frame, progress, result, tls_io_failed, netVars,
                   accepted, written>>

\* Mutant: a read is attempted while a write is pending.
ReadAlways == TRUE

\* A read is attempted unless a write is pending.
ReadAllowed == write_wait = NoWait

\* SSL_read_ex first writes the control data that a former call could not
\* write; it consumes the control data before the bytes it returns, and the
\* answers may fill the socket.
ControlDataWritten ==
    /\ read_wait = "POLLOUT" => room
    /\ room' \in {room, FALSE}

\* Some bytes arrive, but not the rest of the header or of the frame.
ReadPart ==
    /\ pc = "read" /\ ReadAllowed /\ ControlDataWritten
    /\ input' \in 0 .. input - 1
    /\ mid_frame' = TRUE /\ read_wait' = NoWait /\ progress' = TRUE
    /\ pc' = "top"
    /\ UNCHANGED <<clientVars, wake, writing, write_wait, put_off, result,
                   tls_io_failed, peer_open, accepted, written>>

\* The frame is complete and its handler runs; it may answer the client.
ReadFrame ==
    /\ pc = "read" /\ ReadAllowed /\ ControlDataWritten /\ mid_frame
    /\ input' \in 0 .. input - 1
    /\ mid_frame' = FALSE /\ read_wait' = NoWait /\ progress' = TRUE
    /\ \/ QueueForMe
       \/ UNCHANGED <<clientVars, wake, accepted>>
    /\ pc' = "top"
    /\ UNCHANGED <<writing, write_wait, put_off, result, tls_io_failed,
                   peer_open, written>>

\* The handler of a quit command asks the worker to stop.
ReadQuit ==
    /\ pc = "read" /\ ReadAllowed /\ ControlDataWritten /\ mid_frame
    /\ input' \in 0 .. input - 1
    /\ read_wait' = NoWait /\ progress' = TRUE
    /\ Returns(0)
    /\ UNCHANGED <<clientVars, wake, writing, write_wait, mid_frame, put_off,
                   tls_io_failed, peer_open, accepted, written>>

\* A frame length out of range, or a frame of no known type.
ReadInvalid ==
    /\ pc = "read" /\ ReadAllowed /\ ControlDataWritten
    /\ input' \in 0 .. input - 1
    /\ mid_frame' = TRUE /\ read_wait' = NoWait /\ progress' = TRUE
    /\ Returns(-1)
    /\ UNCHANGED <<clientVars, wake, writing, write_wait, put_off,
                   tls_io_failed, peer_open, accepted, written>>

\* Nothing to read, or nothing but control data.
ReadWantsInput ==
    /\ pc = "read" /\ ReadAllowed /\ ControlDataWritten /\ peer_open
    /\ input' = 0
    /\ read_wait' = "POLLIN"
    /\ pc' = IF progress THEN "top" ELSE "poll"
    /\ UNCHANGED <<clientVars, wake, writing, write_wait, mid_frame,
                   progress, put_off, result, tls_io_failed, peer_open,
                   accepted, written>>

\* Control data that must be written before reading on, from this call or
\* still from a former one.
ReadWantsRoom ==
    /\ pc = "read" /\ ReadAllowed
    /\ \/ ControlDataWritten /\ input' \in 0 .. input - 1
       \/ read_wait = "POLLOUT" /\ UNCHANGED <<input, room>>
    /\ ~room'
    /\ read_wait' = "POLLOUT"
    /\ pc' = IF progress THEN "top" ELSE "poll"
    /\ UNCHANGED <<clientVars, wake, writing, write_wait, mid_frame,
                   progress, put_off, result, tls_io_failed, peer_open,
                   accepted, written>>

\* close_notify ends the loop in order only between two frames.
ReadEof ==
    /\ pc = "read" /\ ReadAllowed /\ ControlDataWritten /\ ~peer_open
    /\ input' = 0
    /\ Returns(IF mid_frame THEN -1 ELSE 0)
    /\ UNCHANGED <<clientVars, wake, writing, write_wait, read_wait,
                   mid_frame, progress, put_off, tls_io_failed, peer_open,
                   accepted, written>>

ReadFails ==
    /\ pc = "read" /\ ReadAllowed /\ ~peer_open
    /\ tls_io_failed' = TRUE
    /\ Returns(-1)
    /\ UNCHANGED <<clientVars, wake, writing, write_wait, read_wait,
                   mid_frame, progress, put_off, netVars, accepted, written>>

ReadSkipped ==
    /\ pc = "read" /\ ~ReadAllowed
    /\ pc' = IF progress THEN "top" ELSE "poll"
    /\ UNCHANGED <<clientVars, wake, localVars, netVars, accepted, written>>

\* Mutant: the pending write is forgotten.
PollForRead == read_wait

\* What the socket is polled for.
PollEvents == IF write_wait # NoWait THEN write_wait ELSE read_wait

\* poll on the socket and the eventfd.  A closed connection reports POLLHUP
\* whatever is asked for.
PollReturns ==
    /\ pc = "poll"
    /\ \/ wake
       \/ PollEvents = "POLLIN" /\ input > 0
       \/ PollEvents = "POLLOUT" /\ room
       \/ ~peer_open
    /\ pc' = "top"
    /\ UNCHANGED <<clientVars, wake, localVars, netVars, accepted, written>>

\* handle_client after the worker: remove_client(index, result == 0).
RemoveMe ==
    /\ pc = "remove"
    /\ remove_client(Me)
    /\ pc' = "closed"
    /\ UNCHANGED <<wake, localVars, netVars, accepted, written>>

-----------------------------------------------------------------------------
\* The peer and the network, outside the program.
PeerSends ==
    /\ peer_open /\ input < MaxInput
    /\ input' = input + 1
    /\ UNCHANGED <<clientVars, pc, wake, localVars, room, peer_open,
                   accepted, written>>

PeerReads ==
    /\ ~room
    /\ room' = TRUE
    /\ UNCHANGED <<clientVars, pc, wake, localVars, input, peer_open,
                   accepted, written>>

PeerCloses ==
    /\ peer_open
    /\ peer_open' = FALSE
    /\ UNCHANGED <<clientVars, pc, wake, localVars, input, room, accepted,
                   written>>

WorkerStep ==
    \/ ReadEventfd \/ CheckStatus \/ Take
    \/ WriteCompletes \/ WriteWants \/ WriteFails \/ WriteSkipped
    \/ ReadPart \/ ReadFrame \/ ReadQuit \/ ReadInvalid
    \/ ReadWantsInput \/ ReadWantsRoom \/ ReadEof \/ ReadFails \/ ReadSkipped
    \/ PollReturns \/ RemoveMe

WorkerNext ==
    WorkerStep \/ OtherThread \/ PeerSends \/ PeerReads \/ PeerCloses

WorkerSpec == WorkerInit /\ [][WorkerNext]_workerVars

\* The worker's thread is scheduled; nothing is assumed of its peer.
WorkerFairSpec == WorkerSpec /\ WF_workerVars(WorkerStep)

-----------------------------------------------------------------------------
\* OpenSSL forbids other calls while one is to be retried: a pending write
\* and a read that has to write are never outstanding together, so neither
\* direction makes the other wait, and a write is only pending while its
\* frame is still in the buffer it will be retried with.
OneDirectionPends ==
    /\ ~(write_wait # NoWait /\ read_wait = "POLLOUT")
    /\ write_wait # NoWait => writing # 0

\* The worker sleeps without a wake-up only when there is nothing it could do:
\* its queue has not overflowed, no frame waits while the buffer is free, and
\* it waits for some event of the socket.  A frame in the buffer is held up by
\* the socket or was put off in this very turn for a read's control data; put
\* off it was not tried, so it has no event of its own to wait for.
NoLostWakeup ==
    pc = "poll" /\ ~wake =>
        /\ OutputOk(MyId)
        /\ writing = 0 => clients[Me].outgoing = <<>>
        /\ writing # 0 => write_wait # NoWait \/ put_off
        /\ put_off => writing # 0 /\ write_wait = NoWait
        /\ PollEvents # NoWait

\* A TLS shutdown is attempted (graceful, from the copy of the connection in
\* the registry, whose tls_io_failed is never set) only when no write is
\* pending and no fatal TLS error has happened.
GracefulCloseIsSafe ==
    pc \in {"remove", "closed"} /\ result = 0 =>
        write_wait = NoWait /\ ~tls_io_failed

\* If the peer goes on reading, and OpenSSL never asks for input during a
\* write, every accepted frame is written, unless the connection is closed
\* first.  The one exception is a frame that is put off for the control data
\* of reads, again and again or in a turn after which the worker sleeps for
\* good: nothing else makes a frame wait for an unrelated event.
EveryFrameWritten ==
    /\ WF_workerVars(PeerReads)
    /\ [](write_wait # "POLLIN") /\ <>[]~put_off
    =>
        \A n \in 1 .. MaxSends :
            accepted >= n ~> Len(written) >= n \/ pc = "closed"

-----------------------------------------------------------------------------
(***************************************************************************)
(* The worker and the registry implement a mailbox: what it holds is the   *)
(* frame in the worker's buffer and the client's queue.                    *)
(***************************************************************************)
MailStatus ==
    IF pc = "closed" THEN "closed"
    ELSE IF clients[Me].outgoing_failed THEN "sealed"
    ELSE "open"

MailHeld ==
    IF pc = "closed" THEN <<>>
    ELSE (IF writing = 0 THEN <<>> ELSE <<writing>>) \o clients[Me].outgoing

Box == INSTANCE Mailbox WITH
    Capacity <- MAX_OUTGOING_FRAMES,
    status <- MailStatus,
    held <- MailHeld,
    handed <- Len(written)

\* Towards the other threads the client's queue and worker behave like a
\* bounded FIFO that refuses a frame only when it is full, is then sealed,
\* and is closed in the end, even if the client's peer is silent; retries,
\* wake-ups and polling cannot be seen.
ImplementsMailbox == Box!MailFairSpec
=============================================================================
