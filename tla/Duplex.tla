------------------------------- MODULE Duplex -------------------------------
(***************************************************************************)
(* Both ends of the connections while files are on their way in both       *)
(* directions: the client's loop, which does not read while send_file      *)
(* blocks (client.c, client_file_sender.c), the server's worker, which     *)
(* does not read while a write is pending (server_worker.c), and the       *)
(* bounded queues between them (client_manager.c).                         *)
(*                                                                         *)
(* Only the room in the queues and sockets matters here, so they are       *)
(* counts of frames; a frame is written to a socket as a whole.            *)
(***************************************************************************)
EXTENDS Integers

CONSTANTS
    Users,
    Correspondent,         \* whom each user sends to
    FramesToSend,          \* bound: the frames each user sends
    SocketRoom,            \* frames a socket takes before it blocks
    MAX_OUTGOING_FRAMES

ASSUME DuplexAssumption ==
    /\ Correspondent \in [Users -> Users]
    /\ FramesToSend \in [Users -> Nat]
    /\ {SocketRoom, MAX_OUTGOING_FRAMES} \subseteq Nat \ {0}

VARIABLES
    sending,      \* users whose client is inside send_file
    left,         \* frames each client has still to send
    up,           \* frames in the sockets to the server
    queue,        \* frames in the outgoing queues
    pending,      \* workers that hold a frame to write
    down,         \* frames in the sockets to the clients
    failed,       \* users whose queue has overflowed
    connected     \* users whose connection is up

clientSide == <<sending, left>>
serverSide == <<queue, pending, failed, connected>>
duplexVars == <<clientSide, up, serverSide, down>>

DuplexInit ==
    /\ sending = {} /\ pending = {} /\ failed = {} /\ connected = Users
    /\ left = FramesToSend
    /\ up = [u \in Users |-> 0]
    /\ queue = [u \in Users |-> 0]
    /\ down = [u \in Users |-> 0]

Add(f, u) == [f EXCEPT ![u] = @ + 1]
Take(f, u) == f[u] > 0 /\ f' = [f EXCEPT ![u] = @ - 1]

-----------------------------------------------------------------------------
(***************************************************************************)
(* The client.                                                             *)
(***************************************************************************)
BeginSend(u) ==
    /\ u \in connected \ sending /\ left[u] > 0
    /\ sending' = sending \union {u}
    /\ UNCHANGED <<left, up, serverSide, down>>

\* One frame of the file; send_all blocks until the socket takes it.
SendFrame(u) ==
    /\ u \in connected \intersect sending
    /\ up[u] < SocketRoom
    /\ Take(left, u)
    /\ up' = Add(up, u)
    /\ sending' = IF left[u] = 1 THEN sending \ {u} ELSE sending
    /\ UNCHANGED <<serverSide, down>>

\* send_all fails on a connection the server has closed.
SendFails(u) ==
    /\ u \in sending \ connected
    /\ sending' = sending \ {u}
    /\ UNCHANGED <<left, up, serverSide, down>>

\* receive_frame, when no handler is busy sending.
ReadFrame(u) ==
    /\ u \notin sending
    /\ Take(down, u)
    /\ UNCHANGED <<clientSide, up, serverSide>>

(***************************************************************************)
(* The worker.  It looks at the state of its queue whenever it is woken,   *)
(* also while it waits for its socket.                                     *)
(***************************************************************************)
CheckStatus(u) ==
    /\ u \in connected \intersect failed
    /\ connected' = connected \ {u}
    /\ UNCHANGED <<clientSide, up, queue, pending, failed, down>>

HasOutput(u) == queue[u] > 0

TakeOutgoing(u) ==
    /\ u \in connected \ (failed \union pending)
    /\ HasOutput(u)
    /\ Take(queue, u)
    /\ pending' = pending \union {u}
    /\ UNCHANGED <<clientSide, up, failed, connected, down>>

WriteOutgoing(u) ==
    /\ u \in connected \intersect pending
    /\ down[u] < SocketRoom
    /\ down' = Add(down, u)
    /\ pending' = pending \ {u}
    /\ UNCHANGED <<clientSide, up, queue, failed, connected>>

\* queue_frame_to_client_id
QueueFrame(v) ==
    IF v \notin connected \/ v \in failed
    THEN UNCHANGED <<queue, failed>>
    ELSE IF queue[v] >= MAX_OUTGOING_FRAMES
    THEN failed' = failed \union {v} /\ UNCHANGED queue
    ELSE queue' = Add(queue, v) /\ UNCHANGED failed

\* Mutant: the worker waits for room in the recipient's queue.
MayReadWithRoom(u) ==
    u \notin pending /\ queue[Correspondent[u]] < MAX_OUTGOING_FRAMES

\* No read is started while a write is pending.
MayRead(u) == u \notin pending

ReadIncoming(u) ==
    /\ u \in connected \ failed
    /\ MayRead(u)
    /\ Take(up, u)
    /\ QueueFrame(Correspondent[u])
    /\ UNCHANGED <<clientSide, pending, connected, down>>

-----------------------------------------------------------------------------
ClientStep(u) == SendFrame(u) \/ SendFails(u)
WorkerStep(u) ==
    CheckStatus(u) \/ TakeOutgoing(u) \/ WriteOutgoing(u) \/ ReadIncoming(u)

DuplexNext ==
    \E u \in Users :
        BeginSend(u) \/ ReadFrame(u) \/ ClientStep(u) \/ WorkerStep(u)

\* Every worker runs and a client that sends goes on sending; no client need
\* read, and when a user sends a file is up to the user.
DuplexSpec ==
    /\ DuplexInit /\ [][DuplexNext]_duplexVars
    /\ \A u \in Users : WF_duplexVars(ClientStep(u)) /\ WF_duplexVars(WorkerStep(u))

-----------------------------------------------------------------------------
\* A slow recipient does not hold up those who send to it: a client that sends
\* gets to the end of its file or loses its connection, also when its recipient
\* never reads, because the server refuses frames instead of waiting.  Only
\* what the client leaves unread itself may hold it up: while its worker holds
\* a frame that its socket does not take, the worker does not read.
SendsFinish ==
    \A u \in Users :
        u \in sending ~> \/ u \notin sending
                         \/ u \in pending /\ down[u] = SocketRoom
=============================================================================
