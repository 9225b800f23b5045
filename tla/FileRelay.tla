----------------------------- MODULE FileRelay -----------------------------
(***************************************************************************)
(* The server side of file transfers: the threads of server.c's            *)
(* handle_client running the handlers of server_files.c over the client    *)
(* registry and the routing table.                                         *)
(*                                                                         *)
(* clients_mutex and routes_mutex are never held together, and a handler   *)
(* holds neither between two calls, so a step of a thread is one call of   *)
(* the registry or of the table; between two steps of a handler any other  *)
(* thread may run.  What a handler keeps across calls is in its thread     *)
(* record.                                                                 *)
(***************************************************************************)
EXTENDS FileRoutes, ClientManager

CONSTANTS
    Conns,         \* accepted connections, each served by one thread
    FrameBudget    \* bound: the file frames received on each connection

ASSUME RelayAssumption ==
    FrameBudget \in [Conns -> Nat]

VARIABLES
    threads,    \* Conns -> the state of the thread that serves it
    streams     \* history: the transfers each client has been sent

vars == <<routeVars, clientVars, threads, streams>>

(***************************************************************************)
(* The frames queued for clients.  Error replies to a sender are FRAME_TEXT*)
(* and their wording is left out.                                          *)
(***************************************************************************)
Text == [type |-> "TEXT", transfer |-> 0, size |-> 0]
FileFrame(type, outbound, size) ==
    [type |-> type, transfer |-> outbound, size |-> size]

RelayFrames ==
    [type: {"TEXT", "BEGIN", "CHUNK", "END", "ERROR"},
     transfer: OutboundIds,
     size: FileSizes \union ChunkLengths \union {0}]

ASSUME FramesAssumption == RelayFrames \subseteq Frames

\* send_receiver_error and notify_sender, as a message still to be sent.
receiver_error(endpoint) ==
    [to |-> endpoint.target_id,
     frame |-> FileFrame("ERROR", endpoint.outbound_transfer_id, 0)]
notify_sender(id) == [to |-> id, frame |-> Text]

(***************************************************************************)
(* The history of what was queued for a client, per outbound id: the bytes *)
(* still to come of the transfer it is receiving, or one of two marks.     *)
(***************************************************************************)
IdleStream == -1
BrokenStream == -2
NoStreams == [o \in OutboundIds |-> IdleStream]
IsOpen(r, o) == streams[r][o] >= 0

Fits(stream, frame) ==
    \/ frame.type = "BEGIN" /\ stream = IdleStream
    \/ frame.type = "CHUNK" /\ stream >= frame.size
    \/ frame.type = "END" /\ stream = 0
    \/ frame.type = "ERROR" /\ stream >= 0

StreamAfter(stream, frame) ==
    CASE ~Fits(stream, frame)           -> BrokenStream
      [] frame.type = "BEGIN"           -> frame.size
      [] frame.type = "CHUNK"           -> stream - frame.size
      [] frame.type \in {"END","ERROR"} -> IdleStream

Observe(r, frame) ==
    streams' = IF frame.type = "TEXT" THEN streams
               ELSE [streams EXCEPT ![r][frame.transfer] =
                        StreamAfter(@, frame)]

\* send_frame_to_client_id, by its result.
SendSucceeds(to, frame) == Enqueue(to, frame) /\ Observe(to, frame)
SendFails(to) == EnqueueFails(to) /\ UNCHANGED streams

-----------------------------------------------------------------------------
(***************************************************************************)
(* Thread records: pc names the next call, todo holds the messages that    *)
(* are left to send, by position, and the rest are the handler's locals.   *)
(***************************************************************************)
Thread(pc, slot, id, budget) ==
    [pc |-> pc, slot |-> slot, id |-> id, budget |-> budget,
     transfer |-> 0, target |-> INVALID_CLIENT_ID, outbound |-> 0,
     size |-> 0, todo |-> <<>>]

At(c, pc) == threads[c].pc = pc
Goto(c, pc) == threads' = [threads EXCEPT ![c].pc = pc]

\* The handler of c has its locals blank at pc ...
Blank(c, pc) == Thread(pc, threads[c].slot, threads[c].id, threads[c].budget)

\* ... is done with its frame: back to run_client_worker's loop ...
Return(c) ==
    threads' = [threads EXCEPT ![c] =
                   [Blank(c, "serve") EXCEPT !.budget = @ - 1]]

\* ... or ends by sending these messages.
Reply(c, messages) ==
    threads' = [threads EXCEPT ![c] =
                   [Blank(c, "replying") EXCEPT !.todo = messages]]

Closed(c) == [threads EXCEPT ![c] = Thread("closed", 0, INVALID_CLIENT_ID, 0)]

RelayInit ==
    /\ RoutesInit
    /\ ClientsInit
    /\ threads = [c \in Conns |->
                    Thread("login", 0, INVALID_CLIENT_ID, FrameBudget[c])]
    /\ streams = [r \in ClientIds |-> NoStreams]

(***************************************************************************)
(* handle_client: login, welcome, serve, remove, abort.                    *)
(***************************************************************************)
Login(c) ==
    /\ At(c, "login")
    /\ \E name \in Usernames : add_client(name)
    /\ threads' = [threads EXCEPT ![c] =
                      Thread("welcome", NewSlot, allocate_client_id, @.budget)]
    /\ streams' = [streams EXCEPT ![allocate_client_id] = NoStreams]
    /\ UNCHANGED routeVars

\* The handshake or the username fails or times out, or add_client refuses.
LoginFails(c) ==
    /\ At(c, "login")
    /\ threads' = Closed(c)
    /\ UNCHANGED <<routeVars, clientVars, streams>>

Welcome(c) ==
    /\ At(c, "welcome")
    /\ activate_client(threads[c].slot)
    /\ Goto(c, "serve")
    /\ UNCHANGED <<routeVars, streams>>

\* The welcome reply could not be sent: no route can name this client yet.
WelcomeFails(c) ==
    /\ At(c, "welcome")
    /\ remove_client(threads[c].slot)
    /\ threads' = Closed(c)
    /\ UNCHANGED <<routeVars, streams>>

\* The worker takes the next frame to write to this client.
Deliver(c) ==
    /\ At(c, "serve")
    /\ take_outgoing_frame(threads[c].id)
    /\ UNCHANGED <<routeVars, threads, streams>>

\* run_client_worker returns: a quit, an EOF or a failed connection ...
Leave(c) ==
    /\ At(c, "serve")
    /\ Goto(c, "leaving")
    /\ UNCHANGED <<routeVars, clientVars, streams>>

\* ... or the client's queue has overflowed.
LeaveOverflowed(c) ==
    /\ ~OutputOk(threads[c].id)
    /\ Leave(c)

Remove(c) ==
    /\ At(c, "leaving")
    /\ remove_client(threads[c].slot)
    /\ Goto(c, "abort")
    /\ UNCHANGED <<routeVars, streams>>

\* abort_file_routes_for_client: the table is purged, then endpoints are told.
AbortMessages(id) ==
    LET actions == AbortActions(id)
    IN  [i \in DOMAIN actions |->
            IF actions[i].type = "SEND_ERROR"
            THEN receiver_error(
                   [target_id |-> actions[i].client_id,
                    outbound_transfer_id |-> actions[i].outbound_transfer_id])
            ELSE notify_sender(actions[i].client_id)]

Abort(c) ==
    /\ At(c, "abort")
    /\ file_routes_abort_client(threads[c].id)
    /\ threads' = IF AbortMessages(threads[c].id) = <<>> THEN Closed(c)
                  ELSE [threads EXCEPT
                          ![c].pc = "aborting",
                          ![c].todo = AbortMessages(threads[c].id)]
    /\ UNCHANGED <<clientVars, streams>>

\* One message of a reply or of an abort; whether it is queued is ignored.
SendNext(c) ==
    LET todo == threads[c].todo
        next == Min(DOMAIN todo)
        left == Restrict(todo, DOMAIN todo \ {next})
    IN  /\ threads[c].pc \in {"replying", "aborting"}
        /\ \/ SendSucceeds(todo[next].to, todo[next].frame)
           \/ SendFails(todo[next].to)
        /\ IF left # <<>> THEN threads' = [threads EXCEPT ![c].todo = left]
           ELSE IF At(c, "replying") THEN Return(c)
           ELSE threads' = Closed(c)
        /\ UNCHANGED routeVars

-----------------------------------------------------------------------------
(***************************************************************************)
(* route_file_frame: a file frame arrives on c, for c's transfer t.        *)
(***************************************************************************)
Receives(c) == At(c, "serve") /\ threads[c].budget > 0
Notify(c) == <<notify_sender(threads[c].id)>>

\* Mutant: a receiver is not told that its transfer was rejected.
RejectTellsSender(c, endpoint) == Notify(c)

\* The receiver is told only when there is one, the sender in any case.
RejectMessages(c, endpoint) ==
    IF endpoint = NoEndpoint THEN Notify(c)
    ELSE <<receiver_error(endpoint)>> \o Notify(c)

\* A frame that does not decode and carries no readable transfer id.
RecvUnreadable(c) ==
    /\ Receives(c)
    /\ Reply(c, Notify(c))
    /\ UNCHANGED <<routeVars, clientVars, streams>>

\* reject_known_transfer: one that does not decode but names a transfer.  The
\* tombstone is kept for a begin or a chunk, not for an end or an error.
RecvMalformed(c, t, keep_discard) ==
    /\ Receives(c)
    /\ file_routes_quarantine(threads[c].id, t, keep_discard)
    /\ Reply(c, RejectMessages(c, EndpointOf(threads[c].id, t)))
    /\ UNCHANGED <<clientVars, streams>>

\* handle_file_begin: look the recipient up, add a route, send the begin frame.
RecvBegin(c, t, peer, size) ==
    /\ Receives(c)
    /\ threads' = [threads EXCEPT ![c].pc = "begin_add", ![c].transfer = t,
                                  ![c].target = find_client_id(peer),
                                  ![c].size = size]
    /\ UNCHANGED <<routeVars, clientVars, streams>>

BeginAdd(c) ==
    LET s == threads[c].id
        t == threads[c].transfer
        target == threads[c].target
        discard == target \in {INVALID_CLIENT_ID, s}
        result == AddResult(s, t, discard)
    IN  /\ At(c, "begin_add")
        /\ file_routes_add(s, t, target, threads[c].size, discard)
        /\ \/ /\ result = "READY"
              /\ threads' = [threads EXCEPT
                                ![c].pc = "begin_send",
                                ![c].outbound = allocate_outbound_id]
           \/ /\ result = "DUPLICATE"
              /\ Reply(c, RejectMessages(c, EndpointOf(s, t)))
           \/ /\ result \in {"FULL", "ID_UNAVAILABLE", "DISCARD"}
              /\ Reply(c, Notify(c))
        /\ UNCHANGED <<clientVars, streams>>

BeginSend(c) ==
    /\ At(c, "begin_send")
    /\ \/ /\ SendSucceeds(threads[c].target,
                            FileFrame("BEGIN", threads[c].outbound,
                                      threads[c].size))
          /\ Return(c)
       \/ SendFails(threads[c].target) /\ Goto(c, "begin_failed")
    /\ UNCHANGED routeVars

\* Mutant: the route of a begin frame that was not sent goes on forwarding.
BeginFailedKeepsRoute(c) ==
    /\ At(c, "begin_failed")
    /\ Reply(c, Notify(c))
    /\ UNCHANGED <<routeVars, clientVars, streams>>

BeginFailed(c) ==
    /\ At(c, "begin_failed")
    /\ file_routes_quarantine(threads[c].id, threads[c].transfer, TRUE)
    /\ Reply(c, Notify(c))
    /\ UNCHANGED <<clientVars, streams>>

\* handle_file_chunk: account for the bytes, then send them on.
RecvChunk(c, t, length) ==
    LET s == threads[c].id
        result == ChunkResult(s, t, length)
        endpoint == EndpointOf(s, t)
    IN  /\ Receives(c)
        /\ file_routes_accept_chunk(s, t, length)
        /\ \/ /\ result = "READY"
              /\ threads' = [threads EXCEPT
                                ![c].pc = "chunk_send", ![c].transfer = t,
                                ![c].target = endpoint.target_id,
                                ![c].outbound = endpoint.outbound_transfer_id,
                                ![c].size = length]
           \/ result = "OVERRUN" /\ Reply(c, RejectMessages(c, endpoint))
           \/ result = "MISSING" /\ Reply(c, Notify(c))
           \/ result = "DISCARD" /\ Return(c)
        /\ UNCHANGED <<clientVars, streams>>

ChunkSend(c) ==
    /\ At(c, "chunk_send")
    /\ \/ /\ SendSucceeds(threads[c].target,
                            FileFrame("CHUNK", threads[c].outbound,
                                      threads[c].size))
          /\ Return(c)
       \/ SendFails(threads[c].target) /\ Goto(c, "chunk_failed")
    /\ UNCHANGED routeVars

\* Mutant: a chunk that could not be queued is dropped without a word.
ChunkFailedQuietly(c) ==
    /\ At(c, "chunk_failed")
    /\ file_routes_mark_forward_failed(threads[c].id, threads[c].transfer,
                                       threads[c].outbound)
    /\ Return(c)
    /\ UNCHANGED <<clientVars, streams>>

ChunkFailed(c) ==
    LET s == threads[c].id
        t == threads[c].transfer
        outbound == threads[c].outbound
    IN  /\ At(c, "chunk_failed")
        /\ file_routes_mark_forward_failed(s, t, outbound)
        /\ IF ForwardFailureConverts(s, t, outbound)
           THEN Reply(c, Notify(c)) ELSE Return(c)
        /\ UNCHANGED <<clientVars, streams>>

\* handle_file_end: close the route, then send the end frame or an error.
RecvEnd(c, t) ==
    LET s == threads[c].id
        result == FinishResult(s, t, TRUE)
        endpoint == EndpointOf(s, t)
    IN  /\ Receives(c)
        /\ file_routes_finish(s, t)
        /\ \/ /\ result = "READY"
              /\ threads' = [threads EXCEPT
                                ![c].pc = "end_send",
                                ![c].target = endpoint.target_id,
                                ![c].outbound = endpoint.outbound_transfer_id]
           \/ result = "INCOMPLETE" /\ Reply(c, RejectMessages(c, endpoint))
           \/ result = "MISSING" /\ Reply(c, Notify(c))
           \/ result = "DISCARD" /\ Return(c)
        /\ UNCHANGED <<clientVars, streams>>

EndSend(c) ==
    /\ At(c, "end_send")
    /\ \/ /\ SendSucceeds(threads[c].target,
                            FileFrame("END", threads[c].outbound, 0))
          /\ Return(c)
       \/ SendFails(threads[c].target) /\ Reply(c, Notify(c))
    /\ UNCHANGED routeVars

\* handle_file_error: the sender gives its transfer up.
RecvError(c, t) ==
    LET s == threads[c].id
        result == FinishResult(s, t, FALSE)
    IN  /\ Receives(c)
        /\ file_routes_finish(s, t)
        /\ \/ /\ result = "READY"
              /\ Reply(c, <<receiver_error(EndpointOf(s, t))>>)
           \/ result = "MISSING" /\ Reply(c, Notify(c))
           \/ result = "DISCARD" /\ Return(c)
        /\ UNCHANGED <<clientVars, streams>>

-----------------------------------------------------------------------------
Receive(c) ==
    \/ RecvUnreadable(c)
    \/ \E t \in TransferIds :
          \/ \E keep \in BOOLEAN : RecvMalformed(c, t, keep)
          \/ \E peer \in ValidUsernames, size \in FileSizes :
                RecvBegin(c, t, peer, size)
          \/ \E length \in ChunkLengths : RecvChunk(c, t, length)
          \/ RecvEnd(c, t)
          \/ RecvError(c, t)

\* What a thread does without waiting for its peer or for its queue.
Proceed(c) ==
    \/ Welcome(c)
    \/ LeaveOverflowed(c) \/ Remove(c) \/ Abort(c) \/ SendNext(c)
    \/ BeginAdd(c) \/ BeginSend(c) \/ BeginFailed(c)
    \/ ChunkSend(c) \/ ChunkFailed(c) \/ EndSend(c)

RelayNext ==
    \E c \in Conns :
        \/ Login(c) \/ LoginFails(c) \/ WelcomeFails(c)
        \/ Deliver(c) \/ Leave(c) \/ Receive(c)
        \/ Proceed(c)

RelaySpec == RelayInit /\ [][RelayNext]_vars

\* A thread that can run does run: no handler waits for a client.
RelayFairSpec == RelaySpec /\ \A c \in Conns : WF_vars(Proceed(c))

-----------------------------------------------------------------------------
(***************************************************************************)
(* Properties.                                                             *)
(***************************************************************************)
\* Threads, registry, table and history are well formed.
RelayTypeOK ==
    /\ RoutesTypeOK
    /\ ClientsTypeOK
    /\ \A c \in Conns :
          /\ threads[c].id \in ClientIds \union {INVALID_CLIENT_ID}
          /\ threads[c].slot \in ClientSlots
          /\ threads[c].budget \in 0 .. FrameBudget[c]
    /\ \A r \in ClientIds, o \in OutboundIds :
          streams[r][o] \in -2 .. Max(FileSizes \union {0})

Gone == {"aborting", "closed"}

\* A thread that has not yet purged the routes of its client id.
HasThread(id) ==
    \E c \in Conns : threads[c].id = id /\ threads[c].pc \notin Gone

\* No route outlives its sender's connection, whether it forwards or is a
\* tombstone, so the fixed-size table is not used up by departed clients; and
\* a route that forwards leads to a client whose departure is still to be
\* handled, except while its sender has yet to send the begin frame (the
\* recipient may have left between find_client_id and file_routes_add).
NoOrphanRoute ==
    \A i \in RouteSlots :
        routes[i].mode # "free" =>
            /\ HasThread(routes[i].sender_id)
            /\ IsLive(i) =>
                  \/ HasThread(routes[i].target_id)
                  \/ \E c \in Conns :
                        /\ threads[c].id = routes[i].sender_id
                        /\ threads[c].transfer = routes[i].source_transfer_id
                        /\ threads[c].pc \in {"begin_send", "begin_failed"}

\* Whatever the sender sends and whoever disconnects, what is queued for a
\* client is, for each outbound id, a begin frame, then chunks that fit in the
\* declared size, then an end frame when exactly the declared bytes have been
\* sent or an error frame; nothing else.
StreamsWellFormed ==
    \A r \in ClientIds, o \in OutboundIds : streams[r][o] # BrokenStream

\* A thread is about to send the frame that ends the transfer.
Ending(r, o) ==
    \E c \in Conns :
        \/ /\ At(c, "end_send")
           /\ threads[c].target = r /\ threads[c].outbound = o
        \/ \E k \in DOMAIN threads[c].todo :
              threads[c].todo[k] =
                  [to |-> r, frame |-> FileFrame("ERROR", o, 0)]

Routed(r, o) ==
    \E i \in RouteSlots : /\ IsLive(i)
                          /\ routes[i].target_id = r
                          /\ routes[i].outbound_transfer_id = o

\* A client that has been sent the beginning of a file and is still connected
\* is never forgotten: the transfer has a route, or a thread is about to tell
\* the client that it is over.
NoAbandonedStream ==
    \A r \in ClientIds, o \in OutboundIds :
        IsOpen(r, o) /\ ReadySlots(r) # {} => Routed(r, o) \/ Ending(r, o)

\* A transfer that is no longer routed is, in the end, over for its recipient
\* too, if the recipient is still there.
UnroutedStreamsEnd ==
    \A r \in ClientIds, o \in OutboundIds :
        IsOpen(r, o) /\ ~Routed(r, o)
            ~> ~IsOpen(r, o) \/ ReadySlots(r) = {}

\* A client whose queue overflowed is disconnected, and its routes purged.
OverflowDisconnects ==
    \A id \in ClientIds :
        (\E i \in ActiveSlots(id) : clients[i].outgoing_failed)
            ~> ~HasThread(id)
=============================================================================
