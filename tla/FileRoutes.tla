----------------------------- MODULE FileRoutes -----------------------------
(***************************************************************************)
(* The routing table of file transfers (server_file_routes.c).             *)
(*                                                                         *)
(* Every function of the file takes routes_mutex on entry and releases it  *)
(* on exit, so each one is a single action.  A function that returns       *)
(* something is a pair: an action with the function's name, and a state    *)
(* function that gives what it returns in the state it is called in.       *)
(*                                                                         *)
(* The flags active and discard of a FileRoute are one field, mode:        *)
(* "free" (not active), "live" (active, forwarding) or "discard" (active,  *)
(* a tombstone that swallows the rest of a rejected transfer).             *)
(***************************************************************************)
EXTENDS ServerTypes

CONSTANTS
    TransferIds,          \* transfer ids chosen by sending clients
    FileSizes,            \* sizes a FILE_BEGIN may declare
    ChunkLengths,         \* lengths of FILE_CHUNK data
    FILE_ROUTE_CAPACITY,  \* slots of the table
    OutboundIdSpace       \* 2^32 in the code: outbound ids are 0 .. this - 1

ASSUME RoutesAssumption ==
    /\ TransferIds \subseteq Nat
    /\ FileSizes \subseteq Nat
    /\ ChunkLengths \subseteq Nat
    /\ FILE_ROUTE_CAPACITY \in Nat \ {0}
    /\ OutboundIdSpace \in Nat \ {0, 1}

VARIABLES
    routes,                     \* the table, one record per slot
    next_outbound_transfer_id   \* the id the allocator tries next

routeVars == <<routes, next_outbound_transfer_id>>

RouteSlots == 0 .. FILE_ROUTE_CAPACITY - 1
OutboundIds == 0 .. OutboundIdSpace - 1

FileRoute ==
    [mode: {"free", "live", "discard"},
     sender_id: ClientIds \union {INVALID_CLIENT_ID},
     target_id: ClientIds \union {INVALID_CLIENT_ID},
     source_transfer_id: TransferIds \union {0},
     outbound_transfer_id: OutboundIds,
     expected_size: FileSizes \union {0},
     forwarded_size: Nat]

\* A slot after memset(route, 0, sizeof(*route)).
FreeRoute ==
    [mode |-> "free", sender_id |-> INVALID_CLIENT_ID,
     target_id |-> INVALID_CLIENT_ID, source_transfer_id |-> 0,
     outbound_transfer_id |-> 0, expected_size |-> 0, forwarded_size |-> 0]

\* make_discard_route_locked
DiscardRoute(s, t) ==
    [mode |-> "discard", sender_id |-> s,
     target_id |-> INVALID_CLIENT_ID, source_transfer_id |-> t,
     outbound_transfer_id |-> 0, expected_size |-> 0, forwarded_size |-> 0]

LiveRoute(s, t, target, size, outbound) ==
    [mode |-> "live", sender_id |-> s, target_id |-> target,
     source_transfer_id |-> t, outbound_transfer_id |-> outbound,
     expected_size |-> size, forwarded_size |-> 0]

(***************************************************************************)
(* Lookups, made with routes_mutex held.                                   *)
(***************************************************************************)
IsLive(i) == routes[i].mode = "live"

RoutesFor(s, t) ==
    {i \in RouteSlots : /\ routes[i].mode # "free"
                        /\ routes[i].sender_id = s
                        /\ routes[i].source_transfer_id = t}

\* Mutant: tombstones count as free slots.
FreeSlotsOverTombstones == {i \in RouteSlots : ~IsLive(i)}

FreeSlots == {i \in RouteSlots : routes[i].mode = "free"}

\* Both scans return the first slot that qualifies.
find_route(s, t) == Min(RoutesFor(s, t))
find_free_route == Min(FreeSlots)

HasRoute(s, t) == RoutesFor(s, t) # {}
HasLiveRoute(s, t) == HasRoute(s, t) /\ IsLive(find_route(s, t))

\* A FileRouteEndpoint, cleared and copied from a route.
NoEndpoint == [target_id |-> INVALID_CLIENT_ID, outbound_transfer_id |-> 0]
Endpoint(i) == [target_id |-> routes[i].target_id,
                outbound_transfer_id |-> routes[i].outbound_transfer_id]

\* The endpoint reported for a key: that of its route while it forwards.
EndpointOf(s, t) ==
    IF HasLiveRoute(s, t) THEN Endpoint(find_route(s, t)) ELSE NoEndpoint

(***************************************************************************)
(* allocate_outbound_id_locked: the nonzero ids in cyclic order, from the  *)
(* counter on, at most FILE_ROUTE_CAPACITY + 1 of them.                    *)
(***************************************************************************)
\* Mutant: a wrapped counter is not checked against the ids in use.
OutboundIdUnchecked(id) == FALSE

OutboundIdInUse(id) ==
    \E i \in RouteSlots : IsLive(i) /\ routes[i].outbound_transfer_id = id

\* Mutant: a rejected candidate is tried again.
CandidateNotAdvanced(k) ==
    IF next_outbound_transfer_id = 0 THEN 1 ELSE next_outbound_transfer_id

Candidate(k) ==
    LET first == IF next_outbound_transfer_id = 0
                 THEN 1 ELSE next_outbound_transfer_id
    IN  ((first - 1 + k) % (OutboundIdSpace - 1)) + 1

GoodAttempts ==
    {k \in 0 .. FILE_ROUTE_CAPACITY : ~OutboundIdInUse(Candidate(k))}

allocate_outbound_id ==
    IF GoodAttempts = {} THEN 0 ELSE Candidate(Min(GoodAttempts))

\* Mutant: the counter is wider than the ids on the wire.
CounterUnwrapped ==
    LET last == IF GoodAttempts = {}
                THEN FILE_ROUTE_CAPACITY ELSE Min(GoodAttempts)
    IN  Candidate(last) + 1

CounterAfterAllocation ==
    LET last == IF GoodAttempts = {}
                THEN FILE_ROUTE_CAPACITY ELSE Min(GoodAttempts)
    IN  (Candidate(last) + 1) % OutboundIdSpace

-----------------------------------------------------------------------------
RoutesInit ==
    /\ routes = [i \in RouteSlots |-> FreeRoute]
    /\ next_outbound_transfer_id = 1

\* What file_routes_add returns.
AddResult(s, t, discard) ==
    IF HasRoute(s, t) THEN "DUPLICATE"
    ELSE IF FreeSlots = {} THEN "FULL"
    ELSE IF discard THEN "DISCARD"
    ELSE IF allocate_outbound_id = 0 THEN "ID_UNAVAILABLE"
    ELSE "READY"

file_routes_add(s, t, target, size, discard) ==
    \/ /\ AddResult(s, t, discard) = "DUPLICATE"
       /\ routes' = [routes EXCEPT ![find_route(s, t)] = DiscardRoute(s, t)]
       /\ UNCHANGED next_outbound_transfer_id
    \/ /\ AddResult(s, t, discard) = "FULL"
       /\ UNCHANGED routeVars
    \/ /\ AddResult(s, t, discard) = "DISCARD"
       /\ routes' = [routes EXCEPT ![find_free_route] = DiscardRoute(s, t)]
       /\ UNCHANGED next_outbound_transfer_id
    \/ /\ AddResult(s, t, discard) \in {"ID_UNAVAILABLE", "READY"}
       /\ routes' = IF allocate_outbound_id = 0 THEN routes
                    ELSE [routes EXCEPT ![find_free_route] =
                            LiveRoute(s, t, target, size, allocate_outbound_id)]
       /\ next_outbound_transfer_id' = CounterAfterAllocation

\* Returns HasLiveRoute(s, t) and EndpointOf(s, t).
file_routes_quarantine(s, t, keep_discard) ==
    /\ \/ /\ HasRoute(s, t)
          /\ routes' = [routes EXCEPT ![find_route(s, t)] =
                           IF keep_discard THEN DiscardRoute(s, t)
                                           ELSE FreeRoute]
       \/ /\ ~HasRoute(s, t) /\ keep_discard /\ FreeSlots # {}
          /\ routes' = [routes EXCEPT ![find_free_route] = DiscardRoute(s, t)]
       \/ /\ ~HasRoute(s, t) /\ (~keep_discard \/ FreeSlots = {})
          /\ UNCHANGED routes
    /\ UNCHANGED next_outbound_transfer_id

\* The chunk no longer fits in the declared size.
Overruns(i, length) ==
    \/ routes[i].forwarded_size > routes[i].expected_size
    \/ length > routes[i].expected_size - routes[i].forwarded_size

\* What file_routes_accept_chunk returns, with EndpointOf(s, t).
ChunkResult(s, t, length) ==
    IF ~HasRoute(s, t) THEN "MISSING"
    ELSE IF ~IsLive(find_route(s, t)) THEN "DISCARD"
    ELSE IF Overruns(find_route(s, t), length) THEN "OVERRUN"
    ELSE "READY"

file_routes_accept_chunk(s, t, length) ==
    /\ \/ /\ ChunkResult(s, t, length) = "MISSING"
          /\ routes' = IF FreeSlots = {} THEN routes
                       ELSE [routes EXCEPT ![find_free_route] =
                                DiscardRoute(s, t)]
       \/ /\ ChunkResult(s, t, length) = "DISCARD"
          /\ UNCHANGED routes
       \/ /\ ChunkResult(s, t, length) = "OVERRUN"
          /\ routes' = [routes EXCEPT ![find_route(s, t)] = DiscardRoute(s, t)]
       \/ /\ ChunkResult(s, t, length) = "READY"
          /\ routes' = [routes EXCEPT ![find_route(s, t)].forwarded_size =
                           @ + length]
    /\ UNCHANGED next_outbound_transfer_id

\* What file_routes_mark_forward_failed returns.
ForwardFailureConverts(s, t, outbound) ==
    /\ HasLiveRoute(s, t)
    /\ routes[find_route(s, t)].outbound_transfer_id = outbound

file_routes_mark_forward_failed(s, t, outbound) ==
    /\ routes' = IF ForwardFailureConverts(s, t, outbound)
                 THEN [routes EXCEPT ![find_route(s, t)] = DiscardRoute(s, t)]
                 ELSE routes
    /\ UNCHANGED next_outbound_transfer_id

\* Mutant: an end frame is accepted whatever was forwarded.
FinishUnvalidated(s, t, validate_size) ==
    IF ~HasRoute(s, t) THEN "MISSING"
    ELSE IF ~IsLive(find_route(s, t)) THEN "DISCARD"
    ELSE "READY"

\* What file_routes_finish returns, with EndpointOf(s, t).
FinishResult(s, t, validate_size) ==
    IF ~HasRoute(s, t) THEN "MISSING"
    ELSE IF ~IsLive(find_route(s, t)) THEN "DISCARD"
    ELSE IF /\ validate_size
            /\ routes[find_route(s, t)].forwarded_size
                 # routes[find_route(s, t)].expected_size
    THEN "INCOMPLETE"
    ELSE "READY"

file_routes_finish(s, t) ==
    /\ routes' = IF HasRoute(s, t)
                 THEN [routes EXCEPT ![find_route(s, t)] = FreeRoute]
                 ELSE routes
    /\ UNCHANGED next_outbound_transfer_id

(***************************************************************************)
(* file_routes_abort_client, called when a client has left: routes it was  *)
(* sending are cleared, live routes to it become tombstones, and the       *)
(* actions say whom to tell, one per live route, in slot order.            *)
(***************************************************************************)
SendsTo(i, id) ==
    IsLive(i) /\ routes[i].target_id = id /\ routes[i].sender_id # id

AbortActions(id) ==
    [i \in {j \in RouteSlots : /\ IsLive(j)
                               /\ routes[j].sender_id # routes[j].target_id
                               /\ \/ routes[j].sender_id = id
                                  \/ routes[j].target_id = id} |->
        IF SendsTo(i, id)
        THEN [type |-> "NOTIFY_SENDER", client_id |-> routes[i].sender_id,
              outbound_transfer_id |-> 0]
        ELSE [type |-> "SEND_ERROR", client_id |-> routes[i].target_id,
              outbound_transfer_id |-> routes[i].outbound_transfer_id]]

file_routes_abort_client(id) ==
    /\ routes' = [i \in RouteSlots |->
                    IF SendsTo(i, id)
                    THEN DiscardRoute(routes[i].sender_id,
                                      routes[i].source_transfer_id)
                    ELSE IF \/ routes[i].sender_id = id
                            \/ routes[i].target_id = id
                    THEN FreeRoute
                    ELSE routes[i]]
    /\ UNCHANGED next_outbound_transfer_id

-----------------------------------------------------------------------------
(***************************************************************************)
(* The table on its own, called in any order by any client's thread.  As   *)
(* in handle_file_begin, a route is requested as a tombstone exactly when  *)
(* the recipient is unknown or is the sender.                              *)
(***************************************************************************)
CallAdd(s, t) ==
    \E target \in ClientIds \union {INVALID_CLIENT_ID}, size \in FileSizes :
        file_routes_add(s, t, target, size,
                        target \in {INVALID_CLIENT_ID, s})

CallQuarantine(s, t) ==
    \E keep \in BOOLEAN : file_routes_quarantine(s, t, keep)

CallChunk(s, t) ==
    \E length \in ChunkLengths : file_routes_accept_chunk(s, t, length)

CallForwardFailed(s, t) ==
    \E outbound \in OutboundIds :
        file_routes_mark_forward_failed(s, t, outbound)

RoutesNext ==
    \/ \E s \in ClientIds, t \in TransferIds :
          \/ CallAdd(s, t)
          \/ CallQuarantine(s, t)
          \/ CallChunk(s, t)
          \/ CallForwardFailed(s, t)
          \/ file_routes_finish(s, t)
    \/ \E id \in ClientIds : file_routes_abort_client(id)

RoutesSpec == RoutesInit /\ [][RoutesNext]_routeVars

-----------------------------------------------------------------------------
\* The table holds well-formed routes and the counter is a 32-bit id.
RoutesTypeOK ==
    /\ routes \in [RouteSlots -> FileRoute]
    /\ next_outbound_transfer_id \in OutboundIds

\* A (sender, source transfer id) key names at most one slot, live or
\* tombstone, so the first match that find_route_locked returns is the only
\* one and a transfer that was rejected cannot also be forwarded.
RouteKeysUnique ==
    \A i, j \in RouteSlots :
        /\ routes[i].mode # "free"
        /\ routes[j].mode # "free"
        /\ routes[i].sender_id = routes[j].sender_id
        /\ routes[i].source_transfer_id = routes[j].source_transfer_id
        => i = j

\* Two transfers being forwarded never share an outbound id, and none has
\* id 0, however often the 32-bit counter has wrapped: a receiving client can
\* tell its incoming transfers apart (allocate_outbound_id_locked).
OutboundIdsUnique ==
    \A i, j \in RouteSlots :
        IsLive(i) => /\ routes[i].outbound_transfer_id # 0
                     /\ IsLive(j) /\ routes[i].outbound_transfer_id =
                                     routes[j].outbound_transfer_id
                        => i = j

\* A forwarding route has two distinct endpoints and never accounts for more
\* bytes than its sender declared, so the unsigned difference
\* expected_size - forwarded_size in file_routes_accept_chunk never wraps.
LiveRoutesSound ==
    \A i \in RouteSlots :
        IsLive(i) => /\ routes[i].sender_id # INVALID_CLIENT_ID
                     /\ routes[i].target_id \notin
                            {INVALID_CLIENT_ID, routes[i].sender_id}
                     /\ routes[i].forwarded_size <= routes[i].expected_size

\* Trying FILE_ROUTE_CAPACITY + 1 ids is enough: when a slot is free and there
\* are at least as many nonzero ids as slots, the allocator finds an id, so
\* FILE_ROUTE_ADD_ID_UNAVAILABLE is never returned.
AllocationSucceeds ==
    FreeSlots # {} /\ OutboundIdSpace > FILE_ROUTE_CAPACITY
        => allocate_outbound_id # 0

\* Once a transfer is rejected it is never forwarded again under the same
\* key until its sender has closed it, and while it is forwarded its endpoint
\* and declared size are fixed and its byte count never goes back.
RouteLifecycle ==
    [][\A i \in RouteSlots :
          /\ routes[i].mode = "discard" => routes'[i].mode # "live"
          /\ IsLive(i) /\ routes'[i].mode = "live" =>
                /\ routes'[i].forwarded_size >= routes[i].forwarded_size
                /\ [routes'[i] EXCEPT !.forwarded_size = 0] =
                       [routes[i] EXCEPT !.forwarded_size = 0]]_routeVars
=============================================================================
