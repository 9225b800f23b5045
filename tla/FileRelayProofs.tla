-------------------------- MODULE FileRelayProofs --------------------------
(* Proofs about the server's relaying of files, for any number of           *)
(* connections, names, transfers, slots and frames: the threads use the     *)
(* registry and the routing table as these are specified, and leave no      *)
(* route behind.                                                            *)
EXTENDS FileRelayLemmas

\* Time limits of the provers for a step.
USE SMTT(6), ZenonT(20), SMTT(40)

(***************************************************************************)
(* handle_client.                                                          *)
(***************************************************************************)
LEMMA LoginProgress ==
    ASSUME RelayInv, NEW c \in Conns, Login(c)
    PROVE  Progress
<1> DEFINE th == threads'[c]
<1>1. ClientsInv /\ ThreadsOk /\ OwnersInv /\ KnownIds /\ RoutesInv
  BY DEF RelayInv
<1>2. /\ OwnersInv' /\ ThreadsOk'
      /\ \A d \in Conns \ {c} : threads'[d] = threads[d]
      /\ th.pc = "welcome" /\ threads[c].pc = "login"
      /\ th.id = next_client_id /\ th.target = INVALID_CLIENT_ID
      /\ next_client_id' = next_client_id + 1
  BY <1>1, LoginKeepsOwners
<1>3. threads' = [threads EXCEPT ![c] = th] /\ ThreadOk(th)
  BY <1>1, <1>2 DEF ThreadsOk
<1>4. ASSUME NEW id, Known(id) PROVE Known(id)'
  <2>1. next_client_id \in Nat /\ id \in 0 .. next_client_id - 1
    BY <1>1, <1>4 DEF ClientsInv, ClientsTypeOK, Known
  <2>2. id \in 0 .. next_client_id' - 1 /\ id # next_client_id
    BY <1>2, <2>1
  <2>3. QED
    BY <1>2, <1>4, <2>2 DEF Known
<1>5. UNCHANGED routeVars /\ [ClientsNext]_clientVars
  BY DEF Login, ClientsNext
<1>6. threads[c].id = INVALID_CLIENT_ID
  BY <1>1, <1>2 DEF ThreadsOk, ThreadOk, ThreadRecord, Named, Owning, Handling
<1>7. \A i \in RouteSlots :
         routes[i].mode # "free" =>
            /\ routes[i].sender_id # threads[c].id
            /\ IsLive(i) => routes[i].target_id # threads[c].id
  BY Zenon, <1>1, <1>6, ClientIdsAssumption DEF KnownIds, RoutesInv,
     LiveRoutesSound
<1>8. /\ th.pc \notin Beginning /\ threads[c].pc \notin Beginning
      /\ Known(th.target)
  BY <1>1, <1>2, NobodyIsKnown DEF Beginning
<1> HIDE DEF th
<1>9. QED
  BY Zenon, <1>2, <1>3, <1>4, <1>5, <1>7, <1>8, ThreadProgress

\* A step that leaves every thread but c alone, and next_client_id, keeps what
\* is known, unless c is welcomed anew.
LEMMA StaysKnown ==
    ASSUME ThreadsOk, NEW c \in Conns, NEW th,
           threads' = [threads EXCEPT ![c] = th], th.pc # "welcome",
           UNCHANGED next_client_id
    PROVE  \A id : Known(id) => Known(id)'
BY DEF ThreadsOk, Known

LEMMA LoginFailsProgress ==
    ASSUME RelayInv, NEW c \in Conns, LoginFails(c)
    PROVE  Progress
<1>1. ClientsInv /\ ThreadsOk /\ OwnersInv /\ KnownIds /\ RoutesInv
  BY DEF RelayInv
<1>2. PICK th : /\ threads' = [threads EXCEPT ![c] = th]
                /\ ThreadOk(th) /\ th.pc = "closed"
                /\ th.target = INVALID_CLIENT_ID
  BY <1>1, ThreadCloses DEF LoginFails
<1>3. /\ threads[c].pc = "login"
      /\ UNCHANGED routeVars /\ UNCHANGED clientVars
      /\ OwnersKept /\ [ClientsNext]_clientVars
  BY RegistryUntouched DEF LoginFails, At
<1>4. /\ threads[c].pc \notin Owning /\ th.pc \notin Named /\ th.pc \notin Owning
      /\ threads[c].pc \notin Named
      /\ threads[c].pc \notin Beginning /\ th.pc \notin Beginning
  BY <1>2, <1>3 DEF Owning, Handling, Named, Beginning
<1>5. OwnersInv'
  BY Zenon, <1>1, <1>2, <1>3, <1>4, GoneKeepsOwners
<1>6. threads[c].id = INVALID_CLIENT_ID
  BY <1>1, <1>4 DEF ThreadsOk, ThreadOk, ThreadRecord
<1>7. \A i \in RouteSlots :
         routes[i].mode # "free" =>
            /\ routes[i].sender_id # threads[c].id
            /\ IsLive(i) => routes[i].target_id # threads[c].id
  BY Zenon, <1>1, <1>6, ClientIdsAssumption DEF KnownIds, RoutesInv,
     LiveRoutesSound
<1>8. Known(th.target) /\ \A id : Known(id) => Known(id)'
  BY Zenon, <1>1, <1>2, <1>3, NobodyIsKnown, StaysKnown DEF clientVars
<1>9. QED
  BY Zenon, <1>2, <1>3, <1>4, <1>5, <1>7, <1>8, ThreadProgress

LEMMA WelcomeProgress ==
    ASSUME RelayInv, NEW c \in Conns, Welcome(c)
    PROVE  Progress
<1>1. ClientsInv /\ ThreadsOk /\ OwnersInv /\ KnownIds
  BY DEF RelayInv
<1>2. PICK th : /\ Continues(c, th) /\ th.pc = "serve"
                /\ th.target = threads[c].target
  BY <1>1, GotoContinues DEF Welcome, At
<1>3. OwnersInv' /\ OwnerActivates(threads[c].slot)
  BY <1>1, WelcomeKeepsOwners
<1>4. threads[c].slot \in ClientSlots
  BY <1>1 DEF ThreadsOk, ThreadOk, ThreadRecord
<1>5. ClientsNext
  BY <1>3, <1>4 DEF ClientsNext
<1>6. /\ threads[c].pc = "welcome" /\ UNCHANGED routeVars
      /\ UNCHANGED next_client_id
  BY DEF Welcome, At, activate_client
<1>7. /\ threads[c].pc \notin Beginning /\ th.pc \notin Beginning
      /\ th.pc \notin Gone /\ th.pc # "welcome"
  BY <1>2, <1>6 DEF Beginning, Gone
<1>8. /\ Known(th.target) /\ th.id = threads[c].id /\ ThreadOk(th)
      /\ threads' = [threads EXCEPT ![c] = th]
  BY <1>1, <1>2 DEF KnownIds, Continues
<1>9. \A id : Known(id) => Known(id)'
  BY Zenon, <1>1, <1>6, <1>7, <1>8, StaysKnown
<1>10. QED
  BY Zenon, <1>3, <1>5, <1>6, <1>7, <1>8, <1>9, ThreadProgress

\* The client leaves before any route can name it.
LEMMA WelcomeFailsProgress ==
    ASSUME RelayInv, NEW c \in Conns, WelcomeFails(c)
    PROVE  Progress
<1>1. ClientsInv /\ ThreadsOk /\ OwnersInv /\ KnownIds
  BY DEF RelayInv
<1>2. PICK th : /\ threads' = [threads EXCEPT ![c] = th]
                /\ ThreadOk(th) /\ th.pc = "closed"
                /\ th.target = INVALID_CLIENT_ID
  BY <1>1, ThreadCloses DEF WelcomeFails
<1>3. /\ threads[c].pc = "welcome" /\ UNCHANGED routeVars
      /\ remove_client(threads[c].slot) /\ UNCHANGED next_client_id
  BY DEF WelcomeFails, At, remove_client
<1>4. /\ threads[c].pc \in Owning /\ th.pc \notin Named /\ th.pc \notin Owning
      /\ threads[c].pc \notin Beginning /\ th.pc \notin Beginning
      /\ th.pc # "welcome"
  BY <1>2, <1>3 DEF Owning, Handling, Named, Beginning
<1>5. OwnersInv'
  BY Zenon, <1>1, <1>2, <1>3, <1>4, RemovalKeepsOwners
<1>6. threads[c].slot \in ClientSlots
  BY <1>1 DEF ThreadsOk, ThreadOk, ThreadRecord
<1>7. ClientsNext
  BY <1>3, <1>6 DEF ClientsNext
<1>8. \A i \in RouteSlots :
         /\ routes[i].sender_id # threads[c].id
         /\ routes[i].target_id # threads[c].id
  BY <1>1, <1>3 DEF KnownIds, Known
<1>9. Known(th.target) /\ \A id : Known(id) => Known(id)'
  BY Zenon, <1>1, <1>2, <1>3, <1>4, NobodyIsKnown, StaysKnown
<1>10. QED
  BY Zenon, <1>2, <1>3, <1>4, <1>5, <1>7, <1>8, <1>9, ThreadProgress

LEMMA DeliverProgress ==
    ASSUME RelayInv, NEW c \in Conns, Deliver(c)
    PROVE  Progress
<1> DEFINE th == threads[c]
<1>1. ClientsInv /\ ThreadsOk /\ OwnersInv /\ KnownIds
  BY DEF RelayInv
<1>2. /\ th.pc = "serve" /\ UNCHANGED <<routeVars, threads>>
      /\ take_outgoing_frame(th.id)
  BY DEF Deliver, At
<1>3. ThreadOk(th) /\ th.pc \in Handling /\ th.id \in ClientIds
  BY <1>1, <1>2 DEF ThreadsOk, ThreadOk, Handling, Named, Owning
<1>4. threads' = [threads EXCEPT ![c] = th]
  BY <1>1, <1>2 DEF ThreadsOk
<1>5. Continues(c, th)
  BY <1>3, <1>4 DEF Continues
<1>6. OwnersKept /\ ClientsNext
  BY <1>1, <1>2, <1>3, TakeKeepsOwners DEF ClientsNext
<1>7. RoutesTouched(th.id) /\ [RoutesNext]_routeVars
  BY <1>2, NoRouteTouched DEF routeVars
<1>8. Known(th.target) /\ th.pc \notin Beginning
  BY <1>1, <1>2 DEF KnownIds, Beginning
<1> HIDE DEF th
<1>9. QED
  BY <1>3, <1>5, <1>6, <1>7, <1>8, HandlerProgress DEF th

LEMMA LeaveProgress ==
    ASSUME RelayInv, NEW c \in Conns, Leave(c)
    PROVE  Progress
<1>1. ClientsInv /\ ThreadsOk /\ OwnersInv /\ KnownIds
  BY DEF RelayInv
<1>2. /\ threads[c].pc = "serve" /\ UNCHANGED <<routeVars, clientVars>>
      /\ Goto(c, "leaving")
  BY DEF Leave, At
<1>3. PICK th : /\ Continues(c, th) /\ th.pc = "leaving"
                /\ th.target = threads[c].target
  BY <1>1, <1>2, GotoContinues
<1>4. OwnersKept /\ [ClientsNext]_clientVars
  BY <1>2, RegistryUntouched
<1>5. RoutesTouched(threads[c].id) /\ [RoutesNext]_routeVars
  BY <1>2, NoRouteTouched DEF routeVars
<1>6. /\ Known(th.target) /\ th.pc \notin Beginning
      /\ threads[c].pc \notin Beginning /\ threads[c].pc \in Handling
  BY <1>1, <1>2, <1>3 DEF KnownIds, Beginning, Handling
<1>7. QED
  BY <1>3, <1>4, <1>5, <1>6, HandlerProgress

LEMMA RemoveProgress ==
    ASSUME RelayInv, NEW c \in Conns, Remove(c)
    PROVE  Progress
<1>1. ClientsInv /\ ThreadsOk /\ OwnersInv /\ KnownIds
  BY DEF RelayInv
<1> DEFINE old == threads[c]
           th == [old EXCEPT !.pc = "abort"]
<1>2. /\ old.pc = "leaving" /\ UNCHANGED routeVars
      /\ remove_client(old.slot) /\ UNCHANGED next_client_id
      /\ threads' = [threads EXCEPT ![c] = th]
  BY DEF Remove, At, remove_client, Goto
<1>3. ThreadOk(old) /\ old.slot \in ClientSlots
  BY <1>1 DEF ThreadsOk, ThreadOk, ThreadRecord
<1> HIDE DEF old
<1>4. /\ th \in ThreadRecord /\ th.pc = "abort" /\ th.id = old.id
      /\ th.target = old.target
  BY <1>3 DEF ThreadOk, ThreadRecord, Named
<1> HIDE DEF th
<1>5. ThreadOk(th)
  BY <1>2, <1>3, <1>4 DEF ThreadOk, Named, Owning, Handling, Beginning
<1>6. /\ old.pc \in Owning /\ th.pc \notin Owning
      /\ old.pc \notin Beginning /\ th.pc \notin Beginning
      /\ th.pc # "welcome" /\ th.pc \notin Gone
  BY <1>2, <1>4 DEF Owning, Handling, Beginning, Gone
<1>7. OwnersInv'
  BY Zenon, <1>1, <1>2, <1>4, <1>5, <1>6, RemovalKeepsOwners DEF old
<1>8. ClientsNext
  BY <1>2, <1>3 DEF ClientsNext
<1>9. Known(th.target) /\ \A id : Known(id) => Known(id)'
  BY ZenonT(40), <1>1, <1>2, <1>4, <1>6, StaysKnown DEF KnownIds, old
<1>10. QED
  BY Zenon, <1>2, <1>4, <1>5, <1>6, <1>7, <1>8, <1>9, ThreadProgress DEF old
-----------------------------------------------------------------------------
(***************************************************************************)
(* route_file_frame.                                                       *)
(***************************************************************************)
\* A handler ends: it returns, or sends its last messages.
Ends(c) ==
    \/ Return(c)
    \/ \E messages \in Todos : DOMAIN messages # {} /\ Reply(c, messages)

LEMMA HandlerEnds ==
    ASSUME RelayInv, NEW c \in Conns, threads[c].pc \in Handling, Ends(c),
           OwnersKept, RoutesTouched(threads[c].id),
           [RoutesNext]_routeVars, [ClientsNext]_clientVars,
           threads[c].pc \in Beginning =>
              \A i \in RouteSlots :
                 /\ routes'[i].mode = "live"
                 /\ routes'[i].sender_id = threads[c].id
                 /\ routes'[i].source_transfer_id = threads[c].transfer
                 => HasThread(routes'[i].target_id)
    PROVE  Progress
<1>1. ClientsInv /\ ThreadsOk
  BY DEF RelayInv
<1>2. PICK th : /\ Continues(c, th) /\ th.pc \in {"serve", "replying"}
                /\ th.target = INVALID_CLIENT_ID
  BY <1>1, ReturnContinues, ReplyContinues DEF Ends
<1>3. Known(th.target) /\ th.pc \notin Beginning
  BY <1>1, <1>2, NobodyIsKnown DEF Beginning
<1>4. QED
  BY <1>2, <1>3, HandlerProgress

\* What a handler's thread is.
LEMMA HandlerFacts ==
    ASSUME RelayInv, NEW c \in Conns, threads[c].pc \in Handling
    PROVE  /\ RoutesInv /\ ClientsInv /\ ThreadsOk /\ OwnersInv
           /\ BeginTargets /\ KnownIds
           /\ ThreadOk(threads[c]) /\ threads[c] \in ThreadRecord
           /\ threads[c].id \in ClientIds
BY DEF RelayInv, ThreadsOk, ThreadOk, Named, Owning

LEMMA NotifyEnds ==
    ASSUME NEW c, threads[c].id \in ClientIds, Reply(c, Notify(c))
    PROVE  Ends(c)
BY NotifyOk, OneMessage DEF Ends, Notify

LEMMA RejectEnds ==
    ASSUME RoutesInv, NEW c, threads[c].id \in ClientIds, NEW t,
           Reply(c, RejectMessages(c, EndpointOf(threads[c].id, t)))
    PROVE  Ends(c)
BY RejectOk DEF Ends

\* The recipient of a route is known.
LEMMA EndpointIsKnown ==
    ASSUME RoutesInv, KnownIds, NEW s, NEW t, HasLiveRoute(s, t)
    PROVE  Known(EndpointOf(s, t).target_id)
<1>1. find_route(s, t) \in RouteSlots
  BY FindRoute DEF HasLiveRoute
<1>2. EndpointOf(s, t).target_id = routes[find_route(s, t)].target_id
  BY DEF EndpointOf, Endpoint
<1>3. QED
  BY <1>1, <1>2 DEF KnownIds

LEMMA RecvUnreadableProgress ==
    ASSUME RelayInv, NEW c \in Conns, RecvUnreadable(c)
    PROVE  Progress
<1>1. /\ threads[c].pc = "serve" /\ Reply(c, Notify(c))
      /\ UNCHANGED routeVars /\ UNCHANGED clientVars
  BY DEF RecvUnreadable, Receives, At
<1>2. threads[c].pc \in Handling /\ threads[c].pc \notin Beginning
  BY <1>1 DEF Handling, Beginning
<1>3. Ends(c)
  BY <1>1, <1>2, HandlerFacts, NotifyEnds
<1>4. OwnersKept /\ [ClientsNext]_clientVars
  BY <1>1, RegistryUntouched
<1>5. RoutesTouched(threads[c].id) /\ [RoutesNext]_routeVars
  BY <1>1, NoRouteTouched DEF routeVars
<1>6. QED
  BY <1>2, <1>3, <1>4, <1>5, HandlerEnds

LEMMA RecvMalformedProgress ==
    ASSUME RelayInv, NEW c \in Conns, NEW t \in TransferIds,
           NEW keep \in BOOLEAN, RecvMalformed(c, t, keep)
    PROVE  Progress
<1>1. /\ threads[c].pc = "serve" /\ UNCHANGED clientVars
      /\ file_routes_quarantine(threads[c].id, t, keep)
      /\ Reply(c, RejectMessages(c, EndpointOf(threads[c].id, t)))
  BY DEF RecvMalformed, Receives, At
<1>2. threads[c].pc \in Handling /\ threads[c].pc \notin Beginning
  BY <1>1 DEF Handling, Beginning
<1>3. Ends(c)
  BY <1>1, <1>2, HandlerFacts, RejectEnds
<1>4. OwnersKept /\ [ClientsNext]_clientVars
  BY <1>1, RegistryUntouched
<1>5. RoutesTouched(threads[c].id)
  BY <1>1, <1>2, HandlerFacts, QuarantineTouches
<1>6. RoutesNext
  BY <1>1, <1>2, HandlerFacts DEF RoutesNext, CallQuarantine
<1>7. QED
  BY <1>2, <1>3, <1>4, <1>5, <1>6, HandlerEnds

LEMMA RecvBeginProgress ==
    ASSUME RelayInv, NEW c \in Conns, NEW t \in TransferIds,
           NEW peer, NEW size \in FileSizes, RecvBegin(c, t, peer, size)
    PROVE  Progress
<1> DEFINE old == threads[c]
           target == find_client_id(peer)
           th == [old EXCEPT !.pc = "begin_add", !.transfer = t,
                             !.target = target, !.size = size]
<1>1. /\ old.pc = "serve" /\ UNCHANGED routeVars /\ UNCHANGED clientVars
      /\ threads' = [threads EXCEPT ![c] = th]
  <2>1. threads[c] \in ThreadRecord
    BY DEF RelayInv, ThreadsOk, ThreadOk
  <2>2. QED
    BY ZenonT(40), <2>1 DEF RecvBegin, Receives, At, ThreadRecord
<1>2. old.pc \in Handling /\ old.pc \notin Beginning
  BY <1>1 DEF Handling, Beginning
<1>3. /\ old \in ThreadRecord /\ Known(target)
      /\ target \in ClientIds \union {INVALID_CLIENT_ID}
  BY <1>2, HandlerFacts, FoundIsKnown
<1> HIDE DEF old, target
<1>4. /\ th \in ThreadRecord /\ th.pc = "begin_add" /\ th.transfer = t
      /\ th.target = target /\ th.size = size /\ th.id = old.id
      /\ th.slot = old.slot
  BY Zenon, <1>3, RoutesAssumption DEF ThreadRecord, Named, Owning, Handling
<1> HIDE DEF th
<1>5. Continues(c, th)
  BY Zenon, <1>1, <1>2, <1>4, HandlerFacts, CallContinues DEF old
<1>6. OwnersKept /\ [ClientsNext]_clientVars
  BY <1>1, RegistryUntouched
<1>7. RoutesTouched(old.id) /\ [RoutesNext]_routeVars
  BY <1>1, NoRouteTouched DEF routeVars
<1>8. th.pc \notin Beginning
  BY <1>4 DEF Beginning
<1>9. QED
  BY <1>2, <1>3, <1>4, <1>5, <1>6, <1>7, <1>8, HandlerProgress DEF old

LEMMA RecvChunkProgress ==
    ASSUME RelayInv, NEW c \in Conns, NEW t \in TransferIds,
           NEW length \in ChunkLengths, RecvChunk(c, t, length)
    PROVE  Progress
<1> DEFINE old == threads[c]
           result == ChunkResult(old.id, t, length)
           endpoint == EndpointOf(old.id, t)
<1>1. /\ old.pc = "serve" /\ UNCHANGED clientVars
      /\ file_routes_accept_chunk(old.id, t, length)
  BY DEF RecvChunk, Receives, At
<1>2. old.pc \in Handling /\ old.pc \notin Beginning
  BY <1>1 DEF Handling, Beginning
<1>3. OwnersKept /\ [ClientsNext]_clientVars
  BY <1>1, RegistryUntouched
<1>4. RoutesTouched(old.id) /\ RoutesNext
  BY <1>1, <1>2, HandlerFacts, ChunkTouches DEF RoutesNext, CallChunk
<1>5. CASE Ends(c)
  BY <1>2, <1>3, <1>4, <1>5, HandlerEnds
<1>6. CASE /\ result = "READY"
           /\ threads' = [threads EXCEPT
                             ![c].pc = "chunk_send", ![c].transfer = t,
                             ![c].target = endpoint.target_id,
                             ![c].outbound = endpoint.outbound_transfer_id,
                             ![c].size = length]
  <2> DEFINE target == endpoint.target_id
             outbound == endpoint.outbound_transfer_id
             th == [old EXCEPT !.pc = "chunk_send", !.transfer = t,
                               !.target = target, !.outbound = outbound,
                               !.size = length]
  <2>1. HasLiveRoute(old.id, t)
    BY <1>6 DEF ChunkResult, HasLiveRoute
  <2>2. /\ old \in ThreadRecord /\ Known(target)
        /\ target \in ClientIds /\ outbound \in OutboundIds
    BY <1>2, <2>1, HandlerFacts, EndpointIsKnown, EndpointIsClient
  <2>3. threads' = [threads EXCEPT ![c] = th]
    BY Zenon, <1>6, <2>2 DEF ThreadRecord
  <2> HIDE DEF old, target, outbound
  <2>4. /\ th \in ThreadRecord /\ th.pc = "chunk_send" /\ th.transfer = t
        /\ th.target = target /\ th.size = length /\ th.id = old.id
        /\ th.slot = old.slot
    BY ZenonT(40), <2>2, RoutesAssumption DEF ThreadRecord, Named, Owning,
       Handling
  <2> HIDE DEF th
  <2>5. Continues(c, th)
    BY Zenon, <1>2, <2>2, <2>3, <2>4, HandlerFacts, CallContinues DEF old
  <2>6. th.pc \notin Beginning
    BY <2>4 DEF Beginning
  <2>7. QED
    BY <1>2, <1>3, <1>4, <2>2, <2>4, <2>5, <2>6, HandlerProgress DEF old
<1>7. QED
  <2>1. /\ Return(c) => Ends(c)
        /\ Reply(c, Notify(c)) => Ends(c)
        /\ Reply(c, RejectMessages(c, endpoint)) => Ends(c)
    BY <1>2, HandlerFacts, NotifyEnds, RejectEnds DEF Ends
  <2>2. QED
    BY <1>5, <1>6, <2>1 DEF RecvChunk
LEMMA RecvEndProgress ==
    ASSUME RelayInv, NEW c \in Conns, NEW t \in TransferIds, RecvEnd(c, t)
    PROVE  Progress
<1> DEFINE old == threads[c]
           result == FinishResult(old.id, t, TRUE)
           endpoint == EndpointOf(old.id, t)
<1>1. /\ old.pc = "serve" /\ UNCHANGED clientVars
      /\ file_routes_finish(old.id, t)
  BY DEF RecvEnd, Receives, At
<1>2. old.pc \in Handling /\ old.pc \notin Beginning
  BY <1>1 DEF Handling, Beginning
<1>3. OwnersKept /\ [ClientsNext]_clientVars
  BY <1>1, RegistryUntouched
<1>4. RoutesTouched(old.id) /\ RoutesNext
  BY <1>1, <1>2, HandlerFacts, CloseTouches DEF RoutesNext
<1>5. CASE Ends(c)
  BY <1>2, <1>3, <1>4, <1>5, HandlerEnds
<1>6. CASE /\ result = "READY"
           /\ threads' = [threads EXCEPT
                             ![c].pc = "end_send",
                             ![c].target = endpoint.target_id,
                             ![c].outbound = endpoint.outbound_transfer_id]
  <2> DEFINE target == endpoint.target_id
             outbound == endpoint.outbound_transfer_id
             th == [old EXCEPT !.pc = "end_send", !.target = target,
                               !.outbound = outbound]
  <2>1. HasLiveRoute(old.id, t)
    BY <1>6 DEF FinishResult, HasLiveRoute
  <2>2. /\ old \in ThreadRecord /\ Known(target)
        /\ target \in ClientIds /\ outbound \in OutboundIds
    BY <1>2, <2>1, HandlerFacts, EndpointIsKnown, EndpointIsClient
  <2>3. threads' = [threads EXCEPT ![c] = th]
    BY Zenon, <1>6, <2>2 DEF ThreadRecord
  <2> HIDE DEF old, target, outbound
  <2>4. /\ th \in ThreadRecord /\ th.pc = "end_send" /\ th.target = target
        /\ th.id = old.id /\ th.slot = old.slot
    BY Zenon, <2>2 DEF ThreadRecord, Named, Owning, Handling
  <2> HIDE DEF th
  <2>5. Continues(c, th)
    BY ZenonT(40), <1>2, <2>2, <2>3, <2>4, HandlerFacts, CallContinues DEF old
  <2>6. th.pc \notin Beginning
    BY <2>4 DEF Beginning
  <2>7. QED
    BY <1>2, <1>3, <1>4, <2>2, <2>4, <2>5, <2>6, HandlerProgress DEF old
<1>7. QED
  <2>1. /\ Return(c) => Ends(c)
        /\ Reply(c, Notify(c)) => Ends(c)
        /\ Reply(c, RejectMessages(c, endpoint)) => Ends(c)
    BY <1>2, HandlerFacts, NotifyEnds, RejectEnds DEF Ends
  <2>2. QED
    BY Zenon, <1>5, <1>6, <2>1 DEF RecvEnd

LEMMA RecvErrorProgress ==
    ASSUME RelayInv, NEW c \in Conns, NEW t \in TransferIds, RecvError(c, t)
    PROVE  Progress
<1> DEFINE s == threads[c].id
           result == FinishResult(s, t, FALSE)
<1>1. /\ threads[c].pc = "serve" /\ UNCHANGED clientVars
      /\ file_routes_finish(s, t)
  BY DEF RecvError, Receives, At
<1>2. threads[c].pc \in Handling /\ threads[c].pc \notin Beginning
  BY <1>1 DEF Handling, Beginning
<1>3. OwnersKept /\ [ClientsNext]_clientVars
  BY <1>1, RegistryUntouched
<1>4. RoutesTouched(s) /\ RoutesNext
  BY <1>1, <1>2, HandlerFacts, CloseTouches DEF RoutesNext
<1>5. ASSUME result = "READY", Reply(c, <<receiver_error(EndpointOf(s, t))>>)
      PROVE  Ends(c)
  <2>1. HasLiveRoute(s, t)
    BY <1>5 DEF FinishResult, HasLiveRoute
  <2>2. receiver_error(EndpointOf(s, t)) \in Message
    BY <1>2, <2>1, HandlerFacts, EndpointIsClient
  <2>3. QED
    BY <1>5, <2>2, OneMessage DEF Ends
<1>6. /\ Return(c) => Ends(c)
      /\ Reply(c, Notify(c)) => Ends(c)
  BY <1>2, HandlerFacts, NotifyEnds DEF Ends
<1>7. Ends(c)
  BY ZenonT(40), <1>5, <1>6 DEF RecvError
<1>8. QED
  BY <1>2, <1>3, <1>4, <1>7, HandlerEnds

LEMMA ChunkFailedProgress ==
    ASSUME RelayInv, NEW c \in Conns, ChunkFailed(c)
    PROVE  Progress
<1> DEFINE s == threads[c].id
           t == threads[c].transfer
           outbound == threads[c].outbound
<1>1. /\ threads[c].pc = "chunk_failed" /\ UNCHANGED clientVars
      /\ file_routes_mark_forward_failed(s, t, outbound)
      /\ Reply(c, Notify(c)) \/ Return(c)
  BY DEF ChunkFailed, At
<1>2. threads[c].pc \in Handling /\ threads[c].pc \notin Beginning
  BY <1>1 DEF Handling, Beginning
<1>3. t \in TransferIds /\ outbound \in OutboundIds
  BY <1>1, <1>2, HandlerFacts DEF ThreadOk, ThreadRecord
<1>4. OwnersKept /\ [ClientsNext]_clientVars
  BY <1>1, RegistryUntouched
<1>5. RoutesTouched(s) /\ RoutesNext
  BY <1>1, <1>2, <1>3, HandlerFacts, CloseTouches
     DEF RoutesNext, CallForwardFailed
<1>6. Ends(c)
  BY <1>1, <1>2, HandlerFacts, NotifyEnds DEF Ends
<1>7. QED
  BY <1>2, <1>4, <1>5, <1>6, HandlerEnds

\* A handler at a call that sends a frame to its target.
LEMMA SendingFacts ==
    ASSUME RelayInv, NEW c \in Conns,
           threads[c].pc \in {"begin_send", "chunk_send", "end_send"}
    PROVE  /\ threads[c].target \in ClientIds
           /\ FileFrame("BEGIN", threads[c].outbound, threads[c].size)
                 \in RelayFrames \/ threads[c].pc # "begin_send"
           /\ FileFrame("CHUNK", threads[c].outbound, threads[c].size)
                 \in RelayFrames \/ threads[c].pc # "chunk_send"
           /\ FileFrame("END", threads[c].outbound, 0) \in RelayFrames
<1>1. ThreadOk(threads[c])
  BY DEF RelayInv, ThreadsOk
<1>2. /\ threads[c].target \in ClientIds /\ threads[c].outbound \in OutboundIds
      /\ threads[c].pc = "begin_send" => threads[c].size \in FileSizes
      /\ threads[c].pc = "chunk_send" => threads[c].size \in ChunkLengths
  BY <1>1 DEF ThreadOk, ThreadRecord, Beginning
<1>3. QED
  BY <1>2, FramesOk

LEMMA ChunkSendProgress ==
    ASSUME RelayInv, NEW c \in Conns, ChunkSend(c)
    PROVE  Progress
<1> DEFINE frame == FileFrame("CHUNK", threads[c].outbound, threads[c].size)
           target == threads[c].target
<1>1. threads[c].pc = "chunk_send" /\ UNCHANGED routeVars
  BY DEF ChunkSend, At
<1>2. threads[c].pc \in Handling /\ threads[c].pc \notin Beginning
  BY <1>1 DEF Handling, Beginning
<1>3. target \in ClientIds /\ frame \in RelayFrames
  BY <1>1, SendingFacts
<1>4. /\ \/ SendSucceeds(target, frame) /\ Return(c)
         \/ SendFails(target) /\ Goto(c, "chunk_failed")
  BY DEF ChunkSend
<1> HIDE DEF frame
<1>5. OwnersKept /\ [ClientsNext]_clientVars
  BY <1>2, <1>3, <1>4, HandlerFacts, SendIsQueueing
<1>6. RoutesTouched(threads[c].id) /\ [RoutesNext]_routeVars
  BY <1>1, NoRouteTouched DEF routeVars
<1>7. CASE Return(c)
  BY <1>2, <1>5, <1>6, <1>7, HandlerEnds DEF Ends
<1>8. CASE Goto(c, "chunk_failed")
  <2>1. PICK th : /\ Continues(c, th) /\ th.pc = "chunk_failed"
                  /\ th.target = target
    BY <1>1, <1>2, <1>8, HandlerFacts, GotoContinues
  <2>2. Known(th.target) /\ th.pc \notin Beginning
    BY <1>2, <2>1, HandlerFacts DEF KnownIds, Beginning
  <2>3. QED
    BY <1>2, <1>5, <1>6, <2>1, <2>2, HandlerProgress
<1>9. QED
  BY <1>4, <1>7, <1>8

LEMMA EndSendProgress ==
    ASSUME RelayInv, NEW c \in Conns, EndSend(c)
    PROVE  Progress
<1> DEFINE frame == FileFrame("END", threads[c].outbound, 0)
           target == threads[c].target
<1>1. threads[c].pc = "end_send" /\ UNCHANGED routeVars
  BY DEF EndSend, At
<1>2. threads[c].pc \in Handling /\ threads[c].pc \notin Beginning
  BY <1>1 DEF Handling, Beginning
<1>3. target \in ClientIds /\ frame \in RelayFrames
  BY <1>1, SendingFacts
<1>4. /\ \/ SendSucceeds(target, frame) /\ Return(c)
         \/ SendFails(target) /\ Reply(c, Notify(c))
  BY DEF EndSend
<1> HIDE DEF frame
<1>5. OwnersKept /\ [ClientsNext]_clientVars
  BY <1>2, <1>3, <1>4, HandlerFacts, SendIsQueueing
<1>6. RoutesTouched(threads[c].id) /\ [RoutesNext]_routeVars
  BY <1>1, NoRouteTouched DEF routeVars
<1>7. Ends(c)
  BY <1>2, <1>4, HandlerFacts, NotifyEnds DEF Ends
<1>8. QED
  BY <1>2, <1>5, <1>6, <1>7, HandlerEnds

\* A client to which a frame is queued has a thread, which will purge its
\* routes.
LEMMA RecipientHasThread ==
    ASSUME ThreadsOk, OwnersInv, NEW id, NEW frame, SendSucceeds(id, frame)
    PROVE  HasThread(id)
<1>1. ReadySlots(id) # {}
  BY DEF SendSucceeds, Enqueue, QueueResult
<1>2. PICK i \in ClientSlots : clients[i].active /\ clients[i].id = id
  BY <1>1 DEF ReadySlots, ActiveSlots
<1>3. PICK d \in Conns : threads[d].pc \in Owning /\ threads[d].slot = i
  BY <1>2 DEF OwnersInv
<1>4. threads[d].id = id
  BY <1>2, <1>3 DEF OwnersInv
<1>5. threads[d].pc \notin Gone
  BY <1>3 DEF Owning, Handling, Gone
<1>6. QED
  BY <1>4, <1>5 DEF HasThread

LEMMA BeginSendProgress ==
    ASSUME RelayInv, NEW c \in Conns, BeginSend(c)
    PROVE  Progress
<1> DEFINE frame == FileFrame("BEGIN", threads[c].outbound, threads[c].size)
           target == threads[c].target
<1>1. threads[c].pc = "begin_send" /\ UNCHANGED routeVars
  BY DEF BeginSend, At
<1>2. threads[c].pc \in Handling /\ threads[c].pc \in Beginning
  BY <1>1 DEF Handling, Beginning
<1>3. target \in ClientIds /\ frame \in RelayFrames
  BY <1>1, SendingFacts
<1>4. \/ SendSucceeds(target, frame) /\ Return(c)
      \/ SendFails(target) /\ Goto(c, "begin_failed")
  BY DEF BeginSend
<1> HIDE DEF frame
<1>5. OwnersKept /\ [ClientsNext]_clientVars
  BY <1>2, <1>3, <1>4, HandlerFacts, SendIsQueueing
<1>6. RoutesTouched(threads[c].id) /\ [RoutesNext]_routeVars
  BY <1>1, NoRouteTouched DEF routeVars
<1>7. CASE SendSucceeds(target, frame) /\ Return(c)
  <2>1. HasThread(target)
    BY <1>2, <1>7, HandlerFacts, RecipientHasThread
  <2>2. \A i \in RouteSlots :
           /\ routes'[i].mode = "live"
           /\ routes'[i].sender_id = threads[c].id
           /\ routes'[i].source_transfer_id = threads[c].transfer
           => HasThread(routes'[i].target_id)
    BY <1>1, <1>2, <2>1, HandlerFacts DEF BeginTargets, IsLive, routeVars
  <2>3. QED
    BY <1>2, <1>5, <1>6, <1>7, <2>2, HandlerEnds DEF Ends
<1>8. CASE Goto(c, "begin_failed")
  <2>1. PICK th : /\ Continues(c, th) /\ th.pc = "begin_failed"
                  /\ th.transfer = threads[c].transfer /\ th.target = target
    BY <1>1, <1>2, <1>8, HandlerFacts, GotoContinues
  <2>2. Known(th.target) /\ th.pc \in Beginning
    BY <1>2, <2>1, HandlerFacts DEF KnownIds, Beginning
  <2>3. QED
    BY <1>2, <1>5, <1>6, <2>1, <2>2, HandlerProgress
<1>9. QED
  BY <1>4, <1>7, <1>8

LEMMA BeginFailedProgress ==
    ASSUME RelayInv, NEW c \in Conns, BeginFailed(c)
    PROVE  Progress
<1> DEFINE s == threads[c].id
           t == threads[c].transfer
<1>1. /\ threads[c].pc = "begin_failed" /\ UNCHANGED clientVars
      /\ file_routes_quarantine(s, t, TRUE) /\ Reply(c, Notify(c))
  BY Zenon DEF BeginFailed, At
<1>2. threads[c].pc \in Handling /\ threads[c].pc \in Beginning
  BY <1>1 DEF Handling, Beginning
<1>3. t \in TransferIds
  BY <1>2, HandlerFacts DEF ThreadOk
<1>4. OwnersKept /\ [ClientsNext]_clientVars
  BY <1>1, RegistryUntouched
<1>5. /\ RoutesTouched(s)
      /\ \A i \in RouteSlots :
            routes'[i].mode = "live" /\ routes'[i].sender_id = s
               => routes'[i].source_transfer_id # t
  BY Zenon, <1>1, <1>2, HandlerFacts, QuarantineTouches
<1>6. RoutesNext
  BY ZenonT(40), <1>1, <1>2, <1>3, HandlerFacts DEF RoutesNext, CallQuarantine
<1>7. Ends(c)
  BY <1>1, <1>2, HandlerFacts, NotifyEnds
<1>8. QED
  BY <1>2, <1>4, <1>5, <1>6, <1>7, HandlerEnds
\* The step that adds a route that forwards: until its begin frame is queued
\* the thread that added it answers for it.
LEMMA RouteAdded ==
    ASSUME RelayInv, NEW c \in Conns, NEW th, threads[c].pc = "begin_add",
           Continues(c, th), th.pc = "begin_send",
           th.transfer = threads[c].transfer, th.target = threads[c].target,
           OwnersKept, RoutesNext, [ClientsNext]_clientVars,
           NEW i \in RouteSlots, NEW route, routes'[i] = route,
           route.mode = "live", route.sender_id = threads[c].id,
           route.source_transfer_id = th.transfer, route.target_id = th.target,
           \A j \in RouteSlots \ {i} : routes'[j] = routes[j],
           \A j \in RouteSlots : j \notin RoutesFor(threads[c].id, th.transfer)
    PROVE  Progress
<1>1. /\ threads[c].pc \in Handling /\ threads[c].pc \notin Beginning
      /\ th.pc \in Beginning /\ th.pc \notin Gone /\ th.pc # "welcome"
  BY DEF Handling, Beginning, Gone
<1>2. /\ ThreadsOk /\ OwnersInv /\ NoOrphanRoute /\ BeginTargets /\ KnownIds
      /\ threads[c].id \in ClientIds /\ ClientsInv
  BY <1>1, HandlerFacts DEF RelayInv
<1>3. /\ threads'[c] = th /\ ThreadsOk' /\ OwnersInv'
      /\ \A d \in Conns \ {c} : threads'[d] = threads[d]
      /\ th.id = threads[c].id
  BY ZenonT(40), <1>1, <1>2, OneThread, HandlerKeepsOwners DEF Continues
<1>4. ASSUME NEW id, ServedIn(threads, id) PROVE ServedIn(threads', id)
  BY <1>1, <1>3, <1>4 DEF ServedIn
<1>5. NoOrphanRoute'
  <2> SUFFICES ASSUME NEW j \in RouteSlots, routes'[j].mode # "free"
               PROVE  KeptIn(threads', routes'[j])
    BY OrphansNext
  <2>1. CASE j = i
    <3>1. ServedIn(threads', route.sender_id) /\ BegunIn(threads', route)
      BY <1>1, <1>3 DEF ServedIn, BegunIn
    <3>2. QED
      BY <2>1, <3>1 DEF KeptIn
  <2>2. CASE j # i
    <3>1. routes'[j] = routes[j] /\ KeptIn(threads, routes[j])
      BY <1>2, <2>2, OrphansNow
    <3>2. ASSUME BegunIn(threads, routes[j]) PROVE BegunIn(threads', routes[j])
      BY <1>1, <1>3, <3>2 DEF BegunIn
    <3>3. QED
      BY <1>4, <3>1, <3>2 DEF KeptIn
  <2>3. QED
    BY <2>1, <2>2
<1>6. BeginTargets'
  <2> SUFFICES ASSUME NEW d \in Conns, NEW j \in RouteSlots,
                      threads'[d].pc \in Beginning, routes'[j].mode = "live",
                      routes'[j].sender_id = threads'[d].id,
                      routes'[j].source_transfer_id = threads'[d].transfer
               PROVE  routes'[j].target_id = threads'[d].target
    BY DEF BeginTargets, IsLive
  <2>1. CASE d = c /\ j = i
    BY <1>3, <2>1
  <2>2. CASE d = c /\ j # i
    BY <1>3, <2>2 DEF RoutesFor
  <2>3. CASE d # c /\ j = i
    <3>1. threads[d].id = threads[c].id /\ threads[c].pc \in Named
      BY <1>1, <1>3, <2>3 DEF Named, Owning
    <3>2. QED
      BY <1>2, <2>3, <3>1 DEF OwnersInv
  <2>4. CASE d # c /\ j # i
    BY <1>2, <1>3, <2>4 DEF BeginTargets, IsLive
  <2>5. QED
    BY <2>1, <2>2, <2>3, <2>4
<1>7. KnownIds'
  <2>1. \A id : Known(id) => Known(id)'
    BY ZenonT(40), <1>1, <1>2, StaysKnown DEF Continues, OwnersKept
  <2>2. Known(threads[c].id) /\ Known(th.target)
    BY <1>1, <1>2, HandlerIsKnown DEF KnownIds
  <2>3. ASSUME NEW d \in Conns PROVE Known(threads'[d].target)
    BY <1>2, <1>3, <2>2 DEF KnownIds
  <2>4. ASSUME NEW j \in RouteSlots
        PROVE  /\ Known(routes'[j].sender_id) /\ Known(routes'[j].target_id)
               /\ routes'[j].mode # "free" => routes'[j].sender_id \in ClientIds
    BY <1>2, <2>2 DEF KnownIds
  <2>5. QED
    BY <2>1, <2>3, <2>4 DEF KnownIds, Known
<1>8. QED
  BY <1>3, <1>5, <1>6, <1>7 DEF Progress

LEMMA BeginAddProgress ==
    ASSUME RelayInv, NEW c \in Conns, BeginAdd(c)
    PROVE  Progress
<1> DEFINE old == threads[c]
           s == old.id
           t == old.transfer
           target == old.target
           discard == target \in {INVALID_CLIENT_ID, s}
           result == AddResult(s, t, discard)
<1>1. /\ old.pc = "begin_add" /\ UNCHANGED clientVars
      /\ file_routes_add(s, t, target, old.size, discard)
  BY DEF BeginAdd, At
<1>2. old.pc \in Handling /\ old.pc \notin Beginning
  BY <1>1 DEF Handling, Beginning
<1>3. /\ t \in TransferIds /\ old.size \in FileSizes /\ s \in ClientIds
      /\ target \in ClientIds \union {INVALID_CLIENT_ID}
      /\ old \in ThreadRecord /\ RoutesInv /\ Known(target)
  BY <1>1, <1>2, HandlerFacts DEF ThreadOk, ThreadRecord, KnownIds
<1>4. OwnersKept /\ [ClientsNext]_clientVars
  BY <1>1, RegistryUntouched
<1>5. RoutesNext
  BY ZenonT(40), <1>1, <1>3 DEF RoutesNext, CallAdd
<1>6. CASE result = "READY"
  <2> DEFINE outbound == allocate_outbound_id
             th == [old EXCEPT !.pc = "begin_send", !.outbound = outbound]
             route == LiveRoute(s, t, target, old.size, outbound)
  <2>1. threads' = [threads EXCEPT ![c].pc = "begin_send",
                                   ![c].outbound = allocate_outbound_id]
    BY <1>6 DEF BeginAdd
  <2>2. threads' = [threads EXCEPT ![c] = th]
    BY ZenonT(40), <1>3, <2>1 DEF ThreadRecord
  <2>3. outbound \in OutboundIds
    BY <1>3, AllocatedId DEF RoutesInv
  <2>4. PICK i \in RouteSlots :
           /\ routes'[i] = route
           /\ \A j \in RouteSlots \ {i} : routes'[j] = routes[j]
    BY <1>1, <1>3, <1>6, AddTouches
  <2>5. /\ route.mode = "live" /\ route.sender_id = s
        /\ route.source_transfer_id = t /\ route.target_id = target
    BY DEF LiveRoute
  <2>6. /\ \A j \in RouteSlots : j \notin RoutesFor(s, t)
        /\ target \in ClientIds
    BY <1>3, <1>6 DEF AddResult, HasRoute
  <2> HIDE DEF old, outbound
  <2>7. /\ th \in ThreadRecord /\ th.pc = "begin_send" /\ th.id = old.id
        /\ th.slot = old.slot /\ th.transfer = old.transfer
        /\ th.target = old.target /\ th.size = old.size
    BY Zenon, <1>3, <2>3 DEF ThreadRecord, Named, Owning, Handling
  <2> HIDE DEF th, route
  <2>8. Continues(c, th)
    BY ZenonT(40), <1>2, <1>3, <2>2, <2>6, <2>7, HandlerFacts, CallContinues
       DEF old
  <2>9. /\ threads[c].pc = "begin_add" /\ th.pc = "begin_send"
        /\ th.transfer = threads[c].transfer /\ th.target = threads[c].target
    BY <1>1, <2>7 DEF old
  <2>10. /\ route.sender_id = threads[c].id
         /\ route.source_transfer_id = th.transfer
         /\ route.target_id = th.target
         /\ \A j \in RouteSlots : j \notin RoutesFor(threads[c].id, th.transfer)
    BY <2>5, <2>6, <2>7 DEF old
  <2> HIDE DEF s, t, target
  <2>11. QED
    BY ZenonT(40), <1>4, <1>5, <2>4, <2>5, <2>8, <2>9, <2>10, RouteAdded
<1>7. CASE result # "READY"
  <2>1. RoutesTouched(s)
    BY <1>1, <1>3, <1>7, AddTouches
  <2>2. Ends(c)
    BY <1>3, <1>7, NotifyEnds, RejectEnds DEF BeginAdd
  <2>3. QED
    BY <1>2, <1>4, <1>5, <2>1, <2>2, HandlerEnds
<1>8. QED
  BY <1>6, <1>7
\* Sending the first of the messages that are left.
LEMMA OneLess ==
    ASSUME NEW todo \in Todos, DOMAIN todo # {}
    PROVE  LET next == Min(DOMAIN todo)
               left == Restrict(todo, DOMAIN todo \ {next})
           IN  /\ todo[next] \in Message
               /\ left \in Todos
               /\ left # <<>> => DOMAIN left # {}
<1> DEFINE next == Min(DOMAIN todo)
           left == Restrict(todo, DOMAIN todo \ {next})
<1>1. PICK D \in SUBSET Nat : todo \in [D -> Message]
  BY DEF Todos
<1>2. next \in D
  BY <1>1, MinIsLeast
<1>3. left \in [D \ {next} -> Message]
  BY Zenon, <1>1, <1>2 DEF Restrict
<1>4. D \ {next} \in SUBSET Nat
  BY ZenonT(40), <1>1
<1> HIDE DEF next, left
<1>5. left \in Todos
  BY <1>3, <1>4 DEF Todos
<1>6. QED
  BY <1>1, <1>2, <1>5, SomethingTodo DEF next, left

LEMMA SendNextProgress ==
    ASSUME RelayInv, NEW c \in Conns, SendNext(c)
    PROVE  Progress
<1> DEFINE old == threads[c]
           todo == old.todo
           next == Min(DOMAIN todo)
           left == Restrict(todo, DOMAIN todo \ {next})
           th == [old EXCEPT !.todo = left]
<1>1. ClientsInv /\ ThreadsOk /\ OwnersInv /\ KnownIds
  BY DEF RelayInv
<1>2. /\ old.pc \in {"replying", "aborting"} /\ UNCHANGED routeVars
      /\ \/ SendSucceeds(todo[next].to, todo[next].frame)
         \/ SendFails(todo[next].to)
      /\ IF left # <<>> THEN threads' = [threads EXCEPT ![c].todo = left]
         ELSE IF old.pc = "replying" THEN Return(c)
         ELSE threads' = Closed(c)
  BY DEF SendNext, At
<1>3. ThreadOk(old) /\ todo \in Todos /\ DOMAIN todo # {}
  BY <1>1, <1>2 DEF ThreadsOk, ThreadOk, ThreadRecord
<1>4. /\ todo[next] \in Message /\ left \in Todos
      /\ left # <<>> => DOMAIN left # {}
  BY Zenon, <1>3, OneLess
<1>5. OwnersKept /\ [ClientsNext]_clientVars
  BY <1>1, <1>2, <1>4, SendIsQueueing DEF Message
<1>6. /\ RoutesTouched(old.id) /\ [RoutesNext]_routeVars
      /\ UNCHANGED next_client_id /\ old.pc \notin Beginning
  BY <1>2, <1>5, NoRouteTouched DEF routeVars, OwnersKept, Beginning
<1>7. CASE left # <<>>
  <2>1. threads' = [threads EXCEPT ![c] = th]
    BY <1>2, <1>7
  <2> HIDE DEF old, left
  <2>2. /\ th \in ThreadRecord /\ th.pc = old.pc /\ th.id = old.id
        /\ th.slot = old.slot /\ th.target = old.target /\ th.todo = left
    BY <1>3, <1>4 DEF ThreadOk, ThreadRecord
  <2> HIDE DEF th
  <2>3. ThreadOk(th)
    BY <1>2, <1>3, <1>4, <1>7, <2>2 DEF ThreadOk, Beginning
  <2>4. Known(th.target) /\ th.pc \notin Beginning
    BY <1>1, <1>6, <2>2 DEF KnownIds, old
  <2>5. CASE old.pc = "replying"
    <3>1. old.pc \in Handling
      BY <2>5 DEF Handling
    <3>2. Continues(c, th)
      BY <2>1, <2>2, <2>3, <3>1 DEF Continues, old
    <3>3. QED
      BY <1>5, <1>6, <2>4, <3>1, <3>2, HandlerProgress DEF old
  <2>6. CASE old.pc = "aborting"
    <3>1. /\ old.pc \notin Owning /\ old.pc \in Gone /\ th.pc # "welcome"
      BY <2>2, <2>6 DEF Owning, Handling, Gone
    <3>2. OwnersInv'
      BY Zenon, <1>1, <1>5, <2>1, <2>2, <2>3, <3>1, GoneKeepsOwners DEF old
    <3>3. \A id : Known(id) => Known(id)'
      BY ZenonT(40), <1>1, <1>6, <2>1, <3>1, StaysKnown
    <3>4. QED
      BY Zenon, <1>2, <1>5, <1>6, <2>1, <2>3, <2>4, <3>1, <3>2, <3>3,
         ThreadProgress DEF old
  <2>7. QED
    BY <1>2, <2>5, <2>6
<1>8. CASE left = <<>> /\ old.pc = "replying"
  <2>1. old.pc \in Handling /\ Ends(c)
    BY <1>2, <1>8 DEF Handling, Ends
  <2>2. QED
    BY <1>5, <1>6, <2>1, HandlerEnds
<1>9. CASE left = <<>> /\ old.pc = "aborting"
  <2>1. threads' = Closed(c)
    BY <1>2, <1>9
  <2>2. PICK new : /\ threads' = [threads EXCEPT ![c] = new]
                   /\ ThreadOk(new) /\ new.pc = "closed"
                   /\ new.target = INVALID_CLIENT_ID
    BY <1>1, <2>1, ThreadCloses
  <2>3. /\ old.pc \notin Owning /\ old.pc \in Gone
        /\ new.pc \notin Owning /\ new.pc \notin Named
        /\ new.pc \notin Beginning /\ new.pc # "welcome"
    BY <1>9, <2>2 DEF Owning, Handling, Gone, Named, Beginning
  <2>4. OwnersInv'
    BY Zenon, <1>1, <1>5, <2>2, <2>3, GoneKeepsOwners
  <2>5. Known(new.target) /\ \A id : Known(id) => Known(id)'
    BY ZenonT(40), <1>1, <1>6, <2>2, <2>3, NobodyIsKnown, StaysKnown
  <2>6. QED
    BY ZenonT(40), <1>2, <1>5, <1>6, <2>2, <2>3, <2>4, <2>5, ThreadProgress
<1>10. QED
  BY <1>2, <1>7, <1>8, <1>9

\* The table after file_routes_abort_client: no route of the client is left,
\* and none that forwards to it.
LEMMA RoutesPurged ==
    ASSUME RoutesInv, NEW id \in ClientIds, file_routes_abort_client(id),
           NEW i \in RouteSlots
    PROVE  \/ routes'[i] = FreeRoute
           \/ /\ routes'[i] = DiscardRoute(routes[i].sender_id,
                                           routes[i].source_transfer_id)
              /\ routes[i].mode # "free" /\ routes[i].sender_id # id
           \/ /\ routes'[i] = routes[i]
              /\ routes[i].sender_id # id /\ routes[i].target_id # id
BY DEF file_routes_abort_client, SendsTo, IsLive

LEMMA AbortProgress ==
    ASSUME RelayInv, NEW c \in Conns, Abort(c)
    PROVE  Progress
<1> DEFINE old == threads[c]
           id == old.id
           messages == AbortMessages(id)
<1>1. /\ RoutesInv /\ ClientsInv /\ ThreadsOk /\ OwnersInv /\ NoOrphanRoute
      /\ BeginTargets /\ KnownIds
  BY DEF RelayInv
<1>2. /\ old.pc = "abort" /\ UNCHANGED clientVars
      /\ file_routes_abort_client(id)
      /\ threads' = IF messages = <<>> THEN Closed(c)
                    ELSE [threads EXCEPT ![c].pc = "aborting",
                                         ![c].todo = messages]
  BY DEF Abort, At
<1>3. /\ ThreadOk(old) /\ old \in ThreadRecord /\ id \in ClientIds
      /\ old.pc \notin Owning /\ old.pc \notin Beginning /\ old.pc \in Named
  BY <1>1, <1>2 DEF ThreadsOk, ThreadOk, Named, Owning, Handling, Beginning
<1>4. messages \in Todos
  BY <1>1, <1>3, AbortOk
<1>5. PICK th : /\ threads' = [threads EXCEPT ![c] = th] /\ ThreadOk(th)
                /\ th.pc \in Gone /\ Known(th.target)
                /\ th.pc \in Named => th.id = id
  <2>1. CASE messages = <<>>
    <3>1. PICK new : /\ threads' = [threads EXCEPT ![c] = new]
                     /\ ThreadOk(new) /\ new.pc = "closed"
                     /\ new.target = INVALID_CLIENT_ID
      BY <1>1, <1>2, <2>1, ThreadCloses
    <3>2. new.pc \in Gone /\ new.pc \notin Named /\ Known(new.target)
      BY <1>1, <3>1, NobodyIsKnown DEF Gone, Named, Owning, Handling
    <3>3. QED
      BY Zenon, <3>1, <3>2
  <2>2. CASE messages # <<>>
    <3> DEFINE new == [old EXCEPT !.pc = "aborting", !.todo = messages]
    <3>1. threads' = [threads EXCEPT ![c] = new]
      BY ZenonT(40), <1>2, <1>3, <2>2 DEF ThreadRecord
    <3>2. DOMAIN messages # {}
      BY <1>4, <2>2, SomethingTodo
    <3>3. Known(old.target)
      BY <1>1 DEF KnownIds
    <3> HIDE DEF old, messages
    <3>4. /\ new \in ThreadRecord /\ new.pc = "aborting" /\ new.id = old.id
          /\ new.target = old.target /\ new.todo = messages
      BY Zenon, <1>3, <1>4 DEF ThreadRecord, Named
    <3> HIDE DEF new
    <3>5. ThreadOk(new)
      BY <1>3, <3>2, <3>4 DEF ThreadOk, Named, Beginning
    <3>6. QED
      BY Zenon, <3>1, <3>3, <3>4, <3>5 DEF Gone
  <2>3. QED
    BY <2>1, <2>2
<1>6. /\ threads'[c] = th /\ ThreadsOk'
      /\ \A d \in Conns \ {c} : threads'[d] = threads[d]
  BY Zenon, <1>1, <1>5, OneThread
<1>7. /\ th.pc \notin Owning /\ th.pc \notin Beginning /\ th.pc # "welcome"
  BY <1>5 DEF Gone, Owning, Handling, Beginning
<1>8. OwnersKept /\ [ClientsNext]_clientVars /\ UNCHANGED next_client_id
  BY <1>2, RegistryUntouched DEF clientVars
<1>9. OwnersInv'
  BY Zenon, <1>1, <1>3, <1>5, <1>7, <1>8, GoneKeepsOwners
<1>10. \A x : Known(x) => Known(x)'
  BY ZenonT(40), <1>1, <1>5, <1>7, <1>8, StaysKnown
<1>11. RoutesNext
  BY <1>2, <1>3 DEF RoutesNext
<1> HIDE DEF old, messages
<1>12. ASSUME NEW i \in RouteSlots
       PROVE  \/ routes'[i] = FreeRoute
              \/ /\ routes'[i] = DiscardRoute(routes[i].sender_id,
                                              routes[i].source_transfer_id)
                 /\ routes[i].mode # "free" /\ routes[i].sender_id # id
              \/ /\ routes'[i] = routes[i]
                 /\ routes[i].sender_id # id /\ routes[i].target_id # id
  BY <1>1, <1>2, <1>3, RoutesPurged
<1>13. ASSUME NEW x, ServedIn(threads, x), x # id PROVE ServedIn(threads', x)
  BY <1>6, <1>13 DEF ServedIn, old
<1>14. NoOrphanRoute'
  <2> SUFFICES ASSUME NEW i \in RouteSlots, routes'[i].mode # "free"
               PROVE  KeptIn(threads', routes'[i])
    BY OrphansNext
  <2>1. /\ routes'[i].sender_id = routes[i].sender_id
        /\ routes[i].mode # "free" /\ routes[i].sender_id # id
        /\ routes'[i].mode = "live" =>
              routes'[i] = routes[i] /\ routes[i].target_id # id
    BY <1>12, RouteFields
  <2>2. KeptIn(threads, routes[i])
    BY <1>1, <2>1, OrphansNow
  <2>3. ServedIn(threads', routes'[i].sender_id)
    BY <1>13, <2>1, <2>2 DEF KeptIn
  <2>4. ASSUME BegunIn(threads, routes[i]) PROVE BegunIn(threads', routes[i])
    BY <1>3, <1>6, <2>4 DEF BegunIn, old
  <2>5. CASE routes'[i].mode = "live"
    BY <1>13, <2>1, <2>2, <2>3, <2>4, <2>5 DEF KeptIn
  <2>6. QED
    BY <2>3, <2>5 DEF KeptIn
<1>15. BeginTargets'
  <2> SUFFICES ASSUME NEW d \in Conns, NEW i \in RouteSlots,
                      threads'[d].pc \in Beginning, routes'[i].mode = "live",
                      routes'[i].sender_id = threads'[d].id,
                      routes'[i].source_transfer_id = threads'[d].transfer
               PROVE  routes'[i].target_id = threads'[d].target
    BY DEF BeginTargets, IsLive
  <2>1. routes'[i] = routes[i] /\ threads'[d] = threads[d]
    BY <1>6, <1>7, <1>12, RouteFields
  <2>2. QED
    BY <1>1, <2>1 DEF BeginTargets, IsLive
<1>16. KnownIds'
  <2>1. ASSUME NEW d \in Conns PROVE Known(threads'[d].target)
    BY <1>1, <1>5, <1>6 DEF KnownIds
  <2>2. Known(INVALID_CLIENT_ID)
    BY <1>1, NobodyIsKnown
  <2>3. ASSUME NEW i \in RouteSlots
        PROVE  /\ Known(routes'[i].sender_id) /\ Known(routes'[i].target_id)
               /\ routes'[i].mode # "free" => routes'[i].sender_id \in ClientIds
    <3>1. CASE routes'[i] = FreeRoute
      BY <2>2, <3>1, RouteFields
    <3>2. CASE routes[i].mode # "free"
               /\ routes'[i] = DiscardRoute(routes[i].sender_id,
                                            routes[i].source_transfer_id)
      BY <1>1, <2>2, <3>2, RouteFields DEF KnownIds
    <3>3. CASE routes'[i] = routes[i]
      BY <1>1, <3>3 DEF KnownIds
    <3>4. QED
      BY ZenonT(40), <1>12, <3>1, <3>2, <3>3
  <2>4. QED
    BY <1>10, <2>1, <2>3 DEF KnownIds, Known
<1>17. QED
  BY <1>6, <1>8, <1>9, <1>11, <1>14, <1>15, <1>16 DEF Progress

-----------------------------------------------------------------------------
(***************************************************************************)
(* The server as a whole.                                                  *)
(***************************************************************************)
LEMMA RelayInitHasInv == RelayInit => RelayInv
<1> SUFFICES ASSUME RelayInit PROVE RelayInv
  OBVIOUS
<1>1. RoutesInv /\ ClientsInv
  BY InitHasInv, ClientsInitHasInv DEF RelayInit
<1>2. ASSUME NEW c \in Conns
      PROVE  /\ threads[c] \in ThreadRecord /\ threads[c].pc = "login"
             /\ threads[c].id = INVALID_CLIENT_ID
             /\ threads[c].target = INVALID_CLIENT_ID
  <2>1. PICK slot \in ClientSlots : slot = 0
    BY ClientsAssumption DEF ClientSlots
  <2>2. PICK id \in ClientIds \union {INVALID_CLIENT_ID} :
           id = INVALID_CLIENT_ID
    OBVIOUS
  <2>3. PICK budget \in Int : budget = FrameBudget[c]
    BY <1>2, RelayAssumption
  <2>4. threads[c] = Thread("login", slot, id, budget)
    BY <2>1, <2>2, <2>3 DEF RelayInit
  <2>5. PICK pc \in Named \union {"login", "closed"} : pc = "login"
    OBVIOUS
  <2>6. /\ Thread(pc, slot, id, budget) \in ThreadRecord
        /\ Thread(pc, slot, id, budget).pc = pc
        /\ Thread(pc, slot, id, budget).id = id
        /\ Thread(pc, slot, id, budget).target = INVALID_CLIENT_ID
    BY FreshThread
  <2>7. QED
    BY <2>2, <2>4, <2>5, <2>6
<1>3. ThreadsOk
  <2>1. threads = [c \in Conns |-> threads[c]]
    BY DEF RelayInit
  <2>2. INVALID_CLIENT_ID \notin ClientIds
    BY Zenon, ClientIdsAssumption
  <2>3. QED
    BY <1>2, <2>1, <2>2
       DEF ThreadsOk, ThreadOk, Named, Owning, Handling, Beginning
<1>4. /\ \A i \in ClientSlots : ~clients[i].active
      /\ \A i \in RouteSlots : /\ routes[i].mode = "free"
                               /\ routes[i].sender_id = INVALID_CLIENT_ID
                               /\ routes[i].target_id = INVALID_CLIENT_ID
  BY DEF RelayInit, ClientsInit, RoutesInit, FreeClient, FreeRoute
<1>5. OwnersInv
  BY ZenonT(40), <1>2, <1>4 DEF OwnersInv, Named, Owning, Handling
<1>6. NoOrphanRoute /\ BeginTargets
  BY <1>4 DEF NoOrphanRoute, BeginTargets, IsLive
<1>7. KnownIds
  BY <1>1, <1>2, <1>3, <1>4, NobodyIsKnown DEF KnownIds
<1>8. QED
  BY <1>1, <1>3, <1>5, <1>6, <1>7 DEF RelayInv

LEMMA RelayStepProgress ==
    ASSUME RelayInv, RelayNext
    PROVE  Progress
<1>1. PICK c \in Conns : \/ Login(c) \/ LoginFails(c) \/ WelcomeFails(c)
                         \/ Deliver(c) \/ Leave(c) \/ Receive(c)
                         \/ Proceed(c)
  BY DEF RelayNext
<1>2. CASE Receive(c)
  BY <1>2, RecvUnreadableProgress, RecvMalformedProgress, RecvBeginProgress,
     RecvChunkProgress, RecvEndProgress, RecvErrorProgress DEF Receive
<1>3. CASE Proceed(c)
  BY <1>3, WelcomeProgress, LeaveProgress, RemoveProgress, AbortProgress,
     SendNextProgress, BeginAddProgress, BeginSendProgress,
     BeginFailedProgress, ChunkSendProgress, ChunkFailedProgress,
     EndSendProgress DEF Proceed, LeaveOverflowed
<1>4. QED
  BY <1>1, <1>2, <1>3, LoginProgress, LoginFailsProgress,
     WelcomeFailsProgress, DeliverProgress, LeaveProgress

LEMMA RelayStepKeepsInv ==
    ASSUME RelayInv, [RelayNext]_vars
    PROVE  RelayInv' /\ [RoutesNext]_routeVars /\ [ClientsNext]_clientVars
<1>1. CASE UNCHANGED vars
  <2>1. UNCHANGED <<routes, clients, next_client_id, threads>>
        /\ UNCHANGED routeVars /\ UNCHANGED clientVars
    BY <1>1 DEF vars, routeVars, clientVars
  <2>2. RoutesInv' /\ ClientsInv'
    BY <2>1, StepKeepsInv, ClientsStepKeepsInv DEF RelayInv
  <2>3. ThreadsOk' /\ OwnersInv'
    BY <2>1 DEF RelayInv, ThreadsOk, OwnersInv
  <2>4. NoOrphanRoute' /\ BeginTargets' /\ KnownIds'
    BY <2>1 DEF RelayInv, NoOrphanRoute, HasThread, IsLive, BeginTargets,
       KnownIds, Known
  <2>5. QED
    BY <2>1, <2>2, <2>3, <2>4 DEF RelayInv
<1>2. CASE RelayNext
  <2>1. Progress
    BY <1>2, RelayStepProgress
  <2>2. RoutesInv' /\ ClientsInv'
    BY <2>1, StepKeepsInv, ClientsStepKeepsInv DEF RelayInv, Progress
  <2>3. QED
    BY <2>1, <2>2 DEF RelayInv, Progress
<1>3. QED
  BY <1>1, <1>2

\* Whatever clients send, in whatever order the threads of handle_client run
\* and whoever disconnects, no route of the table outlives its sender's
\* connection, and one that forwards leads to a client whose departure is
\* still to be handled: for any number of connections, slots and transfers.
THEOREM RelayLeavesNoRoute == RelaySpec => []NoOrphanRoute
<1>1. RelaySpec => []RelayInv
  BY RelayInitHasInv, RelayStepKeepsInv, PTL DEF RelaySpec
<1>2. RelayInv => NoOrphanRoute
  BY DEF RelayInv
<1>3. QED
  BY <1>1, <1>2, PTL

\* The threads use the table and the registry only as these are specified on
\* their own (a client is activated once, by the thread that logged it in and
\* before anything is queued for it; a recipient that is the sender is asked
\* for as a tombstone), so what holds of either part holds in the server.
THEOREM RelayUsesItsParts ==
    RelaySpec => /\ RoutesSpec /\ ClientsSpec
                 /\ [](OutboundIdsUnique /\ OverflowSealsQueue)
<1>1. RelayInit => RoutesInit /\ ClientsInit
  BY DEF RelayInit
<1>2. RelaySpec => RoutesSpec /\ ClientsSpec
  BY <1>1, RelayInitHasInv, RelayStepKeepsInv, PTL
     DEF RelaySpec, RoutesSpec, ClientsSpec
<1>3. QED
  BY <1>2, RoutesSafe, ClientsSafe, PTL
=============================================================================
