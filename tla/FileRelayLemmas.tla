-------------------------- MODULE FileRelayLemmas --------------------------
(* Two layers under the proofs about the server's relaying of files.        *)
(* First the routing table by itself, for every capacity and id space: what *)
(* its lookups and its allocator return, and the theorems about it.  Then   *)
(* the relay: its invariant, and what a thread's step does to the threads'  *)
(* records, to the registry and to the routing table.                       *)
EXTENDS FileRelay, ClientManagerProofs, FiniteSetTheorems

\* Time limits of the provers for a step.
USE SMTT(6), ZenonT(20), SMTT(40)
-----------------------------------------------------------------------------
(* What the lookups return.                                                  *)

\* find_route_locked returns a slot of the table holding the key.
LEMMA FindRoute ==
    ASSUME NEW s, NEW t, HasRoute(s, t)
    PROVE  /\ find_route(s, t) \in RouteSlots
           /\ routes[find_route(s, t)].mode # "free"
           /\ routes[find_route(s, t)].sender_id = s
           /\ routes[find_route(s, t)].source_transfer_id = t
<1>1. RoutesFor(s, t) \in SUBSET Nat /\ RoutesFor(s, t) # {}
  BY RoutesAssumption DEF RoutesFor, HasRoute, RouteSlots
<1>2. find_route(s, t) \in RoutesFor(s, t)
  BY <1>1, MinIsLeast DEF find_route
<1>3. QED
  BY <1>2 DEF RoutesFor

\* find_free_route_locked returns a free slot of the table.
LEMMA FindFreeRoute ==
    ASSUME FreeSlots # {}
    PROVE  find_free_route \in RouteSlots /\ routes[find_free_route].mode = "free"
<1>1. FreeSlots \in SUBSET Nat
  BY RoutesAssumption DEF FreeSlots, RouteSlots
<1>2. find_free_route \in FreeSlots
  BY <1>1, MinIsLeast DEF find_free_route
<1>3. QED
  BY <1>2 DEF FreeSlots

\* Every id the allocator tries is a nonzero 32-bit id.
LEMMA CandidateType ==
    ASSUME RoutesTypeOK, NEW k \in Nat
    PROVE  Candidate(k) \in OutboundIds \ {0}
<1> DEFINE first == IF next_outbound_transfer_id = 0
                    THEN 1 ELSE next_outbound_transfer_id
           M == OutboundIdSpace - 1
<1>1. first - 1 + k \in Nat /\ M \in Nat /\ M > 0
  BY RoutesAssumption DEF RoutesTypeOK, OutboundIds
<1>2. \A a, b \in Nat : b > 0 => a % b \in 0 .. b - 1
  OBVIOUS
<1> HIDE DEF first
<1>3. (first - 1 + k) % M \in 0 .. M - 1
  BY <1>1, <1>2
<1>4. Candidate(k) = ((first - 1 + k) % M) + 1
  BY DEF Candidate, first
<1>5. QED
  BY <1>1, <1>3, <1>4, RoutesAssumption DEF OutboundIds

\* The allocator returns 0, or a nonzero id that no live route uses, and
\* leaves the counter a 32-bit id.
LEMMA AllocatedId ==
    ASSUME RoutesTypeOK
    PROVE  /\ allocate_outbound_id \in OutboundIds
           /\ allocate_outbound_id # 0 => ~OutboundIdInUse(allocate_outbound_id)
           /\ CounterAfterAllocation \in OutboundIds
<1>1. GoodAttempts \in SUBSET Nat
  BY RoutesAssumption DEF GoodAttempts
<1>2. GoodAttempts # {} => Min(GoodAttempts) \in GoodAttempts
  BY <1>1, MinIsLeast
<1>3. GoodAttempts # {} =>
         /\ Min(GoodAttempts) \in Nat
         /\ ~OutboundIdInUse(Candidate(Min(GoodAttempts)))
  BY <1>1, <1>2 DEF GoodAttempts
<1>4. 0 \in OutboundIds
  BY RoutesAssumption DEF OutboundIds
<1>5. \A a \in OutboundIds : (a + 1) % OutboundIdSpace \in OutboundIds
  <2>1. \A a, b \in Nat : b > 0 => a % b \in 0 .. b - 1
    OBVIOUS
  <2>2. QED
    BY <2>1, RoutesAssumption DEF OutboundIds
<1>6. FILE_ROUTE_CAPACITY \in Nat
  BY RoutesAssumption
<1>7. QED
  BY <1>3, <1>4, <1>5, <1>6, CandidateType
     DEF allocate_outbound_id, CounterAfterAllocation

-----------------------------------------------------------------------------
(* The inductive invariant: each conjunct needs the type invariant, and     *)
(* uniqueness of keys is what makes the slot found by key the only one.     *)
RoutesInv ==
    RoutesTypeOK /\ RouteKeysUnique /\ OutboundIdsUnique /\ LiveRoutesSound

\* Turning a slot into a tombstone for a key that no other slot holds.
LEMMA PutDiscard ==
    ASSUME RoutesInv, NEW s \in ClientIds, NEW t \in TransferIds,
           NEW i \in RouteSlots, RoutesFor(s, t) \subseteq {i},
           routes' = [routes EXCEPT ![i] = DiscardRoute(s, t)],
           next_outbound_transfer_id' \in OutboundIds
    PROVE  RoutesInv'
<1>1. DiscardRoute(s, t) \in FileRoute
  BY RoutesAssumption
     DEF DiscardRoute, FileRoute, OutboundIds, INVALID_CLIENT_ID
<1>2. /\ DiscardRoute(s, t).mode = "discard"
      /\ DiscardRoute(s, t).sender_id = s
      /\ DiscardRoute(s, t).source_transfer_id = t
  BY DEF DiscardRoute
<1> HIDE DEF DiscardRoute
<1>3. RoutesTypeOK'
  BY <1>1 DEF RoutesInv, RoutesTypeOK, RouteSlots
<1>4. RouteKeysUnique'
  BY <1>2 DEF RoutesInv, RoutesTypeOK, RouteKeysUnique, RoutesFor
<1>5. OutboundIdsUnique' /\ LiveRoutesSound'
  BY <1>2 DEF RoutesInv, RoutesTypeOK, OutboundIdsUnique, LiveRoutesSound,
     IsLive
<1>6. QED
  BY <1>3, <1>4, <1>5 DEF RoutesInv

\* Clearing a slot.
LEMMA PutFree ==
    ASSUME RoutesInv, NEW i \in RouteSlots,
           routes' = [routes EXCEPT ![i] = FreeRoute],
           UNCHANGED next_outbound_transfer_id
    PROVE  RoutesInv'
<1>1. FreeRoute \in FileRoute /\ FreeRoute.mode = "free"
  BY RoutesAssumption DEF FreeRoute, FileRoute, OutboundIds, INVALID_CLIENT_ID
<1> HIDE DEF FreeRoute
<1>2. QED
  BY <1>1 DEF RoutesInv, RoutesTypeOK, RouteKeysUnique, OutboundIdsUnique,
              LiveRoutesSound, IsLive, RouteSlots

\* The slot a key is found at is the only one that holds it.
LEMMA FoundIsOnly ==
    ASSUME RoutesInv, NEW s, NEW t, HasRoute(s, t)
    PROVE  RoutesFor(s, t) \subseteq {find_route(s, t)}
BY FindRoute DEF RoutesInv, RouteKeysUnique, RoutesFor

\* file_routes_add preserves the invariant.
LEMMA AddKeepsInv ==
    ASSUME RoutesInv, NEW s \in ClientIds, NEW t \in TransferIds,
           NEW target \in ClientIds \union {INVALID_CLIENT_ID},
           NEW size \in FileSizes,
           NEW discard, discard <=> target \in {INVALID_CLIENT_ID, s},
           file_routes_add(s, t, target, size, discard)
    PROVE  RoutesInv'
<1> DEFINE res == AddResult(s, t, discard)
<1>t. RoutesTypeOK /\ next_outbound_transfer_id \in OutboundIds
  BY DEF RoutesInv, RoutesTypeOK
<1>1. CASE res = "DUPLICATE"
  <2>1. HasRoute(s, t)
    BY <1>1 DEF AddResult
  <2>2. /\ routes' = [routes EXCEPT ![find_route(s, t)] = DiscardRoute(s, t)]
        /\ UNCHANGED next_outbound_transfer_id
    BY <1>1 DEF file_routes_add
  <2>3. QED
    BY ZenonT(40), <2>1, <2>2, <1>t, FindRoute, FoundIsOnly, PutDiscard
<1>2. CASE res = "FULL"
  BY <1>2 DEF file_routes_add, routeVars, RoutesInv, RoutesTypeOK,
              RouteKeysUnique, OutboundIdsUnique, LiveRoutesSound, IsLive
<1>3. CASE res = "DISCARD"
  <2>1. ~HasRoute(s, t) /\ FreeSlots # {}
    BY <1>3 DEF AddResult
  <2>2. /\ routes' = [routes EXCEPT ![find_free_route] = DiscardRoute(s, t)]
        /\ UNCHANGED next_outbound_transfer_id
    BY <1>3 DEF file_routes_add
  <2>3. RoutesFor(s, t) \subseteq {find_free_route}
    BY <2>1 DEF HasRoute
  <2>4. QED
    BY Zenon, <2>1, <2>2, <2>3, <1>t, FindFreeRoute, PutDiscard
<1>4. CASE res = "ID_UNAVAILABLE"
  <2>1. allocate_outbound_id = 0
    BY <1>4 DEF AddResult
  <2>2. routes' = routes /\ next_outbound_transfer_id' = CounterAfterAllocation
    BY <1>4, <2>1 DEF file_routes_add
  <2>3. QED
    BY <2>2, <1>t, AllocatedId
       DEF RoutesInv, RoutesTypeOK, RouteKeysUnique, OutboundIdsUnique,
           LiveRoutesSound, IsLive
<1>5. CASE res = "READY"
  <2> DEFINE f == find_free_route
             id == allocate_outbound_id
             new == LiveRoute(s, t, target, size, id)
  <2>1. ~HasRoute(s, t) /\ FreeSlots # {} /\ ~discard /\ id # 0
    BY <1>5 DEF AddResult
  <2>2. f \in RouteSlots /\ routes[f].mode = "free"
    BY <2>1, FindFreeRoute
  <2>3. /\ id \in OutboundIds
        /\ \A i \in RouteSlots : ~(IsLive(i) /\ routes[i].outbound_transfer_id = id)
        /\ CounterAfterAllocation \in OutboundIds
    BY <2>1, <1>t, AllocatedId DEF OutboundIdInUse
  <2>4. /\ routes' = [routes EXCEPT ![f] = new]
        /\ next_outbound_transfer_id' = CounterAfterAllocation
    BY <1>5, <2>1 DEF file_routes_add
  <2>5. \A i \in RouteSlots : ~(/\ routes[i].mode # "free"
                                /\ routes[i].sender_id = s
                                /\ routes[i].source_transfer_id = t)
    BY <2>1 DEF HasRoute, RoutesFor
  <2>6. /\ new \in FileRoute
        /\ new.mode = "live" /\ new.sender_id = s /\ new.target_id = target
        /\ new.source_transfer_id = t /\ new.outbound_transfer_id = id
        /\ new.forwarded_size = 0 /\ new.expected_size = size
    BY <2>3, RoutesAssumption DEF LiveRoute, FileRoute
  <2>7. s # INVALID_CLIENT_ID /\ target \notin {INVALID_CLIENT_ID, s} /\ size \in Nat
    BY <2>1, RoutesAssumption, ClientIdsAssumption
  <2> HIDE DEF f, id, new
  <2>8. RoutesTypeOK'
    BY <2>2, <2>3, <2>4, <2>6 DEF RoutesInv, RoutesTypeOK
  <2>9. RouteKeysUnique'
    BY <2>2, <2>4, <2>5, <2>6 DEF RoutesInv, RoutesTypeOK, RouteKeysUnique
  <2>10. OutboundIdsUnique'
    BY <2>1, <2>2, <2>3, <2>4, <2>6
       DEF RoutesInv, RoutesTypeOK, OutboundIdsUnique, IsLive
  <2>11. LiveRoutesSound'
    BY <2>2, <2>4, <2>6, <2>7 DEF RoutesInv, RoutesTypeOK, LiveRoutesSound,
       IsLive
  <2>12. QED
    BY <2>8, <2>9, <2>10, <2>11 DEF RoutesInv
<1>6. QED
  BY <1>1, <1>2, <1>3, <1>4, <1>5 DEF file_routes_add

\* file_routes_quarantine preserves the invariant.
LEMMA QuarantineKeepsInv ==
    ASSUME RoutesInv, NEW s \in ClientIds, NEW t \in TransferIds,
           NEW keep_discard, file_routes_quarantine(s, t, keep_discard)
    PROVE  RoutesInv'
<1>t. /\ next_outbound_transfer_id \in OutboundIds
      /\ UNCHANGED next_outbound_transfer_id
  BY DEF RoutesInv, RoutesTypeOK, file_routes_quarantine
<1>1. CASE HasRoute(s, t) /\ keep_discard
  <2>1. routes' = [routes EXCEPT ![find_route(s, t)] = DiscardRoute(s, t)]
    BY <1>1 DEF file_routes_quarantine
  <2>2. QED
    BY ZenonT(40), <1>1, <1>t, <2>1, FindRoute, FoundIsOnly, PutDiscard
<1>2. CASE HasRoute(s, t) /\ ~keep_discard
  <2>1. routes' = [routes EXCEPT ![find_route(s, t)] = FreeRoute]
    BY <1>2 DEF file_routes_quarantine
  <2>2. QED
    BY Zenon, <1>2, <1>t, <2>1, FindRoute, PutFree
<1>3. CASE ~HasRoute(s, t) /\ keep_discard /\ FreeSlots # {}
  <2>1. routes' = [routes EXCEPT ![find_free_route] = DiscardRoute(s, t)]
    BY <1>3 DEF file_routes_quarantine
  <2>2. RoutesFor(s, t) \subseteq {find_free_route}
    BY <1>3 DEF HasRoute
  <2>3. QED
    BY Zenon, <1>3, <1>t, <2>1, <2>2, FindFreeRoute, PutDiscard
<1>4. CASE ~HasRoute(s, t) /\ (~keep_discard \/ FreeSlots = {})
  BY <1>4 DEF file_routes_quarantine, RoutesInv, RoutesTypeOK,
              RouteKeysUnique, OutboundIdsUnique, LiveRoutesSound, IsLive
<1>5. QED
  BY <1>1, <1>2, <1>3, <1>4

\* file_routes_accept_chunk preserves the invariant; the one step that adds
\* to forwarded_size is taken only when the chunk fits.
LEMMA ChunkKeepsInv ==
    ASSUME RoutesInv, NEW s \in ClientIds, NEW t \in TransferIds,
           NEW length \in ChunkLengths, file_routes_accept_chunk(s, t, length)
    PROVE  RoutesInv'
<1> DEFINE res == ChunkResult(s, t, length)
           f == find_route(s, t)
<1>t. /\ next_outbound_transfer_id \in OutboundIds
      /\ UNCHANGED next_outbound_transfer_id
  BY DEF RoutesInv, RoutesTypeOK, file_routes_accept_chunk
<1>0. CASE UNCHANGED routes
  BY <1>0, <1>t DEF RoutesInv, RoutesTypeOK,
              RouteKeysUnique, OutboundIdsUnique, LiveRoutesSound, IsLive
<1>1. CASE res = "MISSING" /\ FreeSlots # {}
  <2>1. ~HasRoute(s, t)
    BY <1>1 DEF ChunkResult
  <2>2. routes' = [routes EXCEPT ![find_free_route] = DiscardRoute(s, t)]
    BY <1>1 DEF file_routes_accept_chunk
  <2>3. RoutesFor(s, t) \subseteq {find_free_route}
    BY <2>1 DEF HasRoute
  <2>4. QED
    BY Zenon, <1>1, <1>t, <2>2, <2>3, FindFreeRoute, PutDiscard
<1>2. CASE res = "OVERRUN"
  <2>1. HasRoute(s, t)
    BY <1>2 DEF ChunkResult
  <2>2. routes' = [routes EXCEPT ![f] = DiscardRoute(s, t)]
    BY <1>2 DEF file_routes_accept_chunk
  <2>3. QED
    BY ZenonT(40), <1>t, <2>1, <2>2, FindRoute, FoundIsOnly, PutDiscard
<1>3. CASE res = "READY"
  <2>1. HasRoute(s, t) /\ IsLive(f) /\ ~Overruns(f, length)
    BY <1>3 DEF ChunkResult
  <2>2. f \in RouteSlots
    BY <2>1, FindRoute
  <2>3. routes' = [routes EXCEPT ![f].forwarded_size = @ + length]
    BY <1>3 DEF file_routes_accept_chunk
  <2>4. routes[f] \in FileRoute /\ length \in Nat
    BY <2>2, RoutesAssumption DEF RoutesInv, RoutesTypeOK
  <2>5. /\ routes[f].forwarded_size \in Nat
        /\ routes[f].expected_size \in Nat
        /\ routes[f].forwarded_size + length <= routes[f].expected_size
    <3>1. routes[f].forwarded_size \in Nat /\ routes[f].expected_size \in Nat
      <4>1. /\ routes[f].forwarded_size \in Nat
            /\ routes[f].expected_size \in FileSizes \union {0}
        BY <2>4 DEF FileRoute
      <4>2. FileSizes \union {0} \subseteq Nat
        BY RoutesAssumption
      <4>3. QED
        BY <4>1, <4>2
    <3>2. /\ ~(routes[f].forwarded_size > routes[f].expected_size)
          /\ ~(length > routes[f].expected_size - routes[f].forwarded_size)
      BY <2>1 DEF Overruns
    <3>3. QED
      BY <2>4, <3>1, <3>2
  <2> HIDE DEF f
  <2>6. /\ routes'[f] = [routes[f] EXCEPT !.forwarded_size = @ + length]
        /\ \A i \in RouteSlots : i # f => routes'[i] = routes[i]
        /\ routes' = [routes EXCEPT ![f] = routes'[f]]
    BY <2>2, <2>3 DEF RoutesInv, RoutesTypeOK
  <2>7. /\ routes'[f] \in FileRoute
        /\ routes'[f].mode = routes[f].mode
        /\ routes'[f].sender_id = routes[f].sender_id
        /\ routes'[f].target_id = routes[f].target_id
        /\ routes'[f].source_transfer_id = routes[f].source_transfer_id
        /\ routes'[f].outbound_transfer_id = routes[f].outbound_transfer_id
        /\ routes'[f].expected_size = routes[f].expected_size
        /\ routes'[f].forwarded_size = routes[f].forwarded_size + length
    BY <2>4, <2>5, <2>6 DEF FileRoute
  <2>8. \A i \in RouteSlots :
           /\ routes'[i].mode = routes[i].mode
           /\ routes'[i].sender_id = routes[i].sender_id
           /\ routes'[i].target_id = routes[i].target_id
           /\ routes'[i].source_transfer_id = routes[i].source_transfer_id
           /\ routes'[i].outbound_transfer_id = routes[i].outbound_transfer_id
    BY ZenonT(40), <2>6, <2>7
  <2>9. RoutesTypeOK'
    BY <1>t, <2>2, <2>6, <2>7 DEF RoutesInv, RoutesTypeOK
  <2>10. RouteKeysUnique'
    BY <2>8 DEF RoutesInv, RouteKeysUnique
  <2>11. OutboundIdsUnique'
    BY <2>8 DEF RoutesInv, OutboundIdsUnique, IsLive
  <2>12. LiveRoutesSound'
    <3>1. routes'[f].forwarded_size <= routes'[f].expected_size
      BY <2>5, <2>7
    <3>2. \A i \in RouteSlots :
             routes'[i].mode = "live" /\ i # f =>
                 routes'[i].forwarded_size <= routes'[i].expected_size
      BY <2>6 DEF RoutesInv, LiveRoutesSound, IsLive
    <3>3. \A i \in RouteSlots :
             routes'[i].mode = "live" =>
                 routes'[i].forwarded_size <= routes'[i].expected_size
      BY <3>1, <3>2
    <3>4. \A i \in RouteSlots :
             routes'[i].mode = "live" =>
                 /\ routes'[i].sender_id # INVALID_CLIENT_ID
                 /\ routes'[i].target_id \notin
                        {INVALID_CLIENT_ID, routes'[i].sender_id}
      BY <2>8 DEF RoutesInv, LiveRoutesSound, IsLive
    <3>5. QED
      BY <3>3, <3>4 DEF LiveRoutesSound, IsLive
  <2>13. QED
    BY <2>9, <2>10, <2>11, <2>12 DEF RoutesInv
<1>4. QED
  BY <1>0, <1>1, <1>2, <1>3 DEF file_routes_accept_chunk

\* file_routes_mark_forward_failed and file_routes_finish preserve it.
LEMMA CloseKeepsInv ==
    ASSUME RoutesInv, NEW s \in ClientIds, NEW t \in TransferIds,
           \/ \E outbound \in OutboundIds :
                 file_routes_mark_forward_failed(s, t, outbound)
           \/ file_routes_finish(s, t)
    PROVE  RoutesInv'
<1>t. /\ next_outbound_transfer_id \in OutboundIds
      /\ UNCHANGED next_outbound_transfer_id
  BY DEF RoutesInv, RoutesTypeOK, file_routes_mark_forward_failed,
         file_routes_finish
<1>1. CASE UNCHANGED routes
  BY <1>1, <1>t DEF RoutesInv, RoutesTypeOK,
              RouteKeysUnique, OutboundIdsUnique, LiveRoutesSound, IsLive
<1>2. CASE /\ HasRoute(s, t)
           /\ routes' = [routes EXCEPT ![find_route(s, t)] = DiscardRoute(s, t)]
  BY ZenonT(40), <1>2, <1>t, FindRoute, FoundIsOnly, PutDiscard
<1>3. CASE /\ HasRoute(s, t)
           /\ routes' = [routes EXCEPT ![find_route(s, t)] = FreeRoute]
  BY Zenon, <1>3, <1>t, FindRoute, PutFree
<1>4. QED
  BY <1>1, <1>2, <1>3
     DEF file_routes_mark_forward_failed, file_routes_finish,
         ForwardFailureConverts, HasLiveRoute

\* file_routes_abort_client preserves it: a slot is kept, cleared, or made a
\* tombstone for the key it already holds.
LEMMA AbortKeepsInv ==
    ASSUME RoutesInv, NEW id \in ClientIds, file_routes_abort_client(id)
    PROVE  RoutesInv'
<1>1. /\ next_outbound_transfer_id \in OutboundIds
      /\ UNCHANGED next_outbound_transfer_id
      /\ routes \in [RouteSlots -> FileRoute]
  BY DEF RoutesInv, RoutesTypeOK, file_routes_abort_client
<1>2. FreeRoute \in FileRoute /\ FreeRoute.mode = "free"
  BY RoutesAssumption DEF FreeRoute, FileRoute, OutboundIds, INVALID_CLIENT_ID
<1>3. ASSUME NEW i \in RouteSlots, SendsTo(i, id)
      PROVE  LET new == DiscardRoute(routes[i].sender_id,
                                     routes[i].source_transfer_id)
             IN  /\ new \in FileRoute
                 /\ new.mode = "discard"
                 /\ new.sender_id = routes[i].sender_id
                 /\ new.source_transfer_id = routes[i].source_transfer_id
                 /\ routes[i].mode # "free"
  BY <1>1, <1>3, RoutesAssumption DEF DiscardRoute, FileRoute, OutboundIds,
     INVALID_CLIENT_ID, SendsTo, IsLive
<1>4. routes' \in [RouteSlots -> FileRoute]
  BY <1>1, <1>2, <1>3 DEF file_routes_abort_client
<1>5. \A i \in RouteSlots :
         \/ routes'[i] = routes[i]
         \/ routes'[i].mode = "free"
         \/ /\ routes'[i].mode = "discard"
            /\ routes'[i].sender_id = routes[i].sender_id
            /\ routes'[i].source_transfer_id = routes[i].source_transfer_id
            /\ routes[i].mode # "free"
  BY <1>2, <1>3 DEF file_routes_abort_client
<1>6. RoutesTypeOK'
  BY <1>1, <1>4 DEF RoutesTypeOK
<1>7. RouteKeysUnique'
  BY <1>5 DEF RoutesInv, RouteKeysUnique
<1>8. OutboundIdsUnique' /\ LiveRoutesSound'
  BY <1>5 DEF RoutesInv, OutboundIdsUnique, LiveRoutesSound, IsLive
<1>9. QED
  BY <1>6, <1>7, <1>8 DEF RoutesInv

-----------------------------------------------------------------------------
\* An empty table satisfies the invariant.
LEMMA InitHasInv == RoutesInit => RoutesInv
<1>1. FreeRoute \in FileRoute /\ FreeRoute.mode = "free"
  BY RoutesAssumption DEF FreeRoute, FileRoute, OutboundIds, INVALID_CLIENT_ID
<1>2. 1 \in OutboundIds
  BY RoutesAssumption DEF OutboundIds
<1> HIDE DEF FreeRoute
<1>3. QED
  BY <1>1, <1>2 DEF RoutesInit, RoutesInv, RoutesTypeOK, RouteKeysUnique,
                    OutboundIdsUnique, LiveRoutesSound, IsLive

\* Every call of the table's interface preserves the invariant.
LEMMA StepKeepsInv == RoutesInv /\ [RoutesNext]_routeVars => RoutesInv'
<1> SUFFICES ASSUME RoutesInv, [RoutesNext]_routeVars PROVE RoutesInv'
  OBVIOUS
<1>1. ASSUME NEW s \in ClientIds, NEW t \in TransferIds, CallAdd(s, t)
      PROVE  RoutesInv'
  BY Zenon, <1>1, AddKeepsInv DEF CallAdd
<1>2. ASSUME NEW s \in ClientIds, NEW t \in TransferIds, CallQuarantine(s, t)
      PROVE  RoutesInv'
  BY <1>2, QuarantineKeepsInv DEF CallQuarantine
<1>3. ASSUME NEW s \in ClientIds, NEW t \in TransferIds, CallChunk(s, t)
      PROVE  RoutesInv'
  BY <1>3, ChunkKeepsInv DEF CallChunk
<1>4. ASSUME NEW s \in ClientIds, NEW t \in TransferIds,
             CallForwardFailed(s, t) \/ file_routes_finish(s, t)
      PROVE  RoutesInv'
  BY <1>4, CloseKeepsInv DEF CallForwardFailed
<1>5. ASSUME NEW id \in ClientIds, file_routes_abort_client(id)
      PROVE  RoutesInv'
  BY <1>5, AbortKeepsInv
<1>6. CASE UNCHANGED routeVars
  BY <1>6 DEF routeVars, RoutesInv, RoutesTypeOK, RouteKeysUnique,
              OutboundIdsUnique, LiveRoutesSound, IsLive
<1>7. QED
  BY <1>1, <1>2, <1>3, <1>4, <1>5, <1>6 DEF RoutesNext

-----------------------------------------------------------------------------
(* The allocator tries enough ids: fewer than FILE_ROUTE_CAPACITY are in     *)
(* use when a slot is free, and that many consecutive candidates differ.     *)

\* Numbers less than m apart have different remainders.
LEMMA RemaindersDiffer ==
    ASSUME NEW m \in Nat \ {0}, NEW a \in Nat, NEW b \in Nat,
           a < b, b - a < m
    PROVE  a % m # b % m
<1>1. /\ a = (m * (a \div m)) + (a % m) /\ a \div m \in Int
      /\ b = (m * (b \div m)) + (b % m) /\ b \div m \in Int
      /\ a % m \in Int /\ b % m \in Int
  OBVIOUS
<1>2. PICK p \in Int, q \in Int, r \in Int, s \in Int :
         /\ p = a \div m /\ r = a % m /\ a = (m * p) + r
         /\ q = b \div m /\ s = b % m /\ b = (m * q) + s
  BY Zenon, <1>1
<1>3. SUFFICES ASSUME r = s PROVE FALSE
  BY <1>2
<1>4. PICK d \in Int : d = q - p
  BY <1>2
<1>5. (m * q) - (m * p) = m * d
  BY <1>4
<1>6. m * d > 0 /\ m * d < m
  BY <1>2, <1>3, <1>5
<1>7. CASE d >= 1
  <2>1. m * d >= m
    BY <1>7
  <2>2. QED
    BY <1>6, <2>1
<1>8. CASE d <= 0
  <2>1. m * d <= 0
    BY <1>8
  <2>2. QED
    BY <1>6, <2>1
<1>9. QED
  BY <1>7, <1>8

LEMMA CandidatesDiffer ==
    ASSUME RoutesTypeOK, NEW j \in Nat, NEW k \in Nat,
           j < k, k < OutboundIdSpace - 1
    PROVE  Candidate(j) # Candidate(k)
<1> DEFINE first == IF next_outbound_transfer_id = 0
                    THEN 1 ELSE next_outbound_transfer_id
           M == OutboundIdSpace - 1
<1>1. first - 1 \in Nat /\ M \in Nat \ {0}
  BY RoutesAssumption DEF RoutesTypeOK, OutboundIds
<1>2. /\ Candidate(j) = ((first - 1 + j) % M) + 1
      /\ Candidate(k) = ((first - 1 + k) % M) + 1
  BY DEF Candidate
<1> HIDE DEF first, M
<1>3. /\ first - 1 + j \in Nat /\ first - 1 + k \in Nat
      /\ first - 1 + j < first - 1 + k
      /\ (first - 1 + k) - (first - 1 + j) < M
  BY <1>1 DEF M
<1>4. (first - 1 + j) % M # (first - 1 + k) % M
  BY <1>1, <1>3, RemaindersDiffer
<1>5. (first - 1 + j) % M \in Int /\ (first - 1 + k) % M \in Int
  BY <1>1, <1>3
<1>6. QED
  BY <1>2, <1>4, <1>5

LEMMA EnoughAttempts ==
    ASSUME RoutesTypeOK
    PROVE  AllocationSucceeds
<1> DEFINE C == FILE_ROUTE_CAPACITY
           tries == 0 .. C - 1
<1>1. SUFFICES ASSUME FreeSlots # {}, OutboundIdSpace > C,
                      allocate_outbound_id = 0
               PROVE  FALSE
  BY DEF AllocationSucceeds
<1>2. PICK free \in RouteSlots : routes[free].mode = "free"
  BY <1>1 DEF FreeSlots
<1>3. C \in Nat \ {0} /\ OutboundIdSpace \in Nat
  BY RoutesAssumption
<1>4. GoodAttempts = {}
  <2>1. SUFFICES ASSUME GoodAttempts # {} PROVE FALSE
    OBVIOUS
  <2>2. GoodAttempts \in SUBSET Nat
    BY <1>3 DEF GoodAttempts
  <2>3. Min(GoodAttempts) \in Nat
    BY Zenon, <2>1, <2>2, MinIsLeast
  <2>4. Candidate(Min(GoodAttempts)) # 0
    BY <2>3, CandidateType
  <2>5. QED
    BY <1>1, <2>1, <2>4 DEF allocate_outbound_id
<1>5. ASSUME NEW k \in tries
      PROVE  \E i \in RouteSlots \ {free} :
                IsLive(i) /\ routes[i].outbound_transfer_id = Candidate(k)
  <2>1. OutboundIdInUse(Candidate(k))
    BY <1>3, <1>4, <1>5 DEF GoodAttempts
  <2>2. QED
    BY <1>2, <2>1 DEF OutboundIdInUse, IsLive
<1> DEFINE User(k) == CHOOSE i \in RouteSlots \ {free} :
                         IsLive(i) /\ routes[i].outbound_transfer_id = Candidate(k)
           f == [k \in tries |-> User(k)]
<1>6. \A k \in tries : /\ f[k] \in RouteSlots \ {free}
                       /\ routes[f[k]].outbound_transfer_id = Candidate(k)
  BY Zenon, <1>5
<1>7. f \in [tries -> RouteSlots \ {free}]
  BY Zenon, <1>6
<1> HIDE DEF f
<1>8. /\ IsFiniteSet(tries) /\ Cardinality(tries) = C
      /\ IsFiniteSet(RouteSlots) /\ Cardinality(RouteSlots) = C
  <2>1. 0 \in Int /\ C - 1 \in Int /\ ~(0 > C - 1) /\ C - 1 - 0 + 1 = C
    BY <1>3
  <2>2. IsFiniteSet(0 .. C - 1) /\ Cardinality(0 .. C - 1) = C
    BY <2>1, FS_Interval
  <2>3. QED
    BY Zenon, <2>2 DEF RouteSlots
<1>9. /\ IsFiniteSet(RouteSlots \ {free})
      /\ Cardinality(RouteSlots \ {free}) < Cardinality(tries)
  <2>1. /\ IsFiniteSet(RouteSlots \ {free})
        /\ Cardinality(RouteSlots \ {free}) = Cardinality(RouteSlots) - 1
    BY Zenon, <1>2, <1>8, FS_RemoveElement
  <2>2. QED
    BY <1>3, <1>8, <2>1
<1>10. PICK j \in tries, k \in tries : j # k /\ f[j] = f[k]
  <2> DEFINE others == RouteSlots \ {free}
  <2>1. /\ IsFiniteSet(tries) /\ IsFiniteSet(others)
        /\ Cardinality(others) < Cardinality(tries) /\ f \in [tries -> others]
    BY Zenon, <1>7, <1>8, <1>9
  <2> HIDE DEF tries, others
  <2>2. \E j, k \in tries : j # k /\ f[j] = f[k]
    BY Zenon, <2>1, FS_PigeonHole
  <2>3. QED
    BY Zenon, <2>2
<1>11. Candidate(j) = Candidate(k)
  BY <1>6, <1>10
<1>12. /\ j \in Nat /\ k \in Nat /\ (j < k \/ k < j)
       /\ j < OutboundIdSpace - 1 /\ k < OutboundIdSpace - 1
  BY <1>1, <1>3, <1>10
<1>13. QED
  BY <1>11, <1>12, CandidatesDiffer

\* In every reachable state of the routing table its slots are well formed,
\* a key names one slot, live routes have distinct nonzero outbound ids even
\* after the id counter has wrapped, and no route accounts for more bytes
\* than were declared.
THEOREM RoutesSafe ==
    RoutesSpec => [](/\ RoutesTypeOK /\ RouteKeysUnique
                     /\ OutboundIdsUnique /\ LiveRoutesSound)
<1>1. RoutesSpec => []RoutesInv
  BY InitHasInv, StepKeepsInv, PTL DEF RoutesSpec
<1>2. RoutesInv => /\ RoutesTypeOK /\ RouteKeysUnique
                   /\ OutboundIdsUnique /\ LiveRoutesSound
  BY DEF RoutesInv
<1>3. QED
  BY <1>1, <1>2, PTL

\* The allocator never gives up while a slot is free, for every capacity and
\* every id space with at least as many nonzero ids as slots, wherever the
\* counter stands and whichever ids are in use: FILE_ROUTE_CAPACITY + 1
\* attempts (allocate_outbound_id_locked) are enough.
THEOREM AllocatorNeverGivesUp == RoutesSpec => []AllocationSucceeds
<1>1. RoutesSpec => []RoutesInv
  BY InitHasInv, StepKeepsInv, PTL DEF RoutesSpec
<1>2. RoutesInv => AllocationSucceeds
  BY EnoughAttempts DEF RoutesInv
<1>3. QED
  BY <1>1, <1>2, PTL

-----------------------------------------------------------------------------
(* What becomes of a route in one step.                                      *)
RouteStep(old, new) ==
    /\ old.mode = "discard" => new.mode # "live"
    /\ old.mode = "live" /\ new.mode = "live" =>
          /\ new.forwarded_size >= old.forwarded_size
          /\ [new EXCEPT !.forwarded_size = 0] = [old EXCEPT !.forwarded_size = 0]

LEMMA RouteKept ==
    ASSUME NEW old \in FileRoute, NEW new,
           new = old \/ new.mode # "live" \/ old.mode = "free"
    PROVE  RouteStep(old, new)
BY DEF RouteStep, FileRoute

LEMMA RoutePut ==
    ASSUME RoutesInv, NEW i \in RouteSlots, NEW new,
           routes' = [routes EXCEPT ![i] = new],
           RouteStep(routes[i], new)
    PROVE  \A j \in RouteSlots : RouteStep(routes[j], routes'[j])
<1> SUFFICES ASSUME NEW j \in RouteSlots
             PROVE  RouteStep(routes[j], routes'[j])
  OBVIOUS
<1>1. /\ routes[j] \in FileRoute
      /\ routes'[j] = IF j = i THEN new ELSE routes[j]
  BY DEF RoutesInv, RoutesTypeOK
<1>2. QED
  BY <1>1, RouteKept

LEMMA RoutePutAway ==
    ASSUME RoutesInv, NEW i \in RouteSlots, NEW new,
           routes' = [routes EXCEPT ![i] = new],
           new.mode # "live" \/ routes[i].mode = "free"
    PROVE  \A j \in RouteSlots : RouteStep(routes[j], routes'[j])
<1>1. routes[i] \in FileRoute
  BY DEF RoutesInv, RoutesTypeOK
<1>2. RouteStep(routes[i], new)
  BY <1>1, RouteKept
<1>3. QED
  BY Zenon, <1>2, RoutePut

LEMMA RoutesUntouched ==
    ASSUME RoutesInv, UNCHANGED routes
    PROVE  \A j \in RouteSlots : RouteStep(routes[j], routes'[j])
BY RouteKept DEF RoutesInv, RoutesTypeOK

\* A chunk that is accepted is the one step that changes a forwarding route
\* and lets it forward on.
LEMMA ChunkStep ==
    ASSUME RoutesInv, NEW i \in RouteSlots, NEW length \in ChunkLengths,
           routes' = [routes EXCEPT ![i].forwarded_size = @ + length],
           IsLive(i)
    PROVE  \A j \in RouteSlots : RouteStep(routes[j], routes'[j])
<1> DEFINE old == routes[i]
           new == [old EXCEPT !.forwarded_size = old.forwarded_size + length]
<1>1. old \in FileRoute /\ old.forwarded_size \in Nat /\ length \in Nat
  BY RoutesAssumption DEF RoutesInv, RoutesTypeOK, FileRoute
<1>2. routes' = [routes EXCEPT ![i] = new]
  OBVIOUS
<1>3. RouteStep(old, new)
  <2> HIDE DEF old
  <2>1. /\ new.forwarded_size >= old.forwarded_size
        /\ [new EXCEPT !.forwarded_size = 0] = [old EXCEPT !.forwarded_size = 0]
    <3>1. PICK n \in Nat : n = old.forwarded_size + length
      BY <1>1
    <3>2. new = [old EXCEPT !.forwarded_size = n] /\ new.forwarded_size = n
      BY <1>1, <3>1 DEF FileRoute
    <3>3. [[old EXCEPT !.forwarded_size = n] EXCEPT !.forwarded_size = 0] =
             [old EXCEPT !.forwarded_size = 0]
      BY Zenon, <1>1 DEF FileRoute
    <3>4. QED
      BY <1>1, <3>1, <3>2, <3>3
  <2>2. new.mode = old.mode
    BY <1>1 DEF FileRoute
  <2>3. QED
    BY <2>1, <2>2 DEF RouteStep
<1>4. QED
  BY Zenon, <1>2, <1>3, RoutePut

LEMMA StepIsAllowed ==
    RoutesInv /\ [RoutesNext]_routeVars
        => \A i \in RouteSlots : RouteStep(routes[i], routes'[i])
<1> SUFFICES ASSUME RoutesInv, [RoutesNext]_routeVars
             PROVE  \A i \in RouteSlots : RouteStep(routes[i], routes'[i])
  OBVIOUS
<1>1. /\ FreeRoute.mode = "free"
      /\ \A s, t : DiscardRoute(s, t).mode = "discard"
  BY DEF FreeRoute, DiscardRoute
<1>2. ASSUME NEW s \in ClientIds, NEW t \in TransferIds, NEW target, NEW size,
             NEW discard, file_routes_add(s, t, target, size, discard)
      PROVE  \A i \in RouteSlots : RouteStep(routes[i], routes'[i])
  <2> DEFINE res == AddResult(s, t, discard)
  <2>1. CASE res = "DUPLICATE"
    <3>1. /\ HasRoute(s, t)
          /\ routes' = [routes EXCEPT ![find_route(s, t)] = DiscardRoute(s, t)]
      BY <1>2, <2>1 DEF AddResult, file_routes_add
    <3>2. QED
      BY Zenon, <1>1, <3>1, FindRoute, RoutePutAway
  <2>2. CASE res \in {"DISCARD", "READY"}
    <3>1. FreeSlots # {} /\ \E new : routes' = [routes EXCEPT ![find_free_route] = new]
      BY <1>2, <2>2 DEF AddResult, file_routes_add
    <3>2. QED
      BY Zenon, <3>1, FindFreeRoute, RoutePutAway
  <2>3. CASE res \in {"FULL", "ID_UNAVAILABLE"}
    <3>1. UNCHANGED routes
      BY <1>2, <2>3 DEF AddResult, file_routes_add, routeVars
    <3>2. QED
      BY <3>1, RoutesUntouched
  <2>4. QED
    BY <2>1, <2>2, <2>3 DEF AddResult
<1>3. ASSUME NEW s \in ClientIds, NEW t \in TransferIds,
             NEW keep, file_routes_quarantine(s, t, keep)
      PROVE  \A i \in RouteSlots : RouteStep(routes[i], routes'[i])
  <2>1. CASE HasRoute(s, t)
    <3>1. \E new : /\ routes' = [routes EXCEPT ![find_route(s, t)] = new]
                   /\ new.mode # "live"
      BY <1>1, <1>3, <2>1 DEF file_routes_quarantine
    <3>2. QED
      BY Zenon, <2>1, <3>1, FindRoute, RoutePutAway
  <2>2. CASE ~HasRoute(s, t)
    <3>1. \/ UNCHANGED routes
          \/ /\ FreeSlots # {}
             /\ \E new : routes' = [routes EXCEPT ![find_free_route] = new]
      BY <1>3, <2>2 DEF file_routes_quarantine
    <3>2. QED
      BY Zenon, <3>1, FindFreeRoute, RoutePutAway, RoutesUntouched
  <2>3. QED
    BY <2>1, <2>2
<1>4. ASSUME NEW s \in ClientIds, NEW t \in TransferIds,
             NEW length \in ChunkLengths, file_routes_accept_chunk(s, t, length)
      PROVE  \A i \in RouteSlots : RouteStep(routes[i], routes'[i])
  <2> DEFINE res == ChunkResult(s, t, length)
  <2>1. CASE res = "MISSING" /\ FreeSlots # {}
    <3>1. \E new : routes' = [routes EXCEPT ![find_free_route] = new]
      BY <1>4, <2>1 DEF file_routes_accept_chunk
    <3>2. QED
      BY Zenon, <2>1, <3>1, FindFreeRoute, RoutePutAway
  <2>2. CASE res = "OVERRUN"
    <3>1. /\ HasRoute(s, t)
          /\ routes' = [routes EXCEPT ![find_route(s, t)] = DiscardRoute(s, t)]
      BY <1>4, <2>2 DEF ChunkResult, file_routes_accept_chunk
    <3>2. QED
      BY Zenon, <1>1, <3>1, FindRoute, RoutePutAway
  <2>3. CASE res = "READY"
    <3>1. /\ HasRoute(s, t) /\ IsLive(find_route(s, t))
          /\ routes' = [routes EXCEPT ![find_route(s, t)].forwarded_size =
                            @ + length]
      BY <1>4, <2>3 DEF ChunkResult, file_routes_accept_chunk
    <3>2. QED
      BY Zenon, <3>1, FindRoute, ChunkStep
  <2>4. CASE UNCHANGED routes
    BY <2>4, RoutesUntouched
  <2>5. QED
    BY <1>4, <2>1, <2>2, <2>3, <2>4 DEF file_routes_accept_chunk
<1>5. ASSUME NEW s \in ClientIds, NEW t \in TransferIds,
             \/ \E o \in OutboundIds : file_routes_mark_forward_failed(s, t, o)
             \/ file_routes_finish(s, t)
      PROVE  \A i \in RouteSlots : RouteStep(routes[i], routes'[i])
  <2>1. \/ UNCHANGED routes
        \/ /\ HasRoute(s, t)
           /\ \E new : /\ routes' = [routes EXCEPT ![find_route(s, t)] = new]
                       /\ new.mode # "live"
    BY <1>1, <1>5 DEF file_routes_mark_forward_failed, file_routes_finish,
       ForwardFailureConverts, HasLiveRoute
  <2>2. QED
    BY Zenon, <2>1, FindRoute, RoutePutAway, RoutesUntouched
<1>6. ASSUME NEW id \in ClientIds, file_routes_abort_client(id)
      PROVE  \A i \in RouteSlots : RouteStep(routes[i], routes'[i])
  <2> SUFFICES ASSUME NEW i \in RouteSlots
               PROVE  RouteStep(routes[i], routes'[i])
    OBVIOUS
  <2>1. routes[i] \in FileRoute
    BY DEF RoutesInv, RoutesTypeOK
  <2>2. routes'[i] = routes[i] \/ routes'[i].mode # "live"
    BY <1>1, <1>6 DEF file_routes_abort_client
  <2>3. QED
    BY <2>1, <2>2, RouteKept
<1>7. CASE UNCHANGED routeVars
  BY <1>7, RoutesUntouched DEF routeVars
<1>8. QED
  BY <1>2, <1>3, <1>4, <1>5, <1>6, <1>7 DEF RoutesNext, CallAdd, CallQuarantine,
     CallChunk, CallForwardFailed

\* Whichever calls are made, a rejected transfer is not forwarded again under
\* its key before its sender closed it, and while a transfer is forwarded its
\* endpoint and size stand and its count of bytes never goes back
\* (file_routes_add, file_routes_accept_chunk and the tombstones).
THEOREM RoutesLiveOnce == RoutesSpec => RouteLifecycle
<1>1. RoutesInv /\ [RoutesNext]_routeVars =>
         [\A i \in RouteSlots :
            /\ routes[i].mode = "discard" => routes'[i].mode # "live"
            /\ IsLive(i) /\ routes'[i].mode = "live" =>
                  /\ routes'[i].forwarded_size >= routes[i].forwarded_size
                  /\ [routes'[i] EXCEPT !.forwarded_size = 0] =
                         [routes[i] EXCEPT !.forwarded_size = 0]]_routeVars
  BY StepIsAllowed DEF RouteStep, IsLive
<1>2. QED
  BY <1>1, InitHasInv, StepKeepsInv, PTL DEF RoutesSpec, RouteLifecycle

-----------------------------------------------------------------------------
Handling == {"serve", "leaving", "replying", "begin_add", "begin_send",
             "begin_failed", "chunk_send", "chunk_failed", "end_send"}
Beginning == {"begin_send", "begin_failed"}
Owning == Handling \union {"welcome"}
Named == Owning \union {"abort", "aborting"}

(***************************************************************************)
(* A thread's record.                                                      *)
(***************************************************************************)
Message == [to : ClientIds, frame : RelayFrames]
Todos == UNION {[D -> Message] : D \in SUBSET Nat}

ThreadRecord ==
    [pc : Named \union {"login", "closed"}, slot : ClientSlots,
     id : ClientIds \union {INVALID_CLIENT_ID}, budget : Int, transfer : Nat,
     target : ClientIds \union {INVALID_CLIENT_ID}, outbound : OutboundIds,
     size : Nat, todo : Todos]

\* Which locals are in use at which call.
ThreadOk(th) ==
    /\ th \in ThreadRecord
    /\ th.pc \in Named <=> th.id \in ClientIds
    /\ th.pc \in Beginning \union {"begin_add"} =>
          th.transfer \in TransferIds /\ th.size \in FileSizes
    /\ th.pc \in {"chunk_send", "chunk_failed"} =>
          th.transfer \in TransferIds /\ th.size \in ChunkLengths
    /\ th.pc \in Beginning \union {"chunk_send", "chunk_failed", "end_send"} =>
          th.target \in ClientIds
    /\ th.pc \in {"replying", "aborting"} => DOMAIN th.todo # {}

ThreadsOk ==
    /\ threads = [c \in Conns |-> threads[c]]
    /\ \A c \in Conns : ThreadOk(threads[c])

(***************************************************************************)
(* A thread between login and abort has an id of its own, and a slot until *)
(* it removes its client; every client in the registry has such a thread.  *)
(***************************************************************************)
OwnersInv ==
    /\ \A c \in Conns :
          threads[c].pc \in Named => threads[c].id < next_client_id
    /\ \A c, d \in Conns :
          threads[c].pc \in Named /\ threads[c].id = threads[d].id => c = d
    /\ \A c \in Conns :
          threads[c].pc \in Owning =>
             /\ clients[threads[c].slot].active
             /\ clients[threads[c].slot].id = threads[c].id
    /\ \A c \in Conns :
          threads[c].pc = "welcome" =>
             /\ ~clients[threads[c].slot].ready
             /\ ~clients[threads[c].slot].outgoing_failed
    /\ \A i \in ClientSlots :
          clients[i].active =>
             \E c \in Conns : threads[c].pc \in Owning /\ threads[c].slot = i

\* The route a thread has just added leads to the recipient it looked up.
BeginTargets ==
    \A c \in Conns, i \in RouteSlots :
        /\ threads[c].pc \in Beginning
        /\ IsLive(i)
        /\ routes[i].sender_id = threads[c].id
        /\ routes[i].source_transfer_id = threads[c].transfer
        => routes[i].target_id = threads[c].target

\* The id has been given out, and its client been welcomed.
Known(id) ==
    /\ id \in 0 .. next_client_id - 1
    /\ \A c \in Conns : threads[c].pc = "welcome" => threads[c].id # id

\* Routes and lookups name known clients only.
KnownIds ==
    /\ \A c \in Conns : Known(threads[c].target)
    /\ \A i \in RouteSlots :
          /\ Known(routes[i].sender_id) /\ Known(routes[i].target_id)
          /\ routes[i].mode # "free" => routes[i].sender_id \in ClientIds

RelayInv ==
    /\ RoutesInv /\ ClientsInv
    /\ ThreadsOk /\ OwnersInv
    /\ NoOrphanRoute /\ BeginTargets /\ KnownIds

-----------------------------------------------------------------------------
(***************************************************************************)
(* Messages.                                                               *)
(***************************************************************************)
LEMMA SequencesAreTodos ==
    ASSUME NEW messages \in Seq(Message)
    PROVE  /\ messages \in Todos
           /\ DOMAIN messages = 1 .. Len(messages) /\ Len(messages) \in Nat
<1>1. /\ messages \in [1 .. Len(messages) -> Message] /\ Len(messages) \in Nat
      /\ DOMAIN messages = 1 .. Len(messages)
  OBVIOUS
<1>2. 1 .. Len(messages) \in SUBSET Nat
  BY <1>1
<1>3. QED
  BY <1>1, <1>2 DEF Todos

LEMMA NothingTodo == <<>> \in Todos /\ DOMAIN <<>> = {}
<1>1. <<>> \in Seq(Message) /\ Len(<<>>) = 0
  OBVIOUS
<1>2. PICK s \in Seq(Message) : s = <<>> /\ Len(s) = 0
  BY Zenon, <1>1
<1>3. s \in Todos /\ DOMAIN s = 1 .. 0
  BY Zenon, <1>2, SequencesAreTodos
<1>4. QED
  BY <1>2, <1>3

LEMMA SomethingTodo ==
    ASSUME NEW todo \in Todos, todo # <<>>
    PROVE  DOMAIN todo # {}
<1>1. SUFFICES ASSUME DOMAIN todo = {} PROVE todo = <<>>
  OBVIOUS
<1>2. PICK D \in SUBSET Nat : todo \in [D -> Message]
  BY DEF Todos
<1>3. <<>> \in [{} -> Message]
  BY NothingTodo DEF Todos
<1>4. QED
  BY <1>1, <1>2, <1>3

LEMMA FramesOk ==
    /\ Text \in RelayFrames
    /\ \A type \in {"BEGIN", "CHUNK", "END", "ERROR"}, o \in OutboundIds,
          size \in FileSizes \union ChunkLengths \union {0} :
             FileFrame(type, o, size) \in RelayFrames
    /\ RelayFrames \subseteq Frames
<1>1. 0 \in OutboundIds
  BY RoutesAssumption DEF OutboundIds
<1>2. QED
  BY <1>1, FramesAssumption DEF Text, FileFrame, RelayFrames

\* A message to one client.
LEMMA OneMessage ==
    ASSUME NEW m \in Message
    PROVE  <<m>> \in Todos /\ DOMAIN <<m>> # {}
<1>1. <<m>> \in Seq(Message) /\ Len(<<m>>) = 1
  OBVIOUS
<1>2. PICK s \in Seq(Message) : s = <<m>> /\ Len(s) = 1
  BY Zenon, <1>1
<1>3. s \in Todos /\ DOMAIN s = 1 .. 1
  BY Zenon, <1>2, SequencesAreTodos
<1>4. QED
  BY <1>2, <1>3

LEMMA TwoMessages ==
    ASSUME NEW m \in Message, NEW n \in Message
    PROVE  <<m>> \o <<n>> \in Todos /\ DOMAIN (<<m>> \o <<n>>) # {}
<1>1. /\ <<m>> \in Seq(Message) /\ Len(<<m>>) = 1
      /\ <<n>> \in Seq(Message) /\ Len(<<n>>) = 1
  OBVIOUS
<1>2. /\ <<m>> \o <<n>> \in Seq(Message) /\ Len(<<m>> \o <<n>>) = 2
  BY <1>1
<1>3. PICK s \in Seq(Message) : s = <<m>> \o <<n>> /\ Len(s) = 2
  BY Zenon, <1>2
<1>4. s \in Todos /\ DOMAIN s = 1 .. 2
  BY Zenon, <1>3, SequencesAreTodos
<1>5. DOMAIN s # {}
  BY <1>4
<1>6. QED
  BY <1>3, <1>4, <1>5, Zenon

LEMMA NotifyOk ==
    ASSUME NEW id \in ClientIds
    PROVE  notify_sender(id) \in Message
BY FramesOk DEF notify_sender, Message

LEMMA ErrorOk ==
    ASSUME NEW to \in ClientIds, NEW o \in OutboundIds
    PROVE  receiver_error([target_id |-> to, outbound_transfer_id |-> o])
              \in Message
BY FramesOk DEF receiver_error, Message

\* The endpoint of a key: none, or a client and an outbound id.
LEMMA EndpointIsClient ==
    ASSUME RoutesInv, NEW s, NEW t, HasLiveRoute(s, t)
    PROVE  /\ EndpointOf(s, t).target_id \in ClientIds
           /\ EndpointOf(s, t).outbound_transfer_id \in OutboundIds
           /\ receiver_error(EndpointOf(s, t)) \in Message
<1>1. PICK i \in RouteSlots : i = find_route(s, t) /\ IsLive(i)
  BY FindRoute DEF HasLiveRoute
<1>2. /\ routes[i].target_id \in ClientIds
      /\ routes[i].outbound_transfer_id \in OutboundIds
  BY <1>1 DEF RoutesInv, RoutesTypeOK, FileRoute, LiveRoutesSound
<1>3. EndpointOf(s, t) = [target_id |-> routes[i].target_id,
                          outbound_transfer_id |->
                             routes[i].outbound_transfer_id]
  BY <1>1 DEF EndpointOf, Endpoint
<1>4. QED
  BY <1>2, <1>3, ErrorOk

LEMMA RejectOk ==
    ASSUME RoutesInv, NEW c, threads[c].id \in ClientIds, NEW t
    PROVE  /\ RejectMessages(c, EndpointOf(threads[c].id, t)) \in Todos
           /\ DOMAIN RejectMessages(c, EndpointOf(threads[c].id, t)) # {}
<1>1. CASE HasLiveRoute(threads[c].id, t)
  <2>1. EndpointOf(threads[c].id, t).target_id # INVALID_CLIENT_ID
    BY <1>1, EndpointIsClient, ClientIdsAssumption
  <2>2. EndpointOf(threads[c].id, t) # NoEndpoint
    BY <2>1 DEF NoEndpoint
  <2>3. QED
    BY <1>1, <2>2, EndpointIsClient, NotifyOk, TwoMessages
       DEF RejectMessages, Notify
<1>2. CASE ~HasLiveRoute(threads[c].id, t)
  BY <1>2, NotifyOk, OneMessage DEF RejectMessages, Notify, EndpointOf
<1>3. QED
  BY <1>1, <1>2

\* What an abort sends.
LEMMA AbortOk ==
    ASSUME RoutesInv, NEW id \in ClientIds
    PROVE  AbortMessages(id) \in Todos
<1> DEFINE D == DOMAIN AbortActions(id)
<1>1. /\ D \in SUBSET RouteSlots /\ RouteSlots \subseteq Nat
      /\ \A i \in D : IsLive(i)
  BY RoutesAssumption DEF AbortActions, RouteSlots
<1>2. ASSUME NEW i \in D
      PROVE  AbortMessages(id)[i] \in Message
  <2>1. /\ routes[i].target_id \in ClientIds
        /\ routes[i].sender_id \in ClientIds
        /\ routes[i].outbound_transfer_id \in OutboundIds
    BY Zenon, <1>1 DEF RoutesInv, RoutesTypeOK, FileRoute, LiveRoutesSound
  <2>2. CASE SendsTo(i, id)
    <3>1. /\ AbortActions(id)[i].type = "NOTIFY_SENDER"
          /\ AbortActions(id)[i].client_id = routes[i].sender_id
      BY <1>2, <2>2 DEF AbortActions
    <3>2. AbortMessages(id)[i] = notify_sender(routes[i].sender_id)
      BY <1>2, <3>1 DEF AbortMessages
    <3>3. QED
      BY <2>1, <3>2, NotifyOk
  <2>3. CASE ~SendsTo(i, id)
    <3>1. /\ AbortActions(id)[i].type = "SEND_ERROR"
          /\ AbortActions(id)[i].client_id = routes[i].target_id
          /\ AbortActions(id)[i].outbound_transfer_id
                = routes[i].outbound_transfer_id
      BY <1>2, <2>3 DEF AbortActions
    <3>2. AbortMessages(id)[i] =
             receiver_error([target_id |-> routes[i].target_id,
                             outbound_transfer_id |->
                                routes[i].outbound_transfer_id])
      BY <1>2, <3>1 DEF AbortMessages
    <3>3. QED
      BY <2>1, <3>2, ErrorOk
  <2>4. QED
    BY <2>2, <2>3
<1>3. AbortMessages(id) = [i \in D |-> AbortMessages(id)[i]]
  BY DEF AbortMessages
<1> HIDE DEF D
<1>4. AbortMessages(id) \in [D -> Message]
  BY <1>2, <1>3
<1>5. QED
  BY <1>1, <1>4 DEF Todos

-----------------------------------------------------------------------------
(***************************************************************************)
(* How a step changes a thread's record.                                   *)
(***************************************************************************)
LEMMA FreshThread ==
    ASSUME NEW pc \in Named \union {"login", "closed"},
           NEW slot \in ClientSlots,
           NEW id \in ClientIds \union {INVALID_CLIENT_ID},
           NEW budget \in Int
    PROVE  /\ Thread(pc, slot, id, budget) \in ThreadRecord
           /\ Thread(pc, slot, id, budget).pc = pc
           /\ Thread(pc, slot, id, budget).slot = slot
           /\ Thread(pc, slot, id, budget).id = id
           /\ Thread(pc, slot, id, budget).target = INVALID_CLIENT_ID
<1>1. 0 \in OutboundIds
  BY RoutesAssumption DEF OutboundIds
<1>2. QED
  BY <1>1, NothingTodo DEF Thread, ThreadRecord

\* Thread c goes on in a handler's call with this record.
Continues(c, th) ==
    /\ threads' = [threads EXCEPT ![c] = th]
    /\ ThreadOk(th)
    /\ th.pc \in Handling
    /\ th.id = threads[c].id /\ th.slot = threads[c].slot

LEMMA ReturnContinues ==
    ASSUME ThreadsOk, NEW c \in Conns, threads[c].pc \in Handling, Return(c)
    PROVE  \E th : /\ Continues(c, th) /\ th.pc = "serve"
                   /\ th.target = INVALID_CLIENT_ID
<1> DEFINE old == threads[c]
           blank == Thread("serve", old.slot, old.id, old.budget)
           th == [blank EXCEPT !.budget = @ - 1]
<1>1. /\ ThreadOk(old) /\ old.slot \in ClientSlots /\ old.budget \in Int
      /\ old.id \in ClientIds
  BY DEF ThreadsOk, ThreadOk, ThreadRecord, Named, Owning
<1>2. /\ blank \in ThreadRecord /\ blank.pc = "serve"
      /\ blank.slot = old.slot /\ blank.id = old.id
      /\ blank.target = INVALID_CLIENT_ID
  BY <1>1, FreshThread DEF Named, Owning, Handling
<1>3. threads' = [threads EXCEPT ![c] = th]
  BY DEF Return, Blank
<1> HIDE DEF blank, old
<1>4. /\ th \in ThreadRecord /\ th.pc = "serve"
      /\ th.slot = old.slot /\ th.id = old.id
      /\ th.target = INVALID_CLIENT_ID
  BY <1>2 DEF ThreadRecord
<1> HIDE DEF th
<1>5. ThreadOk(th)
  BY <1>1, <1>4 DEF ThreadOk, Named, Owning, Handling, Beginning
<1>6. QED
  BY Zenon, <1>3, <1>4, <1>5 DEF Continues, Handling, old

LEMMA ReplyContinues ==
    ASSUME ThreadsOk, NEW c \in Conns, threads[c].pc \in Handling,
           NEW messages \in Todos, DOMAIN messages # {}, Reply(c, messages)
    PROVE  \E th : /\ Continues(c, th) /\ th.pc = "replying"
                   /\ th.target = INVALID_CLIENT_ID
<1> DEFINE old == threads[c]
           blank == Thread("replying", old.slot, old.id, old.budget)
           th == [blank EXCEPT !.todo = messages]
<1>1. /\ ThreadOk(old) /\ old.slot \in ClientSlots /\ old.budget \in Int
      /\ old.id \in ClientIds
  BY DEF ThreadsOk, ThreadOk, ThreadRecord, Named, Owning
<1>2. /\ blank \in ThreadRecord /\ blank.pc = "replying"
      /\ blank.slot = old.slot /\ blank.id = old.id
      /\ blank.target = INVALID_CLIENT_ID
  BY <1>1, FreshThread DEF Named, Owning, Handling
<1>3. threads' = [threads EXCEPT ![c] = th]
  BY DEF Reply, Blank
<1> HIDE DEF blank, old
<1>4. /\ th \in ThreadRecord /\ th.pc = "replying"
      /\ th.slot = old.slot /\ th.id = old.id /\ th.todo = messages
      /\ th.target = INVALID_CLIENT_ID
  BY <1>2 DEF ThreadRecord
<1> HIDE DEF th
<1>5. ThreadOk(th)
  BY <1>1, <1>4 DEF ThreadOk, Named, Owning, Handling, Beginning
<1>6. QED
  BY Zenon, <1>3, <1>4, <1>5 DEF Continues, Handling, old

\* A thread that only moves on to another call.
LEMMA GotoContinues ==
    ASSUME ThreadsOk, NEW c \in Conns, NEW pc, Goto(c, pc),
           \/ threads[c].pc \in {"welcome", "serve"} /\ pc \in {"serve", "leaving"}
           \/ threads[c].pc = "begin_send" /\ pc = "begin_failed"
           \/ threads[c].pc = "chunk_send" /\ pc = "chunk_failed"
    PROVE  \E th : /\ Continues(c, th) /\ th.pc = pc
                   /\ th.transfer = threads[c].transfer
                   /\ th.target = threads[c].target
<1> DEFINE old == threads[c]
           th == [old EXCEPT !.pc = pc]
<1>1. ThreadOk(old) /\ old \in ThreadRecord /\ old.id \in ClientIds
  BY DEF ThreadsOk, ThreadOk, Named, Owning, Handling
<1>2. threads' = [threads EXCEPT ![c] = th]
  BY DEF Goto
<1>3. pc \in Handling
  BY DEF Handling
<1>4. old.pc \in {"begin_send", "chunk_send", "welcome", "serve"}
  OBVIOUS
<1>5. /\ pc = "begin_failed" => old.pc = "begin_send"
      /\ pc = "chunk_failed" => old.pc = "chunk_send"
      /\ pc \in {"serve", "leaving", "begin_failed", "chunk_failed"}
  OBVIOUS
<1> HIDE DEF old
<1>6. /\ th \in ThreadRecord /\ th.pc = pc /\ th.slot = old.slot
      /\ th.id = old.id /\ th.transfer = old.transfer /\ th.size = old.size
      /\ th.target = old.target
  BY <1>1, <1>3 DEF ThreadRecord, Named, Owning
<1> HIDE DEF th
<1>7. ThreadOk(th)
  BY <1>1, <1>3, <1>5, <1>6 DEF ThreadOk, Named, Owning, Beginning
<1>8. QED
  BY ZenonT(40), <1>2, <1>3, <1>6, <1>7 DEF Continues, old

\* A thread whose call has given it these locals.
LEMMA CallContinues ==
    ASSUME ThreadsOk, NEW c \in Conns, threads[c].pc \in Handling,
           NEW th \in ThreadRecord,
           th.id = threads[c].id, th.slot = threads[c].slot,
           threads' = [threads EXCEPT ![c] = th],
           \/ /\ th.pc \in {"begin_add", "begin_send"}
              /\ th.transfer \in TransferIds /\ th.size \in FileSizes
              /\ th.pc = "begin_send" => th.target \in ClientIds
           \/ /\ th.pc = "chunk_send" /\ th.target \in ClientIds
              /\ th.transfer \in TransferIds /\ th.size \in ChunkLengths
           \/ th.pc = "end_send" /\ th.target \in ClientIds
    PROVE  Continues(c, th)
<1>1. threads[c].id \in ClientIds
  BY DEF ThreadsOk, ThreadOk, Named, Owning
<1>2. ThreadOk(th)
  BY <1>1 DEF ThreadOk, Named, Owning, Handling, Beginning
<1>3. QED
  BY <1>2 DEF Continues, Handling

LEMMA ThreadCloses ==
    ASSUME ThreadsOk, NEW c \in Conns, threads' = Closed(c)
    PROVE  \E th : /\ threads' = [threads EXCEPT ![c] = th]
                   /\ ThreadOk(th) /\ th.pc = "closed"
                   /\ th.id = INVALID_CLIENT_ID
                   /\ th.target = INVALID_CLIENT_ID
<1> DEFINE th == Thread("closed", 0, INVALID_CLIENT_ID, 0)
<1>1. PICK slot \in ClientSlots, budget \in Int : slot = 0 /\ budget = 0
  BY ClientsAssumption DEF ClientSlots
<1>2. /\ th \in ThreadRecord /\ th.pc = "closed"
      /\ th.id = INVALID_CLIENT_ID /\ th.target = INVALID_CLIENT_ID
  <2>1. th = Thread("closed", slot, INVALID_CLIENT_ID, budget)
    BY <1>1
  <2> HIDE DEF th
  <2>2. PICK id : /\ id = INVALID_CLIENT_ID
                  /\ id \in ClientIds \union {INVALID_CLIENT_ID}
    OBVIOUS
  <2>3. /\ Thread("closed", slot, id, budget) \in ThreadRecord
        /\ Thread("closed", slot, id, budget).pc = "closed"
        /\ Thread("closed", slot, id, budget).id = id
        /\ Thread("closed", slot, id, budget).target = INVALID_CLIENT_ID
    BY <2>2, FreshThread
  <2>4. QED
    BY <2>1, <2>2, <2>3
<1>3. threads' = [threads EXCEPT ![c] = th]
  BY DEF Closed
<1> HIDE DEF th
<1>4. th.id \notin ClientIds
  BY Zenon, <1>2, ClientIdsAssumption
<1>5. ThreadOk(th)
  BY <1>2, <1>4 DEF ThreadOk, Named, Owning, Handling, Beginning
<1>6. QED
  BY Zenon, <1>2, <1>3, <1>5

LEMMA OneThread ==
    ASSUME ThreadsOk, NEW c \in Conns, NEW th, ThreadOk(th),
           threads' = [threads EXCEPT ![c] = th]
    PROVE  /\ ThreadsOk' /\ threads'[c] = th
           /\ \A d \in Conns \ {c} : threads'[d] = threads[d]
BY DEF ThreadsOk

-----------------------------------------------------------------------------
(***************************************************************************)
(* Who owns which client, through the steps of the threads.                *)
(***************************************************************************)
\* A handler's step.
LEMMA HandlerKeepsOwners ==
    ASSUME ThreadsOk, OwnersInv, NEW c \in Conns, NEW th,
           threads[c].pc \in Handling, Continues(c, th), OwnersKept
    PROVE  OwnersInv' /\ ThreadsOk'
<1>1. /\ ThreadsOk' /\ threads'[c] = th
      /\ \A d \in Conns \ {c} : threads'[d] = threads[d]
  BY ZenonT(40), OneThread DEF Continues
<1>2. /\ th.pc \in Handling /\ th.pc # "welcome"
      /\ th.id = threads[c].id /\ th.slot = threads[c].slot
  BY DEF Continues, Handling
<1>3. \A d \in Conns :
         /\ threads'[d].id = threads[d].id /\ threads'[d].slot = threads[d].slot
         /\ threads'[d].pc \in Owning <=> threads[d].pc \in Owning
         /\ threads'[d].pc \in Named <=> threads[d].pc \in Named
         /\ threads'[d].pc = "welcome" <=> threads[d].pc = "welcome"
         /\ threads[d].slot \in ClientSlots
  <2>1. \A d \in Conns : threads[d].slot \in ClientSlots
    BY DEF ThreadsOk, ThreadOk, ThreadRecord
  <2>2. threads[c].pc # "welcome"
    BY DEF Handling
  <2>3. QED
    BY <1>1, <1>2, <2>1, <2>2 DEF Named, Owning
<1>4. QED
  BY <1>1, <1>3 DEF OwnersInv, OwnersKept

LEMMA LoginKeepsOwners ==
    ASSUME ClientsInv, ThreadsOk, OwnersInv, NEW c \in Conns, Login(c)
    PROVE  /\ OwnersInv' /\ ThreadsOk'
           /\ \A d \in Conns \ {c} : threads'[d] = threads[d]
           /\ threads'[c].pc = "welcome" /\ threads[c].pc = "login"
           /\ threads'[c].id = next_client_id
           /\ threads'[c].target = INVALID_CLIENT_ID
           /\ next_client_id' = next_client_id + 1
<1>1. PICK name \in Usernames : add_client(name)
  BY DEF Login
<1>2. /\ clients \in [ClientSlots -> Client] /\ next_client_id \in Nat
      /\ allocate_client_id \in ClientIds
      /\ next_client_id' = next_client_id + 1
  BY <1>1 DEF ClientsInv, ClientsTypeOK, add_client
<1>3. PICK i \in ClientSlots : i = NewSlot /\ ~clients[i].active
  <2>1. FreeClientSlots # {} /\ FreeClientSlots \in SUBSET ClientSlots
    BY <1>1 DEF add_client, AddClientResult, FreeClientSlots
  <2>2. NewSlot \in FreeClientSlots
    BY <2>1, FirstClient DEF NewSlot
  <2>3. QED
    BY <2>2 DEF FreeClientSlots
<1>4. /\ clients'[i].active /\ clients'[i].id = next_client_id
      /\ ~clients'[i].ready /\ ~clients'[i].outgoing_failed
      /\ \A j \in ClientSlots \ {i} : clients'[j] = clients[j]
  BY <1>1, <1>2, <1>3 DEF add_client, allocate_client_id
<1> DEFINE th == Thread("welcome", i, next_client_id, threads[c].budget)
<1>5. threads[c].budget \in Int
  BY DEF ThreadsOk, ThreadOk, ThreadRecord
<1>6. /\ th \in ThreadRecord /\ th.pc = "welcome" /\ th.slot = i
      /\ th.id = next_client_id /\ next_client_id \in ClientIds
      /\ th.target = INVALID_CLIENT_ID
  <2>1. PICK id \in ClientIds : id = next_client_id
    BY <1>2 DEF allocate_client_id
  <2>2. "welcome" \in Named
    BY DEF Named, Owning
  <2>3. th = Thread("welcome", i, id, threads[c].budget)
    BY <2>1
  <2> HIDE DEF th
  <2>4. QED
    BY <1>5, <2>1, <2>2, <2>3, FreshThread
<1>7. threads' = [threads EXCEPT ![c] = th] /\ threads[c].pc = "login"
  BY <1>3 DEF Login, allocate_client_id, At
<1> HIDE DEF th
<1>8. ThreadOk(th)
  BY <1>6 DEF ThreadOk, Named, Owning, Handling, Beginning
<1>9. /\ ThreadsOk' /\ threads'[c] = th
      /\ \A d \in Conns \ {c} : threads'[d] = threads[d]
  BY ZenonT(40), <1>7, <1>8, OneThread
<1>10. \A d \in Conns :
          /\ threads[d].pc \in Owning => threads[d].slot # i
          /\ threads[d].slot \in ClientSlots
          /\ threads[d].id # next_client_id
          /\ threads[d].pc \in Owning => threads[d].pc \in Named
  <2>1. \A d \in Conns :
           /\ threads[d].slot \in ClientSlots
           /\ threads[d].id \in ClientIds \union {INVALID_CLIENT_ID}
           /\ threads[d].pc \in Named <=> threads[d].id \in ClientIds
    BY DEF ThreadsOk, ThreadOk, ThreadRecord
  <2>2. ASSUME NEW d \in Conns PROVE threads[d].id # next_client_id
    <3>1. CASE threads[d].pc \in Named
      BY <1>2, <2>1, <3>1, ClientIdsAssumption DEF OwnersInv
    <3>2. CASE threads[d].pc \notin Named
      BY <1>6, <2>1, <3>2
    <3>3. QED
      BY <3>1, <3>2
  <2>3. QED
    BY <1>3, <2>1, <2>2 DEF OwnersInv, Named
<1>11. \A d \in Conns : threads[d].pc \in Named =>
          threads[d].id \in Nat /\ threads[d].id < next_client_id
  BY ClientIdsAssumption DEF OwnersInv, ThreadsOk, ThreadOk
<1>12. OwnersInv'
  <2>1. \A d \in Conns :
           threads'[d].pc \in Named => threads'[d].id < next_client_id'
    BY <1>2, <1>6, <1>9, <1>11
  <2>2. \A d, e \in Conns :
           threads'[d].pc \in Named /\ threads'[d].id = threads'[e].id => d = e
    BY <1>6, <1>9, <1>10 DEF OwnersInv
  <2>3. \A d \in Conns :
           threads'[d].pc \in Owning =>
              /\ clients'[threads'[d].slot].active
              /\ clients'[threads'[d].slot].id = threads'[d].id
    BY <1>4, <1>6, <1>9, <1>10 DEF OwnersInv
  <2>4. \A d \in Conns :
           threads'[d].pc = "welcome" =>
              /\ ~clients'[threads'[d].slot].ready
              /\ ~clients'[threads'[d].slot].outgoing_failed
    BY <1>4, <1>6, <1>9, <1>10 DEF OwnersInv, Owning
  <2>5. \A j \in ClientSlots :
           clients'[j].active =>
              \E d \in Conns : threads'[d].pc \in Owning /\ threads'[d].slot = j
    <3>1. "welcome" \in Owning /\ "login" \notin Owning
      BY DEF Owning, Handling
    <3>2. QED
      BY <1>4, <1>6, <1>7, <1>9, <3>1 DEF OwnersInv
  <2>6. QED
    BY <2>1, <2>2, <2>3, <2>4, <2>5 DEF OwnersInv
<1>13. QED
  BY <1>2, <1>6, <1>7, <1>9, <1>12

\* A client is owned by one thread.
LEMMA SlotsNotShared ==
    ASSUME OwnersInv, NEW c \in Conns, NEW d \in Conns, c # d,
           threads[c].pc \in Owning, threads[d].pc \in Owning
    PROVE  threads[c].slot # threads[d].slot
BY DEF OwnersInv, Named

LEMMA WelcomeKeepsOwners ==
    ASSUME ClientsInv, ThreadsOk, OwnersInv, NEW c \in Conns, Welcome(c)
    PROVE  OwnersInv' /\ ThreadsOk' /\ OwnerActivates(threads[c].slot)
<1>1. PICK th : Continues(c, th) /\ th.pc = "serve"
  BY GotoContinues DEF Welcome, At
<1>2. /\ ThreadsOk' /\ threads'[c] = th
      /\ \A d \in Conns \ {c} : threads'[d] = threads[d]
      /\ th.id = threads[c].id /\ th.slot = threads[c].slot
  BY ZenonT(40), <1>1, OneThread DEF Continues
<1>3. PICK i \in ClientSlots : i = threads[c].slot
  BY DEF ThreadsOk, ThreadOk, ThreadRecord
<1>4. /\ clients \in [ClientSlots -> Client] /\ threads[c].pc = "welcome"
      /\ clients' = [clients EXCEPT ![i].ready = TRUE]
      /\ UNCHANGED next_client_id
  BY <1>3 DEF ClientsInv, ClientsTypeOK, Welcome, activate_client, At
<1>5. /\ \A j \in ClientSlots :
            clients'[j].active = clients[j].active /\ clients'[j].id = clients[j].id
      /\ \A j \in ClientSlots \ {i} : clients'[j] = clients[j]
  BY <1>4 DEF Client
<1>6. \A d \in Conns :
         /\ threads'[d].id = threads[d].id /\ threads'[d].slot = threads[d].slot
         /\ threads'[d].pc \in Owning <=> threads[d].pc \in Owning
         /\ threads'[d].pc \in Named <=> threads[d].pc \in Named
         /\ threads[d].slot \in ClientSlots
  <2>1. \A d \in Conns : threads[d].slot \in ClientSlots
    BY DEF ThreadsOk, ThreadOk, ThreadRecord
  <2>2. QED
    BY <1>1, <1>2, <1>4, <2>1 DEF Named, Owning, Handling
<1>7. \A d \in Conns :
         threads'[d].pc = "welcome" =>
            d # c /\ threads[d].pc = "welcome" /\ threads[d].slot # i
  BY <1>1, <1>2, <1>3, <1>4, SlotsNotShared DEF Owning
<1>8. OwnersInv'
  BY <1>4, <1>5, <1>6, <1>7 DEF OwnersInv
<1>9. OwnerActivates(threads[c].slot)
  BY <1>4 DEF OwnerActivates, Welcome, OwnersInv
<1>10. QED
  BY <1>2, <1>8, <1>9

\* The owner of a client removes it.
LEMMA RemovalKeepsOwners ==
    ASSUME ClientsInv, ThreadsOk, OwnersInv, NEW c \in Conns, NEW th,
           threads[c].pc \in Owning, remove_client(threads[c].slot),
           threads' = [threads EXCEPT ![c] = th], ThreadOk(th),
           th.pc \notin Owning, th.pc \in Named => th.id = threads[c].id
    PROVE  OwnersInv'
<1>1. /\ threads'[c] = th
      /\ \A d \in Conns \ {c} : threads'[d] = threads[d]
  BY ZenonT(40), OneThread
<1>2. PICK i \in ClientSlots : i = threads[c].slot
  BY DEF ThreadsOk, ThreadOk, ThreadRecord
<1>3. /\ clients \in [ClientSlots -> Client]
      /\ clients' = [clients EXCEPT ![i] = FreeClient]
      /\ UNCHANGED next_client_id /\ ~FreeClient.active
  BY <1>2 DEF ClientsInv, ClientsTypeOK, remove_client, FreeClient
<1>4. /\ ~clients'[i].active
      /\ \A j \in ClientSlots \ {i} : clients'[j] = clients[j]
  BY <1>3
<1>5. \A d \in Conns :
         /\ threads[d].slot \in ClientSlots
         /\ d # c /\ threads[d].pc \in Owning => threads[d].slot # i
         /\ threads[d].pc \in Named <=> threads[d].id \in ClientIds
  BY <1>2, SlotsNotShared DEF ThreadsOk, ThreadOk, ThreadRecord
<1>6. /\ threads[c].pc \in Named
      /\ th.pc \in Named <=> th.id \in ClientIds
      /\ "welcome" \in Owning
  BY DEF Named, ThreadOk, Owning
<1>7. \A d, e \in Conns :
         threads'[d].pc \in Named /\ threads'[d].id = threads'[e].id => d = e
  BY <1>1, <1>5, <1>6 DEF OwnersInv
<1>8. \A d \in Conns :
         threads'[d].pc \in Owning =>
            d # c /\ threads[d].pc \in Owning /\ threads'[d] = threads[d]
  BY <1>1
<1>9. \A j \in ClientSlots :
         clients'[j].active =>
            \E d \in Conns : threads'[d].pc \in Owning /\ threads'[d].slot = j
  BY <1>1, <1>2, <1>4 DEF OwnersInv
<1>10. \A d \in Conns :
          threads'[d].pc \in Named => threads'[d].id < next_client_id'
  BY <1>1, <1>3, <1>6 DEF OwnersInv
<1>11. \A d \in Conns :
          threads'[d].pc \in Owning =>
             /\ clients'[threads'[d].slot].active
             /\ clients'[threads'[d].slot].id = threads'[d].id
  BY <1>4, <1>5, <1>8 DEF OwnersInv
<1>12. \A d \in Conns :
          threads'[d].pc = "welcome" =>
             /\ ~clients'[threads'[d].slot].ready
             /\ ~clients'[threads'[d].slot].outgoing_failed
  <2>1. SUFFICES ASSUME NEW d \in Conns, threads'[d].pc = "welcome"
                 PROVE  /\ ~clients'[threads'[d].slot].ready
                        /\ ~clients'[threads'[d].slot].outgoing_failed
    BY Zenon
  <2>2. /\ d # c /\ threads[d].pc \in Owning
        /\ threads'[d] = threads[d] /\ threads[d].pc = "welcome"
    BY Zenon, <1>6, <1>8, <2>1
  <2>3. clients'[threads[d].slot] = clients[threads[d].slot]
    BY Zenon, <1>4, <1>5, <2>2
  <2>4. ~clients[threads[d].slot].ready /\ ~clients[threads[d].slot].outgoing_failed
    BY Zenon, <2>2 DEF OwnersInv
  <2>5. QED
    BY Zenon, <2>2, <2>3, <2>4
<1>13. QED
  BY Zenon, <1>7, <1>9, <1>10, <1>11, <1>12 DEF OwnersInv

\* A step of a thread that owns no client.
LEMMA GoneKeepsOwners ==
    ASSUME ThreadsOk, OwnersInv, NEW c \in Conns, NEW th,
           threads[c].pc \notin Owning, OwnersKept,
           threads' = [threads EXCEPT ![c] = th], ThreadOk(th),
           th.pc \notin Owning,
           th.pc \in Named => threads[c].pc \in Named /\ th.id = threads[c].id
    PROVE  OwnersInv'
<1>1. /\ threads'[c] = th
      /\ \A d \in Conns \ {c} : threads'[d] = threads[d]
  BY ZenonT(40), OneThread
<1>2. /\ \A d \in Conns :
            /\ threads[d].slot \in ClientSlots
            /\ threads[d].pc \in Named <=> threads[d].id \in ClientIds
      /\ th.pc \in Named <=> th.id \in ClientIds
      /\ "welcome" \in Owning
  BY DEF ThreadsOk, ThreadOk, ThreadRecord, Owning
<1>3. \A d \in Conns :
         threads'[d].pc \in Owning \/ threads[d].pc \in Owning =>
            threads'[d] = threads[d]
  BY <1>1
<1>4. \A d, e \in Conns :
         threads'[d].pc \in Named /\ threads'[d].id = threads'[e].id => d = e
  BY <1>1, <1>2 DEF OwnersInv
<1>5. \A d \in Conns :
         threads'[d].pc \in Named => threads'[d].id < next_client_id'
  BY <1>1 DEF OwnersInv, OwnersKept
<1>6. \A d \in Conns :
         threads'[d].pc \in Owning =>
            /\ clients'[threads'[d].slot].active
            /\ clients'[threads'[d].slot].id = threads'[d].id
  BY <1>2, <1>3 DEF OwnersInv, OwnersKept
<1>7. \A d \in Conns :
         threads'[d].pc = "welcome" =>
            /\ ~clients'[threads'[d].slot].ready
            /\ ~clients'[threads'[d].slot].outgoing_failed
  BY <1>2, <1>3 DEF OwnersInv, OwnersKept
<1>8. \A j \in ClientSlots :
         clients'[j].active =>
            \E d \in Conns : threads'[d].pc \in Owning /\ threads'[d].slot = j
  BY <1>3 DEF OwnersInv, OwnersKept
<1>9. QED
  BY Zenon, <1>4, <1>5, <1>6, <1>7, <1>8 DEF OwnersInv

-----------------------------------------------------------------------------
(***************************************************************************)
(* The routing table.  Except when it adds a route that forwards, a        *)
(* handler of client s only clears routes or makes tombstones of its own.  *)
(***************************************************************************)
SameRoute(i) ==
    /\ routes'[i].mode = routes[i].mode
    /\ routes'[i].sender_id = routes[i].sender_id
    /\ routes'[i].target_id = routes[i].target_id
    /\ routes'[i].source_transfer_id = routes[i].source_transfer_id

RoutesTouched(s) ==
    \A i \in RouteSlots :
        \/ routes'[i] = FreeRoute
        \/ \E t : routes'[i] = DiscardRoute(s, t)
        \/ SameRoute(i)

LEMMA OneRouteTouched ==
    ASSUME RoutesInv, NEW s, NEW t, NEW i \in RouteSlots, NEW route,
           routes' = [routes EXCEPT ![i] = route],
           route \in {FreeRoute, DiscardRoute(s, t)}
    PROVE  RoutesTouched(s) /\ routes'[i] = route
BY DEF RoutesInv, RoutesTypeOK, RoutesTouched, SameRoute

LEMMA NoRouteTouched ==
    ASSUME NEW s, UNCHANGED routes
    PROVE  RoutesTouched(s)
BY DEF RoutesTouched, SameRoute

LEMMA QuarantineTouches ==
    ASSUME RoutesInv, NEW s, NEW t, NEW keep,
           file_routes_quarantine(s, t, keep)
    PROVE  /\ RoutesTouched(s)
           /\ \A i \in RouteSlots :
                 /\ routes'[i].mode = "live"
                 /\ routes'[i].sender_id = s
                 => routes'[i].source_transfer_id # t
<1>1. CASE HasRoute(s, t)
  <2>1. find_route(s, t) \in RouteSlots
    BY <1>1, FindRoute
  <2>2. PICK route \in {FreeRoute, DiscardRoute(s, t)} :
           routes' = [routes EXCEPT ![find_route(s, t)] = route]
    BY <1>1 DEF file_routes_quarantine
  <2>3. RoutesTouched(s) /\ routes'[find_route(s, t)] = route
    BY Zenon, <2>1, <2>2, OneRouteTouched
  <2>4. route.mode # "live"
    BY DEF FreeRoute, DiscardRoute
  <2>5. \A i \in RouteSlots \ {find_route(s, t)} :
           routes'[i] = routes[i] /\ i \notin RoutesFor(s, t)
    BY <1>1, <2>1, <2>2, FoundIsOnly DEF RoutesInv, RoutesTypeOK
  <2>6. QED
    BY <2>1, <2>3, <2>4, <2>5 DEF RoutesFor
<1>2. CASE ~HasRoute(s, t)
  <2>1. \A i \in RouteSlots : i \notin RoutesFor(s, t)
    BY <1>2 DEF HasRoute
  <2>2. CASE UNCHANGED routes
    BY <2>1, <2>2, NoRouteTouched DEF RoutesFor
  <2>3. CASE /\ FreeSlots # {}
             /\ routes' = [routes EXCEPT ![find_free_route] =
                              DiscardRoute(s, t)]
    <3>1. find_free_route \in RouteSlots /\ DiscardRoute(s, t).mode # "live"
      BY <2>3, FindFreeRoute DEF DiscardRoute
    <3>2. /\ RoutesTouched(s)
          /\ routes'[find_free_route] = DiscardRoute(s, t)
      BY Zenon, <2>3, <3>1, OneRouteTouched
    <3>3. \A i \in RouteSlots \ {find_free_route} : routes'[i] = routes[i]
      BY <2>3, <3>1 DEF RoutesInv, RoutesTypeOK
    <3>4. QED
      BY <2>1, <3>1, <3>2, <3>3 DEF RoutesFor
  <2>4. QED
    BY <1>2, <2>2, <2>3 DEF file_routes_quarantine
<1>3. QED
  BY <1>1, <1>2

LEMMA ChunkTouches ==
    ASSUME RoutesInv, NEW s, NEW t, NEW length,
           file_routes_accept_chunk(s, t, length)
    PROVE  RoutesTouched(s)
<1>1. CASE UNCHANGED routes
  BY <1>1, NoRouteTouched
<1>2. CASE /\ FreeSlots # {}
           /\ routes' = [routes EXCEPT ![find_free_route] = DiscardRoute(s, t)]
  BY Zenon, <1>2, FindFreeRoute, OneRouteTouched
<1>3. CASE /\ HasRoute(s, t)
           /\ routes' = [routes EXCEPT ![find_route(s, t)] = DiscardRoute(s, t)]
  BY Zenon, <1>3, FindRoute, OneRouteTouched
<1>4. CASE /\ HasRoute(s, t)
           /\ routes' = [routes EXCEPT ![find_route(s, t)].forwarded_size =
                            @ + length]
  <2>1. find_route(s, t) \in RouteSlots
    BY <1>4, FindRoute
  <2>2. routes \in [RouteSlots -> FileRoute]
    BY DEF RoutesInv, RoutesTypeOK
  <2>3. QED
    BY <1>4, <2>1, <2>2 DEF FileRoute, RoutesTouched, SameRoute
<1>5. QED
  BY <1>1, <1>2, <1>3, <1>4 DEF file_routes_accept_chunk, ChunkResult

LEMMA CloseTouches ==
    ASSUME RoutesInv, NEW s, NEW t, NEW outbound,
           \/ file_routes_finish(s, t)
           \/ file_routes_mark_forward_failed(s, t, outbound)
    PROVE  RoutesTouched(s)
<1>1. CASE UNCHANGED routes
  BY <1>1, NoRouteTouched
<1>2. CASE /\ HasRoute(s, t)
           /\ \E route \in {FreeRoute, DiscardRoute(s, t)} :
                 routes' = [routes EXCEPT ![find_route(s, t)] = route]
  BY Zenon, <1>2, FindRoute, OneRouteTouched
<1>3. QED
  BY <1>1, <1>2 DEF file_routes_finish, file_routes_mark_forward_failed,
     ForwardFailureConverts, HasLiveRoute

\* A begin frame adds a route that forwards, or touches routes as above.
LEMMA AddTouches ==
    ASSUME RoutesInv, NEW s, NEW t, NEW target, NEW size, NEW discard,
           file_routes_add(s, t, target, size, discard)
    PROVE  IF AddResult(s, t, discard) = "READY"
           THEN \E i \in RouteSlots :
                   /\ routes'[i] = LiveRoute(s, t, target, size,
                                             allocate_outbound_id)
                   /\ \A j \in RouteSlots \ {i} : routes'[j] = routes[j]
           ELSE RoutesTouched(s)
<1>1. CASE AddResult(s, t, discard) = "READY"
  <2>1. FreeSlots # {} /\ allocate_outbound_id # 0
    BY <1>1 DEF AddResult
  <2>2. routes' = [routes EXCEPT ![find_free_route] =
                      LiveRoute(s, t, target, size, allocate_outbound_id)]
    BY <1>1, <2>1 DEF file_routes_add
  <2>3. routes \in [RouteSlots -> FileRoute] /\ find_free_route \in RouteSlots
    BY <2>1, FindFreeRoute DEF RoutesInv, RoutesTypeOK
  <2>4. QED
    BY <1>1, <2>2, <2>3
<1>2. CASE AddResult(s, t, discard) # "READY"
  <2>1. CASE UNCHANGED routes
    BY <1>2, <2>1, NoRouteTouched
  <2>2. CASE /\ HasRoute(s, t)
             /\ routes' = [routes EXCEPT ![find_route(s, t)] =
                              DiscardRoute(s, t)]
    BY Zenon, <1>2, <2>2, FindRoute, OneRouteTouched
  <2>3. CASE /\ FreeSlots # {}
             /\ routes' = [routes EXCEPT ![find_free_route] =
                              DiscardRoute(s, t)]
    BY Zenon, <1>2, <2>3, FindFreeRoute, OneRouteTouched
  <2>4. QED
    BY <1>2, <2>1, <2>2, <2>3 DEF file_routes_add, AddResult, routeVars
<1>3. QED
  BY <1>1, <1>2

-----------------------------------------------------------------------------
(***************************************************************************)
(* Known ids stay known.                                                   *)
(***************************************************************************)
LEMMA NobodyIsKnown ==
    ASSUME ClientsInv, ThreadsOk
    PROVE  Known(INVALID_CLIENT_ID)
<1>1. 0 \in 0 .. next_client_id - 1
  BY DEF ClientsInv, ClientsTypeOK
<1>2. \A c \in Conns : threads[c].pc = "welcome" =>
         threads[c].id \in ClientIds
  BY DEF ThreadsOk, ThreadOk, Named, Owning
<1>3. QED
  BY <1>1, <1>2, ClientIdsAssumption DEF Known, INVALID_CLIENT_ID

\* A thread that handles frames is known by its id.
LEMMA HandlerIsKnown ==
    ASSUME ClientsInv, ThreadsOk, OwnersInv,
           NEW c \in Conns, threads[c].pc \in Handling
    PROVE  Known(threads[c].id)
<1>1. threads[c].pc \in Named /\ threads[c].pc # "welcome"
  BY DEF Named, Owning, Handling
<1>2. /\ threads[c].id \in Nat /\ threads[c].id < next_client_id
      /\ next_client_id \in Nat
  BY <1>1, ClientIdsAssumption DEF OwnersInv, ThreadsOk, ThreadOk, ClientsInv,
     ClientsTypeOK
<1>3. QED
  BY <1>1, <1>2 DEF OwnersInv, Known

\* So is a client that find_client_id finds.
LEMMA FoundIsKnown ==
    ASSUME ClientsInv, ThreadsOk, OwnersInv, NEW name
    PROVE  /\ Known(find_client_id(name))
           /\ find_client_id(name) \in ClientIds \union {INVALID_CLIENT_ID}
<1>1. CASE SlotsNamed(name) = {}
  BY <1>1, NobodyIsKnown DEF find_client_id
<1>2. CASE SlotsNamed(name) # {}
  <2>1. SlotsNamed(name) \in SUBSET ClientSlots
    BY DEF SlotsNamed
  <2>2. PICK i \in ClientSlots : i = Min(SlotsNamed(name))
                                 /\ i \in SlotsNamed(name)
    BY <1>2, <2>1, FirstClient
  <2>3. /\ clients[i].active /\ clients[i].ready
        /\ find_client_id(name) = clients[i].id
    BY <1>2, <2>2 DEF SlotsNamed, find_client_id
  <2>4. clients[i].id \in 0 .. next_client_id - 1
    BY <2>3 DEF ClientsInv, ClientsDistinct, ClientsTypeOK
  <2>5. clients[i].id \in ClientIds \union {INVALID_CLIENT_ID}
    BY DEF ClientsInv, ClientsTypeOK, Client
  <2>6. ASSUME NEW c \in Conns, threads[c].pc = "welcome"
        PROVE  threads[c].id # clients[i].id
    <3>1. /\ threads[c].slot \in ClientSlots
          /\ clients[threads[c].slot].active
          /\ ~clients[threads[c].slot].ready
          /\ clients[threads[c].slot].id = threads[c].id
      BY <2>6 DEF ThreadsOk, ThreadOk, ThreadRecord, OwnersInv, Owning
    <3>2. QED
      BY <2>3, <3>1 DEF ClientsInv, ClientsDistinct
  <2>7. QED
    BY <2>3, <2>4, <2>5, <2>6 DEF Known
<1>3. QED
  BY <1>1, <1>2

-----------------------------------------------------------------------------
(***************************************************************************)
(* What is to be shown of every step.                                      *)
(***************************************************************************)
Progress ==
    /\ ThreadsOk' /\ OwnersInv'
    /\ NoOrphanRoute' /\ BeginTargets' /\ KnownIds'
    /\ [RoutesNext]_routeVars /\ [ClientsNext]_clientVars

LEMMA RouteFields ==
    ASSUME NEW s, NEW t
    PROVE  /\ FreeRoute.mode = "free"
           /\ FreeRoute.sender_id = INVALID_CLIENT_ID
           /\ FreeRoute.target_id = INVALID_CLIENT_ID
           /\ DiscardRoute(s, t).mode = "discard"
           /\ DiscardRoute(s, t).sender_id = s
           /\ DiscardRoute(s, t).target_id = INVALID_CLIENT_ID
BY DEF FreeRoute, DiscardRoute

LEMMA TouchedRoute ==
    ASSUME NEW s, RoutesTouched(s), NEW i \in RouteSlots
    PROVE  \/ /\ routes'[i].mode = "free"
              /\ routes'[i].sender_id = INVALID_CLIENT_ID
              /\ routes'[i].target_id = INVALID_CLIENT_ID
           \/ /\ routes'[i].mode = "discard" /\ routes'[i].sender_id = s
              /\ routes'[i].target_id = INVALID_CLIENT_ID
           \/ SameRoute(i)
<1>1. CASE routes'[i] = FreeRoute
  BY <1>1, RouteFields
<1>2. ASSUME NEW t, routes'[i] = DiscardRoute(s, t)
      PROVE  /\ routes'[i].mode = "discard" /\ routes'[i].sender_id = s
             /\ routes'[i].target_id = INVALID_CLIENT_ID
  BY <1>2, RouteFields
<1>3. QED
  BY Zenon, <1>1, <1>2 DEF RoutesTouched

\* What NoOrphanRoute says of a route, given the threads.
ServedIn(ths, id) ==
    \E d \in Conns : ths[d].id = id /\ ths[d].pc \notin Gone
BegunIn(ths, r) ==
    \E d \in Conns : /\ ths[d].id = r.sender_id
                     /\ ths[d].transfer = r.source_transfer_id
                     /\ ths[d].pc \in Beginning
KeptIn(ths, r) ==
    /\ ServedIn(ths, r.sender_id)
    /\ r.mode = "live" => ServedIn(ths, r.target_id) \/ BegunIn(ths, r)

LEMMA OrphansNow ==
    ASSUME NoOrphanRoute, NEW i \in RouteSlots, routes[i].mode # "free"
    PROVE  KeptIn(threads, routes[i])
BY DEF NoOrphanRoute, HasThread, IsLive, Beginning, KeptIn, ServedIn, BegunIn

LEMMA OrphansNext ==
    ASSUME \A i \in RouteSlots :
              routes'[i].mode # "free" => KeptIn(threads', routes'[i])
    PROVE  NoOrphanRoute'
BY DEF NoOrphanRoute, HasThread, IsLive, Beginning, KeptIn, ServedIn, BegunIn

\* A step of a handler that adds no route that forwards.
LEMMA HandlerProgress ==
    ASSUME RelayInv, NEW c \in Conns, NEW th,
           threads[c].pc \in Handling, Continues(c, th), OwnersKept,
           RoutesTouched(threads[c].id), Known(th.target),
           [RoutesNext]_routeVars, [ClientsNext]_clientVars,
           th.pc \in Beginning =>
              /\ threads[c].pc \in Beginning
              /\ th.transfer = threads[c].transfer
              /\ th.target = threads[c].target,
           threads[c].pc \in Beginning /\ th.pc \notin Beginning =>
              \A i \in RouteSlots :
                 /\ routes'[i].mode = "live"
                 /\ routes'[i].sender_id = threads[c].id
                 /\ routes'[i].source_transfer_id = threads[c].transfer
                 => HasThread(routes'[i].target_id)
    PROVE  Progress
<1>1. /\ ThreadsOk /\ OwnersInv /\ NoOrphanRoute /\ BeginTargets /\ KnownIds
      /\ ClientsInv
  BY DEF RelayInv
<1>2. /\ threads'[c] = th /\ ThreadsOk' /\ OwnersInv'
      /\ \A d \in Conns \ {c} : threads'[d] = threads[d]
      /\ th.id = threads[c].id /\ th.pc \in Handling
  BY ZenonT(40), <1>1, OneThread, HandlerKeepsOwners DEF Continues
<1>3. /\ th.pc \notin Gone /\ th.pc # "welcome" /\ threads[c].pc # "welcome"
      /\ threads[c].id \in ClientIds
  BY <1>1, <1>2 DEF Gone, Handling, ThreadsOk, ThreadOk, Named, Owning
<1>4. ASSUME NEW id, ServedIn(threads, id) PROVE ServedIn(threads', id)
  BY <1>2, <1>3, <1>4 DEF ServedIn
<1>5. ASSUME NEW id, Known(id)
      PROVE  /\ id \in 0 .. next_client_id' - 1
             /\ \A d \in Conns : threads'[d].pc = "welcome" => threads'[d].id # id
  <2>1. id \in 0 .. next_client_id' - 1
    BY <1>5 DEF Known, OwnersKept
  <2>2. \A d \in Conns : threads'[d].pc = "welcome" => threads'[d].id # id
    BY Zenon, <1>2, <1>3, <1>5 DEF Known
  <2>3. QED
    BY Zenon, <2>1, <2>2
<1>6. Known(INVALID_CLIENT_ID) /\ Known(threads[c].id)
  BY <1>1, NobodyIsKnown, HandlerIsKnown
<1>7. ASSUME NEW i \in RouteSlots
      PROVE  \/ /\ routes'[i].mode = "free"
                /\ routes'[i].sender_id = INVALID_CLIENT_ID
                /\ routes'[i].target_id = INVALID_CLIENT_ID
             \/ /\ routes'[i].mode = "discard"
                /\ routes'[i].sender_id = threads[c].id
                /\ routes'[i].target_id = INVALID_CLIENT_ID
             \/ SameRoute(i)
  BY Zenon, <1>7, TouchedRoute
<1>8. NoOrphanRoute'
  <2> SUFFICES ASSUME NEW i \in RouteSlots, routes'[i].mode # "free"
               PROVE  KeptIn(threads', routes'[i])
    BY Zenon, OrphansNext
  <2>1. CASE routes'[i].mode = "discard" /\ routes'[i].sender_id = threads[c].id
    <3>1. ServedIn(threads', threads[c].id)
      BY <1>2, <1>3 DEF ServedIn
    <3>2. QED
      BY Zenon, <2>1, <3>1 DEF KeptIn
  <2>2. CASE SameRoute(i)
    <3>1. KeptIn(threads, routes'[i])
      <4>1. routes[i].mode # "free"
        BY Zenon, <2>2 DEF SameRoute
      <4>2. KeptIn(threads, routes[i])
        BY Zenon, <1>1, <4>1, OrphansNow
      <4>3. QED
        BY Zenon, <2>2, <4>2 DEF SameRoute, KeptIn, BegunIn
    <3>2. CASE routes'[i].mode # "live" \/ ServedIn(threads, routes'[i].target_id)
      BY Zenon, <1>4, <3>1, <3>2 DEF KeptIn
    <3>3. CASE routes'[i].mode = "live" /\ ~ServedIn(threads, routes'[i].target_id)
      <4>1. PICK d \in Conns :
               /\ threads[d].id = routes'[i].sender_id
               /\ threads[d].transfer = routes'[i].source_transfer_id
               /\ threads[d].pc \in Beginning
        BY Zenon, <3>1, <3>3 DEF KeptIn, BegunIn
      <4>2. CASE d # c
        <5>1. BegunIn(threads', routes'[i])
          BY Zenon, <1>2, <4>1, <4>2 DEF BegunIn
        <5>2. QED
          BY Zenon, <1>4, <3>1, <5>1 DEF KeptIn
      <4>3. CASE d = c
        <5>1. ~HasThread(routes'[i].target_id)
          BY Zenon, <3>3 DEF HasThread, ServedIn
        <5>2. th.pc \in Beginning
          BY Zenon, <3>3, <4>1, <4>3, <5>1
        <5>3. BegunIn(threads', routes'[i])
          BY Zenon, <1>2, <4>1, <4>3, <5>2 DEF BegunIn
        <5>4. QED
          BY Zenon, <1>4, <3>1, <5>3 DEF KeptIn
      <4>4. QED
        BY Zenon, <4>2, <4>3
    <3>4. QED
      BY Zenon, <3>2, <3>3
  <2>3. QED
    BY Zenon, <1>7, <2>1, <2>2
<1>9. BeginTargets'
  <2> SUFFICES ASSUME NEW d \in Conns, NEW i \in RouteSlots,
                      threads'[d].pc \in Beginning, routes'[i].mode = "live",
                      routes'[i].sender_id = threads'[d].id,
                      routes'[i].source_transfer_id = threads'[d].transfer
               PROVE  routes'[i].target_id = threads'[d].target
    BY Zenon DEF BeginTargets, IsLive
  <2>1. SameRoute(i)
    BY Zenon, <1>7
  <2>2. /\ threads[d].pc \in Beginning /\ threads'[d].id = threads[d].id
        /\ threads'[d].transfer = threads[d].transfer
        /\ threads'[d].target = threads[d].target
    BY <1>2
  <2>3. QED
    BY ZenonT(40), <1>1, <2>1, <2>2 DEF BeginTargets, SameRoute, IsLive
<1>10. KnownIds'
  <2>1. ASSUME NEW d \in Conns PROVE Known(threads'[d].target)
    BY ZenonT(40), <1>1, <1>2 DEF KnownIds
  <2>2. ASSUME NEW i \in RouteSlots
        PROVE  /\ Known(routes'[i].sender_id) /\ Known(routes'[i].target_id)
               /\ routes'[i].mode # "free" => routes'[i].sender_id \in ClientIds
    <3>1. CASE /\ routes'[i].mode = "free"
               /\ routes'[i].sender_id = INVALID_CLIENT_ID
               /\ routes'[i].target_id = INVALID_CLIENT_ID
      BY Zenon, <1>6, <3>1
    <3>2. CASE /\ routes'[i].mode = "discard"
               /\ routes'[i].sender_id = threads[c].id
               /\ routes'[i].target_id = INVALID_CLIENT_ID
      BY Zenon, <1>3, <1>6, <3>2
    <3>3. CASE SameRoute(i)
      BY Zenon, <1>1, <3>3 DEF KnownIds, SameRoute
    <3>4. QED
      BY ZenonT(40), <1>7, <3>1, <3>2, <3>3
  <2>3. QED
    BY ZenonT(40), <1>5, <2>1, <2>2 DEF KnownIds, Known
<1>11. QED
  BY <1>2, <1>8, <1>9, <1>10 DEF Progress

\* A step of a thread outside of the handlers, which touches no route: the
\* thread stays, or no route names its client.
LEMMA ThreadProgress ==
    ASSUME RelayInv, NEW c \in Conns, NEW th,
           threads' = [threads EXCEPT ![c] = th], ThreadOk(th),
           OwnersInv', UNCHANGED routeVars, [ClientsNext]_clientVars,
           threads[c].pc \notin Beginning, th.pc \notin Beginning,
           Known(th.target),
           \A id : Known(id) => Known(id)',
           \/ threads[c].pc \in Gone
           \/ th.pc \notin Gone /\ th.id = threads[c].id
           \/ \A i \in RouteSlots :
                 routes[i].mode # "free" =>
                    /\ routes[i].sender_id # threads[c].id
                    /\ IsLive(i) => routes[i].target_id # threads[c].id
    PROVE  Progress
<1>1. /\ ThreadsOk /\ NoOrphanRoute /\ BeginTargets /\ KnownIds
      /\ routes' = routes
  BY DEF RelayInv, routeVars
<1>2. /\ threads'[c] = th /\ ThreadsOk'
      /\ \A d \in Conns \ {c} : threads'[d] = threads[d]
  BY ZenonT(40), <1>1, OneThread
<1>3. ASSUME NEW id, ServedIn(threads, id),
             \/ id # threads[c].id \/ threads[c].pc \in Gone
             \/ th.pc \notin Gone /\ th.id = threads[c].id
      PROVE  ServedIn(threads', id)
  BY Zenon, <1>2, <1>3 DEF ServedIn
<1>4. ASSUME NEW i \in RouteSlots, routes[i].mode # "free"
      PROVE  KeptIn(threads', routes[i])
  <2>1. KeptIn(threads, routes[i])
    BY <1>1, <1>4, OrphansNow
  <2>2. ServedIn(threads', routes[i].sender_id)
    BY Zenon, <1>3, <1>4, <2>1 DEF KeptIn
  <2>3. ASSUME routes[i].mode = "live", ServedIn(threads, routes[i].target_id)
        PROVE  ServedIn(threads', routes[i].target_id)
    BY Zenon, <1>3, <1>4, <2>3 DEF IsLive
  <2>4. ASSUME BegunIn(threads, routes[i]) PROVE BegunIn(threads', routes[i])
    BY <1>2, <2>4 DEF BegunIn
  <2>5. QED
    BY Zenon, <2>1, <2>2, <2>3, <2>4 DEF KeptIn
<1>5. NoOrphanRoute'
  BY Zenon, <1>1, <1>4, OrphansNext
<1>6. BeginTargets'
  BY <1>1, <1>2 DEF BeginTargets, IsLive
<1>7. KnownIds'
  <2>1. ASSUME NEW d \in Conns PROVE Known(threads'[d].target)
    BY <1>1, <1>2 DEF KnownIds
  <2>2. QED
    BY Zenon, <1>1, <2>1 DEF KnownIds, Known
<1>8. QED
  BY Zenon, <1>2, <1>5, <1>6, <1>7 DEF Progress

LEMMA RegistryUntouched ==
    ASSUME UNCHANGED clientVars
    PROVE  OwnersKept /\ [ClientsNext]_clientVars
BY DEF OwnersKept, clientVars

LEMMA SendIsQueueing ==
    ASSUME ClientsInv, NEW to \in ClientIds, NEW frame \in RelayFrames,
           SendSucceeds(to, frame) \/ SendFails(to)
    PROVE  OwnersKept /\ [ClientsNext]_clientVars
<1>1. Enqueue(to, frame) \/ EnqueueFails(to)
  BY DEF SendSucceeds, SendFails
<1>2. frame \in Frames
  BY FramesOk
<1>3. ClientsNext
  BY <1>1, <1>2 DEF ClientsNext, queue_frame_to_client_id
<1>4. QED
  BY <1>1, <1>3, QueueKeepsOwners
=============================================================================
