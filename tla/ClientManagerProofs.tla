------------------------ MODULE ClientManagerProofs ------------------------
(* Proofs about the client registry, for every number of slots, queue limit *)
(* and set of names, keys and frames.                                       *)
EXTENDS ClientManager, WellFoundedInduction, TLAPS

\* Time limits of the provers for a step.
USE SMTT(6), ZenonT(20), SMTT(40)

\* A nonempty set of naturals has a least element, which is what Min
\* returns: a scan for the first qualifying slot ends at a qualifying slot.
LEMMA MinIsLeast ==
    ASSUME NEW S \in SUBSET Nat, S # {}
    PROVE  Min(S) \in S /\ \A x \in S : Min(S) <= x
<1> DEFINE Less == {ss \in Nat \X Nat : ss[1] < ss[2]}
<1>1. IsWellFoundedOn(Less, Nat)
  BY NatLessThanWellFounded, Zenon DEF OpToRel
<1>2. PICK m \in S : \A y \in S : ~(<<y, m>> \in Less)
  BY <1>1, WFMin, Zenon
<1>3. ASSUME NEW y \in S PROVE m <= y
  <2>1. <<y, m>> \in Nat \X Nat /\ ~(<<y, m>> \in Less)
    BY <1>2
  <2>2. ~(<<y, m>>[1] < <<y, m>>[2])
    BY <2>1, Zenon
  <2>3. QED
    BY <2>2
<1>4. QED
  BY Zenon, <1>3 DEF Min

\* A scan of the registry ends at a slot of the set it looks for.
LEMMA FirstClient ==
    ASSUME NEW S \in SUBSET ClientSlots, S # {}
    PROVE  Min(S) \in S /\ Min(S) \in ClientSlots
<1>1. S \in SUBSET Nat
  BY ClientsAssumption DEF ClientSlots
<1>2. QED
  BY Zenon, <1>1, MinIsLeast

\* What one slot must satisfy: the part of the invariant that does not
\* relate two slots.
SlotOk(r) ==
    /\ ~r.active => r = FreeClient
    /\ r.outgoing # <<>> \/ r.public_key # NoKey
          => r.ready \/ r.outgoing_failed
    /\ Len(r.outgoing) <= MAX_OUTGOING_FRAMES
    /\ r.outgoing_failed => /\ r.active /\ ~r.ready
                            /\ Len(r.outgoing) = MAX_OUTGOING_FRAMES

\* The inductive invariant: the four invariants together.  Overflow needs the
\* type, an add needs the slot to be blank, distinctness the bound on ids.
ClientsInv ==
    ClientsTypeOK /\ ClientsDistinct /\ NothingInherited /\ OverflowSealsQueue

LEMMA SlotsOk ==
    ASSUME ClientsTypeOK
    PROVE  NothingInherited /\ OverflowSealsQueue
              <=> \A i \in ClientSlots : SlotOk(clients[i])
BY DEF NothingInherited, OverflowSealsQueue, SlotOk

LEMMA FreeClientOk == FreeClient \in Client /\ SlotOk(FreeClient)
BY ClientsAssumption DEF FreeClient, Client, SlotOk

\* Changing one slot, without changing who holds it, keeps the invariant.
LEMMA ChangeSlot ==
    ASSUME ClientsInv, NEW i \in ClientSlots, NEW new \in Client,
           SlotOk(new),
           clients' = [clients EXCEPT ![i] = new],
           UNCHANGED next_client_id,
           new.active => /\ clients[i].active
                         /\ new.id = clients[i].id
                         /\ new.username = clients[i].username
    PROVE  ClientsInv'
<1>1. ClientsTypeOK'
  BY DEF ClientsInv, ClientsTypeOK
<1>2. \A j \in ClientSlots :
         /\ clients'[j].active => clients[j].active
         /\ clients'[j].active =>
               /\ clients'[j].id = clients[j].id
               /\ clients'[j].username = clients[j].username
  BY DEF ClientsInv, ClientsTypeOK
<1>3. ClientsDistinct'
  BY <1>2 DEF ClientsInv, ClientsDistinct
<1>4. \A j \in ClientSlots : SlotOk(clients[j])
  BY SlotsOk DEF ClientsInv
<1>5. \A j \in ClientSlots : clients'[j] = IF j = i THEN new ELSE clients[j]
  BY DEF ClientsInv, ClientsTypeOK
<1>6. \A j \in ClientSlots : SlotOk(clients'[j])
  BY <1>4, <1>5
<1>7. NothingInherited' /\ OverflowSealsQueue'
  BY <1>6 DEF NothingInherited, OverflowSealsQueue, SlotOk
<1>8. QED
  BY <1>1, <1>3, <1>7 DEF ClientsInv

LEMMA OldSlot ==
    ASSUME ClientsInv, NEW i \in ClientSlots
    PROVE  clients[i] \in Client /\ SlotOk(clients[i])
<1>1. ClientsTypeOK
  BY DEF ClientsInv
<1>2. QED
  BY <1>1, SlotsOk DEF ClientsInv, ClientsTypeOK

-----------------------------------------------------------------------------
\* add_client: the name is taken by nobody, the id is fresh, and the slot it
\* takes is blank, so not resetting the queue there is harmless.
LEMMA AddClientKeepsInv ==
    ASSUME ClientsInv, NEW name \in Usernames, add_client(name)
    PROVE  ClientsInv'
<1> DEFINE k == NewSlot
           new == [active |-> TRUE, ready |-> FALSE, id |-> next_client_id,
                   username |-> name, public_key |-> NoKey,
                   outgoing |-> clients[k].outgoing, outgoing_failed |-> FALSE]
<1>1. AddClientResult(name) = "OK"
  BY DEF add_client
<1>2. ~NameTaken(name) /\ FreeClientSlots # {}
  BY <1>1 DEF AddClientResult
<1>3. k \in ClientSlots /\ ~clients[k].active
  <2>1. FreeClientSlots \in SUBSET ClientSlots
    BY DEF FreeClientSlots
  <2>2. k \in FreeClientSlots
    BY <1>2, <2>1, FirstClient DEF NewSlot
  <2>3. QED
    BY <2>2 DEF FreeClientSlots
<1>4. clients[k] = FreeClient
  BY <1>3, OldSlot DEF SlotOk
<1>5. clients[k].outgoing = <<>>
  BY <1>4 DEF FreeClient
<1>6. clients' = [clients EXCEPT ![k] = new]
  BY DEF add_client, allocate_client_id
<1>7. /\ next_client_id \in ClientIds
      /\ next_client_id' = next_client_id + 1
      /\ next_client_id \in Nat \ {0}
  BY DEF add_client, allocate_client_id, ClientsInv, ClientsTypeOK
<1>8. new \in Client
  BY <1>5, <1>7 DEF Client
<1>9. SlotOk(new)
  BY <1>5, ClientsAssumption DEF SlotOk
<1> HIDE DEF k
<1>10. clients \in [ClientSlots -> Client]
  BY DEF ClientsInv, ClientsTypeOK
<1>11. ClientsTypeOK'
  <2> HIDE DEF new
  <2>1. clients' \in [ClientSlots -> Client]
    BY Zenon, <1>6, <1>8, <1>10
  <2>2. QED
    BY <2>1, <1>7 DEF ClientsTypeOK
<1>12. \A j \in ClientSlots : clients'[j] = IF j = k THEN new ELSE clients[j]
  BY <1>3, <1>6, <1>10
<1>13. NothingInherited' /\ OverflowSealsQueue'
  <2> HIDE DEF new
  <2>1. \A j \in ClientSlots : SlotOk(clients'[j])
    BY <1>9, <1>12, OldSlot
  <2>2. QED
    BY <2>1 DEF NothingInherited, OverflowSealsQueue, SlotOk
<1>14. ClientsDistinct'
  <2>1. \A j \in ClientSlots : clients[j].active =>
           /\ clients[j].id \in 1 .. next_client_id - 1
           /\ clients[j].username # name
    BY <1>2 DEF ClientsInv, ClientsDistinct, NameTaken
  <2>2. \A i, j \in ClientSlots :
           clients[i].active /\ clients[j].active /\
             (clients[i].id = clients[j].id
              \/ clients[i].username = clients[j].username) => i = j
    BY DEF ClientsInv, ClientsDistinct
  <2>3. new.active /\ new.id = next_client_id /\ new.username = name
    OBVIOUS
  <2> HIDE DEF new
  <2>4. QED
    BY <1>7, <1>12, <2>1, <2>2, <2>3 DEF ClientsDistinct
<1>15. QED
  BY <1>11, <1>13, <1>14 DEF ClientsInv

\* activate_client, called by the slot's owner once, before any overflow.
LEMMA ActivateKeepsInv ==
    ASSUME ClientsInv, NEW i \in ClientSlots, OwnerActivates(i)
    PROVE  ClientsInv'
<1> DEFINE new == [clients[i] EXCEPT !.ready = TRUE]
<1>1. clients' = [clients EXCEPT ![i] = new] /\ UNCHANGED next_client_id
  BY DEF OwnerActivates, activate_client
<1>2. /\ clients[i].active /\ ~clients[i].outgoing_failed
      /\ clients[i] \in Client /\ SlotOk(clients[i])
  BY OldSlot DEF OwnerActivates, activate_client
<1>3. /\ new \in Client
      /\ new.active = clients[i].active /\ new.id = clients[i].id
      /\ new.username = clients[i].username
  BY Zenon, <1>2 DEF Client
<1>4. SlotOk(new)
  BY <1>2 DEF SlotOk, Client
<1>5. QED
  BY Zenon, <1>1, <1>2, <1>3, <1>4, ChangeSlot

LEMMA RemoveKeepsInv ==
    ASSUME ClientsInv, NEW i \in ClientSlots, remove_client(i)
    PROVE  ClientsInv'
<1>1. ~FreeClient.active
  BY DEF FreeClient
<1>2. QED
  BY Zenon, <1>1, FreeClientOk, ChangeSlot DEF remove_client

LEMMA RegisterKeepsInv ==
    ASSUME ClientsInv, NEW id, NEW key \in PublicKeys,
           register_client_public_key(id, key)
    PROVE  ClientsInv'
<1>1. PICK i \in ReadySlots(id) :
         clients' = [clients EXCEPT ![i].public_key = key]
  BY Zenon DEF register_client_public_key
<1> DEFINE new == [clients[i] EXCEPT !.public_key = key]
<1>2. /\ i \in ClientSlots /\ clients[i].active /\ clients[i].ready
      /\ clients' = [clients EXCEPT ![i] = new] /\ UNCHANGED next_client_id
  BY Zenon, <1>1 DEF ReadySlots, ActiveSlots, register_client_public_key
<1>3. clients[i] \in Client /\ SlotOk(clients[i])
  BY <1>2, OldSlot
<1>4. /\ new \in Client
      /\ new.active = clients[i].active /\ new.id = clients[i].id
      /\ new.username = clients[i].username
  BY <1>3 DEF Client
<1>5. SlotOk(new)
  BY <1>2, <1>3 DEF SlotOk, Client
<1>6. QED
  BY Zenon, <1>2, <1>4, <1>5, ChangeSlot

\* The slot that queue_frame_to_client_id finds.
LEMMA RecipientSlot ==
    ASSUME NEW id, ReadySlots(id) # {}
    PROVE  /\ Min(ReadySlots(id)) \in ClientSlots
           /\ clients[Min(ReadySlots(id))].active
           /\ clients[Min(ReadySlots(id))].ready
           /\ clients[Min(ReadySlots(id))].id = id
<1>1. ReadySlots(id) \in SUBSET ClientSlots
  BY DEF ReadySlots, ActiveSlots
<1>2. Min(ReadySlots(id)) \in ReadySlots(id)
  BY <1>1, FirstClient
<1>3. QED
  BY <1>2 DEF ReadySlots, ActiveSlots

LEMMA EnqueueKeepsInv ==
    ASSUME ClientsInv, NEW id, NEW frame \in Frames, Enqueue(id, frame)
    PROVE  ClientsInv'
<1> DEFINE i == Min(ReadySlots(id))
           old == clients[i]
           new == [old EXCEPT !.outgoing = Append(old.outgoing, frame)]
<1>1. ReadySlots(id) # {} /\ ~(Len(old.outgoing) >= MAX_OUTGOING_FRAMES)
  BY DEF Enqueue, QueueResult
<1>2. i \in ClientSlots /\ old.active /\ old.ready
  BY <1>1, RecipientSlot
<1>3. clients' = [clients EXCEPT ![i] = new] /\ UNCHANGED next_client_id
  BY DEF Enqueue
<1> HIDE DEF i
<1>4. old \in Client /\ SlotOk(old)
  BY <1>2, OldSlot
<1>5. /\ Append(old.outgoing, frame) \in Seq(Frames)
      /\ Len(Append(old.outgoing, frame)) = Len(old.outgoing) + 1
      /\ Len(old.outgoing) \in Nat
  BY <1>4 DEF Client
<1>6. /\ new \in Client
      /\ new.active = old.active /\ new.id = old.id
      /\ new.username = old.username
  BY <1>4, <1>5 DEF Client
<1>7. SlotOk(new)
  BY <1>1, <1>2, <1>4, <1>5, ClientsAssumption DEF SlotOk, Client
<1>8. QED
  BY Zenon, <1>2, <1>3, <1>6, <1>7, ChangeSlot

\* When queueing fails, nothing changes or the client is marked: its queue
\* is then exactly full.
LEMMA EnqueueFailsKeepsInv ==
    ASSUME ClientsInv, NEW id, EnqueueFails(id)
    PROVE  ClientsInv'
<1> DEFINE i == Min(ReadySlots(id))
           old == clients[i]
           new == [old EXCEPT !.outgoing_failed = TRUE, !.ready = FALSE]
<1>1. CASE UNCHANGED clients
  BY <1>1 DEF EnqueueFails, ClientsInv, ClientsTypeOK, ClientsDistinct,
              NothingInherited, OverflowSealsQueue
<1>2. CASE /\ QueueResult(id) = "ENOBUFS"
           /\ clients' = [clients EXCEPT ![i].outgoing_failed = TRUE,
                                         ![i].ready = FALSE]
  <2>1. ReadySlots(id) # {} /\ Len(old.outgoing) >= MAX_OUTGOING_FRAMES
    BY <1>2 DEF QueueResult
  <2>2. i \in ClientSlots /\ old.active /\ old.ready
    BY <2>1, RecipientSlot
  <2>3. clients \in [ClientSlots -> Client] /\ UNCHANGED next_client_id
    BY DEF EnqueueFails, ClientsInv, ClientsTypeOK
  <2> HIDE DEF i
  <2>4. clients' = [clients EXCEPT ![i] = new]
    BY Zenon, <1>2, <2>2, <2>3
  <2>5. old \in Client /\ SlotOk(old)
    BY <2>2, OldSlot
  <2>6. /\ new \in Client
        /\ new.active = old.active /\ new.id = old.id
        /\ new.username = old.username
    BY Zenon, <2>5 DEF Client
  <2>7. Len(old.outgoing) = MAX_OUTGOING_FRAMES
    BY <2>1, <2>5, ClientsAssumption DEF SlotOk, Client
  <2>8. SlotOk(new)
    BY <2>2, <2>5, <2>7, ClientsAssumption DEF SlotOk, Client
  <2>9. QED
    BY Zenon, <2>2, <2>3, <2>4, <2>6, <2>8, ChangeSlot
<1>3. QED
  BY Zenon, <1>1, <1>2 DEF EnqueueFails

LEMMA TakeKeepsInv ==
    ASSUME ClientsInv, NEW id, take_outgoing_frame(id)
    PROVE  ClientsInv'
<1>1. PICK i \in ActiveSlots(id) :
         /\ ~clients[i].outgoing_failed
         /\ clients[i].outgoing # <<>>
         /\ clients' = [clients EXCEPT ![i].outgoing = Tail(@)]
  BY Zenon DEF take_outgoing_frame
<1> DEFINE old == clients[i]
           new == [old EXCEPT !.outgoing = Tail(old.outgoing)]
<1>2. /\ i \in ClientSlots /\ old.active
      /\ clients' = [clients EXCEPT ![i] = new] /\ UNCHANGED next_client_id
  BY Zenon, <1>1 DEF ActiveSlots, take_outgoing_frame
<1>3. old \in Client /\ SlotOk(old)
  BY <1>2, OldSlot
<1>4. /\ Tail(old.outgoing) \in Seq(Frames)
      /\ Len(Tail(old.outgoing)) = Len(old.outgoing) - 1
      /\ Len(old.outgoing) \in Nat
  BY <1>1, <1>3 DEF Client
<1>5. /\ new \in Client
      /\ new.active = old.active /\ new.id = old.id
      /\ new.username = old.username
  BY <1>3, <1>4 DEF Client
<1>6. SlotOk(new)
  BY <1>1, <1>2, <1>3, <1>4, ClientsAssumption DEF SlotOk, Client
<1>7. QED
  BY Zenon, <1>2, <1>5, <1>6, ChangeSlot

-----------------------------------------------------------------------------
LEMMA ClientsInitHasInv == ClientsInit => ClientsInv
<1> SUFFICES ASSUME ClientsInit PROVE ClientsInv
  OBVIOUS
<1>1. /\ \A i \in ClientSlots : clients[i] = FreeClient
      /\ ~FreeClient.active
  BY DEF ClientsInit, FreeClient
<1>2. ClientsTypeOK
  BY FreeClientOk DEF ClientsInit, ClientsTypeOK
<1>3. ClientsDistinct
  BY <1>1 DEF ClientsDistinct
<1>4. NothingInherited /\ OverflowSealsQueue
  BY <1>1, <1>2, FreeClientOk, SlotsOk
<1>5. QED
  BY <1>2, <1>3, <1>4 DEF ClientsInv

LEMMA ClientsStepKeepsInv ==
    ASSUME ClientsInv, [ClientsNext]_clientVars
    PROVE  ClientsInv'
<1>1. CASE UNCHANGED clientVars
  BY <1>1 DEF clientVars, ClientsInv, ClientsTypeOK, ClientsDistinct,
              NothingInherited, OverflowSealsQueue
<1>2. ASSUME NEW name \in Usernames, add_client(name) PROVE ClientsInv'
  BY <1>2, AddClientKeepsInv
<1>3. ASSUME NEW i \in ClientSlots, OwnerActivates(i) \/ remove_client(i)
      PROVE  ClientsInv'
  BY <1>3, ActivateKeepsInv, RemoveKeepsInv
<1>4. ASSUME NEW id \in ClientIds, NEW frame \in Frames,
             queue_frame_to_client_id(id, frame)
      PROVE  ClientsInv'
  BY <1>4, EnqueueKeepsInv, EnqueueFailsKeepsInv DEF queue_frame_to_client_id
<1>5. ASSUME NEW id \in ClientIds, NEW key \in PublicKeys,
             register_client_public_key(id, key)
      PROVE  ClientsInv'
  BY <1>5, RegisterKeepsInv
<1>6. ASSUME NEW id \in ClientIds, take_outgoing_frame(id) PROVE ClientsInv'
  BY <1>6, TakeKeepsInv
<1>7. QED
  BY <1>1, <1>2, <1>3, <1>4, <1>5, <1>6 DEF ClientsNext

\* The registry is safe for any number of clients and frames: names and ids
\* identify one client, a slot is handed on blank, and a queue that has
\* overflowed is sealed.
THEOREM ClientsSafe ==
    ClientsSpec => [](/\ ClientsTypeOK /\ ClientsDistinct
                      /\ NothingInherited /\ OverflowSealsQueue)
<1>1. ClientsInit => ClientsInv
  BY ClientsInitHasInv
<1>2. ClientsInv /\ [ClientsNext]_clientVars => ClientsInv'
  BY ClientsStepKeepsInv
<1>3. QED
  BY <1>1, <1>2, PTL DEF ClientsSpec, ClientsInv

-----------------------------------------------------------------------------
\* A step that changes one slot in an allowed way is allowed for all of them.
LEMMA OneSlotSteps ==
    ASSUME ClientsInv, NEW i \in ClientSlots, NEW new,
           clients' = [clients EXCEPT ![i] = new],
           SlotStep(clients[i], new)
    PROVE  \A j \in ClientSlots : SlotStep(clients[j], clients'[j])
<1>1. \A j \in ClientSlots : clients'[j] = IF j = i THEN new ELSE clients[j]
  BY DEF ClientsInv, ClientsTypeOK
<1>2. QED
  BY <1>1 DEF SlotStep

LEMMA QueueingSteps ==
    ASSUME ClientsInv, NEW id, NEW frame \in Frames,
           queue_frame_to_client_id(id, frame)
    PROVE  \A j \in ClientSlots : SlotStep(clients[j], clients'[j])
<1> DEFINE i == Min(ReadySlots(id))
           old == clients[i]
<1>1. CASE UNCHANGED clients
  BY <1>1 DEF SlotStep
<1>2. CASE Enqueue(id, frame)
  <2> DEFINE new == [old EXCEPT !.outgoing = Append(old.outgoing, frame)]
  <2>1. ReadySlots(id) # {}
    BY <1>2 DEF Enqueue, QueueResult
  <2>2. i \in ClientSlots /\ old.ready
    BY <2>1, RecipientSlot
  <2>3. clients' = [clients EXCEPT ![i] = new]
    BY <1>2 DEF Enqueue
  <2> HIDE DEF i
  <2>4. old \in Client /\ ~old.outgoing_failed
    BY <2>2, OldSlot DEF SlotOk
  <2>5. SlotStep(old, new)
    BY <2>4 DEF SlotStep, Client
  <2>6. QED
    BY Zenon, <2>2, <2>3, <2>5, OneSlotSteps
<1>3. CASE /\ QueueResult(id) = "ENOBUFS"
           /\ clients' = [clients EXCEPT ![i].outgoing_failed = TRUE,
                                         ![i].ready = FALSE]
  <2> DEFINE new == [old EXCEPT !.outgoing_failed = TRUE, !.ready = FALSE]
  <2>1. ReadySlots(id) # {}
    BY <1>3 DEF QueueResult
  <2>2. i \in ClientSlots /\ old.ready
    BY <2>1, RecipientSlot
  <2>3. clients \in [ClientSlots -> Client]
    BY DEF ClientsInv, ClientsTypeOK
  <2> HIDE DEF i
  <2>4. clients' = [clients EXCEPT ![i] = new]
    BY Zenon, <1>3, <2>2, <2>3
  <2>5. old \in Client /\ ~old.outgoing_failed
    BY <2>2, OldSlot DEF SlotOk
  <2>6. SlotStep(old, new)
    BY <2>5 DEF SlotStep, Client
  <2>7. QED
    BY Zenon, <2>2, <2>4, <2>6, OneSlotSteps
<1>4. QED
  BY Zenon, <1>1, <1>2, <1>3 DEF queue_frame_to_client_id, EnqueueFails

\* add_client and remove_client change who holds a slot, so they have only
\* the other slots to leave alone; the owner and the key act on a client
\* whose queue has not overflowed.
LEMMA ClientsStepIsAllowed ==
    ASSUME ClientsInv, ClientsNext
    PROVE  \A j \in ClientSlots : SlotStep(clients[j], clients'[j])
<1>1. ASSUME NEW name \in Usernames, add_client(name)
      PROVE  \A j \in ClientSlots : SlotStep(clients[j], clients'[j])
  <2> DEFINE k == NewSlot
  <2>1. FreeClientSlots # {} /\ FreeClientSlots \in SUBSET ClientSlots
    BY <1>1 DEF add_client, AddClientResult, FreeClientSlots
  <2>2. k \in FreeClientSlots
    BY <2>1, FirstClient DEF NewSlot
  <2>3. k \in ClientSlots /\ ~clients[k].active
    BY <2>2 DEF FreeClientSlots
  <2>4. PICK new : clients' = [clients EXCEPT ![k] = new]
    BY Zenon, <1>1 DEF add_client
  <2> HIDE DEF k
  <2>5. SlotStep(clients[k], new)
    BY <2>3 DEF SlotStep
  <2>6. QED
    BY Zenon, <2>3, <2>4, <2>5, OneSlotSteps
<1>2. ASSUME NEW i \in ClientSlots, OwnerActivates(i)
      PROVE  \A j \in ClientSlots : SlotStep(clients[j], clients'[j])
  <2> DEFINE new == [clients[i] EXCEPT !.ready = TRUE]
  <2>1. /\ clients' = [clients EXCEPT ![i] = new]
        /\ ~clients[i].outgoing_failed /\ clients[i] \in Client
    BY <1>2, OldSlot DEF OwnerActivates, activate_client
  <2>2. SlotStep(clients[i], new)
    BY <2>1 DEF SlotStep, Client
  <2>3. QED
    BY Zenon, <2>1, <2>2, OneSlotSteps
<1>3. ASSUME NEW i \in ClientSlots, remove_client(i)
      PROVE  \A j \in ClientSlots : SlotStep(clients[j], clients'[j])
  <2>1. SlotStep(clients[i], FreeClient)
    BY DEF SlotStep, FreeClient
  <2>2. QED
    BY Zenon, <1>3, <2>1, OneSlotSteps DEF remove_client
<1>4. ASSUME NEW id \in ClientIds, NEW key \in PublicKeys,
             register_client_public_key(id, key)
      PROVE  \A j \in ClientSlots : SlotStep(clients[j], clients'[j])
  <2>1. PICK i \in ReadySlots(id) :
           /\ clients[i].public_key \in {NoKey, key}
           /\ clients' = [clients EXCEPT ![i].public_key = key]
    BY Zenon, <1>4 DEF register_client_public_key
  <2> DEFINE new == [clients[i] EXCEPT !.public_key = key]
  <2>2. i \in ClientSlots /\ clients[i].ready
    BY <2>1 DEF ReadySlots, ActiveSlots
  <2>3. clients[i] \in Client /\ ~clients[i].outgoing_failed
    BY <2>2, OldSlot DEF SlotOk
  <2>4. SlotStep(clients[i], new)
    BY <2>1, <2>3 DEF SlotStep, Client
  <2>5. QED
    BY Zenon, <2>1, <2>2, <2>4, OneSlotSteps
<1>5. ASSUME NEW id \in ClientIds, take_outgoing_frame(id)
      PROVE  \A j \in ClientSlots : SlotStep(clients[j], clients'[j])
  <2>1. PICK i \in ActiveSlots(id) :
           /\ ~clients[i].outgoing_failed
           /\ clients[i].outgoing # <<>>
           /\ clients' = [clients EXCEPT ![i].outgoing = Tail(@)]
    BY Zenon, <1>5 DEF take_outgoing_frame
  <2> DEFINE new == [clients[i] EXCEPT !.outgoing = Tail(clients[i].outgoing)]
  <2>2. i \in ClientSlots
    BY <2>1 DEF ActiveSlots
  <2>3. clients[i] \in Client
    BY <2>2, OldSlot
  <2>4. SlotStep(clients[i], new)
    BY <2>1, <2>3 DEF SlotStep, Client
  <2>5. QED
    BY Zenon, <2>1, <2>2, <2>4, OneSlotSteps
<1>6. QED
  BY <1>1, <1>2, <1>3, <1>4, <1>5, QueueingSteps DEF ClientsNext

\* While a client stays logged in, no thread changes who it is, replaces its
\* key, reorders its queue or touches it after an overflow.
THEOREM ClientsKeepIdentity == ClientsSpec => ClientLifecycle
<1>1. ClientsInit => ClientsInv
  BY ClientsInitHasInv
<1>2. ClientsInv /\ [ClientsNext]_clientVars => ClientsInv'
  BY ClientsStepKeepsInv
<1>3. ClientsInv /\ [ClientsNext]_clientVars
         => [\A i \in ClientSlots : SlotStep(clients[i], clients'[i])]_clientVars
  BY ClientsStepIsAllowed
<1>4. QED
  BY <1>1, <1>2, <1>3, PTL DEF ClientsSpec, ClientLifecycle
-----------------------------------------------------------------------------
(***************************************************************************)
(* Queueing and taking frames leaves the clients who they are, and makes   *)
(* no client addressable.                                                  *)
(***************************************************************************)
OwnersKept ==
    /\ \A i \in ClientSlots :
          /\ clients'[i].active = clients[i].active
          /\ clients'[i].id = clients[i].id
          /\ clients'[i].username = clients[i].username
          /\ ~clients[i].ready =>
                /\ clients'[i].ready = clients[i].ready
                /\ clients'[i].outgoing_failed = clients[i].outgoing_failed
    /\ UNCHANGED next_client_id

KeysKept ==
    \A i \in ClientSlots : clients'[i].public_key = clients[i].public_key

LEMMA QueueKeepsOwners ==
    ASSUME ClientsInv, NEW id, NEW frame,
           Enqueue(id, frame) \/ EnqueueFails(id)
    PROVE  OwnersKept /\ KeysKept
<1>1. /\ clients \in [ClientSlots -> Client]
      /\ UNCHANGED next_client_id
  BY DEF ClientsInv, ClientsTypeOK, Enqueue, EnqueueFails
<1>2. CASE UNCHANGED clients
  BY <1>1, <1>2 DEF OwnersKept, KeysKept
<1>3. CASE ReadySlots(id) = {}
  BY <1>1, <1>3 DEF Enqueue, EnqueueFails, QueueResult, OwnersKept, KeysKept
<1>4. CASE ReadySlots(id) # {} /\ clients' # clients
  <2>1. PICK j \in ClientSlots : j = Min(ReadySlots(id)) /\ clients[j].ready
    BY <1>4, RecipientSlot
  <2>2. PICK old \in Client : old = clients[j]
    BY <1>1
  <2>3. \/ clients' = [clients EXCEPT ![j] =
                          [old EXCEPT !.outgoing = Append(@, frame)]]
        \/ clients' = [clients EXCEPT ![j] =
                          [old EXCEPT !.outgoing_failed = TRUE,
                                      !.ready = FALSE]]
    BY ZenonT(40), <1>1, <1>4, <2>1, <2>2 DEF Enqueue, EnqueueFails
  <2>4. ASSUME NEW new, new.active = old.active, new.id = old.id,
               new.username = old.username, new.public_key = old.public_key,
               clients' = [clients EXCEPT ![j] = new]
        PROVE  OwnersKept /\ KeysKept
    BY <1>1, <2>1, <2>2, <2>4 DEF OwnersKept, KeysKept
  <2>5. QED
    BY Zenon, <2>3, <2>4 DEF Client
<1>5. QED
  BY <1>2, <1>3, <1>4

LEMMA TakeKeepsOwners ==
    ASSUME ClientsInv, NEW id, take_outgoing_frame(id)
    PROVE  OwnersKept /\ KeysKept
<1>1. clients \in [ClientSlots -> Client]
  BY DEF ClientsInv, ClientsTypeOK
<1>2. PICK j \in ClientSlots :
         clients' = [clients EXCEPT ![j].outgoing = Tail(@)]
  BY Zenon DEF take_outgoing_frame, ActiveSlots
<1>3. QED
  BY <1>1, <1>2 DEF OwnersKept, KeysKept, Client, take_outgoing_frame

\* Without memory trouble a frame that could not be queued was for a client
\* that is not addressable now: it was not there, or its queue overflowed.
LEMMA QueueFailed ==
    ASSUME ClientsInv, NEW id, EnqueueFails(id), ~AllocationsFail
    PROVE  ReadySlots(id)' = {}
<1>1. CASE ReadySlots(id) = {}
  <2>1. UNCHANGED clients
    BY <1>1 DEF EnqueueFails, QueueResult
  <2>2. QED
    BY <1>1, <2>1 DEF ReadySlots, ActiveSlots
<1>2. CASE ReadySlots(id) # {}
  <2>1. PICK j \in ClientSlots : /\ j = Min(ReadySlots(id))
                                 /\ clients[j].active /\ clients[j].id = id
    BY <1>2, RecipientSlot
  <2>2. clients' = [clients EXCEPT ![j].outgoing_failed = TRUE,
                                   ![j].ready = FALSE]
    BY <1>2, <2>1 DEF EnqueueFails, QueueResult
  <2>3. clients \in [ClientSlots -> Client]
    BY DEF ClientsInv, ClientsTypeOK
  <2>4. ~clients'[j].ready
    BY <2>2, <2>3 DEF Client
  <2>5. \A i \in ClientSlots \ {j} : clients'[i] = clients[i]
    BY <2>2, <2>3
  <2>6. \A i \in ClientSlots : clients[i].active /\ clients[i].id = id => i = j
    BY <2>1 DEF ClientsInv, ClientsDistinct
  <2>7. QED
    BY <2>4, <2>5, <2>6 DEF ReadySlots, ActiveSlots
<1>3. QED
  BY <1>1, <1>2
=============================================================================
