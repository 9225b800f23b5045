--------------------------- MODULE ClientManager ---------------------------
(***************************************************************************)
(* The registry of logged-in clients and their outgoing queues             *)
(* (client_manager.c).  Every function holds clients_mutex throughout, so  *)
(* each one is a single action; a function that returns something also     *)
(* has a state function for its result.                                    *)
(*                                                                         *)
(* A frame is one element of a client's queue; the eventfd that wakes the  *)
(* client's worker belongs to the worker's model, and what remove_client   *)
(* does after releasing the mutex (closing the connection) to the TLS one. *)
(***************************************************************************)
EXTENDS ServerTypes, Sequences

CONSTANTS
    Usernames,             \* names a connection may log in with
    ValidUsernames,        \* those username_is_valid accepts
    PublicKeys,            \* e2ee public keys
    Frames,                \* what may be queued for a client
    MAX_CLIENTS,           \* slots of the registry
    MAX_OUTGOING_FRAMES,   \* frames a client may have queued
    AllocationsFail,       \* may malloc or eventfd_write fail for a frame?
    NoName, NoKey          \* an empty username, an absent public key

ASSUME ClientsAssumption ==
    /\ ValidUsernames \subseteq Usernames
    /\ NoName \notin Usernames
    /\ NoKey \notin PublicKeys
    /\ MAX_CLIENTS \in Nat \ {0}
    /\ MAX_OUTGOING_FRAMES \in Nat \ {0}
    /\ AllocationsFail \in BOOLEAN

VARIABLES
    clients,          \* the registry, one record per slot
    next_client_id    \* the id of the next login

clientVars == <<clients, next_client_id>>

ClientSlots == 0 .. MAX_CLIENTS - 1

Client ==
    [active: BOOLEAN, ready: BOOLEAN,
     id: ClientIds \union {INVALID_CLIENT_ID},
     username: Usernames \union {NoName},
     public_key: PublicKeys \union {NoKey},
     outgoing: Seq(Frames), outgoing_failed: BOOLEAN]

\* A slot as init_clients and remove_client leave it.
FreeClient ==
    [active |-> FALSE, ready |-> FALSE, id |-> INVALID_CLIENT_ID,
     username |-> NoName, public_key |-> NoKey, outgoing |-> <<>>,
     outgoing_failed |-> FALSE]

(***************************************************************************)
(* Lookups, made with clients_mutex held.                                  *)
(***************************************************************************)
FreeClientSlots == {i \in ClientSlots : ~clients[i].active}
ActiveSlots(id) == {i \in ClientSlots : clients[i].active /\ clients[i].id = id}
ReadySlots(id) == {i \in ActiveSlots(id) : clients[i].ready}

NameTaken(name) ==
    \E i \in ClientSlots : clients[i].active /\ clients[i].username = name

SlotsNamed(name) ==
    {i \in ClientSlots : /\ clients[i].active
                         /\ clients[i].ready
                         /\ clients[i].username = name}

find_client_id(name) ==
    IF SlotsNamed(name) = {} THEN INVALID_CLIENT_ID
    ELSE clients[Min(SlotsNamed(name))].id

\* The key of a ready client, or NoKey when it has none.
get_client_public_key(id) ==
    IF ReadySlots(id) = {} THEN NoKey
    ELSE clients[Min(ReadySlots(id))].public_key

\* Mutant: client_output_status does not look at the overflow mark.
OutputAlwaysOk(id) == ActiveSlots(id) # {}

\* client_output_status: the queue of an active client has not overflowed.
OutputOk(id) ==
    \E i \in ActiveSlots(id) : ~clients[i].outgoing_failed

-----------------------------------------------------------------------------
ClientsInit ==
    /\ clients = [i \in ClientSlots |-> FreeClient]
    /\ next_client_id = 1

\* What add_client returns: a slot, or an error that leaves no trace.
AddClientResult(name) ==
    IF name \notin ValidUsernames THEN "EINVAL"
    ELSE IF NameTaken(name) THEN "EEXIST"
    ELSE IF FreeClientSlots = {} THEN "ENOSPC"
    ELSE "OK"

\* The slot a successful add_client takes: the first free one.
NewSlot == Min(FreeClientSlots)

\* The id it takes; the counter's wrap past 2^64 - 1 is out of reach.
allocate_client_id == next_client_id

\* add_client when it succeeds; the queue and its count are not reset here.
add_client(name) ==
    /\ AddClientResult(name) = "OK"
    /\ allocate_client_id \in ClientIds
    /\ clients' = [clients EXCEPT ![NewSlot] =
                     [active |-> TRUE, ready |-> FALSE, id |-> allocate_client_id,
                      username |-> name, public_key |-> NoKey,
                      outgoing |-> @.outgoing, outgoing_failed |-> FALSE]]
    /\ next_client_id' = next_client_id + 1

activate_client(i) ==
    /\ clients[i].active
    /\ clients' = [clients EXCEPT ![i].ready = TRUE]
    /\ UNCHANGED next_client_id

\* Mutant: frames that were not sent stay in the slot.
RemoveKeepsQueue(i) ==
    /\ clients[i].active
    /\ clients' = [clients EXCEPT ![i] =
                     [FreeClient EXCEPT !.outgoing = clients[i].outgoing]]
    /\ UNCHANGED next_client_id

remove_client(i) ==
    /\ clients[i].active
    /\ clients' = [clients EXCEPT ![i] = FreeClient]
    /\ UNCHANGED next_client_id

\* A second, different key is refused; repeating the first is not.
register_client_public_key(id, key) ==
    /\ \E i \in ReadySlots(id) :
          /\ clients[i].public_key \in {NoKey, key}
          /\ clients' = [clients EXCEPT ![i].public_key = key]
    /\ UNCHANGED next_client_id

(***************************************************************************)
(* queue_frame_to_client_id, which succeeds or fails.  A full queue is not *)
(* a lost frame: it marks the client failed and no longer ready, for its   *)
(* own worker to close.  Without memory, nothing at all is recorded.       *)
(***************************************************************************)
QueueResult(id) ==
    IF ReadySlots(id) = {} THEN "ENOENT"
    ELSE IF Len(clients[Min(ReadySlots(id))].outgoing) >= MAX_OUTGOING_FRAMES
    THEN "ENOBUFS"
    ELSE "OK"

Enqueue(id, frame) ==
    /\ QueueResult(id) = "OK"
    /\ clients' = [clients EXCEPT ![Min(ReadySlots(id))].outgoing =
                      Append(@, frame)]
    /\ UNCHANGED next_client_id

\* Mutant: the client whose queue overflowed stays addressable.
OverflowStaysReady(id) ==
    /\ \/ /\ QueueResult(id) = "ENOBUFS"
          /\ clients' = [clients EXCEPT
                            ![Min(ReadySlots(id))].outgoing_failed = TRUE]
       \/ /\ QueueResult(id) = "ENOENT" \/ AllocationsFail
          /\ UNCHANGED clients
    /\ UNCHANGED next_client_id

EnqueueFails(id) ==
    /\ \/ /\ QueueResult(id) = "ENOBUFS"
          /\ clients' = [clients EXCEPT
                            ![Min(ReadySlots(id))].outgoing_failed = TRUE,
                            ![Min(ReadySlots(id))].ready = FALSE]
       \/ /\ QueueResult(id) = "ENOENT" \/ AllocationsFail
          /\ UNCHANGED clients
    /\ UNCHANGED next_client_id

queue_frame_to_client_id(id, frame) == Enqueue(id, frame) \/ EnqueueFails(id)

\* take_outgoing_frame when a frame is available: the owner's worker pops it.
take_outgoing_frame(id) ==
    /\ \E i \in ActiveSlots(id) :
          /\ ~clients[i].outgoing_failed
          /\ clients[i].outgoing # <<>>
          /\ clients' = [clients EXCEPT ![i].outgoing = Tail(@)]
    /\ UNCHANGED next_client_id

-----------------------------------------------------------------------------
(***************************************************************************)
(* The registry on its own.  The thread that owns a slot activates it once *)
(* after sending the welcome reply and removes it once; any thread may     *)
(* queue a frame for any id, current or stale.                             *)
(***************************************************************************)
OwnerActivates(i) ==
    /\ ~clients[i].ready /\ ~clients[i].outgoing_failed
    /\ activate_client(i)

ClientsNext ==
    \/ \E name \in Usernames : add_client(name)
    \/ \E i \in ClientSlots : OwnerActivates(i) \/ remove_client(i)
    \/ \E id \in ClientIds :
          \/ \E frame \in Frames : queue_frame_to_client_id(id, frame)
          \/ \E key \in PublicKeys : register_client_public_key(id, key)
          \/ take_outgoing_frame(id)

ClientsSpec == ClientsInit /\ [][ClientsNext]_clientVars

-----------------------------------------------------------------------------
\* Slots hold well-formed clients.
ClientsTypeOK ==
    /\ clients \in [ClientSlots -> Client]
    /\ next_client_id \in Nat \ {0}

\* Two logged-in clients never share a name or an id, and the next id to be
\* handed out is in nobody's hands: a message addressed to a name or to an
\* id has at most one recipient (add_client, find_client_id).
ClientsDistinct ==
    \A i, j \in ClientSlots :
        clients[i].active =>
            /\ clients[i].id \in 1 .. next_client_id - 1
            /\ clients[j].active /\ ( \/ clients[i].id = clients[j].id
                                      \/ clients[i].username =
                                         clients[j].username )
               => i = j

\* A slot is handed to the next login blank: no frame, key, flag or name of
\* the client that held it before (remove_client clears what add_client does
\* not reset), and nothing is queued for a client that has not yet been sent
\* its welcome reply.
NothingInherited ==
    \A i \in ClientSlots :
        /\ ~clients[i].active => clients[i] = FreeClient
        /\ clients[i].outgoing # <<>> \/ clients[i].public_key # NoKey
              => clients[i].ready \/ clients[i].outgoing_failed

\* A queue never exceeds its limit, and the client whose queue overflowed has
\* a full queue and is no longer addressable, so a frame is never dropped
\* from the middle of what it is sent.
OverflowSealsQueue ==
    \A i \in ClientSlots :
        /\ Len(clients[i].outgoing) <= MAX_OUTGOING_FRAMES
        /\ clients[i].outgoing_failed =>
              /\ clients[i].active /\ ~clients[i].ready
              /\ Len(clients[i].outgoing) = MAX_OUTGOING_FRAMES

\* What may become of the client in a slot while it stays logged in.
SlotStep(old, new) ==
    old.active /\ new.active =>
        /\ new.id = old.id /\ new.username = old.username
        /\ old.public_key # NoKey => new.public_key = old.public_key
        /\ old.outgoing_failed => new = old
        /\ \/ new.outgoing = old.outgoing
           \/ old.outgoing # <<>> /\ new.outgoing = Tail(old.outgoing)
           \/ \E f \in Frames : new.outgoing = Append(old.outgoing, f)

\* As long as a client stays logged in its name, id and registered key are
\* fixed, a frame leaves its queue only from the head, and after an overflow
\* its queue is frozen until it is removed.
ClientLifecycle ==
    [][\A i \in ClientSlots : SlotStep(clients[i], clients'[i])]_clientVars
=============================================================================
