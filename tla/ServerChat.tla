----------------------------- MODULE ServerChat -----------------------------
(***************************************************************************)
(* The chat half of the server: the threads of handle_client running       *)
(* handle_command and handle_encrypted_chat over the client registry.      *)
(*                                                                         *)
(* A handler takes clients_mutex once per registry call and holds nothing  *)
(* between two calls, so a step of a thread is one registry call, and any  *)
(* other thread may run between two steps.  What a handler keeps across    *)
(* calls is in its thread record.  File frames are FileRelay's.            *)
(***************************************************************************)
EXTENDS ClientManager

CONSTANTS
    ChatConns,       \* accepted connections, each served by one thread
    MaxRequests,     \* bound: frames received on each connection
    RequestTypes,    \* bound: the types of frames received on it
    NameLength,      \* characters of a username
    ListRoom,        \* characters log_connected_clients has for its names
    NoText           \* what a frame that carries no user text carries

\* Whose words a text is: the n-th frame of a client.
Texts == ClientIds \X UNION {1 .. MaxRequests[c] : c \in ChatConns}

ASSUME ChatAssumption ==
    /\ MaxRequests \in [ChatConns -> Nat]
    /\ \A name \in Usernames : NameLength[name] \in Nat \ {0}
    /\ ListRoom \in Nat
    /\ NoText \notin Texts

VARIABLES
    chats,       \* ChatConns -> the thread that serves the connection
    logins,      \* history: ClientIds -> the name it logged in with
    keys,        \* history: ClientIds -> the key it registered
    requests,    \* history: ClientIds -> the frames received from it
    accepted     \* history: ClientIds -> the frames ever queued for it

historyVars == <<logins, keys, requests, accepted>>
chatVars == <<clientVars, chats, historyVars>>

(***************************************************************************)
(* What clients send (a command in a FRAME_TEXT or a typed frame) and what *)
(* is queued for them.  The replies to a command are text; which command   *)
(* or message they answer is kept in "text".                               *)
(***************************************************************************)
Requests ==
    [type: {"msg"}, name: Usernames, key: {NoKey}]
    \union [type: {"broadcast", "list", "help", "quit", "bad"},
            name: {NoName}, key: {NoKey}]
    \union [type: {"REGISTER_PK"}, name: {NoName}, key: PublicKeys]
    \union [type: {"REQUEST_PK"}, name: Usernames, key: {NoKey}]
    \union [type: {"CIPHERTEXT"}, name: Usernames, key: PublicKeys]

Frame(type, name, key, text, names) ==
    [type |-> type, name |-> name, key |-> key, text |-> text, names |-> names]
TextFrame(type, name, text) == Frame(type, name, NoKey, text, {})

ChatFrames ==
    [type: {"private", "broadcast", "not_found", "invalid", "help", "list",
            "PEER_PK", "CIPHERTEXT"},
     name: Usernames \union {NoName}, key: PublicKeys \union {NoKey},
     text: Texts \union {NoText}, names: SUBSET Usernames]

ASSUME ChatFramesAssumption == ChatFrames \subseteq Frames

\* A thread: what it waits for, its client, and the locals of its handler:
\* the frame it is sending, to whom, and what it says if that fails.
NoFrame == TextFrame("help", NoName, NoText)
Chat(pc, slot, id) ==
    [pc |-> pc, slot |-> slot, id |-> id, frame |-> NoFrame,
     target |-> INVALID_CLIENT_ID, todo |-> <<>>]

MyName(c) == logins[chats[c].id]
MyText(c) == <<chats[c].id, Len(requests[chats[c].id]) + 1>>
LastText(c) == <<chats[c].id, Len(requests[chats[c].id])>>
Returns(c) == chats' = [chats EXCEPT ![c] = Chat("idle", @.slot, @.id)]

ChatInit ==
    /\ ClientsInit
    /\ chats = [c \in ChatConns |-> Chat("new", 0, INVALID_CLIENT_ID)]
    /\ logins = [id \in ClientIds |-> NoName]
    /\ keys = [id \in ClientIds |-> NoKey]
    /\ requests = [id \in ClientIds |-> <<>>]
    /\ accepted = [id \in ClientIds |-> <<>>]

-----------------------------------------------------------------------------
(***************************************************************************)
(* handle_client from add_client to remove_client.                         *)
(***************************************************************************)
Login(c, name) ==
    /\ chats[c].pc = "new"
    /\ add_client(name)
    /\ chats' = [chats EXCEPT ![c] = Chat("welcome", NewSlot, allocate_client_id)]
    /\ logins' = [logins EXCEPT ![allocate_client_id] = name]
    /\ UNCHANGED <<keys, requests, accepted>>

Welcome(c) ==
    /\ chats[c].pc = "welcome"
    /\ activate_client(chats[c].slot)
    /\ Returns(c)
    /\ UNCHANGED historyVars

\* The worker writes the head of the queue, between two frames it reads.
Deliver(c) ==
    /\ chats[c].pc = "idle"
    /\ take_outgoing_frame(chats[c].id)
    /\ UNCHANGED <<chats, historyVars>>

\* The welcome fails, or the worker ends: /quit, EOF, an error, an overflow.
Leave(c) ==
    /\ chats[c].pc \in {"welcome", "idle", "leaving"}
    /\ remove_client(chats[c].slot)
    /\ chats' = [chats EXCEPT ![c] = Chat("gone", @.slot, @.id)]
    /\ UNCHANGED historyVars

-----------------------------------------------------------------------------
(***************************************************************************)
(* Sending.  send_frame_to_client_id and send_text_to_client_id are one    *)
(* call of queue_frame_to_client_id.                                       *)
(***************************************************************************)
SendSucceeds(id, frame) ==
    /\ Enqueue(id, frame)
    /\ accepted' = [accepted EXCEPT ![id] = Append(@, frame)]

SendFails(id) == EnqueueFails(id) /\ UNCHANGED accepted

Send(id, frame) == SendSucceeds(id, frame) \/ SendFails(id)

\* The reply to the thread's own client that ends a handler; whether it could
\* be queued is not looked at.
Reply(c) ==
    /\ chats[c].pc = "reply"
    /\ Send(chats[c].id, chats[c].frame)
    /\ Returns(c)
    /\ UNCHANGED <<logins, keys, requests>>

ReplyWith(c, frame) ==
    chats' = [chats EXCEPT ![c].pc = "reply", ![c].frame = frame]
Invalid(c) == ReplyWith(c, TextFrame("invalid", NoName, MyText(c)))

\* The thread has read frame r; "to" is the recipients of a broadcast.
Receives(c, r, to) ==
    /\ chats[c].pc = "idle"
    /\ LET id == chats[c].id
       IN  /\ Len(requests[id]) < MaxRequests[c]
           /\ requests' = [requests EXCEPT ![id] =
                              Append(@, [frame |-> r, to |-> to])]
    /\ UNCHANGED <<logins, accepted>>

-----------------------------------------------------------------------------
(***************************************************************************)
(* Private messages: send_message_to_client and the CIPHERTEXT branch of   *)
(* handle_encrypted_chat look the recipient up, send, and tell the sender  *)
(* when there is no such user or the frame could not be queued.            *)
(***************************************************************************)
\* CMD_PRIVATE_MESSAGE: find_client_id is the first call.
RecvMsg(c, r) ==
    /\ r.type = "msg"
    /\ Receives(c, r, {})
    /\ LET id == find_client_id(r.name)
       IN  IF id = INVALID_CLIENT_ID
           THEN ReplyWith(c, TextFrame("not_found", r.name, MyText(c)))
           ELSE chats' = [chats EXCEPT ![c].pc = "send", ![c].target = id,
                          ![c].frame = TextFrame("private", MyName(c), MyText(c))]
    /\ UNCHANGED <<clientVars, keys>>

\* Mutant: the key that a ciphertext claims is not compared.
KeyClaimedUnchecked(c, r) == get_client_public_key(chats[c].id) # NoKey

\* The claimed sender key is the one this client registered.
KeyClaimed(c, r) == get_client_public_key(chats[c].id) = r.key

\* Mutant: the name in the frame, the recipient's, is not replaced.
CiphertextNameKept(c, r) ==
    Frame("CIPHERTEXT", r.name, r.key, MyText(c), {})

ForwardedCiphertext(c, r) ==
    Frame("CIPHERTEXT", MyName(c), r.key, MyText(c), {})

\* A ciphertext for a well-formed name whose claimed sender key is the one
\* this client registered; it is forwarded under the login name.
RecvCiphertext(c, r) ==
    /\ r.type = "CIPHERTEXT"
    /\ Receives(c, r, {})
    /\ IF r.name \in ValidUsernames /\ KeyClaimed(c, r)
       THEN chats' = [chats EXCEPT ![c].pc = "find",
                                   ![c].frame = ForwardedCiphertext(c, r)]
       ELSE Invalid(c)
    /\ UNCHANGED <<clientVars, keys>>

Recipient(c) == requests[chats[c].id][Len(requests[chats[c].id])].frame.name

FindRecipient(c) ==
    /\ chats[c].pc = "find"
    /\ chats' = [chats EXCEPT ![c].pc = "send",
                              ![c].target = find_client_id(Recipient(c))]
    /\ UNCHANGED <<clientVars, historyVars>>

\* Mutant: a recipient that was found is taken to have been reached.
SendPrivateUnchecked(c) ==
    /\ chats[c].pc = "send"
    /\ Send(chats[c].target, chats[c].frame)
    /\ Returns(c)
    /\ UNCHANGED <<logins, keys, requests>>

SendPrivate(c) ==
    /\ chats[c].pc = "send"
    /\ \/ SendSucceeds(chats[c].target, chats[c].frame) /\ Returns(c)
       \/ /\ SendFails(chats[c].target)
          /\ ReplyWith(c, TextFrame("not_found", Recipient(c), LastText(c)))
    /\ UNCHANGED <<logins, keys, requests>>

(***************************************************************************)
(* send_message_to_all_clients: the recipients are read under the lock and *)
(* sent to one by one after it; failures are ignored.                      *)
(***************************************************************************)
BroadcastSlots(id) ==
    {i \in ClientSlots : clients[i].active /\ clients[i].ready
                         /\ clients[i].id # id}

InSlotOrder(slots) ==
    [n \in 1 .. Cardinality(slots) |->
        clients[CHOOSE i \in slots :
                   Cardinality({j \in slots : j <= i}) = n].id]

RecvBroadcast(c, r) ==
    /\ r.type = "broadcast"
    /\ LET slots == BroadcastSlots(chats[c].id)
       IN  /\ Receives(c, r, {clients[i].id : i \in slots})
           /\ IF slots = {} THEN Returns(c)
              ELSE chats' = [chats EXCEPT ![c].pc = "spread",
                        ![c].todo = InSlotOrder(slots),
                        ![c].frame = TextFrame("broadcast", MyName(c), MyText(c))]
    /\ UNCHANGED <<clientVars, keys>>

\* The loop goes on with the recipients that are left.
SpreadRest(c) ==
    IF Len(chats[c].todo) = 1 THEN Returns(c)
    ELSE chats' = [chats EXCEPT ![c].todo = Tail(@)]

\* Mutant: the loop stops at the first recipient that cannot be reached.
SpreadStops(c) ==
    /\ chats[c].pc = "spread"
    /\ LET id == Head(chats[c].todo)
       IN  \/ SendSucceeds(id, chats[c].frame) /\ SpreadRest(c)
           \/ SendFails(id) /\ Returns(c)
    /\ UNCHANGED <<logins, keys, requests>>

Spread(c) ==
    /\ chats[c].pc = "spread"
    /\ Send(Head(chats[c].todo), chats[c].frame)
    /\ SpreadRest(c)
    /\ UNCHANGED <<logins, keys, requests>>

(***************************************************************************)
(* log_connected_clients appends ready clients in slot order while they    *)
(* fit; the name that does not is cut short and ends the list.             *)
(***************************************************************************)
ListedSlots ==
    LET ready == {i \in ClientSlots : clients[i].active /\ clients[i].ready}
        Entry(i) == 1 + NameLength[clients[i].username]
    IN  {i \in ready :
            MapThenSumSet(Entry, {j \in ready : j <= i}) < ListRoom}

RecvList(c, r) ==
    /\ r.type = "list"
    /\ Receives(c, r, {clients[i].id : i \in BroadcastSlots(INVALID_CLIENT_ID)})
    /\ ReplyWith(c, Frame("list", NoName, NoKey, MyText(c),
                          {clients[i].username : i \in ListedSlots}))
    /\ UNCHANGED <<clientVars, keys>>

(***************************************************************************)
(* Keys: FRAME_REGISTER_PK and FRAME_REQUEST_PK of handle_encrypted_chat.  *)
(***************************************************************************)
KeyRefused(id, key) ==
    \A i \in ReadySlots(id) : clients[i].public_key \notin {NoKey, key}

RecvRegister(c, r) ==
    /\ r.type = "REGISTER_PK"
    /\ Receives(c, r, {})
    /\ \/ /\ register_client_public_key(chats[c].id, r.key)
          /\ keys' = [keys EXCEPT ![chats[c].id] = r.key]
          /\ UNCHANGED chats
       \/ /\ KeyRefused(chats[c].id, r.key)
          /\ Invalid(c)
          /\ UNCHANGED <<clientVars, keys>>

\* The name is looked up first; a malformed one is not answered by a PEER_PK.
RecvRequest(c, r) ==
    /\ r.type = "REQUEST_PK"
    /\ Receives(c, r, {})
    /\ IF r.name \in ValidUsernames
       THEN chats' = [chats EXCEPT ![c].pc = "lookup",
                                   ![c].target = find_client_id(r.name)]
       ELSE Invalid(c)
    /\ UNCHANGED <<clientVars, keys>>

\* Mutant: a request for an absent peer or key is not answered.
LookupKeyOrNothing(c) ==
    /\ chats[c].pc = "lookup"
    /\ LET key == get_client_public_key(chats[c].target)
       IN  IF key = NoKey THEN Returns(c)
           ELSE ReplyWith(c, Frame("PEER_PK", Recipient(c), key, NoText, {}))
    /\ UNCHANGED <<clientVars, historyVars>>

\* Mutant: the key of the client that asks is sent.
LookupKeyOfAsker(c) ==
    /\ chats[c].pc = "lookup"
    /\ ReplyWith(c, Frame("PEER_PK", Recipient(c),
                          get_client_public_key(chats[c].id), NoText, {}))
    /\ UNCHANGED <<clientVars, historyVars>>

\* Then the key of that id; without one the reply has the name only.
LookupKey(c) ==
    /\ chats[c].pc = "lookup"
    /\ ReplyWith(c, Frame("PEER_PK", Recipient(c),
                          get_client_public_key(chats[c].target), NoText, {}))
    /\ UNCHANGED <<clientVars, historyVars>>

(***************************************************************************)
(* Everything else is answered by a text, or not at all when the command   *)
(* does not fit into the reply; /quit ends the worker.                     *)
(***************************************************************************)
RecvOther(c, r) ==
    /\ r.type \in {"help", "bad", "quit"}
    /\ Receives(c, r, {})
    /\ \/ r.type = "help" /\ ReplyWith(c, NoFrame)
       \/ r.type = "bad" /\ Invalid(c)
       \/ r.type = "bad" /\ UNCHANGED chats
       \/ r.type = "quit" /\ chats' = [chats EXCEPT ![c].pc = "leaving"]
    /\ UNCHANGED <<clientVars, keys>>

-----------------------------------------------------------------------------
\* handle_client_frame
handle_client_frame(c, r) ==
    \/ RecvMsg(c, r) \/ RecvCiphertext(c, r) \/ RecvBroadcast(c, r)
    \/ RecvList(c, r) \/ RecvRegister(c, r) \/ RecvRequest(c, r)
    \/ RecvOther(c, r)

\* A handler that is under way goes on.
Proceed(c) ==
    \/ FindRecipient(c) \/ SendPrivate(c) \/ Spread(c) \/ LookupKey(c)
    \/ Reply(c)

Connection(c) ==
    \/ \E name \in Usernames : Login(c, name)
    \/ Welcome(c) \/ Deliver(c) \/ Leave(c)

ChatNext ==
    \E c \in ChatConns :
        \/ Connection(c) \/ Proceed(c)
        \/ \E r \in Requests :
              r.type \in RequestTypes[c] /\ handle_client_frame(c, r)

ChatSpec == ChatInit /\ [][ChatNext]_chatVars

-----------------------------------------------------------------------------
Occurrences(text, id, types) ==
    Cardinality({n \in 1 .. Len(accepted[id]) :
                    /\ accepted[id][n].text = text
                    /\ accepted[id][n].type \in types})

\* The handler of the n-th frame of this client has returned.
Handled(id, n) ==
    \/ n < Len(requests[id])
    \/ \A c \in ChatConns :
          chats[c].id = id => chats[c].pc \in {"idle", "leaving", "gone"}

\* A client that goes on being served: logged in, its queue not overflowed.
Served(id) == ReadySlots(id) # {}

\* A broadcast is queued exactly once for every client that was ready when the
\* recipients were read and still is, whoever else comes, goes or overflows
\* meanwhile, and never for its sender or for anybody else.
BroadcastComplete ==
    \A id \in ClientIds : \A n \in 1 .. Len(requests[id]) :
        requests[id][n].frame.type = "broadcast" =>
            \A other \in ClientIds :
                LET copies == Occurrences(<<id, n>>, other, {"broadcast"})
                    to == requests[id][n].to
                IN  /\ copies <= 1 /\ (copies = 1 => other \in to \ {id})
                    /\ Handled(id, n) /\ other \in to /\ Served(other) =>
                          copies = 1

\* A private message that was handled is either queued for a client of the
\* name it was addressed to, or its sender is told, but never both; only a
\* sender that is itself no longer served learns nothing.
NoSilentLoss ==
    \A id \in ClientIds : \A n \in 1 .. Len(requests[id]) :
        LET request == requests[id][n].frame
            reached == {other \in ClientIds :
                Occurrences(<<id, n>>, other, {"private", "CIPHERTEXT"}) > 0}
            told == Occurrences(<<id, n>>, id, {"not_found", "invalid"})
        IN  request.type \in {"msg", "CIPHERTEXT"} =>
                /\ Cardinality(reached) + told <= 1
                /\ \A other \in reached : logins[other] = request.name
                /\ Handled(id, n) /\ Served(id) =>
                      Cardinality(reached) + told = 1

\* "Recipients display the sender name authenticated by that user's logged-in
\* TLS connection": every forwarded message carries the login name of the
\* connection it came from, and a ciphertext the key that login registered.
SenderAuthentic ==
    \A id \in ClientIds : \A n \in 1 .. Len(accepted[id]) :
        LET frame == accepted[id][n]
        IN  frame.type \in {"private", "broadcast", "CIPHERTEXT"} =>
                /\ frame.name = logins[frame.text[1]]
                /\ frame.type = "CIPHERTEXT" => frame.key = keys[frame.text[1]]
=============================================================================
