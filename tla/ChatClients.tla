---------------------------- MODULE ChatClients ----------------------------
(***************************************************************************)
(* Client programs (client.c) and the chat server together.  A program     *)
(* that is asked to send a private message or a file to a name first asks  *)
(* the server for the name's public key and keeps the package pending; the *)
(* reply is matched to a pending package by name.                          *)
(*                                                                         *)
(* Each direction of a connection is a FIFO of frames; the server's queue  *)
(* for the client comes before the downlink.  crypto_box is ideal: a box   *)
(* opens with the key it was made for and the key it was made with.        *)
(***************************************************************************)
EXTENDS ServerChat

CONSTANTS
    LoginName,             \* ChatConns -> the name typed at the prompt
    OwnKey,                \* ChatConns -> the public key of the program
    Typing,                \* ChatConns -> the packages its user types, in order
    MAX_PENDING_PACKAGES

ASSUME ProgramsAssumption ==
    /\ LoginName \in [ChatConns -> Usernames]
    /\ OwnKey \in [ChatConns -> PublicKeys]
    /\ Typing \in [ChatConns ->
                      Seq([kind: {"message", "file"}, recipient: Usernames])]
    /\ MAX_PENDING_PACKAGES \in Nat \ {0}

VARIABLES
    connected,   \* ChatConns -> is the program's loop running?
    typed,       \* ChatConns -> packages typed so far
    pending,     \* ChatConns -> its pending packages, oldest first
    uplink,      \* ChatConns -> frames on their way to the server
    downlink,    \* ChatConns -> frames on their way to the program
    sealed,      \* history: packages encrypted, and for which key
    shown        \* history: private messages displayed, how often

programVars == <<connected, typed, pending, uplink, downlink, sealed, shown>>
systemVars == <<chatVars, programVars>>

\* What is typed next after /msg or /file.
NextPackage(c) ==
    [from |-> c, number |-> typed[c] + 1,
     kind |-> Typing[c][typed[c] + 1].kind,
     recipient |-> Typing[c][typed[c] + 1].recipient]

Register(c) == [type |-> "REGISTER_PK", name |-> NoName, key |-> OwnKey[c]]
KeyRequest(name) == [type |-> "REQUEST_PK", name |-> name, key |-> NoKey]

\* send_private_chat: what goes to the server for a package and a peer's key.
Ciphertext(c, package, key) ==
    [type |-> "CIPHERTEXT", name |-> package.recipient, key |-> OwnKey[c],
     box |-> [for |-> key, by |-> OwnKey[c], package |-> package]]

SystemInit ==
    /\ ChatInit
    /\ connected = [c \in ChatConns |-> FALSE]
    /\ typed = [c \in ChatConns |-> 0]
    /\ pending = [c \in ChatConns |-> <<>>]
    /\ uplink = [c \in ChatConns |-> <<>>]
    /\ downlink = [c \in ChatConns |-> <<>>]
    /\ sealed = {} /\ shown = <<>>

-----------------------------------------------------------------------------
(***************************************************************************)
(* The client program.                                                     *)
(***************************************************************************)
\* get_username_and_register_in_server; the server adds the client.
ProgramLogin(c) == Login(c, LoginName[c]) /\ UNCHANGED programVars

\* receive_welcome_message, and main's first frame registers the key.
ProgramWelcomed(c) ==
    /\ Welcome(c)
    /\ connected' = [connected EXCEPT ![c] = TRUE]
    /\ uplink' = [uplink EXCEPT ![c] = Append(@, Register(c))]
    /\ UNCHANGED <<typed, pending, downlink, sealed, shown>>

PendingFull(c) == Len(pending[c]) >= MAX_PENDING_PACKAGES

\* handle_private_message and handle_file_command: ask for the key, then keep
\* the package; when too many are pending the command fails.
TypePackage(c) ==
    /\ connected[c] /\ typed[c] < Len(Typing[c])
    /\ typed' = [typed EXCEPT ![c] = @ + 1]
    /\ IF PendingFull(c)
       THEN UNCHANGED <<uplink, pending>>
       ELSE /\ uplink' = [uplink EXCEPT ![c] =
                             Append(@, KeyRequest(NextPackage(c).recipient))]
            /\ pending' = [pending EXCEPT ![c] = Append(@, NextPackage(c))]
    /\ UNCHANGED <<chatVars, connected, downlink, sealed, shown>>

Matches(c, name) == {n \in 1 .. Len(pending[c]) : pending[c][n].recipient = name}

\* handle_server_frame, FRAME_PEER_PK: the oldest package for the name leaves
\* the list; without a key it is given up, with one it is encrypted and sent.
PeerKey(c, frame) ==
    /\ frame.type = "PEER_PK"
    /\ IF Matches(c, frame.name) = {}
       THEN UNCHANGED <<pending, sealed, uplink>>
       ELSE LET n == Min(Matches(c, frame.name))
                package == pending[c][n]
            IN  /\ pending' = [pending EXCEPT ![c] =
                       SubSeq(@, 1, n - 1) \o SubSeq(@, n + 1, Len(@))]
                /\ IF frame.key = NoKey THEN UNCHANGED <<sealed, uplink>>
                   ELSE /\ sealed' = sealed \union
                                {[package |-> package, for |-> frame.key]}
                        /\ uplink' = IF package.kind = "file" THEN uplink
                              ELSE [uplink EXCEPT ![c] = Append(@,
                                      Ciphertext(c, package, frame.key))]
    /\ UNCHANGED shown

\* receive_private_chat: the box is opened with the program's own key and the
\* sender key in the frame; one that does not open is reported, not shown.
PrivateChat(c, frame) ==
    /\ frame.type = "CIPHERTEXT"
    /\ LET box == requests[frame.text[1]][frame.text[2]].frame.box
       IN  shown' = IF box.for = OwnKey[c] /\ box.by = frame.key
                    THEN Append(shown, [on |-> c, name |-> frame.name,
                                        package |-> box.package])
                    ELSE shown
    /\ UNCHANGED <<pending, sealed, uplink>>

handle_server_frame(c, frame) ==
    \/ PeerKey(c, frame)
    \/ PrivateChat(c, frame)
    \/ /\ frame.type \notin {"PEER_PK", "CIPHERTEXT"}    \* a text to display
       /\ UNCHANGED <<pending, sealed, uplink, shown>>

ProgramReads(c) ==
    /\ connected[c] /\ downlink[c] # <<>>
    /\ handle_server_frame(c, Head(downlink[c]))
    /\ downlink' = [downlink EXCEPT ![c] = Tail(@)]
    /\ UNCHANGED <<chatVars, connected, typed>>

\* /quit, end of input, an error or EOF: main frees what is pending.
ProgramEnds(c) ==
    /\ connected[c]
    /\ connected' = [connected EXCEPT ![c] = FALSE]
    /\ pending' = [pending EXCEPT ![c] = <<>>]
    /\ downlink' = [downlink EXCEPT ![c] = <<>>]
    /\ UNCHANGED <<chatVars, typed, uplink, sealed, shown>>

(***************************************************************************)
(* The server's end of the connection.                                     *)
(***************************************************************************)
ServerReads(c) ==
    /\ uplink[c] # <<>>
    /\ handle_client_frame(c, Head(uplink[c]))
    /\ uplink' = [uplink EXCEPT ![c] = Tail(@)]
    /\ UNCHANGED <<connected, typed, pending, downlink, sealed, shown>>

ServerProceeds(c) == Proceed(c) /\ UNCHANGED programVars

\* Mutant: the last frame of the queue is not written.
ServerWritesAllButLast(c) ==
    /\ Deliver(c) /\ Len(clients[chats[c].slot].outgoing) > 1
    /\ downlink' = [downlink EXCEPT ![c] = IF connected[c]
                       THEN Append(@, Head(clients[chats[c].slot].outgoing))
                       ELSE @]
    /\ UNCHANGED <<connected, typed, pending, uplink, sealed, shown>>

ServerWrites(c) ==
    /\ Deliver(c)
    /\ downlink' = [downlink EXCEPT ![c] = IF connected[c]
                       THEN Append(@, Head(clients[chats[c].slot].outgoing))
                       ELSE @]
    /\ UNCHANGED <<connected, typed, pending, uplink, sealed, shown>>

\* The connection ends, whichever side began it.
ServerLeaves(c) == Leave(c) /\ UNCHANGED programVars

Machine(c) ==
    \/ ServerReads(c) \/ ServerProceeds(c) \/ ServerWrites(c)
    \/ ProgramWelcomed(c) \/ ProgramReads(c)

SystemNext ==
    \E c \in ChatConns :
        \/ ProgramLogin(c) \/ TypePackage(c) \/ Machine(c)
        \/ ProgramEnds(c) \/ ServerLeaves(c)

SystemSpec == SystemInit /\ [][SystemNext]_systemVars

\* Threads, programs and the network make progress; users need not.
SystemFairSpec ==
    SystemSpec /\ \A c \in ChatConns : WF_systemVars(Machine(c))

-----------------------------------------------------------------------------
\* What is written to a name is encrypted for a key that a login of this name
\* registered, whatever replies are outstanding, unanswered or out of date
\* (PEER_PK in handle_server_frame, REQUEST_PK in handle_encrypted_chat).
EncryptedForName ==
    \A s \in sealed :
        \E id \in ClientIds : /\ logins[id] = s.package.recipient
                              /\ keys[id] = s.for

\* A private message is displayed only to the user it was typed for, under the
\* name of the user who typed it, and only once; if the recipient reconnected
\* with another key in the meantime it is not displayed at all.
ShownAuthentic ==
    \A n \in 1 .. Len(shown) :
        LET s == shown[n]
        IN  /\ s.name = LoginName[s.package.from]
            /\ LoginName[s.on] = s.package.recipient
            /\ [package |-> s.package, for |-> OwnKey[s.on]] \in sealed
            /\ \A m \in 1 .. n - 1 : shown[m].package # s.package

\* How many frames for which Test holds a sequence has.
CountIn(frames, Test(_)) ==
    Cardinality({n \in 1 .. Len(frames) : Test(frames[n])})

\* While the connection holds, each pending package has exactly one request or
\* reply under way: in the uplink, in its handler, in the server's queue or in
\* the downlink.  None can wait for a reply that never comes, and no reply can
\* be taken for another package's.
PendingAccounted ==
    \A c \in ChatConns :
        connected[c] /\ Served(chats[c].id) =>
            \A name \in Usernames :
                LET Waits(p) == p.recipient = name
                    Asks(r) == r.type = "REQUEST_PK" /\ r.name = name
                    Answers(f) == f.type = "PEER_PK" /\ f.name = name
                    handled == \/ chats[c].pc = "lookup" /\ Recipient(c) = name
                               \/ chats[c].pc = "reply" /\ Answers(chats[c].frame)
                IN  CountIn(pending[c], Waits) =
                      CountIn(uplink[c], Asks)
                      + (IF handled THEN 1 ELSE 0)
                      + CountIn(clients[chats[c].slot].outgoing, Answers)
                      + CountIn(downlink[c], Answers)

\* "A name-only FRAME_PEER_PK reply indicates an unavailable recipient or key
\* and cancels that pending message or file transfer": every package is sent
\* or given up in the end, unless the connection ends first.
PackagesResolved ==
    \A c \in {d \in ChatConns : Typing[d] # <<>>} :
        pending[c] # <<>> ~> pending[c] = <<>> \/ ~Served(chats[c].id)
=============================================================================
