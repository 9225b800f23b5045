----------------------------- MODULE FileSender -----------------------------
(***************************************************************************)
(* The sending half of a client (client_file_sender.c) in front of the     *)
(* server's relay: send_file on each connection, the frames on their way   *)
(* up, and the threads of FileRelay that read them.                        *)
(*                                                                         *)
(* send_file checks, reads and encrypts the whole file before its first    *)
(* frame; a file that cannot be sent leaves no trace and is no step.  From *)
(* then on only a failed send stops it, without an error frame, and        *)
(* tls_io_failed makes every later send on the connection fail as well.    *)
(***************************************************************************)
EXTENDS FileRelay

CONSTANTS
    DiskSizes,                 \* sizes of the files users send
    FILE_PLAINTEXT_MAX_SIZE,
    FILE_CRYPTO_OVERHEAD,      \* with the length of the name
    FILE_CHUNK_SIZE,
    TransferIdSpace,           \* 2^32 in the code
    MaxUplink,                 \* frames between a client and its thread
    MaxFiles                   \* bound: files sent on each connection

ASSUME SenderAssumption ==
    /\ DiskSizes \subseteq Nat
    /\ {FILE_PLAINTEXT_MAX_SIZE, FILE_CRYPTO_OVERHEAD, FILE_CHUNK_SIZE,
        MaxUplink} \subseteq Nat \ {0}
    /\ TransferIdSpace \in Nat \ {0, 1}
    /\ TransferIds = 0 .. TransferIdSpace - 1
    /\ MaxFiles \in [Conns -> Nat]

VARIABLES
    senders,             \* Conns -> the sending program's record
    next_transfer_id,    \* Conns -> the program's counter
    uplinks,             \* Conns -> frames sent and not yet read
    fates                \* history: Conns -> what became of its last file

senderVars == <<senders, next_transfer_id, uplinks, fates>>
transferVars == <<vars, senderVars>>

Sender(pc, files) ==
    [pc |-> pc, files |-> files, transfer |-> 0, to |-> NoName, size |-> 0,
     left |-> 0]

UpFrame(type, transfer, to, size) ==
    [type |-> type, transfer |-> transfer, to |-> to, size |-> size]

TransferInit ==
    /\ RelayInit
    /\ senders = [c \in Conns |-> Sender("idle", MaxFiles[c])]
    /\ next_transfer_id = [c \in Conns |-> 1]
    /\ uplinks = [c \in Conns |-> <<>>]
    /\ fates = [c \in Conns |-> "none"]

-----------------------------------------------------------------------------
\* create_transfer_id: the counter wraps, and zero is skipped.
create_transfer_id(c) ==
    IF next_transfer_id[c] = 0 THEN 1 ELSE next_transfer_id[c]

\* Mutant: any file that can be read is sent.
SendableAll(size) == TRUE

Sendable(size) == size <= FILE_PLAINTEXT_MAX_SIZE

\* What the begin frame declares: the encrypted length.
Declared(size) == FILE_CRYPTO_OVERHEAD + size

\* send_file up to its first frame.  The recipient is any name a key was
\* received for, the sender's own included.
send_file(c) ==
    /\ senders[c].pc = "idle" /\ senders[c].files > 0
    /\ threads[c].pc \notin {"login", "welcome"}
    /\ \E to \in ValidUsernames, size \in DiskSizes :
          /\ Sendable(size)
          /\ senders' = [senders EXCEPT ![c] =
                [pc |-> "begin", files |-> @.files - 1,
                 transfer |-> create_transfer_id(c), to |-> to,
                 size |-> Declared(size), left |-> FILE_CRYPTO_OVERHEAD + size]]
    /\ next_transfer_id' = [next_transfer_id EXCEPT ![c] =
                               (create_transfer_id(c) + 1) % TransferIdSpace]
    /\ UNCHANGED <<vars, uplinks, fates>>

\* send_frame, which blocks while there is no room.
SendUp(c, frame) ==
    /\ Len(uplinks[c]) < MaxUplink
    /\ uplinks' = [uplinks EXCEPT ![c] = Append(@, frame)]
    /\ UNCHANGED <<vars, next_transfer_id, fates>>

send_file_begin(c) ==
    LET s == senders[c]
    IN  /\ s.pc = "begin"
        /\ SendUp(c, UpFrame("BEGIN", s.transfer, s.to, s.size))
        /\ senders' = [senders EXCEPT ![c].pc = "chunks"]

ChunkLength(left) == Min({left, FILE_CHUNK_SIZE})

send_file_chunk(c) ==
    LET s == senders[c]
        length == ChunkLength(s.left)
    IN  /\ s.pc = "chunks"
        /\ SendUp(c, UpFrame("CHUNK", s.transfer, NoName, length))
        /\ senders' = [senders EXCEPT
                          ![c].left = @ - length,
                          ![c].pc = IF s.left > length THEN "chunks" ELSE "end"]

\* Mutant: the end of the file is left for the server to see.
EndUnsent(c) ==
    /\ senders[c].pc = "end"
    /\ senders' = [senders EXCEPT ![c] = Sender("idle", @.files)]
    /\ UNCHANGED <<vars, next_transfer_id, uplinks, fates>>

send_file_end(c) ==
    /\ senders[c].pc = "end"
    /\ SendUp(c, UpFrame("END", senders[c].transfer, NoName, 0))
    /\ senders' = [senders EXCEPT ![c] = Sender("idle", @.files)]

\* send_frame fails; the file is given up and the connection is of no use.
SendBreaks(c) ==
    /\ senders[c].pc \in {"begin", "chunks", "end"}
    /\ senders' = [senders EXCEPT ![c] = Sender("broken", 0)]
    /\ UNCHANGED <<vars, next_transfer_id, uplinks, fates>>

-----------------------------------------------------------------------------
\* The thread of c reads the next frame from its client.
ServerReads(c) ==
    LET frame == Head(uplinks[c])
    IN  /\ uplinks[c] # <<>>
        /\ \/ /\ frame.type = "BEGIN"
              /\ RecvBegin(c, frame.transfer, frame.to, frame.size)
           \/ frame.type = "CHUNK" /\ RecvChunk(c, frame.transfer, frame.size)
           \/ frame.type = "END" /\ RecvEnd(c, frame.transfer)
        /\ uplinks' = [uplinks EXCEPT ![c] = Tail(@)]

ServerActs(c) ==
    /\ \/ Login(c) \/ LoginFails(c) \/ WelcomeFails(c)
       \/ Deliver(c) \/ Leave(c) \/ Proceed(c)
    /\ UNCHANGED uplinks

\* A thread takes it on itself to tell the client of c ...
Tells(c) ==
    \E d \in Conns :
        /\ threads[d].todo = <<>>
        /\ \E k \in DOMAIN threads'[d].todo :
              threads'[d].todo[k] = notify_sender(threads[c].id)

\* ... and has queued the end frame for the recipient.
Forwards(c) == At(c, "end_send") /\ ~At(c, "end_send")' /\ streams' # streams

ObserveFates(c) ==
    fates' = [d \in Conns |->
        IF Tells(d) THEN "told"
        ELSE IF Forwards(d) THEN "forwarded"
        ELSE IF c = d /\ At(d, "serve") /\ threads'[d].pc = "begin_add" THEN "open"
        ELSE fates[d]]

TransferNext ==
    \E c \in Conns :
        \/ send_file(c) \/ send_file_begin(c) \/ send_file_chunk(c)
        \/ send_file_end(c) \/ SendBreaks(c)
        \/ /\ ServerReads(c) \/ ServerActs(c)
           /\ ObserveFates(c)
           /\ UNCHANGED <<senders, next_transfer_id>>

TransferSpec == TransferInit /\ [][TransferNext]_transferVars

-----------------------------------------------------------------------------
\* The thread of c has read all of one file and nothing of the next.
Settled(c) ==
    /\ At(c, "serve")
    /\ \/ uplinks[c] = <<>> /\ senders[c].pc \in {"idle", "begin"}
       \/ uplinks[c] # <<>> /\ Head(uplinks[c]).type = "BEGIN"

\* A file that send_file sends is never rejected for its form, whatever other
\* clients do: the server finds no duplicate id (also once the counter has
\* wrapped), no chunk beyond the declared size and no end before it, and the
\* declared size is one receive_file_begin accepts.
SentFilesAreSound ==
    \A c \in Conns :
        LET id == threads[c].id
            frame == Head(uplinks[c])
        IN  /\ At(c, "begin_add") =>
                  /\ ~HasRoute(id, threads[c].transfer)
                  /\ threads[c].size - FILE_CRYPTO_OVERHEAD
                        \in 0 .. FILE_PLAINTEXT_MAX_SIZE
            /\ At(c, "serve") /\ uplinks[c] # <<>> =>
                  /\ frame.type = "CHUNK" =>
                        ChunkResult(id, frame.transfer, frame.size) # "OVERRUN"
                  /\ frame.type = "END" =>
                        FinishResult(id, frame.transfer, TRUE) # "INCOMPLETE"

\* Between two files a client holds no entry of the routing table, forwarding
\* or tombstone: whatever went wrong with a file, its end frame frees its slot.
SlotsReturned ==
    \A c \in Conns, i \in RouteSlots :
        Settled(c) /\ threads[c].id # INVALID_CLIENT_ID =>
            routes[i].sender_id # threads[c].id

\* A file that was sent to its end is not lost in silence: its recipient was
\* queued the end frame, or a thread has set out to tell the sender, however
\* departures, overflows and failed allocations fall between the frames.
NoFileLostSilently ==
    \A c \in Conns : Settled(c) => fates[c] # "open"
=============================================================================
