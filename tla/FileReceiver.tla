---------------------------- MODULE FileReceiver ----------------------------
(***************************************************************************)
(* The receiving half of a client (client_file_receiver.c): the table of   *)
(* incoming files, their temporary files and the saved downloads.          *)
(*                                                                         *)
(* The client has one thread, so a frame's handler is one step.  Other     *)
(* programs use the same directory: a file may appear under a download's   *)
(* name, or go away, between any two frames.  Every call of the C library  *)
(* that may fail does so nondeterministically.  A frame whose handler      *)
(* changes nothing (it does not decode, names no transfer or is refused)   *)
(* is a stuttering step.                                                   *)
(*                                                                         *)
(* Bytes are abstracted to what authentication tells apart: a byte of the  *)
(* encrypted package of a file is the file's name and a position, and a    *)
(* package opens only when all of its bytes are there, in order.           *)
(***************************************************************************)
EXTENDS Integers, Sequences, FiniteSets, Functions

CONSTANTS
    IncomingIds,         \* outbound ids under which the server forwards
    Filenames,
    DeclaredSizes,       \* sizes that begin frames declare
    MIN_PACKAGE,         \* FILE_CRYPTO_OVERHEAD and the name: an empty file
    MAX_PACKAGE,         \* the same and FILE_PLAINTEXT_MAX_SIZE
    PackageSize,         \* the size of the packages that are sent
    TempNames,           \* names mkstemp may choose
    MAX_INCOMING_FILES,
    NoTemp, NoFilename   \* the empty strings of an unused entry

ASSUME ReceiverAssumption ==
    /\ IncomingIds \subseteq Nat
    /\ DeclaredSizes \subseteq Nat
    /\ MIN_PACKAGE \in Nat \ {0}
    /\ MAX_PACKAGE \in Nat
    /\ PackageSize \in MIN_PACKAGE .. MAX_PACKAGE
    /\ MAX_INCOMING_FILES \in Nat \ {0}
    /\ NoTemp \notin TempNames
    /\ NoFilename \notin Filenames

VARIABLES
    incoming_files,   \* the table
    temps,            \* temporary files on disk: name -> package bytes written
    downloads,        \* Filenames -> what the directory has under that name
    undeletable,      \* history: temporary files that unlink failed to remove
    connected         \* main's loop is running

receiverVars == <<incoming_files, temps, downloads, undeletable, connected>>

IncomingSlots == 0 .. MAX_INCOMING_FILES - 1

\* The encrypted package of the file sent under this name, and its parts.
Package(name) == [k \in 1 .. PackageSize |-> <<name, k>>]
Pieces == {SubSeq(Package(name), first, last) :
              name \in Filenames,
              first \in 1 .. PackageSize, last \in 1 .. PackageSize} \ {<<>>}

\* What may be under a name: nothing, a file of another origin, or a download,
\* with the bytes it was decrypted from.
Absent == [kind |-> "absent", bytes |-> <<>>]
Foreign == [kind |-> "foreign", bytes |-> <<>>]
Saved(bytes) == [kind |-> "saved", bytes |-> bytes]

FreeIncoming ==
    [active |-> FALSE, transfer_id |-> 0, expected_size |-> 0,
     received_size |-> 0, filename |-> NoFilename, temp_path |-> NoTemp]

find_incoming_file(id) ==
    {i \in IncomingSlots : incoming_files[i].active
                           /\ incoming_files[i].transfer_id = id}

ReceiverInit ==
    /\ incoming_files = [i \in IncomingSlots |-> FreeIncoming]
    /\ temps = <<>>
    /\ downloads \in [Filenames -> {Absent, Foreign}]
    /\ undeletable = {}
    /\ connected = TRUE

\* unlink of a set of temporary files, each of which may fail.
Unlink(names) ==
    \E kept \in SUBSET names :
        /\ temps' = Restrict(temps, DOMAIN temps \ (names \ kept))
        /\ undeletable' = undeletable \union kept

FreeSlot(i) == incoming_files' = [incoming_files EXCEPT ![i] = FreeIncoming]

\* Mutant: the entry is cleared but its temporary file is left.
DiscardKeepsTemp(i) ==
    /\ FreeSlot(i)
    /\ UNCHANGED <<temps, undeletable>>

discard_incoming_file(i) ==
    /\ FreeSlot(i)
    /\ Unlink({incoming_files[i].temp_path})

-----------------------------------------------------------------------------
\* The package has room for its overhead, and the file is not too large.
SizeAccepted(size) == size >= MIN_PACKAGE /\ size <= MAX_PACKAGE

\* Mutant: a transfer id may be used twice.
FreeSlotsForAny(id) == {i \in IncomingSlots : ~incoming_files[i].active}

\* create_incoming_file: the slots that may be taken, none for an id in use.
SlotsFor(id) ==
    {i \in IncomingSlots : find_incoming_file(id) = {}
                           /\ ~incoming_files[i].active}

\* The first slot is taken; a temporary file is made when the download does
\* not exist yet.  fdopen may fail after mkstemp.
receive_file_begin(id, name, size) ==
    /\ SizeAccepted(size)
    /\ downloads[name] = Absent
    /\ \E i \in SlotsFor(id), t \in TempNames \ DOMAIN temps :
        /\ \A j \in SlotsFor(id) : i <= j
        /\ temps' = [u \in DOMAIN temps \union {t} |->
                        IF u = t THEN <<>> ELSE temps[u]]
        /\ \/ /\ incoming_files' = [incoming_files EXCEPT ![i] =
                    [active |-> TRUE, transfer_id |-> id,
                     expected_size |-> size, received_size |-> 0,
                     filename |-> name, temp_path |-> t]]
              /\ UNCHANGED undeletable
           \/ \* fdopen failed, and so did the removal of the file
              /\ undeletable' = undeletable \union {t}
              /\ UNCHANGED incoming_files
    /\ UNCHANGED <<downloads, connected>>

\* The piece does not fit in what is left of the declared size.
Exceeds(i, piece) ==
    LET f == incoming_files[i]
    IN  \/ f.received_size > f.expected_size
        \/ Len(piece) > f.expected_size - f.received_size

\* A piece is appended; the transfer is dropped when it does not fit or
\* cannot be written.
receive_file_chunk(id, piece) ==
    /\ \E i \in find_incoming_file(id) :
        \/ discard_incoming_file(i)
        \/ LET t == incoming_files[i].temp_path
           IN  /\ ~Exceeds(i, piece)
               /\ temps' = [temps EXCEPT ![t] = @ \o piece]
               /\ incoming_files' = [incoming_files EXCEPT
                                        ![i].received_size = @ + Len(piece)]
               /\ UNCHANGED undeletable
    /\ UNCHANGED <<downloads, connected>>

\* decrypt_received_file: the package authenticates, and the name sealed in it
\* is the name that was announced.
Opens(i) ==
    temps[incoming_files[i].temp_path] = Package(incoming_files[i].filename)

\* Mutant: rename, which replaces a file that has appeared meanwhile.
LinkReplaces(name) == TRUE

\* link fails when the name exists.
LinkSucceeds(name) == downloads[name] = Absent

\* A complete package that opens is linked under its name as plaintext; in
\* every other case the transfer is dropped.
receive_file_end(id) ==
    /\ \E i \in find_incoming_file(id) :
        LET f == incoming_files[i]
        IN  \/ discard_incoming_file(i) /\ UNCHANGED downloads
            \/ /\ f.received_size = f.expected_size
               /\ Opens(i)
               /\ LinkSucceeds(f.filename)
               /\ downloads' = [downloads EXCEPT ![f.filename] =
                                   Saved(temps[f.temp_path])]
               /\ FreeSlot(i)
               /\ Unlink({f.temp_path})
    /\ UNCHANGED connected

receive_file_error(id) ==
    /\ \E i \in find_incoming_file(id) : discard_incoming_file(i)
    /\ UNCHANGED <<downloads, connected>>

handle_incoming_file_frame ==
    \E id \in IncomingIds :
        \/ \E name \in Filenames, size \in DeclaredSizes :
              receive_file_begin(id, name, size)
        \/ \E piece \in Pieces : receive_file_chunk(id, piece)
        \/ receive_file_end(id)
        \/ receive_file_error(id)

\* main leaves its loop.
cleanup_incoming_files ==
    /\ connected' = FALSE
    /\ incoming_files' = [i \in IncomingSlots |-> FreeIncoming]
    /\ Unlink({incoming_files[i].temp_path :
                  i \in {j \in IncomingSlots : incoming_files[j].active}})
    /\ UNCHANGED downloads

\* The user or another program adds or removes a file.
OtherProgram ==
    /\ \E name \in Filenames :
        downloads' = [downloads EXCEPT ![name] =
                         IF @ = Absent THEN Foreign ELSE Absent]
    /\ UNCHANGED <<incoming_files, temps, undeletable, connected>>

ReceiverNext ==
    \/ connected /\ handle_incoming_file_frame
    \/ connected /\ cleanup_incoming_files
    \/ OtherProgram

ReceiverSpec == ReceiverInit /\ [][ReceiverNext]_receiverVars

-----------------------------------------------------------------------------
Active == {i \in IncomingSlots : incoming_files[i].active}

\* Transfers that arrive side by side do not mix: each has an id and a
\* temporary file of its own, which holds as many bytes as were counted and
\* never more than were declared.
TransfersSeparate ==
    \A i \in Active :
        LET f == incoming_files[i]
        IN  /\ \A j \in Active \ {i} :
                  /\ incoming_files[j].transfer_id # f.transfer_id
                  /\ incoming_files[j].temp_path # f.temp_path
            /\ f.temp_path \in DOMAIN temps
            /\ Len(temps[f.temp_path]) = f.received_size
            /\ f.received_size <= f.expected_size

\* "Incomplete transfers use temporary files that are removed if the transfer
\* or connection fails": on whatever path a transfer ends, the only temporary
\* files are those of transfers under way and those unlink could not remove.
NoStrayTemps ==
    DOMAIN temps =
        {incoming_files[i].temp_path : i \in Active} \union undeletable

\* "Existing files are never overwritten", also when the file appeared after
\* the transfer began: the client never changes a name that is taken.
NeverOverwritten ==
    [][ \A name \in Filenames :
          downloads[name] # Absent => downloads'[name] \in {downloads[name], Absent}
      ]_receiverVars
=============================================================================
