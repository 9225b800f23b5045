---------------------------- MODULE FileProtocol ----------------------------
(***************************************************************************)
(* The codec of file frames (file_protocol.c) on the way of a frame: the   *)
(* sending client encodes it, the server decodes it and encodes it anew    *)
(* with the outbound id and the sender's name (server_files.c), and the    *)
(* receiving client decodes that.  A sender that is not this client may    *)
(* send any bytes.                                                         *)
(*                                                                         *)
(* Bytes also stand for the characters the validators tell apart, and      *)
(* integers have few of them; a uint64_t still is two words.  A frame's    *)
(* type byte is its own field.                                             *)
(***************************************************************************)
EXTENDS WireBytes

CONSTANTS
    U16, U32,                \* bytes of a uint16_t and of a uint32_t
    Controls, Spaces,        \* iscntrl and isspace bytes
    Separators,              \* slash and backslash
    Dot,
    FILE_NAME_MAX_LENGTH,
    FILE_CHUNK_SIZE,
    Sent,                    \* what senders of this program encode
    Foreign,                 \* frames that reach the server from others
    Renamings                \* outbound ids and sender names: <<id, name>>

ASSUME CodecAssumption ==
    /\ {U16, U32, FILE_NAME_MAX_LENGTH, FILE_CHUNK_SIZE} \subseteq Nat \ {0}
    /\ Controls \union Spaces \union Separators \union {Dot} \subseteq Bytes
    /\ USERNAME_SIZE + FILE_NAME_MAX_LENGTH < ByteBase ^ U16

(***************************************************************************)
(* Integers in network order.                                              *)
(***************************************************************************)
write_u16(value) == Write(value, U16)
write_u32(value) == Write(value, U32)
write_u64(value) ==
    write_u32(value \div ByteBase ^ U32) \o write_u32(value)

read_u64(bytes) ==
    Read(SubSeq(bytes, 1, U32)) * ByteBase ^ U32
        + Read(SubSeq(bytes, U32 + 1, 2 * U32))

(***************************************************************************)
(* Names.                                                                  *)
(***************************************************************************)
valid_peer_name(name) ==
    /\ Len(name) \in 1 .. USERNAME_SIZE - 1
    /\ ToSet(name) \intersect ({0} \union Spaces \union Controls) = {}

valid_filename(name) ==
    /\ Len(name) \in 1 .. FILE_NAME_MAX_LENGTH
    /\ name \notin {<<Dot>>, <<Dot, Dot>>}
    /\ ToSet(name) \intersect ({0} \union Separators \union Controls) = {}

(***************************************************************************)
(* Encoding: a payload, for which the caller's buffer must have room.      *)
(***************************************************************************)
Failure == [ok |-> FALSE, payload |-> <<>>]
Encoded(payload, capacity) ==
    IF Len(payload) > capacity THEN Failure
    ELSE [ok |-> TRUE, payload |-> payload]

FILE_BEGIN_FIXED_PAYLOAD_SIZE == 3 * U32 + 2 * U16

FILE_BEGIN_PAYLOAD_MAX_SIZE ==
    FILE_BEGIN_FIXED_PAYLOAD_SIZE + (USERNAME_SIZE - 1) + FILE_NAME_MAX_LENGTH
FILE_CHUNK_PAYLOAD_MAX_SIZE == U32 + FILE_CHUNK_SIZE
FILE_CONTROL_PAYLOAD_SIZE == U32

encode_begin(m) ==
    IF ~valid_peer_name(m.peer) \/ ~valid_filename(m.filename) THEN Failure
    ELSE Encoded(write_u32(m.transfer_id) \o write_u64(m.file_size)
                    \o write_u16(Len(m.peer)) \o write_u16(Len(m.filename))
                    \o m.peer \o m.filename,
                 FILE_BEGIN_PAYLOAD_MAX_SIZE)

encode_chunk(m) ==
    IF Len(m.data) \notin 1 .. FILE_CHUNK_SIZE THEN Failure
    ELSE Encoded(write_u32(m.transfer_id) \o m.data, FILE_CHUNK_PAYLOAD_MAX_SIZE)

encode_control(m) ==
    Encoded(write_u32(m.transfer_id), FILE_CONTROL_PAYLOAD_SIZE)

encode(m) ==
    CASE m.type = "BEGIN" -> encode_begin(m)
      [] m.type = "CHUNK" -> encode_chunk(m)
      [] m.type \in {"END", "ERROR"} -> encode_control(m)

(***************************************************************************)
(* Decoding: a message, or Malformed.                                      *)
(***************************************************************************)
Message(type, id) ==
    [type |-> type, transfer_id |-> id, file_size |-> 0, peer |-> <<>>,
     filename |-> <<>>, data |-> <<>>]
Malformed == Message("MALFORMED", 0)

\* Mutant: the names need not fill the frame.
NamesWithin(length, room) == length <= room

NamesFill(length, room) == length = room

decode_begin(payload) ==
    LET fixed == FILE_BEGIN_FIXED_PAYLOAD_SIZE
        peer_length == Read(SubSeq(payload, 3 * U32 + 1, 3 * U32 + U16))
        filename_length == Read(SubSeq(payload, 3 * U32 + U16 + 1, fixed))
        peer == SubSeq(payload, fixed + 1, fixed + peer_length)
        filename == SubSeq(payload, fixed + peer_length + 1,
                           fixed + peer_length + filename_length)
    IN  IF \/ Len(payload) < fixed
           \/ ~NamesFill(peer_length + filename_length, Len(payload) - fixed)
           \/ ~valid_peer_name(peer) \/ ~valid_filename(filename)
        THEN Malformed
        ELSE [Message("BEGIN", Read(SubSeq(payload, 1, U32))) EXCEPT
                 !.file_size = read_u64(SubSeq(payload, U32 + 1, 3 * U32)),
                 !.peer = peer, !.filename = filename]

decode_chunk(payload) ==
    IF Len(payload) <= U32 \/ Len(payload) > U32 + FILE_CHUNK_SIZE
    THEN Malformed
    ELSE [Message("CHUNK", Read(SubSeq(payload, 1, U32))) EXCEPT
             !.data = SubSeq(payload, U32 + 1, Len(payload))]

decode_control(type, payload) ==
    IF Len(payload) # FILE_CONTROL_PAYLOAD_SIZE THEN Malformed
    ELSE Message(type, Read(payload))

decode(frame) ==
    CASE frame.type = "BEGIN" -> decode_begin(frame.payload)
      [] frame.type = "CHUNK" -> decode_chunk(frame.payload)
      [] frame.type \in {"END", "ERROR"} -> decode_control(frame.type, frame.payload)

-----------------------------------------------------------------------------
VARIABLES
    hop,        \* how far the frame has come
    origin,     \* the message it was encoded from, or Malformed for others
    frame,      \* the frame as it is on its way
    seen,       \* what the server decoded
    renamed,    \* the id and name it forwarded the frame with
    shown       \* what the receiving client decoded

codecVars == <<hop, origin, frame, seen, renamed, shown>>

\* send_file_begin, send_file_chunk, send_file_control; or another program.
CodecInit ==
    /\ hop = "sent"
    /\ \/ \E m \in Sent :
             /\ encode(m).ok
             /\ origin = m /\ frame = [type |-> m.type, payload |-> encode(m).payload]
       \/ origin = Malformed /\ frame \in Foreign
    /\ seen = Malformed /\ shown = Malformed
    /\ renamed \in Renamings

\* Mutant: the begin frame is forwarded under its recipient's name.
ForwardedUnderPeer == [seen EXCEPT !.transfer_id = renamed[1]]

\* The frame handlers of the server, for a transfer with a route.
Forwarded ==
    [seen EXCEPT !.transfer_id = renamed[1],
                 !.peer = IF seen.type = "BEGIN" THEN renamed[2] ELSE @]

ServerDecodes ==
    /\ hop = "sent"
    /\ seen' = decode(frame)
    /\ hop' = IF seen' = Malformed THEN "rejected" ELSE "accepted"
    /\ UNCHANGED <<origin, frame, renamed, shown>>

ServerForwards ==
    /\ hop = "accepted"
    /\ IF encode(Forwarded).ok
       THEN /\ hop' = "forwarded"
            /\ frame' = [type |-> seen.type, payload |-> encode(Forwarded).payload]
       ELSE hop' = "unforwardable" /\ UNCHANGED frame
    /\ UNCHANGED <<origin, seen, renamed, shown>>

ReceiverDecodes ==
    /\ hop = "forwarded"
    /\ shown' = decode(frame)
    /\ hop' = "shown"
    /\ UNCHANGED <<origin, frame, seen, renamed>>

CodecNext == ServerDecodes \/ ServerForwards \/ ReceiverDecodes

CodecSpec == CodecInit /\ [][CodecNext]_codecVars

-----------------------------------------------------------------------------
\* What a client of this program sends the server reads as it was, and whatever
\* frame the server accepts it can forward, whoever made it and however long
\* the sender's name is: the branches of the handlers for a frame that cannot
\* be encoded again are never taken, and the receiver reads the same size,
\* filename and data with the outbound id and the sender's name.
CarriedUnchanged ==
    /\ hop # "unforwardable"
    /\ hop # "sent" /\ origin # Malformed => seen = origin
    /\ hop = "shown" =>
          /\ shown.transfer_id = renamed[1]
          /\ shown.type = "BEGIN" => shown.peer = renamed[2]
          /\ \A field \in {"type", "file_size", "filename", "data"} :
                shown[field] = seen[field]

\* The decoders accept one form only: a frame they accept is the one that the
\* encoders make of its contents, without slack or hidden bytes.
OneFormOnly ==
    hop = "accepted" => encode(seen) = [ok |-> TRUE, payload |-> frame.payload]
=============================================================================
