------------------------------ MODULE Framing ------------------------------
(***************************************************************************)
(* Frames on a TLS byte stream: how they are written (send_frame and       *)
(* send_message of common.c, the outgoing buffer of server_worker.c) and   *)
(* how they are found again however the stream is cut into reads           *)
(* (receive_frame, receive_message, the worker's incremental reader).      *)
(*                                                                         *)
(* The length prefix has fewer bytes than four; a frame is the sequence of *)
(* its bytes, the type first.                                              *)
(***************************************************************************)
EXTENDS WireBytes

CONSTANTS
    HEADER,          \* bytes of the length prefix, sizeof(uint32_t)
    FRAME_MAX_SIZE,  \* the longest frame, and the client's buffer for one
    MESSAGE_MAX_SIZE,
    MESSAGE_CAPACITY, \* the buffer of who receives a message
    FrameTypes,      \* the types is_valid_frame_type knows
    Readers,         \* which readers are run: "worker", "frame", "message"
    Streams,         \* byte streams a peer may have sent before
    Posts            \* sequences of frames a writer may have to send

ASSUME FramingAssumption ==
    /\ {HEADER, FRAME_MAX_SIZE, MESSAGE_MAX_SIZE} \subseteq Nat \ {0}
    /\ MESSAGE_CAPACITY \in Nat \ {0, 1}
    /\ MESSAGE_MAX_SIZE <= FRAME_MAX_SIZE
    /\ FRAME_MAX_SIZE < ByteBase ^ HEADER
    /\ FrameTypes \subseteq Bytes
    /\ Readers \subseteq {"worker", "frame", "message"}

VARIABLES
    reader,      \* which code reads
    foreign,     \* is the stream another program's?
    stream,      \* every byte written so far
    ending,      \* "open", "closed" by close_notify, or "cut" without it
    posted,      \* the frames the writer was given
    outbox,      \* those it has not begun
    outgoing,    \* the buffers of its frame it has still to write
    taken,       \* how many bytes of the stream were read
    incoming,    \* bytes of the header or frame being read
    needed,      \* how many bytes it is to have
    in_body,     \* receive_frame: has the header been read?
    got,         \* frames handed over
    status       \* "reading", "eof" (returned 0), or why -1 was returned:
                 \* "refused" (EMSGSIZE, EPROTO) or "broken" (all other errno)

readVars == <<taken, incoming, needed, in_body, got, status>>
writeVars == <<stream, ending, posted, outbox, outgoing>>
framingVars == <<reader, foreign, readVars, writeVars>>

\* The lengths that are sent, and those that the three readers accept; only
\* receive_message leaves a byte of its buffer free for a NUL.
LengthSendable(length) ==
    length \in 1 .. IF reader = "message" THEN MESSAGE_MAX_SIZE ELSE FRAME_MAX_SIZE

LengthOk(length) ==
    LengthSendable(length) /\ (reader = "message" => length < MESSAGE_CAPACITY)

\* A message, unlike a frame, has no type.
TypeOk(frame) == reader = "message" \/ Head(frame) \in FrameTypes

ReaderInit ==
    /\ reader \in Readers
    /\ taken = 0 /\ incoming = <<>> /\ needed = HEADER /\ in_body = FALSE
    /\ got = <<>> /\ status = "reading"

\* A stream that is there in full, from a peer that may have sent anything
\* and closed the connection or not.
StreamInit ==
    /\ ReaderInit
    /\ foreign = TRUE /\ stream \in Streams /\ ending \in {"closed", "cut"}
    /\ posted = <<>> /\ outbox = <<>> /\ outgoing = <<>>

\* A writer of this program at the other end.
PipeInit ==
    /\ ReaderInit
    /\ foreign = FALSE /\ stream = <<>> /\ ending = "open"
    /\ posted \in Posts /\ outbox = posted /\ outgoing = <<>>

FramingInit == StreamInit \/ PipeInit

-----------------------------------------------------------------------------
(***************************************************************************)
(* Writing.  What a client reads with receive_frame comes from a worker,   *)
(* which has prefix, type and payload in one buffer; send_frame and        *)
(* send_message pass them to send_all one after the other.  OpenSSL is not *)
(* in partial write mode: a call that succeeds has written its buffer, one *)
(* that fails may have written the first records of it.                    *)
(***************************************************************************)
\* What send_frame and send_message do not refuse with EINVAL or EMSGSIZE.
Sendable(frame) == LengthSendable(Len(frame)) /\ TypeOk(frame)

\* Mutant: the type is not counted in the length.
BuffersWithoutType(frame) ==
    LET prefix == Write(Len(frame) - 1, HEADER)
    IN  IF reader = "frame" THEN <<prefix \o frame>> ELSE <<prefix, frame>>

\* The buffers in which a frame is written.
Buffers(frame) ==
    LET prefix == Write(Len(frame), HEADER)
        parts == <<prefix, SubSeq(frame, 1, 1), SubSeq(frame, 2, Len(frame))>>
    IN  CASE reader = "frame" -> <<prefix \o frame>>
          [] reader = "worker" -> SelectSeq(parts, LAMBDA part : part # <<>>)
          [] reader = "message" -> <<prefix, frame>>

BeginFrame ==
    /\ ending = "open" /\ outgoing = <<>> /\ outbox # <<>>
    /\ outgoing' = IF Sendable(Head(outbox)) THEN Buffers(Head(outbox)) ELSE <<>>
    /\ outbox' = Tail(outbox)
    /\ UNCHANGED <<reader, foreign, readVars, stream, ending, posted>>

send_all ==
    /\ ending = "open" /\ outgoing # <<>>
    /\ stream' = stream \o Head(outgoing)
    /\ outgoing' = Tail(outgoing)
    /\ UNCHANGED <<reader, foreign, readVars, ending, posted, outbox>>

\* close_notify is only sent when no write is pending.
WriterCloses ==
    /\ ending = "open" /\ outgoing = <<>>
    /\ ending' = "closed"
    /\ UNCHANGED <<reader, foreign, readVars, stream, posted, outbox, outgoing>>

\* The connection breaks between two calls or in one.
Broken ==
    /\ ending = "open"
    /\ ending' = "cut"
    /\ \/ UNCHANGED stream
       \/ /\ outgoing # <<>>
          /\ \E count \in 1 .. Len(Head(outgoing)) - 1 :
                stream' = stream \o SubSeq(Head(outgoing), 1, count)
    /\ UNCHANGED <<reader, foreign, readVars, posted, outbox, outgoing>>

-----------------------------------------------------------------------------
(***************************************************************************)
(* Reading.  A read returns at least one byte and at most what is missing. *)
(***************************************************************************)
Received(count) == incoming \o SubSeq(stream, taken + 1, taken + count)

Counts ==
    {count \in 1 .. needed - Len(incoming) : taken + count <= Len(stream)}

Fail == status' = "refused" /\ UNCHANGED <<incoming, needed, in_body, got>>

\* Mutant: the number of bytes needed is not reset for the next header.
HandOverOnly(frame) ==
    IF TypeOk(frame)
    THEN /\ got' = Append(got, frame)
         /\ incoming' = <<>> /\ in_body' = FALSE
         /\ UNCHANGED <<needed, status>>
    ELSE Fail

HandOver(frame) ==
    IF TypeOk(frame)
    THEN /\ got' = Append(got, frame)
         /\ incoming' = <<>> /\ needed' = HEADER /\ in_body' = FALSE
         /\ UNCHANGED status
    ELSE Fail

\* The reader of run_client_worker: header and body share a buffer, and the
\* two are told apart by the number of bytes needed.
WorkerRead(count) ==
    /\ reader = "worker" /\ status = "reading" /\ count \in Counts
    /\ taken' = taken + count
    /\ LET bytes == Received(count)
           length == Read(bytes)
       IN  \/ /\ Len(bytes) < needed
              /\ incoming' = bytes
              /\ UNCHANGED <<needed, in_body, got, status>>
           \/ /\ Len(bytes) = needed /\ needed = HEADER
              /\ IF LengthOk(length)
                 THEN /\ incoming' = bytes /\ needed' = needed + length
                      /\ UNCHANGED <<in_body, got, status>>
                 ELSE Fail
           \/ /\ Len(bytes) = needed /\ needed # HEADER
              /\ HandOver(SubSeq(bytes, HEADER + 1, needed))
    /\ UNCHANGED <<reader, foreign, writeVars>>

\* receive_frame and receive_message: recv_all for the header, then for the
\* body into a buffer of its own.
recv_all(count) ==
    /\ reader # "worker" /\ status = "reading" /\ count \in Counts
    /\ taken' = taken + count
    /\ LET bytes == Received(count)
           length == Read(bytes)
       IN  \/ /\ Len(bytes) < needed
              /\ incoming' = bytes
              /\ UNCHANGED <<needed, in_body, got, status>>
           \/ /\ Len(bytes) = needed /\ ~in_body
              /\ IF LengthOk(length)
                 THEN /\ incoming' = <<>> /\ needed' = length
                      /\ in_body' = TRUE
                      /\ UNCHANGED <<got, status>>
                 ELSE Fail
           \/ Len(bytes) = needed /\ in_body /\ HandOver(bytes)
    /\ UNCHANGED <<reader, foreign, writeVars>>

\* Nothing of a frame has been read: the stream may end here.
BetweenFrames == incoming = <<>> /\ ~in_body

\* Only close_notify is an orderly end.  Any other end fails, and so does the
\* receive_message of a login when its socket times out.
ReadEnd ==
    /\ status = "reading" /\ taken = Len(stream)
    /\ ending # "open" \/ reader = "message"
    /\ status' = IF ending = "closed" /\ BetweenFrames THEN "eof" ELSE "broken"
    /\ UNCHANGED <<reader, foreign, taken, incoming, needed, in_body, got, writeVars>>

ReaderStep ==
    \/ \E count \in Counts : WorkerRead(count) \/ recv_all(count)
    \/ ReadEnd

WriterStep == BeginFrame \/ send_all \/ WriterCloses \/ Broken

FramingNext == ReaderStep \/ WriterStep

FramingSpec == FramingInit /\ [][FramingNext]_framingVars

-----------------------------------------------------------------------------
(***************************************************************************)
(* The reference: what a stream holds, read from its beginning at once.    *)
(* FrameEnd is where the frame that starts there ends; one that is cut     *)
(* short, has a bad length or a bad type ends nowhere.                     *)
(***************************************************************************)
LengthAt(bytes, start) == Read(SubSeq(bytes, start + 1, start + HEADER))

FrameEnd(bytes, start) ==
    LET body == start + HEADER
        length == LengthAt(bytes, start)
    IN  IF /\ body < Len(bytes) /\ LengthOk(length)
           /\ body + length <= Len(bytes)
           /\ reader # "message" => bytes[body + 1] \in FrameTypes
        THEN body + length
        ELSE -1

FramesFrom(bytes) ==
    LET frames[start \in 0 .. Len(bytes)] ==
            LET end == FrameEnd(bytes, start)
            IN  IF end = -1 THEN <<>>
                ELSE <<SubSeq(bytes, start + HEADER + 1, end)>> \o frames[end]
    IN  frames[0]

\* Bytes in whole frames at the beginning of the stream.
WholeFrames(bytes) ==
    FoldLeft(LAMBDA sum, frame : sum + HEADER + Len(frame), 0, FramesFrom(bytes))

\* The bytes show that what follows the whole frames is no frame, however the
\* stream goes on.
NoFrameFollows(bytes) ==
    LET start == WholeFrames(bytes)
        length == LengthAt(bytes, start)
    IN  /\ start + HEADER <= Len(bytes)
        /\ LengthOk(length) => start + HEADER + length <= Len(bytes)

\* "Read exactly one header/body at a time so fragmented and coalesced frames
\* both work": after any sequence of reads the frames handed over are exactly
\* those of the bytes read so far, for every byte stream and all three readers;
\* a frame is refused exactly when the bytes read show that it is malformed,
\* and an orderly end is reported exactly when the peer closed the connection
\* after a whole frame and everything before was read.
ReadsWhatIsThere ==
    LET read == SubSeq(stream, 1, taken)
    IN  /\ got = FramesFrom(read)
        /\ status = "refused" <=> NoFrameFollows(read)
        /\ status = "eof" => ending = "closed" /\ read = stream
        /\ foreign /\ status \in {"eof", "broken"} =>
              (status = "eof" <=> ending = "closed" /\ WholeFrames(read) = taken)

\* What one end of this program writes the other end reads: in order, whole
\* and unaltered, and nothing that the writer refused to send.  An orderly end
\* means that all of it was read; without one the connection broke or timed
\* out, or a message was longer than the buffer it was read into.
FramesArrive ==
    LET begun == SubSeq(posted, 1, Len(posted) - Len(outbox))
        sent == SelectSeq(begun, Sendable)
    IN  ~foreign =>
            /\ IsPrefix(got, sent)
            /\ status = "eof" => got = sent
            /\ status = "refused" => ~LengthOk(Len(sent[Len(got) + 1]))
            /\ status = "broken" /\ ending = "closed" => reader = "message"
=============================================================================
