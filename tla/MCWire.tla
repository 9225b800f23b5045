------------------------------- MODULE MCWire -------------------------------
(* The conversions on the way of a line or a file through the programs, on  *)
(* all short inputs.  They have no state in common: a behaviour is one      *)
(* stream that is framed and read, one file frame that is encoded,          *)
(* forwarded and decoded, or one line that is parsed.                       *)
EXTENDS Framing, FileProtocol, CommandParser, TLC

\* Byte streams: every one of at most seven bytes 0 to 2, with two-byte
\* prefixes, and every pair of short frames to be sent.
MaxStream == 7
MCStreams == UNION {[1 .. n -> 0 .. 2] : n \in 0 .. MaxStream}
MCFrames == UNION {[1 .. n -> {0, 2}] : n \in 1 .. FRAME_MAX_SIZE + 1}
MCPosts == UNION {[1 .. n -> MCFrames] : n \in 0 .. 2}

\* File frames.  Characters: NUL, a control, a space, a separator, a dot and
\* a letter.  Strings are without NUL; some are longer than any limit.
MCControls == {1}
MCSpaces == {2}
MCSeparators == {3}
Letter == 5
Strings(n) == UNION {[1 .. k -> Bytes \ {0}] : k \in 0 .. n}
Ids == {0, 7, 35}
Sizes == {1, 50, 1295}

MCSent ==
    {[Message("BEGIN", 7) EXCEPT !.file_size = size, !.peer = peer,
                                 !.filename = filename] :
        size \in Sizes, peer \in Strings(3), filename \in Strings(3)}
    \union {[Message("CHUNK", id) EXCEPT !.data = data] :
        id \in Ids, data \in UNION {[1 .. k -> {0, 5}] : k \in 0 .. 3}}
    \union {Message(type, id) : type \in {"END", "ERROR"}, id \in Ids}

\* Headers with all length fields before all short tails, and short frames.
Tails(n) == UNION {[1 .. k -> Bytes] : k \in 0 .. n}
MCForeign ==
    {[type |-> "BEGIN", payload |-> <<0, 5, 1, 0, 0, 2, p, f>> \o tail] :
        p \in 0 .. 3, f \in 0 .. 3, tail \in Tails(4)}
    \union {[type |-> type, payload |-> payload] :
        type \in {"BEGIN", "CHUNK", "END", "ERROR"},
        payload \in UNION {[1 .. k -> {0, 5}] : k \in 0 .. 5}}

MCRenamings == {<<8, <<Letter>>>>, <<0, <<Letter, Dot>>>>}

\* Lines over the characters that matter for a command.
Texts(characters, n) == UNION {[1 .. k -> characters] : k \in 0 .. n}
MCLines ==
    Texts({" ", "nl", "x", "/msg"}, 7)
        \union Texts({" ", "nl", "x", "/file"}, 7)
        \union Texts({" ", "nl", "x", "/quit", "/broadcast", "/list"}, 4)

NoStream ==
    /\ reader = "frame" /\ foreign = TRUE
    /\ stream = <<>> /\ ending = "closed"
    /\ posted = <<>> /\ outbox = <<>> /\ outgoing = <<>>
    /\ taken = 0 /\ incoming = <<>> /\ needed = HEADER /\ in_body = FALSE
    /\ got = <<>> /\ status = "eof"
NoFileFrame ==
    /\ hop = "none" /\ origin = Malformed
    /\ frame = [type |-> "END", payload |-> <<>>]
    /\ seen = Malformed /\ shown = Malformed /\ renamed = <<0, <<>>>>
NoLine == line = <<>> /\ stage = "none" /\ parsed = Unknown /\ quits = FALSE

WireInit ==
    \/ FramingInit /\ NoFileFrame /\ NoLine
    \/ NoStream /\ CodecInit /\ NoLine
    \/ NoStream /\ NoFileFrame /\ LineInit

WireNext ==
    \/ FramingNext /\ UNCHANGED <<codecVars, lineVars>>
    \/ CodecNext /\ UNCHANGED <<framingVars, lineVars>>
    \/ LineNext /\ UNCHANGED <<framingVars, codecVars>>

WireSpec == WireInit /\ [][WireNext]_<<framingVars, codecVars, lineVars>>
=============================================================================
