--------------------------- MODULE CommandParser ---------------------------
(***************************************************************************)
(* A line that a user types: how the client decides what to do with it     *)
(* (handle_input of client.c), how it is parsed there or, if it is sent as *)
(* text, at the server (command_parser.c, handle_command of server.c).     *)
(*                                                                         *)
(* A line is a sequence of characters in which each command name is one    *)
(* character, so that a word is a command only if it is nothing else.      *)
(***************************************************************************)
EXTENDS WireBytes

CONSTANTS
    Lines,             \* lines that are typed
    MAX_TEXT,          \* FRAME_MAX_SIZE - 1
    Blank, Newline     \* a space or tab; a line feed or carriage return

IsSpace(character) == character \in {Blank, Newline}
AllSpace(text) == \A k \in DOMAIN text : IsSpace(text[k])

\* Where the first space is, or the end; and where the first non-space is.
WordEnd(text) ==
    LET k == SelectInSeq(text, IsSpace)
    IN  IF k = 0 THEN Len(text) ELSE k - 1
Word(text) == SubSeq(text, 1, WordEnd(text))

skip_whitespace(text) ==
    LET k == SelectInSeq(text, LAMBDA c : ~IsSpace(c))
    IN  IF k = 0 THEN <<>> ELSE SubSeq(text, k, Len(text))

\* Mutant: only a single line ending is removed.
RemoveOneEnding(text) ==
    IF text # <<>> /\ Last(text) = Newline THEN Front(text) ELSE text

remove_line_ending(text) ==
    LET k == SelectLastInSeq(text, LAMBDA c : c # Newline)
    IN  SubSeq(text, 1, k)

TrimEnd(text) ==
    LET k == SelectLastInSeq(text, LAMBDA c : ~IsSpace(c))
    IN  SubSeq(text, 1, k)

Command(type, username, rest) ==
    [type |-> type, username |-> username, rest |-> rest]
Invalid == Command("INVALID", <<>>, <<>>)
Unknown == Command("UNKNOWN", <<>>, <<>>)

\* What follows a word and the spaces behind it.
AfterWord(text) == skip_whitespace(SubSeq(text, WordEnd(text) + 1, Len(text)))

\* A command with a username and something more.
Addressed(type, username, rest) ==
    IF rest = <<>> \/ Len(username) >= USERNAME_SIZE THEN Invalid
    ELSE Command(type, username, rest)

parse_command(line) ==
    LET text == skip_whitespace(remove_line_ending(line))
        verb == Word(text)
        arguments == AfterWord(text)
    IN  CASE verb \in {<<"/list">>, <<"/help">>, <<"/quit">>} ->
                IF arguments = <<>> THEN Command(verb[1], <<>>, <<>>) ELSE Invalid
          [] verb = <<"/broadcast">> ->
                IF arguments = <<>> THEN Invalid
                ELSE Command("/broadcast", <<>>, arguments)
          [] verb = <<"/msg">> ->
                Addressed("/msg", Word(arguments), AfterWord(arguments))
          [] verb = <<"/file">> ->
                Addressed("/file", Word(arguments), TrimEnd(AfterWord(arguments)))
          [] OTHER -> Unknown

-----------------------------------------------------------------------------
VARIABLES
    line,
    stage,      \* what has become of the line
    parsed,     \* what the last parser made of it
    quits       \* has the client left its loop?

lineVars == <<line, stage, parsed, quits>>

LineInit ==
    /\ line \in Lines
    /\ stage = "typed" /\ parsed = Unknown /\ quits = FALSE

StartsWith(text, verb) ==
    /\ text # <<>> /\ Head(text) = verb
    /\ \A k \in DOMAIN text \intersect {2} : IsSpace(text[k])

IsFileCommand == StartsWith(line, "/file")

\* Mutant: leading spaces hide a private message from the client.
IsPrivateAtStart == StartsWith(line, "/msg")

IsPrivateMessage == StartsWith(skip_whitespace(line), "/msg")

\* handle_private_message and handle_file_command: a request is made for what
\* parses, anything else is answered with the usage.
ParseHere(type) ==
    /\ parsed' = parse_command(line)
    /\ stage' = IF parsed'.type = type THEN type ELSE "usage"
    /\ UNCHANGED <<line, quits>>

QuitsAfterSending == line = <<"/quit">>

\* The line goes to the server as it is.
SendText ==
    /\ stage' = "text"
    /\ quits' = QuitsAfterSending
    /\ UNCHANGED <<line, parsed>>

handle_input ==
    /\ stage = "typed"
    /\ \/ /\ line = <<>> \/ (~IsFileCommand /\ ~IsPrivateMessage
                             /\ Len(line) > MAX_TEXT)
          /\ stage' = "dropped"
          /\ UNCHANGED <<line, parsed, quits>>
       \/ IsFileCommand /\ ParseHere("/file")
       \/ ~IsFileCommand /\ IsPrivateMessage /\ ParseHere("/msg")
       \/ /\ line # <<>> /\ ~IsFileCommand /\ ~IsPrivateMessage
          /\ Len(line) <= MAX_TEXT
          /\ SendText

\* The server parses the text again, in a copy of its own.
handle_command ==
    /\ stage = "text"
    /\ parsed' = parse_command(line)
    /\ stage' = "served"
    /\ UNCHANGED <<line, quits>>

LineNext == handle_input \/ handle_command

LineSpec == LineInit /\ [][LineNext]_lineVars

-----------------------------------------------------------------------------
(***************************************************************************)
(* A grammar: optional spaces, the command, spaces, a username, spaces,    *)
(* the rest, which starts with no space, and what is cut off behind it.    *)
(***************************************************************************)
Part(first, last) == SubSeq(line, first, last)
Readings(verb, Cut(_), Kept(_)) ==
    LET Positions == DOMAIN line
        Verbs == {i \in Positions : line[i] = verb /\ AllSpace(Part(1, i - 1))}
        Names(i) == {<<j, k>> \in Positions \X Positions :
                        /\ i + 1 < j /\ AllSpace(Part(i + 1, j - 1))
                        /\ k - j \in 1 .. USERNAME_SIZE - 1
                        /\ \A c \in j .. k - 1 : ~IsSpace(line[c])}
        Rests(k) == {<<l, m>> \in Positions \X Positions :
                        /\ k < l /\ AllSpace(Part(k, l - 1)) /\ ~IsSpace(line[l])
                        /\ l <= m /\ Kept(line[m])
                        /\ \A c \in m + 1 .. Len(line) : Cut(line[c])}
    IN  UNION {UNION {{<<Part(u[1], u[2] - 1), Part(r[1], r[2])>> :
                          r \in Rests(u[2])} : u \in Names(i)} : i \in Verbs}

\* Wherever a line is parsed, /msg and /file are found exactly in the lines of
\* the grammar, with the username and the text or path that it says; only line
\* endings are cut off a message, all trailing spaces off a path.
ParsedByGrammar ==
    stage \in {"/msg", "/file", "usage", "served"} =>
        /\ Readings("/msg", LAMBDA c : c = Newline, LAMBDA c : c # Newline) =
              IF parsed.type = "/msg" THEN {<<parsed.username, parsed.rest>>} ELSE {}
        /\ Readings("/file", IsSpace, LAMBDA c : ~IsSpace(c)) =
              IF parsed.type = "/file" THEN {<<parsed.username, parsed.rest>>} ELSE {}

\* "/msg and /file request the recipient's key, then encrypt": no line that
\* the server would take for a private message leaves the client as text,
\* although the two look for the command in different ways.
PrivateStaysPrivate ==
    stage = "served" => parsed.type # "/msg"
=============================================================================
