--------------------------- MODULE MCChatClients ---------------------------
(* Ann writes to Bob, to Ann and to Bob again, with two packages pending at *)
(* most; Bob may leave and log in again, with another key and in the same   *)
(* slot.                                                                    *)
EXTENDS ChatClients, TLC

CONSTANTS c1, c2, c3, ann, bob, k1, k2, k3

MCFrames == ChatFrames
MCConns == {c1, c2, c3}
MCNames == {ann, bob}
MCLengths == [name \in MCNames |-> 2]
MCLogin == (c1 :> ann) @@ (c2 :> bob) @@ (c3 :> bob)
MCKeys == (c1 :> k1) @@ (c2 :> k2) @@ (c3 :> k3)
Typed(kind, name) == [kind |-> kind, recipient |-> name]
MCTyping ==
    (c1 :> <<Typed("message", bob), Typed("file", ann), Typed("message", bob)>>)
    @@ (c2 :> <<>>) @@ (c3 :> <<>>)

\* A key, and a key request and a ciphertext for each package.
MCRequests == [c \in MCConns |-> 1 + 2 * Len(MCTyping[c])]
MCTypes == [c \in MCConns |-> {}]
=============================================================================
