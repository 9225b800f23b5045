---------------------------- MODULE MCServerChat ----------------------------
(* Two clients that send requests and one that comes and goes.              *)
EXTENDS ServerChat, TLC

CONSTANTS c1, c2, c3, ann, bob, cat, k1, k2

MCFrames == ChatFrames
MCConns == {c1, c2, c3}
MCNames == {ann, bob, cat}
MCLengths == [name \in MCNames |-> 2]

\* One client writes, asks or quits, another registers a key and writes.
MCCounts == (c1 :> 1) @@ (c2 :> 2) @@ (c3 :> 0)
MCTypes == (c1 :> {"msg", "broadcast", "REQUEST_PK", "list", "help", "bad",
                   "quit"})
           @@ (c2 :> {"REGISTER_PK", "CIPHERTEXT"})
           @@ (c3 :> {})

\* Names are interchangeable, and so are keys.
MCSymmetry == Permutations(MCNames) \union Permutations({k1, k2})
=============================================================================
