------------------------------ MODULE MCDuplex ------------------------------
(* Two clients send to a third, which may not read at all and sends to one  *)
(* of them.                                                                 *)
EXTENDS Duplex, TLC

CONSTANTS ann, bob, cat

MCUsers == {ann, bob, cat}
MCCorrespondent == (ann :> cat) @@ (bob :> cat) @@ (cat :> ann)
MCFramesToSend == (ann :> 4) @@ (bob :> 3) @@ (cat :> 3)
=============================================================================
