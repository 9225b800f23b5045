---------------------------- MODULE MCFileRelay ----------------------------
(* Small instances of the relay.                                            *)
EXTENDS FileRelay, TLC

CONSTANTS c1, c2, c3, ann, bob

MCFileSizes == {2}
MCChunkLengths == {1, 2}
MCUsernames == {ann, bob}
MCFrames == RelayFrames

OneTransfer == {7}

\* Two clients that send to each other; the recipient of a file may be
\* replaced by another login under the same name and in the same slot.
ThreeConns == {c1, c2, c3}
ThreeIds == 1 .. 3
ThreeBudget == (c1 :> 3) @@ (c2 :> 1) @@ (c3 :> 0)

\* One sender and its recipient, as far as liveness can be checked.
TwoConns == {c1, c2}
TwoIds == 1 .. 2
LiveBudget == (c1 :> 3) @@ (c2 :> 0)

\* Login names are interchangeable.
MCSymmetry == Permutations(MCUsernames)
=============================================================================
