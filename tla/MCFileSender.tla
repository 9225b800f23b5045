---------------------------- MODULE MCFileSender ----------------------------
(* One client sends two files while others come and go.                     *)
EXTENDS FileSender, TLC

CONSTANTS c1, c2, c3, ann, bob

MCUsernames == {ann, bob}
MCFrames == RelayFrames

\* A file of the largest size and one that is too large.
LargeDiskSizes == {2, 3}
MCFileSizes == {1, 3, 4}
MCChunkLengths == 1 .. 2

\* The counter wraps after every file, and zero is skipped.
MCTransferIds == 0 .. 1

\* One client sends two files; their recipient may be replaced.
ThreeConns == {c1, c2, c3}
ThreeIds == 1 .. 3
ThreeFiles == (c1 :> 2) @@ (c2 :> 0) @@ (c3 :> 0)
ThreeBudget == (c1 :> 8) @@ (c2 :> 0) @@ (c3 :> 0)

\* Names are interchangeable, and so are connections with the same part.
ThreeSymmetry == Permutations(MCUsernames) \union Permutations({c2, c3})
=============================================================================
