--------------------------- MODULE MCFileReceiver ---------------------------
(* Three transfers under two names compete for a table of two entries.      *)
EXTENDS FileReceiver, TLC

CONSTANTS photo, notes, t1, t2

MCIds == 1 .. 3
MCFilenames == {photo, notes}
MCTempNames == {t1, t2}

\* Too small, accepted but wrong, right, too large.
MCDeclaredSizes == {0, 1, 2, 3}

\* Names are interchangeable; ids and slots are not (slots are ordered).
MCSymmetry == Permutations(MCFilenames) \union Permutations(MCTempNames)
=============================================================================
