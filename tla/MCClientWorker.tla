--------------------------- MODULE MCClientWorker ---------------------------
(* One client; up to four frames queued against a limit of two.             *)
EXTENDS ClientWorker

CONSTANT ann

MCClientIds == {1}
MCUsernames == {ann}
MCFrames == 1 .. MaxSends
=============================================================================
