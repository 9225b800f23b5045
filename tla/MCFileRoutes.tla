---------------------------- MODULE MCFileRoutes ----------------------------
(* Instances of FileRoutes: two clients (plus the invalid id) with two      *)
(* transfer ids each, and a table too small for all of their transfers.     *)
EXTENDS FileRoutes

MCClientIds == {1, 2}
MCTransferIds == {0, 7}
MCFileSizes == {2}
MCChunkLengths == {1, 2}
=============================================================================
