---------------------------- MODULE ServerTypes ----------------------------
(* What every server component shares: the ids of logged-in clients.        *)
EXTENDS Integers, FiniteSets, FiniteSetsExt

CONSTANT ClientIds   \* the ids a run may hand out, a bound on logins

\* client_manager.h: the id of no client.
INVALID_CLIENT_ID == 0

ASSUME ClientIdsAssumption == ClientIds \subseteq Nat \ {INVALID_CLIENT_ID}
=============================================================================
