---------------------------- MODULE TlsLifecycle ----------------------------
(***************************************************************************)
(* A server connection as handle_client takes it from accept to close:     *)
(* the TLS handshake, the login, the client loop and the TLS shutdown      *)
(* (network.c, the login part of server.c, receive_message of common.c).   *)
(*                                                                         *)
(* Time passes inside library calls.  A call takes at most MaxCallTime,    *)
(* except poll and a blocking read, which end with their timeout; at most  *)
(* MaxCallsPerTick calls fit between two ticks of the millisecond clock.   *)
(* The peer is free to be silent, to trickle, to flood and to disappear.   *)
(***************************************************************************)
EXTENDS Integers

CONSTANTS
    HANDSHAKE_TIMEOUT,   \* TLS_HANDSHAKE_TIMEOUT_SEC
    SHUTDOWN_TIMEOUT,    \* TLS_SHUTDOWN_TIMEOUT_SEC
    LOGIN_TIMEOUT,       \* LOGIN_TIMEOUT_SEC
    LoginReads,          \* reads after which a username is complete at last
    MaxSignals,          \* bound: signals that interrupt a read
    MaxCallTime,
    MaxCallsPerTick

ASSUME LifecycleAssumption ==
    /\ {HANDSHAKE_TIMEOUT, SHUTDOWN_TIMEOUT, LOGIN_TIMEOUT, LoginReads}
          \subseteq Nat \ {0}
    /\ {MaxSignals, MaxCallTime, MaxCallsPerTick} \subseteq Nat

VARIABLES
    pc,
    clock,           \* CLOCK_MONOTONIC
    calls,           \* calls since the clock last moved
    started,         \* when the current phase began
    deadline,        \* of the handshake or of the shutdown
    reads,           \* reads of the username so far
    signals,         \* signals so far
    tls_io_failed,
    sent_notify,     \* close_notify is sent
    ssl,             \* "none", "new" (not yet in the connection), "set"
    handles,         \* SSL_new calls less SSL_free calls
    closed           \* close calls

phaseVars == <<started, deadline, reads, signals>>
resources == <<ssl, handles, closed>>
tlsVars == <<pc, clock, calls, phaseVars, tls_io_failed, sent_notify,
             resources>>

LifecycleInit ==
    /\ pc = "accepted" /\ clock = 0 /\ calls = 0
    /\ started = 0 /\ deadline = HANDSHAKE_TIMEOUT
    /\ reads = 0 /\ signals = 0
    /\ tls_io_failed = FALSE /\ sent_notify = FALSE
    /\ ssl = "none" /\ handles = 0 /\ closed = 0

Elapse(time) ==
    /\ time > 0 \/ calls < MaxCallsPerTick
    /\ clock' = clock + time
    /\ calls' = IF time > 0 THEN 0 ELSE calls + 1

\* A call that does not wait for the peer.
Call == \E time \in 0 .. MaxCallTime : Elapse(time)

(***************************************************************************)
(* remaining_milliseconds fails once the deadline is reached.              *)
(***************************************************************************)
Expired == clock >= deadline

\* Mutant: poll is given the whole timeout again after a signal.
PollTimeoutRestarts == deadline - started

PollTimeout == deadline - clock

\* wait_for_tls: poll returns ready (or with an error TLS will resolve), is
\* interrupted and polls again for the time that is left, fails, or times out.
wait_for_tls(waiting, ready, failed) ==
    /\ pc = waiting
    /\ \/ /\ Expired
          /\ pc' = failed
          /\ UNCHANGED <<clock, calls>>
       \/ /\ ~Expired
          /\ \/ /\ \E time \in 0 .. PollTimeout - 1 : Elapse(time)
                /\ pc' \in {ready, waiting, failed}
             \/ Elapse(PollTimeout) /\ pc' = failed
    /\ UNCHANGED <<phaseVars, tls_io_failed, sent_notify, resources>>

(***************************************************************************)
(* close_connection: a shutdown is attempted on a graceful close of an     *)
(* established connection without fatal TLS error, then all is released.   *)
(***************************************************************************)
ShutsDown(graceful, failed) == ssl = "set" /\ graceful /\ ~failed

close_connection(graceful, failed, now) ==
    IF ShutsDown(graceful, failed)
    THEN pc' = "shutdown" /\ started' = now
         /\ deadline' = now + SHUTDOWN_TIMEOUT
    ELSE pc' = "release" /\ UNCHANGED <<started, deadline>>

\* SSL_free of a handle, or of NULL.
FreeHandle == IF ssl = "none" THEN handles ELSE handles - 1

\* Mutant: the handle of a connection that was set up is not freed.
ReleaseSocketOnly ==
    /\ pc = "release"
    /\ pc' = "closed"
    /\ closed' = closed + 1
    /\ ssl' = "none"
    /\ UNCHANGED <<clock, calls, phaseVars, tls_io_failed, sent_notify,
                   handles>>

Release ==
    /\ pc = "release"
    /\ pc' = "closed"
    /\ handles' = FreeHandle
    /\ closed' = closed + 1
    /\ ssl' = "none"
    /\ UNCHANGED <<clock, calls, phaseVars, tls_io_failed, sent_notify>>

-----------------------------------------------------------------------------
(***************************************************************************)
(* perform_tls_handshake                                                   *)
(***************************************************************************)
\* The handle is made, or is not.  (Without a context the process exits.)
StartHandshake ==
    /\ pc = "accepted"
    /\ \/ pc' = "handshake" /\ ssl' = "new" /\ handles' = handles + 1
       \/ pc' = "hs_fail" /\ UNCHANGED <<ssl, handles>>
    /\ UNCHANGED <<clock, calls, phaseVars, tls_io_failed, sent_notify, closed>>

\* SSL_accept is called before the deadline only, and success counts only if
\* the deadline has not passed meanwhile.
TryHandshake ==
    /\ pc = "handshake"
    /\ \/ /\ Expired
          /\ pc' = "hs_fail"
          /\ UNCHANGED <<clock, calls, ssl, started>>
       \/ /\ ~Expired
          /\ Call
          /\ \/ /\ clock' < deadline
                /\ pc' = "login" /\ ssl' = "set" /\ started' = clock'
             \/ /\ pc' \in {"hs_wait", "hs_fail"}
                /\ UNCHANGED <<ssl, started>>
    /\ UNCHANGED <<deadline, reads, signals, tls_io_failed, sent_notify,
                   handles, closed>>

WaitHandshake == wait_for_tls("hs_wait", "handshake", "hs_fail")

\* The failure path frees the handle it has not stored, then closes.
FailHandshake ==
    /\ pc = "hs_fail"
    /\ handles' = FreeHandle /\ ssl' = "none"
    /\ close_connection(FALSE, FALSE, clock)
    /\ UNCHANGED <<clock, calls, reads, signals, tls_io_failed, sent_notify,
                   closed>>

(***************************************************************************)
(* The login: receive_message with SO_RCVTIMEO set.                        *)
(***************************************************************************)
\* Leaving the login by a close, with or without a fatal TLS error.
CloseLogin(failed) ==
    /\ tls_io_failed' = failed
    /\ close_connection(TRUE, failed, clock')
    /\ UNCHANGED <<reads, signals, sent_notify, resources>>

\* Nothing arrives for LOGIN_TIMEOUT; the client is told and closed.  If the
\* read was about to write, or the reply fails, TLS cannot be used any more.
LoginTimesOut ==
    /\ pc = "login"
    /\ Elapse(LOGIN_TIMEOUT)
    /\ \E failed \in BOOLEAN : CloseLogin(failed)

\* A part of the username arrives: the timeout starts anew.
LoginRead ==
    /\ pc = "login"
    /\ reads < LoginReads - 1
    /\ \E time \in 0 .. LOGIN_TIMEOUT : Elapse(time)
    /\ reads' = reads + 1
    /\ UNCHANGED <<pc, started, deadline, signals, tls_io_failed, sent_notify,
                   resources>>

\* A signal interrupts the read, which is called again.
LoginInterrupted ==
    /\ pc = "login"
    /\ signals < MaxSignals
    /\ \E time \in 0 .. LOGIN_TIMEOUT : Elapse(time)
    /\ signals' = signals + 1
    /\ UNCHANGED <<pc, started, deadline, reads, tls_io_failed, sent_notify,
                   resources>>

\* EOF, a bad length, an unacceptable name or a TLS error.
LoginFails ==
    /\ pc = "login"
    /\ \E time \in 0 .. LOGIN_TIMEOUT : Elapse(time)
    /\ \E failed \in BOOLEAN : CloseLogin(failed)

\* The username is complete and accepted; the welcome reply is sent and the
\* client loop runs, or the reply fails and the client is removed.
LoginSucceeds ==
    /\ pc = "login"
    /\ \E time \in 0 .. LOGIN_TIMEOUT : Elapse(time)
    /\ \/ /\ pc' = "serving"
          /\ UNCHANGED <<started, deadline, tls_io_failed>>
       \/ /\ tls_io_failed' \in BOOLEAN
          /\ close_connection(FALSE, FALSE, clock')
    /\ UNCHANGED <<reads, signals, sent_notify, resources>>

\* run_client_worker returns 0 or -1, the latter after every TLS error: the
\* copy of the connection that remove_client closes does not know of it.
ServingEnds ==
    /\ pc = "serving"
    /\ \/ UNCHANGED tls_io_failed /\ close_connection(TRUE, FALSE, clock)
       \/ /\ tls_io_failed' \in BOOLEAN
          /\ close_connection(FALSE, FALSE, clock)
    /\ UNCHANGED <<clock, calls, reads, signals, sent_notify, resources>>

(***************************************************************************)
(* shutdown_tls: send close_notify, then drain what the peer still sends   *)
(* until its close_notify.                                                 *)
(***************************************************************************)
TryShutdown ==
    /\ pc = "shutdown"
    /\ \/ /\ Expired
          /\ pc' = "release"
          /\ UNCHANGED <<clock, calls, sent_notify>>
       \/ /\ ~Expired
          /\ Call
          /\ \/ sent_notify' = TRUE /\ pc' \in {"shutdown", "release"}
             \/ UNCHANGED sent_notify /\ pc' \in {"sd_wait", "release"}
    /\ UNCHANGED <<phaseVars, tls_io_failed, resources>>

WaitShutdown == wait_for_tls("sd_wait", "shutdown", "release")

-----------------------------------------------------------------------------
ThreadStep ==
    \/ StartHandshake \/ TryHandshake \/ WaitHandshake \/ FailHandshake
    \/ LoginRead \/ LoginInterrupted \/ LoginTimesOut
    \/ LoginFails \/ LoginSucceeds
    \/ TryShutdown \/ WaitShutdown \/ Release

LifecycleNext == ThreadStep \/ ServingEnds

-----------------------------------------------------------------------------
\* "TLS handshakes have a 10-second total deadline" and the shutdown is
\* allowed "up to 2 seconds": however the peer trickles or floods and however
\* often signals interrupt poll, neither phase outlasts its timeout by more
\* than the one library call that was under way when it expired.
DeadlinesHold ==
    /\ pc \in {"handshake", "hs_wait", "hs_fail"} =>
          clock <= HANDSHAKE_TIMEOUT + MaxCallTime
    /\ pc \in {"shutdown", "sd_wait"} =>
          clock <= started + SHUTDOWN_TIMEOUT + MaxCallTime

\* On every path through handle_client a TLS handle that was made is freed and
\* the socket closed exactly once, and not while the connection uses them; and
\* OpenSSL allows SSL_shutdown neither before the handshake is done nor after a
\* fatal error: the shutdown runs only on a connection that has neither.
ReleasedOnce ==
    /\ pc = "closed" => handles = 0 /\ closed = 1
    /\ ssl # "none" => handles = 1 /\ closed = 0
    /\ pc \in {"shutdown", "sd_wait"} => ssl = "set" /\ ~tls_io_failed
=============================================================================
