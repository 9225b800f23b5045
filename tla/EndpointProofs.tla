--------------------------- MODULE EndpointProofs ---------------------------
(* Proofs about the two ends of a connection that keep no registry: the     *)
(* server process, for every choice of signals, connections, timeouts and   *)
(* durations of library calls, and the receiving half of a client, for      *)
(* every table size, every set of names and ids and every size of packages. *)
EXTENDS ServerProcess, FileReceiver, SequenceTheorems, TLAPS

\* Time limits of the provers for a step.
USE SMTT(6), ZenonT(20), SMTT(40)

(***************************************************************************)
(* main and its signal handlers.  server_fd is cleared only after the      *)
(* socket is closed, so an open socket is known to main by its variable,   *)
(* except before the assignment.                                           *)
(***************************************************************************)
HandlerSteps == {"test", "close", "clear"}

MainInv ==
    /\ handlers \in Seq(HandlerSteps)
    /\ server_fd \in BOOLEAN /\ running \in BOOLEAN
    /\ handlers # <<>> => ~running /\ at # "returned"
    /\ at \in {"end", "closing"} => ~running
    /\ at = "start" => listener = "none"
    /\ at \in {"start", "assign"} => ~server_fd
    /\ listener = "open" => at = "assign" \/ server_fd
    /\ listener = "closed" => ~running
    /\ \A k \in 1 .. Len(handlers) :
          /\ handlers[k] = "clear" => listener = "closed"
          /\ handlers[k] = "close" => at \notin {"start", "assign"}
    /\ at = "returned" => listener # "open"

(***************************************************************************)
(* The thread of a connection: where it is determines whether a handle     *)
(* exists and which deadline is in force.                                  *)
(***************************************************************************)
Handshaking == {"handshake", "hs_wait", "hs_fail"}
ShuttingDown == {"shutdown", "sd_wait"}

ThreadInv ==
    /\ pc \in Handshaking \union ShuttingDown
          \union {"accepted", "login", "serving", "release", "closed"}
    /\ clock \in Nat /\ started \in Nat /\ deadline \in Nat
    /\ pc = "accepted" => clock = 0
    /\ pc \in Handshaking \union {"accepted"} =>
          deadline = HANDSHAKE_TIMEOUT
    /\ pc \in Handshaking => clock <= HANDSHAKE_TIMEOUT + MaxCallTime
    /\ pc \in ShuttingDown =>
          /\ deadline = started + SHUTDOWN_TIMEOUT
          /\ clock <= deadline + MaxCallTime
    /\ ssl \in {"none", "new", "set"}
    /\ handles = IF ssl = "none" THEN 0 ELSE 1
    /\ closed = IF pc = "closed" THEN 1 ELSE 0
    /\ pc \in Handshaking \union {"accepted"} => ~tls_io_failed
    /\ pc \in {"accepted", "closed"} => ssl = "none"
    /\ pc \in {"handshake", "hs_wait"} => ssl = "new"
    /\ pc \in {"login", "serving"} \union ShuttingDown =>
          ssl = "set" /\ ~tls_io_failed

ProcessInv == MainInv /\ ThreadInv

-----------------------------------------------------------------------------
LEMMA MainInitHasInv == MainInit => MainInv
<1> SUFFICES ASSUME MainInit PROVE MainInv
  OBVIOUS
<1>1. handlers \in Seq(HandlerSteps) /\ Len(handlers) = 0
  BY EmptySeq DEF MainInit
<1>2. \A k \in 1 .. Len(handlers) : FALSE
  BY <1>1
<1>3. QED
  BY Zenon, <1>1, <1>2 DEF MainInit, MainInv

\* What the handlers' steps promise holds for a stack of one more step.
LEMMA Pushed ==
    ASSUME NEW step \in HandlerSteps, NEW rest \in Seq(HandlerSteps)
    PROVE  /\ <<step>> \o rest \in Seq(HandlerSteps)
           /\ \A k \in 1 .. Len(<<step>> \o rest) :
                 \/ (<<step>> \o rest)[k] = step
                 \/ \E j \in 1 .. Len(rest) :
                       (<<step>> \o rest)[k] = rest[j]
<1> DEFINE stack == <<step>> \o rest
<1>1. /\ <<step>> \in Seq(HandlerSteps) /\ Len(<<step>>) = 1
      /\ <<step>>[1] = step
  OBVIOUS
<1>2. PICK n \in Nat : n = Len(rest)
  BY LenProperties
<1>3. /\ stack \in Seq(HandlerSteps)
      /\ Len(stack) = 1 + n
      /\ \A k \in 1 .. 1 + n :
            stack[k] = IF k <= 1 THEN <<step>>[k] ELSE rest[k - 1]
  BY <1>1, <1>2, ConcatProperties
<1> HIDE DEF stack
<1>4. ASSUME NEW k \in 1 .. 1 + n
      PROVE  stack[k] = step \/ \E j \in 1 .. n : stack[k] = rest[j]
  <2>1. CASE k = 1
    BY <1>1, <1>3, <2>1
  <2>2. CASE k # 1
    <3>1. k - 1 \in 1 .. n /\ stack[k] = rest[k - 1]
      BY <1>3, <2>2
    <3>2. QED
      BY <3>1
  <2>3. QED
    BY <2>1, <2>2
<1>5. QED
  BY <1>2, <1>3, <1>4 DEF stack

\* The innermost handler returns.
LEMMA Popped ==
    ASSUME NEW stack \in Seq(HandlerSteps), stack # <<>>
    PROVE  /\ Tail(stack) \in Seq(HandlerSteps)
           /\ 1 \in 1 .. Len(stack) /\ Head(stack) = stack[1]
           /\ \A k \in 1 .. Len(Tail(stack)) :
                 \E j \in 1 .. Len(stack) : Tail(stack)[k] = stack[j]
<1>1. PICK n \in Nat : n = Len(stack)
  BY LenProperties
<1>2. /\ Tail(stack) \in Seq(HandlerSteps) /\ Len(Tail(stack)) = n - 1
      /\ \A k \in 1 .. n - 1 : Tail(stack)[k] = stack[k + 1]
      /\ n >= 1 /\ Head(stack) = stack[1]
  BY <1>1, HeadTailProperties, EmptySeq
<1>3. ASSUME NEW k \in 1 .. n - 1
      PROVE  \E j \in 1 .. n : Tail(stack)[k] = stack[j]
  <2>1. k + 1 \in 1 .. n
    BY <1>1
  <2>2. QED
    BY <1>2, <2>1
<1>4. QED
  BY <1>1, <1>2, <1>3

LEMMA StopKeepsInv ==
    ASSUME MainInv, NEW s, Stop(s)
    PROVE  MainInv'
<1>1. "test" \in HandlerSteps /\ handlers \in Seq(HandlerSteps)
  BY DEF MainInv, HandlerSteps
<1>2. /\ handlers' \in Seq(HandlerSteps)
      /\ \A k \in 1 .. Len(handlers') :
            \/ handlers'[k] = "test"
            \/ \E j \in 1 .. Len(handlers) : handlers'[k] = handlers[j]
  BY <1>1, Pushed DEF Stop
<1>3. \A k \in 1 .. Len(handlers') :
         /\ handlers'[k] = "clear" => listener = "closed"
         /\ handlers'[k] = "close" => at \notin {"start", "assign"}
  BY <1>2 DEF MainInv
<1>4. QED
  BY Zenon, <1>2, <1>3 DEF Stop, MainInv

LEMMA HandlerKeepsInv ==
    ASSUME MainInv, HandlerStep
    PROVE  MainInv'
<1> DEFINE rest == Tail(handlers)
<1>1. /\ handlers \in Seq(HandlerSteps) /\ handlers # <<>>
      /\ UNCHANGED <<at, running>>
  BY DEF MainInv, HandlerStep, HandlerAt
<1>2. /\ rest \in Seq(HandlerSteps)
      /\ 1 \in 1 .. Len(handlers) /\ Head(handlers) = handlers[1]
      /\ \A k \in 1 .. Len(rest) :
            \E j \in 1 .. Len(handlers) : rest[k] = handlers[j]
  BY <1>1, Popped
<1>3. \A k \in 1 .. Len(rest) :
         /\ rest[k] = "clear" => listener = "closed"
         /\ rest[k] = "close" => at \notin {"start", "assign"}
  BY <1>2 DEF MainInv
<1>4. CASE HandlerAt("test") /\ ~server_fd
  <2>1. handlers' = rest /\ UNCHANGED <<server_fd, listener>>
    BY <1>4 DEF HandlerStep, HandlerAt
  <2> HIDE DEF rest
  <2>2. QED
    BY <1>1, <1>2, <1>3, <2>1 DEF MainInv
<1>5. CASE HandlerAt("test") /\ server_fd
  <2>1. handlers' = <<"close">> \o rest /\ UNCHANGED <<server_fd, listener>>
    BY Zenon, <1>5 DEF HandlerStep, HandlerAt, HandlerGoto
  <2> HIDE DEF rest
  <2>2. "close" \in HandlerSteps
    BY DEF HandlerSteps
  <2>3. /\ handlers' \in Seq(HandlerSteps)
        /\ \A k \in 1 .. Len(handlers') :
              \/ handlers'[k] = "close"
              \/ \E j \in 1 .. Len(rest) : handlers'[k] = rest[j]
    BY <1>2, <2>1, <2>2, Pushed
  <2>4. at \notin {"start", "assign"}
    BY <1>5 DEF MainInv
  <2>5. \A k \in 1 .. Len(handlers') :
           /\ handlers'[k] = "clear" => listener = "closed"
           /\ handlers'[k] = "close" => at \notin {"start", "assign"}
    BY <1>3, <2>3, <2>4
  <2>6. QED
    BY <1>1, <2>1, <2>3, <2>5 DEF MainInv
<1>6. CASE HandlerAt("close")
  <2>1. /\ handlers' = <<"clear">> \o rest
        /\ listener' = "closed" /\ UNCHANGED server_fd
    BY <1>6 DEF HandlerStep, HandlerAt, HandlerGoto
  <2> HIDE DEF rest
  <2>2. "clear" \in HandlerSteps
    BY DEF HandlerSteps
  <2>3. /\ handlers' \in Seq(HandlerSteps)
        /\ \A k \in 1 .. Len(handlers') :
              \/ handlers'[k] = "clear"
              \/ \E j \in 1 .. Len(rest) : handlers'[k] = rest[j]
    BY <1>2, <2>1, <2>2, Pushed
  <2>4. at \notin {"start", "assign"}
    BY <1>2, <1>6 DEF MainInv, HandlerAt
  <2>5. QED
    BY <1>1, <2>1, <2>3, <2>4 DEF MainInv
<1>7. CASE HandlerAt("clear")
  <2>1. handlers' = rest /\ server_fd' = FALSE /\ UNCHANGED listener
    BY <1>7 DEF HandlerStep, HandlerAt
  <2>2. listener = "closed"
    BY <1>2, <1>7 DEF HandlerAt, MainInv
  <2> HIDE DEF rest
  <2>3. QED
    BY Zenon, <1>1, <1>2, <1>3, <2>1, <2>2 DEF MainInv
<1>8. QED
  BY <1>4, <1>5, <1>6, <1>7 DEF HandlerStep

LEMMA MainKeepsInv ==
    ASSUME MainInv, [MainNext]_mainVars
    PROVE  MainInv'
<1>1. ASSUME NEW s \in Signals, Stop(s) PROVE MainInv'
  BY <1>1, StopKeepsInv
<1>2. CASE HandlerStep
  BY <1>2, HandlerKeepsInv
<1>3. ASSUME handlers = <<>>, UNCHANGED <<handlers, running>>
      PROVE  /\ handlers' \in Seq(HandlerSteps) /\ handlers' = <<>>
             /\ \A k \in 1 .. Len(handlers') : FALSE
  <2>1. handlers' \in Seq(HandlerSteps) /\ Len(handlers') = 0
    BY <1>3, EmptySeq
  <2>2. QED
    BY <1>3, <2>1
<1>4. CASE CreateSocket
  BY <1>3, <1>4 DEF CreateSocket, MainAt, Unchanged, MainInv
<1>5. CASE AssignSocket
  BY <1>3, <1>5 DEF AssignSocket, MainAt, Unchanged, MainInv
<1>6. CASE Loop
  BY <1>3, <1>6 DEF Loop, MainAt, Unchanged, MainInv
<1>7. CASE CallAccept
  BY <1>3, <1>7 DEF CallAccept, MainAt, Unchanged, MainInv
<1>8. CASE AcceptFails
  BY <1>3, <1>8 DEF AcceptFails, AfterFailure, MainAt, Unchanged, MainInv
<1>9. CASE AcceptSucceeds
  BY <1>3, <1>9 DEF AcceptSucceeds, MainAt, Unchanged, MainInv
<1>10. CASE HandOn
  BY <1>3, <1>10 DEF HandOn, MainAt, Unchanged, MainInv
<1>11. CASE End
  BY <1>3, <1>11 DEF End, MainAt, Unchanged, MainInv
<1>12. CASE CloseListener
  BY <1>3, <1>12 DEF CloseListener, MainAt, Unchanged, MainInv
<1>13. CASE UNCHANGED mainVars
  BY <1>13 DEF mainVars, MainInv
<1>14. QED
  BY <1>1, <1>2, <1>4, <1>5, <1>6, <1>7, <1>8, <1>9, <1>10, <1>11, <1>12,
     <1>13 DEF MainNext, MainRuns

-----------------------------------------------------------------------------
LEMMA TimesAreNat ==
    /\ HANDSHAKE_TIMEOUT \in Nat /\ SHUTDOWN_TIMEOUT \in Nat
    /\ LOGIN_TIMEOUT \in Nat /\ MaxCallTime \in Nat
BY LifecycleAssumption DEF LifecycleAssumption

LEMMA LifecycleInitHasInv == LifecycleInit => ThreadInv
BY TimesAreNat DEF LifecycleInit, ThreadInv, Handshaking, ShuttingDown

\* poll never waits past the deadline.
LEMMA WaitEndsInTime ==
    ASSUME NEW waiting, NEW ready, NEW failed,
           wait_for_tls(waiting, ready, failed),
           clock \in Nat, deadline \in Nat
    PROVE  /\ clock' \in Nat
           /\ clock' = clock \/ clock' <= deadline
           /\ pc = waiting /\ pc' \in {ready, waiting, failed}
           /\ UNCHANGED <<phaseVars, tls_io_failed, resources>>
BY DEF wait_for_tls, Elapse, Expired, PollTimeout

\* A close leads to the shutdown only where that is allowed.
LEMMA CloseKeepsInv ==
    ASSUME NEW graceful \in BOOLEAN, NEW fatal \in BOOLEAN, NEW now \in Nat,
           ThreadInv, close_connection(graceful, fatal, now),
           clock' = now, pc # "closed", UNCHANGED closed,
           ssl' \in {"none", "new", "set"},
           handles' = IF ssl' = "none" THEN 0 ELSE 1,
           ssl = "set" /\ graceful /\ ~fatal =>
              ssl' = "set" /\ ~tls_io_failed'
    PROVE  ThreadInv'
<1>1. CASE ShutsDown(graceful, fatal)
  <2>1. /\ pc' = "shutdown" /\ started' = now
        /\ deadline' = now + SHUTDOWN_TIMEOUT
    BY <1>1 DEF close_connection
  <2>2. ssl' = "set" /\ ~tls_io_failed'
    BY <1>1 DEF ShutsDown
  <2>3. QED
    BY <2>1, <2>2, TimesAreNat DEF ThreadInv, Handshaking, ShuttingDown
<1>2. CASE ~ShutsDown(graceful, fatal)
  <2>1. pc' = "release" /\ UNCHANGED <<started, deadline>>
    BY <1>2 DEF close_connection
  <2>2. QED
    BY <2>1 DEF ThreadInv, Handshaking, ShuttingDown
<1>3. QED
  BY <1>1, <1>2

\* A read of the login moves the clock on.
LEMMA LoginTakesTime ==
    ASSUME ThreadInv, \E time \in 0 .. LOGIN_TIMEOUT : Elapse(time)
    PROVE  clock' \in Nat
BY TimesAreNat DEF ThreadInv, Elapse

LEMMA ThreadKeepsInv ==
    ASSUME ThreadInv, [LifecycleNext]_tlsVars
    PROVE  ThreadInv'
<1> USE TimesAreNat
<1>1. CASE StartHandshake
  BY <1>1 DEF StartHandshake, ThreadInv, Handshaking, ShuttingDown, phaseVars
<1>2. CASE TryHandshake
  BY <1>2 DEF TryHandshake, ThreadInv, Handshaking, ShuttingDown, Expired,
     Call, Elapse
<1>3. CASE WaitHandshake
  BY <1>3, WaitEndsInTime DEF WaitHandshake, ThreadInv, Handshaking,
     ShuttingDown, phaseVars, resources
<1>4. CASE FailHandshake
  <2>1. /\ pc = "hs_fail" /\ ssl' = "none" /\ handles' = FreeHandle
        /\ close_connection(FALSE, FALSE, clock)
        /\ UNCHANGED <<clock, closed>>
    BY Zenon, <1>4 DEF FailHandshake
  <2>2. clock \in Nat /\ FreeHandle = 0
    BY DEF ThreadInv, FreeHandle
  <2>3. QED
    BY Zenon, <2>1, <2>2, CloseKeepsInv
<1>5. ASSUME pc = "login", clock' \in Nat, NEW fatal \in BOOLEAN,
             CloseLogin(fatal)
      PROVE  ThreadInv'
  <2>1. /\ close_connection(TRUE, fatal, clock') /\ tls_io_failed' = fatal
        /\ UNCHANGED <<ssl, handles, closed>>
    BY Zenon, <1>5 DEF CloseLogin, resources
  <2>2. /\ ssl' \in {"none", "new", "set"} /\ ssl' = ssl
        /\ handles' = IF ssl' = "none" THEN 0 ELSE 1
    BY <2>1 DEF ThreadInv
  <2>3. QED
    BY Zenon, <1>5, <2>1, <2>2, CloseKeepsInv
<1>6. CASE LoginTimesOut
  <2>1. \E time \in 0 .. LOGIN_TIMEOUT : Elapse(time)
    BY <1>6 DEF LoginTimesOut
  <2>2. QED
    BY <1>5, <1>6, <2>1, LoginTakesTime DEF LoginTimesOut
<1>7. CASE LoginFails
  BY <1>5, <1>7, LoginTakesTime DEF LoginFails
<1>8. CASE LoginRead
  BY <1>8, LoginTakesTime DEF LoginRead, ThreadInv, Handshaking,
     ShuttingDown, resources
<1>9. CASE LoginInterrupted
  BY <1>9, LoginTakesTime DEF LoginInterrupted, ThreadInv, Handshaking,
     ShuttingDown, resources
<1>10. CASE LoginSucceeds
  <2>1. /\ clock' \in Nat /\ pc = "login" /\ UNCHANGED <<ssl, handles, closed>>
    BY <1>10, LoginTakesTime DEF LoginSucceeds, resources
  <2>2. CASE pc' = "serving" /\ UNCHANGED <<started, deadline, tls_io_failed>>
    BY <2>1, <2>2 DEF ThreadInv, Handshaking, ShuttingDown
  <2>3. CASE close_connection(FALSE, FALSE, clock')
    <3>1. /\ ssl' \in {"none", "new", "set"}
          /\ handles' = IF ssl' = "none" THEN 0 ELSE 1
      BY <2>1 DEF ThreadInv
    <3>2. QED
      BY Zenon, <2>1, <2>3, <3>1, CloseKeepsInv
  <2>4. QED
    BY Zenon, <1>10, <2>2, <2>3 DEF LoginSucceeds
<1>11. CASE ServingEnds
  <2>1. /\ pc = "serving" /\ UNCHANGED <<clock, ssl, handles, closed>>
        /\ clock \in Nat /\ ssl \in {"none", "new", "set"}
        /\ handles = IF ssl = "none" THEN 0 ELSE 1
        /\ ssl = "set" /\ ~tls_io_failed
    BY <1>11 DEF ServingEnds, resources, ThreadInv
  <2>2. CASE close_connection(TRUE, FALSE, clock) /\ UNCHANGED tls_io_failed
    BY Zenon, <2>1, <2>2, CloseKeepsInv
  <2>3. CASE close_connection(FALSE, FALSE, clock)
    BY Zenon, <2>1, <2>3, CloseKeepsInv
  <2>4. QED
    BY Zenon, <1>11, <2>2, <2>3 DEF ServingEnds
<1>12. CASE TryShutdown
  BY <1>12 DEF TryShutdown, ThreadInv, Handshaking, ShuttingDown, Expired,
     Call, Elapse, phaseVars, resources
<1>13. CASE WaitShutdown
  BY <1>13, WaitEndsInTime DEF WaitShutdown, ThreadInv, Handshaking,
     ShuttingDown, phaseVars, resources
<1>14. CASE Release
  BY <1>14 DEF Release, FreeHandle, ThreadInv, Handshaking, ShuttingDown,
     phaseVars
<1>15. CASE UNCHANGED tlsVars
  BY <1>15 DEF tlsVars, phaseVars, resources, ThreadInv, Handshaking,
     ShuttingDown
<1>16. QED
  BY <1>1, <1>2, <1>3, <1>4, <1>6, <1>7, <1>8, <1>9, <1>10, <1>11, <1>12,
     <1>13, <1>14, <1>15 DEF LifecycleNext, ThreadStep

-----------------------------------------------------------------------------
LEMMA ProcessInvHolds == ProcessSpec => []ProcessInv
<1>1. ProcessInit => ProcessInv
  BY MainInitHasInv, LifecycleInitHasInv DEF ProcessInit, ProcessInv
<1>2. ProcessInv /\ [ProcessNext]_processVars => ProcessInv'
  <2> SUFFICES ASSUME ProcessInv, [ProcessNext]_processVars
               PROVE  ProcessInv'
    OBVIOUS
  <2>1. [MainNext]_mainVars /\ [LifecycleNext]_tlsVars
    BY DEF ProcessNext, MainThread, ClientThread, processVars
  <2>2. QED
    BY <2>1, MainKeepsInv, ThreadKeepsInv DEF ProcessInv
<1>3. QED
  BY <1>1, <1>2, PTL DEF ProcessSpec

\* Whatever signals interrupt main and whichever call fails, main leaves no
\* listening socket open when it returns (main, stop_server).
THEOREM MainClosesItsListener == ProcessSpec => []ListenerReleased
<1>1. ProcessInv => ListenerReleased
  BY DEF ProcessInv, MainInv, ListenerReleased
<1>2. QED
  BY <1>1, ProcessInvHolds, PTL

\* However long library calls take and whatever the peer does, the handshake
\* and the shutdown end within their timeouts plus one call
\* (perform_tls_handshake, shutdown_tls), for every value of these.
THEOREM TimeoutsAreKept == ProcessSpec => []DeadlinesHold
<1>1. ProcessInv => DeadlinesHold
  BY TimesAreNat DEF ProcessInv, ThreadInv, Handshaking, ShuttingDown,
     DeadlinesHold
<1>2. QED
  BY <1>1, ProcessInvHolds, PTL

\* On every path through handle_client a connection's TLS handle and socket
\* are released exactly once (close_connection).
THEOREM ConnectionsReleasedOnce == ProcessSpec => []ReleasedOnce
<1>1. ProcessInv => ReleasedOnce
  BY DEF ProcessInv, ThreadInv, Handshaking, ShuttingDown, ReleasedOnce
<1>2. QED
  BY <1>1, ProcessInvHolds, PTL

-----------------------------------------------------------------------------
(***************************************************************************)
(* The receiving half of a client: its table of incoming files, the        *)
(* temporary files and the downloads.                                      *)
(***************************************************************************)
Bytes == Filenames \X (1 .. PackageSize)

Incoming ==
    [active : BOOLEAN, transfer_id : Nat, expected_size : Nat,
     received_size : Nat, filename : Filenames \union {NoFilename},
     temp_path : TempNames \union {NoTemp}]

Found == [kind : {"absent", "foreign", "saved"}, bytes : Seq(Bytes)]

\* NoStrayTemps is not inductive alone: a transfer's temporary file is not one
\* that unlink has failed to remove before, for mkstemp makes a new one.
TableInv ==
    /\ incoming_files \in [IncomingSlots -> Incoming]
    /\ \A u \in DOMAIN temps : temps[u] \in Seq(Bytes)
    /\ \A i \in Active :
          /\ incoming_files[i].filename \in Filenames
          /\ incoming_files[i].temp_path \notin undeletable
    /\ TransfersSeparate
    /\ NoStrayTemps

ReceiverInv == TableInv /\ downloads \in [Filenames -> Found]

-----------------------------------------------------------------------------
LEMMA FreeIsIncoming == FreeIncoming \in Incoming /\ ~FreeIncoming.active
BY DEF FreeIncoming, Incoming

LEMMA ReceiverInitHasInv == ReceiverInit => ReceiverInv
<1> SUFFICES ASSUME ReceiverInit PROVE ReceiverInv
  OBVIOUS
<1>1. incoming_files \in [IncomingSlots -> Incoming] /\ Active = {}
  BY FreeIsIncoming DEF ReceiverInit, Active
<1>2. DOMAIN temps = {} /\ undeletable = {}
  BY DEF ReceiverInit
<1>3. TransfersSeparate /\ NoStrayTemps
  BY <1>1, <1>2 DEF TransfersSeparate, NoStrayTemps
<1>4. TableInv
  BY <1>1, <1>2, <1>3 DEF TableInv
<1>5. Absent \in Found /\ Foreign \in Found
  BY EmptySeq DEF Absent, Foreign, Found
<1>6. downloads \in [Filenames -> Found]
  BY <1>5 DEF ReceiverInit
<1>7. QED
  BY <1>4, <1>6 DEF ReceiverInv

\* A piece of a package is a sequence of its bytes.
LEMMA PiecesAreBytes ==
    ASSUME NEW piece \in Pieces
    PROVE  piece \in Seq(Bytes)
<1>1. PICK name \in Filenames, m \in 1 .. PackageSize, n \in 1 .. PackageSize :
         piece = SubSeq(Package(name), m, n)
  BY DEF Pieces
<1>2. PackageSize \in Nat
  BY ReceiverAssumption DEF ReceiverAssumption
<1>3. /\ m \in Int /\ n \in Int
      /\ \A k \in m .. n : Package(name)[k] \in Bytes
  BY <1>2 DEF Package, Bytes
<1>4. QED
  BY <1>1, <1>3, SubSeqProperties

\* Transfers end and their temporary files are removed, or kept on record.
LEMMA TransfersEnd ==
    ASSUME TableInv, NEW S \in SUBSET Active,
           incoming_files' \in [IncomingSlots -> Incoming],
           Active' = Active \ S,
           \A i \in Active \ S : incoming_files'[i] = incoming_files[i],
           Unlink({incoming_files[i].temp_path : i \in S})
    PROVE  TableInv'
<1> DEFINE ended == {incoming_files[i].temp_path : i \in S}
<1>1. PICK kept \in SUBSET ended :
         /\ temps' = [u \in DOMAIN temps \ (ended \ kept) |-> temps[u]]
         /\ undeletable' = undeletable \union kept
  BY DEF Unlink, Restrict
<1>2. /\ DOMAIN temps' = DOMAIN temps \ (ended \ kept)
      /\ \A u \in DOMAIN temps' : temps'[u] = temps[u]
  BY <1>1
<1>3. \A i \in Active' :
         /\ incoming_files'[i] = incoming_files[i]
         /\ i \in Active
         /\ incoming_files[i].temp_path \notin ended
         /\ incoming_files[i].temp_path \in DOMAIN temps'
  BY <1>2 DEF TableInv, TransfersSeparate
<1>4. TransfersSeparate'
  BY <1>2, <1>3 DEF TableInv, TransfersSeparate
<1>5. NoStrayTemps'
  <2>1. {incoming_files'[i].temp_path : i \in Active'}
           = {incoming_files[i].temp_path : i \in Active} \ ended
    BY <1>3 DEF TableInv
  <2>2. ended \intersect undeletable = {}
    BY DEF TableInv
  <2>3. /\ DOMAIN temps
              = {incoming_files[i].temp_path : i \in Active} \union undeletable
        /\ ended \subseteq {incoming_files[i].temp_path : i \in Active}
    BY DEF TableInv, NoStrayTemps
  <2> HIDE DEF ended
  <2>4. QED
    BY <1>1, <1>2, <2>1, <2>2, <2>3 DEF NoStrayTemps
<1>6. \A i \in Active' :
         /\ incoming_files'[i].filename \in Filenames
         /\ incoming_files'[i].temp_path \notin undeletable'
  BY <1>1, <1>3 DEF TableInv
<1>7. QED
  BY <1>2, <1>4, <1>5, <1>6 DEF TableInv

LEMMA DiscardKeepsInv ==
    ASSUME TableInv, NEW i \in Active, FreeSlot(i),
           Unlink({incoming_files[i].temp_path})
    PROVE  TableInv'
<1>1. /\ incoming_files' \in [IncomingSlots -> Incoming]
      /\ Active' = Active \ {i}
      /\ \A j \in Active \ {i} : incoming_files'[j] = incoming_files[j]
  BY FreeIsIncoming DEF TableInv, FreeSlot, Active
<1>2. {incoming_files[j].temp_path : j \in {i}} = {incoming_files[i].temp_path}
  OBVIOUS
<1>3. QED
  BY Zenon, <1>1, <1>2, TransfersEnd

LEMMA FoundAreActive ==
    ASSUME NEW id, NEW i \in find_incoming_file(id)
    PROVE  i \in Active /\ incoming_files[i].transfer_id = id
BY DEF find_incoming_file, Active

LEMMA BeginKeepsInv ==
    ASSUME TableInv, NEW id \in IncomingIds, NEW name \in Filenames,
           NEW size \in DeclaredSizes, receive_file_begin(id, name, size)
    PROVE  TableInv'
<1>1. PICK i \in SlotsFor(id), t \in TempNames \ DOMAIN temps :
         /\ temps' = [u \in DOMAIN temps \union {t} |->
                         IF u = t THEN <<>> ELSE temps[u]]
         /\ \/ /\ incoming_files' = [incoming_files EXCEPT ![i] =
                     [active |-> TRUE, transfer_id |-> id,
                      expected_size |-> size, received_size |-> 0,
                      filename |-> name, temp_path |-> t]]
               /\ UNCHANGED undeletable
            \/ /\ undeletable' = undeletable \union {t}
               /\ UNCHANGED incoming_files
  BY DEF receive_file_begin
<1>2. /\ DOMAIN temps' = DOMAIN temps \union {t}
      /\ temps'[t] = <<>> /\ <<>> \in Seq(Bytes) /\ Len(<<>>) = 0
      /\ \A u \in DOMAIN temps : temps'[u] = temps[u]
  BY <1>1, EmptySeq
<1>3. \A u \in DOMAIN temps' : temps'[u] \in Seq(Bytes)
  BY Zenon, <1>2 DEF TableInv
<1>4. /\ i \in IncomingSlots /\ i \notin Active
      /\ \A j \in Active : incoming_files[j].transfer_id # id
  BY <1>1 DEF SlotsFor, find_incoming_file, Active
<1>5. \A j \in Active : incoming_files[j].temp_path # t
  BY <1>1 DEF TableInv, TransfersSeparate
<1>6. CASE UNCHANGED incoming_files /\ undeletable' = undeletable \union {t}
  <2>1. Active' = Active
    BY <1>6 DEF Active
  <2>2. TransfersSeparate'
    BY <1>2, <1>6, <2>1 DEF TableInv, TransfersSeparate
  <2>3. NoStrayTemps'
    BY <1>2, <1>6, <2>1 DEF TableInv, NoStrayTemps
  <2>4. QED
    BY <1>3, <1>5, <1>6, <2>1, <2>2, <2>3 DEF TableInv
<1>7. ASSUME NEW entry \in Incoming,
             entry = [active |-> TRUE, transfer_id |-> id,
                      expected_size |-> size, received_size |-> 0,
                      filename |-> name, temp_path |-> t],
             incoming_files' = [incoming_files EXCEPT ![i] = entry],
             UNCHANGED undeletable
      PROVE  TableInv'
  <2>1. /\ entry.active /\ entry.transfer_id = id /\ entry.temp_path = t
        /\ entry.expected_size = size /\ entry.received_size = 0
        /\ entry.filename = name /\ size \in Nat
    BY <1>7, ReceiverAssumption DEF ReceiverAssumption
  <2>2. /\ incoming_files' \in [IncomingSlots -> Incoming]
        /\ incoming_files'[i] = entry
        /\ \A j \in IncomingSlots \ {i} : incoming_files'[j] = incoming_files[j]
    BY <1>4, <1>7 DEF TableInv
  <2>3. Active' = Active \union {i}
    BY <1>4, <2>1, <2>2 DEF Active
  <2>4. \A j \in Active : j # i /\ incoming_files'[j] = incoming_files[j]
    BY <1>4, <2>2 DEF Active
  <2>5. TransfersSeparate'
    BY <1>2, <1>4, <1>5, <2>1, <2>2, <2>3, <2>4 DEF TableInv, TransfersSeparate
  <2>6. NoStrayTemps'
    <3>1. {incoming_files'[j].temp_path : j \in Active'}
             = {incoming_files[j].temp_path : j \in Active} \union {t}
      BY <2>1, <2>2, <2>3, <2>4
    <3>2. QED
      BY ZenonT(40), <1>2, <1>7, <3>1 DEF TableInv, NoStrayTemps
  <2>7. t \notin undeletable
    BY <1>1 DEF TableInv, NoStrayTemps
  <2>8. QED
    BY <1>3, <1>7, <2>1, <2>2, <2>3, <2>4, <2>5, <2>6, <2>7 DEF TableInv
<1>8. QED
  <2>1. [active |-> TRUE, transfer_id |-> id, expected_size |-> size,
         received_size |-> 0, filename |-> name, temp_path |-> t] \in Incoming
    BY ReceiverAssumption DEF ReceiverAssumption, Incoming
  <2>2. QED
    BY Zenon, <1>1, <1>6, <1>7, <2>1

LEMMA ChunkKeepsInv ==
    ASSUME TableInv, NEW id \in IncomingIds, NEW piece \in Pieces,
           receive_file_chunk(id, piece)
    PROVE  TableInv'
<1>1. PICK i \in find_incoming_file(id) :
         \/ discard_incoming_file(i)
         \/ /\ ~Exceeds(i, piece)
            /\ temps' = [temps EXCEPT ![incoming_files[i].temp_path] =
                            @ \o piece]
            /\ incoming_files' = [incoming_files EXCEPT
                                     ![i].received_size = @ + Len(piece)]
            /\ UNCHANGED undeletable
  BY Zenon DEF receive_file_chunk
<1>2. i \in Active /\ i \in IncomingSlots
  BY <1>1, FoundAreActive DEF Active
<1>3. CASE discard_incoming_file(i)
  BY <1>2, <1>3, DiscardKeepsInv DEF discard_incoming_file
<1>4. CASE /\ ~Exceeds(i, piece)
           /\ temps' = [temps EXCEPT ![incoming_files[i].temp_path] =
                           @ \o piece]
           /\ incoming_files' = [incoming_files EXCEPT
                                    ![i].received_size = @ + Len(piece)]
           /\ UNCHANGED undeletable
  <2>1. PICK f \in Incoming : f = incoming_files[i]
    BY <1>2 DEF TableInv
  <2>2. PICK t : t = f.temp_path
    OBVIOUS
  <2>3. piece \in Seq(Bytes)
    BY PiecesAreBytes
  <2>4. PICK n \in Nat : n = Len(piece)
    BY <2>3, LenProperties
  <2>5. PICK got \in Nat : got = f.received_size
    BY DEF Incoming
  <2>6. PICK all \in Nat : all = f.expected_size
    BY DEF Incoming
  <2>7. t \in DOMAIN temps /\ temps[t] \in Seq(Bytes) /\ Len(temps[t]) = got
    BY <1>2, <2>1, <2>2, <2>5 DEF TableInv, TransfersSeparate
  <2>8. temps[t] \o piece \in Seq(Bytes) /\ Len(temps[t] \o piece) = got + n
    BY Zenon, <2>3, <2>4, <2>7, ConcatProperties
  <2>9. got + n <= all
    BY <1>4, <2>1, <2>4, <2>5, <2>6 DEF Exceeds
  <2>10. PICK g \in Incoming :
            /\ g.active = f.active /\ g.transfer_id = f.transfer_id
            /\ g.expected_size = f.expected_size /\ g.received_size = got + n
            /\ g.filename = f.filename /\ g.temp_path = f.temp_path
            /\ g = [f EXCEPT !.received_size = got + n]
    <3> DEFINE h == [f EXCEPT !.received_size = got + n]
    <3>1. h \in Incoming
      BY DEF Incoming
    <3>2. /\ h.active = f.active /\ h.transfer_id = f.transfer_id
          /\ h.expected_size = f.expected_size /\ h.received_size = got + n
          /\ h.filename = f.filename /\ h.temp_path = f.temp_path
      BY DEF Incoming
    <3>3. QED
      BY Zenon, <3>1, <3>2
  <2>11. /\ incoming_files' \in [IncomingSlots -> Incoming]
         /\ incoming_files'[i] = g
         /\ \A j \in IncomingSlots \ {i} :
               incoming_files'[j] = incoming_files[j]
    BY <1>2, <1>4, <2>1, <2>4, <2>5, <2>10 DEF TableInv
  <2>12. Active' = Active
    BY ZenonT(40), <1>2, <2>1, <2>10, <2>11 DEF Active
  <2>13. \A j \in Active : j \in IncomingSlots
    BY DEF Active
  <2>14. \A j \in Active :
            /\ incoming_files'[j].transfer_id = incoming_files[j].transfer_id
            /\ incoming_files'[j].temp_path = incoming_files[j].temp_path
            /\ incoming_files'[j].filename = incoming_files[j].filename
    BY Zenon, <2>1, <2>10, <2>11, <2>13
  <2>15. /\ DOMAIN temps' = DOMAIN temps
         /\ temps'[t] = temps[t] \o piece
         /\ \A u \in DOMAIN temps \ {t} : temps'[u] = temps[u]
    BY <1>4, <2>1, <2>2, <2>7
  <2>16. TransfersSeparate'
    <3>1. ASSUME NEW j \in Active
          PROVE  /\ incoming_files'[j].temp_path \in DOMAIN temps'
                 /\ Len(temps'[incoming_files'[j].temp_path])
                       = incoming_files'[j].received_size
                 /\ incoming_files'[j].received_size
                       <= incoming_files'[j].expected_size
      <4>1. CASE j = i
        BY Zenon, <2>2, <2>6, <2>7, <2>8, <2>9, <2>10, <2>11, <2>15, <4>1
      <4>2. CASE j # i
        <5>1. incoming_files'[j] = incoming_files[j]
          BY <2>11, <2>13, <4>2
        <5>2. incoming_files[j].temp_path \in DOMAIN temps \ {t}
          BY <1>2, <2>1, <2>2, <4>2 DEF TableInv, TransfersSeparate
        <5>3. QED
          BY <2>15, <5>1, <5>2 DEF TableInv, TransfersSeparate
      <4>3. QED
        BY <4>1, <4>2
    <3>2. \A j \in Active, k \in Active :
             j # k =>
                /\ incoming_files'[k].transfer_id # incoming_files'[j].transfer_id
                /\ incoming_files'[k].temp_path # incoming_files'[j].temp_path
      BY <2>14 DEF TableInv, TransfersSeparate
    <3>3. QED
      BY <2>12, <3>1, <3>2 DEF TransfersSeparate
  <2>17. NoStrayTemps'
    <3>1. {incoming_files'[j].temp_path : j \in Active'}
             = {incoming_files[j].temp_path : j \in Active}
      BY <2>12, <2>14
    <3>2. QED
      BY Zenon, <1>4, <2>15, <3>1 DEF TableInv, NoStrayTemps
  <2>18. \A u \in DOMAIN temps' : temps'[u] \in Seq(Bytes)
    BY Zenon, <2>8, <2>15 DEF TableInv
  <2>19. QED
    BY <1>4, <2>11, <2>12, <2>14, <2>16, <2>17, <2>18 DEF TableInv
<1>5. QED
  BY <1>1, <1>3, <1>4

\* The end of a transfer changes a download only where the name is free, and
\* to the package that was sealed under it.
LEMMA EndKeepsInv ==
    ASSUME ReceiverInv, NEW id \in IncomingIds, receive_file_end(id)
    PROVE  /\ ReceiverInv'
           /\ \A name \in Filenames :
                 downloads[name] # Absent => downloads'[name] = downloads[name]
<1>1. PICK i \in find_incoming_file(id) :
         \/ discard_incoming_file(i) /\ UNCHANGED downloads
         \/ /\ LinkSucceeds(incoming_files[i].filename)
            /\ downloads' = [downloads EXCEPT ![incoming_files[i].filename] =
                                Saved(temps[incoming_files[i].temp_path])]
            /\ FreeSlot(i)
            /\ Unlink({incoming_files[i].temp_path})
  BY DEF receive_file_end
<1>2. i \in Active /\ TableInv
  BY <1>1, FoundAreActive DEF ReceiverInv
<1>3. TableInv'
  BY <1>1, <1>2, DiscardKeepsInv DEF discard_incoming_file
<1>4. CASE UNCHANGED downloads
  BY <1>3, <1>4 DEF ReceiverInv
<1>5. CASE /\ LinkSucceeds(incoming_files[i].filename)
           /\ downloads' = [downloads EXCEPT ![incoming_files[i].filename] =
                               Saved(temps[incoming_files[i].temp_path])]
  <2>1. PICK name \in Filenames : name = incoming_files[i].filename
    BY <1>2 DEF TableInv
  <2>2. PICK package \in Seq(Bytes) :
           package = temps[incoming_files[i].temp_path]
    BY <1>2 DEF TableInv, TransfersSeparate
  <2>3. downloads[name] = Absent
    BY <1>5, <2>1 DEF LinkSucceeds
  <2>4. downloads' = [downloads EXCEPT ![name] = Saved(package)]
    BY <1>5, <2>1, <2>2
  <2>5. Saved(package) \in Found
    BY DEF Saved, Found
  <2>6. /\ downloads' \in [Filenames -> Found]
        /\ downloads'[name] = Saved(package)
        /\ \A other \in Filenames \ {name} : downloads'[other] = downloads[other]
    BY <2>4, <2>5 DEF ReceiverInv
  <2>7. QED
    BY <1>3, <2>3, <2>6 DEF ReceiverInv
<1>6. QED
  BY <1>1, <1>4, <1>5

LEMMA CleanupKeepsInv ==
    ASSUME TableInv, cleanup_incoming_files
    PROVE  TableInv'
<1>1. /\ incoming_files' \in [IncomingSlots -> Incoming]
      /\ Active' = Active \ Active
  BY FreeIsIncoming DEF cleanup_incoming_files, Active
<1>2. Unlink({incoming_files[i].temp_path : i \in Active})
  BY DEF cleanup_incoming_files, Active
<1>3. QED
  BY <1>1, <1>2, TransfersEnd

LEMMA TableUntouched ==
    ASSUME TableInv, UNCHANGED <<incoming_files, temps, undeletable>>
    PROVE  TableInv'
<1>1. /\ incoming_files' = incoming_files /\ temps' = temps
      /\ undeletable' = undeletable
  BY Zenon
<1>2. Active' = Active
  BY <1>1 DEF Active
<1>3. TransfersSeparate'
  BY <1>1, <1>2 DEF TableInv, TransfersSeparate
<1>4. NoStrayTemps'
  BY Zenon, <1>1, <1>2 DEF TableInv, NoStrayTemps
<1>5. QED
  BY <1>1, <1>2, <1>3, <1>4 DEF TableInv

\* Every step keeps the invariant, and what it may do to a name that is taken.
LEMMA ReceiverStep ==
    ASSUME ReceiverInv, [ReceiverNext]_receiverVars
    PROVE  /\ ReceiverInv'
           /\ \A name \in Filenames :
                 downloads[name] # Absent =>
                    downloads'[name] \in {downloads[name], Absent}
<1>1. ASSUME TableInv', UNCHANGED downloads
      PROVE  /\ ReceiverInv'
             /\ \A name \in Filenames : downloads'[name] = downloads[name]
  BY <1>1 DEF ReceiverInv
<1>2. TableInv
  BY DEF ReceiverInv
<1>3. ASSUME NEW id \in IncomingIds, NEW name \in Filenames,
             NEW size \in DeclaredSizes, receive_file_begin(id, name, size)
      PROVE  TableInv' /\ UNCHANGED downloads
  BY <1>2, <1>3, BeginKeepsInv DEF receive_file_begin
<1>4. ASSUME NEW id \in IncomingIds, NEW piece \in Pieces,
             receive_file_chunk(id, piece)
      PROVE  TableInv' /\ UNCHANGED downloads
  BY Zenon, <1>2, <1>4, ChunkKeepsInv DEF receive_file_chunk
<1>5. ASSUME NEW id \in IncomingIds, receive_file_error(id)
      PROVE  TableInv' /\ UNCHANGED downloads
  BY <1>2, <1>5, FoundAreActive, DiscardKeepsInv DEF receive_file_error,
     discard_incoming_file
<1>6. CASE cleanup_incoming_files
  BY Zenon, <1>1, <1>2, <1>6, CleanupKeepsInv DEF cleanup_incoming_files
<1>7. CASE OtherProgram
  <2>1. PICK name \in Filenames :
           downloads' = [downloads EXCEPT ![name] =
                            IF @ = Absent THEN Foreign ELSE Absent]
    BY Zenon, <1>7 DEF OtherProgram
  <2>2. Absent \in Found /\ Foreign \in Found
    BY EmptySeq DEF Absent, Foreign, Found
  <2>3. /\ downloads' \in [Filenames -> Found]
        /\ downloads'[name] = IF downloads[name] = Absent
                              THEN Foreign ELSE Absent
        /\ \A other \in Filenames \ {name} : downloads'[other] = downloads[other]
    BY <2>1, <2>2 DEF ReceiverInv
  <2>4. UNCHANGED <<incoming_files, temps, undeletable>>
    BY Zenon, <1>7 DEF OtherProgram
  <2>5. TableInv'
    BY <1>2, <2>4, TableUntouched
  <2>6. QED
    BY <2>3, <2>5 DEF ReceiverInv
<1>8. CASE UNCHANGED receiverVars
  BY <1>1, <1>2, <1>8, TableUntouched DEF receiverVars
<1>9. CASE handle_incoming_file_frame
  BY <1>1, <1>3, <1>4, <1>5, <1>9, EndKeepsInv DEF handle_incoming_file_frame
<1>10. QED
  BY <1>6, <1>7, <1>8, <1>9 DEF ReceiverNext

-----------------------------------------------------------------------------
LEMMA ReceiverInvHolds == ReceiverSpec => []ReceiverInv
<1>1. ReceiverInv /\ [ReceiverNext]_receiverVars => ReceiverInv'
  BY ReceiverStep
<1>2. QED
  BY <1>1, ReceiverInitHasInv, PTL DEF ReceiverSpec

\* For every table size and set of ids, names and sizes, two transfers that are
\* being received share neither their id nor their temporary file
\* (create_incoming_file).
THEOREM TransfersDoNotMix == ReceiverSpec => []TransfersSeparate
<1>1. ReceiverInv => TransfersSeparate
  BY DEF ReceiverInv, TableInv
<1>2. QED
  BY <1>1, ReceiverInvHolds, PTL

\* Whatever calls of the C library fail, a temporary file belongs to a transfer
\* under way or is one that could not be unlinked (discard_incoming_file).
THEOREM TempsAreAccountedFor == ReceiverSpec => []NoStrayTemps
<1>1. ReceiverInv => NoStrayTemps
  BY DEF ReceiverInv, TableInv
<1>2. QED
  BY <1>1, ReceiverInvHolds, PTL

\* A name that is taken is left alone, whoever created the file and whenever:
\* saving a download never replaces one (link in receive_file_end).
THEOREM SavingNeverReplaces == ReceiverSpec => NeverOverwritten
<1>1. ReceiverInv /\ [ReceiverNext]_receiverVars =>
         [\A name \in Filenames :
             downloads[name] # Absent =>
                downloads'[name] \in {downloads[name], Absent}]_receiverVars
  BY ReceiverStep
<1>2. QED
  BY <1>1, ReceiverInvHolds, PTL DEF ReceiverSpec, NeverOverwritten

=============================================================================
