------------------------- MODULE ClientWorkerProofs -------------------------
(* Proofs about a client's worker, for every queue limit, number of frames, *)
(* amount of input and behaviour of OpenSSL.                                *)
EXTENDS ClientWorker, SequenceTheorems, TLAPS

\* Time limits of the provers for a step.
USE SMTT(6), ZenonT(20), SMTT(40)

(***************************************************************************)
(* The inductive invariant, in four parts.                                 *)
(***************************************************************************)
WorkerTypes ==
    /\ pc \in {"top", "status", "take", "write", "read", "poll", "remove",
              "closed"}
    /\ wake \in BOOLEAN /\ progress \in BOOLEAN /\ tls_io_failed \in BOOLEAN
    /\ put_off \in BOOLEAN
    /\ write_wait \in {NoWait, "POLLIN", "POLLOUT"}
    /\ read_wait \in {NoWait, "POLLIN", "POLLOUT"}
    /\ result \in {-1, 0}
    /\ input \in Nat
    /\ writing \in Nat /\ written \in Seq(Nat) /\ accepted \in Nat

\* The registry holds the worker's client and no other, and the client is
\* addressable only while its queue has not overflowed.
MyRegistry ==
    /\ clients \in [ClientSlots -> Client]
    /\ \A i \in ClientSlots \ {Me} : ~clients[i].active
    /\ clients[Me].active <=> pc # "closed"
    /\ clients[Me].active => clients[Me].id = MyId
    /\ clients[Me].ready =>
          clients[Me].active /\ ~clients[Me].outgoing_failed

\* How many frames have left the queue.
Taken == IF writing = 0 THEN Len(written) ELSE Len(written) + 1

\* The buffer holds the frame after the last one written, and the queue the
\* frames after that one, up to the last one accepted.
FramesInOrder ==
    /\ pc = "take" => writing = 0
    /\ pc # "closed" =>
          /\ writing \in {0, Len(written) + 1}
          /\ Taken + Len(clients[Me].outgoing) = accepted
          /\ \A k \in 1 .. Len(clients[Me].outgoing) :
                clients[Me].outgoing[k] = Taken + k

\* From the check of the queue's state to the poll, whatever the worker has
\* seen of its queue is still true unless it has been woken since.
StaysAwake ==
    /\ pc \in {"take", "write", "read", "poll"} /\ ~wake =>
          ~clients[Me].outgoing_failed
    /\ pc \in {"take", "write"} => ~progress
    /\ pc = "write" \/ (pc = "read" /\ ~progress) \/ pc = "poll" =>
          wake \/ writing # 0 \/ clients[Me].outgoing = <<>>
    /\ (pc = "read" /\ ~progress) \/ pc = "poll" =>
          writing = 0 \/ write_wait # NoWait \/ put_off
    /\ put_off => /\ pc \notin {"status", "take", "write"}
                  /\ pc \in {"read", "poll"} =>
                        writing # 0 /\ write_wait = NoWait
    /\ pc = "poll" => PollEvents # NoWait

ClosesInOrder ==
    /\ OneDirectionPends /\ GracefulCloseIsSafe
    /\ tls_io_failed => pc \in {"remove", "closed"}

WorkerInv ==
    /\ WorkerTypes /\ MyRegistry /\ FramesInOrder
    /\ StaysAwake /\ ClosesInOrder

-----------------------------------------------------------------------------
(***************************************************************************)
(* What the registry's operations do, seen from the one client in it.      *)
(***************************************************************************)
LEMMA MeIsASlot == Me \in ClientSlots
BY ClientsAssumption DEF Me, ClientSlots

LEMMA MySlots ==
    ASSUME MyRegistry
    PROVE  /\ ActiveSlots(MyId) = IF pc # "closed" THEN {Me} ELSE {}
           /\ ReadySlots(MyId) = IF clients[Me].ready THEN {Me} ELSE {}
           /\ OutputOk(MyId) <=> pc # "closed" /\ ~clients[Me].outgoing_failed
           /\ Min({Me}) = Me
<1>1. ActiveSlots(MyId) = IF pc # "closed" THEN {Me} ELSE {}
  BY MeIsASlot DEF MyRegistry, ActiveSlots
<1>2. ReadySlots(MyId) = IF clients[Me].ready THEN {Me} ELSE {}
  BY <1>1 DEF MyRegistry, ReadySlots
<1>3. OutputOk(MyId) <=> pc # "closed" /\ ~clients[Me].outgoing_failed
  BY <1>1 DEF OutputOk
<1>4. Min({Me}) = Me
  BY DEF Me, Min
<1>5. QED
  BY <1>1, <1>2, <1>3, <1>4

\* Another thread, or the worker itself, queues a frame for the client: the
\* frame is appended, or the queue overflows, or nothing is recorded.
Queued ==
    /\ clients[Me].ready /\ Len(clients[Me].outgoing) < MAX_OUTGOING_FRAMES
    /\ clients' = [clients EXCEPT ![Me] =
                      [clients[Me] EXCEPT !.outgoing =
                          Append(clients[Me].outgoing, accepted + 1)]]
    /\ accepted' = accepted + 1 /\ accepted < MaxSends
    /\ wake' = TRUE

Overflowed ==
    /\ clients[Me].ready /\ Len(clients[Me].outgoing) >= MAX_OUTGOING_FRAMES
    /\ clients' = [clients EXCEPT ![Me] =
                      [clients[Me] EXCEPT !.outgoing_failed = TRUE,
                                          !.ready = FALSE]]
    /\ UNCHANGED accepted
    /\ wake' = TRUE

NotQueued ==
    /\ UNCHANGED <<clients, accepted>>
    /\ wake' \in BOOLEAN /\ (wake => wake')

LEMMA QueueEffect ==
    ASSUME WorkerTypes, MyRegistry, QueueForMe
    PROVE  Queued \/ Overflowed \/ NotQueued
<1>1. wake' = (wake \/ ReadySlots(MyId) # {}) /\ accepted < MaxSends
  BY DEF QueueForMe
<1>2. CASE Enqueue(MyId, accepted + 1) /\ accepted' = accepted + 1
  <2>1. ReadySlots(MyId) # {} /\ QueueResult(MyId) = "OK"
    BY <1>2 DEF Enqueue, QueueResult
  <2>2. ReadySlots(MyId) = {Me} /\ clients[Me].ready /\ Min({Me}) = Me
    BY <2>1, MySlots
  <2>3. ~(Len(clients[Me].outgoing) >= MAX_OUTGOING_FRAMES)
    BY <2>1, <2>2 DEF QueueResult
  <2>4. clients[Me].outgoing \in Seq(Frames)
    BY MeIsASlot DEF MyRegistry, Client
  <2>5. Len(clients[Me].outgoing) < MAX_OUTGOING_FRAMES
    BY <2>3, <2>4, ClientsAssumption
  <2>6. clients' = [clients EXCEPT ![Me] =
                      [clients[Me] EXCEPT !.outgoing =
                          Append(clients[Me].outgoing, accepted + 1)]]
    BY Zenon, <1>2, <2>2 DEF Enqueue
  <2>7. QED
    BY Zenon, <1>1, <1>2, <2>1, <2>2, <2>5, <2>6 DEF Queued
<1>3. CASE EnqueueFails(MyId) /\ UNCHANGED accepted /\ UNCHANGED clients
  BY <1>1, <1>3 DEF NotQueued, WorkerTypes
<1>4. CASE /\ QueueResult(MyId) = "ENOBUFS" /\ UNCHANGED accepted
           /\ clients' = [clients EXCEPT
                            ![Min(ReadySlots(MyId))].outgoing_failed = TRUE,
                            ![Min(ReadySlots(MyId))].ready = FALSE]
  <2>1. ReadySlots(MyId) # {}
    BY <1>4 DEF QueueResult
  <2>2. ReadySlots(MyId) = {Me} /\ clients[Me].ready /\ Min({Me}) = Me
    BY <2>1, MySlots
  <2>3. Len(clients[Me].outgoing) >= MAX_OUTGOING_FRAMES
    BY <1>4, <2>2 DEF QueueResult
  <2>4. clients' = [clients EXCEPT ![Me] =
                      [clients[Me] EXCEPT !.outgoing_failed = TRUE,
                                          !.ready = FALSE]]
    BY Zenon, <1>4, <2>2, MeIsASlot DEF MyRegistry
  <2>5. QED
    BY Zenon, <1>1, <1>4, <2>1, <2>2, <2>3, <2>4 DEF Overflowed
<1>5. QED
  BY Zenon, <1>2, <1>3, <1>4 DEF QueueForMe, EnqueueFails

\* take_outgoing_frame pops the head of the client's queue.
Popped ==
    /\ ~clients[Me].outgoing_failed /\ clients[Me].outgoing # <<>>
    /\ clients' = [clients EXCEPT ![Me] =
                      [clients[Me] EXCEPT !.outgoing =
                          Tail(clients[Me].outgoing)]]

LEMMA TakeEffect ==
    ASSUME MyRegistry, take_outgoing_frame(MyId)
    PROVE  Popped
<1>1. PICK i \in ActiveSlots(MyId) :
         /\ ~clients[i].outgoing_failed
         /\ clients[i].outgoing # <<>>
         /\ clients' = [clients EXCEPT ![i].outgoing = Tail(@)]
  BY Zenon DEF take_outgoing_frame
<1>2. i = Me
  BY MySlots
<1>3. QED
  BY <1>1, <1>2 DEF Popped

\* The registry after a change of the client's record.
LEMMA ChangeMine ==
    ASSUME MyRegistry, NEW new \in Client,
           clients' = [clients EXCEPT ![Me] = new],
           new.active <=> pc' # "closed",
           new.active => new.id = MyId,
           new.ready => new.active /\ ~new.outgoing_failed
    PROVE  MyRegistry' /\ clients'[Me] = new
<1>1. \A j \in ClientSlots : clients'[j] = IF j = Me THEN new ELSE clients[j]
  BY DEF MyRegistry
<1>2. clients' \in [ClientSlots -> Client]
  BY Zenon DEF MyRegistry
<1>3. QED
  BY <1>1, <1>2, MeIsASlot DEF MyRegistry

LEMMA MyQueue ==
    ASSUME MyRegistry
    PROVE  /\ clients[Me] \in Client
           /\ clients[Me].outgoing \in Seq(Frames)
           /\ Len(clients[Me].outgoing) \in Nat
<1>1. clients[Me] \in Client
  BY MeIsASlot DEF MyRegistry
<1>2. QED
  BY <1>1 DEF Client

\* Queueing a frame keeps the registry and the order, and leaves no trace
\* without waking the worker.
LEMMA QueueKeeps ==
    ASSUME WorkerTypes, MyRegistry, FramesInOrder, QueueForMe,
           UNCHANGED <<writing, written>>,
           pc' = "closed" <=> pc = "closed",
           pc' = "take" => pc = "take"
    PROVE  /\ MyRegistry' /\ FramesInOrder'
           /\ accepted' \in Nat /\ wake' \in BOOLEAN
           /\ ~wake' => ~wake /\ UNCHANGED clients
<1> DEFINE old == clients[Me]
<1>1. CASE Queued
  <2> DEFINE new == [old EXCEPT !.outgoing = Append(old.outgoing, accepted + 1)]
  <2>1. old \in Client /\ old.outgoing \in Seq(Frames) /\ Len(old.outgoing) \in Nat
    BY MyQueue
  <2>2. accepted \in Nat /\ accepted + 1 \in Frames
    <3>1. accepted \in Nat
      BY DEF WorkerTypes
    <3>2. accepted < MaxSends
      BY <1>1 DEF Queued
    <3>3. QED
      BY <3>1, <3>2, WorkerAssumption
  <2>3. /\ Append(old.outgoing, accepted + 1) \in Seq(Frames)
        /\ Len(Append(old.outgoing, accepted + 1)) = Len(old.outgoing) + 1
        /\ \A k \in 1 .. Len(old.outgoing) + 1 :
              Append(old.outgoing, accepted + 1)[k] =
                 IF k = Len(old.outgoing) + 1 THEN accepted + 1
                 ELSE old.outgoing[k]
    BY <2>1, <2>2
  <2>4. /\ new \in Client /\ new.active = old.active /\ new.id = old.id
        /\ new.ready = old.ready /\ new.outgoing_failed = old.outgoing_failed
        /\ new.outgoing = Append(old.outgoing, accepted + 1)
    BY Zenon, <2>1, <2>3 DEF Client
  <2>5. clients' = [clients EXCEPT ![Me] = new]
    BY <1>1 DEF Queued
  <2>6. MyRegistry' /\ clients'[Me] = new
    <3> HIDE DEF new
    <3>1. QED
      BY Zenon, <2>4, <2>5, ChangeMine DEF MyRegistry
  <2>7. FramesInOrder'
    <3>1. /\ clients'[Me].outgoing = Append(old.outgoing, accepted + 1)
          /\ Taken' = Taken /\ Taken \in Nat /\ accepted' = accepted + 1
      <4>1. clients'[Me].outgoing = Append(old.outgoing, accepted + 1)
        BY <2>4, <2>6
      <4>2. Taken' = Taken /\ Taken \in Nat
        BY DEF Taken, WorkerTypes
      <4>3. QED
        BY <1>1, <4>1, <4>2 DEF Queued
    <3>2. pc # "closed"
      BY <1>1 DEF Queued, MyRegistry
    <3>3. /\ writing \in {0, Len(written) + 1}
          /\ Taken + Len(old.outgoing) = accepted
          /\ \A k \in 1 .. Len(old.outgoing) : old.outgoing[k] = Taken + k
      BY <3>2 DEF FramesInOrder
    <3> HIDE DEF old, new
    <3>4. \A k \in 1 .. Len(old.outgoing) + 1 :
             clients'[Me].outgoing[k] = Taken' + k
      <4> SUFFICES ASSUME NEW k \in 1 .. Len(old.outgoing) + 1
                   PROVE  Append(old.outgoing, accepted + 1)[k] = Taken + k
        BY <3>1
      <4>1. CASE k = Len(old.outgoing) + 1
        BY <2>1, <2>3, <3>1, <3>3, <4>1
      <4>2. CASE k # Len(old.outgoing) + 1
        <5>1. k \in 1 .. Len(old.outgoing)
          BY <2>1, <4>2
        <5>2. QED
          BY <2>3, <3>3, <4>2, <5>1
      <4>3. QED
        BY <4>1, <4>2
    <3>5. Taken' + Len(clients'[Me].outgoing) = accepted'
      BY <2>1, <2>3, <3>1, <3>3
    <3>6. Len(clients'[Me].outgoing) = Len(old.outgoing) + 1
      BY <2>3, <3>1
    <3>7. writing' \in {0, Len(written') + 1} /\ (pc' = "take" => writing' = 0)
      BY <3>3 DEF FramesInOrder
    <3>8. QED
      BY <3>4, <3>5, <3>6, <3>7 DEF FramesInOrder
  <2>8. accepted' \in Nat /\ wake' = TRUE
    BY <1>1, <2>2 DEF Queued
  <2>9. QED
    BY <2>6, <2>7, <2>8
<1>2. CASE Overflowed
  <2> DEFINE new == [old EXCEPT !.outgoing_failed = TRUE, !.ready = FALSE]
  <2>1. old \in Client
    BY MyQueue
  <2>2. /\ new \in Client /\ new.active = old.active /\ new.id = old.id
        /\ new.ready = FALSE /\ new.outgoing = old.outgoing
    BY Zenon, <2>1 DEF Client
  <2>3. clients' = [clients EXCEPT ![Me] = new]
    BY <1>2 DEF Overflowed
  <2>4. MyRegistry' /\ clients'[Me] = new
    <3> HIDE DEF new
    <3>1. QED
      BY Zenon, <2>2, <2>3, ChangeMine DEF MyRegistry
  <2>5. FramesInOrder'
    <3>1. clients'[Me].outgoing = clients[Me].outgoing /\ Taken' = Taken
      BY <2>2, <2>4 DEF Taken
    <3>2. QED
      BY <1>2, <3>1 DEF FramesInOrder, Overflowed
  <2>6. QED
    BY <1>2, <2>4, <2>5 DEF Overflowed, WorkerTypes
<1>3. CASE NotQueued
  BY Zenon, <1>3 DEF NotQueued, MyRegistry, FramesInOrder, Taken, WorkerTypes
<1>4. QED
  BY <1>1, <1>2, <1>3, QueueEffect

-----------------------------------------------------------------------------
\* A call of the worker that leaves the registry, the buffer and what has
\* been written alone.
LEMMA CallKeeps ==
    ASSUME WorkerInv,
           UNCHANGED <<clients, accepted, writing, written>>,
           pc # "closed", pc' # "closed",
           pc' = "take" => writing = 0
    PROVE  MyRegistry' /\ FramesInOrder'
<1>1. Taken' = Taken
  BY DEF Taken
<1>2. QED
  BY <1>1 DEF WorkerInv, MyRegistry, FramesInOrder

\* The calls of the loop that neither move a frame nor end the worker.
LEMMA CallsKeepInv ==
    ASSUME WorkerInv,
           ReadEventfd \/ CheckStatus \/ WriteWants \/ WriteFails \/
           WriteSkipped \/ ReadPart \/ ReadQuit \/ ReadInvalid \/
           ReadWantsInput \/ ReadWantsRoom \/ ReadEof \/ ReadFails \/
           ReadSkipped \/ PollReturns
    PROVE  WorkerInv'
<1> USE DEF WorkerInv
<1>1. CASE ReadEventfd
  <2>1. WorkerTypes'
    BY Zenon, <1>1 DEF WorkerTypes, ReadEventfd, clientVars, localVars, netVars
  <2>2. MyRegistry' /\ FramesInOrder'
    BY <1>1, CallKeeps DEF ReadEventfd, clientVars, localVars, netVars
  <2>3. StaysAwake'
    BY <1>1 DEF WorkerTypes, StaysAwake, ClosesInOrder, OneDirectionPends,
       PollEvents, NoWait, ReadEventfd, clientVars, localVars, netVars
  <2>4. ClosesInOrder'
    BY <1>1 DEF WorkerTypes, ClosesInOrder, OneDirectionPends,
       GracefulCloseIsSafe, NoWait, ReadEventfd, clientVars, localVars, netVars
  <2>5. QED
    BY <2>1, <2>2, <2>3, <2>4
<1>2. CASE CheckStatus
  <2>1. WorkerTypes'
    BY Zenon, <1>2 DEF WorkerTypes, CheckStatus, Returns, clientVars, localVars,
       netVars
  <2>2. MyRegistry' /\ FramesInOrder'
    BY <1>2, CallKeeps DEF CheckStatus, Returns, clientVars, localVars, netVars
  <2>3. StaysAwake'
    BY <1>2, MySlots DEF WorkerTypes, StaysAwake, ClosesInOrder,
       OneDirectionPends, PollEvents, NoWait, CheckStatus, Returns, clientVars,
       localVars, netVars
  <2>4. ClosesInOrder'
    BY <1>2 DEF WorkerTypes, ClosesInOrder, OneDirectionPends,
       GracefulCloseIsSafe, NoWait, CheckStatus, Returns, clientVars, localVars,
       netVars
  <2>5. QED
    BY <2>1, <2>2, <2>3, <2>4
<1>3. CASE WriteWants
  <2>1. WorkerTypes'
    BY <1>3 DEF WorkerTypes, WriteWants, WriteAllowed, clientVars, localVars,
       netVars
  <2>2. MyRegistry' /\ FramesInOrder'
    BY <1>3, CallKeeps DEF WriteWants, WriteAllowed, clientVars, localVars,
       netVars
  <2>3. StaysAwake'
    BY <1>3 DEF WorkerTypes, StaysAwake, ClosesInOrder, OneDirectionPends,
       PollEvents, NoWait, WriteWants, WriteAllowed, clientVars, localVars,
       netVars
  <2>4. ClosesInOrder'
    BY <1>3 DEF WorkerTypes, ClosesInOrder, OneDirectionPends,
       GracefulCloseIsSafe, NoWait, WriteWants, WriteAllowed, clientVars,
       localVars, netVars
  <2>5. QED
    BY <2>1, <2>2, <2>3, <2>4
<1>4. CASE WriteFails
  <2>1. WorkerTypes'
    BY <1>4 DEF WorkerTypes, WriteFails, WriteAllowed, Returns, clientVars,
       localVars, netVars
  <2>2. MyRegistry' /\ FramesInOrder'
    BY <1>4, CallKeeps DEF WriteFails, WriteAllowed, Returns, clientVars,
       localVars, netVars
  <2>3. StaysAwake'
    BY <1>4 DEF WorkerTypes, StaysAwake, ClosesInOrder, OneDirectionPends,
       PollEvents, NoWait, WriteFails, WriteAllowed, Returns, clientVars,
       localVars, netVars
  <2>4. ClosesInOrder'
    BY <1>4 DEF WorkerTypes, ClosesInOrder, OneDirectionPends,
       GracefulCloseIsSafe, NoWait, WriteFails, WriteAllowed, Returns,
       clientVars, localVars, netVars
  <2>5. QED
    BY <2>1, <2>2, <2>3, <2>4
<1>5. CASE WriteSkipped
  <2>1. WorkerTypes'
    BY Zenon, <1>5 DEF WorkerTypes, WriteSkipped, WriteAllowed, clientVars, localVars,
       netVars
  <2>2. MyRegistry' /\ FramesInOrder'
    BY <1>5, CallKeeps DEF WriteSkipped, WriteAllowed, clientVars, localVars,
       netVars
  <2>3. StaysAwake'
    BY <1>5 DEF WorkerTypes, StaysAwake, ClosesInOrder, OneDirectionPends,
       PollEvents, NoWait, WriteSkipped, WriteAllowed, clientVars, localVars,
       netVars
  <2>4. ClosesInOrder'
    BY <1>5 DEF WorkerTypes, ClosesInOrder, OneDirectionPends,
       GracefulCloseIsSafe, NoWait, WriteSkipped, WriteAllowed, clientVars,
       localVars, netVars
  <2>5. QED
    BY <2>1, <2>2, <2>3, <2>4
<1>6. CASE ReadPart
  <2>1. WorkerTypes'
    BY <1>6 DEF WorkerTypes, ReadPart, ReadAllowed, ControlDataWritten,
       clientVars, localVars, netVars
  <2>2. MyRegistry' /\ FramesInOrder'
    BY <1>6, CallKeeps DEF ReadPart, ReadAllowed, ControlDataWritten,
       clientVars, localVars, netVars
  <2>3. StaysAwake'
    BY <1>6 DEF WorkerTypes, StaysAwake, ClosesInOrder, OneDirectionPends,
       PollEvents, NoWait, ReadPart, ReadAllowed, ControlDataWritten,
       clientVars, localVars, netVars
  <2>4. ClosesInOrder'
    BY <1>6 DEF WorkerTypes, ClosesInOrder, OneDirectionPends,
       GracefulCloseIsSafe, NoWait, ReadPart, ReadAllowed, ControlDataWritten,
       clientVars, localVars, netVars
  <2>5. QED
    BY <2>1, <2>2, <2>3, <2>4
<1>7. CASE ReadQuit
  <2>1. WorkerTypes'
    BY <1>7 DEF WorkerTypes, ReadQuit, ReadAllowed, ControlDataWritten, Returns,
       clientVars, localVars, netVars
  <2>2. MyRegistry' /\ FramesInOrder'
    BY <1>7, CallKeeps DEF ReadQuit, ReadAllowed, ControlDataWritten, Returns,
       clientVars, localVars, netVars
  <2>3. StaysAwake'
    BY <1>7 DEF WorkerTypes, StaysAwake, ClosesInOrder, OneDirectionPends,
       PollEvents, NoWait, ReadQuit, ReadAllowed, ControlDataWritten, Returns,
       clientVars, localVars, netVars
  <2>4. ClosesInOrder'
    BY <1>7 DEF WorkerTypes, ClosesInOrder, OneDirectionPends,
       GracefulCloseIsSafe, NoWait, ReadQuit, ReadAllowed, ControlDataWritten,
       Returns, clientVars, localVars, netVars
  <2>5. QED
    BY <2>1, <2>2, <2>3, <2>4
<1>8. CASE ReadInvalid
  <2>1. WorkerTypes'
    BY <1>8 DEF WorkerTypes, ReadInvalid, ReadAllowed, ControlDataWritten,
       Returns, clientVars, localVars, netVars
  <2>2. MyRegistry' /\ FramesInOrder'
    BY <1>8, CallKeeps DEF ReadInvalid, ReadAllowed, ControlDataWritten,
       Returns, clientVars, localVars, netVars
  <2>3. StaysAwake'
    BY <1>8 DEF WorkerTypes, StaysAwake, ClosesInOrder, OneDirectionPends,
       PollEvents, NoWait, ReadInvalid, ReadAllowed, ControlDataWritten,
       Returns, clientVars, localVars, netVars
  <2>4. ClosesInOrder'
    BY <1>8 DEF WorkerTypes, ClosesInOrder, OneDirectionPends,
       GracefulCloseIsSafe, NoWait, ReadInvalid, ReadAllowed,
       ControlDataWritten, Returns, clientVars, localVars, netVars
  <2>5. QED
    BY <2>1, <2>2, <2>3, <2>4
<1>9. CASE ReadWantsInput
  <2>1. WorkerTypes'
    BY <1>9 DEF WorkerTypes, ReadWantsInput, ReadAllowed, ControlDataWritten,
       clientVars, localVars, netVars
  <2>2. MyRegistry' /\ FramesInOrder'
    BY <1>9, CallKeeps DEF ReadWantsInput, ReadAllowed, ControlDataWritten,
       clientVars, localVars, netVars
  <2>3. StaysAwake'
    BY <1>9 DEF WorkerTypes, StaysAwake, ClosesInOrder, OneDirectionPends,
       PollEvents, NoWait, ReadWantsInput, ReadAllowed, ControlDataWritten,
       clientVars, localVars, netVars
  <2>4. ClosesInOrder'
    BY <1>9 DEF WorkerTypes, ClosesInOrder, OneDirectionPends,
       GracefulCloseIsSafe, NoWait, ReadWantsInput, ReadAllowed,
       ControlDataWritten, clientVars, localVars, netVars
  <2>5. QED
    BY <2>1, <2>2, <2>3, <2>4
<1>10. CASE ReadWantsRoom
  <2>1. WorkerTypes'
    <3>1. input' \in Nat
      BY <1>10 DEF WorkerTypes, ReadWantsRoom
    <3>2. pc' \in {"top", "poll"} /\ read_wait' = "POLLOUT"
      BY <1>10 DEF ReadWantsRoom
    <3>3. UNCHANGED <<wake, writing, write_wait, progress, put_off, result,
                      tls_io_failed, accepted, written>>
      BY <1>10 DEF ReadWantsRoom
    <3>4. QED
      BY Zenon, <3>1, <3>2, <3>3 DEF WorkerTypes
  <2>2. MyRegistry' /\ FramesInOrder'
    BY <1>10, CallKeeps DEF ReadWantsRoom, ReadAllowed, ControlDataWritten,
       clientVars, localVars, netVars
  <2>3. StaysAwake'
    BY <1>10 DEF WorkerTypes, StaysAwake, ClosesInOrder, OneDirectionPends,
       PollEvents, NoWait, ReadWantsRoom, ReadAllowed, ControlDataWritten,
       clientVars, localVars, netVars
  <2>4. ClosesInOrder'
    BY <1>10 DEF WorkerTypes, ClosesInOrder, OneDirectionPends,
       GracefulCloseIsSafe, NoWait, ReadWantsRoom, ReadAllowed,
       ControlDataWritten, clientVars, localVars, netVars
  <2>5. QED
    BY <2>1, <2>2, <2>3, <2>4
<1>11. CASE ReadEof
  <2>1. WorkerTypes'
    BY <1>11 DEF WorkerTypes, ReadEof, ReadAllowed, ControlDataWritten, Returns,
       clientVars, localVars, netVars
  <2>2. MyRegistry' /\ FramesInOrder'
    BY <1>11, CallKeeps DEF ReadEof, ReadAllowed, ControlDataWritten, Returns,
       clientVars, localVars, netVars
  <2>3. StaysAwake'
    BY <1>11 DEF WorkerTypes, StaysAwake, ClosesInOrder, OneDirectionPends,
       PollEvents, NoWait, ReadEof, ReadAllowed, ControlDataWritten, Returns,
       clientVars, localVars, netVars
  <2>4. ClosesInOrder'
    BY <1>11 DEF WorkerTypes, ClosesInOrder, OneDirectionPends,
       GracefulCloseIsSafe, NoWait, ReadEof, ReadAllowed, ControlDataWritten,
       Returns, clientVars, localVars, netVars
  <2>5. QED
    BY <2>1, <2>2, <2>3, <2>4
<1>12. CASE ReadFails
  <2>1. WorkerTypes'
    BY <1>12 DEF WorkerTypes, ReadFails, ReadAllowed, Returns, clientVars,
       localVars, netVars
  <2>2. MyRegistry' /\ FramesInOrder'
    BY <1>12, CallKeeps DEF ReadFails, ReadAllowed, Returns, clientVars,
       localVars, netVars
  <2>3. StaysAwake'
    BY <1>12 DEF WorkerTypes, StaysAwake, ClosesInOrder, OneDirectionPends,
       PollEvents, NoWait, ReadFails, ReadAllowed, Returns, clientVars,
       localVars, netVars
  <2>4. ClosesInOrder'
    BY <1>12 DEF WorkerTypes, ClosesInOrder, OneDirectionPends,
       GracefulCloseIsSafe, NoWait, ReadFails, ReadAllowed, Returns, clientVars,
       localVars, netVars
  <2>5. QED
    BY <2>1, <2>2, <2>3, <2>4
<1>13. CASE ReadSkipped
  <2>1. WorkerTypes'
    BY <1>13 DEF WorkerTypes, ReadSkipped, ReadAllowed, clientVars, localVars,
       netVars
  <2>2. MyRegistry' /\ FramesInOrder'
    BY <1>13, CallKeeps DEF ReadSkipped, ReadAllowed, clientVars, localVars,
       netVars
  <2>3. StaysAwake'
    BY <1>13 DEF WorkerTypes, StaysAwake, ClosesInOrder, OneDirectionPends,
       PollEvents, NoWait, ReadSkipped, ReadAllowed, clientVars, localVars,
       netVars
  <2>4. ClosesInOrder'
    BY <1>13 DEF WorkerTypes, ClosesInOrder, OneDirectionPends,
       GracefulCloseIsSafe, NoWait, ReadSkipped, ReadAllowed, clientVars,
       localVars, netVars
  <2>5. QED
    BY <2>1, <2>2, <2>3, <2>4
<1>14. CASE PollReturns
  <2>1. WorkerTypes'
    BY <1>14 DEF WorkerTypes, PollReturns, clientVars, localVars, netVars
  <2>2. MyRegistry' /\ FramesInOrder'
    BY <1>14, CallKeeps DEF PollReturns, clientVars, localVars, netVars
  <2>3. StaysAwake'
    BY <1>14 DEF WorkerTypes, StaysAwake, ClosesInOrder, OneDirectionPends,
       PollEvents, NoWait, PollReturns, clientVars, localVars, netVars
  <2>4. ClosesInOrder'
    BY <1>14 DEF WorkerTypes, ClosesInOrder, OneDirectionPends,
       GracefulCloseIsSafe, NoWait, PollReturns, clientVars, localVars, netVars
  <2>5. QED
    BY <2>1, <2>2, <2>3, <2>4
<1>15. QED
  BY <1>1, <1>2, <1>3, <1>4, <1>5, <1>6, <1>7, <1>8, <1>9, <1>10, <1>11, <1>12,
     <1>13, <1>14

\* Another thread queues a frame, at any point of the loop.
LEMMA OtherThreadKeepsInv ==
    ASSUME WorkerInv, OtherThread
    PROVE  WorkerInv'
<1>1. /\ MyRegistry' /\ FramesInOrder'
      /\ accepted' \in Nat /\ wake' \in BOOLEAN
      /\ ~wake' => ~wake /\ UNCHANGED clients
  BY QueueKeeps DEF WorkerInv, OtherThread, localVars, netVars
<1>2. UNCHANGED <<pc, localVars, netVars, written>>
  BY DEF OtherThread
<1>3. WorkerTypes'
  BY <1>1, <1>2 DEF WorkerInv, WorkerTypes, localVars, netVars
<1>4. StaysAwake'
  BY <1>1, <1>2 DEF WorkerInv, WorkerTypes, StaysAwake, PollEvents, localVars,
                    netVars
<1>5. ClosesInOrder'
  BY <1>2 DEF WorkerInv, ClosesInOrder, OneDirectionPends,
              GracefulCloseIsSafe, localVars, netVars
<1>6. QED
  BY <1>1, <1>3, <1>4, <1>5 DEF WorkerInv

\* A frame is complete, and its handler may answer the client.
LEMMA ReadFrameKeepsInv ==
    ASSUME WorkerInv, ReadFrame
    PROVE  WorkerInv'
<1>1. /\ MyRegistry' /\ FramesInOrder'
      /\ accepted' \in Nat /\ wake' \in BOOLEAN
  <2>1. CASE QueueForMe
    BY <2>1, QueueKeeps DEF WorkerInv, ReadFrame
  <2>2. CASE UNCHANGED <<clientVars, wake, accepted>>
    BY <2>2, CallKeeps DEF WorkerInv, WorkerTypes, ReadFrame, clientVars
  <2>3. QED
    BY <2>1, <2>2 DEF ReadFrame
<1>2. WorkerTypes'
  BY <1>1 DEF WorkerInv, WorkerTypes, ReadFrame
<1>3. StaysAwake'
  BY DEF ReadFrame, StaysAwake, NoWait
<1>4. ClosesInOrder'
  BY DEF WorkerInv, ClosesInOrder, OneDirectionPends, GracefulCloseIsSafe,
         ReadFrame, NoWait
<1>5. QED
  BY <1>1, <1>2, <1>3, <1>4 DEF WorkerInv

LEMMA MoveOne ==
    ASSUME NEW m \in Nat, NEW n \in Nat
    PROVE  m + 1 + (n - 1) = m + n
OBVIOUS

\* The head of the queue moves to the buffer, unless there is none or the
\* queue has overflowed since its state was looked at.
LEMMA TakeKeepsWorkerInv ==
    ASSUME WorkerInv, Take
    PROVE  WorkerInv'
<1> DEFINE old == clients[Me]
<1>1. /\ pc = "take" /\ writing = 0 /\ ~progress
      /\ ~put_off /\ put_off' = put_off
      /\ UNCHANGED <<wake, write_wait, read_wait, progress, tls_io_failed,
                     input, accepted, written>>
  BY DEF WorkerInv, FramesInOrder, StaysAwake, Take, netVars
<1>2. CASE /\ take_outgoing_frame(MyId)
           /\ writing' = Head(clients[Me].outgoing)
           /\ pc' = "write"
           /\ UNCHANGED result
  <2> DEFINE new == [old EXCEPT !.outgoing = Tail(old.outgoing)]
  <2>1. Popped
    BY <1>2, TakeEffect DEF WorkerInv
  <2>2. /\ old \in Client /\ old.outgoing \in Seq(Frames)
        /\ Len(old.outgoing) \in Nat /\ old.outgoing # <<>>
    BY <2>1, MyQueue DEF WorkerInv, Popped
  <2>3. /\ Tail(old.outgoing) \in Seq(Frames)
        /\ Len(old.outgoing) >= 1
        /\ Len(Tail(old.outgoing)) = Len(old.outgoing) - 1
        /\ \A k \in 1 .. Len(old.outgoing) - 1 :
              Tail(old.outgoing)[k] = old.outgoing[k + 1]
        /\ Head(old.outgoing) = old.outgoing[1]
    BY <2>2
  <2>4. /\ new \in Client /\ new.active = old.active /\ new.id = old.id
        /\ new.ready = old.ready /\ new.outgoing_failed = old.outgoing_failed
        /\ new.outgoing = Tail(old.outgoing)
    BY Zenon, <2>2, <2>3 DEF Client
  <2>5. clients' = [clients EXCEPT ![Me] = new]
    BY <2>1 DEF Popped
  <2>6. MyRegistry' /\ clients'[Me] = new
    <3>1. (old.active <=> pc # "closed") /\ pc' = "write"
      BY <1>2 DEF WorkerInv, MyRegistry
    <3> HIDE DEF new
    <3>2. QED
      BY Zenon, <1>1, <2>4, <2>5, <3>1, ChangeMine DEF WorkerInv, MyRegistry
  <2>7. /\ Taken = Len(written) /\ Len(written) \in Nat
        /\ Taken + Len(old.outgoing) = accepted
        /\ \A k \in 1 .. Len(old.outgoing) : old.outgoing[k] = Taken + k
    BY <1>1 DEF WorkerInv, WorkerTypes, FramesInOrder, Taken
  <2>8. writing' = Len(written) + 1 /\ Taken' = Len(written) + 1
    <3>1. writing' = Len(written) + 1
      BY <1>2, <2>2, <2>3, <2>7
    <3>2. QED
      BY <1>1, <2>7, <3>1 DEF Taken
  <2>9. clients'[Me].outgoing = Tail(old.outgoing)
    BY <2>4, <2>6
  <2> HIDE DEF old, new
  <2>10. \A k \in 1 .. Len(old.outgoing) - 1 :
            clients'[Me].outgoing[k] = Taken' + k
    <3> SUFFICES ASSUME NEW k \in 1 .. Len(old.outgoing) - 1
                 PROVE  Tail(old.outgoing)[k] = Len(written) + 1 + k
      BY <2>8, <2>9
    <3>1. k + 1 \in 1 .. Len(old.outgoing) /\ k \in Int
      BY <2>2
    <3>2. old.outgoing[k + 1] = Len(written) + (k + 1)
      BY <2>7, <3>1
    <3>3. QED
      BY <2>3, <2>7, <3>1, <3>2
  <2>11. FramesInOrder'
    <3>1. Len(clients'[Me].outgoing) = Len(old.outgoing) - 1
      BY <2>3, <2>9
    <3>2. Taken' + Len(clients'[Me].outgoing) = accepted'
      <4>1. Len(written) + 1 + (Len(old.outgoing) - 1) = accepted
        BY Zenon, <2>2, <2>7, MoveOne
      <4>2. QED
        BY Zenon, <1>1, <2>8, <3>1, <4>1
    <3>3. writing' \in {0, Len(written') + 1} /\ pc' # "take"
      BY <1>1, <1>2, <2>8
    <3>4. QED
      BY <2>10, <3>1, <3>2, <3>3 DEF FramesInOrder
  <2>12. WorkerTypes'
    BY <1>1, <1>2, <2>7, <2>8 DEF WorkerInv, WorkerTypes
  <2>13. StaysAwake'
    <3>1. ~clients'[Me].outgoing_failed
      BY <2>1, <2>4, <2>6 DEF Popped, old
    <3>2. writing' # 0
      BY <2>7, <2>8
    <3>3. QED
      BY <1>1, <1>2, <3>1, <3>2 DEF WorkerInv, StaysAwake, PollEvents
  <2>14. ClosesInOrder'
    BY <1>1, <1>2, <2>7, <2>8 DEF WorkerInv, ClosesInOrder,
       OneDirectionPends, GracefulCloseIsSafe
  <2>15. QED
    BY <2>6, <2>11, <2>12, <2>13, <2>14 DEF WorkerInv
<1>3. CASE \/ /\ OutputOk(MyId) /\ clients[Me].outgoing = <<>>
              /\ pc' = "write"
              /\ UNCHANGED <<clientVars, writing, result>>
           \/ /\ ~OutputOk(MyId)
              /\ Returns(-1)
              /\ UNCHANGED <<clientVars, writing>>
  <2>1. /\ UNCHANGED <<clients, writing>> /\ pc' \in {"write", "remove"}
        /\ pc' = "write" => /\ clients[Me].outgoing = <<>>
                            /\ ~clients[Me].outgoing_failed
                            /\ UNCHANGED result
        /\ pc' = "remove" => result' = -1
    BY <1>3, MySlots DEF WorkerInv, clientVars, Returns
  <2>2. WorkerTypes'
    BY <1>1, <2>1 DEF WorkerInv, WorkerTypes
  <2>3. MyRegistry' /\ FramesInOrder'
    BY <1>1, <2>1, CallKeeps
  <2>4. StaysAwake'
    BY <1>1, <2>1 DEF WorkerInv, StaysAwake, PollEvents
  <2>5. ClosesInOrder'
    BY <1>1, <2>1 DEF WorkerInv, ClosesInOrder, OneDirectionPends,
                      GracefulCloseIsSafe
  <2>6. QED
    BY <2>2, <2>3, <2>4, <2>5 DEF WorkerInv
<1>4. QED
  BY <1>2, <1>3 DEF Take

\* The whole frame has been handed to TLS, and the buffer is free again.
LEMMA WriteKeepsInv ==
    ASSUME WorkerInv, WriteCompletes
    PROVE  WorkerInv'
<1>1. /\ pc = "write" /\ pc' = "read" /\ progress' = TRUE
      /\ written' = Append(written, writing) /\ writing # 0
      /\ writing' = 0 /\ write_wait' = NoWait
      /\ ~put_off /\ put_off' = put_off
      /\ UNCHANGED <<clients, wake, read_wait, result, tls_io_failed, input,
                     accepted>>
  BY DEF WorkerInv, StaysAwake, WriteCompletes, WriteAllowed, clientVars
<1>2. writing = Len(written) + 1 /\ writing \in Nat /\ written \in Seq(Nat)
  BY <1>1 DEF WorkerInv, WorkerTypes, FramesInOrder
<1>3. written' \in Seq(Nat) /\ Len(written') = Len(written) + 1
  BY <1>1, <1>2
<1>4. Taken' = Taken
  BY <1>1, <1>3 DEF Taken
<1>5. WorkerTypes'
  BY <1>1, <1>3 DEF WorkerInv, WorkerTypes
<1>6. MyRegistry' /\ FramesInOrder'
  BY <1>1, <1>4 DEF WorkerInv, MyRegistry, FramesInOrder
<1>7. StaysAwake'
  BY <1>1 DEF WorkerInv, StaysAwake, PollEvents
<1>8. ClosesInOrder'
  BY <1>1 DEF WorkerInv, ClosesInOrder, OneDirectionPends,
              GracefulCloseIsSafe
<1>9. QED
  BY <1>5, <1>6, <1>7, <1>8 DEF WorkerInv

LEMMA RemoveKeepsWorkerInv ==
    ASSUME WorkerInv, RemoveMe
    PROVE  WorkerInv'
<1>1. /\ pc = "remove" /\ pc' = "closed"
      /\ clients' = [clients EXCEPT ![Me] = FreeClient]
      /\ UNCHANGED <<wake, localVars, netVars, accepted, written>>
  BY DEF RemoveMe, remove_client
<1>2. FreeClient \in Client /\ ~FreeClient.active /\ ~FreeClient.ready
  BY DEF FreeClient, Client
<1>3. WorkerTypes'
  BY <1>1 DEF WorkerInv, WorkerTypes, localVars, netVars
<1>4. MyRegistry'
  BY ZenonT(40), <1>1, <1>2, ChangeMine DEF WorkerInv
<1>5. FramesInOrder'
  BY <1>1 DEF FramesInOrder
<1>6. StaysAwake'
  BY <1>1 DEF WorkerInv, StaysAwake, localVars, netVars
<1>7. ClosesInOrder'
  BY <1>1 DEF WorkerInv, ClosesInOrder, OneDirectionPends,
              GracefulCloseIsSafe, localVars
<1>8. QED
  BY <1>3, <1>4, <1>5, <1>6, <1>7 DEF WorkerInv

\* The peer changes what the worker will find, never what it has noted.
LEMMA PeerKeepsInv ==
    ASSUME WorkerInv, PeerSends \/ PeerReads \/ PeerCloses
    PROVE  WorkerInv'
<1>1. /\ UNCHANGED <<clients, pc, wake, localVars, accepted, written>>
      /\ input' \in {input, input + 1} /\ input \in Nat
  BY DEF PeerSends, PeerReads, PeerCloses, clientVars, WorkerInv, WorkerTypes
<1>2. Taken' = Taken
  BY <1>1 DEF Taken, localVars
<1>3. WorkerTypes'
  BY <1>1 DEF WorkerInv, WorkerTypes, localVars
<1>4. MyRegistry' /\ FramesInOrder'
  BY <1>1, <1>2 DEF WorkerInv, MyRegistry, FramesInOrder, localVars
<1>5. StaysAwake'
  BY <1>1 DEF WorkerInv, StaysAwake, PollEvents, localVars
<1>6. ClosesInOrder'
  BY <1>1 DEF WorkerInv, ClosesInOrder, OneDirectionPends,
              GracefulCloseIsSafe, localVars
<1>7. QED
  BY <1>3, <1>4, <1>5, <1>6 DEF WorkerInv

LEMMA WorkerInitHasInv ==
    ASSUME WorkerInit
    PROVE  WorkerInv
<1>1. PICK name \in ValidUsernames :
         clients = [i \in ClientSlots |->
                      IF i # Me THEN FreeClient
                      ELSE [FreeClient EXCEPT !.active = TRUE,
                               !.ready = TRUE, !.id = MyId,
                               !.username = name]]
  BY Zenon DEF WorkerInit
<1> DEFINE mine == [FreeClient EXCEPT !.active = TRUE, !.ready = TRUE,
                       !.id = MyId, !.username = name]
<1>2. /\ FreeClient \in Client /\ ~FreeClient.active
      /\ mine \in Client /\ mine.active /\ mine.id = MyId
      /\ mine.outgoing = <<>> /\ ~mine.outgoing_failed
  <2>1. FreeClient \in Client /\ ~FreeClient.active
    BY DEF FreeClient, Client
  <2>2. FreeClient.outgoing = <<>> /\ ~FreeClient.outgoing_failed
    BY DEF FreeClient
  <2>3. name \in Usernames /\ MyId \in ClientIds
    BY ClientsAssumption, WorkerAssumption
  <2>4. /\ mine \in Client /\ mine.active /\ mine.id = MyId
        /\ mine.outgoing = FreeClient.outgoing
        /\ mine.outgoing_failed = FreeClient.outgoing_failed
    BY Zenon, <2>1, <2>3 DEF Client
  <2>5. QED
    BY <2>1, <2>2, <2>4
<1>3. clients = [i \in ClientSlots |-> IF i # Me THEN FreeClient ELSE mine]
  BY <1>1
<1> HIDE DEF mine
<1>4. clients \in [ClientSlots -> Client] /\ clients[Me] = mine
  BY <1>2, <1>3, MeIsASlot
<1>5. MyRegistry
  BY Zenon, <1>2, <1>3, <1>4 DEF MyRegistry, WorkerInit
<1>6. WorkerTypes
  <2>1. /\ pc = "top" /\ wake = FALSE /\ progress = FALSE
        /\ tls_io_failed = FALSE /\ put_off = FALSE
        /\ write_wait = NoWait /\ read_wait = NoWait
        /\ result = 0 /\ input = 0 /\ writing = 0 /\ accepted = 0
        /\ written = <<>>
    BY DEF WorkerInit
  <2>2. <<>> \in Seq(Nat)
    BY EmptySeq
  <2>3. QED
    BY Zenon, <2>1, <2>2 DEF WorkerTypes
<1>7. FramesInOrder
  <2>1. clients[Me].outgoing = <<>> /\ written = <<>> /\ writing = 0
    BY Zenon, <1>2, <1>4 DEF WorkerInit
  <2>2. Taken = 0 /\ Len(clients[Me].outgoing) = 0
    BY <2>1 DEF Taken
  <2>3. QED
    BY <2>1, <2>2 DEF WorkerInit, FramesInOrder
<1>8. StaysAwake /\ ClosesInOrder
  BY DEF WorkerInit, StaysAwake, ClosesInOrder, OneDirectionPends,
         GracefulCloseIsSafe, NoWait
<1>9. QED
  BY <1>5, <1>6, <1>7, <1>8 DEF WorkerInv

LEMMA WorkerStepKeepsInv ==
    ASSUME WorkerInv, [WorkerNext]_workerVars
    PROVE  WorkerInv'
<1>1. CASE UNCHANGED workerVars
  <2>1. Taken' = Taken
    BY <1>1 DEF workerVars, localVars, Taken
  <2>2. QED
    BY <1>1, <2>1 DEF workerVars, clientVars, localVars, netVars, WorkerInv,
       WorkerTypes, MyRegistry, FramesInOrder, StaysAwake, PollEvents,
       ClosesInOrder, OneDirectionPends, GracefulCloseIsSafe
<1>2. CASE WorkerStep
  BY <1>2, CallsKeepInv, ReadFrameKeepsInv, TakeKeepsWorkerInv, WriteKeepsInv,
     RemoveKeepsWorkerInv DEF WorkerStep
<1>3. CASE OtherThread
  BY <1>3, OtherThreadKeepsInv
<1>4. CASE PeerSends \/ PeerReads \/ PeerCloses
  BY <1>4, PeerKeepsInv
<1>5. QED
  BY <1>1, <1>2, <1>3, <1>4 DEF WorkerNext

LEMMA WorkerInvSuffices ==
    WorkerInv => OneDirectionPends /\ NoLostWakeup /\ GracefulCloseIsSafe
<1> SUFFICES ASSUME WorkerInv
             PROVE  OneDirectionPends /\ NoLostWakeup /\ GracefulCloseIsSafe
  OBVIOUS
<1>1. NoLostWakeup
  BY MySlots DEF WorkerInv, StaysAwake, NoLostWakeup
<1>2. QED
  BY <1>1 DEF WorkerInv, ClosesInOrder

LEMMA WorkerInvHolds == WorkerSpec => []WorkerInv
BY WorkerInitHasInv, WorkerStepKeepsInv, PTL DEF WorkerSpec

\* Whatever other threads, the peer and OpenSSL do, and for every queue limit,
\* the worker never sleeps on work it could do: a frame queued or an overflow
\* marked just before its poll is seen (run_client_worker's order of reading
\* the eventfd, looking at the queue and polling). The one exception is the
\* frame that write_outgoing put off for a read waiting for room, when that
\* read went on to wait for input in the same pass.
THEOREM WorkerSeesItsWork == WorkerSpec => []NoLostWakeup
BY WorkerInvHolds, WorkerInvSuffices, PTL

\* The worker starts no TLS call while another has to be retried, and has
\* remove_client close the connection with a TLS shutdown (graceful) only when
\* no call is left unfinished.
THEOREM WorkerEndsInOrder ==
    WorkerSpec => [](GracefulCloseIsSafe /\ OneDirectionPends)
BY WorkerInvHolds, WorkerInvSuffices, PTL

-----------------------------------------------------------------------------
(***************************************************************************)
(* The refinement.  While the client is logged in the mailbox holds the    *)
(* numbers after the last frame written up to the last one accepted, so it *)
(* is determined by two counts.                                            *)
(***************************************************************************)
Holds(h, first, last) ==
    /\ h \in Seq(Nat)
    /\ Len(h) = last - first
    /\ \A k \in 1 .. Len(h) : h[k] = first + k

LEMMA HeldIsUnique ==
    ASSUME NEW first \in Nat, NEW last \in Nat, NEW g, NEW h,
           Holds(g, first, last), Holds(h, first, last)
    PROVE  g = h
<1>1. /\ g \in Seq(Nat) /\ h \in Seq(Nat) /\ Len(g) = Len(h)
      /\ \A k \in 1 .. Len(g) : g[k] = h[k]
  BY DEF Holds
<1>2. QED
  BY <1>1, SeqEqual

\* The buffer followed by the queue.
LEMMA BufferThenQueue ==
    ASSUME NEW q \in Seq(Frames), NEW first \in Nat,
           NEW w \in {0, first + 1}, NEW last \in Nat, NEW taken \in Nat,
           taken = IF w = 0 THEN first ELSE first + 1,
           taken + Len(q) = last,
           \A k \in 1 .. Len(q) : q[k] = taken + k
    PROVE  Holds((IF w = 0 THEN <<>> ELSE <<w>>) \o q, first, last)
<1>1. q \in Seq(Nat) /\ Len(q) \in Nat
  <2>1. /\ Len(q) \in Nat /\ q = [k \in 1 .. Len(q) |-> q[k]]
        /\ \A k \in 1 .. Len(q) : q[k] \in Nat
    BY LenProperties
  <2>2. q \in [1 .. Len(q) -> Nat]
    BY <2>1
  <2>3. QED
    BY <2>1, <2>2, SeqDef
<1>2. CASE w = 0
  <2>1. <<>> \o q = q
    BY <1>1, ConcatEmptySeq
  <2>2. QED
    BY <1>1, <1>2, <2>1 DEF Holds
<1>3. CASE w # 0
  <2> DEFINE h == <<w>> \o q
  <2>1. /\ w = first + 1 /\ <<w>> \in Seq(Nat) /\ Len(<<w>>) = 1
        /\ <<w>>[1] = w
    BY <1>3
  <2>2. /\ h \in Seq(Nat) /\ Len(h) = 1 + Len(q)
        /\ \A k \in 1 .. 1 + Len(q) :
              h[k] = IF k <= 1 THEN <<w>>[k] ELSE q[k - 1]
    BY <1>1, <2>1, ConcatProperties
  <2> HIDE DEF h
  <2>3. ASSUME NEW k \in 1 .. Len(h) PROVE h[k] = first + k
    <3>1. CASE k = 1
      BY <1>1, <2>1, <2>2, <3>1
    <3>2. CASE k # 1
      <4>1. k - 1 \in 1 .. Len(q) /\ k \in 1 .. 1 + Len(q) /\ ~(k <= 1)
        BY <1>1, <2>2, <3>2
      <4>2. h[k] = taken + (k - 1)
        BY Zenon, <2>2, <4>1
      <4>3. QED
        BY <1>1, <1>3, <4>1, <4>2
    <3>3. QED
      BY <3>1, <3>2
  <2>4. Len(h) = last - first
    BY <1>1, <1>3, <2>2
  <2>5. QED
    BY <1>3, <2>2, <2>3, <2>4 DEF Holds, h
<1>4. QED
  BY <1>2, <1>3

LEMMA MailHolds ==
    ASSUME WorkerInv, pc # "closed"
    PROVE  Holds(MailHeld, Len(written), accepted)
<1>1. /\ clients[Me].outgoing \in Seq(Frames) /\ Len(written) \in Nat
      /\ accepted \in Nat /\ Taken \in Nat
      /\ Taken = IF writing = 0 THEN Len(written) ELSE Len(written) + 1
  BY MyQueue DEF WorkerInv, WorkerTypes, Taken
<1>2. /\ writing \in {0, Len(written) + 1}
      /\ Taken + Len(clients[Me].outgoing) = accepted
      /\ \A k \in 1 .. Len(clients[Me].outgoing) :
            clients[Me].outgoing[k] = Taken + k
  BY DEF WorkerInv, FramesInOrder
<1>3. PICK q : q = clients[Me].outgoing
  OBVIOUS
<1>4. Holds((IF writing = 0 THEN <<>> ELSE <<writing>>) \o q,
            Len(written), accepted)
  <2>1. PICK taken \in Nat : taken = Taken
    BY <1>1
  <2>2. /\ taken = IF writing = 0 THEN Len(written)
                    ELSE Len(written) + 1
        /\ taken + Len(q) = accepted /\ q \in Seq(Frames)
        /\ \A k \in 1 .. Len(q) : q[k] = taken + k
    BY Zenon, <1>1, <1>2, <1>3, <2>1
  <2>3. QED
    BY Zenon, <1>1, <1>2, <2>2, BufferThenQueue
<1>5. QED
  BY <1>3, <1>4 DEF MailHeld

\* The same of the state after a step.
LEMMA MailHoldsNext ==
    ASSUME WorkerInv', pc' # "closed"
    PROVE  Holds(MailHeld', Len(written'), accepted')
<1>1. /\ clients'[Me].outgoing \in Seq(Frames) /\ Len(written') \in Nat
      /\ accepted' \in Nat /\ Taken' \in Nat
      /\ Taken' = IF writing' = 0 THEN Len(written') ELSE Len(written') + 1
  BY MeIsASlot DEF WorkerInv, WorkerTypes, Taken, MyRegistry, Client
<1>2. /\ writing' \in {0, Len(written') + 1}
      /\ Taken' + Len(clients'[Me].outgoing) = accepted'
      /\ \A k \in 1 .. Len(clients'[Me].outgoing) :
            clients'[Me].outgoing[k] = Taken' + k
  BY DEF WorkerInv, FramesInOrder
<1>3. PICK q : q = clients'[Me].outgoing
  OBVIOUS
<1>4. Holds((IF writing' = 0 THEN <<>> ELSE <<writing'>>) \o q,
            Len(written'), accepted')
  <2>1. PICK taken \in Nat : taken = Taken'
    BY <1>1
  <2>2. /\ taken = IF writing' = 0 THEN Len(written')
                    ELSE Len(written') + 1
        /\ taken + Len(q) = accepted' /\ q \in Seq(Frames)
        /\ \A k \in 1 .. Len(q) : q[k] = taken + k
    BY Zenon, <1>1, <1>2, <1>3, <2>1
  <2>3. QED
    BY ZenonT(40), <1>1, <1>2, <2>2, BufferThenQueue
<1>5. QED
  BY <1>3, <1>4 DEF MailHeld

LEMMA Counts ==
    ASSUME WorkerInv, pc # "closed"
    PROVE  /\ Len(written) \in Nat /\ accepted \in Nat
           /\ Len(clients[Me].outgoing) \in Nat
           /\ writing = 0 => accepted = Len(written) + Len(clients[Me].outgoing)
           /\ writing # 0 =>
                 accepted = Len(written) + 1 + Len(clients[Me].outgoing)
<1>1. /\ Len(written) \in Nat /\ accepted \in Nat
      /\ Len(clients[Me].outgoing) \in Nat
  BY MyQueue DEF WorkerInv, WorkerTypes
<1>2. Taken + Len(clients[Me].outgoing) = accepted
  BY DEF WorkerInv, FramesInOrder
<1>3. QED
  BY Zenon, <1>1, <1>2 DEF Taken

\* A step that accepts, writes and refuses nothing cannot be seen.
LEMMA Unseen ==
    ASSUME WorkerInv, WorkerInv', pc # "closed", pc' # "closed",
           UNCHANGED <<accepted, written>>,
           clients'[Me].outgoing_failed = clients[Me].outgoing_failed
    PROVE  UNCHANGED Box!mailVars
<1>1. MailHeld' = MailHeld
  <2>1. Len(written) \in Nat /\ accepted \in Nat
    BY DEF WorkerInv, WorkerTypes
  <2>2. /\ Holds(MailHeld, Len(written), accepted)
        /\ Holds(MailHeld', Len(written), accepted)
    BY MailHolds, MailHoldsNext
  <2>3. QED
    BY <2>1, <2>2, HeldIsUnique
<1>2. MailStatus' = MailStatus
  BY DEF MailStatus
<1>3. QED
  BY <1>1, <1>2 DEF Box!mailVars

\* Queueing a frame is an Accept or a Seal, or cannot be seen.
LEMMA QueueMaps ==
    ASSUME WorkerInv, WorkerInv', QueueForMe,
           UNCHANGED <<writing, written>>,
           pc' = "closed" <=> pc = "closed"
    PROVE  [Box!MailNext]_Box!mailVars
<1>1. CASE pc = "closed"
  BY <1>1 DEF Box!mailVars, MailStatus, MailHeld
<1>2. CASE pc # "closed"
  <2> DEFINE q == clients[Me].outgoing
             n == Len(written)
  <2>1. /\ pc' # "closed" /\ Len(q) \in Nat /\ n \in Nat
        /\ accepted \in Nat /\ n = Len(written')
        /\ accepted - n \in {Len(q), Len(q) + 1}
    <3>1. PICK i \in Nat, j \in Nat : i = n /\ j = Len(q)
      BY <1>2, Counts
    <3>2. accepted \in {i + j, i + 1 + j}
      BY Zenon, <1>2, <3>1, Counts
    <3>3. accepted - i \in {j, j + 1} /\ accepted \in Nat
      BY <3>2
    <3>4. QED
      BY <1>2, <3>1, <3>3
  <2>2. Holds(MailHeld, n, accepted) /\ Holds(MailHeld', n, accepted')
    BY <1>2, <2>1, MailHolds, MailHoldsNext
  <2>3. clients[Me] \in Client /\ clients \in [ClientSlots -> Client]
    BY MyQueue DEF WorkerInv, MyRegistry
  <2> HIDE DEF q, n
  <2>4. CASE Queued
    <3>1. /\ MailStatus = "open" /\ MailStatus' = "open"
          /\ Len(q) < MAX_OUTGOING_FRAMES /\ accepted' = accepted + 1
      <4>1. /\ ~clients[Me].outgoing_failed
            /\ clients'[Me].outgoing_failed = clients[Me].outgoing_failed
        BY <2>3, <2>4, MeIsASlot DEF Queued, Client, WorkerInv, MyRegistry
      <4>2. QED
        BY <1>2, <2>1, <2>4, <4>1 DEF Queued, MailStatus, q
    <3>2. Len(MailHeld) <= MAX_OUTGOING_FRAMES
      BY <2>1, <2>2, <3>1, ClientsAssumption DEF Holds
    <3>3. MailHeld' = Append(MailHeld, n + Len(MailHeld) + 1)
      <4> DEFINE h == MailHeld
                 g == Append(h, n + Len(h) + 1)
      <4>1. /\ h \in Seq(Nat) /\ Len(h) = accepted - n
            /\ \A k \in 1 .. Len(h) : h[k] = n + k
        BY <2>2 DEF Holds
      <4> HIDE DEF h
      <4>2. Len(h) \in Nat /\ n + Len(h) + 1 \in Nat
        BY <2>1, <4>1
      <4>3. /\ g \in Seq(Nat) /\ Len(g) = Len(h) + 1
            /\ \A k \in 1 .. Len(h) + 1 :
                  g[k] = IF k = Len(h) + 1 THEN n + Len(h) + 1 ELSE h[k]
        BY <4>1, <4>2
      <4> HIDE DEF g
      <4>4. Len(g) = (accepted + 1) - n
        BY <2>1, <4>1, <4>3
      <4>5. ASSUME NEW k \in 1 .. Len(g) PROVE g[k] = n + k
        <5>1. CASE k = Len(h) + 1
          <6>1. Len(h) + 1 \in 1 .. Len(h) + 1
            BY <4>2
          <6>2. g[Len(h) + 1] = n + Len(h) + 1
            BY <4>3, <6>1
          <6>3. QED
            BY <2>1, <4>2, <5>1, <6>2
        <5>2. CASE k # Len(h) + 1
          BY <4>1, <4>2, <4>3, <5>2
        <5>3. QED
          BY <5>1, <5>2
      <4>6. Holds(g, n, accepted + 1)
        BY <4>3, <4>4, <4>5 DEF Holds
      <4>7. accepted + 1 \in Nat /\ Holds(MailHeld', n, accepted + 1)
        BY <2>1, <2>2, <3>1
      <4>8. MailHeld' = g
        BY <2>1, <4>6, <4>7, HeldIsUnique
      <4>9. QED
        BY <4>8 DEF g, h
    <3>4. Box!Accept
      BY <2>1, <3>1, <3>2, <3>3 DEF Box!Accept, Box!NextFrame, n
    <3>5. QED
      BY <3>4 DEF Box!MailNext
  <2>5. CASE Overflowed
    <3>1. /\ MailStatus = "open" /\ MailStatus' = "sealed"
          /\ Len(q) >= MAX_OUTGOING_FRAMES /\ accepted' = accepted
      <4>1. ~clients[Me].outgoing_failed /\ clients'[Me].outgoing_failed
        BY <2>3, <2>5, MeIsASlot DEF Overflowed, Client, WorkerInv, MyRegistry
      <4>2. QED
        BY <1>2, <2>1, <2>5, <4>1 DEF Overflowed, MailStatus, q
    <3>2. Len(MailHeld) >= MAX_OUTGOING_FRAMES
      BY <2>1, <2>2, <3>1, ClientsAssumption DEF Holds
    <3>3. MailHeld' = MailHeld
      BY <2>1, <2>2, <3>1, HeldIsUnique
    <3>4. Box!Seal
      BY <2>1, <3>1, <3>2, <3>3 DEF Box!Seal, n
    <3>5. QED
      BY <3>4 DEF Box!MailNext
  <2>6. CASE NotQueued
    BY <1>2, <2>1, <2>6, Unseen DEF NotQueued
  <2>7. QED
    BY <2>4, <2>5, <2>6, QueueEffect DEF WorkerInv
<1>3. QED
  BY <1>1, <1>2

\* A frame that was written completely has been handed over.
LEMMA WriteMaps ==
    ASSUME WorkerInv, WorkerInv', WriteCompletes
    PROVE  Box!HandOver
<1>1. /\ pc = "write" /\ pc' = "read" /\ writing # 0
      /\ written' = Append(written, writing)
      /\ UNCHANGED <<clients, accepted>>
  BY DEF WriteCompletes, WriteAllowed, clientVars
<1>2. PICK n \in Nat, m \in Nat :
         n = Len(written) /\ m = Len(clients[Me].outgoing)
  BY <1>1, Counts
<1>3. Len(written') = n + 1 /\ accepted = n + 1 + m
  <2>1. Len(written') = n + 1
    BY <1>1, <1>2 DEF WorkerInv, WorkerTypes
  <2>2. accepted = n + 1 + m
    BY <1>1, <1>2, Counts
  <2>3. QED
    BY <2>1, <2>2
<1>4. /\ Holds(MailHeld, n, n + 1 + m)
      /\ Holds(MailHeld', n + 1, n + 1 + m)
  BY Zenon, <1>1, <1>2, <1>3, MailHolds, MailHoldsNext
<1> DEFINE h == MailHeld
<1>5. /\ h \in Seq(Nat) /\ Len(h) = m + 1
      /\ \A k \in 1 .. m + 1 : h[k] = n + k
  <2>1. (n + 1 + m) - n = m + 1
    OBVIOUS
  <2>2. QED
    BY <1>4, <2>1 DEF Holds
<1> HIDE DEF h
<1>6. /\ h # <<>> /\ Tail(h) \in Seq(Nat) /\ Len(Tail(h)) = m
      /\ \A k \in 1 .. m : Tail(h)[k] = h[k + 1]
      /\ Head(h) = h[1]
  BY <1>5
<1>7. Head(h) = n + 1
  BY <1>5, <1>6
<1>8. Holds(Tail(h), n + 1, n + 1 + m)
  <2>1. ASSUME NEW k \in 1 .. m PROVE Tail(h)[k] = n + 1 + k
    <3>1. k + 1 \in 1 .. m + 1
      OBVIOUS
    <3>2. Tail(h)[k] = h[k + 1] /\ h[k + 1] = n + (k + 1)
      BY <1>5, <1>6, <3>1
    <3>3. n + (k + 1) = n + 1 + k
      OBVIOUS
    <3>4. QED
      BY Zenon, <3>2, <3>3
  <2>2. m = (n + 1 + m) - (n + 1)
    OBVIOUS
  <2>3. QED
    BY <1>6, <2>1, <2>2 DEF Holds
<1>9. MailHeld' = Tail(h)
  <2>1. n + 1 \in Nat /\ n + 1 + m \in Nat
    OBVIOUS
  <2>2. QED
    BY Zenon, <1>4, <1>8, <2>1, HeldIsUnique
<1>10. MailStatus # "closed" /\ MailStatus' = MailStatus
  BY <1>1 DEF MailStatus
<1>11. QED
  BY <1>2, <1>3, <1>6, <1>7, <1>9, <1>10 DEF Box!HandOver, h

\* Every other call of the worker leaves the counts and the overflow mark as
\* they are, or removes the client.
LEMMA WorkerMaps ==
    ASSUME WorkerInv, WorkerInv', [WorkerNext]_workerVars
    PROVE  [Box!MailNext]_Box!mailVars
<1>1. CASE UNCHANGED workerVars
  BY <1>1 DEF workerVars, clientVars, localVars, Box!mailVars, MailStatus,
              MailHeld
<1>2. CASE OtherThread
  BY <1>2, QueueMaps DEF OtherThread, localVars
<1>3. CASE ReadFrame
  <2>1. CASE QueueForMe
    BY <1>3, <2>1, QueueMaps DEF ReadFrame
  <2>2. CASE UNCHANGED <<clientVars, wake, accepted>>
    BY <1>3, <2>2, Unseen DEF ReadFrame, clientVars
  <2>3. QED
    BY <1>3, <2>1, <2>2 DEF ReadFrame
<1>4. CASE WriteCompletes
  BY <1>4, WriteMaps DEF Box!MailNext
<1>5. CASE RemoveMe
  <2>1. Box!Close
    BY <1>5 DEF RemoveMe, localVars, Box!Close, MailStatus, MailHeld
  <2>2. QED
    BY <2>1 DEF Box!MailNext
<1>6. CASE Take
  <2>1. pc # "closed" /\ pc' # "closed" /\ UNCHANGED <<accepted, written>>
    BY <1>6 DEF Take, Returns
  <2>2. CASE take_outgoing_frame(MyId)
    <3>1. Popped /\ clients[Me] \in Client /\ clients \in [ClientSlots -> Client]
      BY <2>2, TakeEffect, MyQueue DEF WorkerInv, MyRegistry
    <3>2. clients'[Me].outgoing_failed = clients[Me].outgoing_failed
      BY <3>1, MeIsASlot DEF Popped, Client
    <3>3. QED
      BY <2>1, <3>2, Unseen
  <2>3. CASE UNCHANGED clients
    BY <2>1, <2>3, Unseen
  <2>4. QED
    BY <1>6, <2>2, <2>3 DEF Take, clientVars
<1>7. CASE \/ PeerSends \/ PeerReads \/ PeerCloses
  BY <1>7 DEF PeerSends, PeerReads, PeerCloses, clientVars, localVars,
     Box!mailVars, MailStatus, MailHeld
<1>8. CASE \/ ReadEventfd \/ CheckStatus \/ WriteWants \/ WriteFails
           \/ WriteSkipped \/ ReadPart \/ ReadQuit \/ ReadInvalid
           \/ ReadWantsInput \/ ReadWantsRoom \/ ReadEof \/ ReadFails
           \/ ReadSkipped \/ PollReturns
  <2>1. /\ pc # "closed" /\ pc' # "closed"
        /\ UNCHANGED <<clients, accepted, written>>
    BY <1>8 DEF ReadEventfd, CheckStatus, WriteWants, WriteFails,
       WriteSkipped, ReadPart, ReadQuit, ReadInvalid,
       ReadWantsInput, ReadWantsRoom, ReadEof,
       ReadFails, ReadSkipped, PollReturns, Returns, clientVars
  <2>2. QED
    BY <2>1, Unseen
<1>9. QED
  BY <1>1, <1>2, <1>3, <1>4, <1>5, <1>6, <1>7, <1>8
     DEF WorkerNext, WorkerStep

LEMMA MailStartsEmpty ==
    ASSUME WorkerInit
    PROVE  Box!MailInit
<1>1. WorkerInv /\ pc = "top" /\ written = <<>> /\ writing = 0 /\ accepted = 0
  BY Zenon, WorkerInitHasInv DEF WorkerInit
<1>2. Len(written) = 0
  BY <1>1
<1>3. MailHeld = <<>>
  <2>1. Holds(MailHeld, 0, 0)
    BY <1>1, <1>2, MailHolds
  <2>2. MailHeld \in Seq(Nat) /\ Len(MailHeld) = 0
    BY <2>1 DEF Holds
  <2>3. QED
    BY <2>2, EmptySeq
<1>4. ~clients[Me].outgoing_failed
  <2>1. clients[Me].ready
    BY Zenon, MeIsASlot DEF WorkerInit, FreeClient
  <2>2. QED
    BY <1>1, <2>1 DEF WorkerInv, MyRegistry
<1>5. QED
  BY <1>1, <1>2, <1>3, <1>4 DEF Box!MailInit, MailStatus

\* Towards the rest of the server the client's queue and its worker are a
\* bounded FIFO mailbox, for every queue limit and number of frames: each
\* accepted frame is handed over once and in order, and a frame is refused
\* only by a full mailbox, which is sealed by it (queue_frame_to_client_id,
\* take_outgoing_frame and the loop of run_client_worker).
THEOREM WorkerIsMailbox == WorkerSpec => Box!MailSpec
<1>1. WorkerInit => WorkerInv /\ Box!MailInit
  BY WorkerInitHasInv, MailStartsEmpty
<1>2. WorkerInv /\ [WorkerNext]_workerVars => WorkerInv'
  BY WorkerStepKeepsInv
<1>3. WorkerInv /\ WorkerInv' /\ [WorkerNext]_workerVars
         => [Box!MailNext]_Box!mailVars
  BY WorkerMaps
<1>4. QED
  BY <1>1, <1>2, <1>3, PTL DEF WorkerSpec, Box!MailSpec
=============================================================================
