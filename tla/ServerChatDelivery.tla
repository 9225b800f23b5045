------------------------- MODULE ServerChatDelivery -------------------------
(* The steps by which a chat thread handles a frame keep the invariant of   *)
(* the messages, and the invariant says how often each one was delivered.   *)
EXTENDS ServerChatMessages

\* Time limits of the provers for a step.
USE SMTT(6), ZenonT(20), SMTT(40)

-----------------------------------------------------------------------------
\* A handler that goes on queues at most its frame, as the outcome or as a
\* copy of the request it works on.
LEMMA HandlesKeepsMessages ==
    ASSUME ChatInv, ChatInv', MessagesInv, NEW c \in ChatConns, NEW pc,
           NEW frame, NEW target, NEW todo,
           Handles(c, pc, frame, target, todo)
    PROVE  /\ MessagesInv'
           /\ ~AllocationsFail /\ NothingLost => NothingLost'
<1>. TextsInv /\ OutcomesInv /\ RecipientsInv /\ CopiesInv
  BY DEF MessagesInv
\* The request the thread works on.
<1>1. /\ chats[c].pc \in Busy /\ chats[c].id \in ClientIds
      /\ chats[c].frame \in ChatFrames
  <2>1. chats[c].pc \in Busy
    BY DEF Handles, Works
  <2>2. QED
    BY <2>1, Working
<1>2. /\ LastText(c)[1] \in ClientIds
      /\ LastText(c)[2] \in 1 .. Len(requests[LastText(c)[1]])
      /\ RequestOf(LastText(c)) = LastRequest(c)
  <2>1. PICK id \in ClientIds, n \in Nat :
           /\ id = chats[c].id /\ n = Len(requests[id]) /\ n >= 1
    BY <1>1, Working, ChatAssumption
  <2>2. LastText(c) = <<id, n>> /\ LastRequest(c) = requests[id][n]
    BY <2>1 DEF LastText, LastRequest
  <2>3. LastText(c)[1] = id /\ LastText(c)[2] = n
    BY <2>2
  <2>4. RequestOf(LastText(c)) = LastRequest(c)
    BY <2>2 DEF RequestOf
  <2>5. LastText(c)[2] \in 1 .. Len(requests[LastText(c)[1]])
    BY <2>1, <2>3
  <2>6. LastText(c)[1] \in ClientIds
    BY Zenon, <2>1, <2>3
  <2>7. QED
    BY Zenon, <2>4, <2>5, <2>6
\* What a step of a handler leaves alone.
<1>3. /\ chats'[c].id = chats[c].id /\ chats'[c].pc = pc
      /\ chats'[c].todo = todo
      /\ \A d \in ChatConns \ {c} : chats'[d] = chats[d]
  <2>1. Goes(c, pc, frame, target, todo)
    BY DEF Handles, Works
  <2>2. QED
    BY <2>1 DEF Goes
<1>4. UNCHANGED <<logins, keys, requests>>
  BY DEF Handles, Works
<1>5. OwnersKept /\ Grows /\ LogsKept
  BY <1>4, HandlesKeepsInv, NothingQueued, SameLogs DEF ChatInv, OwnersKept
<1>6. \A d \in ChatConns : /\ LastText(d)' = LastText(d)
                           /\ LastRequest(d)' = LastRequest(d)
  BY <1>3, <1>4 DEF LastText, LastRequest
\* What a handler queues, and where.
<1>7. ASSUME ~UNCHANGED accepted
      PROVE  \E o \in ClientIds :
                /\ Added(o, chats[c].frame) /\ OutcomeOk(o, chats[c].frame)
                /\ pc \in Busy => chats[c].frame.type \notin Outcomes
                /\ IF chats[c].pc = "spread" THEN o = Head(chats[c].todo)
                   ELSE pc = "idle" /\ chats[c].frame.type # "broadcast"
  <2>1. PICK f \in ChatFrames : f = chats[c].frame
    BY <1>1
  <2>2. PICK r, text, to : /\ r = LastRequest(c).frame /\ text = LastText(c)
                           /\ to = chats[c].target
    BY Zenon
  <2>3. /\ Fits(chats[c].pc, f, to, r, text) /\ text[1] = chats[c].id
        /\ RequestOf(text).frame = r
    BY <1>1, <1>2, <2>1, <2>2, Working
  <2>4. CASE chats[c].pc = "send" /\ pc = "idle" /\ SendSucceeds(to, f)
    <3>1. Added(to, f) /\ to \in ClientIds
      BY <2>4, AddedFrame
    <3>2. to # INVALID_CLIENT_ID
      BY <3>1, ClientIdsAssumption
    <3>3. logins[to] = r.name /\ f.type \in Private /\ f.text = text
      BY <2>3, <2>4, <3>2 DEF Fits, Outcomes
    <3>4. OutcomeOk(to, f)
      BY <2>3, <3>3 DEF OutcomeOk, Private, Refusals
    <3>5. pc \notin Busy /\ f.type # "broadcast"
      BY <2>4, <3>3 DEF Busy, Private
    <3>6. QED
      BY <2>1, <2>4, <3>1, <3>4, <3>5
  <2>5. CASE /\ chats[c].pc = "reply" /\ pc = "idle"
             /\ SendSucceeds(chats[c].id, f)
    <3>1. Added(chats[c].id, f) /\ chats[c].id \in ClientIds
      BY <2>5, AddedFrame
    <3>2. /\ f.type \notin Private /\ f.type # "broadcast"
          /\ f.type \in Refusals => f.text = text
      BY <2>3, <2>5 DEF Fits, Outcomes
    <3>3. OutcomeOk(chats[c].id, f)
      BY <2>3, <3>2 DEF OutcomeOk
    <3>4. pc \notin Busy
      BY <2>5 DEF Busy
    <3>5. QED
      BY <2>1, <2>5, <3>1, <3>2, <3>3, <3>4
  <2>6. CASE chats[c].pc = "spread" /\ SendSucceeds(Head(chats[c].todo), f)
    <3>1. PICK o : o = Head(chats[c].todo)
      BY Zenon
    <3>2. Added(o, f) /\ o \in ClientIds
      BY <2>6, <3>1, AddedFrame
    <3>3. f.type = "broadcast"
      BY <2>3, <2>6 DEF Fits
    <3>4. OutcomeOk(o, f) /\ f.type \notin Outcomes
      BY <3>3 DEF OutcomeOk, Outcomes, Private, Refusals
    <3>5. QED
      BY <2>1, <2>6, <3>1, <3>2, <3>4
  <2>7. QED
    BY <1>7, <2>1, <2>2, <2>4, <2>5, <2>6 DEF Handles, Send, SendFails
<1>8. TextsInv' /\ OutcomesInv'
  <2>1. PICK f \in ChatFrames : f = chats[c].frame
    BY <1>1
  <2>2. /\ Fits(chats[c].pc, f, chats[c].target, LastRequest(c).frame,
                LastText(c))
        /\ LastText(c) # NoText /\ chats[c].pc \in Busy
        /\ LastText(c)[2] \in 1 .. Len(requests[LastText(c)[1]])
    BY <1>1, <1>2, <2>1, Working
  <2>3. TextOk(f)
    BY <2>2 DEF TextOk, Fits
  <2>4. Queued(f) /\ LogsKept
    BY <1>5, <2>1, HandlesKeepsInv
  <2>5. TextsInv'
    BY <2>3, <2>4, TextsKept
  <2>6. CASE UNCHANGED accepted
    <3>1. \A d \in ChatConns : chats'[d].pc \in Busy =>
             chats[d].pc \in Busy /\ LastText(d)' = LastText(d)
      BY <1>1, <1>3, <1>6
    <3>2. Grows
      BY <1>5
    <3>3. QED
      BY <2>4, <2>5, <2>6, <3>1, <3>2, OutcomesKept
  <2>7. CASE ~UNCHANGED accepted
    <3>1. PICK o \in ClientIds :
             /\ Added(o, f) /\ OutcomeOk(o, f)
             /\ pc \in Busy => f.type \notin Outcomes
      BY <1>7, <2>1, <2>7
    <3>2. /\ UNCHANGED <<logins, requests>> /\ chats'[c].id = chats[c].id
          /\ chats'[c].pc = pc
          /\ \A d \in ChatConns \ {c} : chats'[d] = chats[d]
      BY <1>3, <1>4
    <3>3. QED
      BY <2>1, <2>2, <2>5, <3>1, <3>2, OutcomesAdded
  <2>8. QED
    BY <2>6, <2>7
<1>9. RecipientsInv'
  <2>1. pc # "welcome"
    BY DEF Handles, Works, Busy
  <2>2. \A d \in ChatConns : chats'[d].pc = "welcome" =>
           chats[d].pc = "welcome" /\ chats'[d].id = chats[d].id
    BY <1>3, <2>1
  <2>3. Grows /\ requests' = requests
    BY <1>4, <1>5
  <2>4. \A id : Welcomed(id) => Welcomed(id)'
    BY <2>2, <2>3, WelcomedStays
  <2>5. QED
    BY <2>3, <2>4 DEF RecipientsInv
<1>10. CopiesInv'
  <2>1. /\ chats[c].pc \in Busy /\ chats'[c].pc = pc /\ chats'[c].todo = todo
        /\ \A d \in ChatConns \ {c} : chats'[d] = chats[d]
        /\ UNCHANGED requests /\ LogsKept
        /\ \A d \in ChatConns : /\ LastText(d)' = LastText(d)
                                /\ LastRequest(d)' = LastRequest(d)
        /\ RequestOf(LastText(c)) = LastRequest(c)
    BY <1>1, <1>2, <1>3, <1>4, <1>5, <1>6
  <2>2. pc = "spread" => chats[c].pc = "spread" /\ todo = Tail(chats[c].todo)
    BY DEF Handles
  <2>3. CASE UNCHANGED accepted
    <3>1. ASSUME NEW d \in ChatConns \ {c}, chats'[d].pc = "spread"
          PROVE  TodoOk(d)'
      BY <2>1, <2>3, <3>1, SameTodo DEF CopiesInv
    <3>2. pc = "spread" => TodoOk(c)'
      BY Zenon, <2>1, <2>2, <2>3, TodoTail DEF CopiesInv
    <3>3. \A d \in ChatConns : chats'[d].pc = "spread" => TodoOk(d)'
      BY <2>1, <3>1, <3>2
    <3>4. QED
      BY <2>1, <2>3, <3>3, CopiesKept
  <2>4. CASE ~UNCHANGED accepted
    <3>1. PICK f : f = chats[c].frame
      BY Zenon
    <3>2. PICK o \in ClientIds :
             /\ Added(o, f)
             /\ IF chats[c].pc = "spread" THEN o = Head(chats[c].todo)
                ELSE pc = "idle" /\ f.type # "broadcast"
      BY <1>7, <2>4, <3>1
    <3>3. ASSUME NEW d \in ChatConns \ {c}, chats'[d].pc = "spread"
          PROVE  TodoOk(d)'
      BY <2>1, <3>1, <3>2, <3>3, OtherTodo DEF CopiesInv
    <3>4. pc = "spread" => TodoOk(c)'
      BY Zenon, <2>1, <2>2, <3>1, <3>2, TodoTail DEF CopiesInv
    <3>5. \A d \in ChatConns : chats'[d].pc = "spread" => TodoOk(d)'
      BY <2>1, <3>3, <3>4
    <3>6. CopyOk(o, f) /\ (f.type = "broadcast" => ~Copied(o, f.text))
      <4>1. CASE chats[c].pc # "spread"
        BY <3>2, <4>1 DEF CopyOk
      <4>2. CASE chats[c].pc = "spread"
        <5>1. PICK t \in Seq(ClientIds) : t = chats[c].todo /\ t # <<>>
          BY <2>1, <4>2, Working DEF ChatInv, ChatTypeOK, ChatRecord
        <5>2. o = t[1] /\ 1 \in 1 .. Len(t)
          <6>1. Len(t) \in Nat \ {0}
            BY <5>1
          <6>2. Head(t) = t[1]
            BY <5>1
          <6>3. QED
            BY <3>2, <4>2, <5>1, <6>1, <6>2
        <5>3. PICK to, text : to = LastRequest(c).to /\ text = LastText(c)
          BY Zenon
        <5>4. Remain(t, to, text)
          BY <4>2, <5>1, <5>3 DEF CopiesInv, TodoOk
        <5>5. o \in to /\ ~Copied(o, text)
          BY <5>2, <5>4 DEF Remain
        <5>6. LastRequest(c).frame.type = "broadcast" /\ f.text = text
          BY <2>1, <3>1, <4>2, <5>3, Working DEF Fits
        <5>7. QED
          BY <2>1, <5>3, <5>5, <5>6 DEF CopyOk
      <4>3. QED
        BY <4>1, <4>2
    <3>7. QED
      BY <2>1, <3>2, <3>5, <3>6, CopiesAdded
  <2>5. QED
    BY <2>3, <2>4
<1>11. ASSUME ~AllocationsFail, NothingLost PROVE NothingLost'
  <2>. ~AllocationsFail /\ ToldInv /\ SpreadInv
    BY <1>11 DEF NothingLost
  <2>1. ToldInv'
    <3>1. /\ chats[c].pc \in Busy /\ chats'[c].pc = pc
          /\ chats'[c].id = chats[c].id /\ chats[c].frame \in ChatFrames
          /\ \A d \in ChatConns \ {c} : chats'[d] = chats[d]
          /\ UNCHANGED requests /\ OwnersKept
      BY <1>1, <1>3, <1>4, <1>5
    <3>2. PICK r, text, me : /\ r = LastRequest(c).frame /\ text = LastText(c)
                             /\ me = chats[c].id
      BY Zenon
    <3>3. PICK f \in ChatFrames :
             /\ f = chats[c].frame
             /\ Fits(chats[c].pc, f, chats[c].target, r, text)
      BY <3>1, <3>2, Working
    <3>4. ASSUME NEW t, Told(t) PROVE Told(t)'
      <4>1. CASE UNCHANGED accepted
        BY <3>4, <4>1, SameTold
      <4>2. CASE ~UNCHANGED accepted
        BY <1>7, <3>4, <4>2, AddedTold
      <4>3. QED
        BY <4>1, <4>2
    <3>5. ASSUME pc \notin Busy, r.type \in Messages, Served(me)'
          PROVE  Told(text)'
      <4>1. ASSUME NEW o, SendSucceeds(o, f), f.type \in Outcomes
            PROVE  Told(text)'
        <5>1. f.text = text
          BY <3>3, <4>1 DEF Fits
        <5>2. Added(o, f) /\ o \in ClientIds
          BY <4>1, AddedFrame
        <5>3. QED
          BY <4>1, <5>1, <5>2, AddedTold
      <4>2. CASE chats[c].pc = "send" /\ SendSucceeds(chats[c].target, f)
        BY <3>3, <4>1, <4>2 DEF Fits, Outcomes
      <4>3. CASE chats[c].pc = "reply" /\ Send(me, f)
        <5>1. f.type \in Outcomes
          BY <3>3, <3>5, <4>3 DEF Fits, Outcomes
        <5>2. ~SendFails(me)
          BY <3>5, Unreached
        <5>3. QED
          BY <4>1, <4>3, <5>1, <5>2 DEF Send
      <4>4. chats[c].pc # "spread"
        BY <3>3, <3>5 DEF Fits, Messages
      <4>5. QED
        BY <3>3, <3>5, <3>2, <4>2, <4>3, <4>4 DEF Handles
    <3>6. ASSUME NEW id \in ClientIds, NEW n \in 1 .. Len(requests[id]),
                 requests[id][n].frame.type \in Messages,
                 ~Unfinished(id, n)', Served(id)'
          PROVE  Told(<<id, n>>)'
      <4>1. Served(id)
        BY <3>1, <3>6, ServedKept
      <4>2. CASE ~Unfinished(id, n)
        BY <3>4, <3>6, <4>1, <4>2 DEF ToldInv
      <4>3. CASE Unfinished(id, n)
        <5>1. PICK d \in ChatConns : /\ chats[d].id = id /\ chats[d].pc \in Busy
                                     /\ n = Len(requests[id])
          BY <4>3 DEF Unfinished
        <5>2. d = c /\ pc \notin Busy
          BY <3>1, <3>6, <5>1 DEF Unfinished
        <5>3. text = <<id, n>> /\ r = requests[id][n].frame /\ me = id
          BY <3>2, <5>1, <5>2 DEF LastText, LastRequest
        <5>4. QED
          BY <3>5, <3>6, <5>1, <5>2, <5>3
      <4>4. QED
        BY <4>2, <4>3
    <3>7. QED
      BY <3>1, <3>6 DEF ToldInv
  <2>2. SpreadInv'
    <3>1. /\ chats'[c].pc = pc /\ chats'[c].todo = todo
          /\ chats'[c].id = chats[c].id
          /\ \A d \in ChatConns \ {c} : chats'[d] = chats[d]
          /\ UNCHANGED requests /\ OwnersKept
      BY <1>3, <1>4, <1>5
    <3>2. ASSUME NEW id \in ClientIds, NEW t, Copied(id, t) PROVE Copied(id, t)'
      <4>1. CASE UNCHANGED accepted
        BY <3>2, <4>1, SameCopies
      <4>2. CASE ~UNCHANGED accepted
        BY <1>7, <3>2, <4>2, AddedCopy
      <4>3. QED
        BY <4>1, <4>2
    <3>3. ASSUME NEW id \in ClientIds, NEW n \in 1 .. Len(requests[id]),
                 requests[id][n].frame.type = "broadcast",
                 NEW other \in requests[id][n].to,
                 Served(other)', ~Awaited(id, n, other)'
          PROVE  Copied(other, <<id, n>>)'
      <4>1. Served(other) /\ other \in ClientIds
        BY <3>1, <3>3, ServedKept DEF RecipientsInv, Welcomed
      <4>2. CASE ~Awaited(id, n, other)
        BY <3>2, <3>3, <4>1, <4>2 DEF SpreadInv
      <4>3. CASE Awaited(id, n, other)
        <5>1. PICK d \in ChatConns :
                 /\ chats[d].id = id /\ chats[d].pc = "spread"
                 /\ n = Len(requests[id])
                 /\ \E k \in 1 .. Len(chats[d].todo) : chats[d].todo[k] = other
          BY <4>3 DEF Awaited
        <5>2. d = c
          BY <3>1, <3>3, <5>1 DEF Awaited
        <5>3. ~(pc = "spread" /\ \E j \in 1 .. Len(todo) : todo[j] = other)
          BY <3>1, <3>3, <5>1, <5>2 DEF Awaited
        <5>4. PICK text : text = <<id, n>> /\ text = LastText(c)
          BY Zenon, <5>1, <5>2 DEF LastText
        <5>5. PICK k \in 1 .. Len(chats[c].todo) : other = chats[c].todo[k]
          BY <5>1, <5>2
        <5>6. \/ Copied(other, text)' \/ ~Served(other)'
              \/ pc = "spread" /\ \E j \in 1 .. Len(todo) : todo[j] = other
          BY <4>1, <5>1, <5>2, <5>4, <5>5, Reaches
        <5>7. QED
          BY <3>3, <5>3, <5>4, <5>6
      <4>4. QED
        BY <4>2, <4>3
    <3>4. QED
      BY <3>1, <3>3 DEF SpreadInv
  <2>3. QED
    BY <2>1, <2>2 DEF NothingLost
<1>12. QED
  BY <1>8, <1>9, <1>10, <1>11 DEF MessagesInv

LEMMA StepKeepsMessages ==
    ASSUME ChatInv, ChatInv', MessagesInv, NEW c \in ChatConns, ChatStep(c)
    PROVE  /\ MessagesInv'
           /\ ~AllocationsFail /\ NothingLost => NothingLost'
<1>1. CASE Connection(c)
  <2>1. Rests(c)
    BY <1>1, ConnectionRests
  <2>2. QED
    BY <2>1, RestsKeepsMessages
<1>2. CASE Proceed(c)
  <2>1. PICK pc, frame, target, todo : Handles(c, pc, frame, target, todo)
    BY <1>2, ProceedHandles
  <2>2. QED
    BY <2>1, HandlesKeepsMessages
<1>3. CASE \E r : RequestOk(r) /\ handle_client_frame(c, r)
  <2>1. PICK r : RequestOk(r) /\ handle_client_frame(c, r)
    BY <1>3
  <2>2. PICK to, pc, frame, target, todo :
           Hears(c, r, to, pc, frame, target, todo)
    BY <2>1, ReadHears
  <2>3. QED
    BY <2>2, HearsKeepsMessages
<1>4. QED
  BY <1>1, <1>2, <1>3 DEF ChatStep

LEMMA StutterKeepsMessages ==
    ASSUME ChatInv, MessagesInv, UNCHANGED chatVars
    PROVE  MessagesInv' /\ (NothingLost => NothingLost')
<1>1. UNCHANGED <<clients, next_client_id, chats, logins, keys, requests,
                  accepted>>
  BY DEF chatVars, clientVars, historyVars
<1>2. /\ TextsInv /\ OutcomesInv /\ RecipientsInv /\ CopiesInv
      /\ LogsKept /\ Grows
  BY <1>1, SameLogs, NothingQueued DEF MessagesInv, ChatInv
<1>3. NoFrame \in ChatFrames /\ Queued(NoFrame) /\ TextOk(NoFrame)
  BY <1>1, NoFrameFits DEF Queued, TextOk, Outcomes, Private, Refusals
<1>4. \A c \in ChatConns : /\ LastText(c)' = LastText(c)
                           /\ LastRequest(c)' = LastRequest(c)
  BY <1>1 DEF LastText, LastRequest
<1>5. TextsInv' /\ OutcomesInv'
  BY <1>1, <1>2, <1>3, <1>4, TextsKept, OutcomesKept
<1>6. RecipientsInv'
  BY <1>1, <1>2 DEF RecipientsInv, Welcomed
<1>7. CopiesInv'
  <2>1. \A c \in ChatConns : chats'[c].pc = "spread" => TodoOk(c)'
    BY <1>1, <1>2, <1>4, SameTodo DEF CopiesInv
  <2>2. QED
    BY <1>1, <1>2, <2>1, CopiesKept
<1>8. \A id : Served(id)' <=> Served(id)
  BY <1>1 DEF Served, ReadySlots, ActiveSlots
<1>9. \A id, n : Unfinished(id, n)' <=> Unfinished(id, n)
  BY <1>1 DEF Unfinished
<1>10. \A id, n, other : Awaited(id, n, other)' <=> Awaited(id, n, other)
  BY <1>1 DEF Awaited
<1>11. ToldInv => ToldInv'
  BY <1>1, <1>8, <1>9, SameTold DEF ToldInv
<1>12. SpreadInv => SpreadInv'
  BY <1>1, <1>8, <1>10, SameCopies DEF SpreadInv
<1>13. QED
  BY <1>5, <1>6, <1>7, <1>11, <1>12 DEF MessagesInv, NothingLost

LEMMA MessagesInvHolds ==
    ChatSpec => [](ChatInv /\ MessagesInv /\ (~AllocationsFail => NothingLost))
<1> DEFINE Inv == ChatInv /\ MessagesInv /\ (~AllocationsFail => NothingLost)
<1>1. ChatInit => Inv
  BY ChatInitHasInv, MessagesInit
<1>2. Inv /\ [ChatNext]_chatVars => Inv'
  <2>1. SUFFICES ASSUME Inv, [ChatNext]_chatVars PROVE Inv'
    OBVIOUS
  <2>2. CASE ChatNext
    BY <2>1, <2>2, ChatNextIsStep, ChatStepKeepsInv, StepKeepsMessages
  <2>3. CASE UNCHANGED chatVars
    BY <2>1, <2>3, ChatStutterKeepsInv, StutterKeepsMessages
  <2>4. QED
    BY <2>1, <2>2, <2>3
<1>3. QED
  BY <1>1, <1>2, PTL DEF ChatSpec

-----------------------------------------------------------------------------
(***************************************************************************)
(* From the invariants to what they say of the numbers of copies.          *)
(***************************************************************************)
LEMMA AtMostOne ==
    ASSUME NEW S, \A x, y \in S : x = y
    PROVE  Cardinality(S) = IF S = {} THEN 0 ELSE 1
<1>1. CASE S = {}
  BY <1>1, FS_EmptySet
<1>2. CASE S # {}
  <2>1. PICK x : S = {x}
    BY <1>2
  <2>2. QED
    BY <1>2, <2>1, FS_Singleton
<1>3. QED
  BY <1>1, <1>2

\* The frames of the given types that carry a text, if there is only one.
Carries(text, id, types) ==
    \E n \in 1 .. Len(accepted[id]) :
        accepted[id][n].text = text /\ accepted[id][n].type \in types

LEMMA OneOccurrence ==
    ASSUME NEW text, NEW id, NEW types,
           \A n, m \in 1 .. Len(accepted[id]) :
              /\ accepted[id][n].text = text /\ accepted[id][n].type \in types
              /\ accepted[id][m].text = text /\ accepted[id][m].type \in types
              => n = m
    PROVE  Occurrences(text, id, types) =
              IF Carries(text, id, types) THEN 1 ELSE 0
<1>1. PICK S : S = {n \in 1 .. Len(accepted[id]) :
                       /\ accepted[id][n].text = text
                       /\ accepted[id][n].type \in types}
  BY Zenon
<1>2. \A x, y \in S : x = y
  BY <1>1
<1>3. Cardinality(S) = IF S = {} THEN 0 ELSE 1
  BY <1>2, AtMostOne
<1>4. Occurrences(text, id, types) = Cardinality(S)
  BY <1>1 DEF Occurrences
<1>5. S # {} <=> Carries(text, id, types)
  BY <1>1 DEF Carries
<1>6. QED
  BY <1>3, <1>4, <1>5

LEMMA CopiesOfOne ==
    ASSUME MessagesInv, NEW id \in ClientIds, NEW n \in 1 .. Len(requests[id]),
           requests[id][n].frame.type = "broadcast", NEW other \in ClientIds,
           NEW copies, copies = Occurrences(<<id, n>>, other, {"broadcast"})
    PROVE  /\ copies = IF Copied(other, <<id, n>>) THEN 1 ELSE 0
           /\ copies = 1 => other \in requests[id][n].to \ {id}
<1>1. PICK text : text = <<id, n>>
  BY Zenon
<1>2. copies = IF Carries(text, other, {"broadcast"}) THEN 1 ELSE 0
  <2>1. \A k, m \in 1 .. Len(accepted[other]) :
           /\ accepted[other][k].text = text
           /\ accepted[other][k].type \in {"broadcast"}
           /\ accepted[other][m].text = text
           /\ accepted[other][m].type \in {"broadcast"}
           => k = m
    BY DEF MessagesInv, CopiesInv
  <2>2. QED
    BY <1>1, <2>1, OneOccurrence
<1>3. copies = IF Copied(other, text) THEN 1 ELSE 0
  BY <1>2 DEF Copied, Carries
<1>4. ASSUME copies = 1 PROVE other \in requests[id][n].to \ {id}
  <2>1. PICK m \in 1 .. Len(accepted[other]) :
           /\ accepted[other][m].text = text
           /\ accepted[other][m].type = "broadcast"
    BY <1>3, <1>4 DEF Copied
  <2>2. CopyOk(other, accepted[other][m])
    BY DEF MessagesInv, CopiesInv
  <2>3. text[1] = id /\ text[2] = n
    BY <1>1
  <2>4. other \in requests[id][n].to
    BY <2>1, <2>2, <2>3 DEF CopyOk, RequestOf
  <2>5. QED
    BY <2>4 DEF MessagesInv, RecipientsInv
<1>5. QED
  BY <1>1, <1>3, <1>4

LEMMA BroadcastsComplete ==
    ASSUME MessagesInv, NothingLost
    PROVE  BroadcastComplete
<1>1. ASSUME NEW id \in ClientIds, NEW n \in 1 .. Len(requests[id]),
             requests[id][n].frame.type = "broadcast", NEW other \in ClientIds,
             NEW copies, copies = Occurrences(<<id, n>>, other, {"broadcast"})
      PROVE  /\ copies <= 1
             /\ copies = 1 => other \in requests[id][n].to \ {id}
             /\ Handled(id, n) /\ other \in requests[id][n].to /\ Served(other)
                => copies = 1
  <2>1. /\ copies = IF Copied(other, <<id, n>>) THEN 1 ELSE 0
        /\ copies = 1 => other \in requests[id][n].to \ {id}
    BY <1>1, CopiesOfOne
  <2>2. ASSUME Handled(id, n) PROVE ~Awaited(id, n, other)
    <3>1. SUFFICES ASSUME Awaited(id, n, other) PROVE FALSE
      OBVIOUS
    <3>2. PICK c \in ChatConns : /\ chats[c].id = id /\ chats[c].pc = "spread"
                                 /\ n = Len(requests[id])
      BY <3>1 DEF Awaited
    <3>3. ~(n < Len(requests[id]))
      BY <3>2
    <3>4. QED
      BY <2>2, <3>2, <3>3 DEF Handled
  <2>3. Handled(id, n) /\ other \in requests[id][n].to /\ Served(other)
           => Copied(other, <<id, n>>)
    BY <1>1, <2>2 DEF NothingLost, SpreadInv
  <2>4. QED
    BY <2>1, <2>3
<1>2. QED
  BY Zenon, <1>1 DEF BroadcastComplete

\* The clients for which a message was queued.
Reached(text) ==
    {other \in ClientIds : Occurrences(text, other, Private) > 0}

\* The outcome of a message: at most one, for the addressee or the sender.
LEMMA OutcomeOfOne ==
    ASSUME MessagesInv, NEW id \in ClientIds, NEW n \in 1 .. Len(requests[id]),
           NEW text, text = <<id, n>>,
           NEW told, told = Occurrences(text, id, Refusals),
           NEW reached, reached = Reached(text)
    PROVE  /\ Cardinality(reached) + told = IF Told(text) THEN 1 ELSE 0
           /\ \A other \in reached : logins[other] = requests[id][n].frame.name
<1>1. OutcomesInv /\ Private \subseteq Outcomes /\ Refusals \subseteq Outcomes
  BY DEF MessagesInv, Outcomes
<1>2. ASSUME NEW other \in ClientIds, NEW types, types \subseteq Outcomes
      PROVE  Occurrences(text, other, types) =
                IF Carries(text, other, types) THEN 1 ELSE 0
  <2>1. \A k, m \in 1 .. Len(accepted[other]) :
           /\ accepted[other][k].text = text /\ accepted[other][k].type \in types
           /\ accepted[other][m].text = text /\ accepted[other][m].type \in types
           => k = m
    BY <1>1, <1>2 DEF OutcomesInv
  <2>2. QED
    BY <2>1, OneOccurrence
<1>3. \A other : other \in reached <=>
                    other \in ClientIds /\ Carries(text, other, Private)
  <2>1. \A other \in ClientIds : Occurrences(text, other, Private) =
           IF Carries(text, other, Private) THEN 1 ELSE 0
    BY Zenon, <1>1, <1>2
  <2>2. QED
    BY <2>1 DEF Reached
<1>4. told = IF Carries(text, id, Refusals) THEN 1 ELSE 0
  BY Zenon, <1>1, <1>2
<1>5. ASSUME NEW x \in reached, NEW y \in reached PROVE x = y
  <2>1. x \in ClientIds /\ y \in ClientIds
    BY <1>3
  <2>2. PICK k \in 1 .. Len(accepted[x]) :
           accepted[x][k].text = text /\ accepted[x][k].type \in Private
    BY Zenon, <1>3 DEF Carries
  <2>3. PICK m \in 1 .. Len(accepted[y]) :
           accepted[y][m].text = text /\ accepted[y][m].type \in Private
    BY Zenon, <1>3 DEF Carries
  <2>4. QED
    BY Zenon, <1>1, <2>1, <2>2, <2>3 DEF OutcomesInv
<1>6. Cardinality(reached) = IF reached = {} THEN 0 ELSE 1
  BY <1>5, AtMostOne
<1>7. ASSUME reached # {}, told = 1 PROVE FALSE
  <2>1. PICK other \in ClientIds : Carries(text, other, Private)
    BY <1>3, <1>7
  <2>2. PICK m \in 1 .. Len(accepted[other]) :
           /\ accepted[other][m].text = text
           /\ accepted[other][m].type \in Private
    BY <2>1 DEF Carries
  <2>3. PICK k \in 1 .. Len(accepted[id]) :
           /\ accepted[id][k].text = text
           /\ accepted[id][k].type \in Refusals
    BY <1>4, <1>7 DEF Carries
  <2>4. other = id /\ k = m
    BY <1>1, <2>2, <2>3 DEF OutcomesInv
  <2>5. QED
    BY <2>2, <2>3, <2>4 DEF Private, Refusals
<1>8. text[1] = id /\ text[2] = n
  OBVIOUS
<1>9. Told(text) <=> reached # {} \/ told = 1
  <2>1. ASSUME Told(text) PROVE reached # {} \/ told = 1
    <3>1. PICK other \in ClientIds : \E m \in 1 .. Len(accepted[other]) :
             /\ accepted[other][m].type \in Outcomes
             /\ accepted[other][m].text = text
      BY <2>1 DEF Told
    <3>2. PICK m \in 1 .. Len(accepted[other]) :
             /\ accepted[other][m].type \in Outcomes
             /\ accepted[other][m].text = text
      BY <3>1
    <3>3. CASE accepted[other][m].type \in Private
      BY <1>3, <3>2, <3>3 DEF Carries
    <3>4. CASE accepted[other][m].type \in Refusals
      <4>1. OutcomeOk(other, accepted[other][m])
        BY <1>1 DEF OutcomesInv
      <4>2. other = id
        BY <1>8, <3>2, <3>4, <4>1 DEF OutcomeOk
      <4>3. QED
        BY <1>4, <3>2, <3>4, <4>2 DEF Carries
    <3>5. QED
      BY <3>2, <3>3, <3>4 DEF Outcomes
  <2>2. ASSUME reached # {} PROVE Told(text)
    BY Zenon, <1>1, <1>3, <2>2 DEF Told, Carries
  <2>3. ASSUME told = 1 PROVE Told(text)
    BY <1>1, <1>4, <2>3 DEF Told, Carries
  <2>4. QED
    BY <2>1, <2>2, <2>3
<1>10. Cardinality(reached) + told = IF Told(text) THEN 1 ELSE 0
  BY <1>4, <1>6, <1>7, <1>9
<1>11. ASSUME NEW other \in reached
       PROVE  logins[other] = requests[id][n].frame.name
  <2>1. PICK m \in 1 .. Len(accepted[other]) :
           /\ accepted[other][m].text = text
           /\ accepted[other][m].type \in Private
    BY Zenon, <1>3 DEF Carries
  <2>2. OutcomeOk(other, accepted[other][m])
    BY <1>1, <1>3 DEF OutcomesInv
  <2>3. QED
    BY <1>8, <2>1, <2>2 DEF OutcomeOk, RequestOf
<1>12. QED
  BY <1>10, <1>11

LEMMA MessagesAccounted ==
    ASSUME MessagesInv, NothingLost
    PROVE  NoSilentLoss
<1>1. ASSUME NEW id \in ClientIds, NEW n \in 1 .. Len(requests[id]),
             requests[id][n].frame.type \in Messages,
             NEW text, text = <<id, n>>,
             NEW told, told = Occurrences(text, id, Refusals),
             NEW reached, reached = Reached(text)
      PROVE  /\ Cardinality(reached) + told <= 1
             /\ \A other \in reached :
                   logins[other] = requests[id][n].frame.name
             /\ Handled(id, n) /\ Served(id) => Cardinality(reached) + told = 1
  <2>1. /\ Cardinality(reached) + told = IF Told(text) THEN 1 ELSE 0
        /\ \A other \in reached : logins[other] = requests[id][n].frame.name
    BY <1>1, OutcomeOfOne
  <2>2. ASSUME Handled(id, n) PROVE ~Unfinished(id, n)
    <3>1. SUFFICES ASSUME Unfinished(id, n) PROVE FALSE
      OBVIOUS
    <3>2. PICK c \in ChatConns : /\ chats[c].id = id /\ chats[c].pc \in Busy
                                 /\ n = Len(requests[id])
      BY <3>1 DEF Unfinished
    <3>3. ~(n < Len(requests[id]))
      BY <3>2
    <3>4. QED
      BY <2>2, <3>2, <3>3 DEF Handled, Busy
  <2>3. Handled(id, n) /\ Served(id) => Told(text)
    BY <1>1, <2>2 DEF NothingLost, ToldInv
  <2>4. Cardinality(reached) + told <= 1
    BY <2>1
  <2>5. Handled(id, n) /\ Served(id) => Cardinality(reached) + told = 1
    BY <2>1, <2>3
  <2>6. QED
    BY <2>1, <2>4, <2>5
<1>2. QED
  BY <1>1 DEF NoSilentLoss, Messages, Reached, Private, Refusals

\* No message has two outcomes or reaches a client of another name, and no
\* broadcast is queued twice or for a client it was not meant for.
DeliveredOnce ==
    \A id \in ClientIds : \A n \in 1 .. Len(requests[id]) :
        LET request == requests[id][n].frame
            text == <<id, n>>
        IN  /\ Cardinality(Reached(text)) + Occurrences(text, id, Refusals) <= 1
            /\ \A other \in Reached(text) : logins[other] = request.name
            /\ request.type = "broadcast" => \A other \in ClientIds :
                  LET copies == Occurrences(text, other, {"broadcast"})
                  IN  copies <= 1 /\ (copies = 1 => other \in requests[id][n].to)

LEMMA MessagesOnce ==
    ASSUME MessagesInv
    PROVE  DeliveredOnce
<1>1. ASSUME NEW id \in ClientIds, NEW n \in 1 .. Len(requests[id]),
             NEW text, text = <<id, n>>,
             NEW told, told = Occurrences(text, id, Refusals),
             NEW reached, reached = Reached(text)
      PROVE  /\ Cardinality(reached) + told <= 1
             /\ \A other \in reached : logins[other] = requests[id][n].frame.name
  BY <1>1, OutcomeOfOne
<1>2. ASSUME NEW id \in ClientIds, NEW n \in 1 .. Len(requests[id]),
             requests[id][n].frame.type = "broadcast", NEW other \in ClientIds,
             NEW copies, copies = Occurrences(<<id, n>>, other, {"broadcast"})
      PROVE  copies <= 1 /\ (copies = 1 => other \in requests[id][n].to)
  BY <1>2, CopiesOfOne
<1>3. QED
  BY <1>1, <1>2 DEF DeliveredOnce

-----------------------------------------------------------------------------
\* Whatever the threads do, and even when a copy of a frame cannot be allocated,
\* no message is delivered twice, to a client of another name, or both delivered
\* and refused, and no broadcast reaches a client twice.
THEOREM NothingDeliveredTwice == ChatSpec => []DeliveredOnce
<1>1. MessagesInv => DeliveredOnce
  BY MessagesOnce
<1>2. QED
  BY <1>1, MessagesInvHolds, PTL

\* While copies of a frame can be allocated, a broadcast is queued exactly once
\* for every client that send_message_to_all_clients was to reach and that is
\* still served, however its calls interleave with logins, logouts and
\* overflows.
THEOREM BroadcastsReachAll ==
    ASSUME ~AllocationsFail
    PROVE  ChatSpec => []BroadcastComplete
<1>1. MessagesInv /\ (~AllocationsFail => NothingLost) => BroadcastComplete
  BY BroadcastsComplete
<1>2. QED
  BY <1>1, MessagesInvHolds, PTL

\* While copies of a frame can be allocated, every private message that was
\* handled is queued for a client of the name it was addressed to or reported
\* to its sender, never both, unless the sender itself is no longer served:
\* the recipient may log out between find_client_id and the send.
THEOREM MessagesNeverVanish ==
    ASSUME ~AllocationsFail
    PROVE  ChatSpec => []NoSilentLoss
<1>1. MessagesInv /\ (~AllocationsFail => NothingLost) => NoSilentLoss
  BY MessagesAccounted
<1>2. QED
  BY <1>1, MessagesInvHolds, PTL
=============================================================================
