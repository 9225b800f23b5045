------------------------- MODULE ServerChatMessages -------------------------
(* What becomes of the messages that the chat threads handle: the invariant *)
(* of every outcome of a private message and of every copy of a broadcast,  *)
(* for any number of connections, clients and frames, and the steps by      *)
(* which a connection comes, goes and reads a frame.  Builds on the         *)
(* invariant of the threads (ChatInv) and on the shapes of their steps.     *)
EXTENDS ServerChatProofs

\* Time limits of the provers for a step.
USE SMTT(6), ZenonT(20), SMTT(40)

-----------------------------------------------------------------------------
(***************************************************************************)
(* What becomes of the messages.  A request is known by its text, and its  *)
(* outcomes are the frames queued on its behalf.                           *)
(***************************************************************************)
RequestOf(text) == requests[text[1]][text[2]]

TextOk(f) ==
    /\ f.type \in Outcomes \union {"broadcast"} => f.text # NoText
    /\ f.text # NoText => f.text[2] \in 1 .. Len(requests[f.text[1]])

TextsInv ==
    \A id \in ClientIds : \A n \in 1 .. Len(accepted[id]) :
        TextOk(accepted[id][n])

\* A message has one outcome: it reaches a client of the name that it is for,
\* or its sender is told.
OutcomeOk(id, f) ==
    /\ f.type \in Private => logins[id] = RequestOf(f.text).frame.name
    /\ f.type \in Refusals => id = f.text[1]

OutcomesInv ==
    /\ \A id, other \in ClientIds :
       \A n \in 1 .. Len(accepted[id]), m \in 1 .. Len(accepted[other]) :
          /\ accepted[id][n].type \in Outcomes
          /\ accepted[other][m].type \in Outcomes
          /\ accepted[id][n].text = accepted[other][m].text
          => id = other /\ n = m
    /\ \A id \in ClientIds : \A n \in 1 .. Len(accepted[id]) :
          OutcomeOk(id, accepted[id][n])
    /\ \A id \in ClientIds : \A n \in 1 .. Len(accepted[id]) :
          accepted[id][n].type \in Outcomes =>
             \A c \in ChatConns :
                chats[c].pc \in Busy => accepted[id][n].text # LastText(c)

(***************************************************************************)
(* The log of requests only grows.                                         *)
(***************************************************************************)
LogsKept ==
    \A id \in ClientIds :
        /\ Len(requests[id]) \in Nat /\ Len(requests'[id]) \in Nat
        /\ Len(requests[id]) <= Len(requests'[id])
        /\ \A n \in 1 .. Len(requests[id]) : requests'[id][n] = requests[id][n]

LEMMA SameLogs ==
    ASSUME ChatTypeOK, UNCHANGED requests
    PROVE  LogsKept
BY SeqFacts DEF ChatTypeOK, LogsKept

LEMMA LongerLogs ==
    ASSUME ChatInv, NEW c \in ChatConns, NEW r, NEW to, Receives(c, r, to)
    PROVE  LogsKept
<1>1. PICK me \in ClientIds : me = chats[c].id
  BY Reading
<1>2. \A id \in ClientIds : Len(requests[id]) \in Nat
  BY SeqFacts DEF ChatInv, ChatTypeOK
<1>3. /\ \A id \in ClientIds \ {me} : requests'[id] = requests[id]
      /\ Len(requests'[me]) = Len(requests[me]) + 1
      /\ \A n \in 1 .. Len(requests[me]) : requests'[me][n] = requests[me][n]
  BY Zenon, <1>1, LogGrows
<1>4. QED
  BY <1>2, <1>3 DEF LogsKept

LEMMA TextFields ==
    ASSUME NEW text \in Texts
    PROVE  /\ text[1] \in ClientIds /\ text[2] \in Nat
           /\ text = <<text[1], text[2]>>
<1>1. PICK S : S = UNION {1 .. MaxRequests[d] : d \in ChatConns}
  BY Zenon
<1>2. text \in ClientIds \X S
  BY Zenon, <1>1 DEF Texts
<1>3. \A n \in S : n \in Nat
  BY <1>1
<1>4. QED
  BY <1>2, <1>3

LEMMA RequestKept ==
    ASSUME LogsKept, NEW text \in Texts,
           text[2] \in 1 .. Len(requests[text[1]])
    PROVE  /\ text[2] \in 1 .. Len(requests'[text[1]])
           /\ RequestOf(text)' = RequestOf(text)
<1>1. PICK id \in ClientIds, n \in Nat : id = text[1] /\ n = text[2]
  BY TextFields
<1>2. n \in 1 .. Len(requests[id])
  BY <1>1
<1>3. /\ n \in 1 .. Len(requests'[id])
      /\ requests'[id][n] = requests[id][n]
  BY <1>2 DEF LogsKept
<1>4. QED
  BY <1>1, <1>3 DEF RequestOf

LEMMA TextsKept ==
    ASSUME ChatInv, TextsInv, LogsKept, NEW frame \in ChatFrames,
           Queued(frame), TextOk(frame)
    PROVE  TextsInv'
<1>1. ASSUME NEW f \in ChatFrames, TextOk(f) PROVE TextOk(f)'
  <2>1. CASE f.text = NoText
    BY <1>1, <2>1 DEF TextOk
  <2>2. CASE f.text # NoText
    <3>1. f.text \in Texts
      BY <2>2 DEF ChatFrames
    <3>2. f.text[2] \in 1 .. Len(requests[f.text[1]])
      BY <1>1, <2>2 DEF TextOk
    <3>3. f.text[2] \in 1 .. Len(requests'[f.text[1]])
      BY <3>1, <3>2, RequestKept
    <3>4. QED
      BY <2>2, <3>3 DEF TextOk
  <2>3. QED
    BY <2>1, <2>2
<1>2. accepted \in [ClientIds -> Seq(ChatFrames)] /\ ChatTypeOK
  BY DEF ChatInv, ChatTypeOK
<1>3. ASSUME NEW id \in ClientIds, NEW n \in 1 .. Len(accepted'[id])
      PROVE  TextOk(accepted[id][n])'
  <2>1. PICK f \in ChatFrames : f = accepted'[id][n] /\ TextOk(f)
    BY <1>2, <1>3, AcceptedGrows DEF TextsInv
  <2>2. TextOk(f)'
    BY <1>1, <2>1
  <2>3. QED
    BY <2>1, <2>2 DEF TextOk
<1>4. QED
  BY <1>3 DEF TextsInv
(***************************************************************************)
(* Nothing is added to what was queued, or one frame is.                   *)
(***************************************************************************)
Added(o, f) ==
    /\ \A id \in ClientIds : Len(accepted[id]) \in Nat
    /\ \A id \in ClientIds \ {o} : accepted'[id] = accepted[id]
    /\ Len(accepted'[o]) = Len(accepted[o]) + 1
    /\ accepted'[o][Len(accepted[o]) + 1] = f
    /\ \A n \in 1 .. Len(accepted[o]) : accepted'[o][n] = accepted[o][n]

LEMMA AddedFrame ==
    ASSUME ChatInv, NEW o, NEW f \in ChatFrames, SendSucceeds(o, f)
    PROVE  Added(o, f) /\ o \in ClientIds /\ o < next_client_id
<1>1. /\ o \in ClientIds /\ o < next_client_id
      /\ accepted' = [accepted EXCEPT ![o] = Append(@, f)]
  BY SendResult DEF Send
<1>2. accepted \in [ClientIds -> Seq(ChatFrames)]
  BY DEF ChatInv, ChatTypeOK
<1>3. PICK s \in Seq(ChatFrames) : s = accepted[o]
  BY <1>1, <1>2
<1>4. PICK t : t = Append(s, f)
  BY Zenon
<1>5. accepted' = [accepted EXCEPT ![o] = t]
  BY <1>1, <1>2, <1>3, <1>4
<1>6. /\ Len(s) \in Nat /\ Len(t) = Len(s) + 1 /\ t[Len(s) + 1] = f
      /\ \A n \in 1 .. Len(s) : t[n] = s[n]
  BY <1>4
<1>7. \A id \in ClientIds : Len(accepted[id]) \in Nat
  BY <1>2
<1>8. QED
  BY <1>1, <1>2, <1>3, <1>5, <1>6, <1>7 DEF Added

\* A text that is already the text of a queued frame is of an old request.
LEMMA QueuedTextIsOld ==
    ASSUME ChatInv, TextsInv, NEW id \in ClientIds,
           NEW n \in 1 .. Len(accepted[id]),
           accepted[id][n].type \in Outcomes \union {"broadcast"}
    PROVE  /\ accepted[id][n].text \in Texts /\ id < next_client_id
           /\ accepted[id][n].text[2]
                 \in 1 .. Len(requests[accepted[id][n].text[1]])
<1>1. PICK s \in Seq(ChatFrames) : s = accepted[id]
  BY DEF ChatInv, ChatTypeOK
<1>2. PICK f \in ChatFrames : f = accepted[id][n]
  BY <1>1
<1>3. TextOk(f)
  BY <1>2 DEF TextsInv
<1>4. f.text \in Texts /\ f.text[2] \in 1 .. Len(requests[f.text[1]])
  BY <1>2, <1>3 DEF TextOk, ChatFrames
<1>5. accepted[id] # <<>>
  OBVIOUS
<1>6. id < next_client_id
  BY <1>5, ClientIdsAssumption
     DEF ChatInv, HistoryInv, ClientsInv, ClientsTypeOK
<1>7. QED
  BY <1>2, <1>4, <1>6

\* Handlers that have not sent yet, or that have just begun.
LEMMA OutcomesKept ==
    ASSUME ChatInv, TextsInv, OutcomesInv, LogsKept, Grows, UNCHANGED accepted,
           \A c \in ChatConns : chats'[c].pc \in Busy =>
              \/ chats[c].pc \in Busy /\ LastText(c)' = LastText(c)
              \/ ~ LastText(c)'[2] \in 1 .. Len(requests[LastText(c)'[1]])
    PROVE  OutcomesInv'
<1>1. ASSUME NEW id \in ClientIds, NEW n \in 1 .. Len(accepted[id])
      PROVE  OutcomeOk(id, accepted[id][n])'
  <2>1. PICK f : f = accepted[id][n]
    BY Zenon
  <2>2. CASE f.type \in Outcomes
    <3>1. /\ f.text \in Texts /\ id < next_client_id
          /\ f.text[2] \in 1 .. Len(requests[f.text[1]])
      BY <2>1, <2>2, QueuedTextIsOld
    <3>2. RequestOf(f.text)' = RequestOf(f.text) /\ logins'[id] = logins[id]
      BY <3>1, RequestKept DEF Grows
    <3>3. OutcomeOk(id, f)
      BY <2>1 DEF OutcomesInv
    <3>4. QED
      BY <2>1, <3>2, <3>3 DEF OutcomeOk
  <2>3. CASE f.type \notin Outcomes
    BY <2>1, <2>3 DEF OutcomeOk, Outcomes
  <2>4. QED
    BY <2>2, <2>3
<1>2. ASSUME NEW id \in ClientIds, NEW n \in 1 .. Len(accepted[id]),
             accepted[id][n].type \in Outcomes, NEW c \in ChatConns,
             chats'[c].pc \in Busy
      PROVE  accepted[id][n].text # LastText(c)'
  <2>1. CASE chats[c].pc \in Busy /\ LastText(c)' = LastText(c)
    BY <1>2, <2>1 DEF OutcomesInv
  <2>2. CASE ~ LastText(c)'[2] \in 1 .. Len(requests[LastText(c)'[1]])
    BY <1>2, <2>2, QueuedTextIsOld
  <2>3. QED
    BY <1>2, <2>1, <2>2
<1>3. \A id, other \in ClientIds :
      \A n \in 1 .. Len(accepted[id]), m \in 1 .. Len(accepted[other]) :
         /\ accepted[id][n].type \in Outcomes
         /\ accepted[other][m].type \in Outcomes
         /\ accepted[id][n].text = accepted[other][m].text
         => id = other /\ n = m
  BY DEF OutcomesInv
<1>4. QED
  BY <1>1, <1>2, <1>3 DEF OutcomesInv

LEMMA AddedPlaces ==
    ASSUME NEW o \in ClientIds, NEW f, Added(o, f), NEW id \in ClientIds,
           NEW n \in 1 .. Len(accepted'[id])
    PROVE  \/ n \in 1 .. Len(accepted[id]) /\ accepted'[id][n] = accepted[id][n]
           \/ id = o /\ n = Len(accepted[o]) + 1 /\ accepted'[id][n] = f
<1>1. CASE id # o
  BY <1>1 DEF Added
<1>2. CASE id = o
  <2>1. n \in 1 .. Len(accepted[o]) + 1 /\ Len(accepted[o]) \in Nat
    BY <1>2 DEF Added
  <2>2. n \in 1 .. Len(accepted[o]) \/ n = Len(accepted[o]) + 1
    BY <2>1
  <2>3. QED
    BY <1>2, <2>2 DEF Added
<1>3. QED
  BY <1>1, <1>2

\* Texts that two handlers work on differ.
LEMMA OtherText ==
    ASSUME ChatInv, NEW c \in ChatConns, NEW d \in ChatConns \ {c},
           chats[c].pc # "new"
    PROVE  LastText(d) # LastText(c)
<1>1. chats[d].id # chats[c].id
  BY OwnId
<1>2. QED
  BY <1>1 DEF LastText

\* A handler adds an outcome and is done.
LEMMA OutcomesAdded ==
    ASSUME ChatInv, OutcomesInv, NEW c \in ChatConns,
           chats[c].pc \in Busy, NEW o \in ClientIds, NEW f, f = chats[c].frame,
           Added(o, f), UNCHANGED <<logins, requests>>, OutcomeOk(o, f),
           \A d \in ChatConns \ {c} : chats'[d] = chats[d],
           chats'[c].id = chats[c].id,
           chats'[c].pc \in Busy => f.type \notin Outcomes
    PROVE  OutcomesInv'
<1>1. f.type \in Outcomes => f.text = LastText(c)
  BY Working DEF Fits
<1>2. /\ \A d \in ChatConns : LastText(d)' = LastText(d)
      /\ \A d \in ChatConns \ {c} : LastText(d) # LastText(c)
  BY OtherText DEF LastText, Busy
<1>3. ASSUME NEW id \in ClientIds, NEW other \in ClientIds,
             NEW n \in 1 .. Len(accepted'[id]),
             NEW m \in 1 .. Len(accepted'[other]),
             accepted'[id][n].type \in Outcomes,
             accepted'[other][m].type \in Outcomes,
             accepted'[id][n].text = accepted'[other][m].text
      PROVE  id = other /\ n = m
  <2>1. /\ \/ n \in 1 .. Len(accepted[id]) /\ accepted'[id][n] = accepted[id][n]
           \/ id = o /\ n = Len(accepted[o]) + 1 /\ accepted'[id][n] = f
        /\ \/ /\ m \in 1 .. Len(accepted[other])
              /\ accepted'[other][m] = accepted[other][m]
           \/ other = o /\ m = Len(accepted[o]) + 1 /\ accepted'[other][m] = f
    BY AddedPlaces
  <2>2. ASSUME NEW x \in ClientIds, NEW k \in 1 .. Len(accepted[x]),
               accepted[x][k].type \in Outcomes
        PROVE  accepted[x][k].text # LastText(c)
    BY <2>2 DEF OutcomesInv
  <2>3. CASE /\ n \in 1 .. Len(accepted[id])
             /\ accepted'[id][n] = accepted[id][n]
             /\ m \in 1 .. Len(accepted[other])
             /\ accepted'[other][m] = accepted[other][m]
    BY <1>3, <2>3 DEF OutcomesInv
  <2>4. QED
    BY Zenon, <1>1, <1>3, <2>1, <2>2, <2>3
<1>4. ASSUME NEW id \in ClientIds, NEW n \in 1 .. Len(accepted'[id])
      PROVE  OutcomeOk(id, accepted[id][n])'
  <2>1. PICK g : g = accepted'[id][n]
    BY Zenon
  <2>2. OutcomeOk(id, g)
    BY <2>1, AddedPlaces DEF OutcomesInv
  <2>3. QED
    BY Zenon, <2>1, <2>2 DEF OutcomeOk, RequestOf
<1>5. ASSUME NEW id \in ClientIds, NEW n \in 1 .. Len(accepted'[id]),
             accepted'[id][n].type \in Outcomes, NEW d \in ChatConns,
             chats'[d].pc \in Busy
      PROVE  accepted'[id][n].text # LastText(d)'
  <2>1. chats[d].pc \in Busy
    BY <1>5
  <2>2. CASE n \in 1 .. Len(accepted[id]) /\ accepted'[id][n] = accepted[id][n]
    BY <1>2, <1>5, <2>1, <2>2 DEF OutcomesInv
  <2>3. CASE accepted'[id][n] = f
    BY <1>1, <1>2, <1>5, <2>3
  <2>4. QED
    BY <2>2, <2>3, AddedPlaces
<1>6. QED
  BY <1>3, <1>4, <1>5 DEF OutcomesInv

-----------------------------------------------------------------------------
(***************************************************************************)
(* The shapes of a step, once more: a thread that handles nothing, one     *)
(* that receives a request, and one that handles it (Handles, above).      *)
(***************************************************************************)
Rests(c) ==
    /\ UNCHANGED <<requests, accepted>> /\ Grows
    /\ \A d \in ChatConns \ {c} : chats'[d] = chats[d]
    /\ chats[c].pc \notin Busy /\ chats'[c].pc \notin Busy
    /\ IF chats[c].pc = "new"
       THEN chats'[c].pc = "welcome" /\ chats'[c].id = next_client_id
       ELSE chats'[c].pc # "welcome" /\ chats'[c].id = chats[c].id
    /\ \A id \in ClientIds : Served(id)' =>
          Served(id) \/ (chats[c].pc = "welcome" /\ chats[c].id = id)

Hears(c, r, to, pc, frame, target, todo) ==
    /\ Receives(c, r, to) /\ Begins(c, r, to, pc, frame, target, todo)
    /\ OwnersKept /\ Grows

LEMMA ServedKept ==
    ASSUME OwnersKept, NEW id, Served(id)'
    PROVE  Served(id)
BY DEF OwnersKept, Served, ReadySlots, ActiveSlots

LEMMA ConnectionRests ==
    ASSUME ChatInv, NEW c \in ChatConns, Connection(c)
    PROVE  Rests(c)
<1>1. CASE \E name \in Usernames : Login(c, name)
  <2>1. PICK name \in Usernames : Login(c, name)
    BY <1>1
  <2>2. UNCHANGED <<requests, accepted>>
    BY <2>1 DEF Login
  <2>3. \A id \in ClientIds : Served(id)' => Served(id)
    BY <2>1, LoginKeepsInv DEF Served
  <2>4. /\ Grows /\ chats[c].pc = "new" /\ chats'[c].pc = "welcome"
        /\ chats'[c].id = next_client_id
        /\ \A d \in ChatConns \ {c} : chats'[d] = chats[d]
    BY <2>1, LoginKeepsInv
  <2>5. QED
    BY <2>2, <2>3, <2>4 DEF Rests, Busy
<1>2. CASE Welcome(c)
  <2>1. /\ chats[c].pc = "welcome" /\ UNCHANGED <<requests, accepted>>
        /\ UNCHANGED <<logins, keys, next_client_id>>
        /\ chats[c].slot \in ClientSlots
        /\ clients[chats[c].slot].id = chats[c].id
        /\ clients' = [clients EXCEPT ![chats[c].slot].ready = TRUE]
        /\ clients \in [ClientSlots -> Client]
    BY <1>2, OwnSlot DEF Welcome, activate_client, historyVars, Owning, ChatInv,
                         ClientsInv, ClientsTypeOK
  <2>2. Goes(c, "idle", NoFrame, INVALID_CLIENT_ID, <<>>) /\ Grows
    BY <1>2, <2>1, WelcomeKeepsInv, NothingQueued
  <2>3. ASSUME NEW id \in ClientIds, Served(id)', id # chats[c].id
        PROVE  Served(id)
    <3>1. /\ clients'[chats[c].slot].id = chats[c].id
          /\ \A i \in ClientSlots \ {chats[c].slot} : clients'[i] = clients[i]
      BY <2>1 DEF Client
    <3>2. QED
      BY <2>3, <3>1 DEF Served, ReadySlots, ActiveSlots
  <2>4. QED
    BY <2>1, <2>2, <2>3 DEF Rests, Goes, Busy
<1>3. CASE Deliver(c)
  <2>1. /\ chats[c].pc = "idle" /\ OwnersKept
        /\ UNCHANGED <<chats, logins, keys, requests, accepted, next_client_id>>
    BY <1>3, DeliverKeepsInv DEF Deliver, historyVars, OwnersKept
  <2>2. Grows
    BY <2>1, NothingQueued
  <2>3. QED
    BY <2>1, <2>2, ServedKept DEF Rests, Busy
<1>4. CASE Leave(c)
  <2>1. /\ chats[c].pc \in {"welcome", "idle", "leaving"}
        /\ UNCHANGED <<logins, keys, requests, accepted, next_client_id>>
        /\ clients' = [clients EXCEPT ![chats[c].slot] = FreeClient]
        /\ clients \in [ClientSlots -> Client]
    BY <1>4 DEF Leave, remove_client, historyVars, ChatInv, ClientsInv,
                ClientsTypeOK
  <2>2. Goes(c, "gone", NoFrame, INVALID_CLIENT_ID, <<>>) /\ Grows
    BY <1>4, <2>1, LeaveKeepsInv, NothingQueued
  <2>3. \A i \in ClientSlots : clients'[i].active => clients'[i] = clients[i]
    BY <2>1 DEF FreeClient
  <2>4. \A id \in ClientIds : Served(id)' => Served(id)
    BY <2>3 DEF Served, ReadySlots, ActiveSlots
  <2>5. QED
    BY <2>1, <2>2, <2>4 DEF Rests, Goes, Busy
<1>5. QED
  BY <1>1, <1>2, <1>3, <1>4 DEF Connection

LEMMA ReadHears ==
    ASSUME ChatInv, NEW c \in ChatConns, NEW r, RequestOk(r),
           handle_client_frame(c, r)
    PROVE  \E to, pc, frame, target, todo :
              Hears(c, r, to, pc, frame, target, todo)
BY HandlerBegins, ReadKeepsInv DEF Reads, Hears

-----------------------------------------------------------------------------
(***************************************************************************)
(* Broadcasts.  Recipients are clients that were ready, other than the     *)
(* sender; a copy goes to a recipient, once; and the recipients that the   *)
(* sender has yet to reach have no copy.                                   *)
(***************************************************************************)
Welcomed(id) ==
    /\ id \in ClientIds /\ id < next_client_id
    /\ \A c \in ChatConns : chats[c].pc = "welcome" => chats[c].id # id

RecipientsInv ==
    \A id \in ClientIds : \A n \in 1 .. Len(requests[id]) :
        requests[id][n].frame.type = "broadcast" =>
            \A other \in requests[id][n].to : other # id /\ Welcomed(other)

CopyOk(id, f) ==
    f.type = "broadcast" => /\ RequestOf(f.text).frame.type = "broadcast"
                            /\ id \in RequestOf(f.text).to

Copied(id, text) ==
    \E n \in 1 .. Len(accepted[id]) :
        accepted[id][n].type = "broadcast" /\ accepted[id][n].text = text

Remain(todo, to, text) ==
    /\ \A k \in 1 .. Len(todo) : todo[k] \in to /\ ~Copied(todo[k], text)
    /\ \A j, k \in 1 .. Len(todo) : todo[j] = todo[k] => j = k

TodoOk(c) == Remain(chats[c].todo, LastRequest(c).to, LastText(c))

CopiesInv ==
    /\ \A id \in ClientIds : \A n \in 1 .. Len(accepted[id]) :
          CopyOk(id, accepted[id][n])
    /\ \A id \in ClientIds : \A n, m \in 1 .. Len(accepted[id]) :
          /\ accepted[id][n].type = "broadcast"
          /\ accepted[id][m].type = "broadcast"
          /\ accepted[id][n].text = accepted[id][m].text
          => n = m
    /\ \A c \in ChatConns : chats[c].pc = "spread" => TodoOk(c)

LEMMA WelcomedStays ==
    ASSUME ChatInv, ChatInv', Grows,
           \A c \in ChatConns : chats'[c].pc = "welcome" =>
              \/ chats[c].pc = "welcome" /\ chats'[c].id = chats[c].id
              \/ chats'[c].id = next_client_id,
           NEW id, Welcomed(id)
    PROVE  Welcomed(id)'
<1>1. /\ next_client_id \in Nat /\ next_client_id' \in Nat
      /\ id \in Nat /\ id \in ClientIds /\ id < next_client_id
  BY ClientIdsAssumption DEF ChatInv, ClientsInv, ClientsTypeOK, Welcomed
<1>2. id < next_client_id' /\ id # next_client_id
  BY <1>1 DEF Grows
<1>3. QED
  BY <1>1, <1>2 DEF Welcomed

\* A ready client has been welcomed.
LEMMA ReadyIsWelcomed ==
    ASSUME ChatInv, NEW i \in ClientSlots, clients[i].active, clients[i].ready
    PROVE  Welcomed(clients[i].id)
<1>1. clients[i].id \in ClientIds
  BY DEF ChatInv, HistoryInv
<1>2. clients[i].id < next_client_id
  BY DEF ChatInv, ClientsInv, ClientsDistinct, ClientsTypeOK
<1>3. ASSUME NEW c \in ChatConns, chats[c].pc = "welcome",
             chats[c].id = clients[i].id
      PROVE  FALSE
  <2>1. PICK j \in ClientSlots : /\ j = chats[c].slot /\ clients[j].active
                                 /\ clients[j].id = clients[i].id
    BY <1>3, OwnSlot DEF Owning
  <2>2. ~clients[j].ready
    BY <1>3, <2>1 DEF ChatInv, ThreadsInv
  <2>3. i = j
    BY <2>1 DEF ChatInv, ClientsInv, ClientsDistinct
  <2>4. QED
    BY <2>2, <2>3
<1>4. QED
  BY <1>1, <1>2, <1>3 DEF Welcomed

LEMMA CopiesKept ==
    ASSUME ChatInv, TextsInv, CopiesInv, LogsKept, UNCHANGED accepted,
           \A c \in ChatConns : chats'[c].pc = "spread" => TodoOk(c)'
    PROVE  CopiesInv'
<1>1. ASSUME NEW id \in ClientIds, NEW n \in 1 .. Len(accepted[id])
      PROVE  CopyOk(id, accepted[id][n])'
  <2>1. PICK f : f = accepted[id][n]
    BY Zenon
  <2>2. CASE f.type = "broadcast"
    <3>1. f.text \in Texts /\ f.text[2] \in 1 .. Len(requests[f.text[1]])
      BY <2>1, <2>2, QueuedTextIsOld
    <3>2. RequestOf(f.text)' = RequestOf(f.text)
      BY <3>1, RequestKept
    <3>3. CopyOk(id, f)
      BY <2>1 DEF CopiesInv
    <3>4. QED
      BY <2>1, <3>2, <3>3 DEF CopyOk
  <2>3. CASE f.type # "broadcast"
    BY <2>1, <2>3 DEF CopyOk
  <2>4. QED
    BY <2>2, <2>3
<1>2. QED
  BY <1>1 DEF CopiesInv

LEMMA SameCopies ==
    ASSUME UNCHANGED accepted, NEW id, NEW text
    PROVE  Copied(id, text)' <=> Copied(id, text)
BY DEF Copied

LEMMA AddedCopy ==
    ASSUME NEW o \in ClientIds, NEW f, Added(o, f), NEW id \in ClientIds,
           NEW text
    PROVE  Copied(id, text)' <=>
              \/ Copied(id, text)
              \/ id = o /\ f.type = "broadcast" /\ f.text = text
<1>1. ASSUME Copied(id, text)'
      PROVE  \/ Copied(id, text)
             \/ id = o /\ f.type = "broadcast" /\ f.text = text
  <2>1. PICK n \in 1 .. Len(accepted'[id]) :
           accepted'[id][n].type = "broadcast" /\ accepted'[id][n].text = text
    BY <1>1 DEF Copied
  <2>2. QED
    BY <2>1, AddedPlaces DEF Copied
<1>2. ASSUME Copied(id, text) PROVE Copied(id, text)'
  <2>1. PICK n \in 1 .. Len(accepted[id]) :
           accepted[id][n].type = "broadcast" /\ accepted[id][n].text = text
    BY <1>2 DEF Copied
  <2>2. n \in 1 .. Len(accepted'[id]) /\ accepted'[id][n] = accepted[id][n]
    BY DEF Added
  <2>3. QED
    BY <2>1, <2>2 DEF Copied
<1>3. ASSUME id = o, f.type = "broadcast", f.text = text
      PROVE  Copied(id, text)'
  <2>1. PICK n : n = Len(accepted[o]) + 1
    BY Zenon
  <2>2. n \in 1 .. Len(accepted'[o]) /\ accepted'[o][n] = f
    BY <2>1 DEF Added
  <2>3. QED
    BY <1>3, <2>2 DEF Copied
<1>4. QED
  BY <1>1, <1>2, <1>3

LEMMA SameTodo ==
    ASSUME NEW c \in ChatConns, TodoOk(c), UNCHANGED accepted,
           chats'[c] = chats[c], LastText(c)' = LastText(c),
           LastRequest(c)' = LastRequest(c)
    PROVE  TodoOk(c)'
<1>1. PICK todo, to, text : /\ todo = chats[c].todo /\ text = LastText(c)
                            /\ to = LastRequest(c).to
  BY Zenon
<1>2. Remain(todo, to, text)
  BY <1>1 DEF TodoOk
<1>3. Remain(todo, to, text)'
  BY <1>2, SameCopies DEF Remain
<1>4. QED
  BY <1>1, <1>3 DEF TodoOk

LEMMA TodoTail ==
    ASSUME ChatInv, NEW c \in ChatConns, chats[c].pc = "spread", TodoOk(c),
           chats'[c].todo = Tail(chats[c].todo),
           LastText(c)' = LastText(c), LastRequest(c)' = LastRequest(c),
           UNCHANGED accepted
              \/ Added(Head(chats[c].todo), chats[c].frame)
    PROVE  TodoOk(c)'
<1>1. PICK t \in Seq(ClientIds) : t = chats[c].todo /\ t # <<>>
  BY Working DEF Busy, ChatInv, ChatTypeOK, ChatRecord
<1>2. PICK u, o : u = Tail(t) /\ o = Head(t)
  BY Zenon
<1>3. /\ Len(u) = Len(t) - 1 /\ \A k \in 1 .. Len(u) : u[k] = t[k + 1]
      /\ Len(t) \in Nat /\ o = t[1]
  BY <1>1, <1>2
<1>4. \A k \in 1 .. Len(u) : /\ k + 1 \in 1 .. Len(t) /\ 1 \in 1 .. Len(t)
                             /\ k + 1 # 1 /\ u[k] = t[k + 1]
  BY <1>3
<1>5. PICK to, text, f : /\ to = LastRequest(c).to /\ text = LastText(c)
                         /\ f = chats[c].frame
  BY Zenon
<1>6. Remain(t, to, text)
  BY <1>1, <1>5 DEF TodoOk
<1>7. ASSUME NEW k \in 1 .. Len(u)
      PROVE  u[k] \in to /\ ~Copied(u[k], text)'
  <2>1. PICK id \in ClientIds : id = u[k]
    BY <1>1, <1>4
  <2>2. id \in to /\ ~Copied(id, text) /\ id # o
    BY <1>3, <1>4, <1>6, <2>1 DEF Remain
  <2>3. ~Copied(id, text)'
    <3>1. CASE UNCHANGED accepted
      BY <2>2, <3>1, SameCopies
    <3>2. CASE Added(o, f) /\ o \in ClientIds
      BY <2>2, <3>2, AddedCopy
    <3>3. o \in ClientIds
      BY <1>1, <1>2
    <3>4. QED
      BY <1>1, <1>2, <1>5, <3>1, <3>2, <3>3
  <2>4. QED
    BY <2>1, <2>2, <2>3
<1>8. \A j, k \in 1 .. Len(u) : u[j] = u[k] => j = k
  <2>1. \A j, k \in 1 .. Len(u) : u[j] = u[k] => j + 1 = k + 1
    BY <1>4, <1>6 DEF Remain
  <2>2. QED
    BY <1>3, <2>1
<1>9. Remain(u, to, text)'
  BY <1>7, <1>8 DEF Remain
<1>10. QED
  BY <1>1, <1>2, <1>5, <1>9 DEF TodoOk

\* The recipients of the other handlers are not disturbed by a copy.
LEMMA OtherTodo ==
    ASSUME ChatInv, NEW c \in ChatConns, NEW d \in ChatConns \ {c},
           chats[c].pc \in Busy, TodoOk(d), chats'[d] = chats[d],
           LastText(d)' = LastText(d), LastRequest(d)' = LastRequest(d),
           NEW o \in ClientIds, Added(o, chats[c].frame)
    PROVE  TodoOk(d)'
<1>1. PICK todo, to, text, f :
         /\ todo = chats[d].todo /\ text = LastText(d)
         /\ to = LastRequest(d).to /\ f = chats[c].frame
  BY Zenon
<1>2. f.type = "broadcast" => f.text # text
  <2>1. f.type = "broadcast" => f.text = LastText(c)
    BY <1>1, Working DEF Fits
  <2>2. LastText(d) # LastText(c)
    BY OtherText DEF Busy
  <2>3. QED
    BY <1>1, <2>1, <2>2
<1>3. Remain(todo, to, text) /\ \A k \in 1 .. Len(todo) : todo[k] \in ClientIds
  BY <1>1 DEF TodoOk, ChatInv, ChatTypeOK, ChatRecord
<1>4. \A id \in ClientIds : Copied(id, text)' <=> Copied(id, text)
  BY <1>1, <1>2, AddedCopy
<1>5. Remain(todo, to, text)'
  BY <1>3, <1>4 DEF Remain
<1>6. QED
  BY <1>1, <1>5 DEF TodoOk

LEMMA CopiesAdded ==
    ASSUME CopiesInv, NEW o \in ClientIds, NEW f, Added(o, f),
           UNCHANGED requests, CopyOk(o, f),
           f.type = "broadcast" => ~Copied(o, f.text),
           \A c \in ChatConns : chats'[c].pc = "spread" => TodoOk(c)'
    PROVE  CopiesInv'
<1>1. ASSUME NEW id \in ClientIds, NEW n \in 1 .. Len(accepted'[id])
      PROVE  CopyOk(id, accepted[id][n])'
  <2>1. PICK g : g = accepted'[id][n]
    BY Zenon
  <2>2. CopyOk(id, g)
    BY <2>1, AddedPlaces DEF CopiesInv
  <2>3. QED
    BY Zenon, <2>1, <2>2 DEF CopyOk, RequestOf
<1>2. ASSUME NEW id \in ClientIds, NEW n \in 1 .. Len(accepted'[id]),
             NEW m \in 1 .. Len(accepted'[id]),
             accepted'[id][n].type = "broadcast",
             accepted'[id][m].type = "broadcast",
             accepted'[id][n].text = accepted'[id][m].text
      PROVE  n = m
  <2>1. /\ \/ n \in 1 .. Len(accepted[id]) /\ accepted'[id][n] = accepted[id][n]
           \/ id = o /\ n = Len(accepted[o]) + 1 /\ accepted'[id][n] = f
        /\ \/ m \in 1 .. Len(accepted[id]) /\ accepted'[id][m] = accepted[id][m]
           \/ id = o /\ m = Len(accepted[o]) + 1 /\ accepted'[id][m] = f
    BY AddedPlaces
  <2>2. CASE /\ n \in 1 .. Len(accepted[id]) /\ m \in 1 .. Len(accepted[id])
             /\ accepted'[id][n] = accepted[id][n]
             /\ accepted'[id][m] = accepted[id][m]
    BY <1>2, <2>2 DEF CopiesInv
  <2>3. ASSUME f.type = "broadcast", NEW k \in 1 .. Len(accepted[o]),
               accepted[o][k].type = "broadcast"
        PROVE  accepted[o][k].text # f.text
    BY <2>3 DEF Copied
  <2>4. QED
    BY <1>2, <2>1, <2>2, <2>3
<1>3. QED
  BY <1>1, <1>2 DEF CopiesInv

-----------------------------------------------------------------------------
(***************************************************************************)
(* Nothing is lost as long as memory can be allocated: the sender of a     *)
(* message that has been handled knows its outcome, and a recipient of a   *)
(* broadcast that is not still to be reached has its copy.                 *)
(***************************************************************************)
Told(text) ==
    \E id \in ClientIds : \E n \in 1 .. Len(accepted[id]) :
        accepted[id][n].type \in Outcomes /\ accepted[id][n].text = text

Unfinished(id, n) ==
    \E c \in ChatConns :
        chats[c].id = id /\ chats[c].pc \in Busy /\ n = Len(requests[id])

ToldInv ==
    \A id \in ClientIds : \A n \in 1 .. Len(requests[id]) :
        /\ requests[id][n].frame.type \in Messages
        /\ ~Unfinished(id, n) /\ Served(id)
        => Told(<<id, n>>)

Awaited(id, n, other) ==
    \E c \in ChatConns :
        /\ chats[c].id = id /\ chats[c].pc = "spread" /\ n = Len(requests[id])
        /\ \E k \in 1 .. Len(chats[c].todo) : chats[c].todo[k] = other

SpreadInv ==
    \A id \in ClientIds : \A n \in 1 .. Len(requests[id]) :
        requests[id][n].frame.type = "broadcast" =>
            \A other \in requests[id][n].to :
                Served(other) /\ ~Awaited(id, n, other) =>
                    Copied(other, <<id, n>>)

LEMMA SameTold ==
    ASSUME UNCHANGED accepted, NEW text
    PROVE  Told(text)' <=> Told(text)
BY DEF Told

LEMMA AddedTold ==
    ASSUME NEW o \in ClientIds, NEW f, Added(o, f), NEW text,
           Told(text) \/ (f.type \in Outcomes /\ f.text = text)
    PROVE  Told(text)'
<1>1. CASE Told(text)
  <2>1. PICK id \in ClientIds : \E n \in 1 .. Len(accepted[id]) :
           accepted[id][n].type \in Outcomes /\ accepted[id][n].text = text
    BY <1>1 DEF Told
  <2>2. PICK n \in 1 .. Len(accepted[id]) :
           accepted[id][n].type \in Outcomes /\ accepted[id][n].text = text
    BY <2>1
  <2>3. n \in 1 .. Len(accepted'[id]) /\ accepted'[id][n] = accepted[id][n]
    BY DEF Added
  <2>4. QED
    BY <2>2, <2>3 DEF Told
<1>2. CASE f.type \in Outcomes /\ f.text = text
  <2>1. PICK n : n = Len(accepted[o]) + 1
    BY Zenon
  <2>2. n \in 1 .. Len(accepted'[o]) /\ accepted'[o][n] = f
    BY <2>1 DEF Added
  <2>3. QED
    BY <1>2, <2>2 DEF Told
<1>3. QED
  BY <1>1, <1>2

\* A send that failed is to a client that is not served any more.
LEMMA Unreached ==
    ASSUME ChatInv, ~AllocationsFail, NEW id, SendFails(id)
    PROVE  ~Served(id)'
BY QueueFailed DEF ChatInv, SendFails, Served

\* The sender of a broadcast takes the next recipient off its list.
LEMMA Reaches ==
    ASSUME ChatInv, ~AllocationsFail, NEW c \in ChatConns, NEW pc, NEW frame,
           NEW target, NEW todo, Handles(c, pc, frame, target, todo),
           chats[c].pc = "spread", NEW text, text = LastText(c),
           NEW k \in 1 .. Len(chats[c].todo),
           NEW other \in ClientIds, other = chats[c].todo[k]
    PROVE  \/ Copied(other, text)' \/ ~Served(other)'
           \/ pc = "spread" /\ \E j \in 1 .. Len(todo) : todo[j] = other
<1>1. PICK t \in Seq(ClientIds), o \in ClientIds, f \in ChatFrames :
         /\ t = chats[c].todo /\ t # <<>> /\ o = Head(t) /\ f = chats[c].frame
  <2>1. /\ chats[c].todo # <<>> /\ chats[c].todo \in Seq(ClientIds)
        /\ chats[c].frame \in ChatFrames
    BY Working DEF Busy, ChatInv, ChatTypeOK, ChatRecord
  <2>2. QED
    BY <2>1
<1>2. f.type = "broadcast" /\ f.text = text
  BY <1>1, Working DEF Fits, Busy
<1>3. /\ Send(o, f)
      /\ IF Len(t) = 1 THEN pc = "idle" ELSE pc = "spread" /\ todo = Tail(t)
  BY <1>1 DEF Handles
<1>4. CASE k = 1
  <2>1. o = other
    BY <1>1, <1>4
  <2>2. CASE SendSucceeds(o, f)
    BY <1>2, <2>1, <2>2, AddedFrame, AddedCopy
  <2>3. CASE SendFails(o)
    BY <2>1, <2>3, Unreached
  <2>4. QED
    BY <1>3, <2>2, <2>3 DEF Send
<1>5. CASE k # 1
  <2>1. Len(t) \in Nat /\ k \in 1 .. Len(t) /\ Len(t) # 1
    BY <1>1, <1>5
  <2>2. /\ pc = "spread" /\ Len(todo) = Len(t) - 1
        /\ \A j \in 1 .. Len(todo) : todo[j] = t[j + 1]
    BY <1>1, <1>3, <2>1
  <2>3. PICK j \in 1 .. Len(todo) : j + 1 = k
    BY <1>5, <2>1, <2>2
  <2>4. QED
    BY Zenon, <1>1, <2>2, <2>3
<1>6. QED
  BY <1>4, <1>5

-----------------------------------------------------------------------------
(***************************************************************************)
(* Both layers together.                                                   *)
(***************************************************************************)
MessagesInv == TextsInv /\ OutcomesInv /\ RecipientsInv /\ CopiesInv

NothingLost == ToldInv /\ SpreadInv

LEMMA MessagesInit ==
    ASSUME ChatInit
    PROVE  MessagesInv /\ NothingLost
<1>1. \A id \in ClientIds : requests[id] = <<>> /\ accepted[id] = <<>>
  BY DEF ChatInit
<1>2. \A c \in ChatConns : chats[c].pc = "new"
  BY DEF ChatInit, Chat
<1>3. \A id \in ClientIds : \A n \in 1 .. Len(requests[id]) : FALSE
  BY <1>1
<1>4. \A id \in ClientIds : \A n \in 1 .. Len(accepted[id]) : FALSE
  BY <1>1
<1>5. TextsInv /\ OutcomesInv
  BY <1>2, <1>4 DEF TextsInv, OutcomesInv
<1>6. RecipientsInv /\ CopiesInv
  BY <1>2, <1>3, <1>4 DEF RecipientsInv, CopiesInv
<1>7. ToldInv /\ SpreadInv
  BY <1>3 DEF ToldInv, SpreadInv
<1>8. QED
  BY <1>5, <1>6, <1>7 DEF MessagesInv, NothingLost

\* Logins, welcomes, departures and deliveries do not touch the messages.
LEMMA RestsKeepsMessages ==
    ASSUME ChatInv, ChatInv', MessagesInv, NEW c \in ChatConns, Rests(c)
    PROVE  MessagesInv' /\ (NothingLost => NothingLost')
<1>. TextsInv /\ OutcomesInv /\ RecipientsInv /\ CopiesInv
  BY DEF MessagesInv
<1>1. TextsInv' /\ OutcomesInv'
  <2>1. /\ UNCHANGED <<requests, accepted>> /\ Grows /\ chats'[c].pc \notin Busy
        /\ \A d \in ChatConns \ {c} : chats'[d] = chats[d]
    BY DEF Rests
  <2>2. LogsKept
    BY <2>1, SameLogs DEF ChatInv
  <2>3. NoFrame \in ChatFrames /\ Queued(NoFrame) /\ TextOk(NoFrame)
    BY <2>1, NoFrameFits DEF Queued, TextOk, Outcomes, Private, Refusals
  <2>4. \A d \in ChatConns : chats'[d].pc \in Busy =>
           chats[d].pc \in Busy /\ LastText(d)' = LastText(d)
    BY <2>1 DEF LastText
  <2>5. QED
    BY <2>1, <2>2, <2>3, <2>4, TextsKept, OutcomesKept
<1>2. RecipientsInv'
  <2>1. \A d \in ChatConns : chats'[d].pc = "welcome" =>
           \/ chats[d].pc = "welcome" /\ chats'[d].id = chats[d].id
           \/ chats'[d].id = next_client_id
    BY DEF Rests
  <2>2. \A id : Welcomed(id) => Welcomed(id)'
    BY <2>1, WelcomedStays DEF Rests
  <2>3. requests' = requests
    BY DEF Rests
  <2>4. QED
    BY <2>2, <2>3 DEF RecipientsInv
<1>3. CopiesInv'
  <2>1. UNCHANGED <<requests, accepted>> /\ LogsKept
    BY SameLogs DEF Rests, ChatInv
  <2>2. ASSUME NEW d \in ChatConns, chats'[d].pc = "spread" PROVE TodoOk(d)'
    <3>1. chats'[d] = chats[d]
      BY <2>2 DEF Rests, Busy
    <3>2. LastText(d)' = LastText(d) /\ LastRequest(d)' = LastRequest(d)
      BY <2>1, <3>1 DEF LastText, LastRequest
    <3>3. TodoOk(d)
      BY <2>2, <3>1 DEF CopiesInv
    <3>4. QED
      BY <2>1, <3>1, <3>2, <3>3, SameTodo
  <2>3. QED
    BY <2>1, <2>2, CopiesKept
<1>4. ASSUME NothingLost PROVE NothingLost'
  <2>. ToldInv /\ SpreadInv
    BY <1>4 DEF NothingLost
  <2>1. ToldInv'
    <3>1. /\ UNCHANGED <<requests, accepted>> /\ chats[c].pc \notin Busy
          /\ \A d \in ChatConns \ {c} : chats'[d] = chats[d]
      BY DEF Rests
    <3>2. ASSUME NEW id \in ClientIds, NEW n \in 1 .. Len(requests[id]),
                 requests[id][n].frame.type \in Messages,
                 ~Unfinished(id, n)', Served(id)'
          PROVE  Told(<<id, n>>)'
      <4>1. ~Unfinished(id, n)
        BY <3>1, <3>2 DEF Unfinished
      <4>2. ~(chats[c].pc = "welcome" /\ chats[c].id = id)
        BY DEF ChatInv, ThreadsInv
      <4>3. Served(id)
        BY <3>2, <4>2 DEF Rests
      <4>4. Told(<<id, n>>)
        BY <3>2, <4>1, <4>3 DEF ToldInv
      <4>5. QED
        BY <3>1, <4>4, SameTold
    <3>3. QED
      BY <3>1, <3>2 DEF ToldInv
  <2>2. SpreadInv'
    <3>1. /\ UNCHANGED <<requests, accepted>> /\ chats[c].pc # "spread"
          /\ \A d \in ChatConns \ {c} : chats'[d] = chats[d]
      BY DEF Rests, Busy
    <3>2. ASSUME NEW id \in ClientIds, NEW n \in 1 .. Len(requests[id]),
                 requests[id][n].frame.type = "broadcast",
                 NEW other \in requests[id][n].to,
                 Served(other)', ~Awaited(id, n, other)'
          PROVE  Copied(other, <<id, n>>)'
      <4>1. ~Awaited(id, n, other)
        BY <3>1, <3>2 DEF Awaited
      <4>2. /\ other \in ClientIds
            /\ ~(chats[c].pc = "welcome" /\ chats[c].id = other)
        BY <3>2 DEF RecipientsInv, Welcomed
      <4>3. Served(other)
        BY <3>2, <4>2 DEF Rests
      <4>4. Copied(other, <<id, n>>)
        BY <3>2, <4>1, <4>3 DEF SpreadInv
      <4>5. QED
        BY <3>1, <4>4, SameCopies
    <3>3. QED
      BY <3>1, <3>2 DEF SpreadInv
  <2>3. QED
    BY <2>1, <2>2 DEF NothingLost
<1>5. QED
  BY <1>1, <1>2, <1>3, <1>4 DEF MessagesInv

(***************************************************************************)
(* A request that is received becomes the last of its sender's log.        *)
(***************************************************************************)
Logged(me, k, r, to) ==
    /\ me \in ClientIds /\ k \in Nat /\ k = Len(requests[me])
    /\ Len(requests'[me]) = k + 1
    /\ \A id \in ClientIds \ {me} : requests'[id] = requests[id]
    /\ \A n \in 1 .. k : requests'[me][n] = requests[me][n]
    /\ requests'[me][k + 1].frame = r /\ requests'[me][k + 1].to = to

LEMMA ReceivesLogs ==
    ASSUME ChatInv, NEW c \in ChatConns, NEW r, NEW to, Receives(c, r, to)
    PROVE  Logged(chats[c].id, Len(requests[chats[c].id]), r, to)
<1>1. PICK me \in ClientIds, k \in Nat :
         me = chats[c].id /\ k = Len(requests[me])
  BY Reading
<1>2. /\ Len(requests'[me]) = k + 1
      /\ \A id \in ClientIds \ {me} : requests'[id] = requests[id]
      /\ \A n \in 1 .. k : requests'[me][n] = requests[me][n]
      /\ requests'[me][Len(requests'[me])] = [frame |-> r, to |-> to]
  BY <1>1, LogGrows
<1>3. requests'[me][k + 1].frame = r /\ requests'[me][k + 1].to = to
  BY <1>2
<1>4. Logged(me, k, r, to)
  BY <1>1, <1>2, <1>3 DEF Logged
<1>5. QED
  BY Zenon, <1>1, <1>4

LEMMA OldRequest ==
    ASSUME NEW me, NEW k, NEW r, NEW to, Logged(me, k, r, to),
           NEW id \in ClientIds, NEW n \in 1 .. Len(requests'[id]),
           ~(id = me /\ n = k + 1)
    PROVE  n \in 1 .. Len(requests[id]) /\ requests'[id][n] = requests[id][n]
<1>1. CASE id # me
  BY <1>1 DEF Logged
<1>2. CASE id = me
  <2>1. k \in Nat /\ k = Len(requests[id]) /\ n \in 1 .. k + 1
    BY <1>2 DEF Logged
  <2>2. n \in 1 .. k
    BY <1>2, <2>1
  <2>3. QED
    BY <1>2, <2>1, <2>2 DEF Logged
<1>3. QED
  BY <1>1, <1>2

\* A thread that has read a request has not answered it.
LEMMA HearsKeepsMessages ==
    ASSUME ChatInv, ChatInv', MessagesInv, NEW c \in ChatConns, NEW r, NEW to,
           NEW pc, NEW frame, NEW target, NEW todo,
           Hears(c, r, to, pc, frame, target, todo)
    PROVE  MessagesInv' /\ (NothingLost => NothingLost')
<1>. TextsInv /\ OutcomesInv /\ RecipientsInv /\ CopiesInv
  BY DEF MessagesInv
<1>1. PICK me \in ClientIds, k \in Nat :
         /\ me = chats[c].id /\ k = Len(requests[me])
         /\ Logged(me, k, r, to)
  <2>1. Logged(chats[c].id, Len(requests[chats[c].id]), r, to)
    BY ReceivesLogs DEF Hears
  <2>2. QED
    BY Zenon, <2>1 DEF Logged
<1>. Logged(me, k, r, to)
  BY <1>1
<1>2. /\ Len(requests'[me]) = k + 1
      /\ requests'[me][k + 1].frame = r /\ requests'[me][k + 1].to = to
  BY DEF Logged
<1>3. /\ chats[c].pc = "idle" /\ chats'[c].pc = pc /\ chats'[c].id = me
      /\ chats'[c].todo = todo
      /\ \A d \in ChatConns \ {c} : chats'[d] = chats[d]
  <2>1. chats[c].pc = "idle"
    BY Reading DEF Hears
  <2>2. QED
    BY <1>1, <2>1 DEF Hears, Begins, Goes
<1>4. \A d \in ChatConns \ {c} : chats[d].id # me
  BY <1>1, <1>3, OwnId
<1>5. UNCHANGED accepted /\ Grows /\ OwnersKept
  BY DEF Hears, Receives
<1>6. LogsKept
  BY LongerLogs DEF Hears
<1>7. LastText(c)' = <<me, k + 1>>
  BY <1>2, <1>3 DEF LastText
<1>8. ASSUME NEW d \in ChatConns \ {c}, chats[d].pc # "new"
      PROVE  LastText(d)' = LastText(d) /\ LastRequest(d)' = LastRequest(d)
  <2>1. chats[d].id \in ClientIds \ {me}
    BY <1>4, <1>8, OwnId
  <2>2. requests'[chats[d].id] = requests[chats[d].id] /\ chats'[d] = chats[d]
    BY <1>3, <2>1 DEF Logged
  <2>3. QED
    BY <2>2 DEF LastText, LastRequest
<1>9. TextsInv' /\ OutcomesInv'
  <2>1. NoFrame \in ChatFrames /\ Queued(NoFrame) /\ TextOk(NoFrame)
    BY <1>5, NoFrameFits DEF Queued, TextOk, Outcomes, Private, Refusals
  <2>2. TextsInv'
    BY <1>6, <2>1, TextsKept
  <2>3. ASSUME NEW d \in ChatConns, chats'[d].pc \in Busy
        PROVE  \/ chats[d].pc \in Busy /\ LastText(d)' = LastText(d)
               \/ ~ LastText(d)'[2] \in 1 .. Len(requests[LastText(d)'[1]])
    <3>1. CASE d # c
      <4>1. chats[d].pc \in Busy
        BY <1>3, <2>3, <3>1
      <4>2. QED
        BY <1>8, <3>1, <4>1 DEF Busy
    <3>2. CASE d = c
      <4>1. LastText(d)'[1] = me /\ LastText(d)'[2] = k + 1
        BY <1>7, <3>2
      <4>2. ~(k + 1 \in 1 .. Len(requests[me]))
        BY DEF Logged
      <4>3. QED
        BY <4>1, <4>2
    <3>3. QED
      BY <3>1, <3>2
  <2>4. OutcomesInv'
    BY <1>5, <1>6, <2>3, OutcomesKept
  <2>5. QED
    BY <2>2, <2>4
<1>10. RecipientsInv'
  <2>1. pc # "welcome"
    BY DEF Hears, Begins, Busy
  <2>2. \A d \in ChatConns : chats'[d].pc = "welcome" =>
           chats[d].pc = "welcome" /\ chats'[d].id = chats[d].id
    BY <1>3, <2>1
  <2>3. ASSUME NEW id, Welcomed(id) PROVE Welcomed(id)'
    BY <1>5, <2>2, <2>3, WelcomedStays
  <2>4. ASSUME r.type = "broadcast", NEW other \in to
        PROVE  other # me /\ Welcomed(other)'
    <3>1. PICK i \in BroadcastSlots(me) : other = clients[i].id
      BY <1>1, <2>4 DEF Hears, Begins
    <3>2. /\ i \in ClientSlots /\ clients[i].active /\ clients[i].ready
          /\ clients[i].id # me
      BY <3>1 DEF BroadcastSlots
    <3>3. QED
      BY <2>3, <3>1, <3>2, ReadyIsWelcomed
  <2>5. ASSUME NEW id \in ClientIds, NEW n \in 1 .. Len(requests'[id]),
               requests'[id][n].frame.type = "broadcast",
               NEW other \in requests'[id][n].to
        PROVE  other # id /\ Welcomed(other)'
    <3>1. CASE id = me /\ n = k + 1
      <4>1. r.type = "broadcast" /\ other \in to
        BY Zenon, <1>2, <2>5, <3>1
      <4>2. QED
        BY <2>4, <3>1, <4>1
    <3>2. CASE ~(id = me /\ n = k + 1)
      <4>1. n \in 1 .. Len(requests[id]) /\ requests'[id][n] = requests[id][n]
        BY <3>2, OldRequest
      <4>2. other # id /\ Welcomed(other)
        BY <2>5, <4>1 DEF RecipientsInv
      <4>3. QED
        BY <2>3, <4>2
    <3>3. QED
      BY <3>1, <3>2
  <2>6. QED
    BY <2>5 DEF RecipientsInv
<1>11. CopiesInv'
  <2>1. ASSUME NEW d \in ChatConns \ {c}, chats'[d].pc = "spread"
        PROVE  TodoOk(d)'
    <3>1. chats'[d] = chats[d] /\ chats[d].pc = "spread"
      BY <1>3, <2>1
    <3>2. LastText(d)' = LastText(d) /\ LastRequest(d)' = LastRequest(d)
      BY <1>8, <3>1
    <3>3. TodoOk(d)
      BY <3>1 DEF CopiesInv
    <3>4. QED
      BY <1>5, <3>1, <3>2, <3>3, SameTodo
  <2>2. ASSUME pc = "spread" PROVE TodoOk(c)'
    <3>1. LastRequest(c)'.to = to
      BY <1>2, <1>3 DEF LastRequest
    <3>2. Lists(todo, to) /\ todo \in Seq(ClientIds)
      <4>1. Lists(todo, to)
        BY <2>2 DEF Hears, Begins, Busy, Fits
      <4>2. chats'[c] \in ChatRecord
        BY DEF Hears, Begins, Goes
      <4>3. QED
        BY <1>3, <4>1, <4>2 DEF ChatRecord
    <3>3. PICK text : text = <<me, k + 1>>
      BY Zenon
    <3>4. ASSUME NEW id \in ClientIds PROVE ~Copied(id, text)
      <4>1. ASSUME NEW n \in 1 .. Len(accepted[id]),
                   accepted[id][n].type = "broadcast",
                   accepted[id][n].text = text
            PROVE  FALSE
        <5>1. text[2] \in 1 .. Len(requests[text[1]])
          BY <4>1, QueuedTextIsOld
        <5>2. text[1] = me /\ text[2] = k + 1
          BY <3>3
        <5>3. QED
          BY <5>1, <5>2 DEF Logged
      <4>2. QED
        BY <4>1 DEF Copied
    <3>5. \A j \in 1 .. Len(todo) : todo[j] \in ClientIds
      BY <3>2
    <3>6. ASSUME NEW j \in 1 .. Len(todo)
          PROVE  todo[j] \in to /\ ~Copied(todo[j], text)'
      BY <1>5, <3>2, <3>4, <3>5, SameCopies DEF Lists
    <3>7. Remain(todo, to, text)'
      BY <3>2, <3>6 DEF Remain, Lists
    <3>8. QED
      BY <1>3, <1>7, <3>1, <3>3, <3>7 DEF TodoOk
  <2>3. \A d \in ChatConns : chats'[d].pc = "spread" => TodoOk(d)'
    BY <1>3, <2>1, <2>2
  <2>4. QED
    BY <1>5, <1>6, <2>3, CopiesKept
<1>12. ASSUME NothingLost PROVE ToldInv'
  <2>1. r.type \in Messages => pc \in Busy
    BY DEF Hears, Begins
  <2>2. ASSUME NEW id \in ClientIds, NEW n \in 1 .. Len(requests'[id]),
               requests'[id][n].frame.type \in Messages,
               ~Unfinished(id, n)', Served(id)'
        PROVE  Told(<<id, n>>)'
    <3>1. ~(id = me /\ n = k + 1)
      <4>1. requests'[me][k + 1].frame.type \in Messages => pc \in Busy
        BY <1>2, <2>1
      <4>2. pc \in Busy => Unfinished(me, k + 1)'
        BY <1>2, <1>3 DEF Unfinished
      <4>3. QED
        BY Zenon, <2>2, <4>1, <4>2
    <3>2. n \in 1 .. Len(requests[id]) /\ requests'[id][n] = requests[id][n]
      BY <3>1, OldRequest
    <3>3. ~Unfinished(id, n)
      <4>1. SUFFICES ASSUME NEW d \in ChatConns, chats[d].id = id,
                            chats[d].pc \in Busy, n = Len(requests[id])
                     PROVE  FALSE
        BY DEF Unfinished
      <4>2. d # c
        BY <1>3, <4>1 DEF Busy
      <4>3. id # me
        BY <1>4, <4>1, <4>2
      <4>4. requests'[id] = requests[id] /\ chats'[d] = chats[d]
        BY <1>3, <4>2, <4>3 DEF Logged
      <4>5. QED
        BY <2>2, <4>1, <4>4 DEF Unfinished
    <3>4. Served(id)
      BY <1>5, <2>2, ServedKept
    <3>5. Told(<<id, n>>)
      BY <1>12, <2>2, <3>2, <3>3, <3>4 DEF NothingLost, ToldInv
    <3>6. QED
      BY <1>5, <3>5, SameTold
  <2>3. QED
    BY <2>2 DEF ToldInv
<1>13. ASSUME NothingLost PROVE SpreadInv'
  <2>1. r.type = "broadcast" => IF pc = "spread" THEN Lists(todo, to)
                                ELSE to = {}
    BY DEF Hears, Begins
  <2>2. ASSUME NEW id \in ClientIds, NEW n \in 1 .. Len(requests'[id]),
               requests'[id][n].frame.type = "broadcast",
               NEW other \in requests'[id][n].to,
               Served(other)', ~Awaited(id, n, other)'
        PROVE  Copied(other, <<id, n>>)'
    <3>1. ~(id = me /\ n = k + 1)
      <4>1. ASSUME id = me, n = k + 1
            PROVE  r.type = "broadcast" /\ other \in to
        BY Zenon, <1>2, <2>2, <4>1
      <4>2. ASSUME r.type = "broadcast", other \in to
            PROVE  pc = "spread" /\ \E j \in 1 .. Len(todo) : todo[j] = other
        BY <2>1, <4>2 DEF Lists
      <4>3. ASSUME pc = "spread", \E j \in 1 .. Len(todo) : todo[j] = other
            PROVE  Awaited(me, k + 1, other)'
        BY <1>2, <1>3, <4>3 DEF Awaited
      <4>4. QED
        BY Zenon, <2>2, <4>1, <4>2, <4>3
    <3>2. n \in 1 .. Len(requests[id]) /\ requests'[id][n] = requests[id][n]
      BY <3>1, OldRequest
    <3>3. ~Awaited(id, n, other)
      <4>1. SUFFICES ASSUME NEW d \in ChatConns, chats[d].id = id,
                            chats[d].pc = "spread", n = Len(requests[id]),
                            \E j \in 1 .. Len(chats[d].todo) :
                               chats[d].todo[j] = other
                     PROVE  FALSE
        BY DEF Awaited
      <4>2. d # c
        BY <1>3, <4>1
      <4>3. id # me
        BY <1>4, <4>1, <4>2
      <4>4. requests'[id] = requests[id] /\ chats'[d] = chats[d]
        BY <1>3, <4>2, <4>3 DEF Logged
      <4>5. QED
        BY <2>2, <4>1, <4>4 DEF Awaited
    <3>4. Served(other)
      BY <1>5, <2>2, ServedKept
    <3>5. Copied(other, <<id, n>>)
      BY <1>13, <2>2, <3>2, <3>3, <3>4 DEF NothingLost, SpreadInv
    <3>6. QED
      BY <1>5, <3>5, SameCopies
  <2>3. QED
    BY <2>2 DEF SpreadInv
<1>14. QED
  BY <1>9, <1>10, <1>11, <1>12, <1>13 DEF MessagesInv, NothingLost

=============================================================================
