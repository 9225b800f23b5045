-------------------------- MODULE ServerChatProofs --------------------------
(* Proofs about the chat half of the server, for any number of connections, *)
(* clients, names, keys and frames and every interleaving of the handlers.  *)
EXTENDS ServerChat, ClientManagerProofs, FiniteSetTheorems

\* Time limits of the provers for a step.
USE SMTT(6), ZenonT(20), SMTT(40)

(***************************************************************************)
(* A thread whose handler is under way, and one that has a client.         *)
(***************************************************************************)
Busy == {"find", "send", "spread", "lookup", "reply"}
Owning == {"welcome", "idle", "leaving"} \union Busy

ChatRecord ==
    [pc : {"new", "gone"} \union Owning, slot : ClientSlots,
     id : ClientIds \union {INVALID_CLIENT_ID}, frame : ChatFrames,
     target : ClientIds \union {INVALID_CLIENT_ID}, todo : Seq(ClientIds)]

\* Whatever its elements are.
ProperSeq(s) == s \in Seq({s[n] : n \in DOMAIN s})

ChatTypeOK ==
    /\ chats \in [ChatConns -> ChatRecord]
    /\ logins \in [ClientIds -> Usernames \union {NoName}]
    /\ keys \in [ClientIds -> PublicKeys \union {NoKey}]
    /\ requests = [id \in ClientIds |-> requests[id]]
    /\ \A id \in ClientIds : ProperSeq(requests[id])
    /\ accepted \in [ClientIds -> Seq(ChatFrames)]

(***************************************************************************)
(* A thread between login and removal has a client of its own, and an id   *)
(* that no other thread ever has; ids not yet given out have no history.   *)
(***************************************************************************)
ThreadsInv ==
    /\ \A c \in ChatConns :
          IF chats[c].pc = "new" THEN chats[c].id = INVALID_CLIENT_ID
          ELSE chats[c].id \in ClientIds /\ chats[c].id < next_client_id
    /\ \A c, d \in ChatConns :
          chats[c].pc # "new" /\ chats[c].id = chats[d].id => c = d
    /\ \A c \in ChatConns :
          chats[c].pc \in Owning =>
             /\ clients[chats[c].slot].active
             /\ clients[chats[c].slot].id = chats[c].id
    /\ \A c \in ChatConns :
          chats[c].pc = "welcome" =>
             /\ ~clients[chats[c].slot].ready
             /\ ~clients[chats[c].slot].outgoing_failed
             /\ requests[chats[c].id] = <<>>

\* The registry agrees with the history.
HistoryInv ==
    /\ \A id \in ClientIds :
          id >= next_client_id =>
             /\ logins[id] = NoName /\ keys[id] = NoKey
             /\ requests[id] = <<>> /\ accepted[id] = <<>>
    /\ \A i \in ClientSlots :
          clients[i].active =>
             /\ clients[i].id \in ClientIds
             /\ clients[i].username \in Usernames
             /\ logins[clients[i].id] = clients[i].username
             /\ keys[clients[i].id] = clients[i].public_key

(***************************************************************************)
(* The locals of a handler and the frame it handles.                       *)
(***************************************************************************)
Private == {"private", "CIPHERTEXT"}
Refusals == {"not_found", "invalid"}
Outcomes == Private \union Refusals
Messages == {"msg", "CIPHERTEXT"}

LastRequest(c) == requests[chats[c].id][Len(requests[chats[c].id])]

\* What a thread that handles request r, the frame "text", sends and to whom.
Fits(pc, frame, target, r, text) ==
    /\ frame.text \in {NoText, text}
    /\ frame.type \in Outcomes \union {"broadcast"} => frame.text = text
    /\ pc \in {"find", "send"} => r.type \in Messages /\ frame.type \in Private
    /\ pc = "send" /\ target # INVALID_CLIENT_ID =>
          target < next_client_id /\ logins[target] = r.name
    /\ pc = "spread" => r.type = "broadcast" /\ frame.type = "broadcast"
    /\ pc = "lookup" => r.type \notin Messages
    /\ pc \in {"find", "send", "lookup"} => r.name \in Usernames
    /\ pc = "reply" =>
          /\ frame.type \notin Private \union {"broadcast"}
          /\ r.type \in Messages => frame.type \in Refusals

HandlerOk(c) ==
    /\ Len(requests[chats[c].id]) \in 1 .. MaxRequests[c]
    /\ Fits(chats[c].pc, chats[c].frame, chats[c].target,
            LastRequest(c).frame, LastText(c))
    /\ chats[c].pc = "spread" => chats[c].todo # <<>>

HandlersInv ==
    \A c \in ChatConns :
        IF chats[c].pc \in Busy THEN HandlerOk(c)
        ELSE chats[c].frame = NoFrame

(***************************************************************************)
(* Forwarded frames carry who sent them.                                   *)
(***************************************************************************)
Authentic(f) ==
    f.type \in Private \union {"broadcast"} =>
        /\ f.text \in Texts /\ f.text[1] < next_client_id
        /\ f.name = logins[f.text[1]]
        /\ f.type = "CIPHERTEXT" => f.key = keys[f.text[1]] /\ f.key # NoKey

AuthenticInv ==
    /\ \A c \in ChatConns : Authentic(chats[c].frame)
    /\ \A id \in ClientIds : \A n \in 1 .. Len(accepted[id]) :
          Authentic(accepted[id][n])

ChatInv ==
    ClientsInv /\ ChatTypeOK /\ ThreadsInv /\ HistoryInv /\ HandlersInv
    /\ AuthenticInv

-----------------------------------------------------------------------------
(***************************************************************************)
(* The shapes of a step: what becomes of the thread that takes it.         *)
(***************************************************************************)
RequestOk(r) ==
    /\ r.type \in {"msg", "REQUEST_PK", "CIPHERTEXT"} => r.name \in Usernames
    /\ r.type \in {"REGISTER_PK", "CIPHERTEXT"} => r.key \in PublicKeys

ChatStep(c) ==
    \/ Connection(c) \/ Proceed(c)
    \/ \E r : RequestOk(r) /\ handle_client_frame(c, r)

\* Thread c goes on for the same client.
Goes(c, pc, frame, target, todo) ==
    /\ chats' \in [ChatConns -> ChatRecord]
    /\ \A d \in ChatConns \ {c} : chats'[d] = chats[d]
    /\ chats'[c].slot = chats[c].slot /\ chats'[c].id = chats[c].id
    /\ chats'[c].pc = pc /\ chats'[c].frame = frame
    /\ chats'[c].target = target /\ chats'[c].todo = todo

LEMMA NoFrameFits == /\ NoFrame \in ChatFrames /\ NoFrame.type = "help"
                     /\ NoFrame.text = NoText
BY DEF NoFrame, TextFrame, Frame, ChatFrames

LEMMA FrameFields ==
    ASSUME NEW type, NEW name, NEW key, NEW text, NEW names
    PROVE  /\ Frame(type, name, key, text, names).type = type
           /\ Frame(type, name, key, text, names).name = name
           /\ Frame(type, name, key, text, names).key = key
           /\ Frame(type, name, key, text, names).text = text
BY DEF Frame

LEMMA ThreadFields ==
    ASSUME NEW pc \in {"new", "gone"} \union Owning, NEW slot \in ClientSlots,
           NEW id \in ClientIds \union {INVALID_CLIENT_ID}
    PROVE  /\ Chat(pc, slot, id) \in ChatRecord
           /\ Chat(pc, slot, id).pc = pc /\ Chat(pc, slot, id).slot = slot
           /\ Chat(pc, slot, id).id = id /\ Chat(pc, slot, id).frame = NoFrame
           /\ Chat(pc, slot, id).target = INVALID_CLIENT_ID
           /\ Chat(pc, slot, id).todo = <<>>
<1>1. NoFrame \in ChatFrames /\ <<>> \in Seq(ClientIds)
  BY NoFrameFits
<1>2. QED
  BY <1>1 DEF Chat, ChatRecord

\* Any assignment to the record of a thread that keeps its client.
LEMMA ThreadGoes ==
    ASSUME ChatTypeOK, NEW c \in ChatConns, NEW th \in ChatRecord,
           th.id = chats[c].id, th.slot = chats[c].slot,
           chats' = [chats EXCEPT ![c] = th]
    PROVE  Goes(c, th.pc, th.frame, th.target, th.todo)
BY DEF ChatTypeOK, Goes

LEMMA ReturnsGoes ==
    ASSUME ChatTypeOK, NEW c \in ChatConns, Returns(c)
    PROVE  Goes(c, "idle", NoFrame, INVALID_CLIENT_ID, <<>>)
<1>1. chats[c] \in ChatRecord /\ chats \in [ChatConns -> ChatRecord]
  BY DEF ChatTypeOK
<1>2. PICK slot \in ClientSlots, id \in ClientIds \union {INVALID_CLIENT_ID} :
         slot = chats[c].slot /\ id = chats[c].id
  BY <1>1 DEF ChatRecord
<1>3. PICK th : th = Chat("idle", slot, id)
  OBVIOUS
<1>4. chats' = [chats EXCEPT ![c] = th]
  BY <1>1, <1>2, <1>3 DEF Returns
<1>5. /\ th \in ChatRecord /\ th.pc = "idle" /\ th.slot = slot /\ th.id = id
      /\ th.frame = NoFrame /\ th.target = INVALID_CLIENT_ID /\ th.todo = <<>>
  BY <1>3, ThreadFields DEF Owning
<1>6. QED
  BY Zenon, <1>2, <1>4, <1>5, ThreadGoes

LEMMA LeavesGoes ==
    ASSUME ChatTypeOK, NEW c \in ChatConns, Leave(c)
    PROVE  Goes(c, "gone", NoFrame, INVALID_CLIENT_ID, <<>>)
<1>1. chats[c] \in ChatRecord /\ chats \in [ChatConns -> ChatRecord]
  BY DEF ChatTypeOK
<1>2. PICK slot \in ClientSlots, id \in ClientIds \union {INVALID_CLIENT_ID} :
         slot = chats[c].slot /\ id = chats[c].id
  BY <1>1 DEF ChatRecord
<1>3. PICK th : th = Chat("gone", slot, id)
  OBVIOUS
<1>4. chats' = [chats EXCEPT ![c] = th]
  BY <1>1, <1>2, <1>3 DEF Leave
<1>5. /\ th \in ChatRecord /\ th.pc = "gone" /\ th.slot = slot /\ th.id = id
      /\ th.frame = NoFrame /\ th.target = INVALID_CLIENT_ID /\ th.todo = <<>>
  BY <1>3, ThreadFields
<1>6. QED
  BY Zenon, <1>2, <1>4, <1>5, ThreadGoes

LEMMA ReplyGoes ==
    ASSUME ChatTypeOK, NEW c \in ChatConns, NEW frame \in ChatFrames,
           ReplyWith(c, frame)
    PROVE  Goes(c, "reply", frame, chats[c].target, chats[c].todo)
<1>1. chats[c] \in ChatRecord /\ chats \in [ChatConns -> ChatRecord]
  BY DEF ChatTypeOK
<1>2. chats' = [chats EXCEPT ![c] = [chats[c] EXCEPT !.pc = "reply",
                                                     !.frame = frame]]
  BY Zenon, <1>1 DEF ReplyWith
<1>3. PICK th : th = [chats[c] EXCEPT !.pc = "reply", !.frame = frame]
  OBVIOUS
<1>4. /\ th \in ChatRecord /\ th.pc = "reply" /\ th.slot = chats[c].slot
      /\ th.id = chats[c].id /\ th.frame = frame
      /\ th.target = chats[c].target /\ th.todo = chats[c].todo
  BY Zenon, <1>1, <1>3 DEF ChatRecord, Owning, Busy
<1>5. QED
  BY Zenon, <1>2, <1>3, <1>4, ThreadGoes
-----------------------------------------------------------------------------
(***************************************************************************)
(* The recipients of a broadcast: the loop visits every slot once.         *)
(***************************************************************************)
Rank(slots, i) == Cardinality({j \in slots : j <= i})

\* The list "todo" has every member of "to" once.
Lists(todo, to) ==
    /\ \A k \in 1 .. Len(todo) : todo[k] \in to
    /\ \A k, j \in 1 .. Len(todo) : todo[k] = todo[j] => k = j
    /\ \A id \in to : \E k \in 1 .. Len(todo) : todo[k] = id

LEMMA SlotOrderLists ==
    ASSUME ClientsInv, NEW slots \in SUBSET ClientSlots, slots # {},
           \A i \in slots : clients[i].active /\ clients[i].id \in ClientIds
    PROVE  /\ InSlotOrder(slots) \in Seq(ClientIds)
           /\ InSlotOrder(slots) # <<>>
           /\ Lists(InSlotOrder(slots), {clients[i].id : i \in slots})
<1>1. /\ IsFiniteSet(slots) /\ Cardinality(slots) \in Nat
      /\ \A i \in slots : Rank(slots, i) \in 1 .. Cardinality(slots)
      /\ \A i, j \in slots : Rank(slots, i) = Rank(slots, j) => i = j
  <2>1. MAX_CLIENTS - 1 \in Int /\ ClientSlots \subseteq Nat
    BY ClientsAssumption DEF ClientSlots
  <2>2. IsFiniteSet(ClientSlots)
    <3>1. 0 \in Int
      OBVIOUS
    <3>2. QED
      BY Zenon, <2>1, <3>1, FS_Interval DEF ClientSlots
  <2>3. IsFiniteSet(slots) /\ Cardinality(slots) \in Nat
    BY Zenon, <2>2, FS_Subset, FS_CardinalityType
  <2> DEFINE Upto(i) == {j \in slots : j <= i}
  <2>4. \A i \in slots : /\ Upto(i) \in SUBSET slots /\ i \in Upto(i)
                         /\ Rank(slots, i) = Cardinality(Upto(i))
    BY <2>1 DEF Rank
  <2>5. \A i, j \in slots : i < j => /\ Upto(i) \in SUBSET Upto(j)
                                     /\ j \notin Upto(i)
    <3> SUFFICES ASSUME NEW i \in slots, NEW j \in slots, i < j
                 PROVE  Upto(i) \subseteq Upto(j) /\ j \notin Upto(i)
      OBVIOUS
    <3>1. \A k \in slots : k <= i => k <= j
      BY <2>1
    <3>2. ~(j <= i)
      BY <2>1
    <3>3. QED
      BY Zenon, <3>1, <3>2
  <2> HIDE DEF Upto
  <2>6. \A i \in slots : /\ IsFiniteSet(Upto(i)) /\ Cardinality(Upto(i)) \in Nat
                         /\ Cardinality(Upto(i)) <= Cardinality(slots)
    BY Zenon, <2>3, <2>4, FS_Subset, FS_CardinalityType
  <2>7. \A i \in slots : Cardinality(Upto(i)) # 0
    BY Zenon, <2>4, <2>6, FS_EmptySet
  <2>8. ASSUME NEW i \in slots, NEW j \in slots, i < j
        PROVE  Cardinality(Upto(i)) # Cardinality(Upto(j))
    <3>1. Upto(i) # Upto(j) /\ Upto(i) \in SUBSET Upto(j)
      BY <2>4, <2>5, <2>8
    <3>2. QED
      BY Zenon, <2>6, <3>1, FS_Subset
  <2>9. \A i, j \in slots : Rank(slots, i) = Rank(slots, j) => i = j
    BY <2>1, <2>4, <2>8
  <2>10. QED
    BY <2>3, <2>4, <2>6, <2>7, <2>9
<1>2. \A n \in 1 .. Cardinality(slots) :
         \E i \in slots : Rank(slots, i) = n
  <2> DEFINE N == Cardinality(slots)
             rank == [i \in slots |-> Rank(slots, i)]
             places == 1 .. N
  <2>1. N \in Nat /\ IsFiniteSet(slots)
    BY <1>1
  <2>2. /\ rank \in [slots -> places]
        /\ \A i, j \in slots : rank[i] = rank[j] => i = j
    BY <1>1
  <2>3. IsFiniteSet(places) /\ Cardinality(places) = N
    BY <2>1, FS_Interval
  <2>4. \A i \in slots : rank[i] = Rank(slots, i)
    OBVIOUS
  <2> HIDE DEF rank, places
  <2>5. rank \in Injection(slots, places)
    BY Zenon, <2>2 DEF Injection, IsInjective
  <2>6. rank \in Surjection(slots, places)
    BY Zenon, <2>3, <2>5, FS_Injection
  <2>7. \A n \in places : \E i \in slots : rank[i] = n
    BY Zenon, <2>6 DEF Surjection
  <2>8. QED
    BY <2>4, <2>7 DEF places
<1> DEFINE N == Cardinality(slots)
           At(n) == CHOOSE i \in slots : Cardinality({j \in slots : j <= i}) = n
           list == [n \in 1 .. N |-> clients[At(n)].id]
<1>3. N \in Nat /\ IsFiniteSet(slots)
  BY <1>1
<1>4. N # 0
  BY Zenon, <1>3, FS_EmptySet
<1>5. \A n \in 1 .. N : At(n) \in slots /\ Rank(slots, At(n)) = n
  BY Zenon, <1>2 DEF Rank
<1>6. \A i \in slots : Rank(slots, i) \in 1 .. N /\ At(Rank(slots, i)) = i
  <2>1. \A i \in slots : Rank(slots, i) \in 1 .. N
    BY <1>1
  <2> HIDE DEF At
  <2>2. \A i \in slots : /\ At(Rank(slots, i)) \in slots
                         /\ Rank(slots, At(Rank(slots, i))) = Rank(slots, i)
    BY <1>5, <2>1
  <2>3. QED
    BY <1>1, <2>1, <2>2
<1>7. InSlotOrder(slots) = list
  BY DEF InSlotOrder
<1> HIDE DEF At
<1>8. list \in Seq(ClientIds) /\ Len(list) = N
  BY <1>3, <1>5
<1>9. \A n \in 1 .. N : list[n] = clients[At(n)].id
  OBVIOUS
<1> HIDE DEF list, N
<1>10. \A i, j \in slots : clients[i].id = clients[j].id => i = j
  BY DEF ClientsInv, ClientsDistinct
<1>11. \A k, j \in 1 .. N : list[k] = list[j] => k = j
  BY <1>5, <1>9, <1>10
<1>12. Lists(list, {clients[i].id : i \in slots})
  BY <1>5, <1>6, <1>8, <1>9, <1>11 DEF Lists
<1>13. QED
  BY <1>3, <1>4, <1>7, <1>8, <1>12
-----------------------------------------------------------------------------
(***************************************************************************)
(* Lookups, and what a thread that reads a frame knows.                    *)
(***************************************************************************)
LEMMA NameFound ==
    ASSUME ClientsInv, HistoryInv, NEW name
    PROVE  /\ find_client_id(name) \in ClientIds \union {INVALID_CLIENT_ID}
           /\ find_client_id(name) # INVALID_CLIENT_ID =>
                 /\ find_client_id(name) \in ClientIds
                 /\ find_client_id(name) < next_client_id
                 /\ logins[find_client_id(name)] = name
<1>1. CASE SlotsNamed(name) = {}
  BY <1>1 DEF find_client_id
<1>2. CASE SlotsNamed(name) # {}
  <2>1. SlotsNamed(name) \in SUBSET ClientSlots
    BY DEF SlotsNamed
  <2>2. PICK i \in SlotsNamed(name) : i = Min(SlotsNamed(name))
    BY <1>2, <2>1, FirstClient
  <2>3. i \in ClientSlots /\ clients[i].active /\ clients[i].username = name
    BY <2>2 DEF SlotsNamed
  <2>4. find_client_id(name) = clients[i].id
    BY <1>2, <2>2 DEF find_client_id
  <2>5. clients[i].id \in ClientIds /\ logins[clients[i].id] = name
    BY <2>3 DEF HistoryInv
  <2>6. clients[i].id \in 1 .. next_client_id - 1 /\ next_client_id \in Nat
    BY <2>3 DEF ClientsInv, ClientsDistinct, ClientsTypeOK
  <2>7. QED
    BY <2>4, <2>5, <2>6
<1>3. QED
  BY <1>1, <1>2

LEMMA KeyFound ==
    ASSUME ClientsInv, HistoryInv, NEW id
    PROVE  /\ get_client_public_key(id) \in PublicKeys \union {NoKey}
           /\ get_client_public_key(id) # NoKey =>
                 id \in ClientIds /\ keys[id] = get_client_public_key(id)
<1>1. CASE ReadySlots(id) = {}
  BY <1>1 DEF get_client_public_key
<1>2. CASE ReadySlots(id) # {}
  <2>1. PICK i \in ClientSlots : /\ i = Min(ReadySlots(id))
                                 /\ clients[i].active /\ clients[i].id = id
    BY <1>2, RecipientSlot
  <2>2. get_client_public_key(id) = clients[i].public_key
    BY <1>2, <2>1 DEF get_client_public_key
  <2>3. clients[i].public_key \in PublicKeys \union {NoKey}
    BY OldSlot DEF Client
  <2>4. QED
    BY <2>1, <2>2, <2>3 DEF HistoryInv
<1>3. QED
  BY <1>1, <1>2

LEMMA FrameOk ==
    ASSUME NEW type \in {"private", "broadcast", "not_found", "invalid", "help",
                         "list", "PEER_PK", "CIPHERTEXT"},
           NEW name \in Usernames \union {NoName},
           NEW key \in PublicKeys \union {NoKey},
           NEW text \in Texts \union {NoText}, NEW names \in SUBSET Usernames
    PROVE  Frame(type, name, key, text, names) \in ChatFrames
BY DEF Frame, ChatFrames

LEMMA SeqFacts ==
    ASSUME NEW s, ProperSeq(s)
    PROVE  Len(s) \in Nat
<1>1. PICK S : s \in Seq(S)
  BY Zenon DEF ProperSeq
<1>2. QED
  BY <1>1

LEMMA SeqAppended ==
    ASSUME NEW s, ProperSeq(s), NEW e
    PROVE  /\ ProperSeq(Append(s, e)) /\ Len(Append(s, e)) = Len(s) + 1
           /\ \A n \in 1 .. Len(s) : Append(s, e)[n] = s[n]
           /\ Append(s, e)[Len(s) + 1] = e
<1>1. PICK S : s \in Seq(S)
  BY Zenon DEF ProperSeq
<1>2. PICK t : t = Append(s, e)
  BY Zenon
<1>3. /\ t \in Seq(S \union {e}) /\ Len(t) = Len(s) + 1 /\ Len(s) \in Nat
      /\ \A n \in 1 .. Len(s) : t[n] = s[n]
      /\ t[Len(s) + 1] = e
  BY <1>1, <1>2
<1>4. /\ t = [n \in 1 .. Len(t) |-> t[n]] /\ DOMAIN t = 1 .. Len(t)
      /\ Len(t) \in Nat
  BY <1>3
<1>5. PICK R : R = {t[n] : n \in 1 .. Len(t)}
  BY Zenon
<1>6. \A n \in 1 .. Len(t) : t[n] \in R
  BY Zenon, <1>5
<1>7. t \in Seq(R)
  BY <1>4, <1>6
<1>8. ProperSeq(t)
  BY Zenon, <1>4, <1>5, <1>7 DEF ProperSeq
<1>9. QED
  BY <1>2, <1>3, <1>8

\* The text that the thread of a connection is about to read is a new one.
LEMMA Reading ==
    ASSUME ChatInv, NEW c \in ChatConns, NEW r, NEW to, Receives(c, r, to)
    PROVE  /\ chats[c].id \in ClientIds /\ chats[c].id < next_client_id
           /\ chats[c].pc = "idle" /\ chats[c].frame = NoFrame
           /\ MyText(c) \in Texts /\ MyText(c)[1] = chats[c].id
           /\ MyText(c) # NoText
           /\ MyName(c) \in Usernames \union {NoName}
           /\ Len(requests[chats[c].id]) \in Nat
<1>1. /\ chats[c].pc = "idle" /\ chats[c].id \in ClientIds
      /\ chats[c].id < next_client_id
  BY DEF Receives, ChatInv, ThreadsInv
<1>2. chats[c].frame = NoFrame
  BY <1>1 DEF ChatInv, HandlersInv, Busy
<1>3. MyName(c) \in Usernames \union {NoName}
  BY <1>1 DEF MyName, ChatInv, ChatTypeOK
<1>4. PICK n \in Nat : n = Len(requests[chats[c].id])
  BY Zenon, <1>1, SeqFacts DEF ChatInv, ChatTypeOK
<1>5. n + 1 \in 1 .. MaxRequests[c]
  BY <1>4, ChatAssumption DEF Receives
<1>6. MyText(c) = <<chats[c].id, n + 1>>
  BY <1>4 DEF MyText
<1>7. MyText(c) \in Texts
  <2>1. PICK numbers : numbers = UNION {1 .. MaxRequests[d] : d \in ChatConns}
    BY Zenon
  <2>2. PICK k \in numbers : k = n + 1
    BY <1>5, <2>1
  <2>3. <<chats[c].id, k>> \in ClientIds \X numbers
    BY <1>1
  <2>4. QED
    BY <1>6, <2>1, <2>2, <2>3 DEF Texts
<1>8. MyText(c)[1] = chats[c].id
  BY <1>6
<1>9. QED
  BY <1>1, <1>2, <1>3, <1>4, <1>7, <1>8, ChatAssumption

-----------------------------------------------------------------------------
(***************************************************************************)
(* What the thread does next when it has read request r.                   *)
(***************************************************************************)
Begins(c, r, to, pc, frame, target, todo) ==
    /\ Goes(c, pc, frame, target, todo)
    /\ IF pc \in Busy THEN Fits(pc, frame, target, r, MyText(c))
       ELSE /\ pc \in {"idle", "leaving"} /\ frame = NoFrame
            /\ r.type \notin Messages
    /\ Authentic(frame)
    /\ r.type = "broadcast" =>
          /\ to = {clients[i].id : i \in BroadcastSlots(chats[c].id)}
          /\ IF pc = "spread" THEN todo # <<>> /\ Lists(todo, to)
             ELSE to = {}

Reads(c, r) ==
    \E to, pc, frame, target, todo :
        Receives(c, r, to) /\ Begins(c, r, to, pc, frame, target, todo)

\* The key that its client has had since, and no other client's.
KeySet(c, key) ==
    /\ register_client_public_key(chats[c].id, key)
    /\ keys' = [keys EXCEPT ![chats[c].id] = key]

\* Whatever a thread reads, it begins a handler that fits it.
LEMMA HandlerBegins ==
    ASSUME ChatInv, NEW c \in ChatConns, NEW r, RequestOk(r),
           handle_client_frame(c, r)
    PROVE  /\ Reads(c, r)
           /\ \/ UNCHANGED <<clientVars, keys>>
              \/ KeySet(c, r.key) /\ r.key \in PublicKeys
\* Refused, or answered at once.
<1>1. ASSUME NEW to, Receives(c, r, to),
             NEW type \in {"invalid", "not_found", "list", "help"},
             NEW name \in Usernames \union {NoName},
             NEW text \in {MyText(c), NoText},
             NEW names \in SUBSET Usernames,
             ReplyWith(c, Frame(type, name, NoKey, text, names)),
             r.type # "broadcast", r.type \in Messages => type \in Refusals,
             type \in Refusals => text = MyText(c)
      PROVE  Reads(c, r)
  <2>. USE <1>1
  <2>1. PICK frame : frame = Frame(type, name, NoKey, text, names)
    OBVIOUS
  <2>2. frame \in ChatFrames
    <3>1. text \in Texts \union {NoText} /\ NoKey \in PublicKeys \union {NoKey}
      BY Reading
    <3>2. QED
      BY <2>1, <3>1, FrameOk
  <2>3. frame.type = type /\ frame.text = text
    BY <2>1, FrameFields
  <2>4. Goes(c, "reply", frame, chats[c].target, chats[c].todo)
    BY <2>1, <2>2, ReplyGoes DEF ChatInv
  <2>5. Fits("reply", frame, chats[c].target, r, MyText(c))
    BY <2>3 DEF Fits, Private, Refusals, Outcomes
  <2>6. Authentic(frame)
    BY <2>3 DEF Authentic, Private
  <2>7. Begins(c, r, to, "reply", frame, chats[c].target, chats[c].todo)
    BY <2>4, <2>5, <2>6 DEF Begins, Busy
  <2>8. QED
    BY <2>7 DEF Reads
<1>2. ASSUME NEW to, Receives(c, r, to), Invalid(c), r.type # "broadcast"
      PROVE  Reads(c, r)
  <2>. USE <1>2
  <2>1. ReplyWith(c, Frame("invalid", NoName, NoKey, MyText(c), {}))
    BY DEF Invalid, TextFrame
  <2>2. QED
    BY <1>1, <2>1 DEF Refusals
\* A frame in the name of the thread's own client.
<1>3. ASSUME NEW to, Receives(c, r, to),
             NEW type \in {"private", "broadcast", "CIPHERTEXT"},
             NEW key \in PublicKeys \union {NoKey},
             type = "CIPHERTEXT" => key # NoKey /\ keys[chats[c].id] = key,
             NEW frame, frame = Frame(type, MyName(c), key, MyText(c), {})
      PROVE  /\ frame \in ChatFrames /\ frame.type = type
             /\ frame.text = MyText(c) /\ Authentic(frame)
  <2>. USE <1>3
  <2>1. /\ MyName(c) \in Usernames \union {NoName} /\ MyText(c) \in Texts
        /\ MyText(c)[1] = chats[c].id /\ chats[c].id < next_client_id
    BY Reading
  <2>2. PICK name \in Usernames \union {NoName}, text \in Texts :
           name = MyName(c) /\ text = MyText(c)
    BY <2>1
  <2>3. /\ frame.type = type /\ frame.name = name /\ frame.key = key
        /\ frame.text = text /\ frame \in ChatFrames
    BY <2>2 DEF Frame, ChatFrames
  <2>4. Authentic(frame)
    BY <2>1, <2>2, <2>3 DEF Authentic, MyName
  <2>5. QED
    BY <2>2, <2>3, <2>4
<1>4. ASSUME RecvMsg(c, r)
      PROVE  Reads(c, r)
  <2>. USE <1>4
  <2>1. /\ Receives(c, r, {}) /\ r.type = "msg" /\ r.name \in Usernames
        /\ ClientsInv /\ HistoryInv /\ ChatTypeOK
    BY DEF RecvMsg, RequestOk, ChatInv
  <2>2. CASE find_client_id(r.name) = INVALID_CLIENT_ID
    <3>1. ReplyWith(c, Frame("not_found", r.name, NoKey, MyText(c), {}))
      BY <2>2 DEF RecvMsg, TextFrame
    <3>2. r.name \in Usernames \union {NoName} /\ "not_found" \in Refusals
      BY <2>1 DEF Refusals
    <3>3. QED
      BY <1>1, <2>1, <3>1, <3>2
  <2>3. CASE find_client_id(r.name) # INVALID_CLIENT_ID
    <3>1. PICK id \in ClientIds : /\ id = find_client_id(r.name)
                                  /\ id < next_client_id /\ logins[id] = r.name
      BY <2>1, <2>3, NameFound
    <3>2. PICK frame : frame = Frame("private", MyName(c), NoKey, MyText(c), {})
      BY Zenon
    <3>3. /\ frame \in ChatFrames /\ frame.type = "private"
          /\ frame.text = MyText(c) /\ Authentic(frame)
      BY <1>3, <2>1, <3>2
    <3>4. chats[c] \in ChatRecord /\ chats \in [ChatConns -> ChatRecord]
      BY <2>1 DEF ChatTypeOK
    <3>5. chats' = [chats EXCEPT ![c] = [chats[c] EXCEPT
                       !.pc = "send", !.target = id, !.frame = frame]]
      <4>1. chats' = [chats EXCEPT ![c].pc = "send", ![c].target = id,
                                   ![c].frame = frame]
        BY <2>3, <3>1, <3>2 DEF RecvMsg, TextFrame
      <4>2. QED
        BY Zenon, <3>4, <4>1
    <3>6. PICK th : th = [chats[c] EXCEPT !.pc = "send", !.target = id,
                                          !.frame = frame]
      BY Zenon
    <3>7. /\ th \in ChatRecord /\ th.pc = "send" /\ th.slot = chats[c].slot
          /\ th.id = chats[c].id /\ th.frame = frame
          /\ th.target = id /\ th.todo = chats[c].todo
      BY Zenon, <3>3, <3>4, <3>6 DEF ChatRecord, Owning, Busy
    <3>8. Goes(c, "send", frame, id, chats[c].todo)
      BY Zenon, <2>1, <3>5, <3>6, <3>7, ThreadGoes
    <3>9. Fits("send", frame, id, r, MyText(c))
      BY <2>1, <3>1, <3>3 DEF Fits, Private, Refusals, Outcomes, Messages
    <3>10. Begins(c, r, {}, "send", frame, id, chats[c].todo)
      BY <2>1, <3>3, <3>8, <3>9 DEF Begins, Busy
    <3>11. QED
      BY <2>1, <3>10 DEF Reads
  <2>4. QED
    BY <2>2, <2>3
\* The key in a ciphertext that is forwarded is the one the sender registered.
<1>5. ASSUME RecvCiphertext(c, r)
      PROVE  Reads(c, r)
  <2>. USE <1>5
  <2>1. /\ Receives(c, r, {}) /\ r.type = "CIPHERTEXT" /\ r.name \in Usernames
        /\ ClientsInv /\ HistoryInv /\ ChatTypeOK
        /\ r.key \in PublicKeys /\ r.key # NoKey
    BY ClientsAssumption DEF RecvCiphertext, RequestOk, ChatInv
  <2>2. CASE ~(r.name \in ValidUsernames /\ KeyClaimed(c, r))
    <3>1. Invalid(c)
      BY <2>2 DEF RecvCiphertext
    <3>2. QED
      BY <1>2, <2>1, <3>1
  <2>3. CASE r.name \in ValidUsernames /\ KeyClaimed(c, r)
    <3>1. keys[chats[c].id] = r.key
      BY <2>1, <2>3, KeyFound DEF KeyClaimed
    <3>2. PICK frame :
             frame = Frame("CIPHERTEXT", MyName(c), r.key, MyText(c), {})
      BY Zenon
    <3>3. /\ frame \in ChatFrames /\ frame.type = "CIPHERTEXT"
          /\ frame.text = MyText(c) /\ Authentic(frame)
      <4>1. r.key \in PublicKeys \union {NoKey}
        BY <2>1
      <4>2. QED
        BY <1>3, <2>1, <3>1, <3>2, <4>1
    <3>4. chats[c] \in ChatRecord /\ chats \in [ChatConns -> ChatRecord]
      BY <2>1 DEF ChatTypeOK
    <3>5. chats' = [chats EXCEPT ![c] = [chats[c] EXCEPT
                       !.pc = "find", !.frame = frame]]
      <4>1. chats' = [chats EXCEPT ![c].pc = "find", ![c].frame = frame]
        BY <2>3, <3>2 DEF RecvCiphertext, ForwardedCiphertext
      <4>2. QED
        BY Zenon, <3>4, <4>1
    <3>6. PICK th : th = [chats[c] EXCEPT !.pc = "find", !.frame = frame]
      BY Zenon
    <3>7. /\ th \in ChatRecord /\ th.pc = "find" /\ th.slot = chats[c].slot
          /\ th.id = chats[c].id /\ th.frame = frame
          /\ th.target = chats[c].target /\ th.todo = chats[c].todo
      BY Zenon, <3>3, <3>4, <3>6 DEF ChatRecord, Owning, Busy
    <3>8. Goes(c, "find", frame, chats[c].target, chats[c].todo)
      BY Zenon, <2>1, <3>5, <3>6, <3>7, ThreadGoes
    <3>9. Fits("find", frame, chats[c].target, r, MyText(c))
      BY <2>1, <3>3 DEF Fits, Private, Refusals, Outcomes, Messages
    <3>10. Begins(c, r, {}, "find", frame, chats[c].target, chats[c].todo)
      BY <2>1, <3>3, <3>8, <3>9 DEF Begins, Busy
    <3>11. QED
      BY <2>1, <3>10 DEF Reads
  <2>4. QED
    BY <2>2, <2>3
<1>6. ASSUME RecvBroadcast(c, r)
      PROVE  Reads(c, r)
  <2>. USE <1>6
  <2> DEFINE slots == BroadcastSlots(chats[c].id)
             to == {clients[i].id : i \in slots}
  <2>1. /\ Receives(c, r, to) /\ r.type = "broadcast"
        /\ ClientsInv /\ HistoryInv /\ ChatTypeOK
    BY DEF RecvBroadcast, ChatInv
  <2>2. CASE slots = {}
    <3>1. Goes(c, "idle", NoFrame, INVALID_CLIENT_ID, <<>>)
      BY <2>1, <2>2, ReturnsGoes DEF RecvBroadcast
    <3>2. Authentic(NoFrame)
      BY NoFrameFits DEF Authentic, Private
    <3>3. Begins(c, r, to, "idle", NoFrame, INVALID_CLIENT_ID, <<>>)
      BY <2>1, <2>2, <3>1, <3>2 DEF Begins, Busy, Messages
    <3>4. QED
      BY <2>1, <3>3 DEF Reads
  <2>3. CASE slots # {}
    <3>1. /\ slots \in SUBSET ClientSlots
          /\ \A i \in slots : clients[i].active /\ clients[i].id \in ClientIds
      BY <2>1 DEF BroadcastSlots, HistoryInv
    <3>2. PICK todo \in Seq(ClientIds) : /\ todo = InSlotOrder(slots)
                                         /\ todo # <<>> /\ Lists(todo, to)
      BY Zenon, <2>1, <2>3, <3>1, SlotOrderLists
    <3>3. PICK frame :
             frame = Frame("broadcast", MyName(c), NoKey, MyText(c), {})
      BY Zenon
    <3>4. /\ frame \in ChatFrames /\ frame.type = "broadcast"
          /\ frame.text = MyText(c) /\ Authentic(frame)
      <4> HIDE DEF to
      <4>1. QED
        BY <1>3, <2>1, <3>3
    <3>5. chats[c] \in ChatRecord /\ chats \in [ChatConns -> ChatRecord]
      BY <2>1 DEF ChatTypeOK
    <3>6. chats' = [chats EXCEPT ![c] = [chats[c] EXCEPT
                       !.pc = "spread", !.todo = todo, !.frame = frame]]
      <4>1. chats' = [chats EXCEPT ![c].pc = "spread", ![c].todo = todo,
                                   ![c].frame = frame]
        BY <2>3, <3>2, <3>3 DEF RecvBroadcast, TextFrame
      <4>2. QED
        BY Zenon, <3>5, <4>1
    <3>7. PICK th : th = [chats[c] EXCEPT !.pc = "spread", !.todo = todo,
                                          !.frame = frame]
      BY Zenon
    <3>8. /\ th \in ChatRecord /\ th.pc = "spread" /\ th.slot = chats[c].slot
          /\ th.id = chats[c].id /\ th.frame = frame
          /\ th.target = chats[c].target /\ th.todo = todo
      BY Zenon, <3>4, <3>5, <3>7 DEF ChatRecord, Owning, Busy
    <3>9. Goes(c, "spread", frame, chats[c].target, todo)
      BY Zenon, <2>1, <3>6, <3>7, <3>8, ThreadGoes
    <3>10. Fits("spread", frame, chats[c].target, r, MyText(c))
      BY <2>1, <3>4 DEF Fits
    <3>11. Begins(c, r, to, "spread", frame, chats[c].target, todo)
      BY <3>2, <3>4, <3>9, <3>10 DEF Begins, Busy
    <3>12. QED
      BY <2>1, <3>11 DEF Reads
  <2>4. QED
    BY <2>2, <2>3
<1>7. ASSUME RecvList(c, r)
      PROVE  Reads(c, r)
  <2>. USE <1>7
  <2>1. PICK to : Receives(c, r, to)
    BY DEF RecvList
  <2>2. \A i \in ListedSlots : clients[i].username \in Usernames
    <3>1. \A i \in ListedSlots : i \in ClientSlots /\ clients[i].active
      BY Zenon DEF ListedSlots
    <3>2. QED
      BY <3>1 DEF ChatInv, HistoryInv
  <2>3. PICK names \in SUBSET Usernames :
           names = {clients[i].username : i \in ListedSlots}
    BY Zenon, <2>2
  <2>4. PICK text \in {MyText(c), NoText} : text = MyText(c)
    BY Zenon
  <2>5. /\ ReplyWith(c, Frame("list", NoName, NoKey, text, names))
        /\ r.type # "broadcast" /\ r.type \notin Messages
    BY <2>3, <2>4 DEF RecvList, Messages
  <2>6. "list" \notin Refusals
    BY DEF Refusals
  <2>7. QED
    BY <1>1, <2>1, <2>5, <2>6
<1>8. ASSUME RecvRequest(c, r)
      PROVE  Reads(c, r)
  <2>. USE <1>8
  <2>1. /\ Receives(c, r, {}) /\ r.type = "REQUEST_PK" /\ r.name \in Usernames
        /\ ClientsInv /\ HistoryInv /\ ChatTypeOK
    BY DEF RecvRequest, RequestOk, ChatInv
  <2>2. CASE r.name \notin ValidUsernames
    BY <1>2, <2>1, <2>2 DEF RecvRequest
  <2>3. CASE r.name \in ValidUsernames
    <3>1. PICK id \in ClientIds \union {INVALID_CLIENT_ID} :
             id = find_client_id(r.name)
      BY <2>1, NameFound
    <3>2. chats[c] \in ChatRecord /\ chats \in [ChatConns -> ChatRecord]
      BY <2>1 DEF ChatTypeOK
    <3>3. chats' = [chats EXCEPT ![c] = [chats[c] EXCEPT
                       !.pc = "lookup", !.target = id]]
      <4>1. chats' = [chats EXCEPT ![c].pc = "lookup", ![c].target = id]
        BY <2>3, <3>1 DEF RecvRequest
      <4>2. QED
        BY Zenon, <3>2, <4>1
    <3>4. PICK th : th = [chats[c] EXCEPT !.pc = "lookup", !.target = id]
      BY Zenon
    <3>5. /\ th \in ChatRecord /\ th.pc = "lookup" /\ th.slot = chats[c].slot
          /\ th.id = chats[c].id /\ th.frame = chats[c].frame
          /\ th.target = id /\ th.todo = chats[c].todo
      BY Zenon, <3>2, <3>4 DEF ChatRecord, Owning, Busy
    <3>6. Goes(c, "lookup", NoFrame, id, chats[c].todo)
      <4>1. chats[c].frame = NoFrame
        BY <2>1, Reading
      <4>2. QED
        BY Zenon, <2>1, <3>3, <3>4, <3>5, <4>1, ThreadGoes
    <3>7. /\ Fits("lookup", NoFrame, id, r, MyText(c)) /\ Authentic(NoFrame)
      BY <2>1, NoFrameFits
         DEF Fits, Authentic, Private, Refusals, Outcomes, Messages
    <3>8. Begins(c, r, {}, "lookup", NoFrame, id, chats[c].todo)
      BY <2>1, <3>6, <3>7 DEF Begins, Busy
    <3>9. QED
      BY <2>1, <3>8 DEF Reads
  <2>4. QED
    BY <2>2, <2>3
<1>9. ASSUME RecvOther(c, r)
      PROVE  Reads(c, r)
  <2>. USE <1>9
  <2>1. /\ Receives(c, r, {}) /\ r.type \in {"help", "bad", "quit"}
        /\ r.type \notin Messages /\ r.type # "broadcast" /\ ChatTypeOK
    BY DEF RecvOther, ChatInv, Messages
  <2>2. CASE ReplyWith(c, NoFrame)
    <3>1. PICK text \in {MyText(c), NoText} : text = NoText
      BY Zenon
    <3>2. ReplyWith(c, Frame("help", NoName, NoKey, text, {}))
      BY <2>2, <3>1 DEF NoFrame, TextFrame
    <3>3. "help" \notin Refusals
      BY DEF Refusals
    <3>4. QED
      BY <1>1, <2>1, <3>2, <3>3
  <2>3. CASE Invalid(c)
    BY <1>2, <2>1, <2>3
  <2>4. CASE UNCHANGED chats \/ chats' = [chats EXCEPT ![c].pc = "leaving"]
    <3>1. chats[c] \in ChatRecord /\ chats \in [ChatConns -> ChatRecord]
      BY <2>1 DEF ChatTypeOK
    <3>2. chats[c].frame = NoFrame /\ chats[c].pc = "idle"
      BY <2>1, Reading
    <3>3. PICK pc \in {"idle", "leaving"} :
             chats' = [chats EXCEPT ![c] = [chats[c] EXCEPT !.pc = pc]]
      <4>1. UNCHANGED chats =>
               chats' = [chats EXCEPT ![c] = [chats[c] EXCEPT !.pc = "idle"]]
        BY <3>1, <3>2 DEF ChatRecord
      <4>2. chats' = [chats EXCEPT ![c].pc = "leaving"] =>
               chats' = [chats EXCEPT ![c] = [chats[c] EXCEPT !.pc = "leaving"]]
        BY Zenon, <3>1
      <4>3. QED
        BY Zenon, <2>4, <4>1, <4>2
    <3>4. PICK th : th = [chats[c] EXCEPT !.pc = pc]
      BY Zenon
    <3>5. /\ th \in ChatRecord /\ th.pc = pc /\ th.slot = chats[c].slot
          /\ th.id = chats[c].id /\ th.frame = chats[c].frame
          /\ th.target = chats[c].target /\ th.todo = chats[c].todo
      BY Zenon, <3>1, <3>4 DEF ChatRecord, Owning
    <3>6. Goes(c, pc, NoFrame, chats[c].target, chats[c].todo)
      BY Zenon, <2>1, <3>2, <3>3, <3>4, <3>5, ThreadGoes
    <3>7. Authentic(NoFrame)
      BY NoFrameFits DEF Authentic, Private
    <3>8. Begins(c, r, {}, pc, NoFrame, chats[c].target, chats[c].todo)
      BY <2>1, <3>6, <3>7 DEF Begins, Busy
    <3>9. QED
      BY <2>1, <3>8 DEF Reads
  <2>5. QED
    BY Zenon, <2>2, <2>3, <2>4 DEF RecvOther
<1>10. ASSUME RecvRegister(c, r)
       PROVE  /\ Reads(c, r)
              /\ UNCHANGED <<clientVars, keys>> \/ KeySet(c, r.key)
  <2>. USE <1>10
  <2>1. /\ Receives(c, r, {}) /\ r.type = "REGISTER_PK" /\ ChatTypeOK
        /\ r.type \notin Messages /\ r.type # "broadcast"
    BY DEF RecvRegister, ChatInv, Messages
  <2>2. CASE Invalid(c) /\ UNCHANGED <<clientVars, keys>>
    BY <1>2, <2>1, <2>2
  <2>3. CASE KeySet(c, r.key) /\ UNCHANGED chats
    <3>1. chats[c] \in ChatRecord /\ chats \in [ChatConns -> ChatRecord]
      BY <2>1 DEF ChatTypeOK
    <3>2. chats[c].frame = NoFrame /\ chats[c].pc = "idle"
      BY <2>1, Reading
    <3>3. Goes(c, "idle", NoFrame, chats[c].target, chats[c].todo)
      BY <2>3, <3>1, <3>2 DEF Goes
    <3>4. Authentic(NoFrame)
      BY NoFrameFits DEF Authentic, Private
    <3>5. Begins(c, r, {}, "idle", NoFrame, chats[c].target, chats[c].todo)
      BY <2>1, <3>3, <3>4 DEF Begins, Busy
    <3>6. QED
      BY <2>1, <2>3, <3>5 DEF Reads
  <2>4. QED
    BY Zenon, <2>2, <2>3 DEF RecvRegister, KeySet
<1>11. CASE RecvRegister(c, r)
  <2>1. r.key \in PublicKeys
    BY <1>11 DEF RecvRegister, RequestOk
  <2>2. QED
    BY <1>10, <1>11, <2>1
<1>12. CASE ~RecvRegister(c, r)
  <2>1. UNCHANGED <<clientVars, keys>>
    BY Zenon, <1>12 DEF handle_client_frame, RecvMsg, RecvCiphertext,
                RecvBroadcast, RecvList, RecvRequest, RecvOther
  <2>2. Reads(c, r)
    BY Zenon, <1>4, <1>5, <1>6, <1>7, <1>12, 
       <1>8, <1>9 DEF handle_client_frame
  <2>3. QED
    BY <2>1, <2>2
<1>13. QED
  BY <1>11, <1>12
-----------------------------------------------------------------------------
(***************************************************************************)
(* The parts of the invariant, over the shapes of the steps.               *)
(***************************************************************************)
\* Who logged in under an id, and the key registered for it, stay.
Grows ==
    /\ next_client_id' >= next_client_id
    /\ \A id \in ClientIds :
          id < next_client_id =>
             /\ logins'[id] = logins[id]
             /\ keys[id] # NoKey => keys'[id] = keys[id]

\* Frames are queued for ids that have been given out.
Queued(frame) ==
    \/ UNCHANGED accepted
    \/ \E id \in ClientIds :
          /\ id < next_client_id
          /\ accepted' = [accepted EXCEPT ![id] = Append(@, frame)]

LEMMA AcceptedGrows ==
    ASSUME ChatTypeOK, NEW frame \in ChatFrames, Queued(frame)
    PROVE  /\ accepted' \in [ClientIds -> Seq(ChatFrames)]
           /\ \A id \in ClientIds : \A n \in 1 .. Len(accepted'[id]) :
                 \/ accepted'[id][n] = frame
                 \/ n \in 1 .. Len(accepted[id])
                    /\ accepted'[id][n] = accepted[id][n]
           /\ \A id \in ClientIds : id >= next_client_id /\ next_client_id \in Nat
                 => accepted'[id] = accepted[id]
<1>1. accepted \in [ClientIds -> Seq(ChatFrames)]
  BY DEF ChatTypeOK
<1>2. CASE UNCHANGED accepted
  BY <1>1, <1>2
<1>3. CASE ~UNCHANGED accepted
  <2>1. PICK o \in ClientIds :
           /\ o < next_client_id
           /\ accepted' = [accepted EXCEPT ![o] = Append(@, frame)]
    BY <1>3 DEF Queued
  <2>2. PICK s \in Seq(ChatFrames) : s = accepted[o]
    BY <1>1
  <2>3. PICK t : t = Append(s, frame)
    BY Zenon
  <2>4. accepted' = [accepted EXCEPT ![o] = t]
    BY <1>1, <2>1, <2>2, <2>3
  <2>5. /\ t \in Seq(ChatFrames)
        /\ \A n \in 1 .. Len(t) : \/ t[n] = frame
                                  \/ n \in 1 .. Len(s) /\ t[n] = s[n]
    BY <2>3
  <2>6. \A id \in ClientIds : id >= next_client_id /\ next_client_id \in Nat
           => id # o
    BY <2>1, ClientIdsAssumption
  <2>7. QED
    BY <1>1, <2>2, <2>4, <2>5, <2>6
<1>4. QED
  BY <1>2, <1>3

LEMMA AuthenticStays ==
    ASSUME ChatInv, ClientsTypeOK', Grows, NEW c \in ChatConns,
           NEW frame \in ChatFrames, Queued(frame), Authentic(frame),
           \A d \in ChatConns \ {c} : chats'[d] = chats[d],
           Authentic(chats'[c].frame)
    PROVE  AuthenticInv'
<1>1. ASSUME ClientsTypeOK, NEW f, Authentic(f)
      PROVE  Authentic(f)'
  <2>. USE <1>1
  <2> SUFFICES ASSUME f.type \in Private \union {"broadcast"}
               PROVE  Authentic(f)'
    BY DEF Authentic
  <2>1. /\ f.text \in Texts /\ f.text[1] < next_client_id
        /\ f.name = logins[f.text[1]]
        /\ f.type = "CIPHERTEXT" => f.key = keys[f.text[1]] /\ f.key # NoKey
    BY DEF Authentic
  <2>2. PICK id \in ClientIds : id = f.text[1]
    <3>1. PICK S : S = UNION {1 .. MaxRequests[d] : d \in ChatConns}
      BY Zenon
    <3>2. f.text \in ClientIds \X S
      BY Zenon, <2>1, <3>1 DEF Texts
    <3>3. QED
      BY <3>2
  <2>3. id < next_client_id' /\ logins'[id] = logins[id]
    BY <2>1, <2>2, ClientIdsAssumption DEF Grows, ClientsTypeOK
  <2>4. f.type = "CIPHERTEXT" => keys'[id] = keys[id]
    BY <2>1, <2>2 DEF Grows
  <2>5. QED
    BY <2>1, <2>2, <2>3, <2>4 DEF Authentic
<1>2. ClientsTypeOK /\ ChatTypeOK
  BY DEF ChatInv, ClientsInv
<1>3. \A d \in ChatConns : Authentic(chats'[d].frame)
  BY DEF ChatInv, AuthenticInv
<1>4. \A id \in ClientIds : \A n \in 1 .. Len(accepted'[id]) :
         Authentic(accepted'[id][n])
  BY <1>2, AcceptedGrows DEF ChatInv, AuthenticInv
<1>5. ASSUME NEW d \in ChatConns PROVE Authentic(chats[d].frame)'
  <2>1. PICK f : f = chats'[d].frame
    BY Zenon
  <2>2. Authentic(f)'
    BY <1>1, <1>2, <1>3, <2>1
  <2>3. QED
    BY <2>1, <2>2 DEF Authentic
<1>6. ASSUME NEW id \in ClientIds, NEW n \in 1 .. Len(accepted'[id])
      PROVE  Authentic(accepted[id][n])'
  <2>1. PICK f : f = accepted'[id][n]
    BY Zenon
  <2>2. Authentic(f)'
    BY <1>1, <1>2, <1>4, <2>1
  <2>3. QED
    BY <2>1, <2>2 DEF Authentic
<1>7. QED
  BY <1>5, <1>6 DEF AuthenticInv

\* A thread that has a client goes on with it.
LEMMA GoesKeepsThreads ==
    ASSUME ChatInv, NEW c \in ChatConns, chats[c].pc \in Owning,
           NEW pc \in Owning, pc # "welcome", NEW frame, NEW target, NEW todo,
           Goes(c, pc, frame, target, todo), OwnersKept,
           \A id \in ClientIds \ {chats[c].id} : requests'[id] = requests[id]
    PROVE  ThreadsInv'
<1>1. /\ ThreadsInv /\ next_client_id' = next_client_id
      /\ \A d \in ChatConns : chats[d].slot \in ClientSlots
  BY DEF ChatInv, ChatTypeOK, ChatRecord, OwnersKept
<1>2. chats[c].pc # "new" /\ pc # "new"
  BY DEF Owning, Busy
<1>3. \A d \in ChatConns :
         /\ chats'[d].id = chats[d].id /\ chats'[d].slot = chats[d].slot
         /\ chats'[d].pc = "new" <=> chats[d].pc = "new"
         /\ chats'[d].pc \in Owning <=> chats[d].pc \in Owning
         /\ chats'[d].pc = "welcome" => d # c /\ chats[d].pc = "welcome"
  BY <1>2 DEF Goes
<1>4. \A d \in ChatConns :
         chats'[d].pc = "welcome" =>
            /\ chats[d].id \in ClientIds /\ chats[d].id # chats[c].id
            /\ chats[d].pc \in Owning
  BY <1>1, <1>2, <1>3 DEF ThreadsInv, Owning
<1>5. /\ \A d \in ChatConns :
            IF chats'[d].pc = "new" THEN chats'[d].id = INVALID_CLIENT_ID
            ELSE chats'[d].id \in ClientIds /\ chats'[d].id < next_client_id'
      /\ \A d, e \in ChatConns :
            chats'[d].pc # "new" /\ chats'[d].id = chats'[e].id => d = e
  BY <1>1, <1>3 DEF ThreadsInv
<1>6. \A d \in ChatConns :
         chats'[d].pc \in Owning =>
            /\ clients'[chats'[d].slot].active
            /\ clients'[chats'[d].slot].id = chats'[d].id
  BY <1>1, <1>3 DEF ThreadsInv, OwnersKept
<1>7. \A d \in ChatConns :
         chats'[d].pc = "welcome" =>
            /\ ~clients'[chats'[d].slot].ready
            /\ ~clients'[chats'[d].slot].outgoing_failed
            /\ requests'[chats'[d].id] = <<>>
  BY <1>1, <1>3, <1>4 DEF ThreadsInv, OwnersKept
<1>8. QED
  BY <1>5, <1>6, <1>7 DEF ThreadsInv

\* The registry and its history, when no key is registered.
LEMMA KeepsHistory ==
    ASSUME ChatInv, OwnersKept, KeysKept, UNCHANGED <<logins, keys>>,
           \A id \in ClientIds :
              id >= next_client_id => /\ requests'[id] = requests[id]
                                      /\ accepted'[id] = accepted[id]
    PROVE  HistoryInv'
BY DEF ChatInv, HistoryInv, OwnersKept, KeysKept

\* The handlers of the other threads are not disturbed.
LEMMA KeepsHandlers ==
    ASSUME ChatInv, ClientsTypeOK', Grows, NEW c \in ChatConns,
           \A d \in ChatConns \ {c} : chats'[d] = chats[d],
           \A d \in ChatConns \ {c} : chats[d].pc # "new" =>
              requests'[chats[d].id] = requests[chats[d].id],
           IF chats'[c].pc \in Busy THEN HandlerOk(c)'
           ELSE chats'[c].frame = NoFrame
    PROVE  HandlersInv'
<1>1. ASSUME NEW d \in ChatConns \ {c}
      PROVE  IF chats'[d].pc \in Busy THEN HandlerOk(d)'
             ELSE chats'[d].frame = NoFrame
  <2>1. chats'[d] = chats[d]
    OBVIOUS
  <2>2. CASE chats[d].pc \notin Busy
    BY <2>1, <2>2 DEF ChatInv, HandlersInv
  <2>3. CASE chats[d].pc \in Busy
    <3>1. HandlerOk(d) /\ requests'[chats[d].id] = requests[chats[d].id]
      BY <2>3 DEF ChatInv, HandlersInv, Busy
    <3>2. PICK target : target = chats[d].target
      BY Zenon
    <3>3. /\ target \in ClientIds \union {INVALID_CLIENT_ID}
          /\ next_client_id \in Nat /\ next_client_id' \in Nat
      BY <3>2 DEF ChatInv, ChatTypeOK, ChatRecord, ClientsInv, ClientsTypeOK
    <3>4. target # INVALID_CLIENT_ID /\ target < next_client_id =>
             target < next_client_id' /\ logins'[target] = logins[target]
      BY <3>3, ClientIdsAssumption DEF Grows
    <3>5. LastRequest(d)' = LastRequest(d) /\ LastText(d)' = LastText(d)
      BY <2>1, <3>1 DEF LastRequest, LastText
    <3>6. PICK pc, frame, r, text :
             /\ pc = chats[d].pc /\ frame = chats[d].frame
             /\ r = LastRequest(d).frame /\ text = LastText(d)
      BY Zenon
    <3>7. Fits(pc, frame, target, r, text)
      BY <3>1, <3>2, <3>6 DEF HandlerOk
    <3>8. Fits(pc, frame, target, r, text)'
      BY <3>4, <3>7 DEF Fits
    <3>9. HandlerOk(d)'
      BY <2>1, <3>1, <3>2, <3>5, <3>6, <3>8 DEF HandlerOk
    <3>10. QED
      BY <2>1, <2>3, <3>9
  <2>4. QED
    BY <2>2, <2>3
<1>2. QED
  BY <1>1 DEF HandlersInv

\* Ids identify threads, and so does a text.
LEMMA OwnId ==
    ASSUME ChatInv, NEW c \in ChatConns, chats[c].pc # "new"
    PROVE  /\ chats[c].id \in ClientIds /\ chats[c].id < next_client_id
           /\ \A d \in ChatConns \ {c} : chats[d].id # chats[c].id
BY DEF ChatInv, ThreadsInv

\* All parts together, for a thread that has a client and goes on with it.
LEMMA ThreadStepKeepsInv ==
    ASSUME ChatInv, ClientsInv', NEW c \in ChatConns, chats[c].pc \in Owning,
           NEW pc \in Owning, pc # "welcome", NEW frame \in ChatFrames,
           NEW target, NEW todo, Goes(c, pc, frame, target, todo),
           Authentic(frame), OwnersKept, Grows, Queued(chats[c].frame),
           logins' = logins, keys' \in [ClientIds -> PublicKeys \union {NoKey}],
           requests' = [id \in ClientIds |-> requests'[id]],
           \A id \in ClientIds : ProperSeq(requests'[id]),
           \A id \in ClientIds \ {chats[c].id} : requests'[id] = requests[id],
           (KeysKept /\ keys' = keys) \/ HistoryInv',
           IF pc \in Busy THEN HandlerOk(c)' ELSE frame = NoFrame
    PROVE  ChatInv'
<1>1. /\ ChatTypeOK /\ ClientsTypeOK /\ ClientsTypeOK'
      /\ chats[c].frame \in ChatFrames /\ Authentic(chats[c].frame)
  BY DEF ChatInv, ChatTypeOK, ChatRecord, ClientsInv, AuthenticInv
<1>2. /\ chats[c].pc # "new" /\ chats[c].id \in ClientIds
      /\ chats[c].id < next_client_id /\ next_client_id \in Nat
  BY <1>1, OwnId DEF Owning, Busy, ClientsTypeOK
<1>3. ChatTypeOK'
  BY <1>1, AcceptedGrows DEF ChatTypeOK, Goes
<1>4. ThreadsInv'
  BY Zenon, GoesKeepsThreads
<1>5. HistoryInv'
  <2>1. \A id \in ClientIds :
           id >= next_client_id => /\ requests'[id] = requests[id]
                                   /\ accepted'[id] = accepted[id]
    BY <1>1, <1>2, AcceptedGrows, ClientIdsAssumption
  <2>2. QED
    BY <2>1, KeepsHistory
<1>6. HandlersInv'
  <2>1. \A d \in ChatConns \ {c} : chats[d].pc # "new" =>
           requests'[chats[d].id] = requests[chats[d].id]
    BY <1>2, OwnId
  <2>2. /\ \A d \in ChatConns \ {c} : chats'[d] = chats[d]
        /\ IF chats'[c].pc \in Busy THEN HandlerOk(c)'
           ELSE chats'[c].frame = NoFrame
    BY DEF Goes
  <2>3. QED
    BY Zenon, <1>1, <2>1, <2>2, KeepsHandlers
<1>7. AuthenticInv'
  BY Zenon, <1>1, AuthenticStays DEF Goes
<1>8. QED
  BY <1>3, <1>4, <1>5, <1>6, <1>7 DEF ChatInv
-----------------------------------------------------------------------------
(***************************************************************************)
(* The steps.                                                              *)
(***************************************************************************)
LEMMA FramesFit == ChatFrames \subseteq Frames
BY ChatFramesAssumption

\* A send, to whatever id: only a client that is there has the frame queued.
LEMMA SendResult ==
    ASSUME ChatInv, NEW id, NEW frame \in ChatFrames, Send(id, frame)
    PROVE  /\ ClientsInv' /\ OwnersKept /\ KeysKept /\ Queued(frame)
           /\ SendSucceeds(id, frame) =>
                 /\ id \in ClientIds /\ id < next_client_id
                 /\ accepted' = [accepted EXCEPT ![id] = Append(@, frame)]
<1>1. ClientsInv /\ HistoryInv /\ frame \in Frames
  BY FramesFit DEF ChatInv
<1>2. Enqueue(id, frame) \/ EnqueueFails(id)
  BY DEF Send, SendSucceeds, SendFails
<1>3. ClientsInv'
  BY <1>1, <1>2, EnqueueKeepsInv, EnqueueFailsKeepsInv
<1>4. OwnersKept /\ KeysKept
  BY <1>1, <1>2, QueueKeepsOwners
<1>5. ASSUME SendSucceeds(id, frame)
      PROVE  /\ id \in ClientIds /\ id < next_client_id
             /\ accepted' = [accepted EXCEPT ![id] = Append(@, frame)]
  <2>1. ReadySlots(id) # {}
    BY <1>5 DEF SendSucceeds, Enqueue, QueueResult
  <2>2. PICK i \in ClientSlots : clients[i].active /\ clients[i].id = id
    BY <2>1, RecipientSlot
  <2>3. id \in ClientIds
    BY <1>1, <2>2 DEF HistoryInv
  <2>4. id \in 1 .. next_client_id - 1 /\ next_client_id \in Nat
    BY <1>1, <2>2 DEF ClientsInv, ClientsDistinct, ClientsTypeOK
  <2>5. QED
    BY <1>5, <2>3, <2>4 DEF SendSucceeds
<1>6. Queued(frame)
  BY <1>5 DEF Queued, Send, SendFails
<1>7. QED
  BY <1>3, <1>4, <1>5, <1>6

LEMMA NothingQueued ==
    ASSUME ChatInv, UNCHANGED <<logins, keys, next_client_id>>
    PROVE  Grows
BY DEF Grows, ChatInv, ClientsInv, ClientsTypeOK

\* Another thread's client is in another slot.
LEMMA OwnSlot ==
    ASSUME ChatInv, NEW c \in ChatConns, chats[c].pc \in Owning
    PROVE  /\ chats[c].slot \in ClientSlots /\ clients[chats[c].slot].active
           /\ clients[chats[c].slot].id = chats[c].id
           /\ \A d \in ChatConns \ {c} : chats[d].pc \in Owning =>
                 chats[d].slot # chats[c].slot
<1>1. \A d \in ChatConns : chats[d].slot \in ClientSlots
  BY DEF ChatInv, ChatTypeOK, ChatRecord
<1>2. chats[c].pc # "new"
  BY DEF Owning, Busy
<1>3. QED
  BY <1>1, <1>2, OwnId DEF ChatInv, ThreadsInv

\* Welcome and Leave change the thread's own slot.
LEMMA SlotStepKeepsInv ==
    ASSUME ChatInv, ClientsInv', NEW c \in ChatConns, chats[c].pc \in Owning,
           NEW pc \in {"idle", "gone"},
           Goes(c, pc, NoFrame, INVALID_CLIENT_ID, <<>>),
           UNCHANGED <<historyVars, next_client_id>>,
           \A i \in ClientSlots \ {chats[c].slot} : clients'[i] = clients[i],
           LET new == clients'[chats[c].slot]
               old == clients[chats[c].slot]
           IN  /\ pc = "idle" => new.active
               /\ new.active => /\ new.id = old.id
                                /\ new.username = old.username
                                /\ new.public_key = old.public_key
    PROVE  ChatInv'
<1>1. /\ ChatTypeOK /\ ClientsTypeOK /\ ClientsTypeOK' /\ Grows
      /\ UNCHANGED <<logins, keys, requests, accepted>>
  BY NothingQueued DEF ChatInv, ClientsInv, historyVars
<1>2. /\ chats[c].slot \in ClientSlots /\ clients[chats[c].slot].active
      /\ clients[chats[c].slot].id = chats[c].id
      /\ \A d \in ChatConns \ {c} : chats[d].pc \in Owning =>
            chats[d].slot # chats[c].slot /\ chats[d].slot \in ClientSlots
  BY OwnSlot DEF ChatInv, ChatTypeOK, ChatRecord
<1>3. ChatTypeOK'
  BY <1>1 DEF ChatTypeOK, Goes
<1>4. ThreadsInv'
  <2>1. /\ "idle" \in Owning /\ "welcome" \in Owning
        /\ "gone" \notin Owning /\ "new" \notin Owning
    BY DEF Owning, Busy
  <2>2. \A d \in ChatConns :
           /\ chats'[d].id = chats[d].id /\ chats'[d].slot = chats[d].slot
           /\ chats'[d].pc = "new" <=> chats[d].pc = "new"
           /\ d # c => chats'[d].pc = chats[d].pc
           /\ chats'[c].pc = pc
    BY <2>1 DEF Goes
  <2>3. /\ \A d \in ChatConns :
              IF chats'[d].pc = "new" THEN chats'[d].id = INVALID_CLIENT_ID
              ELSE chats'[d].id \in ClientIds /\ chats'[d].id < next_client_id'
        /\ \A d, e \in ChatConns :
              chats'[d].pc # "new" /\ chats'[d].id = chats'[e].id => d = e
    BY <2>2 DEF ChatInv, ThreadsInv
  <2>4. \A d \in ChatConns :
           chats'[d].pc \in Owning =>
              /\ clients'[chats'[d].slot].active
              /\ clients'[chats'[d].slot].id = chats'[d].id
    <3>1. \A d \in ChatConns :
             chats[d].pc \in Owning =>
                /\ clients[chats[d].slot].active
                /\ clients[chats[d].slot].id = chats[d].id
      BY DEF ChatInv, ThreadsInv
    <3>2. ASSUME NEW d \in ChatConns \ {c}, chats'[d].pc \in Owning
          PROVE  /\ chats[d].pc \in Owning
                 /\ clients'[chats[d].slot] = clients[chats[d].slot]
      BY <1>2, <2>2, <3>2
    <3>3. \A d \in ChatConns \ {c} :
             chats'[d].pc \in Owning =>
                /\ clients'[chats'[d].slot].active
                /\ clients'[chats'[d].slot].id = chats'[d].id
      BY <2>2, <3>1, <3>2
    <3>4. pc \in Owning =>
             /\ clients'[chats'[c].slot].active
             /\ clients'[chats'[c].slot].id = chats'[c].id
      BY <1>2, <2>1, <2>2
    <3>5. QED
      BY <2>2, <3>3, <3>4
  <2>5. \A d \in ChatConns :
           chats'[d].pc = "welcome" =>
              /\ ~clients'[chats'[d].slot].ready
              /\ ~clients'[chats'[d].slot].outgoing_failed
              /\ requests'[chats'[d].id] = <<>>
    <3>1. ASSUME NEW d \in ChatConns, chats'[d].pc = "welcome"
          PROVE  /\ d # c /\ chats[d].pc = "welcome"
                 /\ clients'[chats[d].slot] = clients[chats[d].slot]
      BY <1>2, <2>1, <2>2, <3>1
    <3>2. \A d \in ChatConns :
             chats[d].pc = "welcome" =>
                /\ ~clients[chats[d].slot].ready
                /\ ~clients[chats[d].slot].outgoing_failed
                /\ requests[chats[d].id] = <<>>
      BY DEF ChatInv, ThreadsInv
    <3>3. requests' = requests
      BY <1>1
    <3>4. QED
      BY <2>2, <3>1, <3>2, <3>3
  <2>6. QED
    BY <2>3, <2>4, <2>5 DEF ThreadsInv
<1>5. HistoryInv'
  <2>1. \A i \in ClientSlots : clients'[i].active =>
           /\ clients[i].active /\ clients'[i].id = clients[i].id
           /\ clients'[i].username = clients[i].username
           /\ clients'[i].public_key = clients[i].public_key
    BY <1>2
  <2>2. QED
    BY <1>1, <2>1 DEF ChatInv, HistoryInv
<1>6. HandlersInv'
  <2>1. /\ \A d \in ChatConns \ {c} : chats'[d] = chats[d]
        /\ chats'[c].pc \notin Busy /\ chats'[c].frame = NoFrame
    BY DEF Goes, Busy
  <2>2. QED
    BY <1>1, <2>1, KeepsHandlers
<1>7. AuthenticInv'
  <2>1. /\ \A d \in ChatConns \ {c} : chats'[d] = chats[d]
        /\ chats'[c].frame = NoFrame
    BY DEF Goes
  <2>2. NoFrame \in ChatFrames /\ Authentic(NoFrame) /\ Queued(NoFrame)
    BY <1>1, NoFrameFits DEF Authentic, Private, Queued
  <2>3. QED
    BY <1>1, <2>1, <2>2, AuthenticStays
<1>8. QED
  BY <1>3, <1>4, <1>5, <1>6, <1>7 DEF ChatInv

LEMMA WelcomeKeepsInv ==
    ASSUME ChatInv, NEW c \in ChatConns, Welcome(c)
    PROVE  /\ ChatInv'
           /\ Goes(c, "idle", NoFrame, INVALID_CLIENT_ID, <<>>)
<1>1. chats[c].pc = "welcome" /\ chats[c].pc \in Owning /\ ClientsInv
  BY DEF Welcome, ChatInv, Owning
<1>2. PICK i \in ClientSlots : /\ i = chats[c].slot /\ clients[i].active
                               /\ ~clients[i].ready /\ ~clients[i].outgoing_failed
  BY <1>1, OwnSlot DEF ChatInv, ThreadsInv
<1>3. activate_client(i)
  BY <1>2 DEF Welcome
<1>4. ClientsInv'
  BY <1>1, <1>2, <1>3, ActivateKeepsInv DEF OwnerActivates
<1>5. Goes(c, "idle", NoFrame, INVALID_CLIENT_ID, <<>>)
  BY ReturnsGoes DEF Welcome, ChatInv
<1>6. /\ clients' = [clients EXCEPT ![i].ready = TRUE]
      /\ clients \in [ClientSlots -> Client]
  BY <1>1, <1>3 DEF activate_client, ClientsInv, ClientsTypeOK
<1>7. /\ \A j \in ClientSlots \ {i} : clients'[j] = clients[j]
      /\ clients'[i].active /\ clients'[i].id = clients[i].id
      /\ clients'[i].username = clients[i].username
      /\ clients'[i].public_key = clients[i].public_key
  BY <1>2, <1>6 DEF Client
<1>8. UNCHANGED <<historyVars, next_client_id>>
  BY <1>3 DEF Welcome, activate_client
<1>9. ChatInv'
  BY <1>1, <1>2, <1>4, <1>5, <1>7, <1>8, SlotStepKeepsInv
<1>10. QED
  BY <1>5, <1>9

LEMMA LeaveKeepsInv ==
    ASSUME ChatInv, NEW c \in ChatConns, Leave(c)
    PROVE  /\ ChatInv'
           /\ Goes(c, "gone", NoFrame, INVALID_CLIENT_ID, <<>>)
<1>1. chats[c].pc \in Owning /\ ClientsInv
  BY DEF Leave, ChatInv, Owning
<1>2. PICK i \in ClientSlots : i = chats[c].slot /\ remove_client(i)
  BY <1>1, OwnSlot DEF Leave
<1>3. ClientsInv'
  BY <1>1, <1>2, RemoveKeepsInv
<1>4. Goes(c, "gone", NoFrame, INVALID_CLIENT_ID, <<>>)
  BY LeavesGoes DEF ChatInv
<1>5. /\ clients' = [clients EXCEPT ![i] = FreeClient]
      /\ clients \in [ClientSlots -> Client]
  BY <1>1, <1>2 DEF remove_client, ClientsInv, ClientsTypeOK
<1>6. /\ \A j \in ClientSlots \ {i} : clients'[j] = clients[j]
      /\ ~clients'[i].active
  BY <1>2, <1>5 DEF FreeClient
<1>7. UNCHANGED <<historyVars, next_client_id>>
  BY <1>2 DEF Leave, remove_client
<1>8. ChatInv'
  BY <1>1, <1>2, <1>3, <1>4, <1>6, <1>7, SlotStepKeepsInv
<1>9. QED
  BY <1>4, <1>8

LEMMA DeliverKeepsInv ==
    ASSUME ChatInv, NEW c \in ChatConns, Deliver(c)
    PROVE  ChatInv' /\ OwnersKept
<1>1. /\ chats[c].pc = "idle" /\ ClientsInv /\ ChatTypeOK
      /\ take_outgoing_frame(chats[c].id)
      /\ UNCHANGED <<chats, logins, keys, requests, accepted>>
  BY DEF Deliver, ChatInv, historyVars
<1>2. ClientsInv' /\ OwnersKept /\ KeysKept
  BY <1>1, TakeKeepsInv, TakeKeepsOwners
<1>3. /\ chats[c].pc \in Owning /\ chats[c].pc # "welcome"
      /\ chats[c].pc \notin Busy /\ chats[c].frame \in ChatFrames
      /\ chats[c].frame = NoFrame /\ Authentic(chats[c].frame)
  BY Zenon, <1>1 DEF Owning, Busy, ChatInv, ChatTypeOK, ChatRecord, HandlersInv,
              AuthenticInv
<1>4. Goes(c, chats[c].pc, chats[c].frame, chats[c].target, chats[c].todo)
  BY <1>1 DEF Goes, ChatTypeOK
<1>5. /\ keys \in [ClientIds -> PublicKeys \union {NoKey}]
      /\ requests = [id \in ClientIds |-> requests[id]]
      /\ \A id \in ClientIds : ProperSeq(requests[id])
  BY <1>1 DEF ChatTypeOK
<1>6. Grows /\ Queued(chats[c].frame)
  BY <1>1, <1>2, NothingQueued DEF OwnersKept, Queued
<1>7. ChatInv'
  BY ZenonT(40), <1>1, <1>2, <1>3, <1>4, <1>5, <1>6, ThreadStepKeepsInv
<1>8. QED
  BY <1>2, <1>7

LEMMA LoginKeepsInv ==
    ASSUME ChatInv, NEW c \in ChatConns, NEW name \in Usernames, Login(c, name)
    PROVE  /\ ChatInv' /\ Grows
           /\ chats[c].pc = "new" /\ chats'[c].pc = "welcome"
           /\ chats'[c].id = next_client_id
           /\ \A d \in ChatConns \ {c} : chats'[d] = chats[d]
           /\ next_client_id \in ClientIds
           /\ next_client_id' = next_client_id + 1
           /\ \A id \in ClientIds : ReadySlots(id)' = ReadySlots(id)
<1>1. /\ ClientsInv /\ ClientsTypeOK /\ ChatTypeOK /\ add_client(name)
      /\ chats[c].pc = "new" /\ UNCHANGED <<keys, requests, accepted>>
      /\ clients \in [ClientSlots -> Client] /\ next_client_id \in Nat
      /\ next_client_id \in ClientIds
      /\ next_client_id' = next_client_id + 1
      /\ logins' = [logins EXCEPT ![next_client_id] = name]
  BY DEF Login, ChatInv, ClientsInv, ClientsTypeOK, add_client,
         allocate_client_id
<1>2. ClientsInv' /\ ClientsTypeOK'
  BY <1>1, AddClientKeepsInv DEF ClientsInv
<1>3. PICK i \in ClientSlots : i = NewSlot /\ ~clients[i].active
  <2>1. FreeClientSlots # {} /\ FreeClientSlots \in SUBSET ClientSlots
    BY <1>1 DEF add_client, AddClientResult, FreeClientSlots
  <2>2. NewSlot \in FreeClientSlots
    BY <2>1, FirstClient DEF NewSlot
  <2>3. QED
    BY <2>2 DEF FreeClientSlots
<1>4. /\ clients'[i].active /\ clients'[i].id = next_client_id
      /\ ~clients'[i].ready /\ ~clients'[i].outgoing_failed
      /\ clients'[i].username = name /\ clients'[i].public_key = NoKey
      /\ \A j \in ClientSlots \ {i} : clients'[j] = clients[j]
  BY <1>1, <1>3 DEF add_client, allocate_client_id
<1>5. PICK th : th = Chat("welcome", i, next_client_id)
  BY Zenon
<1>6. /\ th \in ChatRecord /\ th.pc = "welcome" /\ th.slot = i
      /\ th.id = next_client_id /\ th.frame = NoFrame
  <2>1. PICK id \in ClientIds \union {INVALID_CLIENT_ID} : id = next_client_id
    BY <1>1
  <2>2. PICK pc \in {"new", "gone"} \union Owning : pc = "welcome"
    BY DEF Owning
  <2>3. th = Chat(pc, i, id)
    BY <1>5, <2>1, <2>2
  <2>4. th \in ChatRecord /\ th.pc = pc /\ th.slot = i /\ th.id = id
        /\ th.frame = NoFrame
    BY <2>3, ThreadFields
  <2>5. QED
    BY <2>1, <2>2, <2>4
<1>7. /\ chats' \in [ChatConns -> ChatRecord] /\ chats'[c] = th
      /\ \A d \in ChatConns \ {c} : chats'[d] = chats[d]
  <2>1. chats' = [chats EXCEPT ![c] = th] /\ chats \in [ChatConns -> ChatRecord]
    BY <1>1, <1>3, <1>5 DEF Login, allocate_client_id, ChatTypeOK
  <2>2. QED
    BY <1>6, <2>1
<1>8. ChatTypeOK'
  BY <1>1, <1>7 DEF ChatTypeOK
<1>9. \A d \in ChatConns :
         /\ chats[d].slot \in ClientSlots /\ chats[d].id # next_client_id
         /\ chats[d].pc \in Owning => chats[d].slot # i
         /\ chats[d].pc # "new" => chats[d].id \in Nat
  <2>1. \A d \in ChatConns : chats[d].slot \in ClientSlots
    BY <1>1 DEF ChatTypeOK, ChatRecord
  <2>2. \A d \in ChatConns : chats[d].pc # "new" =>
           chats[d].id \in Nat /\ chats[d].id < next_client_id
    BY Zenon, ClientIdsAssumption DEF ChatInv, ThreadsInv
  <2>3. \A d \in ChatConns : chats[d].pc = "new" =>
           chats[d].id = INVALID_CLIENT_ID
    BY DEF ChatInv, ThreadsInv
  <2>4. next_client_id # INVALID_CLIENT_ID
    BY <1>1, ClientIdsAssumption
  <2>5. \A d \in ChatConns : chats[d].pc \in Owning => chats[d].slot # i
    BY <1>3, OwnSlot
  <2>6. QED
    BY <1>1, <2>1, <2>2, <2>3, <2>4, <2>5
<1>10. Grows
  BY <1>1 DEF Grows, ChatTypeOK
<1>11. requests[next_client_id] = <<>> /\ keys[next_client_id] = NoKey
  BY <1>1 DEF ChatInv, HistoryInv
<1>12. ThreadsInv'
  <2>1. \A d \in ChatConns :
           IF chats'[d].pc = "new" THEN chats'[d].id = INVALID_CLIENT_ID
           ELSE chats'[d].id \in ClientIds /\ chats'[d].id < next_client_id'
    <3>1. \A d \in ChatConns :
             IF chats[d].pc = "new" THEN chats[d].id = INVALID_CLIENT_ID
             ELSE chats[d].id \in ClientIds /\ chats[d].id < next_client_id
      BY DEF ChatInv, ThreadsInv
    <3>2. next_client_id < next_client_id'
      BY <1>1
    <3>3. \A n \in Nat : n < next_client_id => n < next_client_id'
      BY <1>1
    <3>4. \A d \in ChatConns \ {c} :
             IF chats'[d].pc = "new" THEN chats'[d].id = INVALID_CLIENT_ID
             ELSE chats'[d].id \in ClientIds /\ chats'[d].id < next_client_id'
      BY <1>7, <1>9, <3>1, <3>3
    <3>5. /\ chats'[c].pc # "new" /\ chats'[c].id \in ClientIds
          /\ chats'[c].id < next_client_id'
      BY <1>1, <1>6, <1>7, <3>2
    <3>6. QED
      BY <3>4, <3>5
  <2>2. \A d, e \in ChatConns :
           chats'[d].pc # "new" /\ chats'[d].id = chats'[e].id => d = e
    <3>1. \A d, e \in ChatConns :
             chats[d].pc # "new" /\ chats[d].id = chats[e].id => d = e
      BY DEF ChatInv, ThreadsInv
    <3>2. \A d \in ChatConns \ {c} : chats'[d].id # chats'[c].id
      BY <1>6, <1>7, <1>9
    <3>3. \A d, e \in ChatConns \ {c} :
             chats'[d].pc # "new" /\ chats'[d].id = chats'[e].id => d = e
      BY <1>7, <3>1
    <3>4. QED
      BY <3>2, <3>3
  <2>3. \A d \in ChatConns :
           chats'[d].pc \in Owning =>
              /\ clients'[chats'[d].slot].active
              /\ clients'[chats'[d].slot].id = chats'[d].id
    <3>1. \A d \in ChatConns :
             chats[d].pc \in Owning =>
                /\ clients[chats[d].slot].active
                /\ clients[chats[d].slot].id = chats[d].id
      BY DEF ChatInv, ThreadsInv
    <3>2. ASSUME NEW d \in ChatConns \ {c}, chats[d].pc \in Owning
          PROVE  clients'[chats[d].slot] = clients[chats[d].slot]
      BY <1>4, <1>9, <3>2
    <3>3. \A d \in ChatConns \ {c} :
             chats'[d].pc \in Owning =>
                /\ clients'[chats'[d].slot].active
                /\ clients'[chats'[d].slot].id = chats'[d].id
      BY <1>7, <3>1, <3>2
    <3>4. /\ clients'[chats'[c].slot].active
          /\ clients'[chats'[c].slot].id = chats'[c].id
      BY <1>4, <1>6, <1>7
    <3>5. QED
      BY <3>3, <3>4
  <2>4. \A d \in ChatConns :
           chats'[d].pc = "welcome" =>
              /\ ~clients'[chats'[d].slot].ready
              /\ ~clients'[chats'[d].slot].outgoing_failed
              /\ requests'[chats'[d].id] = <<>>
    <3>1. ASSUME NEW d \in ChatConns \ {c}, chats'[d].pc = "welcome"
          PROVE  /\ chats'[d] = chats[d]
                 /\ clients'[chats[d].slot] = clients[chats[d].slot]
      BY <1>4, <1>7, <1>9, <3>1 DEF Owning
    <3>2. \A d \in ChatConns :
             chats[d].pc = "welcome" =>
                /\ ~clients[chats[d].slot].ready
                /\ ~clients[chats[d].slot].outgoing_failed
                /\ requests[chats[d].id] = <<>>
      BY DEF ChatInv, ThreadsInv
    <3>3. \A d \in ChatConns \ {c} :
             chats'[d].pc = "welcome" =>
                /\ ~clients'[chats'[d].slot].ready
                /\ ~clients'[chats'[d].slot].outgoing_failed
                /\ requests'[chats'[d].id] = <<>>
      BY <1>1, <3>1, <3>2
    <3>4. /\ ~clients'[chats'[c].slot].ready
          /\ ~clients'[chats'[c].slot].outgoing_failed
          /\ requests'[chats'[c].id] = <<>>
      BY <1>1, <1>4, <1>6, <1>7, <1>11
    <3>5. QED
      BY <3>3, <3>4
  <2>5. QED
    BY <2>1, <2>2, <2>3, <2>4 DEF ThreadsInv
<1>13. HistoryInv'
  <2>1. \A id \in ClientIds : id # next_client_id => logins'[id] = logins[id]
    BY <1>1 DEF ChatTypeOK
  <2>2. logins'[next_client_id] = name
    BY <1>1 DEF ChatTypeOK
  <2>3. \A j \in ClientSlots : clients[j].active =>
           clients[j].id # next_client_id
    BY <1>1 DEF ClientsInv, ClientsDistinct
  <2>4. \A id \in ClientIds : id >= next_client_id' =>
           id >= next_client_id /\ id # next_client_id
    BY <1>1, ClientIdsAssumption
  <2>5. \A id \in ClientIds : id >= next_client_id' =>
           /\ logins'[id] = NoName /\ keys'[id] = NoKey
           /\ requests'[id] = <<>> /\ accepted'[id] = <<>>
    BY <1>1, <2>1, <2>4 DEF ChatInv, HistoryInv
  <2>6. \A j \in ClientSlots : clients'[j].active =>
           /\ clients'[j].id \in ClientIds
           /\ clients'[j].username \in Usernames
           /\ logins'[clients'[j].id] = clients'[j].username
           /\ keys'[clients'[j].id] = clients'[j].public_key
    BY <1>1, <1>4, <1>11, <2>1, <2>2, <2>3 DEF ChatInv, HistoryInv
  <2>7. QED
    BY <2>5, <2>6 DEF HistoryInv
<1>14. HandlersInv'
  <2>1. "welcome" \notin Busy
    BY DEF Busy
  <2>2. QED
    BY <1>1, <1>2, <1>6, <1>7, <1>10, <2>1, KeepsHandlers
<1>15. AuthenticInv'
  <2>1. NoFrame \in ChatFrames /\ Authentic(NoFrame) /\ Queued(NoFrame)
    BY <1>1, NoFrameFits DEF Authentic, Private, Queued
  <2>2. QED
    BY <1>2, <1>6, <1>7, <1>10, <2>1, AuthenticStays
<1>16. \A id \in ClientIds : ReadySlots(id)' = ReadySlots(id)
  BY <1>3, <1>4 DEF ReadySlots, ActiveSlots
<1>17. QED
  BY <1>1, <1>2, <1>6, <1>7, <1>8, <1>10, <1>12, <1>13, <1>14, <1>15, <1>16
     DEF ChatInv

\* Registering a key changes it for one client, from none.
LEMMA KeySetKeeps ==
    ASSUME ChatInv, NEW c \in ChatConns, chats[c].pc = "idle",
           NEW key \in PublicKeys, KeySet(c, key),
           UNCHANGED <<logins, accepted>>,
           \A id \in ClientIds \ {chats[c].id} : requests'[id] = requests[id]
    PROVE  /\ ClientsInv' /\ OwnersKept /\ Grows /\ HistoryInv'
           /\ keys' \in [ClientIds -> PublicKeys \union {NoKey}]
<1>1. /\ ClientsInv /\ ChatTypeOK /\ HistoryInv
      /\ clients \in [ClientSlots -> Client] /\ next_client_id \in Nat
      /\ keys \in [ClientIds -> PublicKeys \union {NoKey}]
  BY DEF ChatInv, ClientsInv, ClientsTypeOK, ChatTypeOK
<1>2. PICK me \in ClientIds : me = chats[c].id /\ me < next_client_id
  BY OwnId
<1>3. ClientsInv' /\ next_client_id' = next_client_id
  BY Zenon, <1>1, RegisterKeepsInv DEF KeySet, register_client_public_key
<1>4. PICK i \in ClientSlots :
         /\ clients[i].active /\ clients[i].id = me
         /\ clients[i].public_key \in {NoKey, key}
         /\ clients' = [clients EXCEPT ![i].public_key = key]
  BY Zenon, <1>2 DEF KeySet, register_client_public_key, ReadySlots, ActiveSlots
<1>5. /\ \A j \in ClientSlots \ {i} : clients'[j] = clients[j]
      /\ clients'[i].public_key = key /\ clients'[i].active = clients[i].active
      /\ clients'[i].id = clients[i].id
      /\ clients'[i].username = clients[i].username
      /\ clients'[i].ready = clients[i].ready
      /\ clients'[i].outgoing_failed = clients[i].outgoing_failed
  BY Zenon, <1>1, <1>4 DEF Client
<1>6. keys' = [keys EXCEPT ![me] = key] /\ keys[me] \in {NoKey, key}
  BY <1>1, <1>2, <1>4 DEF KeySet, HistoryInv
<1>7. OwnersKept
  BY <1>3, <1>5 DEF OwnersKept
<1>8. keys' \in [ClientIds -> PublicKeys \union {NoKey}] /\ Grows
  BY <1>1, <1>3, <1>6 DEF Grows
<1>9. \A id \in ClientIds : id >= next_client_id => id # me
  BY <1>1, <1>2, ClientIdsAssumption
<1>10. \A j \in ClientSlots \ {i} : clients[j].active => clients[j].id # me
  BY <1>1, <1>4 DEF ClientsInv, ClientsDistinct
<1>11. HistoryInv'
  <2>1. \A id \in ClientIds : id >= next_client_id' =>
           /\ logins'[id] = NoName /\ keys'[id] = NoKey
           /\ requests'[id] = <<>> /\ accepted'[id] = <<>>
    BY <1>1, <1>2, <1>3, <1>6, <1>9 DEF HistoryInv
  <2>2. \A j \in ClientSlots : clients'[j].active =>
           /\ clients'[j].id \in ClientIds
           /\ clients'[j].username \in Usernames
           /\ logins'[clients'[j].id] = clients'[j].username
           /\ keys'[clients'[j].id] = clients'[j].public_key
    BY <1>1, <1>4, <1>5, <1>6, <1>10 DEF HistoryInv
  <2>3. QED
    BY <2>1, <2>2 DEF HistoryInv
<1>12. QED
  BY <1>3, <1>7, <1>8, <1>11

\* What a request adds to the log.
LEMMA LogGrows ==
    ASSUME ChatInv, NEW c \in ChatConns, NEW r, NEW to, Receives(c, r, to)
    PROVE  /\ requests' = [id \in ClientIds |-> requests'[id]]
           /\ \A id \in ClientIds : ProperSeq(requests'[id])
           /\ \A id \in ClientIds \ {chats[c].id} : requests'[id] = requests[id]
           /\ Len(requests'[chats[c].id]) = Len(requests[chats[c].id]) + 1
           /\ Len(requests'[chats[c].id]) \in 1 .. MaxRequests[c]
           /\ \A n \in 1 .. Len(requests[chats[c].id]) :
                 requests'[chats[c].id][n] = requests[chats[c].id][n]
           /\ requests'[chats[c].id][Len(requests'[chats[c].id])]
                 = [frame |-> r, to |-> to]
<1>1. PICK me \in ClientIds : me = chats[c].id
  BY Reading
<1>2. PICK e : e = [frame |-> r, to |-> to]
  BY Zenon
<1>3. PICK s, t : s = requests[me] /\ t = Append(s, e)
  BY Zenon
<1>4. /\ requests = [id \in ClientIds |-> requests[id]]
      /\ \A id \in ClientIds : ProperSeq(requests[id])
  BY DEF ChatInv, ChatTypeOK
<1>5. requests' = [requests EXCEPT ![me] = t]
  BY <1>1, <1>2, <1>3 DEF Receives
<1>6. /\ ProperSeq(t) /\ Len(t) = Len(s) + 1 /\ Len(s) \in Nat
      /\ \A n \in 1 .. Len(s) : t[n] = s[n]
      /\ t[Len(s) + 1] = e
  BY <1>3, <1>4, SeqAppended, SeqFacts
<1>7. /\ requests'[me] = t
      /\ \A id \in ClientIds \ {me} : requests'[id] = requests[id]
      /\ requests' = [id \in ClientIds |-> requests'[id]]
  BY <1>4, <1>5
<1>8. Len(t) \in 1 .. MaxRequests[c]
  BY <1>1, <1>3, <1>6, ChatAssumption DEF Receives
<1>9. QED
  BY Zenon, <1>1, <1>2, <1>3, <1>4, <1>6, <1>7, <1>8

LEMMA ReadKeepsInv ==
    ASSUME ChatInv, NEW c \in ChatConns, NEW r, RequestOk(r),
           handle_client_frame(c, r)
    PROVE  ChatInv' /\ OwnersKept /\ Grows
<1>1. /\ Reads(c, r)
      /\ \/ UNCHANGED <<clientVars, keys>>
         \/ KeySet(c, r.key) /\ r.key \in PublicKeys
  BY HandlerBegins
<1>2. PICK to, pc, frame, target, todo :
         Receives(c, r, to) /\ Begins(c, r, to, pc, frame, target, todo)
  BY <1>1 DEF Reads
<1>3. /\ chats[c].pc = "idle" /\ chats[c].frame = NoFrame
      /\ chats[c].pc \in Owning /\ UNCHANGED <<logins, accepted>>
      /\ chats[c].id \in ClientIds
  BY Zenon, <1>2, Reading DEF Owning, Receives
<1>4. /\ requests' = [id \in ClientIds |-> requests'[id]]
      /\ \A id \in ClientIds : ProperSeq(requests'[id])
      /\ \A id \in ClientIds \ {chats[c].id} : requests'[id] = requests[id]
  BY Zenon, <1>2, LogGrows
<1>5. /\ ClientsInv' /\ OwnersKept /\ Grows
      /\ keys' \in [ClientIds -> PublicKeys \union {NoKey}]
      /\ (KeysKept /\ keys' = keys) \/ HistoryInv'
  <2>1. CASE KeySet(c, r.key) /\ r.key \in PublicKeys
    BY <1>3, <1>4, <2>1, KeySetKeeps
  <2>2. CASE UNCHANGED <<clientVars, keys>>
    <3>1. UNCHANGED <<clients, next_client_id, keys>>
      BY <2>2 DEF clientVars
    <3>2. ClientsInv'
      BY <3>1, ClientsStepKeepsInv DEF ChatInv, clientVars
    <3>3. OwnersKept /\ KeysKept
      BY <3>1 DEF OwnersKept, KeysKept
    <3>4. Grows /\ keys' \in [ClientIds -> PublicKeys \union {NoKey}]
      BY <1>3, <3>1, NothingQueued DEF ChatInv, ChatTypeOK
    <3>5. QED
      BY <3>1, <3>2, <3>3, <3>4
  <2>3. QED
    BY <1>1, <2>1, <2>2
<1>6. /\ Goes(c, pc, frame, target, todo) /\ Authentic(frame)
      /\ pc \in Owning /\ pc # "welcome" /\ frame \in ChatFrames
      /\ IF pc \in Busy THEN Fits(pc, frame, target, r, MyText(c))
         ELSE frame = NoFrame
  <2>1. Goes(c, pc, frame, target, todo) /\ Authentic(frame)
    BY <1>2 DEF Begins
  <2>2. frame \in ChatFrames
    BY <2>1 DEF Goes, ChatRecord
  <2>3. QED
    BY <1>2, <2>1, <2>2 DEF Begins, Owning, Busy
<1>7. ASSUME pc \in Busy PROVE HandlerOk(c)'
  <2>1. Fits(pc, frame, target, r, MyText(c))
    BY <1>6, <1>7
  <2>2. PICK text : text = MyText(c)
    BY Zenon
  <2>3. logins' = logins /\ next_client_id' = next_client_id
    BY <1>3, <1>5 DEF OwnersKept
  <2>4. Fits(pc, frame, target, r, text)'
    BY <2>1, <2>2, <2>3 DEF Fits
  <2>5. /\ chats'[c].id = chats[c].id /\ chats'[c].pc = pc
        /\ chats'[c].frame = frame /\ chats'[c].target = target
        /\ chats'[c].pc = "spread" => chats'[c].todo # <<>>
    BY <1>2, <1>6, <2>1 DEF Goes, Begins, Fits
  <2>6. LastText(c)' = text
    BY Zenon, <1>2, <2>2, <2>5, LogGrows DEF LastText, MyText
  <2>7. LastRequest(c)' = [frame |-> r, to |-> to]
    BY <1>2, <2>5, LogGrows DEF LastRequest
  <2>8. LastRequest(c)'.frame = r
    BY <2>7
  <2>9. Len(requests'[chats'[c].id]) \in 1 .. MaxRequests[c]
    BY Zenon, <1>2, <2>5, LogGrows
  <2>10. QED
    BY <2>4, <2>5, <2>6, <2>8, <2>9 DEF HandlerOk
<1>8. Queued(chats[c].frame)
  BY <1>3 DEF Queued
<1>9. ChatInv'
  BY ZenonT(40), <1>3, <1>4, <1>5, <1>6, <1>7, <1>8, ThreadStepKeepsInv
<1>10. QED
  BY <1>5, <1>9
-----------------------------------------------------------------------------
(***************************************************************************)
(* The steps of a handler under way.                                       *)
(***************************************************************************)
\* The thread goes on with the request, or is done with it.
Works(c, pc, frame, target, todo) ==
    /\ Goes(c, pc, frame, target, todo)
    /\ IF pc \in Busy
       THEN Fits(pc, frame, target, LastRequest(c).frame, LastText(c))
       ELSE pc = "idle" /\ frame = NoFrame
    /\ Authentic(frame) /\ (pc = "spread" => todo # <<>>)

LEMMA Working ==
    ASSUME ChatInv, NEW c \in ChatConns, chats[c].pc \in Busy
    PROVE  /\ chats[c].id \in ClientIds /\ chats[c].id < next_client_id
           /\ chats[c].frame \in ChatFrames /\ Authentic(chats[c].frame)
           /\ Len(requests[chats[c].id]) \in 1 .. MaxRequests[c]
           /\ Fits(chats[c].pc, chats[c].frame, chats[c].target,
                   LastRequest(c).frame, LastText(c))
           /\ LastText(c) \in Texts /\ LastText(c)[1] = chats[c].id
           /\ LastText(c) # NoText
           /\ Recipient(c) = LastRequest(c).frame.name
           /\ chats[c].pc = "spread" => chats[c].todo # <<>>
<1>1. /\ chats[c].id \in ClientIds /\ chats[c].id < next_client_id
      /\ chats[c].frame \in ChatFrames /\ Authentic(chats[c].frame)
      /\ HandlerOk(c)
  BY OwnId DEF ChatInv, ChatTypeOK, ChatRecord, HandlersInv, AuthenticInv, Busy
<1>2. PICK n : n = Len(requests[chats[c].id]) /\ n \in 1 .. MaxRequests[c]
  BY <1>1 DEF HandlerOk
<1>3. LastText(c) = <<chats[c].id, n>>
  BY <1>2 DEF LastText
<1>4. LastText(c) \in Texts
  <2>1. PICK S : S = UNION {1 .. MaxRequests[d] : d \in ChatConns}
    BY Zenon
  <2>2. n \in S
    BY <1>2, <2>1
  <2>3. <<chats[c].id, n>> \in ClientIds \X S
    BY <1>1, <2>2
  <2>4. QED
    BY <1>3, <2>1, <2>3 DEF Texts
<1>5. LastText(c)[1] = chats[c].id /\ LastText(c) # NoText
  BY <1>3, <1>4, ChatAssumption
<1>6. QED
  BY <1>1, <1>4, <1>5 DEF HandlerOk, Recipient, LastRequest

\* Every step of a handler: it goes on to the next call, or it sends and
\* returns, or it sends to one recipient of a broadcast after the other.
Handles(c, pc, frame, target, todo) ==
    /\ chats[c].pc \in Busy /\ Works(c, pc, frame, target, todo)
    /\ UNCHANGED <<logins, keys, requests>>
    /\ \/ /\ chats[c].pc # "spread" /\ pc \in Busy \ {"spread"}
          /\ UNCHANGED <<clientVars, accepted>> \/ SendFails(chats[c].target)
       \/ /\ chats[c].pc = "send" /\ pc = "idle"
          /\ SendSucceeds(chats[c].target, chats[c].frame)
       \/ /\ chats[c].pc = "reply" /\ pc = "idle"
          /\ Send(chats[c].id, chats[c].frame)
       \/ /\ chats[c].pc = "spread"
          /\ Send(Head(chats[c].todo), chats[c].frame)
          /\ IF Len(chats[c].todo) = 1 THEN pc = "idle"
             ELSE pc = "spread" /\ todo = Tail(chats[c].todo)

LEMMA ProceedHandles ==
    ASSUME ChatInv, NEW c \in ChatConns, Proceed(c)
    PROVE  \E pc, frame, target, todo : Handles(c, pc, frame, target, todo)
<1>1. ASSUME Returns(c)
      PROVE  Works(c, "idle", NoFrame, INVALID_CLIENT_ID, <<>>)
  BY <1>1, ReturnsGoes, NoFrameFits DEF Works, Busy, Authentic, Private, ChatInv
<1>2. ASSUME FindRecipient(c)
      PROVE  \E target : Works(c, "send", chats[c].frame, target, chats[c].todo)
  <2>. USE <1>2
  <2>1. /\ chats[c].pc = "find" /\ chats[c].pc \in Busy
        /\ chats[c] \in ChatRecord /\ chats \in [ChatConns -> ChatRecord]
        /\ ClientsInv /\ HistoryInv /\ ChatTypeOK
    BY DEF FindRecipient, Busy, ChatInv, ChatTypeOK
  <2>2. PICK id \in ClientIds \union {INVALID_CLIENT_ID} :
           /\ id = find_client_id(Recipient(c))
           /\ id # INVALID_CLIENT_ID => id < next_client_id
                                        /\ logins[id] = Recipient(c)
    BY <2>1, NameFound
  <2>3. chats' = [chats EXCEPT ![c] = [chats[c] EXCEPT !.pc = "send",
                                                       !.target = id]]
    <3>1. chats' = [chats EXCEPT ![c].pc = "send", ![c].target = id]
      BY <2>2 DEF FindRecipient
    <3>2. QED
      BY Zenon, <2>1, <3>1
  <2>4. PICK th : th = [chats[c] EXCEPT !.pc = "send", !.target = id]
    BY Zenon
  <2>5. /\ th \in ChatRecord /\ th.pc = "send" /\ th.slot = chats[c].slot
        /\ th.id = chats[c].id /\ th.frame = chats[c].frame
        /\ th.target = id /\ th.todo = chats[c].todo
    BY Zenon, <2>1, <2>4 DEF ChatRecord, Owning, Busy
  <2>6. Goes(c, "send", chats[c].frame, id, chats[c].todo)
    BY Zenon, <2>1, <2>3, <2>4, <2>5, ThreadGoes
  <2>7. PICK r, text : r = LastRequest(c).frame /\ text = LastText(c)
    BY Zenon
  <2>8. /\ Fits("find", chats[c].frame, chats[c].target, r, text)
        /\ Authentic(chats[c].frame) /\ Recipient(c) = r.name
    BY <2>1, <2>7, Working
  <2>9. Fits("send", chats[c].frame, id, r, text)
    BY <2>2, <2>8 DEF Fits
  <2>10. Works(c, "send", chats[c].frame, id, chats[c].todo)
    BY <2>6, <2>7, <2>8, <2>9 DEF Works, Busy
  <2>11. QED
    BY <2>10
<1>3. ASSUME LookupKey(c)
      PROVE  \E frame : /\ frame.type = "PEER_PK" /\ frame.text = NoText
                        /\ Works(c, "reply", frame, chats[c].target,
                                 chats[c].todo)
  <2>. USE <1>3
  <2>1. /\ chats[c].pc = "lookup" /\ chats[c].pc \in Busy
        /\ ClientsInv /\ HistoryInv /\ ChatTypeOK
    BY DEF LookupKey, Busy, ChatInv
  <2>2. PICK r, text : r = LastRequest(c).frame /\ text = LastText(c)
    BY Zenon
  <2>3. /\ Fits("lookup", chats[c].frame, chats[c].target, r, text)
        /\ Recipient(c) = r.name
    BY <2>1, <2>2, Working
  <2>4. r.name \in Usernames /\ r.type \notin Messages
    BY <2>3 DEF Fits
  <2>5. PICK key \in PublicKeys \union {NoKey} :
           key = get_client_public_key(chats[c].target)
    BY <2>1, KeyFound
  <2>6. PICK name \in Usernames \union {NoName} : name = Recipient(c)
    BY <2>3, <2>4
  <2>7. PICK frame : frame = Frame("PEER_PK", name, key, NoText, {})
    BY Zenon
  <2>8. frame \in ChatFrames /\ frame.type = "PEER_PK" /\ frame.text = NoText
    BY <2>7 DEF Frame, ChatFrames
  <2>9. Goes(c, "reply", frame, chats[c].target, chats[c].todo)
    BY <2>1, <2>5, <2>6, <2>7, <2>8, ReplyGoes DEF LookupKey
  <2>10. Fits("reply", frame, chats[c].target, r, text) /\ Authentic(frame)
    BY <2>4, <2>8 DEF Fits, Authentic, Private, Refusals, Outcomes
  <2>11. QED
    BY <2>2, <2>8, <2>9, <2>10 DEF Works, Busy
<1>4. ASSUME SendPrivate(c)
      PROVE  \/ /\ SendSucceeds(chats[c].target, chats[c].frame)
                /\ Works(c, "idle", NoFrame, INVALID_CLIENT_ID, <<>>)
             \/ /\ SendFails(chats[c].target)
                /\ \E frame : /\ frame.type = "not_found"
                              /\ Works(c, "reply", frame, chats[c].target,
                                       chats[c].todo)
  <2>. USE <1>4
  <2>1. chats[c].pc = "send" /\ chats[c].pc \in Busy /\ ChatTypeOK
    BY DEF SendPrivate, Busy, ChatInv
  <2>2. CASE Returns(c) /\ SendSucceeds(chats[c].target, chats[c].frame)
    BY <1>1, <2>2
  <2>3. CASE /\ SendFails(chats[c].target)
             /\ ReplyWith(c, TextFrame("not_found", Recipient(c), LastText(c)))
    <3>1. PICK r, text : r = LastRequest(c).frame /\ text = LastText(c)
      BY Zenon
    <3>2. /\ Fits("send", chats[c].frame, chats[c].target, r, text)
          /\ Recipient(c) = r.name /\ text \in Texts
      BY <2>1, <3>1, Working
    <3>3. r.name \in Usernames /\ r.type \in Messages
      BY <3>2 DEF Fits
    <3>4. PICK name \in Usernames \union {NoName} : name = Recipient(c)
      BY <3>2, <3>3
    <3>5. PICK frame : frame = Frame("not_found", name, NoKey, text, {})
      BY Zenon
    <3>6. frame \in ChatFrames /\ frame.type = "not_found" /\ frame.text = text
      BY <3>2, <3>5 DEF Frame, ChatFrames
    <3>7. Goes(c, "reply", frame, chats[c].target, chats[c].todo)
      BY <2>1, <2>3, <3>1, <3>4, <3>5, <3>6, ReplyGoes DEF TextFrame
    <3>8. Fits("reply", frame, chats[c].target, r, text) /\ Authentic(frame)
      BY <3>6 DEF Fits, Authentic, Private, Refusals, Outcomes
    <3>9. QED
      BY <2>3, <3>1, <3>6, <3>7, <3>8 DEF Works, Busy
  <2>4. QED
    BY <2>2, <2>3 DEF SendPrivate
<1>5. ASSUME Spread(c)
      PROVE  /\ Send(Head(chats[c].todo), chats[c].frame)
             /\ IF Len(chats[c].todo) = 1
                THEN Works(c, "idle", NoFrame, INVALID_CLIENT_ID, <<>>)
                ELSE Works(c, "spread", chats[c].frame, chats[c].target,
                           Tail(chats[c].todo))
  <2>. USE <1>5
  <2>1. /\ chats[c].pc = "spread" /\ chats[c].pc \in Busy /\ ChatTypeOK
        /\ chats[c] \in ChatRecord /\ chats \in [ChatConns -> ChatRecord]
        /\ Send(Head(chats[c].todo), chats[c].frame)
    BY DEF Spread, Busy, ChatInv, ChatTypeOK
  <2>2. CASE Len(chats[c].todo) = 1
    BY <1>1, <2>1, <2>2 DEF Spread, SpreadRest
  <2>3. CASE Len(chats[c].todo) # 1
    <3>1. PICK todo \in Seq(ClientIds) : todo = chats[c].todo /\ todo # <<>>
      BY <2>1, Working DEF ChatRecord
    <3>2. PICK rest : rest = Tail(todo)
      BY Zenon
    <3>3. rest \in Seq(ClientIds) /\ Len(rest) = Len(todo) - 1
      BY <3>1, <3>2
    <3>4. Len(todo) \in Nat /\ Len(todo) # 0
      BY <3>1
    <3>5. Len(rest) # 0
      BY <2>3, <3>1, <3>3, <3>4
    <3>6. rest \in Seq(ClientIds) /\ rest # <<>>
      BY <3>3, <3>5
    <3>7. chats' = [chats EXCEPT ![c] = [chats[c] EXCEPT !.todo = rest]]
      BY Zenon, <2>1, <2>3, <3>1, <3>2 DEF Spread, SpreadRest
    <3>8. PICK th : th = [chats[c] EXCEPT !.todo = rest]
      BY Zenon
    <3>9. /\ th \in ChatRecord /\ th.pc = "spread" /\ th.slot = chats[c].slot
          /\ th.id = chats[c].id /\ th.frame = chats[c].frame
          /\ th.target = chats[c].target /\ th.todo = rest
      BY Zenon, <2>1, <3>6, <3>8 DEF ChatRecord
    <3>10. Goes(c, "spread", chats[c].frame, chats[c].target, rest)
      BY Zenon, <2>1, <3>7, <3>8, <3>9, ThreadGoes
    <3>11. Works(c, "spread", chats[c].frame, chats[c].target, rest)
      BY <2>1, <3>6, <3>10, Working DEF Works
    <3>12. QED
      BY <2>1, <2>3, <3>1, <3>2, <3>11
  <2>4. QED
    BY <2>1, <2>2, <2>3
<1>6. CASE FindRecipient(c)
  <2>1. PICK target : Works(c, "send", chats[c].frame, target, chats[c].todo)
    BY <1>2, <1>6
  <2>2. /\ chats[c].pc = "find" /\ UNCHANGED <<clientVars, accepted>>
        /\ UNCHANGED <<logins, keys, requests>>
    BY <1>6 DEF FindRecipient, historyVars
  <2>3. Handles(c, "send", chats[c].frame, target, chats[c].todo)
    BY <2>1, <2>2 DEF Handles, Busy
  <2>4. QED
    BY <2>3
<1>7. CASE LookupKey(c)
  <2>1. PICK frame : Works(c, "reply", frame, chats[c].target, chats[c].todo)
    BY Zenon, <1>3, <1>7
  <2>2. /\ chats[c].pc = "lookup" /\ UNCHANGED <<clientVars, accepted>>
        /\ UNCHANGED <<logins, keys, requests>>
    BY <1>7 DEF LookupKey, historyVars
  <2>3. Handles(c, "reply", frame, chats[c].target, chats[c].todo)
    BY <2>1, <2>2 DEF Handles, Busy
  <2>4. QED
    BY <2>3
<1>8. CASE SendPrivate(c)
  <2>1. /\ chats[c].pc = "send" /\ UNCHANGED <<logins, keys, requests>>
    BY <1>8 DEF SendPrivate
  <2>2. CASE /\ SendSucceeds(chats[c].target, chats[c].frame)
             /\ Works(c, "idle", NoFrame, INVALID_CLIENT_ID, <<>>)
    <3>1. Handles(c, "idle", NoFrame, INVALID_CLIENT_ID, <<>>)
      BY <2>1, <2>2 DEF Handles, Busy
    <3>2. QED
      BY <3>1
  <2>3. CASE /\ SendFails(chats[c].target)
             /\ \E frame : Works(c, "reply", frame, chats[c].target,
                                 chats[c].todo)
    <3>1. PICK frame : Works(c, "reply", frame, chats[c].target, chats[c].todo)
      BY <2>3
    <3>2. Handles(c, "reply", frame, chats[c].target, chats[c].todo)
      BY <2>1, <2>3, <3>1 DEF Handles, Busy
    <3>3. QED
      BY <3>2
  <2>4. QED
    BY Zenon, <1>4, <1>8, <2>2, <2>3
<1>9. CASE Spread(c)
  BY Zenon, <1>5, <1>9 DEF Spread, Busy, Handles
<1>10. CASE Reply(c)
  BY <1>1, <1>10 DEF Reply, Busy, Handles
<1>11. QED
  BY <1>6, <1>7, <1>8, <1>9, <1>10 DEF Proceed

LEMMA HandlesKeepsInv ==
    ASSUME ChatInv, NEW c \in ChatConns,
           NEW pc, NEW frame, NEW target, NEW todo,
           Handles(c, pc, frame, target, todo)
    PROVE  ChatInv' /\ OwnersKept /\ Queued(chats[c].frame)
\* A step of a handler that leaves keys, names and the log alone.
<1>1. ASSUME chats[c].pc \in Busy, ClientsInv',
             Works(c, pc, frame, target, todo), OwnersKept, KeysKept,
             Queued(chats[c].frame), UNCHANGED <<logins, keys, requests>>
      PROVE  ChatInv'
  <2>. USE <1>1
  <2>1. /\ chats[c].pc \in Owning /\ pc \in Owning /\ pc # "welcome"
        /\ Goes(c, pc, frame, target, todo) /\ Authentic(frame)
    BY DEF Works, Owning, Busy
  <2>2. frame \in ChatFrames
    BY <2>1 DEF Goes, ChatRecord
  <2>3. Grows
    BY NothingQueued DEF OwnersKept
  <2>4. /\ keys \in [ClientIds -> PublicKeys \union {NoKey}]
        /\ requests = [id \in ClientIds |-> requests[id]]
        /\ \A id \in ClientIds : ProperSeq(requests[id])
    BY DEF ChatInv, ChatTypeOK
  <2>5. ASSUME pc \in Busy PROVE HandlerOk(c)'
    <3>1. PICK r, text : r = LastRequest(c).frame /\ text = LastText(c)
      BY Zenon
    <3>2. Fits(pc, frame, target, r, text)
      BY <2>5, <3>1 DEF Works
    <3>3. Fits(pc, frame, target, r, text)'
      BY <3>2 DEF Fits, OwnersKept
    <3>4. /\ chats'[c].id = chats[c].id /\ chats'[c].pc = pc
          /\ chats'[c].frame = frame /\ chats'[c].target = target
          /\ chats'[c].pc = "spread" => chats'[c].todo # <<>>
      BY <2>1 DEF Goes, Works
    <3>5. LastText(c)' = text /\ LastRequest(c)'.frame = r
      BY <3>1, <3>4 DEF LastText, LastRequest
    <3>6. Len(requests'[chats'[c].id]) \in 1 .. MaxRequests[c]
      BY <3>4, Working
    <3>7. QED
      BY <3>3, <3>4, <3>5, <3>6 DEF HandlerOk
  <2>6. IF pc \in Busy THEN HandlerOk(c)' ELSE frame = NoFrame
    BY <2>5 DEF Works
  <2>7. QED
    BY ZenonT(40), <2>1, <2>2, <2>3, <2>4, <2>6, ThreadStepKeepsInv
<1>2. chats[c].pc \in Busy /\ UNCHANGED <<logins, keys, requests>>
  BY DEF Handles
<1>3. Works(c, pc, frame, target, todo)
  BY DEF Handles
<1>4. chats[c].frame \in ChatFrames
  BY <1>2, Working
<1>5. ClientsInv' /\ OwnersKept /\ KeysKept /\ Queued(chats[c].frame)
  <2>1. CASE UNCHANGED <<clientVars, accepted>>
    <3>1. UNCHANGED <<clients, next_client_id, accepted>>
      BY <2>1 DEF clientVars
    <3>2. ClientsInv'
      BY <3>1, ClientsStepKeepsInv DEF ChatInv, clientVars
    <3>3. QED
      BY <3>1, <3>2 DEF OwnersKept, KeysKept, Queued
  <2>2. CASE \E id : Send(id, chats[c].frame)
    BY <1>4, <2>2, SendResult
  <2>3. UNCHANGED <<clientVars, accepted>> \/ \E id : Send(id, chats[c].frame)
    BY DEF Handles, Send
  <2>4. QED
    BY <2>1, <2>2, <2>3
<1>6. QED
  BY <1>1, <1>2, <1>3, <1>5

LEMMA ChatStepKeepsInv ==
    ASSUME ChatInv, NEW c \in ChatConns, ChatStep(c)
    PROVE  ChatInv'
<1>1. CASE Connection(c)
  BY <1>1, LoginKeepsInv, WelcomeKeepsInv, DeliverKeepsInv, LeaveKeepsInv
     DEF Connection
<1>2. CASE Proceed(c)
  BY <1>2, ProceedHandles, HandlesKeepsInv
<1>3. CASE \E r : RequestOk(r) /\ handle_client_frame(c, r)
  BY <1>3, ReadKeepsInv
<1>4. QED
  BY <1>1, <1>2, <1>3 DEF ChatStep

LEMMA ChatInitHasInv ==
    ASSUME ChatInit
    PROVE  ChatInv
<1>1. PICK th : th = Chat("new", 0, INVALID_CLIENT_ID)
  BY Zenon
<1>2. /\ th \in ChatRecord /\ th.pc = "new" /\ th.id = INVALID_CLIENT_ID
      /\ th.frame = NoFrame
  <2>1. PICK pc \in {"new", "gone"} \union Owning, slot \in ClientSlots,
             id \in ClientIds \union {INVALID_CLIENT_ID} :
                pc = "new" /\ slot = 0 /\ id = INVALID_CLIENT_ID
    BY ClientsAssumption DEF ClientSlots
  <2>2. th = Chat(pc, slot, id)
    BY <1>1, <2>1
  <2>3. QED
    BY <2>1, <2>2, ThreadFields
<1>3. /\ \A c \in ChatConns : chats[c] = th
      /\ chats \in [ChatConns -> ChatRecord]
  BY <1>1, <1>2 DEF ChatInit
<1>4. \A id \in ClientIds : /\ logins[id] = NoName /\ keys[id] = NoKey
                            /\ requests[id] = <<>> /\ accepted[id] = <<>>
  BY DEF ChatInit
<1>5. ClientsInv /\ \A i \in ClientSlots : ~clients[i].active
  BY ClientsInitHasInv DEF ChatInit, ClientsInit, FreeClient
<1>6. ChatTypeOK
  <2>1. <<>> \in Seq(ChatFrames) /\ <<>> \in Seq({})
    OBVIOUS
  <2>2. ProperSeq(<<>>)
    BY DEF ProperSeq
  <2>3. QED
    BY <1>3, <1>4, <2>1, <2>2 DEF ChatTypeOK, ChatInit
<1>7. ThreadsInv /\ HandlersInv /\ HistoryInv
  BY <1>2, <1>3, <1>4, <1>5
     DEF ThreadsInv, HandlersInv, HistoryInv, Owning, Busy
<1>8. AuthenticInv
  <2>1. Authentic(NoFrame)
    BY NoFrameFits DEF Authentic, Private
  <2>2. \A c \in ChatConns : chats[c].frame = NoFrame
    BY Zenon, <1>2, <1>3
  <2>3. \A id \in ClientIds : \A n \in 1 .. Len(accepted[id]) : FALSE
    BY <1>4
  <2>4. QED
    BY Zenon, <2>1, <2>2, <2>3 DEF AuthenticInv
<1>9. QED
  BY <1>5, <1>6, <1>7, <1>8 DEF ChatInv

LEMMA ChatStutterKeepsInv ==
    ASSUME ChatInv, UNCHANGED chatVars
    PROVE  ChatInv'
<1>1. UNCHANGED <<clients, next_client_id, chats, logins, keys, requests,
                  accepted>>
  BY DEF chatVars, clientVars, historyVars
<1>2. ClientsInv'
  BY <1>1, ClientsStepKeepsInv DEF ChatInv, clientVars
<1>3. ChatTypeOK' /\ ThreadsInv' /\ HistoryInv'
  BY <1>1 DEF ChatInv, ChatTypeOK, ThreadsInv, HistoryInv
<1>4. HandlersInv'
  BY Zenon, <1>1
     DEF ChatInv, HandlersInv, HandlerOk, Fits, LastRequest, LastText
<1>5. AuthenticInv'
  BY <1>1 DEF ChatInv, AuthenticInv, Authentic
<1>6. QED
  BY <1>2, <1>3, <1>4, <1>5 DEF ChatInv

LEMMA RequestsOk == \A r \in Requests : RequestOk(r)
BY DEF Requests, RequestOk

LEMMA ChatNextIsStep ==
    ASSUME ChatNext
    PROVE  \E c \in ChatConns : ChatStep(c)
BY RequestsOk DEF ChatNext, ChatStep

\* The inductive invariant of the chat threads.
LEMMA ChatInvHolds == ChatSpec => []ChatInv
<1>1. ChatInit => ChatInv
  BY ChatInitHasInv
<1>2. ChatInv /\ [ChatNext]_chatVars => ChatInv'
  <2>1. SUFFICES ASSUME ChatInv, [ChatNext]_chatVars PROVE ChatInv'
    OBVIOUS
  <2>2. CASE ChatNext
    BY <2>1, <2>2, ChatNextIsStep, ChatStepKeepsInv
  <2>3. CASE UNCHANGED chatVars
    BY <2>1, <2>3, ChatStutterKeepsInv
  <2>4. QED
    BY <2>1, <2>2, <2>3
<1>3. QED
  BY <1>1, <1>2, PTL DEF ChatSpec

\* Whatever the threads of handle_client do and however their registry calls
\* interleave, a message that the server forwards carries the login name of
\* the connection it came from, and a ciphertext the key that it registered.
THEOREM SendersAreAuthentic == ChatSpec => []SenderAuthentic
<1>1. ChatInv => SenderAuthentic
  BY DEF ChatInv, AuthenticInv, Authentic, Private, SenderAuthentic
<1>2. QED
  BY <1>1, ChatInvHolds, PTL

\* The chat threads never write to a sealed queue: one that overflowed belongs
\* to a client that is being logged out, and keeps the frames it held.
THEOREM ChatSealsQueues == ChatSpec => []OverflowSealsQueue
<1>1. ChatInv => OverflowSealsQueue
  BY DEF ChatInv, ClientsInv
<1>2. QED
  BY <1>1, ChatInvHolds, PTL
=============================================================================
