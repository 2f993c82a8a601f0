------------------------- MODULE TelegramIngressProofs -------------------------
(***************************************************************************)
(* ChatHasOneConversation for any number of processes, updates, chats and  *)
(* deliveries.  It is not inductive: what keeps it is that a row is        *)
(* inserted only while the chat has none and by one delivery at a time, so *)
(* that the row of a chat never changes, and that a delivery that lost the *)
(* race finds the row there.                                               *)
(***************************************************************************)
EXTENDS TelegramIngress, TLAPS

\* Only the delivery that inserts waits for the commit, and the chat has no row then.
InsertsAlone ==
    \A d \in Deliveries :
        delivery[d].turn = "commit" => /\ inserting[Chat(d)] = d
                                       /\ mapping[Chat(d)] = "none"

\* A delivery that lost the race finds a row.
LoserFindsRow ==
    \A d \in Deliveries : delivery[d].turn = "reselect" => mapping[Chat(d)] # "none"

\* A delivery is of an update once a handler or a turn of it exists.
IsOfAnUpdate ==
    \A d \in Deliveries :
        (delivery[d].at # "unsent" \/ delivery[d].turn # "none" \/ delivery[d].by # "none") =>
            delivery[d].update \in Updates

\* A handler that has not sent its request has no turn; a turn has no scope before it
\* is answered, and is stored nowhere unless it was.
ScopeComesLater ==
    \A d \in Deliveries :
        /\ delivery[d].at = "handling" => delivery[d].turn = "none"
        /\ delivery[d].on # "none" => delivery[d].turn \in InMapping \cup {"answering"}
        /\ delivery[d].turn \in {"none"} \cup InMapping => delivery[d].scope = "none"
        /\ delivery[d].turn # "answered" => delivery[d].stored = "none"

\* The inductive invariant.
IInv ==
    /\ TypeOK
    /\ IsOfAnUpdate
    /\ InsertsAlone
    /\ LoserFindsRow
    /\ ScopeComesLater
    /\ ChatHasOneConversation
-----------------------------------------------------------------------------
(* The initial state has nothing delivered and nothing stored.             *)
LEMMA InitIInv == Init => IInv
<1> SUFFICES ASSUME Init PROVE IInv
    OBVIOUS
<1> USE DEF Init, NotSent
<1>1. TypeOK
    BY DEF TypeOK, DeliveryRecords, Conversations
<1>2. IsOfAnUpdate /\ InsertsAlone /\ LoserFindsRow
    BY DEF IsOfAnUpdate, InsertsAlone, LoserFindsRow
<1>3. ScopeComesLater /\ ChatHasOneConversation
    BY DEF ScopeComesLater, ChatHasOneConversation
<1> QED BY <1>1, <1>2, <1>3 DEF IInv

(* A step that changes one delivery, and neither table, keeps the          *)
(* invariant when the new record is sound.                                 *)
LEMMA OneDelivery ==
    ASSUME IInv, NEW d \in Deliveries, NEW r \in DeliveryRecords,
           Becomes(d, r), UNCHANGED <<mapping, inserting>>,
           (r.at # "unsent" \/ r.turn # "none" \/ r.by # "none") => r.update \in Updates,
           r.turn = "commit" => /\ inserting[ChatOf[r.update]] = d
                                /\ mapping[ChatOf[r.update]] = "none",
           r.turn = "reselect" => mapping[ChatOf[r.update]] # "none",
           r.at = "handling" => r.turn = "none",
           r.on # "none" => r.turn \in InMapping \cup {"answering"},
           r.turn \in {"none"} \cup InMapping => r.scope = "none",
           r.turn # "answered" => r.stored = "none",
           r.stored # "none" => r.stored = mapping[ChatOf[r.update]],
           r.scope # "none" => r.scope = mapping[ChatOf[r.update]]
    PROVE  IInv'
<1>1. /\ delivery'[d] = r
      /\ \A e \in Deliveries \ {d} : delivery'[e] = delivery[e]
      /\ delivery' \in [Deliveries -> DeliveryRecords]
    BY DEF IInv, TypeOK, Becomes
<1>2. TypeOK'
    BY <1>1 DEF IInv, TypeOK
<1>3. IsOfAnUpdate'
    BY <1>1 DEF IInv, IsOfAnUpdate
<1>4. InsertsAlone'
    BY <1>1 DEF IInv, InsertsAlone, Chat
<1>5. LoserFindsRow'
    BY <1>1 DEF IInv, LoserFindsRow, Chat
<1>6. ScopeComesLater'
    BY <1>1 DEF IInv, ScopeComesLater
<1>7. ChatHasOneConversation'
    BY <1>1 DEF IInv, ChatHasOneConversation, Chat
<1> QED BY <1>2, <1>3, <1>4, <1>5, <1>6, <1>7 DEF IInv

(* What the invariant says of one delivery.                                *)
LEMMA OfDelivery ==
    ASSUME IInv, NEW d \in Deliveries
    PROVE  /\ delivery[d] \in DeliveryRecords
           /\ (delivery[d].at # "unsent" \/ delivery[d].turn # "none" \/ delivery[d].by # "none") =>
                  delivery[d].update \in Updates
           /\ delivery[d].turn = "commit" => inserting[Chat(d)] = d /\ mapping[Chat(d)] = "none"
           /\ delivery[d].turn = "reselect" => mapping[Chat(d)] # "none"
           /\ delivery[d].at = "handling" => delivery[d].turn = "none"
           /\ delivery[d].on # "none" => delivery[d].turn \in InMapping \cup {"answering"}
           /\ delivery[d].turn \in {"none"} \cup InMapping => delivery[d].scope = "none"
           /\ delivery[d].turn # "answered" => delivery[d].stored = "none"
           /\ delivery[d].stored # "none" => delivery[d].stored = mapping[Chat(d)]
           /\ delivery[d].scope # "none" => delivery[d].scope = mapping[Chat(d)]
BY DEF IInv, TypeOK, IsOfAnUpdate, InsertsAlone, LoserFindsRow, ScopeComesLater,
       ChatHasOneConversation

(* The webhook, the handlers, and the client's view of the turn change     *)
(* neither the turn nor the tables; a request begins a turn.               *)
LEMMA HandlerStep == IInv /\ (\E d \in Deliveries : Handler(d)) => IInv'
<1> SUFFICES ASSUME IInv, NEW d \in Deliveries, Handler(d) PROVE IInv'
    OBVIOUS
<1> DEFINE e == delivery[d]
<1> USE OfDelivery
<1> USE DEF Outside, Chat
<1>0. /\ e \in DeliveryRecords
      /\ (e.at # "unsent" \/ e.turn # "none" \/ e.by # "none") => e.update \in Updates
    BY DEF IInv, TypeOK, IsOfAnUpdate
<1>1. ASSUME NEW s \in Servers, NEW u \in Updates, Deliver(d, u, s) PROVE IInv'
  <2> DEFINE r == [NotSent EXCEPT !.update = u, !.at = "handling", !.by = s]
  <2>1. r \in DeliveryRecords /\ r.update = u /\ r.turn = "none" /\ r.on = "none"
        /\ r.scope = "none" /\ r.stored = "none"
      BY DEF NotSent, DeliveryRecords, Conversations
  <2>2. Becomes(d, r) /\ UNCHANGED <<mapping, inserting>>
      BY <1>1 DEF Deliver
  <2> HIDE DEF r
  <2> QED BY <2>1, <2>2, OneDelivery
<1>2. ASSUME NEW s \in Servers, SendMessage(d, s) PROVE IInv'
  <2> DEFINE r == [e EXCEPT !.at = "waiting", !.turn = "select", !.on = s]
  <2>1. /\ r \in DeliveryRecords /\ r.update = e.update /\ r.turn = "select"
        /\ r.scope = e.scope /\ r.stored = e.stored /\ r.at = "waiting"
      BY <1>0 DEF DeliveryRecords, InMapping
  <2>2. Becomes(d, r) /\ UNCHANGED <<mapping, inserting>> /\ e.at = "handling"
      BY <1>2 DEF SendMessage
  <2>3. e.scope = "none" /\ e.stored = "none"
      BY <1>2 DEF SendMessage
  <2> HIDE DEF r
  <2> QED BY <1>0, <2>1, <2>2, <2>3, OneDelivery DEF InMapping
<1>3. ASSUME NEW shown \in {"nothing", "text", "answer", "apology"},
             Becomes(d, Acknowledged(d, shown)), Outside, e.at \in {"handling", "waiting"}
      PROVE  IInv'
  <2> DEFINE r == Acknowledged(d, shown)
  <2>1. /\ r \in DeliveryRecords /\ r.update = e.update /\ r.turn = e.turn
        /\ r.scope = e.scope /\ r.stored = e.stored /\ r.at = "over" /\ r.on = e.on
      BY <1>0 DEF DeliveryRecords, Acknowledged
  <2>2. Becomes(d, r) /\ UNCHANGED <<mapping, inserting>>
      BY <1>3
  <2> HIDE DEF r
  <2> QED BY <1>0, <1>3, <2>1, <2>2, OneDelivery
<1>4. CASE AnswerLocally(d)
    BY <1>3, <1>4 DEF AnswerLocally
<1>5. CASE Unreachable(d)
    BY <1>3, <1>5 DEF Unreachable
<1>6. CASE ClientTimesOut(d)
    BY <1>3, <1>6 DEF ClientTimesOut
<1>7. CASE ReceiveResponse(d)
    BY <1>3, <1>7 DEF ReceiveResponse
<1>8. CASE ReplyRaises(d)
    BY <1>3, <1>8 DEF ReplyRaises
<1> QED BY <1>1, <1>2, <1>4, <1>5, <1>6, <1>7, <1>8 DEF Handler

(* The steps of a turn.  The ones in resolve_telegram_conversation write   *)
(* the tables, each for the chat of its delivery alone.                    *)
LEMMA TurnStepKeeps == IInv /\ (\E d \in Deliveries : TurnStep(d)) => IInv'
<1> SUFFICES ASSUME IInv, NEW d \in Deliveries, TurnStep(d) PROVE IInv'
    OBVIOUS
<1> DEFINE e == delivery[d]
<1>0. /\ e \in DeliveryRecords
      /\ delivery \in [Deliveries -> DeliveryRecords]
      /\ mapping \in [Chats -> Conversations] /\ inserting \in [Chats -> Conversations]
      /\ (e.at # "unsent" \/ e.turn # "none" \/ e.by # "none") => e.update \in Updates
      /\ e.update \in Updates => Chat(d) \in Chats
    BY IngressAssumption DEF IInv, TypeOK, IsOfAnUpdate, Chat, Chats
<1>1. ASSUME NEW turn \in {"insert", "reselect", "answered", "answering", "error"},
             NEW scope \in Conversations, NEW stored \in Conversations,
             NEW on \in Servers \cup {"none"},
             Becomes(d, [e EXCEPT !.turn = turn, !.on = on, !.scope = scope, !.stored = stored]),
             UNCHANGED <<mapping, inserting>>,
             e.at # "handling",
             turn \in {"answered", "error"} => on = "none",
             turn = "reselect" => mapping[Chat(d)] # "none",
             turn \in {"insert", "reselect"} => scope = "none",
             turn # "answered" => stored = "none",
             stored # "none" => stored = mapping[Chat(d)],
             scope # "none" => scope = mapping[Chat(d)],
             e.update \in Updates
      PROVE  IInv'
  <2> DEFINE r == [e EXCEPT !.turn = turn, !.on = on, !.scope = scope, !.stored = stored]
  <2>1. /\ r \in DeliveryRecords /\ r.update = e.update /\ r.turn = turn /\ r.at = e.at
        /\ r.scope = scope /\ r.stored = stored /\ r.on = on
      BY <1>0, <1>1 DEF DeliveryRecords, InMapping
  <2>2. Becomes(d, r)
      BY <1>1
  <2> HIDE DEF r
  <2> QED BY <1>0, <1>1, <2>1, <2>2, OneDelivery DEF Chat, InMapping
<1>2. ASSUME NEW turn \in {"commit", "answering"}, NEW scope \in Conversations,
             Becomes(d, [e EXCEPT !.turn = turn, !.scope = scope]),
             e.turn \in {"insert", "commit"}, e.scope = "none", e.stored = "none",
             NEW row \in Conversations, NEW lock \in Conversations,
             mapping' = [mapping EXCEPT ![Chat(d)] = row],
             inserting' = [inserting EXCEPT ![Chat(d)] = lock],
             mapping[Chat(d)] = "none", inserting[Chat(d)] \in {"none", d},
             turn = "commit" => row = "none" /\ lock = d /\ scope = "none",
             scope # "none" => scope = row
      PROVE  IInv'
  <2>0. Chat(d) \in Chats /\ e.update \in Updates
      BY <1>0, <1>2
  <2>1. /\ delivery' \in [Deliveries -> DeliveryRecords]
        /\ \A x \in Deliveries \ {d} : delivery'[x] = delivery[x]
        /\ delivery'[d].update = e.update /\ delivery'[d].turn = turn
        /\ delivery'[d].scope = scope /\ delivery'[d].stored = "none"
        /\ delivery'[d].at = e.at /\ delivery'[d].on = e.on
      BY <1>0, <1>2 DEF Becomes, DeliveryRecords, InMapping
  <2>2. /\ mapping' \in [Chats -> Conversations] /\ inserting' \in [Chats -> Conversations]
        /\ mapping'[Chat(d)] = row /\ inserting'[Chat(d)] = lock
        /\ \A c \in Chats \ {Chat(d)} : mapping'[c] = mapping[c] /\ inserting'[c] = inserting[c]
      BY <1>0, <1>2, <2>0
  <2>3. /\ Chat(d)' = Chat(d)
        /\ \A x \in Deliveries \ {d} : Chat(x)' = Chat(x)
        /\ \A x \in Deliveries : delivery[x].update \in Updates => Chat(x) \in Chats
      BY <2>1, IngressAssumption DEF Chat, Chats
  <2>4. e.at # "handling"
      BY <1>2 DEF IInv, ScopeComesLater
  <2>5. \A x \in Deliveries \ {d} :
           /\ delivery[x].turn = "commit" => Chat(x) # Chat(d)
           /\ delivery[x].turn = "reselect" => Chat(x) # Chat(d)
           /\ delivery[x].stored # "none" => Chat(x) # Chat(d)
           /\ delivery[x].scope # "none" => Chat(x) # Chat(d)
      BY <1>2, NamesAssumption DEF IInv, InsertsAlone, LoserFindsRow, ChatHasOneConversation
  <2>6. \A x \in Deliveries :
           delivery[x].at # "unsent" \/ delivery[x].turn # "none" => Chat(x) \in Chats
      BY <2>3 DEF IInv, IsOfAnUpdate
  <2>7. \A x \in Deliveries :
           /\ delivery[x].stored # "none" => delivery[x].turn = "answered"
           /\ delivery[x].scope # "none" => delivery[x].turn # "none"
      BY DEF IInv, ScopeComesLater
  <2>8. TypeOK' /\ IsOfAnUpdate'
      BY <2>0, <2>1, <2>2 DEF IInv, TypeOK, IsOfAnUpdate
  <2>9. InsertsAlone' /\ LoserFindsRow'
      BY <1>2, <2>1, <2>2, <2>3, <2>5, <2>6 DEF IInv, InsertsAlone, LoserFindsRow
  <2>10. ScopeComesLater'
      BY <1>2, <2>1, <2>4 DEF IInv, ScopeComesLater, InMapping
  <2>11. ChatHasOneConversation'
      BY <1>2, <2>1, <2>2, <2>3, <2>5, <2>6, <2>7 DEF IInv, ChatHasOneConversation
  <2> QED BY <2>8, <2>9, <2>10, <2>11 DEF IInv
<1>3. /\ e.turn # "none" => e.update \in Updates /\ e.at # "handling"
      /\ e.turn \in InMapping => e.scope = "none"
      /\ e.turn # "answered" => e.stored = "none"
      /\ e.turn = "commit" => inserting[Chat(d)] = d /\ mapping[Chat(d)] = "none"
      /\ e.turn = "reselect" => mapping[Chat(d)] # "none"
      /\ e.scope # "none" => e.scope = mapping[Chat(d)]
      /\ "none" \in Conversations /\ d \in Conversations
      /\ e.update \in Updates => /\ mapping[Chat(d)] \in Conversations
                                 /\ mapping = [mapping EXCEPT ![Chat(d)] = mapping[Chat(d)]]
      /\ e.on \in Servers \cup {"none"} /\ e.scope \in Conversations /\ e.stored \in Conversations
    BY <1>0, OfDelivery DEF IInv, ScopeComesLater, DeliveryRecords, Conversations
<1>4. CASE SelectMapping(d)
  <2>1. CASE mapping[Chat(d)] = "none"
    <3>1. Becomes(d, [e EXCEPT !.turn = "insert", !.on = e.on, !.scope = e.scope,
                               !.stored = e.stored])
        BY <1>0, <1>4, <2>1 DEF SelectMapping, DeliveryRecords
    <3> QED BY <1>1, <1>3, <1>4, <3>1 DEF SelectMapping, Outside, InMapping
  <2>2. CASE mapping[Chat(d)] # "none"
    <3>1. Becomes(d, [e EXCEPT !.turn = "answering", !.on = e.on, !.scope = mapping[Chat(d)],
                               !.stored = e.stored])
        BY <1>0, <1>4, <2>2 DEF SelectMapping, Scoped, DeliveryRecords
    <3> QED BY <1>1, <1>3, <1>4, <3>1 DEF SelectMapping, Outside, InMapping
  <2> QED BY <2>1, <2>2
<1>5. CASE InsertMapping(d)
  <2>1. CASE mapping[Chat(d)] = "none"
    <3>1. Becomes(d, [e EXCEPT !.turn = "commit", !.scope = "none"])
        BY <1>0, <1>3, <1>5, <2>1, ZenonT(40) DEF InsertMapping, DeliveryRecords, InMapping
    <3>2. mapping' = [mapping EXCEPT ![Chat(d)] = "none"]
        BY <1>3, <1>5, <2>1 DEF InsertMapping
    <3> QED BY <1>2, <1>3, <1>5, <2>1, <3>1, <3>2 DEF InsertMapping, InMapping
  <2>2. CASE mapping[Chat(d)] # "none"
    <3>1. Becomes(d, [e EXCEPT !.turn = "reselect", !.on = e.on, !.scope = e.scope,
                               !.stored = e.stored])
        BY <1>0, <1>5, <2>2 DEF InsertMapping, DeliveryRecords
    <3> QED BY <1>1, <1>3, <1>5, <2>2, <3>1 DEF InsertMapping, InMapping
  <2> QED BY <2>1, <2>2
<1>6. CASE CommitMapping(d)
  <2>1. Becomes(d, [e EXCEPT !.turn = "answering", !.scope = d])
      BY <1>6 DEF CommitMapping, Scoped
  <2> QED BY <1>2, <1>3, <1>6, <2>1 DEF CommitMapping, InMapping
<1>7. CASE ReselectMapping(d)
  <2>1. Becomes(d, [e EXCEPT !.turn = "answering", !.on = e.on, !.scope = mapping[Chat(d)],
                             !.stored = e.stored])
      BY <1>0, <1>7 DEF ReselectMapping, ConcurrentConversation, Scoped, DeliveryRecords
  <2> QED BY <1>1, <1>3, <1>7, <2>1 DEF ReselectMapping, Outside, InMapping
<1>8. CASE MappingFails(d)
  <2>1. CASE e.turn = "commit"
    <3>1. Becomes(d, [e EXCEPT !.turn = "answering", !.scope = "none"])
        BY <1>8 DEF MappingFails, Scoped
    <3>2. PICK row \in {"none", d} : mapping' = [mapping EXCEPT ![Chat(d)] = row]
        BY <1>3, <1>8, <2>1 DEF MappingFails
    <3> QED BY <1>2, <1>3, <1>8, <2>1, <3>1, <3>2 DEF MappingFails, InMapping
  <2>2. CASE e.turn # "commit"
    <3>1. Becomes(d, [e EXCEPT !.turn = "answering", !.on = e.on, !.scope = "none",
                               !.stored = e.stored])
        BY <1>0, <1>8 DEF MappingFails, Scoped, DeliveryRecords
    <3> QED BY <1>1, <1>3, <1>8, <2>2, <3>1 DEF MappingFails, InMapping
  <2> QED BY <2>1, <2>2
<1>9. CASE FinishTurn(d)
  <2>1. PICK saved \in {e.scope, "none"} :
           Becomes(d, [e EXCEPT !.turn = "answered", !.on = "none", !.scope = "none",
                                !.stored = saved])
      BY <1>9 DEF FinishTurn
  <2> QED BY <1>1, <1>3, <1>9, <2>1 DEF FinishTurn, Outside
<1>10. CASE TurnRaises(d)
  <2>1. Becomes(d, [e EXCEPT !.turn = "error", !.on = "none", !.scope = "none",
                             !.stored = e.stored])
      BY <1>0, <1>10 DEF TurnRaises, DeliveryRecords
  <2> QED BY <1>1, <1>3, <1>10, <2>1 DEF TurnRaises, Outside
<1> QED BY <1>4, <1>5, <1>6, <1>7, <1>8, <1>9, <1>10 DEF TurnStep

(* What the loss of a process makes of a record.                           *)
LEMMA LostServer ==
    ASSUME NEW e \in DeliveryRecords, NEW s, NEW r, r = WithoutServer(e, s)
    PROVE  /\ r \in DeliveryRecords
           /\ r.update = e.update /\ r.stored = e.stored
           /\ r.at = "handling" => e.at = "handling"
           /\ r.at # "unsent" => e.at # "unsent" \/ e.by = s
           /\ r.by # "none" => e.by # "none"
           /\ e.on = s => r.turn = "dead" /\ r.on = "none" /\ r.scope = "none"
           /\ e.on # s => r.turn = e.turn /\ r.scope = e.scope /\ r.on = e.on
<1> DEFINE h == IF e.by = s THEN [e EXCEPT !.at = "lost", !.by = "none"] ELSE e
<1>1. /\ h \in DeliveryRecords
      /\ h.update = e.update /\ h.stored = e.stored /\ h.on = e.on
      /\ h.turn = e.turn /\ h.scope = e.scope
      /\ h.at = "handling" => e.at = "handling"
      /\ h.at # "unsent" => e.at # "unsent" \/ e.by = s
      /\ h.by # "none" => e.by # "none"
    BY DEF DeliveryRecords
<1>2. r = IF h.on = s THEN [h EXCEPT !.turn = "dead", !.on = "none", !.scope = "none"] ELSE h
    BY <1>1 DEF WithoutServer
<1>3. CASE e.on = s
  <2>1. r = [h EXCEPT !.turn = "dead", !.on = "none", !.scope = "none"]
      BY <1>1, <1>2, <1>3
  <2> HIDE DEF h
  <2>2. r \in DeliveryRecords
      BY <1>1, <2>1 DEF DeliveryRecords, Conversations
  <2> QED BY <1>1, <1>3, <2>1, <2>2 DEF DeliveryRecords
<1>4. CASE e.on # s
    BY <1>1, <1>2, <1>4
<1> QED BY <1>3, <1>4

(* A process that is lost takes its handlers, its turns and its open       *)
(* insert with it; what is committed stays.                                *)
LEMMA CrashKeeps == IInv /\ (\E s \in Servers : CrashServer(s)) => IInv'
<1> SUFFICES ASSUME IInv, NEW s \in Servers, CrashServer(s) PROVE IInv'
    OBVIOUS
<1>1. ASSUME NEW d \in Deliveries
      PROVE  /\ delivery'[d] \in DeliveryRecords
             /\ delivery'[d].update = delivery[d].update /\ Chat(d)' = Chat(d)
             /\ delivery'[d].stored = delivery[d].stored
             /\ delivery'[d].at = "handling" => delivery[d].at = "handling"
             /\ delivery'[d].at # "unsent" => delivery[d].at # "unsent" \/ delivery[d].by = s
             /\ delivery'[d].by # "none" => delivery[d].by # "none"
             /\ delivery[d].on = s => /\ delivery'[d].turn = "dead" /\ delivery'[d].on = "none"
                                      /\ delivery'[d].scope = "none"
             /\ delivery[d].on # s => /\ delivery'[d].turn = delivery[d].turn
                                      /\ delivery'[d].scope = delivery[d].scope
                                      /\ delivery'[d].on = delivery[d].on
  <2>1. delivery[d] \in DeliveryRecords /\ delivery'[d] = WithoutServer(delivery[d], s)
      BY DEF CrashServer, IInv, TypeOK
  <2> QED BY <2>1, LostServer DEF Chat
<1>2. /\ mapping' = mapping /\ inserting' \in [Chats -> Conversations]
      /\ \A c \in Chats : inserting[c] \notin Mapped(s) => inserting'[c] = inserting[c]
    BY DEF CrashServer, IInv, TypeOK, Conversations
<1>3. s # "none"
    BY NamesAssumption
<1>4. \A d \in Deliveries : delivery[d].on = s => delivery[d].stored = "none"
    BY <1>3 DEF IInv, ScopeComesLater, InMapping
<1>5. TypeOK'
  <2>1. delivery' \in [Deliveries -> DeliveryRecords]
      BY <1>1 DEF CrashServer
  <2> QED BY <1>2, <2>1 DEF IInv, TypeOK
<1>6. IsOfAnUpdate'
  <2> SUFFICES ASSUME NEW d \in Deliveries,
                      \/ delivery'[d].at # "unsent" \/ delivery'[d].turn # "none"
                      \/ delivery'[d].by # "none"
               PROVE  \/ delivery[d].at # "unsent" \/ delivery[d].turn # "none"
                      \/ delivery[d].by # "none"
      BY <1>1 DEF IInv, IsOfAnUpdate
  <2>1. CASE delivery[d].on = s
      BY <1>3, <2>1 DEF IInv, ScopeComesLater, InMapping
  <2>2. CASE delivery[d].on # s
      BY <1>1, <1>3, <2>2
  <2> QED BY <2>1, <2>2
<1>7. InsertsAlone' /\ LoserFindsRow'
  <2> SUFFICES ASSUME NEW d \in Deliveries, delivery'[d].turn \in {"commit", "reselect"}
               PROVE  /\ delivery'[d].turn = "commit" => /\ inserting'[Chat(d)] = d
                                                         /\ mapping[Chat(d)] = "none"
                      /\ delivery'[d].turn = "reselect" => mapping[Chat(d)] # "none"
      BY <1>1, <1>2 DEF InsertsAlone, LoserFindsRow
  <2>1. delivery[d].on # s /\ delivery'[d].turn = delivery[d].turn
      BY <1>1
  <2>2. d \notin Mapped(s)
      BY <2>1 DEF Mapped
  <2>3. Chat(d) \in Chats
      BY <2>1, IngressAssumption DEF IInv, IsOfAnUpdate, Chat, Chats
  <2> QED BY <1>2, <2>1, <2>2, <2>3 DEF IInv, InsertsAlone, LoserFindsRow
<1>8. ScopeComesLater'
    BY <1>1, <1>3, <1>4 DEF IInv, ScopeComesLater, InMapping
<1>9. ChatHasOneConversation'
    BY <1>1, <1>2 DEF IInv, ChatHasOneConversation
<1> QED BY <1>5, <1>6, <1>7, <1>8, <1>9 DEF IInv

(* Every step keeps the invariant; the lifespan alone touches nothing of it. *)
LEMMA NextIInv == IInv /\ [Next]_vars => IInv'
<1> SUFFICES ASSUME IInv, [Next]_vars PROVE IInv'
    OBVIOUS
<1>1. CASE \E d \in Deliveries : Handler(d) \/ TurnStep(d)
    BY <1>1, HandlerStep, TurnStepKeeps
<1>2. CASE \E s \in Servers : CrashServer(s)
    BY <1>2, CrashKeeps
<1>3. CASE UNCHANGED <<delivery, mapping, inserting>>
    BY <1>3 DEF IInv, TypeOK, IsOfAnUpdate, InsertsAlone, LoserFindsRow, ScopeComesLater,
                ChatHasOneConversation, Chat
<1> QED BY <1>1, <1>2, <1>3 DEF Next, vars, BeginShutdown

(* For every set of processes, updates, chats and deliveries, a chat has   *)
(* one conversation for ever.                                              *)
THEOREM OneConversation == Spec => []ChatHasOneConversation
<1>1. IInv => ChatHasOneConversation
    BY DEF IInv
<1> QED BY <1>1, InitIInv, NextIInv, PTL DEF Spec
-----------------------------------------------------------------------------
(* The phases of a process against what it has started.                    *)
StartedInOrder ==
    \A s \in Servers :
        /\ phase[s] \in {"bot", "register", "serving", "stopping", "closing"}
               /\ "webhook" \in enabled => s \in sender
        /\ phase[s] = "register" => s \in scheduling
        /\ phase[s] = "serving" /\ "scheduler" \in enabled =>
               s \in scheduling /\ jobs[s] = Registrations
        /\ s \in scheduling => phase[s] \notin {"down", "bot", "closing"}
        /\ s \in scheduling /\ "webhook" \in enabled => s \in sender

\* Once there is a webhook no job has begun without a sender.
LifespanInv == LifespanTypeOK /\ StartedInOrder /\ ("webhook" \in enabled => ~deaf)

(* The types of the lifespan's state are kept by each of its steps.        *)
LEMMA LifespanTypes == LifespanTypeOK /\ (\E s \in Servers : LifespanStep(s) \/ Shutdown(s) \/ Exit(s))
                       => LifespanTypeOK'
<1> SUFFICES ASSUME LifespanTypeOK, NEW s \in Servers, LifespanStep(s) \/ Shutdown(s) \/ Exit(s)
             PROVE  LifespanTypeOK'
    OBVIOUS
<1> USE DEF LifespanTypeOK, Phases, Enter
<1>1. CASE RegisterNext(s)
  <2> DEFINE n == Len(jobs[s])
  <2>1. n \in Nat /\ n < 3
      BY <1>1 DEF RegisterNext, Registrations
  <2>2. Registrations[n + 1] \in {"monday", "daily", "weekly"}
    <3> HIDE DEF n
    <3>1. n = 0 \/ n = 1 \/ n = 2
        BY <2>1
    <3> QED BY <3>1 DEF Registrations
  <2> QED BY <1>1, <2>2 DEF RegisterNext
<1>2. CASE InitializeTelegram(s) \/ WithoutTelegram(s) \/ StartScheduler(s) \/ WithoutScheduler(s)
    BY <1>2 DEF InitializeTelegram, WithoutTelegram, StartScheduler, WithoutScheduler
<1>3. CASE RegistrationFails(s) \/ StartServing(s) \/ BeginJob(s)
    BY <1>3 DEF RegistrationFails, StartServing, BeginJob
<1>4. CASE StopScheduler(s) \/ Shutdown(s)
    BY <1>4 DEF StopScheduler, Shutdown
<1>5. <<>> \in Seq({"monday", "daily", "weekly"})
    OBVIOUS
<1>6. CASE ShutdownTelegram(s)
    BY <1>5, <1>6 DEF ShutdownTelegram
<1>7. CASE Exit(s)
    BY <1>5, <1>7 DEF Exit
<1> QED BY <1>1, <1>2, <1>3, <1>4, <1>6, <1>7 DEF LifespanStep

(* So are the order of startup and shutdown and the sender's presence.     *)
LEMMA LifespanStepKeeps ==
    LifespanInv /\ (\E s \in Servers : LifespanStep(s) \/ Shutdown(s) \/ Exit(s)) => LifespanInv'
<1> SUFFICES ASSUME LifespanInv, NEW s \in Servers, LifespanStep(s) \/ Shutdown(s) \/ Exit(s)
             PROVE  StartedInOrder' /\ ("webhook" \in enabled => ~deaf)'
    BY LifespanTypes DEF LifespanInv
<1> USE DEF LifespanInv, StartedInOrder, LifespanTypeOK, Enter
<1>1. CASE InitializeTelegram(s)
    BY <1>1 DEF InitializeTelegram
<1>2. CASE WithoutTelegram(s)
    BY <1>2 DEF WithoutTelegram
<1>3. CASE StartScheduler(s)
    BY <1>3 DEF StartScheduler
<1>4. CASE WithoutScheduler(s)
    BY <1>4 DEF WithoutScheduler
<1>5. CASE RegisterNext(s)
    BY <1>5 DEF RegisterNext
<1>6. CASE RegistrationFails(s)
    BY <1>6 DEF RegistrationFails
<1>7. CASE StartServing(s)
    BY <1>7 DEF StartServing
<1>8. CASE BeginJob(s)
    BY <1>8 DEF BeginJob
<1>9. CASE StopScheduler(s)
    BY <1>9 DEF StopScheduler
<1>10. CASE ShutdownTelegram(s)
    BY <1>10 DEF ShutdownTelegram
<1>11. CASE Shutdown(s)
    BY <1>11 DEF Shutdown
<1>12. CASE Exit(s)
    BY <1>12 DEF Exit
<1> QED BY <1>1, <1>2, <1>3, <1>4, <1>5, <1>6, <1>7, <1>8, <1>9, <1>10, <1>11, <1>12
        DEF LifespanStep

(* For every number of processes: one that serves has started all that its *)
(* settings ask for, and no job begins without the sender.                 *)
THEOREM ServesWhole == Spec => []ServesWholeOrNotAtAll
<1>1. Init => LifespanInv
  <2>1. <<>> \in Seq({"monday", "daily", "weekly"})
      OBVIOUS
  <2> QED BY <2>1 DEF Init, LifespanInit, LifespanInv, LifespanTypeOK, StartedInOrder, Phases
<1>2. LifespanInv /\ [Next]_vars => LifespanInv'
  <2> SUFFICES ASSUME LifespanInv, [Next]_vars PROVE LifespanInv'
      OBVIOUS
  <2>1. CASE \E s \in Servers : LifespanStep(s) \/ Shutdown(s) \/ Exit(s)
      BY <2>1, LifespanStepKeeps
  <2>2. CASE UNCHANGED lifespanVars
      BY <2>2 DEF lifespanVars, LifespanInv, LifespanTypeOK, StartedInOrder
  <2>3. ASSUME NEW d \in Deliveries, Handler(d) \/ TurnStep(d) PROVE UNCHANGED lifespanVars
      BY <2>3 DEF Handler, TurnStep, Outside, Deliver, AnswerLocally, SendMessage, Unreachable,
                  ClientTimesOut, ReceiveResponse, ReplyRaises, SelectMapping, InsertMapping,
                  CommitMapping, ReselectMapping, MappingFails, FinishTurn, TurnRaises
  <2> QED BY <2>1, <2>2, <2>3 DEF Next, vars, lifespanVars, BeginShutdown, CrashServer
<1>3. LifespanInv => ServesWholeOrNotAtAll
    BY DEF LifespanInv, StartedInOrder, ServesWholeOrNotAtAll
<1> QED BY <1>1, <1>2, <1>3, PTL DEF Spec
=============================================================================
