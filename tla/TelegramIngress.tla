---------------------------- MODULE TelegramIngress ----------------------------
(***************************************************************************)
(* From a Telegram update to the reply the tutor sees: the webhook, the    *)
(* handlers of the bot, the client that posts the message to the chat API  *)
(* of the application itself, and there the mapping of the chat to its     *)
(* conversation (SQLAlchemyConversationMemoryStore.resolve_telegram_       *)
(* conversation) and the turn.  Telegram delivers an update until it is    *)
(* acknowledged; nothing in the code recognises an update it has seen.     *)
(* The turn itself is the subject of ConversationTurns: here it ends.      *)
(***************************************************************************)
EXTENDS ApplicationLifespan, FiniteSets

CONSTANTS
    Updates,        \* what tutors send
    ChatOf,         \* the chat of each, a pair of user and chat ids
    KindOf,         \* what each is: "message", "malformed" or "local"
    Deliveries      \* the deliveries of updates by Telegram, a bound

Chats == {ChatOf[u] : u \in Updates}

ASSUME IngressAssumption == /\ KindOf \in [Updates -> {"message", "malformed", "local"}]
                            /\ ChatOf \in [Updates -> Chats]
ASSUME NamesAssumption == "none" \notin Servers \cup Updates \cup Deliveries

VARIABLES
    delivery,   \* each delivery, as the handler and as the turn it asks for
    mapping,    \* the committed row of each chat in telegram_conversation_mappings
    inserting   \* the delivery whose row of the chat is not committed yet

vars == <<lifespanVars, delivery, mapping, inserting>>

\* A delivery that maps its chat draws a uuid4, which is named by the delivery.
Conversations == Deliveries \cup {"none"}
InMapping == {"select", "insert", "commit", "reselect"}

DeliveryRecords ==
    [update : Updates \cup {"none"},
     at     : {"unsent", "handling", "waiting", "over", "lost"},
     by     : Servers \cup {"none"},                     \* whose webhook handles it
     shown  : {"nothing", "text", "answer", "apology"},
     turn   : {"none", "answering", "answered", "error", "dead"} \cup InMapping,
     on     : Servers \cup {"none"},                     \* whose chat API runs the turn
     scope  : Conversations,                             \* memory_scope
     stored : Conversations]                             \* where the turn was saved

TypeOK ==
    /\ delivery \in [Deliveries -> DeliveryRecords]
    /\ mapping \in [Chats -> Conversations]
    /\ inserting \in [Chats -> Conversations]

NotSent == [update |-> "none", at |-> "unsent", by |-> "none", shown |-> "nothing",
            turn |-> "none", on |-> "none", scope |-> "none", stored |-> "none"]

Init ==
    /\ LifespanInit
    /\ delivery = [d \in Deliveries |-> NotSent]
    /\ mapping = [c \in Chats |-> "none"]
    /\ inserting = [c \in Chats |-> "none"]

Chat(d) == ChatOf[delivery[d].update]
Kind(d) == KindOf[delivery[d].update]

\* The handler of d is done and has shown `shown`; Telegram gets its 200.
Acknowledged(d, shown) == [delivery[d] EXCEPT !.at = "over", !.by = "none", !.shown = shown]
Becomes(d, record) == delivery' = [delivery EXCEPT ![d] = record]
Outside == UNCHANGED <<lifespanVars, mapping, inserting>>
-----------------------------------------------------------------------------
(* The webhook and the handlers.                                           *)

\* telegram_webhook: any serving process takes an update nobody acknowledged, one
\* that is being handled elsewhere included.
Deliver(d, u, s) ==
    /\ phase[s] = "serving" /\ "webhook" \in enabled
    /\ delivery[d].at = "unsent"
    /\ \A e \in Deliveries : delivery[e].update = u => delivery[e].at # "over"
    /\ Becomes(d, [NotSent EXCEPT !.update = u, !.at = "handling", !.by = s])
    /\ Outside

\* /start, /help, /status, an unknown command, and a command without a valid student id.
AnswerLocally(d) ==
    /\ delivery[d].at = "handling" /\ Kind(d) \in {"local", "malformed"}
    /\ Becomes(d, Acknowledged(d, "text"))
    /\ Outside

Mapped(s) == {e \in Deliveries : delivery[e].on = s /\ delivery[e].turn \in InMapping}

\* handle_message and _academic_command: "typing" first, then the request.
SendMessage(d, s) ==
    /\ delivery[d].at = "handling" /\ Kind(d) = "message"
    /\ phase[s] = "serving" /\ Mapped(s) = {}
    /\ Becomes(d, [delivery[d] EXCEPT !.at = "waiting", !.turn = "select", !.on = s])
    /\ Outside

\* The chat API cannot be reached.
Unreachable(d) ==
    /\ delivery[d].at = "handling" /\ Kind(d) = "message"
    /\ Becomes(d, Acknowledged(d, "apology"))
    /\ Outside

\* The client gives up after ten seconds; the turn goes on without it.
ClientTimesOut(d) ==
    /\ delivery[d].at = "waiting" /\ delivery[d].turn \in InMapping \cup {"answering"}
    /\ Becomes(d, Acknowledged(d, "apology"))
    /\ Outside

\* The response, or the error of a turn or of a process that ended.
ReceiveResponse(d) ==
    /\ delivery[d].at = "waiting" /\ delivery[d].turn \in {"answered", "error", "dead"}
    /\ Becomes(d, Acknowledged(d, IF delivery[d].turn = "answered" THEN "answer" ELSE "apology"))
    /\ Outside

\* Telegram refuses a reply or the typing action: handle_error logs it and the
\* update counts as processed.  (A reply it cannot parse is sent again as plain text.)
ReplyRaises(d) ==
    /\ \/ delivery[d].at = "handling"
       \/ delivery[d].at = "waiting" /\ delivery[d].turn \in {"answered", "error", "dead"}
    /\ Becomes(d, Acknowledged(d, "nothing"))
    /\ Outside
-----------------------------------------------------------------------------
(* resolve_telegram_conversation: it does not await, so a process maps one *)
(* chat at a time and only processes race.                                 *)

\* The turn goes on with the conversation c as its scope, or without memory.
Scoped(d, c) == [delivery[d] EXCEPT !.turn = "answering", !.scope = c]

SelectMapping(d) ==
    /\ delivery[d].turn = "select"
    /\ Becomes(d, IF mapping[Chat(d)] = "none" THEN [delivery[d] EXCEPT !.turn = "insert"]
                  ELSE Scoped(d, mapping[Chat(d)]))
    /\ Outside

\* The primary key makes the statement wait for another open insert of the chat.
InsertMapping(d) ==
    /\ delivery[d].turn = "insert" /\ inserting[Chat(d)] = "none"
    /\ IF mapping[Chat(d)] = "none"
       THEN /\ inserting' = [inserting EXCEPT ![Chat(d)] = d]
            /\ Becomes(d, [delivery[d] EXCEPT !.turn = "commit"])
       ELSE Becomes(d, [delivery[d] EXCEPT !.turn = "reselect"]) /\ UNCHANGED inserting
    /\ UNCHANGED <<lifespanVars, mapping>>

CommitMapping(d) ==
    /\ delivery[d].turn = "commit"
    /\ mapping' = [mapping EXCEPT ![Chat(d)] = d]
    /\ inserting' = [inserting EXCEPT ![Chat(d)] = "none"]
    /\ Becomes(d, Scoped(d, d))
    /\ UNCHANGED lifespanVars

\* Mutant of ConcurrentConversation: the turn keeps the id it could not insert.
OwnConversation(d) == d

\* After the IntegrityError: what the other process has committed.
ConcurrentConversation(d) == mapping[Chat(d)]

ReselectMapping(d) ==
    /\ delivery[d].turn = "reselect"
    /\ Becomes(d, Scoped(d, ConcurrentConversation(d)))
    /\ Outside

\* Any other failure of a statement; a commit whose answer is lost may have succeeded.
MappingFails(d) ==
    /\ delivery[d].turn \in InMapping
    /\ Becomes(d, Scoped(d, "none"))
    /\ IF delivery[d].turn = "commit"
       THEN /\ inserting' = [inserting EXCEPT ![Chat(d)] = "none"]
            /\ mapping' \in {mapping, [mapping EXCEPT ![Chat(d)] = d]}
       ELSE UNCHANGED <<inserting, mapping>>
    /\ UNCHANGED lifespanVars
-----------------------------------------------------------------------------
\* The reply of the turn, after its save when it has a scope; the save may fail, and
\* a turn whose workflow failed is not saved.
FinishTurn(d) ==
    /\ delivery[d].turn = "answering"
    /\ \E saved \in {delivery[d].scope, "none"} :
          Becomes(d, [delivery[d] EXCEPT !.turn = "answered", !.on = "none",
                                         !.scope = "none", !.stored = saved])
    /\ Outside

\* Whatever process_message raises becomes an error response.
TurnRaises(d) ==
    /\ delivery[d].turn = "answering"
    /\ Becomes(d, [delivery[d] EXCEPT !.turn = "error", !.on = "none", !.scope = "none"])
    /\ Outside
-----------------------------------------------------------------------------
\* What the loss of process s makes of a delivery: its handler and its turn are gone.
WithoutServer(e, s) ==
    LET handled == IF e.by = s THEN [e EXCEPT !.at = "lost", !.by = "none"] ELSE e
    IN  IF e.on = s THEN [handled EXCEPT !.turn = "dead", !.on = "none", !.scope = "none"]
        ELSE handled

\* Its open inserts are rolled back.
CrashServer(s) ==
    /\ Exit(s)
    /\ delivery' = [d \in Deliveries |-> WithoutServer(delivery[d], s)]
    /\ inserting' = [c \in Chats |-> IF inserting[c] \in Mapped(s) THEN "none" ELSE inserting[c]]
    /\ UNCHANGED mapping

\* The server lets the requests it has accepted end before it shuts down.
BeginShutdown(s) ==
    /\ Shutdown(s)
    /\ \A d \in Deliveries : delivery[d].by # s /\ delivery[d].on # s
    /\ UNCHANGED <<delivery, mapping, inserting>>

Handler(d) ==
    \/ \E s \in Servers : SendMessage(d, s) \/ \E u \in Updates : Deliver(d, u, s)
    \/ AnswerLocally(d) \/ Unreachable(d) \/ ClientTimesOut(d)
    \/ ReceiveResponse(d) \/ ReplyRaises(d)

TurnStep(d) ==
    \/ SelectMapping(d) \/ InsertMapping(d) \/ CommitMapping(d) \/ ReselectMapping(d)
    \/ MappingFails(d) \/ FinishTurn(d) \/ TurnRaises(d)

Next ==
    \/ \E d \in Deliveries : Handler(d) \/ TurnStep(d)
    \/ \E s \in Servers :
          \/ LifespanStep(s) /\ UNCHANGED <<delivery, mapping, inserting>>
          \/ BeginShutdown(s) \/ CrashServer(s)

Spec == Init /\ [][Next]_vars
-----------------------------------------------------------------------------
(* A chat has one conversation for ever: every turn that was stored is in  *)
(* the conversation of its chat's row, and so is every turn that is going  *)
(* to be, whichever processes mapped the chat at the same time, lost the   *)
(* race, failed or crashed half way, however often its updates were        *)
(* delivered, and though the client gave up on the turn (the primary key   *)
(* and the IntegrityError path of resolve_telegram_conversation).          *)
ChatHasOneConversation ==
    \A d \in Deliveries :
        /\ delivery[d].stored # "none" => delivery[d].stored = mapping[Chat(d)]
        /\ delivery[d].scope # "none" => delivery[d].scope = mapping[Chat(d)]
=============================================================================
