-------------------------- MODULE ConversationTurns --------------------------
(***************************************************************************)
(* ChatService.process_message for the turns of one trusted Telegram       *)
(* conversation.  A turn runs in the event loop between its awaits (entity *)
(* resolution, the workflow), so one step takes it from one await to the   *)
(* next; it loads the conversation context when it starts and saves the    *)
(* context it ends with.  Resolution is abstracted to the set of entities  *)
(* a reference may mean, the routes of a request to the request itself.    *)
(***************************************************************************)
EXTENDS ConversationMemory, FiniteSetsExt, Functions

CONSTANTS
    Kinds,        \* ENTITY_TYPES
    Entities,     \* canonical ids
    Requests,     \* the messages a tutor may send
    Content,      \* what each of them contains
    MaxHistory,   \* MAX_HISTORY_MESSAGES of the session
    Overlap,      \* may a turn start while another one is being processed?
    Reliable      \* do mapping, load and save always succeed?

Mentions == [kind : Kinds, means : SUBSET Entities, suggested : BOOLEAN]

Contents ==
    [explicit : {"none", "valid", "invalid"},       \* request.selected_agents
     answer   : {"cancel", "yes", "name", "other"}, \* what the text is as an answer
     named    : SUBSET Entities,                    \* students the text as a name means
     intent   : {"general", "academic"},
     needs    : SUBSET Kinds,                       \* entities its routes need
     mentions : Seq(Mentions)]                      \* intent_result.entity_references

ASSUME KindsAssumption == "STUDENT" \in Kinds
ASSUME RequestsAssumption ==
    /\ "none" \notin Requests
    /\ Content \in [Requests -> Contents]
    /\ \A r \in Requests : Content[r].intent = "general" => Content[r].mentions = <<>>
\* Every pattern of the detector takes at most one reference of a kind.
ASSUME MentionsAssumption ==
    \A r \in Requests : \A i, j \in DOMAIN Content[r].mentions :
        Content[r].mentions[i].kind = Content[r].mentions[j].kind => i = j
ASSUME TurnsAssumption == "none" \notin Turns
ASSUME OneConversation == Scopes = {"chat"}
ASSUME LimitsAssumption == MaxHistory \in Nat \ {0}
ASSUME SwitchesAssumption == Overlap \in BOOLEAN /\ Reliable \in BOOLEAN

VARIABLES
    turn,        \* the turns being processed and the ones that are over
    history,     \* session.history
    disturbed    \* has a turn overlapped another one, or the store failed?

vars == <<memory, turn, history, disturbed>>

EntityContexts == [Kinds -> Entities \cup {"none"}]

\* A pending clarification is the turn that asked for it, or "none".
Clarifications == Turns \cup {"none"}

Stages == {"unsent", "answering", "routing", "running", "done", "raised"}

TurnRecords ==
    [stage    : Stages,
     request  : Requests \cup {"none"},
     scoped   : BOOLEAN,                           \* memory_scope is not None
     loaded   : Clarifications,                    \* memory.pending_clarification
     entities : EntityContexts,                    \* resolved_entities
     plan     : Requests \cup {"none"},            \* whose routes the workflow ran
     settled  : Clarifications,                    \* what it answered or cancelled
     pending  : Clarifications,                    \* pending clarification to save
     status   : {"none", "completed", "partial", "failed"}]

TypeOK ==
    /\ memory["chat"].messages \in Seq(Messages)
    /\ memory["chat"].context.entities \in EntityContexts
    /\ memory["chat"].context.pending \in Clarifications
    /\ turn \in [Turns -> TurnRecords]
    /\ history \in Seq(Messages) /\ Len(history) <= MaxHistory
    /\ disturbed \in BOOLEAN
-----------------------------------------------------------------------------
NoEntities == [k \in Kinds |-> "none"]
EmptyContext == [entities |-> NoEntities, pending |-> "none"]
ASSUME EmptyAssumption == NoContext = EmptyContext

Unsent == [stage |-> "unsent", request |-> "none", scoped |-> FALSE, loaded |-> "none",
           entities |-> NoEntities, plan |-> "none", settled |-> "none",
           pending |-> "none", status |-> "none"]

Active == {t \in Turns : turn[t].stage \in {"answering", "routing", "running"}}

\* Mutant of Trim: one message too many is kept.
TrimLate(h) == IF Len(h) > MaxHistory + 1 THEN SubSeq(h, Len(h) - MaxHistory, Len(h)) ELSE h

(* The session history; an absent session has none.                        *)
Trim(h) == IF Len(h) > MaxHistory THEN SubSeq(h, Len(h) - MaxHistory + 1, Len(h)) ELSE h
Asked(h, t) == Trim(Append(h, [turn |-> t, role |-> "user"]))
Answered(h, t) == IF h = <<>> THEN h ELSE Trim(Append(h, [turn |-> t, role |-> "assistant"]))

IsResolved(mention) == Cardinality(mention.means) = 1 /\ ~mention.suggested

\* Mutant of Merge: the entities of the turn replace the whole context.
MergeReplaces(entities, mentions) ==
    [k \in Kinds |->
        LET of == {i \in DOMAIN mentions : mentions[i].kind = k}
        IN  IF of = {} THEN "none"
            ELSE CHOOSE e \in mentions[CHOOSE i \in of : \A j \in of : j <= i].means : TRUE]

(* merge_canonical_entities: the last resolution of a kind replaces it.    *)
Merge(entities, mentions) ==
    [k \in Kinds |->
        LET of == {i \in DOMAIN mentions : mentions[i].kind = k}
        IN  IF of = {} THEN entities[k]
            ELSE CHOOSE e \in mentions[CHOOSE i \in of : \A j \in of : j <= i].means : TRUE]

\* Where the request names something that was not resolved.
Unresolved(r) == {i \in DOMAIN Content[r].mentions : ~IsResolved(Content[r].mentions[i])}

(* _pending_request keeps the first unresolved reference of the request;   *)
(* only students can be chosen from later.                                 *)
Offer(asker) == Content[turn[asker].request].mentions[Min(Unresolved(turn[asker].request))]
SuggestsOne(asker) == Offer(asker).suggested /\ Cardinality(Offer(asker).means) = 1
Candidates(asker) == IF Offer(asker).kind = "STUDENT" THEN Offer(asker).means ELSE {}

Reply(d, status, pending) ==
    [d EXCEPT !.stage = "done", !.status = status, !.pending = pending]

RunWorkflow(d, request) == [d EXCEPT !.stage = "running", !.plan = request]

\* Mutant of Routed: unresolved references are skipped.
RoutedWithoutUnresolved(t, d) ==
    LET content == Content[d.request]
        merged == [d EXCEPT !.entities = Merge(@, SelectSeq(content.mentions, IsResolved))]
    IN  IF content.intent = "general" \/ \E k \in content.needs : merged.entities[k] = "none"
        THEN Reply(merged, "completed", "none")
        ELSE RunWorkflow(merged, d.request)

(* The reply or the run that follows once the references are resolved.     *)
Routed(t, d) ==
    LET content == Content[d.request]
        merged == [d EXCEPT !.entities = Merge(@, content.mentions)]
    IN  IF Unresolved(d.request) # {} THEN Reply(d, "completed", t)
        ELSE IF content.intent = "general" \/ \E k \in content.needs : merged.entities[k] = "none"
        THEN Reply(merged, "completed", "none")
        ELSE RunWorkflow(merged, d.request)

(* A turn that is no answer: explicit routes, or intent detection.         *)
NewTopic(t, d) ==
    LET content == Content[d.request] IN
    CASE content.explicit = "valid"   -> RunWorkflow(d, d.request)
      [] content.explicit = "invalid" -> Reply(d, "failed", "none")
      [] OTHER -> IF content.mentions # <<>> THEN [d EXCEPT !.stage = "routing"]
                  ELSE Routed(t, d)

(* _resolve_pending_clarification up to its await.                         *)
Answer(t, d) ==
    LET answer == Content[d.request].answer IN
    CASE answer = "cancel" -> Reply([d EXCEPT !.settled = d.loaded], "completed", "none")
      [] answer = "yes" /\ ~SuggestsOne(d.loaded) -> Reply(d, "completed", d.loaded)
      [] answer = "yes" /\ SuggestsOne(d.loaded) -> [d EXCEPT !.stage = "answering"]
      [] answer = "name"  -> [d EXCEPT !.stage = "answering"]
      [] answer = "other" -> NewTopic(t, d)

Started(t, d) == IF Content[d.request].explicit = "none" /\ d.loaded # "none"
                 THEN Answer(t, d) ELSE NewTopic(t, d)

\* Mutant of Becomes: the turn is saved whatever its status.
BecomesAlwaysSaved(t, d, h, fault) ==
    /\ turn' = [turn EXCEPT ![t] = d]
    /\ history' = IF d.stage = "done" THEN Answered(h, t) ELSE h
    /\ IF d.stage = "done" /\ d.scoped
       THEN SaveTurn("chat", t, [entities |-> d.entities, pending |-> d.pending])
       ELSE UNCHANGED memory
    /\ disturbed' = (disturbed \/ fault)

(* The turn becomes d; when that ends it, the reply joins the session and  *)
(* a completed or partial turn is saved, errors of the store swallowed.    *)
Becomes(t, d, h, fault) ==
    /\ turn' = [turn EXCEPT ![t] = d]
    /\ history' = IF d.stage = "done" THEN Answered(h, t) ELSE h
    /\ IF d.stage = "done" /\ d.scoped /\ d.status \in {"completed", "partial"}
       THEN \/ /\ SaveTurn("chat", t, [entities |-> d.entities, pending |-> d.pending])
               /\ disturbed' = (disturbed \/ fault)
            \/ ~Reliable /\ UNCHANGED memory /\ disturbed' = TRUE
       ELSE UNCHANGED memory /\ disturbed' = (disturbed \/ fault)
-----------------------------------------------------------------------------
Init ==
    /\ MemoryInit
    /\ turn = [t \in Turns |-> Unsent]
    /\ history = <<>>
    /\ disturbed = FALSE

(* A message arrives: the scope is resolved, the memory loaded, the        *)
(* session updated, and the turn goes on to its first await or its end.    *)
Receive(t, r) ==
    /\ turn[t].stage = "unsent"
    /\ Overlap \/ Active = {}
    /\ \E scoped, loads \in BOOLEAN :
          /\ Reliable => scoped /\ loads
          /\ LET context == IF scoped /\ loads THEN memory["chat"].context ELSE EmptyContext
                 d == [Unsent EXCEPT !.request = r, !.scoped = scoped,
                          !.loaded = context.pending, !.entities = context.entities]
             IN  Becomes(t, Started(t, d), Asked(history, t),
                         Active # {} \/ ~scoped \/ ~loads)

\* Mutant of ResolveAnswer: any student that is found is taken for the answer.
ResolveAnswerOfAnyone(t) ==
    LET d == turn[t] IN
    /\ d.stage = "answering"
    /\ \E means \in IF Content[d.request].answer = "name" THEN {Content[d.request].named}
                    ELSE {Candidates(d.loaded), {}} :
          Becomes(t, IF Cardinality(means) = 1
                     THEN [RunWorkflow(d, turn[d.loaded].request) EXCEPT
                              !.entities["STUDENT"] = CHOOSE student \in means : TRUE,
                              !.settled = d.loaded]
                     ELSE Reply(d, "completed", d.loaded),
                  history, FALSE)

(* The reply to a clarification is resolved: the request asked about runs  *)
(* for one of the students offered, or the clarification is asked again.   *)
ResolveAnswer(t) ==
    LET d == turn[t]
        candidates == Candidates(d.loaded)
        resumed(student) ==
            [RunWorkflow(d, turn[d.loaded].request) EXCEPT
                !.entities["STUDENT"] = student, !.settled = d.loaded]
    IN  /\ d.stage = "answering"
        /\ \E means \in IF Content[d.request].answer = "name" THEN {Content[d.request].named}
                        ELSE {candidates, {}} :
              Becomes(t, IF Cardinality(means) = 1 /\ means \subseteq candidates
                         THEN resumed(CHOOSE student \in means : TRUE)
                         ELSE Reply(d, "completed", d.loaded),
                      history, FALSE)

(* An error while a clarification is resolved leaves process_message.      *)
AnswerRaises(t) ==
    /\ turn[t].stage = "answering"
    /\ turn' = [turn EXCEPT ![t].stage = "raised"]
    /\ UNCHANGED <<memory, history, disturbed>>

ResolveMentions(t) ==
    /\ turn[t].stage = "routing"
    /\ Becomes(t, Routed(t, turn[t]), history, FALSE)

(* An error in automatic routing becomes a failed reply.                   *)
RoutingRaises(t) ==
    /\ turn[t].stage = "routing"
    /\ Becomes(t, Reply(turn[t], "failed", "none"), history, FALSE)

\* Mutant of WorkflowEnds: the clarification loaded at the start is saved again.
WorkflowEndsStillPending(t) ==
    /\ turn[t].stage = "running"
    /\ \E s \in {"completed", "partial", "failed"} :
          Becomes(t, Reply(turn[t], s, turn[t].loaded), history, FALSE)

WorkflowEnds(t) ==
    /\ turn[t].stage = "running"
    /\ \E s \in {"completed", "partial", "failed"} :
          Becomes(t, Reply(turn[t], s, "none"), history, FALSE)

(* DELETE /sessions drops the session whatever is being processed.         *)
DeleteSession ==
    /\ history # <<>>
    /\ history' = <<>>
    /\ UNCHANGED <<memory, turn, disturbed>>

(* A restart loses the turns being processed and the sessions.             *)
Restart ==
    /\ Active # {}
    /\ turn' = [t \in Turns |-> IF t \in Active THEN [turn[t] EXCEPT !.stage = "raised"]
                                ELSE turn[t]]
    /\ history' = <<>>
    /\ UNCHANGED <<memory, disturbed>>

Next ==
    \/ \E t \in Turns, r \in Requests : Receive(t, r)
    \/ \E t \in Turns :
          \/ ResolveAnswer(t) \/ AnswerRaises(t)
          \/ ResolveMentions(t) \/ RoutingRaises(t) \/ WorkflowEnds(t)
    \/ DeleteSession \/ Restart

Spec == Init /\ [][Next]_vars
-----------------------------------------------------------------------------
Ran(t) == turn[t].plan # "none"
PlanMentions(t) == Range(Content[turn[t].plan].mentions)
Honours(t, mention) == turn[t].entities[mention.kind] \in mention.means

(* A request that runs at once runs with exactly the entities it names,    *)
(* each of them resolved, and lacks none it needs: a student named but not *)
(* found is never replaced by the one talked about before.                 *)
FreshRunsAreGrounded ==
    \A t \in Turns :
        Ran(t) /\ turn[t].settled = "none" /\ Content[turn[t].request].explicit = "none" =>
            /\ turn[t].plan = turn[t].request
            /\ \A mention \in PlanMentions(t) : IsResolved(mention) /\ Honours(t, mention)
            /\ \A k \in Content[turn[t].plan].needs : turn[t].entities[k] # "none"

(* A turn that answers a clarification runs what the asking turn had asked *)
(* for and had not run, and for one of the students that turn had offered, *)
(* however many turns and restarts lie between the two.                    *)
ResumedRunsAnswer ==
    \A t \in Turns :
        Ran(t) /\ turn[t].settled # "none" =>
            LET asker == turn[t].settled
            IN  /\ turn[t].plan = turn[asker].request
                /\ ~Ran(asker) /\ turn[asker].status = "completed"
                /\ Offer(asker).kind = "STUDENT"
                /\ Honours(t, Offer(asker))

(* What the conversation remembers comes from turns that were answered:    *)
(* no failed, raised or unfinished turn is stored, and a clarification is  *)
(* pending only if its turn ended by asking for it.                        *)
MemoryIsOfAnsweredTurns ==
    /\ \A message \in Range(memory["chat"].messages) :
          turn[message.turn].status \in {"completed", "partial"}
    /\ memory["chat"].context.pending # "none" =>
          LET asker == memory["chat"].context.pending
          IN  turn[asker].status = "completed" /\ ~Ran(asker)
              /\ turn[asker].pending = asker

(* As long as turns do not overlap and the store does not fail, a          *)
(* clarification that a stored turn answered or cancelled is never pending *)
(* again, restarts and failed turns in between included.                   *)
SettledStaysSettled ==
    ~disturbed =>
        \A t \in Turns :
            turn[t].settled # "none" /\ turn[t].status \in {"completed", "partial"}
            /\ memory["chat"].context.pending # "none"
            => memory["chat"].context.pending # turn[t].settled

(* A step that replaces a remembered entity is of a turn that names one of *)
(* the same kind, or answers with one.                                     *)
Named(d) ==
    {mention.kind : mention \in Range(Content[d.request].mentions)}
        \cup (IF d.settled # "none" THEN {"STUDENT"} ELSE {})

OthersKept ==
    \A k \in Kinds :
        memory'["chat"].context.entities[k] # memory["chat"].context.entities[k]
        => \E t \in Turns : turn'[t] # turn[t] /\ k \in Named(turn'[t])

(* Turns that do not overlap, with a store that works, replace only the    *)
(* entities they name: the conversation keeps every other one.             *)
UndisturbedTurnsKeepContext == [][~disturbed' => OthersKept]_vars

(* The documented rule, without the condition: a turn replaces only the    *)
(* entities it names, whatever else is being processed.                    *)
OnlyNamedEntitiesChange == [][OthersKept]_vars

(* Every explicit reference of a request is resolved for the turn that     *)
(* runs it: whatever the workflow runs for, at once or after a             *)
(* clarification, it runs with the entities the request names.             *)
EveryMentionReachesTheRun ==
    \A t \in Turns :
        Ran(t) /\ Content[turn[t].request].explicit = "none" =>
            \A mention \in PlanMentions(t) : Honours(t, mention)
=============================================================================
