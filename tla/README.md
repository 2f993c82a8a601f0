# Academic Copilot in TLA+

Academic Copilot answers questions of university tutors about their students.
A tutor writes to a Telegram bot; the backend finds out what is asked and whom
it is about, plans which agents have to run, runs them in a LangGraph workflow
and replies. Beside that, a scheduler in the same process starts daily and
weekly workflows that detect risks, raise alerts and send briefings.

The modules here model what is the system's own logic: planning, running the
plan, the conversation around it with its memory and its way in from Telegram,
the scheduler, the scheduled workflows with their history, their reports and
their deliveries, and the rules that turn a student's data into a risk, an
alert and a piece of advice. Paths below are relative to `src/backend/app` unless they
start with `docs`.

## 1. The system

    Telegram -> api/routes/telegram.py -> telegram/handlers.py
             -> telegram/backend_client.py   (HTTP to the same process, 10 s time-out)
             -> api/routes/chat.py -> services/chat_service.py (ChatService)
                  load    services/conversation_memory.py     PostgreSQL
                  update  services/session_service.py         process memory
                  detect  agents/intent_detection.py          pure
                  resolve services/academic_entity_resolver   awaits a tool call
                  plan    agents/agent_selection.py, dependency_resolution.py
                  run     agents/workflow.py (LangGraph) -> agents -> gateways
                          -> mcp tools -> services -> repositories -> PostgreSQL
                  save    services/conversation_memory.py

    main.py -> services/scheduler.py -> workflows/monday.py, daily.py, weekly.py
                  (synchronous functions, in the default thread pool)
                  workflows/execution_logging.py      one row per execution
                  automatic_risk_detection -> services/academic_risk_scoring_service
                  academic_alerts -> telegram/notifications.py -> Telegram
                  repositories/weekly_report_repository   one report per week

A uvicorn process runs one event loop. Code between two `await`s is atomic
with respect to the other coroutines; synchronous database calls block the
loop. The Telegram bot may process many updates at once, so turns of one chat
can overlap. Scheduled workflows run in threads of their own, each through one
database session that its history is written through as well: a statement that
fails aborts that session's transaction for whatever comes next. Nothing keeps
two processes from running over one database.

| component | state it keeps | operations | what is hard | what makes it correct |
|---|---|---|---|---|
| agent workflow | `AgentState` of one run | prepare, execute_agent, finalize | agents that fail, raise or are cut off by the step limit; two limits on one run | the plan is conserved; the status and the reply are earned |
| dependency resolution | the traversal of one call | resolve/visit | cycles, shared dependencies, malformed mappings | a topological closure, exactly when there is one |
| ChatService | the context of each turn across its awaits | process_message | overlapping turns, a clarification protocol across messages and restarts, a store that fails | what runs is what was asked; context is lost by no turn |
| conversation memory | rows of messages, entities, pending clarification | save_turn, load, mapping | concurrent transactions, failing statements | turns are saved whole, in order, within the limit |
| sessions | history per user, in memory | update, add, delete | deletion and trimming during a turn | bounded history |
| scheduler | jobs, tasks, `_running`, a lock | start, stop, register, unregister, job loops | cancellation at any await, threads that cannot be cancelled, waiting under a lock | one loop per job; nothing starts after stop; jobs go on |
| execution log | one row per execution | start, finalize | the writes share a session with what may have failed; crashes | no row tells what did not happen; daily and weekly rows are closed |
| daily workflow | results of its checks, the alerts, the batch of deliveries | events, risk detection, alerts, delivery | the active students are read twice, reads fail one by one, sends time out | nobody is skipped while the run says completed |
| weekly workflow | the report of a week | events, paging, progress, risks, save | paging over a changing directory, concurrent and restarted runs | the report adds up; the first one stands |
| Monday briefing | a briefing per tutor | events, tutors, analysis, rendering, delivery | missing data, a session nobody rolls back, no sender | a text without warning is whole |
| Telegram ingress | handlers, requests, the mapping of a chat | webhook, handlers, client, mapping | repeated updates, time-outs, racing processes, crashes | a chat has one conversation |
| lifespan | bot, sender, scheduler, jobs of a process | startup, shutdown | a step of either fails | it serves whole or not at all |
| risk scoring and its readers | none | pure functions | boundaries, missing evidence, two policies beside each other | partial levels are bracketed; the views agree; advice is earned |
| RAG, gateways, read services, texts | none | queries and formatting | none of their own | - |

`PROJECT.json` lists every component with its status and, under `hazards`, the
places in the code where these difficulties bite, with the properties that
cover them.

## 2. Modules

| module | what it models |
|---|---|
| `ListIdioms` | `list(dict.fromkeys(s))` and filtered comprehensions, without recursion |
| `AgentRoutes` | the routes and what each agent reads (`agents/types.py`, `dependency_resolution.py`) |
| `AgentWorkflow` | `agents/workflow.py`, `agents/state.py` and the statuses of `agents/*_agent.py` |
| `DependencyPlan` | `DependencyResolver.resolve` |
| `ConversationMemory` | what a memory store promises: a turn is saved in one step, the newest messages are kept |
| `SqlMemoryStore` | `SQLAlchemyConversationMemoryStore`, statement by statement; implements `ConversationMemory` |
| `ConversationTurns` | `ChatService.process_message` over `ConversationMemory` for one conversation |
| `Scheduler` | `services/scheduler.py` |
| `RiskScoring` | the progress, study-right, event and meeting services and the canonical risk score made of them |
| `RiskReaders` | what is made of a score: health, explanation, detection result, dashboard; and the assessment by available evidence beside it |
| `TutorBriefing` | `workflows/weekly_tutor_briefing.py` |
| `TutorRecommendations` | risk agent, recommendation engine, interventions and policy evidence |
| `EvidenceChain` | one student through all of these |
| `WorkflowDatabase` | students, sessions and the execution history of the scheduled workflows |
| `AlertPipeline` | the results the stages of the daily workflow hand on, as functions |
| `DailyWorkflow`, `WeeklyWorkflow`, `MondayBriefing` | the three jobs, each over `WorkflowDatabase` |
| `ScheduledWorkflows` | their composition |
| `ApplicationLifespan` | startup and shutdown of the application's processes |
| `TelegramIngress` | webhook, handlers, client and conversation mapping, over `ApplicationLifespan` |
| `MC*` | instances of these modules for TLC |
| `*Proofs` | theorems about them, checked by TLAPS |

`AgentWorkflow` and `DependencyPlan` extend `AgentRoutes`, which extends
`ListIdioms`. `ConversationTurns` extends `ConversationMemory`: a turn saves
with the abstract `SaveTurn`, which is sound because `SqlMemoryStore` is shown
to implement it. `RiskScoring` is extended by `RiskReaders`, and that by
`TutorBriefing`, `TutorRecommendations`, `AlertPipeline` and the weekly and the
Monday workflow: what a workflow does with a student is computed from the same
facts by the same operators as what `EvidenceChain` checks.

### AgentWorkflow

A variable per field of `AgentState` that control depends on. `Prepare`,
`ExecuteAgent` and `Finalize` are the three graph nodes, each with the
conditional edge that leads out of it (`NextNode`). `superSteps` counts the
nodes LangGraph has run, and every node is entered only within the recursion
limit that `run` hands over. An agent is the status of its result. The agents
that read academic data may return any status their code can return; the
agents that work on earlier results compute theirs: `RecommendationStatuses`,
`ReportComplete`, `ResponseIncomplete`. `AgentRaises` covers the three ways an
agent ends without a result (an exception, a wrong type, no agent).
`selected_agents` may be any sequence of routes, repetitions included, as
explicit requests are not deduplicated before `prepare`.

### DependencyPlan

`visit` is recursive; its call stack is the variable `stack`, with the loop
over the requested routes at the bottom, so one step is one turn of a loop or
one return. `Refusal` is the sequence of checks at the head of `visit`. The
properties compare the outcome with `Reached`, `Circular` and `Plannable`,
which define what can be planned without any traversal.

### ConversationMemory and SqlMemoryStore

The abstract memory maps a scope to its messages and its context (entities and
pending clarification). The SQL store has a table, the id sequence, an advisory
lock per scope, and for each transaction its inserts and deletes, visible to
others after COMMIT only. `Proceed` is one statement of one transaction;
`Rollback` may follow any of them. The refinement mapping `Abstract` reads the
committed rows of each scope in the order of their ids.

### ConversationTurns

A turn is a record that moves from stage to stage; each action takes it from
one await to the next: `Receive` (load, session, decide), `ResolveAnswer` (the
student named in a reply to a clarification), `ResolveMentions` (the references
of a fresh request), `WorkflowEnds`. `Becomes` is the common end: reply into the
session, save if completed or partial, with the store's errors swallowed.
`DeleteSession` and `Restart` may happen between any two steps. A request is a
record of what intent detection and name matching find in it (`Contents`): its
explicit routes, what it is when taken as an answer, whether it is academic,
the kinds of entity its routes need, and its references with the set of
entities each may mean. The ghost variable `disturbed` says whether turns have
overlapped or the store has failed so far. A turn's `student_id` is absent, as
it is in messages from Telegram.

### RiskScoring, RiskReaders and EvidenceChain

A student is a record of facts: expected and completed credits, study-right
status, upcoming events, meetings, and for each whether its query answers,
finds nothing or raises. `GetProgress`, `GetStudyRight`, `GetUpcomingEvents` and
`EvaluateStudentMeetings` are the read services with the refusals of their own;
`Evaluate` is the four indicators, `CalculateAcademicRisk` the score with the
override of an expired study right, `PartialScore` the normalisation by the
weights that were found, with Python's rounding half to even. `EvidenceChain`
has one variable per view; each action computes one from the facts, as the
code of that view does, with its own handling of a query that raises.

### The scheduled workflows

Each workflow is a record with the stage it is at and what its stages have
left; an action is the code from one statement that can fail to the next.
`session[i]` says whether the transaction of an instance is aborted;
`StatementSucceeds` and `StatementFails` are the two ends of a statement, and
only the code that calls `rollback` (`WriteRow`, `SaveReport`) makes an aborted
one usable again. `StartExecution` and `FinishExecution` are the recorder.
`ReadsFail(i, r)` says that of the reads about one student r is the first that
failed; the meetings' query has a savepoint and leaves the session as it is.

`DailyWorkflow` goes through the five checks: the risk detection keeps its
result for the alerts, the alerts read the active students again
(`StatusChanges` may have come between) and two sources for each, the delivery
sends the alerts by student in chunks that arrive or not, with `late` for a
send that timed out after which the message arrived. `RecipientsOf` are the
tutors a delivery addresses: assigned, active and with a chat. `WeeklyWorkflow` has any
number of instances for the same week; `EnrolmentChanges` adds and removes
students while one of them pages through the directory. `MondayBriefing`
prepares every tutor's briefing before it sends any. `arrived` and `received`
are what reached the tutors, which the code never knows; they appear in
properties only. Crashes lose what a process knows (`DailyCrash`,
`WeeklyCrash`, `MondayCrash`) and leave the database as it is.

### ApplicationLifespan and TelegramIngress

`phase` is how far a process's lifespan is, in startup and in shutdown; the
settings are chosen once. A failed startup ends in `Exit`, as a crash does.
`deaf` records whether a job has begun in a process without a sender.

A delivery of an update is a record with two halves: the handler in the process
that took the webhook's call (`at`, `by`, `shown`) and the turn in the process
that answers the client's request (`turn`, `on`, `scope`, `stored`), which go on
independently once the client has given up. `SelectMapping`, `InsertMapping`,
`CommitMapping` and `ReselectMapping` are the statements of
`resolve_telegram_conversation`; as it does not await, a process has one chat in
them at a time (`Mapped`). `inserting` is the primary key's lock on a row that is
not committed.

### Scheduler

Each `Job`'s n-th task is a loop `<<id, n>>`. An action is the code from one
await to the next; `Start`, `Stop`, `Register`, `Unregister` are the coroutines
that take the lock, `ReleaseLock` is their return after waiting for loops.
`TakeCancel` delivers a cancellation at whatever await the loop stands. Work in
the thread pool is queued, running or ended; cancelling a loop drops queued
work and cannot stop running work.

## 3. Runs

| run | question | bounds and why they suffice |
|---|---|---|
| `agent_workflow` | do status, reply and plan stay honest however agents end? | all plans of at most three agents (a dependency, its dependant, a stranger; all repetitions) and the five-agent report plan with insertions and moves; step limits 1, 2, 4 cut plans short, 10 is the product's |
| `dependency_plan` | is the plan right for every mapping? | all mappings of three routes to two distinct ones (every cycle and diamond on three nodes), all mappings of two routes to two arbitrary values with every registry, the product's mapping with every registry |
| `sql_memory` | do concurrent saves look atomic? | three turns in one conversation and one in another; the limit is four messages, so the third turn trims |
| `conversation` | does the clarification protocol keep request, student and memory together? | three turns (ask, answer, and one more before, between or after), thirteen shapes of request that reach every branch, overlap, store failures, restarts; symmetric turns |
| `conversation_mentions`, `conversation_overlap` | the documented rules on references and context | three turns, five requests; expected to fail, see section 6 |
| `scheduler` | do loops, lifecycle calls and threads agree? | two jobs, a synchronous one and a coroutine, two loops each, a pool of one thread so that an orphaned execution blocks it; deadlock is checked |
| `academic_evidence` | do all views of one student agree? | all combinations of nine states of progress, eight study rights, nine meeting histories and five sets of events, on both sides of every bound in the rules and with every query failing: 3 240 students |
| `scheduled_workflows` | is what the scheduled runs report, store and log what they did? | two students with three assignments of facts (quiet, two alerts of their own, overall risk only, incomplete); two tutors, one maybe without a chat; an alert of three chunks; pages of one student, so that the directory changes between them; two weekly instances; one failing write of the history |
| `monday_history` | is every execution that ended closed in the history? | the same instance, Monday only; expected to fail, see section 6 |
| `telegram_ingress` | does a chat keep one conversation, does a process start and stop whole? | two processes, two deliveries of two messages of one chat, of one message twice, or of a malformed command; deadlock is checked |
| `scheduler_replace` | does stop end everything with replaced jobs too? | one job, three loops; expected to fail, see section 6 |

Deadlock checking is off where the system may stop: a workflow run and a
resolution end, all turns may have been processed, every view been shown, and
every scheduled run be over.

Further bounds, each named where it stands: in `scheduled_workflows` a later
weekly instance starts when the earlier one has made its report (until then an
instance leaves nothing another could read); students' statuses change only
between the two readings of the daily run, and the directory only while it is
paged through (elsewhere a change is that of another initial state, or is read
by nobody); the three jobs are explored one after another, as none changes what
another reads. `MaxUnwritten` bounds how many writes of the history fail on
their own account; those that fail because of an aborted transaction are not
bounded.

Every property of a passing run has a mutant, an operator next to the
definition it replaces, that makes the run fail. They are listed in
`PROJECT.json`.

## 4. Fairness

- `AgentWorkflow`, `DependencyPlan`: weak fairness of `Next`. LangGraph and the
  Python interpreter run until the call ends; that an agent answers or raises is
  the assumption that its tool call ends.
- `SqlMemoryStore`: weak fairness of each transaction's next statement. The lock
  is held only while a transaction has statements left, so every waiter gets it.
- `Scheduler`: weak fairness of each loop's steps and of `ReleaseLock` (the event
  loop runs what is ready), of the end of a thread's work (a job returns), strong
  fairness of the pool taking queued work (its queue is FIFO) and of a loop's
  `Turn` (a trigger does not raise for ever). No fairness is assumed of
  `Start`, `Stop`, `Register` and `Unregister`: nobody has to call them.
- `ConversationTurns`, `EvidenceChain`, `ScheduledWorkflows` and
  `TelegramIngress` state safety only: tutors need not write, a process may be
  restarted or crash at any time, and the code neither repeats a scheduled run
  that was lost nor is promised an answer by Telegram.

## 5. Proofs

`tlapm` checks the modules `ListIdiomsProofs`, `AgentWorkflowProofs`,
`DependencyPlanProofs`, `ConversationTurnsProofs`, `SqlMemoryStoreProofs`,
`ScheduledWorkflowsProofs`, `SchedulerProofs` and `TelegramIngressProofs`. Every
safety invariant and action property that a passing run checks is stated by a
theorem there, and so is the refinement. Nothing is assumed but the named
assumptions of the modules and, in `SchedulerProofs`, `~AllowReplace` (with it,
`scheduler_replace` shows the properties to be false). Each invariant has the
form of named parts, a lemma per action shows that it is kept, and the properties
follow from it.

- `ListIdiomsProofs`: `Unique` and `Without` return sequences without
  repetitions (or with exactly the remaining elements), and leave a sequence
  that needs no change as it is. These are the facts the plan's conservation
  rests on. The second part is about sums over finite sets (their type, their
  bounds, what one growing term adds, the sum of terms that are all zero). The
  induction they need takes a set of subsets instead of a predicate
  (`SubsetsByRemoval`), and gets its smallest counterexample from the finiteness
  of the set.
- `AgentWorkflowProofs`: `PlanConserved`, `StatusIsHonest`,
  `DerivedResultsEarned`, `CleanResponseIsEarned` and `NeverAborted` for every
  set of plans and every step limit. The inductive invariant adds to the plan's
  conservation that results exist only for agents that have run, that a raised
  agent has no result, that steps and nodes count the agents run, and how the
  earned results were earned. `FinalStatus` compares numbers of results with the
  length of the plan; that equal cardinalities mean equal sets is a lemma.
- `DependencyPlanProofs`: the invariant is that the stack is a chain of
  dependencies and that what is visited is planned with all its dependencies
  before it. That a refusal for a cycle is right follows from the chain (the
  routes from the repeated one upward are circular); that a plan excludes a
  cycle follows from its order (the first planned route of a circular set would
  need an earlier one). For `RefusalIsTrue` every value a loop is at is one the
  request reaches, so what `visit` refuses is a defect of the request and not
  only of the mapping. For `PlanMeetsPrerequisites` the traversal of the
  product's mapping is followed loop by loop: under a report `ordered` is a
  prefix of the report's plan, under any other route it is the route and at most
  the two results it rests on.
- `ConversationTurnsProofs`: the properties of `ConversationTurns` for any number
  of turns, students, kinds of entity and requests, whatever overlaps, fails,
  restarts or is deleted. Two facts carry them. A clarification that is
  remembered, loaded or being answered names a turn that ended by asking for it
  (`AsksFor`), and such a turn never changes again; what a turn runs with is
  fixed when it starts to run (`Runs`). The two properties about undisturbed
  conversations need a third: at most one turn is between its first and last
  await (`OneAtATime`), and that one still has the context the store has, so the
  context it writes is the stored one but for what it names.
  `MentionsAssumption` says that a request names each kind at most once, as every
  pattern of the detector does; `EmptyAssumption` that a new conversation has no
  entities and nothing pending.
- `SqlMemoryStoreProofs`: `RetentionHolds` and the refinement for any number of
  concurrent turns, of conversations and any even limit. The position of a row is
  the number of rows of its scope that are not newer; that this numbers the rows
  from 1 makes `Load` the sequence sorted by id. The `DELETE` removes exactly the
  first positions. Until its transaction commits, the advisory lock keeps what it
  saw the whole scope (`DeleteIsCurrent`), and it gives the rows of a later
  transaction greater ids (`LockOrders`), so a commit appends its turn and drops
  the oldest, which is `SaveTurn`. Every other statement changes no committed
  row and is a stutter.
- `SchedulerProofs`: a loop that is alive is in the table or cancelled, and
  whatever is cancelled and alive is awaited by the holder of the lock.
- `TelegramIngressProofs`: that a chat has one conversation is not inductive.
  What keeps it is that a row is inserted only while the chat has none
  (`InsertsAlone`: the delivery before its commit is the one the primary key's
  lock names), so the row of a chat never changes, that a delivery that lost the
  race finds a row (`LoserFindsRow`), and that a turn has no scope before the
  mapping gives it one, nor a stored place before it ends (`ScopeComesLater`). A
  step changes one delivery and perhaps the row of its chat; a crash takes the
  open inserts of one process with it. `ServesWhole` rests on the order of
  startup: a scheduler runs only between the phases that start and stop it, and
  with a webhook the sender is there in all of them.
- `ScheduledWorkflowsProofs`, the jobs: all five safety properties of
  `scheduled_workflows`, for any number of instances, students, tutors and
  chunks, any page size and any of the facts a student can have.
  `FirstReportStands` is the action property: a stored report's author is past
  saving or crashed, so whoever still has to save finds no row or another's, and
  what an instance's report is made of does not change once it has saved. The
  other four share one idea: an aborted session is always told by the results so
  far. While the session of a run is aborted, a result it has collected is
  missing, incomplete or failed (a part of `DailyInv`, of `MondayInv` and of
  `WeeklyInv`); so a run that has nothing missing has a usable session, its last
  write reaches the history, and what it read is what the database held.
  `ReportAddsUp` adds that the buckets and the counts of a report sum to the
  students listed so far, page by page. That a run which has just started or
  crashed satisfies the invariant is proved once for each job.
- `ScheduledWorkflowsProofs`, the views of a student: the four properties of
  `EvidenceChain`, for every set of facts of a student. They stand with the jobs,
  which judge by the same risk policy. Each action of the chain computes one view
  from the facts, so `ChainInv` says that each variable is what its operator
  returns, and the properties are lemmas about the operators.
  `PartialLevelIsBracketed` is arithmetic: points are within the weights,
  normalising raises a score by no more than the missing weights whatever the
  rounding, and the override of an expired study right is the same in all three
  assessments. `HealthMirrorsRisk` follows from the score's sum being the sum the
  converter recomputes, and both being cut at the same bounds.
  `DetectedIsShownEverywhere` follows from the meetings alone being too few
  points for attention: one of the other three indicators has points, which is a
  factor of the Monday policy and has an action in the briefing.
  `AdviceIsEarned` uses the same fact against a healthy verdict, and that of the
  decisions for one intervention the one with the highest priority is kept.

Only model-checked: `Terminates`, `EverySaveEnds`, `LockIsReleased` and
`JobsKeepFiring`, because they are liveness under fairness, which `tlapm` cannot
reason about here. What the violating runs check is false and has no theorem.

## 6. Disagreements with the documentation

- A clarification keeps only the reference it asks about. The request is later
  run without the other references it named (`conversation_mentions`), although
  `docs/architecture/system-workflow.md` has every explicit reference resolved.
- Turns of a conversation that overlap overwrite each other's context
  (`conversation_overlap`). The workflow document has a turn replace only
  entities of the type it names. Without overlap and store failures that holds
  (`UndisturbedTurnsKeepContext`).
- `register_job(..., replace_existing=True)` leaves the old loop running out of
  reach of `stop` (`scheduler_replace`). No caller in the repository uses the
  option.

- A Monday run that ends after a failed read leaves its row `running`
  (`monday_history`): its last write goes through the session the read aborted,
  fails, and is only then rolled back. `docs/architecture/workflow_execution_logs.md`
  has a final state update the row, and explains a remaining `running` with a
  process that stopped. The rows of the risk detection, the alerts and the
  delivery within a daily run may stay `running` in the same way; the daily row
  itself is closed, because those failed writes rolled back before it
  (`HistoryTellsResults` says which rows can be trusted).

Not run, but seen:

- `InMemoryConversationMemoryStore` keeps the previous entities when a turn saves
  none, where the SQL store replaces them; it calls itself a deterministic
  implementation of the production contract and serves tests.
- A daily run never ends `completed`: the check of tutor actions is always
  `unavailable`, which makes the aggregate `partial`.
- `docs/architecture/weekly_workflow.md` says that a single progress or risk failure
  degrades only its section. After a database error in the progress section the
  session is aborted and the risk section finds every student unavailable.
- A weekly run that finds a report stored returns the contents it made itself,
  with the id of the stored one.
- Of several tutors assigned to a student, one without a Telegram chat (or an
  inactive one) is passed over without a word: `list_active_tutor_recipients_for_student`
  filters in its query (`repositories/tutor_repository.py:136-139`), and a
  `skipped` result with `NO_AUTHORIZED_TUTOR_RECIPIENT` is made only when nobody is
  left (`telegram/notifications.py:274-281`); of the rows that do come back,
  `_recipients` drops malformed ones in the same way. The batch then counts as
  `completed`. `docs/architecture/telegram_notifications.md:39-41` says that
  "Missing, inactive, malformed, or unmapped records are skipped with
  `NO_AUTHORIZED_TUTOR_RECIPIENT`", and line 81 that a batch is `partial` when
  "some messages are skipped". (Line 79 asks for delivery of "all eligible
  messages" only, which is what the code does; the tests have a student with one
  tutor.) In the instance of `scheduled_workflows` it happens whenever
  `reachable = {"first"}` and student 1 has an alert: the tutor "both" is assigned
  and gets nothing. `NobodyIsSkippedSilently` therefore speaks of the assigned
  tutors who have a chat, and says that there is one.
- The webhook recognises no update it has seen (`update_id` is not kept): a
  repeated delivery is a second turn of the same question.
- A study-right status the rules do not know (`SUSPENDED`, say) is read without
  risk by the risk agent, which then counts the dimension as known, while the
  canonical score counts it as missing.

## 7. Plan

Done: the modules above, their runs, and a theorem for each safety property that
a passing run checks. Next:

1. The invariants the proofs need as facts of their own where a reader would
   ask for them: that each scheduled run ends in a final row or says why not.
2. Further abstract specifications to refine: what a scheduled job promises,
   apart from how its session gets it there.
3. More of the Telegram delivery (one send and its retries) and of the read
   services that the tutors' questions are answered from.

Not modelled, and why:

- The arithmetic of the triggers and the clock: TLC would enumerate instants; the
  one hazard found there is listed in `PROJECT.json`.
- Wording, rendering, splitting of messages into chunks and parsing of commands:
  no property of the orchestration depends on more than their outcome.
- Gateways, MCP tools and the remaining read services: stateless adapters and
  queries. Their failures are outcomes in the models that use them.
- `expected_progress_service`: no workflow calls it.
- RAG retrieval: outside the program. What a retrieval ends with (evidence,
  nothing, contradiction) is chosen freely in `TutorRecommendations`.
- `DailyWorkflow._check_student_risks` and `_list_students`: the database wiring
  always installs the risk detection instead.
- Operator scripts: command-line entry points to what is modelled.
