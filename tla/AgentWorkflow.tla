--------------------------- MODULE AgentWorkflow ---------------------------
(***************************************************************************)
(* The LangGraph workflow that runs an execution plan: the node `prepare`  *)
(* turns selected_agents into pending work, `execute_agent` pops and runs  *)
(* one agent per visit, `finalize` assigns the status of the whole run.    *)
(* An agent is abstracted to the status of its result; recommendation,     *)
(* reporting and communication read earlier results and their status is    *)
(* the one their code computes from them.                                  *)
(***************************************************************************)
EXTENDS AgentRoutes

CONSTANTS
    Plans,        \* values of selected_agents a run may start with
    StepLimits    \* values of max_steps a run may start with

ASSUME PlansAssumption == Plans \subseteq Seq(Routes)
ASSUME StepLimitsAssumption == StepLimits \subseteq Nat \ {0}

NoResult == "none"
ResultStatuses == {"SUCCESS", "PARTIAL", "FAILED", "SKIPPED"}
Nodes == {"prepare", "execute_agent", "finalize", "end"}
WorkflowStatuses == {"pending", "running", "completed", "partial", "failed"}

VARIABLES
    node,           \* the graph node that runs next
    selected,       \* state.selected_agents
    pending,        \* state.pending_agents
    completed,      \* state.completed_agents
    current,        \* state.current_agent ("none" for None)
    stepCount,      \* state.step_count
    maxSteps,       \* state.max_steps
    results,        \* state.agent_results, by the status of each result
    raised,         \* routes whose execution only added to state.errors
    finalResponse,  \* state.final_response: "none", "caveated" or "clean"
    status,         \* state.workflow_status
    superSteps      \* nodes LangGraph has run in this invocation

vars == <<node, selected, pending, completed, current, stepCount, maxSteps,
          results, raised, finalResponse, status, superSteps>>

TypeOK ==
    /\ node \in Nodes
    /\ selected \in Seq(Routes)
    /\ pending \in Seq(Routes)
    /\ completed \in Seq(Routes)
    /\ current \in Routes \cup {"none"}
    /\ stepCount \in Nat
    /\ maxSteps \in Nat \ {0}
    /\ results \in [Routes -> ResultStatuses \cup {NoResult}]
    /\ raised \in SUBSET Routes
    /\ finalResponse \in {"none", "caveated", "clean"}
    /\ status \in WorkflowStatuses
    /\ superSteps \in Nat

-----------------------------------------------------------------------------
\* Mutant of RecursionLimit: no room for `prepare` and `finalize`.
TightRecursionLimit == maxSteps + 1

(* The recursion limit `run` hands to the graph. *)
RecursionLimit == maxSteps + 4

StepLimitReached(steps) == steps >= maxSteps

\* Mutant of NextNode: the step limit is not looked at.
NextNodeUnlimited(work, steps) == IF work # <<>> THEN "execute_agent" ELSE "finalize"

(* Where the conditional edge after `prepare` and after `execute_agent` leads. *)
NextNode(work, steps) ==
    IF work # <<>> /\ ~StepLimitReached(steps) THEN "execute_agent" ELSE "finalize"

Before(a, b) == \E i, j \in DOMAIN selected : i < j /\ selected[i] = a /\ selected[j] = b

(* RecommendationAgent._validate_prerequisites: risk has run, and whatever *)
(* is selected of the chain progress, study_rights, risk stands in order.  *)
RecommendationPrerequisites ==
    /\ "risk" \in Range(completed)
    /\ \A i, j \in 1..4 :
          /\ i < j
          /\ {ReportSources[i], ReportSources[j]} \subseteq Range(selected)
          => Before(ReportSources[i], ReportSources[j])

\* Mutant of RecommendationStatuses: the order of the plan is not validated.
RecommendationOfAnyOrder ==
    IF results["risk"] = "SUCCESS" THEN {"SUCCESS", "PARTIAL"} ELSE {"PARTIAL"}

(* RecommendationAgent.run: no result better than PARTIAL without a        *)
(* complete risk assessment; policy evidence may still be missing.         *)
RecommendationStatuses ==
    IF RecommendationPrerequisites /\ results["risk"] = "SUCCESS"
    THEN {"SUCCESS", "PARTIAL"} ELSE {"PARTIAL"}

(* ReportingAgent.run *)
ReportComplete == \A r \in Range(ReportSources) : results[r] = "SUCCESS"

\* Mutant of ResponseIncomplete: planned agents without a result go unnoticed.
ResponseIncompleteBySources ==
    LET sources == {r \in CommunicationSources : results[r] # NoResult}
    IN  sources = {} \/ \E r \in sources : results[r] # "SUCCESS"

(* CommunicationAgent._is_incomplete *)
ResponseIncomplete ==
    LET sources == {r \in CommunicationSources : results[r] # NoResult}
        usable  == {r \in sources : results[r] # "FAILED"}
    IN  \/ usable = {}
        \/ ~(Range(selected) \ {"communication"} \subseteq sources)
        \/ \E r \in sources : results[r] # "SUCCESS"

(* The analysis agents: FAILED without a student or when the tool errs,    *)
(* PARTIAL when some of the evidence is unavailable.                       *)
ProgressStatuses == {"SUCCESS", "PARTIAL", "FAILED"}
StudyRightsStatuses == {"SUCCESS", "PARTIAL", "FAILED"}
RiskStatuses == {"SUCCESS", "PARTIAL", "FAILED"}

(* The agents that answer from one tool call: its answer or its failure. *)
CalendarStatuses == {"SUCCESS", "FAILED"}
AcademicDataStatuses == {"SUCCESS", "FAILED"}

ReportingStatuses == IF ReportComplete THEN {"SUCCESS"} ELSE {"PARTIAL"}
CommunicationStatuses == IF ResponseIncomplete THEN {"PARTIAL"} ELSE {"SUCCESS"}

(* The default registry: the agent of each route. *)
AgentStatuses(route) ==
    CASE route = "calendar"       -> CalendarStatuses
      [] route = "progress"       -> ProgressStatuses
      [] route = "study_rights"   -> StudyRightsStatuses
      [] route = "risk"           -> RiskStatuses
      [] route = "recommendation" -> RecommendationStatuses
      [] route = "reporting"      -> ReportingStatuses
      [] route = "communication"  -> CommunicationStatuses
      [] route = "academic_data"  -> AcademicDataStatuses

\* Mutant of FinalStatus: successes counted against the agents that ran.
FinalStatusOfExecuted ==
    LET with(s) == {r \in Routes : results[r] \in s}
    IN  IF Cardinality(with({"SUCCESS"})) = Len(completed) THEN "completed"
        ELSE IF with({"SUCCESS", "PARTIAL", "SKIPPED"}) # {} THEN "partial"
        ELSE "failed"

\* Mutant of FinalStatus: the status of the only agent is passed through.
FinalStatusOfAgent ==
    IF Len(selected) = 1 /\ pending = <<>> THEN results[selected[1]] ELSE "partial"

(* _final_status *)
FinalStatus ==
    LET with(s) == {r \in Routes : results[r] \in s}
    IN  IF selected = <<>> THEN "completed"
        ELSE IF Cardinality(with({"SUCCESS"})) = Len(selected) /\ pending = <<>>
             THEN "completed"
        ELSE IF with({"SUCCESS", "PARTIAL", "SKIPPED"}) # {} THEN "partial"
        ELSE "failed"
-----------------------------------------------------------------------------
Init ==
    /\ node = "prepare"
    /\ selected \in Plans
    /\ pending = <<>>
    /\ completed = <<>>
    /\ current = "none"
    /\ stepCount = 0
    /\ maxSteps \in StepLimits
    /\ results = [r \in Routes |-> NoResult]
    /\ raised = {}
    /\ finalResponse = "none"
    /\ status = "pending"
    /\ superSteps = 0

(* LangGraph runs a node only while the recursion limit is not used up; a  *)
(* run that still has a node to enter then ends in GraphRecursionError.    *)
Enter(n) ==
    /\ node = n
    /\ superSteps < RecursionLimit
    /\ superSteps' = superSteps + 1

Prepare ==
    /\ Enter("prepare")
    /\ selected' = Unique(selected)
    /\ pending' = Without(selected', Range(completed))
    /\ current' = "none"
    /\ status' = "running"
    /\ node' = NextNode(pending', stepCount)
    /\ UNCHANGED <<completed, stepCount, maxSteps, results, raised, finalResponse>>

(* What every outcome of `_execute_agent` does to the plan. *)
PopAgent(route) ==
    /\ Enter("execute_agent")
    /\ route = Head(pending)
    /\ pending' = Tail(pending)
    /\ completed' = Unique(Append(completed, route))
    /\ current' = route
    /\ stepCount' = stepCount + 1
    /\ node' = NextNode(pending', stepCount')
    /\ UNCHANGED <<selected, maxSteps, status>>

AgentAnswers(route) ==
    /\ PopAgent(route)
    /\ \E s \in AgentStatuses(route) : results' = [results EXCEPT ![route] = s]
    /\ finalResponse' = IF route # "communication" THEN finalResponse
                        ELSE IF ResponseIncomplete THEN "caveated" ELSE "clean"
    /\ UNCHANGED raised

(* The agent raises, returns no AgentResult, or the route has no agent. *)
AgentRaises(route) ==
    /\ PopAgent(route)
    /\ raised' = raised \cup {route}
    /\ UNCHANGED <<results, finalResponse>>

Finalize ==
    /\ Enter("finalize")
    /\ current' = "none"
    /\ status' = FinalStatus
    /\ node' = "end"
    /\ UNCHANGED <<selected, pending, completed, stepCount, maxSteps, results, raised,
                   finalResponse>>

ExecuteAgent == \E route \in Routes : AgentAnswers(route) \/ AgentRaises(route)

Next == Prepare \/ ExecuteAgent \/ Finalize

Spec == Init /\ [][Next]_vars
FairSpec == Spec /\ WF_vars(Next)
-----------------------------------------------------------------------------
(* No agent of the plan is lost, repeated or overtaken: once prepared, the *)
(* agents already run followed by those still pending are the plan itself, *)
(* and the plan names no agent twice (prepare and execute_agent).          *)
PlanConserved ==
    node # "prepare" => completed \o pending = selected /\ IsInjective(selected)

(* A run is reported completed only when every planned agent ran and       *)
(* succeeded, however the plan was cut short (_final_status).              *)
CompletedMeansAll ==
    status = "completed" =>
        /\ pending = <<>>
        /\ \A r \in Range(selected) : results[r] = "SUCCESS"

(* A run is reported failed only when nothing usable came out of it.       *)
FailedMeansNothing ==
    status = "failed" =>
        selected # <<>> /\ \A r \in Routes : results[r] \in {"FAILED", NoResult}

(* A derived result is a success only when what it was derived from is: a  *)
(* recommendation follows a successful risk assessment that itself follows *)
(* the selected analyses, and a report follows four successes.             *)
DerivedResultsEarned ==
    /\ results["recommendation"] = "SUCCESS" =>
          /\ results["risk"] = "SUCCESS"
          /\ Before("risk", "recommendation")
          /\ \A r \in {"progress", "study_rights"} :
                r \in Range(selected) => r \in Range(completed) /\ Before(r, "risk")
    /\ results["reporting"] = "SUCCESS" =>
          \A r \in Range(ReportSources) : results[r] = "SUCCESS" /\ Before(r, "reporting")

(* The tutor gets a reply without the availability note only if every      *)
(* other agent of the plan had succeeded before the reply was formatted.   *)
CleanResponseIsEarned ==
    finalResponse = "clean" =>
        \A r \in Range(selected) \ {"communication"} :
            results[r] = "SUCCESS" /\ Before(r, "communication")

(* The step limit is the only thing that may leave agents unrun, and such  *)
(* a run never passes for completed.                                       *)
OnlyLimitLeavesWork ==
    node = "end" /\ pending # <<>> => stepCount = maxSteps /\ status # "completed"

(* The status `_final_status` counts together from results, plan and       *)
(* pending work says what happened to every single agent of the plan.      *)
StatusIsHonest == CompletedMeansAll /\ FailedMeansNothing /\ OnlyLimitLeavesWork

(* max_steps always ends the run before LangGraph's recursion limit does,  *)
(* so `run` returns a state instead of raising (max_steps + 4 is enough).  *)
NeverAborted == node # "end" => superSteps < RecursionLimit

(* Every run reaches finalize and returns. *)
Terminates == <>(node = "end")
=============================================================================
