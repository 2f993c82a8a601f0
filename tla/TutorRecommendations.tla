------------------------- MODULE TutorRecommendations -------------------------
(***************************************************************************)
(* What a tutor is advised in a conversation: the risk agent's result      *)
(* (agents/risk_detection_agent), the decisions made of its factors        *)
(* (services/recommendation_engine), the interventions picked from them    *)
(* (intervention_suggestion_service), the policy evidence that supports or *)
(* contradicts them (agents/recommendation_agent) and the sections of the  *)
(* reply (recommendation_template_service).                                *)
(***************************************************************************)
EXTENDS RiskReaders

\* RiskDetectionAgent.run; `found` is how its look-up of the student ends.
RiskAgentResult(found, student) ==
    LET progress == GetProgress(student.ects)
        right == GetStudyRight(student.right)
        events == GetUpcomingEvents(student.events)
        factors == (IF progress.success THEN ProgressRiskFactors(progress) ELSE {})
                   \cup (IF right.success THEN StudyRightRiskFactors(right) ELSE {})
                   \cup (IF events.success THEN EventRiskFactors(events.events) ELSE {})
        unavailable == (IF progress.success THEN {} ELSE {"progress"})
                       \cup (IF right.success THEN {} ELSE {"study_right"})
                       \cup (IF events.success THEN {} ELSE {"academic_events"})
    IN  IF ~found THEN [status |-> "FAILED", level |-> "NONE", factors |-> {}, unavailable |-> {}]
        ELSE [status |-> IF unavailable = {} THEN "SUCCESS" ELSE "PARTIAL",
              level |-> HighestRiskLevel(factors, "NONE"),
              factors |-> factors, unavailable |-> unavailable]
-----------------------------------------------------------------------------
(* RecommendationEngine.                                                   *)

PriorityOrder == [LOW |-> 0, MEDIUM |-> 1, HIGH |-> 2, CRITICAL |-> 3]

Rule(type, intervention, query, minimum) ==
    [type |-> type, intervention |-> intervention, query |-> query, minimum |-> minimum]

Rules == [progress |-> {Rule("progress", "REVIEW_STUDY_PLAN", "progress policy", "LOW"),
                        Rule("progress", "SCHEDULE_TUTOR_MEETING", "progress policy", "MEDIUM")},
          study_right |-> {Rule("study_right", "REVIEW_STUDY_RIGHT", "study right policy", "LOW")},
          academic_event |-> {Rule("deadline", "REVIEW_ACADEMIC_DEADLINE", "deadline policy", "LOW")}]

HealthyMonitoringRule == Rule("monitoring", "MONITOR_PROGRESS", "monitoring policy", "LOW")

\* The reason code of a decision and the intervention mapped from it are one here.
Decision(rule, priority) ==
    [type |-> rule.type, priority |-> priority, intervention |-> rule.intervention,
     query |-> rule.query]

\* Mutant of Monitoring: missing dimensions do not keep the tutor from being reassured.
MonitoringWithoutFactors(risk) == risk.factors = {}

Monitoring(risk) == risk.status = "SUCCESS" /\ risk.level = "NONE" /\ risk.factors = {}

EvaluateRecommendations(risk) ==
    (IF Monitoring(risk) THEN {Decision(HealthyMonitoringRule, "LOW")} ELSE {})
    \cup UNION {{Decision(rule, f.level) :
                    rule \in {r \in Rules[f.dimension] :
                                 PriorityOrder[r.minimum] <= PriorityOrder[f.level]}} :
                f \in risk.factors}

(* InterventionSuggestionService: one suggestion per type, of the highest  *)
(* priority among its decisions.                                           *)
Suggest(decisions) ==
    {d \in decisions : \A e \in decisions :
        e.intervention = d.intervention => PriorityOrder[e.priority] <= PriorityOrder[d.priority]}
-----------------------------------------------------------------------------
(* RecommendationAgent.run; policy[q] is how the retrieval for q ends.     *)

PolicyOutcomes == {"evidence", "nothing", "conflict"}
Queries(risk) == {d.query : d \in EvaluateRecommendations(risk)}

\* RecommendationTemplateService.render, without its wording.
Sections(status, recommendations, interventions, policy, unavailable) ==
    {"recommendation", "assessment"}
    \cup (IF recommendations # {} THEN {"evidence"} ELSE {})
    \cup (IF recommendations \cup interventions # {} THEN {"interventions", "advisory"} ELSE {})
    \cup (IF \E r \in recommendations : policy[r.query] = "evidence" THEN {"policy"} ELSE {})
    \cup (IF status = "PARTIAL" \/ unavailable # {} THEN {"availability"} ELSE {})

Advise(risk, policy) ==
    LET decisions == IF risk.status = "FAILED" THEN {} ELSE EvaluateRecommendations(risk)
        kept(S) == {d \in S : policy[d.query] # "conflict"}
        missing == {d.query : d \in {e \in decisions : policy[e.query] # "evidence"}}
        complete == risk.status = "SUCCESS" /\ missing = {}
        status == IF complete THEN "SUCCESS" ELSE "PARTIAL"
    IN  [status |-> status,
         recommendations |-> kept(decisions),
         interventions |-> kept(Suggest(decisions)),
         sections |-> Sections(status, kept(decisions), kept(Suggest(decisions)), policy,
                               risk.unavailable)]
=============================================================================
