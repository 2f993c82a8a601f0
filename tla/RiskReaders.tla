----------------------------- MODULE RiskReaders -----------------------------
(***************************************************************************)
(* What is made of a canonical risk result: the health score (academic_    *)
(* health_score_service), its explanation (risk_explanation_service), the  *)
(* detection result (workflows/automatic_risk_detection), the dashboard    *)
(* (student_dashboard_service), and beside it the assessment by available  *)
(* evidence (risk_policy, available_evidence_risk_service) that the Monday *)
(* briefing lists its students by.                                         *)
(***************************************************************************)
EXTENDS RiskScoring

RiskLevels == {"LOW", "MEDIUM", "HIGH", "CRITICAL"}
TutorAttentionRiskLevels == {"MEDIUM", "HIGH", "CRITICAL"}
ValidScore(n) == 0 <= n /\ n <= 100
-----------------------------------------------------------------------------
(* Academic health: 100 minus the risk score, after checking that the      *)
(* result is one the scoring policy produces.                              *)

\* Mutant of ClassifyHealthScore: a bound that does not mirror the risk level's.
ClassifyHealthOffByOne(score) ==
    IF score <= 29 THEN "URGENT_SUPPORT" ELSE IF score <= 60 THEN "NEEDS_ATTENTION"
    ELSE IF score <= 80 THEN "STABLE" ELSE "STRONG"

ClassifyHealthScore(score) ==
    IF score <= 30 THEN "URGENT_SUPPORT" ELSE IF score <= 60 THEN "NEEDS_ATTENTION"
    ELSE IF score <= 80 THEN "STABLE" ELSE "STRONG"

ValidComponents(risk) ==
    /\ \A i \in DOMAIN risk.contributions : risk.contributions[i].points <= MaximumPoints[i]
    /\ DOMAIN risk.contributions \cap risk.unavailable = {}
    /\ DOMAIN risk.contributions \cup risk.unavailable = Indicators

\* An override stands exactly beside an expired study right.
ValidAdjustments(risk) ==
    LET expired == /\ "study_right" \in DOMAIN risk.contributions
                   /\ risk.contributions["study_right"].rule = "EXPIRED"
    IN  /\ expired <=> risk.overrides # {}
        /\ Cardinality(risk.overrides) <= 1
        /\ \A o \in risk.overrides : /\ o.raw = risk.raw /\ ValidScore(o.raw)
                                     /\ o.adjusted = Max({o.raw, 70}) /\ ValidScore(o.adjusted)

HealthAdjustment(risk) ==
    SumOf([o \in risk.overrides |-> o.raw - o.adjusted], risk.overrides)

ValidPartialScoreLevel(risk) ==
    IF risk.score = -1 /\ risk.level = "none" THEN risk.basis = "none"
    ELSE /\ ValidScore(risk.score) /\ risk.level = ClassifyRiskScore(risk.score)
         /\ risk.basis = "available_indicator_weights"

HealthOf(risk) ==
    LET score == 100 - risk.score
        base == SumOf([i \in DOMAIN risk.contributions |->
                          MaximumPoints[i] - risk.contributions[i].points],
                      DOMAIN risk.contributions)
        complete == /\ risk.unavailable = {} /\ ValidScore(risk.score)
                    /\ risk.score = risk.raw - HealthAdjustment(risk)
                    /\ risk.level = ClassifyRiskScore(risk.score)
                    /\ risk.basis = "all_indicators"
                    /\ base + HealthAdjustment(risk) = score
        refused == [success |-> FALSE, status |-> "UNPROCESSABLE", malformed |-> TRUE]
    IN  IF ~risk.success THEN [refused EXCEPT !.malformed = FALSE]
        ELSE IF ~(ValidComponents(risk) /\ ValidAdjustments(risk)
                  /\ ValidScore(risk.raw)
                  /\ risk.raw = SumOf([i \in DOMAIN risk.contributions |->
                                          risk.contributions[i].points],
                                      DOMAIN risk.contributions)) THEN refused
        ELSE IF risk.status = "COMPLETE" THEN
            IF complete THEN [success |-> TRUE, status |-> "COMPLETE", score |-> score,
                              level |-> ClassifyHealthScore(score)]
            ELSE refused
        ELSE IF risk.unavailable # {} /\ ValidPartialScoreLevel(risk) THEN
            [success |-> TRUE, status |-> "PARTIAL", score |-> -1, level |-> "none"]
        ELSE refused
-----------------------------------------------------------------------------
(* The explanation of a result; its wording is left out.                   *)

Explain(risk) ==
    IF ~risk.success THEN [success |-> FALSE, factors |-> {}]
    ELSE IF /\ risk.status \in {"COMPLETE", "PARTIAL"}
            /\ risk.score # -1 => ValidScore(risk.score)
            /\ risk.level # "none" => risk.level \in RiskLevels
            /\ (risk.score = -1) = (risk.level = "none")
            /\ \A i \in DOMAIN risk.contributions :
                   risk.contributions[i].points <= MaximumPoints[i]
         THEN [success |-> TRUE, factors |-> DOMAIN risk.contributions]
    ELSE [success |-> FALSE, factors |-> {}]

(* _parse_assessment of the risk detection: a StudentRiskDetectionResult,  *)
(* or an error code.                                                       *)
ParseAssessment(risk) ==
    IF ~risk.success THEN [parsed |-> FALSE, error |-> "RISK_ASSESSMENT_UNAVAILABLE"]
    ELSE IF risk.level \notin RiskLevels \/ ~ValidScore(risk.score) \/ risk.basis = "none"
            \/ ~Explain(risk).success
         THEN [parsed |-> FALSE, error |-> "CANONICAL_RISK_ASSESSMENT_MALFORMED"]
    ELSE [parsed |-> TRUE, level |-> risk.level, status |-> risk.status,
          attention |-> risk.level \in TutorAttentionRiskLevels,
          unavailable |-> risk.unavailable,
          actionable |-> {i \in DOMAIN risk.contributions : risk.contributions[i].points > 0}]
-----------------------------------------------------------------------------
(* Risk factors of the available evidence.                                 *)

FactorOrder == [NONE |-> 0, LOW |-> 1, MEDIUM |-> 2, HIGH |-> 3]
Factor(of, level) == [dimension |-> of, level |-> level]

ProgressRiskFactors(progress) ==
    IF progress.status # "BEHIND" THEN {}
    ELSE {Factor("progress", IF progress.remaining >= 60 THEN "HIGH"
                             ELSE IF progress.remaining >= 30 THEN "MEDIUM" ELSE "LOW")}

StudyRightRiskFactors(right) ==
    IF right.status = "EXPIRED" THEN {Factor("study_right", "HIGH")}
    ELSE IF right.status \in {"EXPIRES_SOON", "EXTENDED"} THEN {Factor("study_right", "MEDIUM")}
    ELSE {}

EventRiskFactors(events) ==
    {Factor("academic_event", "MEDIUM") : e \in {f \in events : IsApplicableDeadline(f)}}

HighestRiskLevel(factors, default) ==
    IF factors = {} THEN default
    ELSE (CHOOSE f \in factors : \A g \in factors : FactorOrder[g.level] <= FactorOrder[f.level]).level

\* AvailableEvidenceRiskService: a dimension whose service raises is unavailable.
AssessAvailableEvidence(student) ==
    LET progress == GetProgress(student.ects)
        right == GetStudyRight(student.right)
        events == GetUpcomingEvents(student.events)
        factors == (IF progress.success THEN ProgressRiskFactors(progress) ELSE {})
                   \cup (IF right.success THEN StudyRightRiskFactors(right) ELSE {})
                   \cup (IF events.success THEN EventRiskFactors(events.events) ELSE {})
        unavailable == (IF progress.success THEN {} ELSE {"progress"})
                       \cup (IF right.success THEN {} ELSE {"study_right"})
                       \cup (IF events.success THEN {} ELSE {"academic_events"})
                       \cup (IF EvaluateStudentMeetings(student.meetings).success THEN {}
                             ELSE {"tutor_meetings"})
    IN  IF factors = {} /\ "progress" \in unavailable
        THEN [success |-> FALSE, factors |-> {}, unavailable |-> unavailable]
        ELSE [success |-> TRUE, factors |-> factors, unavailable |-> unavailable,
              level |-> HighestRiskLevel(factors, "NONE"),
              status |-> IF unavailable = {} THEN "COMPLETE" ELSE "PARTIAL"]

\* Mutant of AnalyzeStudent: only a refused assessment leaves a warning.
AnalyzeStudentQuietly(seen, student) ==
    LET progress == GetProgress(seen.ects)
        risk == AssessAvailableEvidence(student)
    IN  [requires_attention |-> risk.factors # {},
         successful |-> progress.success \/ risk.success,
         warned |-> ~progress.success \/ ~risk.success]

\* MondayWorkflow._analyze_student with that service as its risk provider; the
\* workflow's own reading of the progress, before it, finds the facts `seen`.
AnalyzeStudent(seen, student) ==
    LET progress == GetProgress(seen.ects)
        risk == AssessAvailableEvidence(student)
    IN  [requires_attention |-> risk.factors # {},
         successful |-> progress.success \/ risk.success,
         warned |-> ~progress.success \/ ~risk.success \/ risk.unavailable # {}]
-----------------------------------------------------------------------------
(* The dashboard: what it shows as risk and what it concludes.             *)

DashboardRisk(risk) ==
    LET health == HealthOf(risk)
        usable == risk.success /\ (health.success \/ ~health.malformed)
    IN  IF usable THEN [level |-> risk.level, status |-> risk.status, source |-> "canonical"]
        ELSE [level |-> "none", status |-> "UNAVAILABLE", source |-> "legacy_fallback"]

PriorityOf(level) ==
    IF level \in {"CRITICAL", "HIGH"} THEN "HIGH"
    ELSE IF level \in {"MEDIUM", "LOW"} THEN level ELSE "UNKNOWN"

Dashboard(student) ==
    LET progress == GetProgress(student.ects)
        right == GetStudyRight(student.right)
        current == DashboardRisk(AssessStudentRisk(student, FALSE))
    IN  [risk |-> current,
         health |-> HealthOf(AssessStudentRisk(student, FALSE)),
         legacy |-> HighestRiskLevel(
                        (IF progress.success THEN ProgressRiskFactors(progress) ELSE {})
                        \cup (IF right.success THEN StudyRightRiskFactors(right) ELSE {}), "LOW"),
         priority |-> PriorityOf(current.level),
         attention |-> \/ progress.success /\ progress.status = "BEHIND"
                       \/ right.success /\ right.status \in {"EXPIRES_SOON", "EXPIRED"}
                       \/ PriorityOf(current.level) # "LOW"]

HealthLevelOf == [LOW |-> "STRONG", MEDIUM |-> "STABLE",
                  HIGH |-> "NEEDS_ATTENTION", CRITICAL |-> "URGENT_SUPPORT"]

\* What a dashboard shows of a student whom the risk service assessed.
DashboardMirrors(risk, view) ==
    /\ risk.success <=> view.risk.source = "canonical"
    /\ risk.success => view.health.success
    /\ risk.success /\ risk.status = "COMPLETE" =>
           /\ view.risk.level = risk.level
           /\ view.health.level = HealthLevelOf[risk.level]
=============================================================================
