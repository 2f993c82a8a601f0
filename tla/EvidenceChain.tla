---------------------------- MODULE EvidenceChain ----------------------------
(***************************************************************************)
(* One student from the facts in the database to what the tutors are       *)
(* shown: the risk detection assesses the student, the dashboard, the      *)
(* Monday workflow, the weekly briefing and the agents that advise in a    *)
(* conversation each read the same facts on the same day, every query of   *)
(* them failing or not as the facts say.                                   *)
(***************************************************************************)
EXTENDS TutorBriefing, TutorRecommendations

CONSTANT Students     \* the facts that may be in the database of a student

ASSUME StudentsAssumption == Students \subseteq StudentFacts

VARIABLES
    stage,          \* the view that is computed next
    subject,        \* the facts of the student
    assessment,     \* assess_student_risk(allow_partial_risk_level=True)
    finding,        \* what the risk detection parsed of it
    dashboard,      \* get_student_dashboard
    analysis,       \* _analyze_student of the Monday workflow
    tutorBriefing,  \* the tutor's weekly briefing
    evidence,       \* the risk agent's result
    reply           \* the recommendation agent's

chainVars == <<stage, subject, assessment, finding, dashboard, analysis, tutorBriefing,
               evidence, reply>>

NotYet == [success |-> FALSE]

ChainInit ==
    /\ stage = "assess"
    /\ subject \in Students
    /\ assessment = NotYet /\ finding = NotYet /\ dashboard = NotYet
    /\ analysis = NotYet /\ tutorBriefing = NotYet /\ evidence = NotYet /\ reply = NotYet

\* The body of the loop in AutomaticRiskDetectionWorkflow._run.
Assess ==
    /\ stage = "assess"
    /\ assessment' = AssessStudentRisk(subject, TRUE)
    /\ finding' = ParseAssessment(assessment')
    /\ stage' = "dashboard"
    /\ UNCHANGED <<subject, dashboard, analysis, tutorBriefing, evidence, reply>>

\* The dashboard lets an exception of its own reads through.
ReadsRaise == "raises" \in {subject.ects.read, subject.right.read, subject.events.read}

ShowDashboard ==
    /\ stage = "dashboard"
    /\ dashboard' = IF ReadsRaise THEN [success |-> FALSE]
                    ELSE [success |-> TRUE, view |-> Dashboard(subject)]
    /\ stage' = "monday"
    /\ UNCHANGED <<subject, assessment, finding, analysis, tutorBriefing, evidence, reply>>

\* Monday's risk provider catches what its services raise; the workflow's own
\* reading of the progress catches database errors.
AnalyzeOnMonday ==
    /\ stage = "monday"
    /\ analysis' = AnalyzeStudent(subject, subject)
    /\ stage' = "brief"
    /\ UNCHANGED <<subject, assessment, finding, dashboard, tutorBriefing, evidence, reply>>

\* Status of a detection over this one student (AutomaticRiskDetectionWorkflow._result).
DetectionOutcome ==
    IF ~finding.parsed THEN "failed"
    ELSE IF finding.status = "PARTIAL" THEN "partial" ELSE "completed"

Brief ==
    /\ stage = "brief"
    /\ tutorBriefing' = GenerateBriefing(
           [tutor |-> 1, assigned |-> 1, ordered |-> TRUE, evaluation |-> DetectionOutcome,
            students |-> IF finding.parsed /\ finding.attention
                         THEN {[id |-> 1, named |-> TRUE, result |-> finding, resultOf |-> 1,
                                progress |-> GetProgress(subject.ects).success]}
                         ELSE {}])
    /\ stage' = "shown"
    /\ UNCHANGED <<subject, assessment, finding, dashboard, analysis, evidence, reply>>

\* The tutor asks for a recommendation; the look-up and the policies may fail.
AdviseTutor ==
    /\ stage = "shown"
    /\ \E found \in BOOLEAN :
          /\ evidence' = RiskAgentResult(found, subject)
          /\ \E policy \in [Queries(evidence') -> PolicyOutcomes] :
                reply' = Advise(evidence', policy)
    /\ stage' = "advised"
    /\ UNCHANGED <<subject, assessment, finding, dashboard, analysis, tutorBriefing>>

ChainNext == Assess \/ ShowDashboard \/ AnalyzeOnMonday \/ Brief \/ AdviseTutor

ChainSpec == ChainInit /\ [][ChainNext]_chainVars
-----------------------------------------------------------------------------
(* The level a partial assessment is given by normalising its score lies   *)
(* between the levels the student would have if the missing indicators     *)
(* counted for nothing and if they counted in full: a gap in the evidence  *)
(* neither hides a student nor accuses one (_normalize_available_indicator *)
(* _score, the override of an expired study right, rounding).              *)
PartialLevelIsBracketed ==
    stage # "assess" /\ assessment.success => LevelIsBracketed(subject, assessment.level)

(* The dashboard never falls back to its legacy heuristics for a result    *)
(* the scoring policy itself produced: the health converter recognises     *)
(* each of them, the partial ones and those with an override included, and *)
(* the health level it gives a complete one tells the tutor the same as    *)
(* the risk level next to it.                                              *)
HealthMirrorsRisk ==
    stage \in {"monday", "brief", "shown", "advised"} /\ dashboard.success =>
        DashboardMirrors(assessment, dashboard.view)

(* A student the risk detection finds to require attention is shown to a   *)
(* tutor everywhere: the briefing accepts the result and has an action for *)
(* it, the Monday briefing lists the student although it judges by another *)
(* policy, and the dashboard asks for attention.                           *)
DetectedIsShownEverywhere ==
    stage = "shown" /\ finding.parsed /\ finding.attention =>
        /\ tutorBriefing.status # "raised"
        /\ \A s \in tutorBriefing.summaries : s.actions # {}
        /\ tutorBriefing.summaries # {}
        /\ analysis.requires_attention
        /\ dashboard.success => dashboard.view.attention

(* Advice claims no more than was found out: it is complete only if every  *)
(* dimension was read and every recommendation has policy evidence, and    *)
(* says what is missing otherwise; each risk factor leads to an            *)
(* intervention of at least its level or, its policies contradicting each  *)
(* other, to a note; and nobody is told that no intervention is required   *)
(* of a student whom the canonical score, a policy of its own that also    *)
(* judges the meetings, finds to need attention (RecommendationAgent,      *)
(* "Missing information is not interpreted as no risk").                   *)
AdviceIsEarned ==
    stage = "advised" =>
        /\ (reply.status = "SUCCESS") = ("availability" \notin reply.sections)
        /\ reply.status = "SUCCESS" => /\ evidence.unavailable = {}
                                       /\ "policy" \in reply.sections
        /\ evidence.status # "FAILED" => \A f \in evidence.factors :
               \/ \E i \in reply.interventions :
                      /\ i.intervention \in {r.intervention : r \in Rules[f.dimension]}
                      /\ PriorityOrder[f.level] <= PriorityOrder[i.priority]
               \/ "availability" \in reply.sections
        /\ (\E r \in reply.recommendations : r.type = "monitoring") =>
               /\ evidence.unavailable = {} /\ Cardinality(reply.recommendations) = 1
               /\ ~(finding.parsed /\ finding.attention)
=============================================================================
