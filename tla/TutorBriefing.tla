---------------------------- MODULE TutorBriefing ----------------------------
(***************************************************************************)
(* workflows/weekly_tutor_briefing.py: one tutor's weekly briefing, made   *)
(* of detection results without scoring anything again.  An input is       *)
(*   [tutor, assigned, evaluation, ordered, students]                      *)
(* with `ordered` for period_start < period_end and, of each student,      *)
(*   [id, named, result, resultOf, progress].                              *)
(***************************************************************************)
EXTENDS RiskReaders

\* Indicators that have an approved advisory action.
ActionMappings == {"academic_delay", "study_right", "academic_events"}

\* OfflineRecommendationAdapter.recommend: the actions, and whether a note is left.
Recommend(result) ==
    [actions |-> {<<i, "review">> : i \in result.actionable \cap ActionMappings}
                 \cup {<<i, "schedule_meeting">> :
                          i \in {j \in result.actionable :
                                    j = "academic_delay" /\ result.attention}},
     noted |-> result.actionable = {} \/ ~(result.actionable \subseteq ActionMappings)]

\* Mutant of ValidInput: only the urgent levels are accepted.
ValidUrgentInput(b) ==
    /\ b.tutor > 0 /\ b.ordered /\ b.assigned >= Cardinality(b.students)
    /\ \A s \in b.students : s.result.level \in {"HIGH", "CRITICAL"}

\* _validate_input: everything else raises ValueError.
ValidInput(b) ==
    /\ b.tutor > 0
    /\ b.ordered
    /\ b.evaluation \in {"completed", "partial", "failed"}
    /\ b.assigned >= Cardinality(b.students)
    /\ b.evaluation = "failed" => b.students = {}
    /\ \A s, t \in b.students : s.id = t.id => s = t
    /\ \A s \in b.students : /\ s.id > 0 /\ s.named /\ s.resultOf = s.id
                             /\ s.result.attention
                             /\ s.result.level \in TutorAttentionRiskLevels

\* The availability notes of one student are not empty.
StudentNoted(s) ==
    \/ Recommend(s.result).noted
    \/ s.result.status = "PARTIAL"
    \/ s.result.unavailable # {}
    \/ ~s.progress

BriefingStatus(b) ==
    IF b.evaluation \in {"failed", "partial"} THEN b.evaluation
    ELSE IF \E s \in b.students : StudentNoted(s) THEN "partial" ELSE "completed"

GenerateBriefing(b) ==
    IF ~ValidInput(b) THEN [status |-> "raised", summaries |-> {}]
    ELSE [status |-> BriefingStatus(b),
          summaries |-> {[id |-> s.id, level |-> s.result.level,
                          actions |-> Recommend(s.result).actions,
                          noted |-> StudentNoted(s)] : s \in b.students},
          counts |-> [l \in RiskLevels |->
                         Cardinality({s \in b.students : s.result.level = l})]]
=============================================================================
