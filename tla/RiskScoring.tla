----------------------------- MODULE RiskScoring -----------------------------
(***************************************************************************)
(* The evidence services and the canonical score of academic risk          *)
(* (services/progress, delay_detection, study_right(_risk), tutor_meeting_ *)
(* risk, event and academic_risk_scoring): four indicators, of which the   *)
(* meetings and the events may be missing.                                 *)
(*                                                                         *)
(* What the database holds of a student are four records of facts, each    *)
(* with `read`, how its query ends: "ok", "raises", or a refusal.  Days    *)
(* count from the assessment date.                                         *)
(***************************************************************************)
EXTENDS Integers, FiniteSets, FiniteSetsExt

Indicators == {"academic_delay", "study_right", "tutor_meetings", "academic_events"}
RequiredIndicators == {"academic_delay", "study_right"}
MaximumPoints == [academic_delay |-> 50, study_right |-> 30,
                  tutor_meetings |-> 10, academic_events |-> 10]

\* What is stored of a student: whole credits and days.
StudentFacts ==
    [ects : [read : STRING, completed : Int, expected : Int],
     right : [read : STRING, status : STRING],
     events : [read : STRING, rows : SUBSET [type : STRING, day : Int, all : BOOLEAN]],
     meetings : [read : STRING,
                 rows : SUBSET [id : Int, status : STRING, day : Int, sound : BOOLEAN]]]

LookbackDays == 90
UpcomingDays == 30
DeadlineWindowDays == 14

Unsuccessful == [success |-> FALSE]
Deficit(p) == Max({p.expected - p.completed, 0})
-----------------------------------------------------------------------------
(* Progress and delay.                                                     *)

\* ProgressService.get_progress: no student and no curriculum are refusals.
GetProgress(ects) ==
    IF ects.read # "ok" THEN Unsuccessful
    ELSE [success |-> TRUE, completed |-> ects.completed, expected |-> ects.expected,
          remaining |-> Deficit(ects),
          status |-> IF ects.completed > ects.expected THEN "AHEAD"
                     ELSE IF ects.completed = ects.expected THEN "ON_TRACK" ELSE "BEHIND"]

DetectStudentDelay(ects) ==
    LET progress == GetProgress(ects)
    IN  IF ~progress.success THEN progress
        ELSE [success |-> TRUE, is_delayed |-> progress.completed < progress.expected,
              delay_ects |-> Deficit(progress)]
-----------------------------------------------------------------------------
(* Study right: the persisted status alone classifies it.                  *)

StudyRightStatusOf == [EXPIRED |-> "EXPIRED", EXPIRES_SOON |-> "EXPIRING_SOON",
                       EXTENDED |-> "EXTENDED", ACTIVE |-> "SAFE", GRADUATED |-> "SAFE"]

GetStudyRight(right) ==
    IF right.read # "ok" THEN Unsuccessful
    ELSE [success |-> TRUE, status |-> right.status]

ClassifyStudyRightRisk(status) ==
    LET risk == IF status \in DOMAIN StudyRightStatusOf THEN StudyRightStatusOf[status]
                ELSE "UNKNOWN"
    IN  [success |-> TRUE, risk_status |-> risk,
         requires_attention |-> risk \in {"EXPIRED", "EXPIRING_SOON", "EXTENDED"}]

\* A missing record is a successful result of unknown risk, not a refusal.
DetectStudyRightRisk(right) ==
    IF right.read = "not_found" THEN ClassifyStudyRightRisk("none")
    ELSE IF right.read = "ok" THEN ClassifyStudyRightRisk(right.status) ELSE Unsuccessful
-----------------------------------------------------------------------------
(* Tutor meetings: [id, status, day, sound] rows.                          *)

NoEvaluation == [success |-> FALSE, points |-> 0, rule |-> "TUTOR_MEETING_EVIDENCE_UNAVAILABLE"]
Evaluation(n, code) == [success |-> TRUE, points |-> n, rule |-> code]

\* TutorMeetingRepository.list_for_student_window: the WHERE of its query.
ListForStudentWindow(rows) == {m \in rows : -LookbackDays <= m.day /\ m.day <= UpcomingDays}

NoLaterThan(m, n) == m.day < n.day \/ (m.day = n.day /\ m.id <= n.id)

\* Held or missed meetings up to today decide, the latest of them alone;
\* without one, an agreed meeting counts; one unsound row spoils the evidence.
EvaluateStudentMeetings(meetings) ==
    LET rows == ListForStudentWindow(meetings.rows)
        decisive == {m \in rows : m.status \in {"COMPLETED", "MISSED"} /\ m.day <= 0}
        latest == CHOOSE m \in decisive : \A n \in decisive : NoLaterThan(n, m)
        upcoming == {m \in rows : m.status = "SCHEDULED" /\ m.day >= 0}
    IN  IF meetings.read # "ok" \/ rows = {} \/ \E m \in rows : ~m.sound THEN NoEvaluation
        ELSE IF decisive # {} THEN
            IF latest.status = "MISSED" THEN Evaluation(10, "TUTOR_MEETING_MISSED")
            ELSE Evaluation(0, "RECENT_TUTOR_MEETING_COMPLETED")
        ELSE IF upcoming # {} THEN
            Evaluation(5, "TUTOR_MEETING_UPCOMING_WITHOUT_RECENT_COMPLETION")
        ELSE NoEvaluation
-----------------------------------------------------------------------------
(* Academic events: [type, day, all] rows from the assessment date on.     *)

GetUpcomingEvents(events) ==
    IF events.read = "ok" THEN [success |-> TRUE, events |-> {e \in events.rows : e.day >= 0}]
    ELSE Unsuccessful

IsApplicableDeadline(e) ==
    e.type = "DEADLINE" /\ e.all /\ 0 <= e.day /\ e.day <= DeadlineWindowDays
-----------------------------------------------------------------------------
(* What each indicator contributes; Absent when it cannot be evaluated.    *)
(* A provider's result in another shape than its own counts as absent, as  *)
(* an unsuccessful one does.                                               *)

Absent == [rule |-> "ABSENT", points |-> 0]
Contribution(n, code) == [rule |-> code, points |-> n]

EvaluateDelay(result) ==
    IF ~result.success THEN Absent
    ELSE IF result.delay_ects = 0 THEN Contribution(0, "DELAY_NONE")
    ELSE IF result.delay_ects < 30 THEN Contribution(15, "DELAY_1_TO_29")
    ELSE IF result.delay_ects < 60 THEN Contribution(30, "DELAY_30_TO_59")
    ELSE Contribution(50, "DELAY_60_OR_MORE")

StudyRightPoints == [SAFE |-> 0, EXTENDED |-> 0, EXPIRING_SOON |-> 20, EXPIRED |-> 30]

EvaluateStudyRight(result) ==
    IF ~result.success THEN Absent
    ELSE IF result.risk_status \notin DOMAIN StudyRightPoints THEN Absent
    ELSE Contribution(StudyRightPoints[result.risk_status], result.risk_status)

EvaluateTutorMeetings(result) ==
    IF result.success THEN Contribution(result.points, result.rule) ELSE Absent

EvaluateAcademicEvents(result) ==
    IF ~result.success THEN Absent
    ELSE IF \E e \in result.events : IsApplicableDeadline(e)
         THEN Contribution(10, "APPLICABLE_DEADLINE_WITHIN_14_DAYS")
    ELSE Contribution(0, "NO_APPLICABLE_DEADLINE_WITHIN_14_DAYS")

\* Whatever a service raises is caught and counts as an unsuccessful result.
Evaluate(student) ==
    [academic_delay  |-> EvaluateDelay(DetectStudentDelay(student.ects)),
     study_right     |-> EvaluateStudyRight(DetectStudyRightRisk(student.right)),
     tutor_meetings  |-> EvaluateTutorMeetings(EvaluateStudentMeetings(student.meetings)),
     academic_events |-> EvaluateAcademicEvents(GetUpcomingEvents(student.events))]
-----------------------------------------------------------------------------
(* The score.                                                              *)

ClassifyRiskScore(score) ==
    IF score <= 19 THEN "LOW" ELSE IF score <= 39 THEN "MEDIUM"
    ELSE IF score <= 69 THEN "HIGH" ELSE "CRITICAL"

\* Python's round: to the nearest integer, a half to the even one.
RoundHalfEven(n, d) ==
    LET q == n \div d
        r == n % d
    IN  IF 2 * r < d \/ (2 * r = d /\ q % 2 = 0) THEN q ELSE q + 1

NormalizeAvailableIndicatorScore(score, maximum) ==
    Max({0, Min({100, RoundHalfEven(score * 100, maximum)})})

SumOf(f, S) == MapThenSumSet(LAMBDA i : f[i], S)

\* Mutant of PartialScore: the subtotal is normalised before the override.
PartialScoreOfRaw(raw, adjusted, maximum) == NormalizeAvailableIndicatorScore(raw, maximum)

PartialScore(raw, adjusted, maximum) == NormalizeAvailableIndicatorScore(adjusted, maximum)

\* An expired study right is worth 70 at least.
AdjustedScore(raw, expired) == IF expired THEN Max({raw, 70}) ELSE raw

Unprocessable == [success |-> FALSE, status |-> "UNPROCESSABLE"]

\* calculate_academic_risk over the four contributions.  A score of -1 is None.
CalculateAcademicRisk(found, allowPartial) ==
    LET available == {i \in Indicators : found[i] # Absent}
        unavailable == Indicators \ available
        raw == SumOf([i \in available |-> found[i].points], available)
        maximum == SumOf([i \in available |-> MaximumPoints[i]], available)
        expired == found["study_right"].rule = "EXPIRED"
        adjusted == AdjustedScore(raw, expired)
        score == IF unavailable = {} THEN adjusted
                 ELSE IF allowPartial THEN PartialScore(raw, adjusted, maximum)
                 ELSE -1
    IN  IF ~(RequiredIndicators \subseteq available) THEN Unprocessable
        ELSE [success |-> TRUE,
              status |-> IF unavailable = {} THEN "COMPLETE" ELSE "PARTIAL",
              score |-> score,
              level |-> IF score = -1 THEN "none" ELSE ClassifyRiskScore(score),
              basis |-> IF unavailable = {} THEN "all_indicators"
                        ELSE IF allowPartial THEN "available_indicator_weights" ELSE "none",
              raw |-> raw, maximum |-> maximum,
              contributions |-> [i \in available |-> found[i]],
              unavailable |-> unavailable,
              overrides |-> IF expired THEN {[raw |-> raw, adjusted |-> adjusted]} ELSE {}]

AssessStudentRisk(student, allowPartial) ==
    CalculateAcademicRisk(Evaluate(student), allowPartial)
-----------------------------------------------------------------------------
(* What a partial assessment leaves open.                                  *)

LevelOrder == [LOW |-> 1, MEDIUM |-> 2, HIGH |-> 3, CRITICAL |-> 4]

\* The result had the missing indicators been found, with these points each.
Completed(student, points) ==
    CalculateAcademicRisk([i \in Indicators |->
        LET found == Evaluate(student)[i]
        IN  IF found = Absent THEN Contribution(points[i], "ASSUMED") ELSE found], FALSE)

LevelIsBracketed(student, level) ==
    /\ LevelOrder[Completed(student, [i \in Indicators |-> 0]).level] <= LevelOrder[level]
    /\ LevelOrder[level] <= LevelOrder[Completed(student, MaximumPoints).level]
=============================================================================
