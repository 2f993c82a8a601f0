---------------------------- MODULE AlertPipeline ----------------------------
(***************************************************************************)
(* The results the stages of the daily workflow hand to each other: the    *)
(* risk detection (workflows/automatic_risk_detection), the alerts made of *)
(* it and of two sources of their own (workflows/academic_alerts), and the *)
(* batch of their deliveries (telegram/notifications).                     *)
(***************************************************************************)
EXTENDS RiskReaders

None == "none"

\* No student has a result in an empty map.
NoResults == [s \in {} |-> None]
-----------------------------------------------------------------------------
(* Risk detection over the assessments parsed of the active students.      *)

DetectionStatus(parsed) ==
    LET evaluated == {s \in DOMAIN parsed : parsed[s].parsed}
    IN  IF evaluated = {} /\ DOMAIN parsed # {} THEN "failed"
        ELSE IF \/ evaluated # DOMAIN parsed
                \/ \E s \in evaluated : parsed[s].status = "PARTIAL" THEN "partial"
        ELSE "completed"

\* Only the students who require attention are among the results.
DetectionResult(parsed) ==
    LET found == {s \in DOMAIN parsed : parsed[s].parsed /\ parsed[s].attention}
    IN  [status |-> DetectionStatus(parsed), results |-> [s \in found |-> parsed[s]]]

FailedDetection == [status |-> "failed", results |-> NoResults]
-----------------------------------------------------------------------------
(* Alert sources.  A result that is not successful, or that contradicts    *)
(* itself, is no source.                                                   *)

ParseDelay(result) ==
    IF ~result.success THEN Unsuccessful
    ELSE IF result.is_delayed # (result.delay_ects > 0) THEN Unsuccessful ELSE result

StudyRightAlertCode == [EXPIRED |-> "STUDY_RIGHT_EXPIRED",
                        EXPIRING_SOON |-> "STUDY_RIGHT_EXPIRING_SOON",
                        EXTENDED |-> "STUDY_RIGHT_EXTENDED"]

ParseStudyRight(result) ==
    IF ~result.success THEN Unsuccessful
    ELSE IF result.requires_attention # (result.risk_status \in DOMAIN StudyRightAlertCode)
    THEN Unsuccessful ELSE result

\* _risk_results and the check of its scope against the students read again.
RiskSource(detection, ids) ==
    IF detection.status = "failed" \/ ~(DOMAIN detection.results \subseteq ids)
    THEN FailedDetection ELSE detection

SourceStatus(loaded, ids) ==
    IF loaded = ids THEN "completed" ELSE IF loaded # {} THEN "partial" ELSE "failed"

AlertStatus(statuses) ==
    IF statuses = {"completed"} THEN "completed"
    ELSE IF statuses \cap {"completed", "partial"} # {} THEN "partial" ELSE "failed"
-----------------------------------------------------------------------------
(* AcademicAlertGenerator.                                                 *)

DelayAlert(s, delay) ==
    IF delay.success /\ delay.is_delayed THEN {[student |-> s, type |-> "DELAYED_PROGRESS"]} ELSE {}

StudyRightAlert(s, right) ==
    IF right.success /\ right.requires_attention
    THEN {[student |-> s, type |-> StudyRightAlertCode[right.risk_status]]} ELSE {}

\* Left out when an alert of its own covers one of the actionable indicators.
OverallRiskAlert(s, risk, covered) ==
    IF ~risk.attention \/ risk.actionable \cap covered # {} THEN {}
    ELSE {[student |-> s, type |-> "ACADEMIC_RISK_DETECTED"]}

AlertsOf(s, delay, right, results) ==
    LET delayed == DelayAlert(s, delay)
        threatened == StudyRightAlert(s, right)
        covered == (IF delayed # {} THEN {"academic_delay"} ELSE {})
                   \cup (IF threatened # {} THEN {"study_right"} ELSE {})
    IN  delayed \cup threatened
        \cup (IF s \in DOMAIN results THEN OverallRiskAlert(s, results[s], covered) ELSE {})

\* `delays` and `rights` map the active students, read again, to their sources.
GenerateAlerts(delays, rights, detection) ==
    LET ids == DOMAIN delays
        risk == RiskSource(detection, ids)
        statuses == {SourceStatus({s \in ids : delays[s].success}, ids),
                     SourceStatus({s \in ids : rights[s].success}, ids), risk.status}
    IN  [status |-> AlertStatus(statuses),
         alerts |-> UNION {AlertsOf(s, delays[s], rights[s], risk.results) : s \in ids}]

FailedAlerts == [status |-> "failed", alerts |-> {}]
-----------------------------------------------------------------------------
(* _batch_result over the deliveries [student, type, tutor, status].       *)

BatchStatus(deliveries, source) ==
    LET with(x) == {d \in deliveries : d.status = x}
    IN  IF with("failed") # {} /\ with("delivered") = {} THEN "failed"
        ELSE IF with("failed") \cup with("skipped") # {} \/ source = "partial" THEN "partial"
        ELSE "completed"
=============================================================================
