------------------------ MODULE MCScheduledWorkflows ------------------------
(* Two students, quiet or alarming in one of the ways the stages judge     *)
(* differently; two tutors, one of them responsible for both students and  *)
(* perhaps without a chat; an overall-risk alert long enough for three     *)
(* messages; pages of one student.                                         *)
EXTENDS ScheduledWorkflows

Fact(expected, right, deadlines, meetings) ==
    [ects |-> [read |-> "ok", completed |-> 100, expected |-> expected],
     right |-> [read |-> "ok", status |-> right],
     events |-> [read |-> "ok", rows |-> deadlines],
     meetings |-> [read |-> "ok", rows |-> meetings]]

Deadline == [type |-> "DEADLINE", day |-> 3, all |-> TRUE]
Held(status) == [id |-> 1, status |-> status, day |-> -3, sound |-> TRUE]

Quiet == Fact(100, "ACTIVE", {}, {Held("COMPLETED")})
TwoAlerts == Fact(160, "EXPIRED", {}, {Held("MISSED")})
Uncovered == Fact(100, "EXTENDED", {Deadline}, {Held("MISSED")})     \* the overall risk as well
Incomplete == Fact(130, "ACTIVE", {Deadline}, {})                    \* no meeting is known

MCFacts == {<<Quiet, Uncovered>>, <<TwoAlerts, Quiet>>, <<Uncovered, Incomplete>>}

MCAssignedTo == [t \in Tutors |-> IF t = "both" THEN StudentIds ELSE {1}]
MCChunksOf(type) == IF type = "ACADEMIC_RISK_DETECTED" THEN 3 ELSE 1
=============================================================================
