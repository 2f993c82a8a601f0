---------------------------- MODULE DailyWorkflow ----------------------------
(***************************************************************************)
(* workflows/daily as the scheduler runs it: the events of the day, the    *)
(* risk detection, the alerts and their delivery, one after the other in   *)
(* one thread and through one session, each of the last three with an      *)
(* execution row of its own; around them the check of the tutor actions    *)
(* that is always unavailable.                                             *)
(***************************************************************************)
EXTENDS WorkflowDatabase, AlertPipeline

CONSTANTS
    ChunksOf(_),    \* into how many messages the alert of a type is split
    DailyRun        \* the instance that runs the daily workflow

AlertTypes == {"DELAYED_PROGRESS", "ACADEMIC_RISK_DETECTED", "STUDY_RIGHT_EXPIRED",
               "STUDY_RIGHT_EXPIRING_SOON", "STUDY_RIGHT_EXTENDED"}

ASSUME DailyRunAssumption == DailyRun \in Instances
ASSUME ChunksAssumption == \A type \in AlertTypes : ChunksOf(type) \in Nat \ {0}

VARIABLES
    daily,      \* the run: where it stands and what its stages left
    sender,     \* has Telegram's sender been configured?
    arrived     \* the messages that reached a tutor, [student, type, tutor, chunk]

dailyVars == <<daily, sender, arrived>>

DailyStages == {"off", "start", "events", "risk.start", "risk.list", "risk.assess", "risk.end",
                "alerts.start", "alerts.list", "alerts.load", "alerts.end",
                "delivery.start", "delivery.next", "delivery.end", "end", "done", "crashed"}

CheckStatuses == FinalStatuses \cup {None}

\* Mutant of RecipientsOf: the query forgets the join with the assignments.
RecipientsOfAnyStudent(s) == reachable

\* list_active_tutor_recipients_for_student and the check of its rows: an assigned
\* tutor without a chat is not in the answer.
RecipientsOf(s) == {t \in reachable : s \in AssignedTo[t]}

DailyTypeOK ==
    /\ daily.at \in DailyStages
    /\ daily.todo \cup daily.first \cup daily.again \subseteq StudentIds
    /\ {daily.events, daily.risks, daily.alerts, daily.notified, daily.status} \subseteq CheckStatuses
    /\ sender \in BOOLEAN
    /\ \A m \in arrived : /\ m.tutor \in reachable /\ m.student \in AssignedTo[m.tutor]
                          /\ m.chunk \in 1..ChunksOf(m.type)

NewDaily ==
    [at |-> "off", todo |-> {},
     events |-> None, risks |-> None, alerts |-> None, notified |-> None,
     first |-> {}, parsed |-> NoResults, detection |-> None,
     again |-> {}, delays |-> NoResults, rights |-> NoResults, generated |-> None,
     queue |-> {}, deliveries |-> {}, status |-> None]

DailyInit(at) ==
    /\ daily = [NewDaily EXCEPT !.at = at]
    /\ sender \in BOOLEAN
    /\ arrived = {}

\* The run goes on at `at`, with the fields of `changes` replaced.
Goto(at, changes) ==
    daily' = [x \in DOMAIN daily |-> IF x = "at" THEN at
                                     ELSE IF x \in DOMAIN changes THEN changes[x] ELSE daily[x]]

At(stage) == daily.at = stage
Stay == [x \in {} |-> None]
WithResult(results, s, result) ==
    [x \in DOMAIN results \cup {s} |-> IF x = s THEN result ELSE results[x]]
First(ids) == CHOOSE s \in ids : \A t \in ids : s <= t

StartDaily ==
    /\ At("start") /\ StartExecution(DailyRun, "daily") /\ Goto("events", Stay)
    /\ UNCHANGED <<sender, arrived>>

\* _check_academic_events: the events are asked for valid dates.
CheckEvents ==
    /\ At("events") /\ ReadsOnly /\ UNCHANGED <<sender, arrived>>
    /\ \/ StatementSucceeds(DailyRun) /\ Goto("risk.start", [events |-> "completed"])
       \/ StatementFails(DailyRun) /\ Goto("risk.start", [events |-> "failed"])
-----------------------------------------------------------------------------
(* AutomaticRiskDetectionWorkflow.                                         *)

StartRisk ==
    /\ At("risk.start") /\ StartExecution(DailyRun, "risk") /\ Goto("risk.list", Stay)
    /\ UNCHANGED <<sender, arrived>>

ListForRisk ==
    /\ At("risk.list") /\ ReadsOnly /\ UNCHANGED <<sender, arrived>>
    /\ \/ StatementSucceeds(DailyRun) /\ Goto("risk.assess", [todo |-> active, first |-> active])
       \/ StatementFails(DailyRun) /\ Goto("risk.end", [detection |-> FailedDetection])

\* The scoring service turns whatever fails into missing evidence.
AssessNext ==
    /\ At("risk.assess") /\ daily.todo # {}
    /\ ReadsOnly /\ UNCHANGED <<sender, arrived>>
    /\ LET s == First(daily.todo)
       IN  \E r \in DOMAIN ReadOrder :
              /\ ReadsFail(DailyRun, r)
              /\ Goto("risk.assess",
                      [todo |-> daily.todo \ {s},
                       parsed |-> WithResult(daily.parsed, s, ParseAssessment(
                                      AssessStudentRisk(FactsFrom(r, facts[s]), TRUE)))])

ConcludeRisk ==
    /\ At("risk.assess") /\ daily.todo = {}
    /\ Goto("risk.end", [detection |-> DetectionResult(daily.parsed), parsed |-> NoResults])
    /\ UNCHANGED <<databaseVars, sender, arrived>>

\* The result is kept for the alerts even when it is a failed one.
FinishRisk ==
    /\ At("risk.end")
    /\ FinishExecution(DailyRun, "risk", daily.detection.status)
    /\ Goto("alerts.start", [risks |-> daily.detection.status])
    /\ UNCHANGED <<sender, arrived>>
-----------------------------------------------------------------------------
(* AcademicAlertWorkflow: it reads the active students again.              *)

StartAlerts ==
    /\ At("alerts.start") /\ StartExecution(DailyRun, "alerts") /\ Goto("alerts.list", Stay)
    /\ UNCHANGED <<sender, arrived>>

ListForAlerts ==
    /\ At("alerts.list") /\ ReadsOnly /\ UNCHANGED <<sender, arrived>>
    /\ \/ StatementSucceeds(DailyRun) /\ Goto("alerts.load", [todo |-> active, again |-> active])
       \/ StatementFails(DailyRun) /\ Goto("alerts.end", [generated |-> FailedAlerts])

LoadNext ==
    /\ At("alerts.load") /\ daily.todo # {}
    /\ ReadsOnly /\ UNCHANGED <<sender, arrived>>
    /\ LET s == First(daily.todo)
       IN  \E r \in {"ects", "right", "none"} :
              LET read == FactsFrom(r, facts[s])
              IN  /\ ReadsFail(DailyRun, r)
                  /\ Goto("alerts.load",
                          [todo |-> daily.todo \ {s},
                           delays |-> WithResult(daily.delays, s,
                                          ParseDelay(DetectStudentDelay(read.ects))),
                           rights |-> WithResult(daily.rights, s,
                                          ParseStudyRight(DetectStudyRightRisk(read.right)))])

ConcludeAlerts ==
    /\ At("alerts.load") /\ daily.todo = {}
    /\ Goto("alerts.end",
            [generated |-> GenerateAlerts(daily.delays, daily.rights, daily.detection),
             delays |-> NoResults, rights |-> NoResults])
    /\ UNCHANGED <<databaseVars, sender, arrived>>

\* Without a sender nothing is delivered.
FinishAlerts ==
    /\ At("alerts.end")
    /\ FinishExecution(DailyRun, "alerts", daily.generated.status)
    /\ IF sender THEN Goto("delivery.start", [alerts |-> daily.generated.status])
       ELSE Goto("end", [alerts |-> daily.generated.status, notified |-> "unavailable"])
    /\ UNCHANGED <<sender, arrived>>
-----------------------------------------------------------------------------
(* AcademicAlertNotificationDelivery.                                      *)

StartDelivery ==
    /\ At("delivery.start") /\ StartExecution(DailyRun, "delivery")
    /\ IF daily.generated.status = "failed" THEN Goto("delivery.end", [notified |-> "failed"])
       ELSE Goto("delivery.next", [queue |-> daily.generated.alerts])
    /\ UNCHANGED <<sender, arrived>>

\* One alert to one tutor: n chunks are acknowledged; if that is not all of them,
\* the next one failed, and after a timeout it may have arrived all the same.
SendTo(alert, tutor, n, late) ==
    LET sent == IF late THEN n + 1 ELSE n
    IN  {[student |-> alert.student, type |-> alert.type, tutor |-> tutor, chunk |-> c] :
            c \in 1..sent}

\* Mutant of SendStatus: an alert of which a part arrived counts as delivered.
SendStatusOfSome(alert, n) == IF n >= 1 THEN "delivered" ELSE "failed"

SendStatus(alert, n) == IF n = ChunksOf(alert.type) THEN "delivered" ELSE "failed"

\* _deliver_alert, for every tutor in turn and by whatever fate of each message.
DeliverNext ==
    /\ At("delivery.next") /\ daily.queue # {}
    /\ ReadsOnly /\ UNCHANGED sender
    /\ LET alert == CHOOSE a \in daily.queue : a.student = First({b.student : b \in daily.queue})
           tutors == RecipientsOf(alert.student)
           left == daily.queue \ {alert}
           delivery(t, status) == [student |-> alert.student, type |-> alert.type,
                                   tutor |-> t, status |-> status]
       IN  \/ /\ StatementFails(DailyRun) /\ UNCHANGED arrived
              /\ Goto("delivery.next",
                      [queue |-> left,
                       deliveries |-> daily.deliveries \cup {delivery(None, "failed")}])
           \/ /\ StatementSucceeds(DailyRun) /\ tutors = {} /\ UNCHANGED arrived
              /\ Goto("delivery.next",
                      [queue |-> left,
                       deliveries |-> daily.deliveries \cup {delivery(None, "skipped")}])
           \/ /\ StatementSucceeds(DailyRun) /\ tutors # {}
              /\ \E n \in [tutors -> 0..ChunksOf(alert.type)], late \in [tutors -> BOOLEAN] :
                    /\ \A t \in tutors : late[t] => n[t] < ChunksOf(alert.type)
                    /\ arrived' = arrived \cup UNION {SendTo(alert, t, n[t], late[t]) : t \in tutors}
                    /\ Goto("delivery.next",
                            [queue |-> left,
                             deliveries |-> daily.deliveries \cup
                                 {delivery(t, SendStatus(alert, n[t])) : t \in tutors}])

ConcludeDelivery ==
    /\ At("delivery.next") /\ daily.queue = {}
    /\ Goto("delivery.end",
            [notified |-> BatchStatus(daily.deliveries, daily.generated.status),
             deliveries |-> {}])
    /\ UNCHANGED <<databaseVars, sender, arrived>>

FinishDelivery ==
    /\ At("delivery.end")
    /\ FinishExecution(DailyRun, "delivery", daily.notified)
    /\ Goto("end", Stay)
    /\ UNCHANGED <<sender, arrived>>
-----------------------------------------------------------------------------
\* The five checks, the last of them unavailable always.
DailyStatus ==
    AggregateStatus({daily.events, daily.risks, daily.alerts, daily.notified, "unavailable"})

FinishDaily ==
    /\ At("end")
    /\ FinishExecution(DailyRun, "daily", DailyStatus)
    /\ Goto("done", [status |-> DailyStatus])
    /\ UNCHANGED <<sender, arrived>>

\* What the process knew is gone.
DailyCrash ==
    /\ ~At("off") /\ ~At("done") /\ ~At("crashed")
    /\ daily' = [NewDaily EXCEPT !.at = "crashed"]
    /\ UNCHANGED <<databaseVars, sender, arrived>>

\* Students become active, or stop being it, between the two readings.
StatusChanges ==
    /\ At("alerts.start")
    /\ active' \in SUBSET StudentIds
    /\ UNCHANGED <<facts, reachable, session, log, outcome, unwritten, dailyVars>>

DailyNext ==
    \/ StartDaily \/ CheckEvents
    \/ StartRisk \/ ListForRisk \/ AssessNext \/ ConcludeRisk \/ FinishRisk
    \/ StartAlerts \/ ListForAlerts \/ LoadNext \/ ConcludeAlerts \/ FinishAlerts
    \/ StartDelivery \/ DeliverNext \/ ConcludeDelivery \/ FinishDelivery
    \/ FinishDaily \/ DailyCrash \/ StatusChanges
-----------------------------------------------------------------------------
\* The indicators that the alerts of a type are about.
Concerns(type, risk) ==
    IF type = "DELAYED_PROGRESS" THEN {"academic_delay"}
    ELSE IF type = "ACADEMIC_RISK_DETECTED" THEN risk.actionable ELSE {"study_right"}

(* When a daily run reports risk detection, alerts and notifications as    *)
(* completed, no student who is active at both of its readings is skipped: *)
(* one whose facts are alarming has an alert about an indicator that is,   *)
(* a student with an alert has an assigned tutor with a chat, and every    *)
(* message of every alert reached all of those tutors, whatever failed,    *)
(* timed out, changed between the readings or was left to another alert on *)
(* the way.  It says nothing of an assigned tutor without a chat: the code *)
(* passes over one as long as another assigned tutor can be reached.       *)
NobodyIsSkippedSilently ==
    At("done") /\ {daily.risks, daily.alerts, daily.notified} = {"completed"} =>
        \A s \in daily.first \cap daily.again :
            LET risk == ParseAssessment(AssessStudentRisk(facts[s], TRUE))
                alerts == {a \in daily.generated.alerts : a.student = s}
            IN  /\ risk.parsed /\ risk.attention =>
                       \E a \in alerts : Concerns(a.type, risk) \cap risk.actionable # {}
                /\ alerts # {} => RecipientsOf(s) # {}
                /\ \A a \in alerts, t \in RecipientsOf(s) : \A c \in 1..ChunksOf(a.type) :
                       [student |-> s, type |-> a.type, tutor |-> t, chunk |-> c] \in arrived
=============================================================================
