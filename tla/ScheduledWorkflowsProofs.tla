----------------------- MODULE ScheduledWorkflowsProofs ------------------------
(***************************************************************************)
(* The three scheduled jobs, proved for any students, tutors, instances    *)
(* and page size, and the views of one student, proved for all facts.      *)
(*                                                                         *)
(* The first part is FirstReportStands: the invariant ties what a weekly   *)
(* instance says of its report to the stored row, for only an instance     *)
(* that is past saving can be the author of the row.                       *)
(*                                                                         *)
(* The second is what the runs say of themselves.  A failed statement      *)
(* leaves the session aborted until something rolls it back, so the one    *)
(* idea of the invariant is that an aborted session is always told by the  *)
(* results the run has collected so far: a run can then say "completed"    *)
(* only when no read was missing, and what was read is what is stored.     *)
(*                                                                         *)
(* The third is about the risk policy the jobs judge by and the other      *)
(* views that judge by it (EvidenceChain).                                 *)
(***************************************************************************)
EXTENDS ScheduledWorkflows, EvidenceChain, ListIdiomsProofs

Fields == {"at", "events", "directory", "progress", "risks", "total", "rows", "listed",
           "memo", "assessed", "buckets", "counts", "status", "persistence"}

\* The run of every instance is a record with these fields.
RunsAreRecords ==
    /\ DOMAIN weekly = Instances
    /\ \A i \in Instances : DOMAIN weekly[i] = Fields

\* The stored report has an author; no report has none.
StoreHasAuthor == store = NoReport \/ store.by \in Instances

\* What an instance says of its report is true, and it says so after saving only.
SaysWhatIsStored ==
    \A i \in Instances :
        /\ weekly[i].persistence = "saved" =>
               weekly[i].at \in {"end", "done"} /\ store = Report(i)
        /\ weekly[i].persistence = "already_stored" =>
               weekly[i].at \in {"end", "done"} /\ store.by \notin {0, i}
        /\ store.by = i => weekly[i].at \in {"end", "done", "crashed"}

\* The inductive invariant.
ReportInv == RunsAreRecords /\ StoreHasAuthor /\ SaysWhatIsStored

\* What the property says of one step.
StoreStands == store # NoReport => store' = store
-----------------------------------------------------------------------------
(* A new run has the fields of a run and has attempted nothing.            *)
LEMMA NewRun ==
    ASSUME NEW at
    PROVE  LET w == [NewWeekly EXCEPT !.at = at]
           IN  DOMAIN w = Fields /\ w.at = at /\ w.persistence = "not_attempted"
BY DEF NewWeekly, Fields

(* Step replaces fields of one run.                                        *)
LEMMA StepFields ==
    ASSUME RunsAreRecords, NEW i \in Instances, NEW at, NEW changes, Step(i, at, changes)
    PROVE  /\ RunsAreRecords'
           /\ \A j \in Instances \ {i} : weekly'[j] = weekly[j]
           /\ weekly'[i].at = at
           /\ \A x \in Fields \ {"at"} :
                 weekly'[i][x] = IF x \in DOMAIN changes THEN changes[x] ELSE weekly[i][x]
BY DEF RunsAreRecords, Step, Fields

(* A step before the save, of an instance that has not saved, that leaves  *)
(* the stored report alone.                                                *)
LEMMA BeforeTheSave ==
    ASSUME ReportInv, NEW i \in Instances, NEW at, NEW changes, Step(i, at, changes),
           weekly[i].at \notin {"end", "done", "crashed"},
           "persistence" \notin DOMAIN changes, UNCHANGED store
    PROVE  ReportInv' /\ StoreStands
<1>1. /\ RunsAreRecords'
      /\ \A j \in Instances \ {i} : weekly'[j] = weekly[j]
      /\ weekly'[i].persistence = weekly[i].persistence
    BY StepFields DEF ReportInv, Fields
<1>2. /\ weekly[i].persistence \notin {"saved", "already_stored"}
      /\ store.by # i
    BY DEF ReportInv, SaysWhatIsStored
<1>3. \A j \in Instances \ {i} : Report(j)' = Report(j)
    BY <1>1 DEF Report, WeeklyStatus
<1>4. SaysWhatIsStored'
    BY <1>1, <1>2, <1>3 DEF ReportInv, SaysWhatIsStored
<1> QED BY <1>1, <1>4 DEF ReportInv, StoreHasAuthor, StoreStands, NoReport

(* The save itself.                                                        *)
LEMMA SaveKeeps ==
    ASSUME ReportInv, NEW i \in Instances, SaveReport(i)
    PROVE  ReportInv' /\ StoreStands
<1>0. /\ weekly[i].at = "save" /\ store.by # i /\ i # 0
      /\ weekly[i].persistence \notin {"saved", "already_stored"}
      /\ Report(i) # NoReport /\ Report(i).by = i
    BY InstancesAssumption DEF ReportInv, SaysWhatIsStored, SaveReport, Report, NoReport
<1>1. CASE /\ store' = StoreAfterInsert(i)
           /\ Step(i, "end", [status |-> WeeklyStatus(weekly[i]),
                              persistence |-> IF store = NoReport THEN "saved"
                                              ELSE "already_stored"])
  <2>1. /\ RunsAreRecords'
        /\ \A j \in Instances \ {i} : weekly'[j] = weekly[j]
        /\ weekly'[i].at = "end"
        /\ \A x \in Fields \ {"at", "status", "persistence"} : weekly'[i][x] = weekly[i][x]
        /\ weekly'[i].persistence = IF store = NoReport THEN "saved" ELSE "already_stored"
      BY <1>1, StepFields DEF ReportInv, Fields
  <2>2. \A j \in Instances : Report(j)' = Report(j)
      BY <2>1 DEF Report, WeeklyStatus, Fields
  <2>3. CASE store = NoReport
    <3>1. store' = Report(i) /\ weekly'[i].persistence = "saved"
        BY <1>1, <2>1, <2>3 DEF StoreAfterInsert
    <3>2. \A j \in Instances : store.by # j
        BY <2>3, InstancesAssumption DEF NoReport
    <3>3. \A j \in Instances \ {i} : weekly[j].persistence \notin {"saved", "already_stored"}
        BY <2>3, InstancesAssumption DEF ReportInv, SaysWhatIsStored, NoReport, Report
    <3>4. SaysWhatIsStored'
        BY <1>0, <2>1, <2>2, <3>1, <3>3 DEF SaysWhatIsStored
    <3> QED BY <1>0, <2>1, <2>3, <3>1, <3>4 DEF ReportInv, StoreHasAuthor, StoreStands
  <2>4. CASE store # NoReport
    <3>1. store' = store /\ weekly'[i].persistence = "already_stored"
        BY <1>1, <2>1, <2>4 DEF StoreAfterInsert
    <3>2. store.by \notin {0, i}
        BY <1>0, <2>4, InstancesAssumption DEF ReportInv, StoreHasAuthor
    <3>3. SaysWhatIsStored'
        BY <2>1, <2>2, <3>1, <3>2 DEF ReportInv, SaysWhatIsStored
    <3> QED BY <2>1, <3>1, <3>3 DEF ReportInv, StoreHasAuthor, StoreStands, NoReport
  <2> QED BY <2>3, <2>4
<1>2. CASE /\ UNCHANGED store
           /\ Step(i, "end", [status |-> StatusAfterPersistenceFailure(WeeklyStatus(weekly[i])),
                              persistence |-> "failed"])
  <2>1. /\ RunsAreRecords'
        /\ \A j \in Instances \ {i} : weekly'[j] = weekly[j]
        /\ weekly'[i].persistence = "failed"
      BY <1>2, StepFields DEF ReportInv, Fields
  <2>2. \A j \in Instances \ {i} : Report(j)' = Report(j)
      BY <2>1 DEF Report, WeeklyStatus
  <2>3. SaysWhatIsStored'
      BY <1>0, <1>2, <2>1, <2>2 DEF ReportInv, SaysWhatIsStored
  <2> QED BY <1>2, <2>1, <2>3 DEF ReportInv, StoreHasAuthor, StoreStands, NoReport
<1> QED BY <1>1, <1>2 DEF SaveReport

(* The end of a run keeps what it says.                                    *)
LEMMA FinishKeeps ==
    ASSUME ReportInv, NEW i \in Instances, FinishWeekly(i)
    PROVE  ReportInv' /\ StoreStands
<1>1. /\ RunsAreRecords'
      /\ \A j \in Instances \ {i} : weekly'[j] = weekly[j]
      /\ weekly'[i].at = "done"
      /\ \A x \in Fields \ {"at"} : weekly'[i][x] = weekly[i][x]
      /\ store' = store
    BY StepFields DEF ReportInv, FinishWeekly, Unchanged, Fields
<1>2. \A j \in Instances : Report(j)' = Report(j)
    BY <1>1 DEF Report, WeeklyStatus, Fields
<1>3. \A j \in Instances : /\ weekly'[j].persistence = weekly[j].persistence
                           /\ weekly'[j].at = IF j = i THEN "done" ELSE weekly[j].at
    BY <1>1 DEF Fields
<1>4. SaysWhatIsStored'
    BY <1>1, <1>2, <1>3 DEF ReportInv, SaysWhatIsStored
<1> QED BY <1>1, <1>4 DEF ReportInv, StoreHasAuthor, StoreStands, NoReport

(* A crashed run says nothing any more; its report stays.                  *)
LEMMA CrashKeepsReport ==
    ASSUME ReportInv, NEW i \in Instances, WeeklyCrash(i)
    PROVE  ReportInv' /\ StoreStands
<1>1. /\ DOMAIN weekly' = Instances
      /\ \A j \in Instances \ {i} : weekly'[j] = weekly[j]
      /\ weekly'[i] = [NewWeekly EXCEPT !.at = "crashed"]
      /\ store' = store
    BY DEF WeeklyCrash, ReportInv, RunsAreRecords
<1>2. /\ DOMAIN weekly'[i] = Fields /\ weekly'[i].at = "crashed"
      /\ weekly'[i].persistence = "not_attempted"
    BY <1>1, NewRun
<1>3. \A j \in Instances \ {i} : Report(j)' = Report(j)
    BY <1>1 DEF Report, WeeklyStatus
<1>4. /\ \A j \in Instances \ {i} : weekly'[j] = weekly[j]
      /\ store' = store
    BY <1>1
<1>5. SaysWhatIsStored'
    BY <1>2, <1>3, <1>4 DEF ReportInv, SaysWhatIsStored
<1>6. RunsAreRecords'
    BY <1>1, <1>2 DEF ReportInv, RunsAreRecords
<1> QED BY <1>4, <1>5, <1>6 DEF ReportInv, StoreHasAuthor, StoreStands, NoReport

(* Each step of the weekly workflow.                                       *)
LEMMA WeeklyKeeps == ReportInv /\ WeeklyNext => ReportInv' /\ StoreStands
<1> SUFFICES ASSUME ReportInv, WeeklyNext PROVE ReportInv' /\ StoreStands
    OBVIOUS
<1>0. ASSUME NEW i \in Instances, NEW at, NEW changes, Step(i, at, changes),
             weekly[i].at \notin {"end", "done", "crashed"},
             "persistence" \notin DOMAIN changes, UNCHANGED store
      PROVE  ReportInv' /\ StoreStands
    BY <1>0, BeforeTheSave
<1>1. ASSUME NEW i \in Instances, StartWeekly(i) PROVE ReportInv' /\ StoreStands
    BY <1>0, <1>1 DEF StartWeekly, Unchanged
<1>2. ASSUME NEW i \in Instances, CheckWeekEvents(i) PROVE ReportInv' /\ StoreStands
    BY <1>0, <1>2 DEF CheckWeekEvents, Reading
<1>3. ASSUME NEW i \in Instances, CountStudents(i) PROVE ReportInv' /\ StoreStands
    BY <1>0, <1>3 DEF CountStudents, Reading, DirectoryFails
<1>4. ASSUME NEW i \in Instances, ReadPage(i) PROVE ReportInv' /\ StoreStands
  <2> DEFINE listed == weekly[i].listed \o Page(Len(weekly[i].listed))
  <2>1. weekly[i].at = "page" /\ UNCHANGED store
      BY <1>4 DEF ReadPage, Reading
  <2>2. \/ DirectoryFails(i)
        \/ Step(i, "count", [total |-> weekly[i].rows, listed |-> listed])
        \/ Step(i, "progress", [total |-> weekly[i].rows, listed |-> listed,
                                directory |-> "completed"])
      BY <1>4 DEF ReadPage
  <2> HIDE DEF listed
  <2> QED BY <1>0, <2>1, <2>2 DEF DirectoryFails
<1>5. ASSUME NEW i \in Instances, CheckProgress(i) PROVE ReportInv' /\ StoreStands
    BY <1>0, <1>5 DEF CheckProgress, Reading
<1>6. ASSUME NEW i \in Instances, AssessWeekly(i) PROVE ReportInv' /\ StoreStands
    BY <1>0, <1>6 DEF AssessWeekly, Reading
<1>7. ASSUME NEW i \in Instances, ConcludeRisks(i) PROVE ReportInv' /\ StoreStands
    BY <1>0, <1>7 DEF ConcludeRisks
<1>8. CASE EnrolmentChanges
  <2>1. weekly' = weekly /\ store' = store
      BY <1>8 DEF EnrolmentChanges
  <2> QED BY <2>1 DEF ReportInv, RunsAreRecords, StoreHasAuthor, SaysWhatIsStored, StoreStands,
                      NoReport, Report, WeeklyStatus
<1> QED BY <1>1, <1>2, <1>3, <1>4, <1>5, <1>6, <1>7, <1>8, SaveKeeps, FinishKeeps,
           CrashKeepsReport DEF WeeklyNext

(* At first no instance says anything and nothing is stored.               *)
LEMMA NothingIsStored == Init => ReportInv
<1> SUFFICES ASSUME Init PROVE ReportInv
    OBVIOUS
<1>1. PICK at : weekly = [i \in Instances |-> [NewWeekly EXCEPT !.at = at]] /\ store = NoReport
    BY DEF Init, WeeklyInit
<1>2. \A i \in Instances : /\ DOMAIN weekly[i] = Fields
                           /\ weekly[i].persistence = "not_attempted" /\ store.by # i
    BY <1>1, NewRun, InstancesAssumption DEF NoReport
<1> QED BY <1>1, <1>2 DEF ReportInv, RunsAreRecords, StoreHasAuthor, SaysWhatIsStored

(* For any number of instances, restarts and failures, the first report    *)
(* that was stored for the week stands, and every run that speaks of a     *)
(* stored report is right.                                                 *)
THEOREM FirstReportIsFinal == Spec => FirstReportStands
<1>1. Init => ReportInv
    BY NothingIsStored
<1>2. ReportInv /\ [Next]_vars => ReportInv' /\ StoreStands
  <2> SUFFICES ASSUME ReportInv, [Next]_vars PROVE ReportInv' /\ StoreStands
      OBVIOUS
  <2>1. CASE WeeklyNext
      BY <2>1, WeeklyKeeps
  <2>2. CASE UNCHANGED weeklyVars
    <3>1. weekly' = weekly /\ store' = store
        BY <2>2 DEF weeklyVars
    <3> QED BY <3>1 DEF ReportInv, RunsAreRecords, StoreHasAuthor, SaysWhatIsStored, StoreStands,
                        NoReport, Report, WeeklyStatus
  <2> QED BY <2>1, <2>2 DEF Next, vars
<1>3. ReportInv' /\ StoreStands =>
          /\ store # NoReport => store' = store
          /\ \A i \in Instances :
                /\ weekly'[i].persistence = "saved" => store' = Report(i)'
                /\ weekly'[i].persistence = "already_stored" => store'.by \notin {0, i}
    BY DEF ReportInv, SaysWhatIsStored, StoreStands
<1> QED BY <1>1, <1>2, <1>3, PTL DEF Spec, FirstReportStands
-----------------------------------------------------------------------------
(* The inductive invariant of the three jobs.                              *)

Aborted(i) == session[i] = "aborted"

\* A status that may be written: a completed result has a session to write it.
Speaks(status, i) == status \in FinalStatuses /\ (status = "completed" => ~Aborted(i))

\* The jobs are explored one after another.
OneJob ==
    \/ monday.at = "off" /\ \A i \in Instances : weekly[i].at = "off"
    \/ daily.at = "off" /\ monday.at = "off"
    \/ daily.at = "off" /\ \A i \in Instances : weekly[i].at = "off"

SharedInv == DatabaseTypeOK /\ HistoryTellsResults /\ OneJob

DailyFields == {"at", "todo", "events", "risks", "alerts", "notified", "first", "parsed",
                "detection", "again", "delays", "rights", "generated", "queue", "deliveries",
                "status"}

\* The stages of a daily run, from the end of its three parts on.
FromDelivery == {"delivery.end", "end", "done"}
FromAlerts == {"alerts.end", "delivery.start", "delivery.next"} \cup FromDelivery
FromRisk == {"risk.end", "alerts.start", "alerts.list", "alerts.load"} \cup FromAlerts
UpToListing == {"off", "start", "events", "risk.start", "risk.list"}


DailyTypes ==
    /\ DOMAIN daily = DailyFields
    /\ DailyTypeOK
    /\ daily.at \in FromAlerts =>
           \A a \in daily.generated.alerts : a.student \in StudentIds /\ a.type \in AlertTypes
    /\ daily.at = "delivery.next" => daily.queue \subseteq daily.generated.alerts

\* An assessment to which no read was missing.
Full(p) == p.parsed /\ p.status # "PARTIAL"

\* A failed read is told by the results that the run has collected.
FailureIsTold ==
    /\ At("risk.assess") /\ Aborted(DailyRun) => \E s \in DOMAIN daily.parsed : ~Full(daily.parsed[s])
    /\ At("risk.end") => Speaks(daily.detection.status, DailyRun)
    /\ At("alerts.load") /\ Aborted(DailyRun) =>
           \E s \in DOMAIN daily.delays : ~(daily.delays[s].success /\ daily.rights[s].success)
    /\ At("alerts.end") => Speaks(daily.generated.status, DailyRun)
    /\ At("delivery.next") /\ Aborted(DailyRun) => \E d \in daily.deliveries : d.status = "failed"
    /\ At("delivery.end") => Speaks(daily.notified, DailyRun)
    /\ At("end") => ~Aborted(DailyRun)

RiskOf(s) == ParseAssessment(AssessStudentRisk(facts[s], TRUE))
DelayOf(s) == ParseDelay(DetectStudentDelay(facts[s].ects))
RightOf(s) == ParseStudyRight(DetectStudyRightRisk(facts[s].right))

Alarming(s) == RiskOf(s).parsed /\ RiskOf(s).attention

Alerted(s) ==
    \E a \in daily.generated.alerts :
        a.student = s /\ Concerns(a.type, RiskOf(s)) \cap RiskOf(s).actionable # {}

Reached(a) ==
    /\ RecipientsOf(a.student) # {}
    /\ \A t \in RecipientsOf(a.student), c \in 1..ChunksOf(a.type) :
           [student |-> a.student, type |-> a.type, tutor |-> t, chunk |-> c] \in arrived

\* What is read in full is what the database holds.
RiskIsSeen ==
    /\ daily.at \in UpToListing => daily.parsed = NoResults
    /\ At("risk.assess") =>
           /\ daily.todo \subseteq daily.first
           /\ DOMAIN daily.parsed = daily.first \ daily.todo
           /\ \A s \in DOMAIN daily.parsed : Full(daily.parsed[s]) => daily.parsed[s] = RiskOf(s)
    /\ daily.at \in FromRisk /\ daily.detection.status = "completed" =>
           \A s \in daily.first : Alarming(s) =>
               s \in DOMAIN daily.detection.results /\ daily.detection.results[s] = RiskOf(s)

AlertsAreSeen ==
    /\ daily.at \in UpToListing \cup {"risk.assess", "risk.end", "alerts.start", "alerts.list"} =>
           daily.delays = NoResults /\ daily.rights = NoResults
    /\ At("alerts.load") =>
           /\ daily.todo \subseteq daily.again
           /\ DOMAIN daily.delays = daily.again \ daily.todo
           /\ DOMAIN daily.rights = daily.again \ daily.todo
           /\ \A s \in DOMAIN daily.delays :
                  /\ daily.delays[s].success => daily.delays[s] = DelayOf(s)
                  /\ daily.rights[s].success => daily.rights[s] = RightOf(s)
    /\ daily.at \in FromAlerts /\ daily.generated.status = "completed" =>
           daily.detection.status = "completed"
           /\ \A s \in daily.first \cap daily.again : Alarming(s) => Alerted(s)

DeliveryIsSeen ==
    /\ At("delivery.next") =>
           \A a \in daily.generated.alerts \ daily.queue :
               Reached(a) \/ \E d \in daily.deliveries : d.status \in {"failed", "skipped"}
    /\ daily.at \in FromDelivery /\ daily.notified = "completed" =>
           \A a \in daily.generated.alerts : Reached(a)
    /\ daily.at \in FromAlerts \ {"alerts.end"} => daily.alerts = daily.generated.status

DailyInv == DailyTypes /\ FailureIsTold /\ RiskIsSeen /\ AlertsAreSeen /\ DeliveryIsSeen
-----------------------------------------------------------------------------
MondayFields == {"at", "eventsMissing", "tutors", "todo", "briefing", "briefings", "status"}
BriefingFields == {"tutor", "students", "priority", "failed", "warned", "delivery"}

Whole(b, todo) ==
    /\ b.students = AssignedTo[b.tutor]
    /\ b.priority = {s \in b.students \ todo : NeedsAttention(s)}

MondayTypes ==
    /\ DOMAIN monday = MondayFields /\ monday.eventsMissing \in BOOLEAN
    /\ MondayTypeOK
    /\ \A b \in monday.briefings \cup {monday.briefing} :
           DOMAIN b = BriefingFields /\ b.warned \in BOOLEAN
    /\ monday.at = "analyze" =>
           /\ monday.briefing.tutor \in Tutors /\ monday.todo \subseteq monday.briefing.students
           /\ monday.briefing.failed \cup monday.briefing.priority \subseteq monday.briefing.students
    /\ \A b \in monday.briefings : b.delivery = "NOT_SENT" => b.tutor \in reachable

Written(t) == \E b \in monday.briefings : b.tutor = t

\* A failed read is told by a warning.
WarningsTell ==
    /\ monday.at \in {"off", "start", "events", "tutors"} =>
           monday.briefings = {} /\ ~monday.briefing.warned
    /\ monday.at = "tutors" /\ monday.eventsMissing => Aborted(MondayRun)
    /\ monday.at \in {"assigned", "analyze"} => ~monday.eventsMissing
    /\ monday.at = "assigned" => ~monday.briefing.warned
    /\ monday.at \in {"assigned", "analyze"} /\ Aborted(MondayRun) =>
           monday.briefing.warned \/ \E b \in monday.briefings : b.warned
    /\ monday.at \in {"deliver", "end"} => Speaks(monday.status, MondayRun)

BriefingsTell ==
    /\ \A b \in monday.briefings : ~b.warned => Whole(b, {})
    /\ monday.at = "analyze" => (~monday.briefing.warned => Whole(monday.briefing, monday.todo))
    /\ monday.at = "assigned" => \A t \in Tutors : t \in monday.tutors \/ Written(t)
    /\ monday.at = "analyze" =>
           \A t \in Tutors : t \in monday.tutors \/ t = monday.briefing.tutor \/ Written(t)
    /\ monday.at \in {"assigned", "analyze"} =>
           \A b \in monday.briefings : b.delivery \in {"NOT_SENT", "NO_DESTINATION"}
    /\ monday.at \in {"deliver", "end", "done"} /\ monday.status = "completed" =>
           /\ \A t \in Tutors : Written(t)
           /\ \A b \in monday.briefings :
                  /\ ~b.warned
                  /\ b.delivery = "NOT_SENT" \/ b.tutor \in received
                  /\ monday.at # "deliver" => b.delivery # "NOT_SENT"

MondayInv == MondayTypes /\ WarningsTell /\ BriefingsTell
-----------------------------------------------------------------------------
UpToPaging == {"off", "start", "events", "count", "page"}

RunTypes(w) ==
    /\ w.at \in WeeklyStages
    /\ w.listed \in Seq(StudentIds) /\ w.rows \in Nat /\ w.assessed \in Nat
    /\ w.buckets \in [Buckets -> Nat]
    /\ w.counts \in [{"BEHIND", "ON_TRACK", "AHEAD", "failed"} -> Int]

\* How many students are counted, of how many that were listed.
RunAddsUp(w) ==
    /\ w.at \in UpToPaging => w.assessed = 0 /\ w.buckets = NoBuckets /\ w.counts = NoCounts
    /\ w.at \in {"progress", "risks"} => w.directory = "completed"
    /\ w.at = "progress" => w.assessed = 0 /\ w.buckets = NoBuckets /\ w.counts = NoCounts
    /\ w.at \in {"progress", "risks", "save", "end", "done"} /\ w.directory = "completed" =>
           w.total = Len(w.listed)
    /\ w.at = "risks" => w.assessed <= Len(w.listed) /\ Total(w.buckets) = w.assessed
    /\ w.at \in {"save", "end", "done"} /\ w.directory = "completed" => Total(w.buckets) = w.total
    /\ w.at \in {"risks", "save", "end", "done"} /\ w.directory = "completed" =>
           /\ w.progress # "failed" => Total(w.counts) = w.total
           /\ w.progress = "completed" => IsInjective(w.listed)
    /\ w.at = "save" /\ w.risks = "completed" => w.buckets["PARTIAL"] + w.buckets["UNAVAILABLE"] = 0

RunTells(w, i) ==
    /\ w.at \notin {"end", "done"} => w.status = "none"
    /\ w.at = "end" => Speaks(w.status, i) /\ ~Aborted(i)
    /\ w.at \in {"end", "done"} /\ w.status = "completed" =>
           /\ w.directory = "completed" /\ w.persistence # "failed"
           /\ w.buckets["PARTIAL"] + w.buckets["UNAVAILABLE"] = 0

WeeklyInv ==
    /\ \A i \in Instances : RunTypes(weekly[i]) /\ RunAddsUp(weekly[i]) /\ RunTells(weekly[i], i)
    /\ enrolled \subseteq StudentIds
    /\ ReportInv

IInv == SharedInv /\ DailyInv /\ MondayInv /\ WeeklyInv
-----------------------------------------------------------------------------
(* The history.                                                            *)

HistoryInv == DatabaseTypeOK /\ HistoryTellsResults

\* What the sessions of the others are, they stay.
OnlySessionOf(i) == \A j \in Instances \ {i} : session'[j] = session[j]

(* A write of a row, or its rollback, leaves a usable session.             *)
LEMMA WriteRowLeaves ==
    ASSUME DatabaseTypeOK, NEW i \in Instances, NEW w \in Workflows,
           NEW row \in FinalStatuses \cup {"running"}, WriteRow(i, w, row)
    PROVE  /\ session' \in [Instances -> {"ok", "aborted"}]
           /\ session'[i] = "ok" /\ OnlySessionOf(i)
           /\ log' \in [Instances \X Workflows -> FinalStatuses \cup {"none", "running"}]
           /\ unwritten' \subseteq Instances \X Workflows
           /\ \/ log' = [log EXCEPT ![<<i, w>>] = row] /\ unwritten' = unwritten
              \/ log' = log /\ unwritten' = unwritten \cup {<<i, w>>}
              \/ log' = log /\ unwritten' = unwritten /\ Aborted(i)
BY DEF DatabaseTypeOK, WriteRow, WriteIsLost, OnlySessionOf, Aborted

(* A start is written as running or not at all.                            *)
LEMMA StartKeepsHistory ==
    ASSUME HistoryInv, NEW i \in Instances, NEW w \in Workflows, StartExecution(i, w)
    PROVE  HistoryInv' /\ ~Aborted(i)' /\ OnlySessionOf(i)
           /\ UNCHANGED <<facts, reachable, active>>
<1>1. DatabaseTypeOK /\ WriteRow(i, w, "running") /\ log[<<i, w>>] = "none"
      /\ UNCHANGED <<facts, reachable, active, outcome>>
    BY DEF HistoryInv, StartExecution
<1>2. /\ session' \in [Instances -> {"ok", "aborted"}]
      /\ session'[i] = "ok" /\ OnlySessionOf(i)
      /\ log' \in [Instances \X Workflows -> FinalStatuses \cup {"none", "running"}]
      /\ unwritten' \subseteq Instances \X Workflows
    BY <1>1, WriteRowLeaves
<1>3. /\ unwritten \subseteq unwritten'
      /\ log' = log \/ log' = [log EXCEPT ![<<i, w>>] = "running"]
    BY <1>1, WriteRowLeaves
<1>4. ASSUME NEW j \in Instances, NEW v \in Workflows
      PROVE  /\ log'[<<j, v>>] \in FinalStatuses => log'[<<j, v>>] = outcome[<<j, v>>]
             /\ outcome[<<j, v>>] # "none" /\ <<j, v>> \notin unwritten' =>
                    \/ log'[<<j, v>>] = outcome[<<j, v>>]
                    \/ v \notin {"daily", "weekly"} /\ outcome[<<j, v>>] # "completed"
  <2>1. /\ log[<<j, v>>] \in FinalStatuses => log[<<j, v>>] = outcome[<<j, v>>]
        /\ outcome[<<j, v>>] # "none" /\ <<j, v>> \notin unwritten =>
               \/ log[<<j, v>>] = outcome[<<j, v>>]
               \/ v \notin {"daily", "weekly"} /\ outcome[<<j, v>>] # "completed"
      BY DEF HistoryInv, HistoryTellsResults
  <2>2. CASE log'[<<j, v>>] = log[<<j, v>>]
      BY <1>3, <2>1, <2>2
  <2>3. CASE log'[<<j, v>>] # log[<<j, v>>]
    <3>1. log'[<<j, v>>] = "running" /\ log[<<j, v>>] = "none"
        BY <1>1, <1>3, <2>3 DEF DatabaseTypeOK
    <3> QED BY <1>3, <2>1, <3>1 DEF FinalStatuses
  <2> QED BY <2>2, <2>3
<1>5. HistoryTellsResults'
    BY <1>1, <1>4 DEF HistoryTellsResults
<1> QED BY <1>1, <1>2, <1>5 DEF HistoryInv, DatabaseTypeOK, Aborted

(* An end is written with the status of the result, unless the write is    *)
(* lost, or rolls back a failure that the result has told.                 *)
LEMMA FinishKeepsHistory ==
    ASSUME HistoryInv, NEW i \in Instances, NEW w \in Workflows, NEW status,
           FinishExecution(i, w, status), Speaks(status, i),
           w \in {"daily", "weekly"} => ~Aborted(i)
    PROVE  HistoryInv' /\ ~Aborted(i)' /\ OnlySessionOf(i)
           /\ UNCHANGED <<facts, reachable, active>>
<1>1. /\ DatabaseTypeOK /\ log[<<i, w>>] \in {"none", "running"}
      /\ status \in FinalStatuses /\ status # "none" /\ WriteRow(i, w, status)
      /\ outcome' = [outcome EXCEPT ![<<i, w>>] = status]
      /\ UNCHANGED <<facts, reachable, active>>
    BY DEF HistoryInv, FinishExecution, WorkflowOutcome, Speaks, FinalStatuses
<1>2. /\ session' \in [Instances -> {"ok", "aborted"}]
      /\ session'[i] = "ok" /\ OnlySessionOf(i)
      /\ log' \in [Instances \X Workflows -> FinalStatuses \cup {"none", "running"}]
      /\ unwritten' \subseteq Instances \X Workflows
    BY <1>1, WriteRowLeaves
<1>3. \/ log' = [log EXCEPT ![<<i, w>>] = status] /\ unwritten' = unwritten
      \/ log' = log /\ unwritten' = unwritten \cup {<<i, w>>}
      \/ log' = log /\ unwritten' = unwritten /\ Aborted(i)
    BY <1>1, WriteRowLeaves
<1>4. /\ outcome' \in [Instances \X Workflows -> FinalStatuses \cup {"none"}]
      /\ outcome'[<<i, w>>] = status
      /\ \A e \in (Instances \X Workflows) \ {<<i, w>>} :
            /\ outcome'[e] = outcome[e] /\ log'[e] = log[e]
            /\ e \in unwritten' <=> e \in unwritten
    BY <1>1, <1>3 DEF DatabaseTypeOK
<1>5. /\ log'[<<i, w>>] \in FinalStatuses => log'[<<i, w>>] = status
      /\ <<i, w>> \notin unwritten' =>
             log'[<<i, w>>] = status \/ (w \notin {"daily", "weekly"} /\ status # "completed")
  <2>1. CASE log' = [log EXCEPT ![<<i, w>>] = status]
    <3>1. log'[<<i, w>>] = status
        BY <1>1, <2>1 DEF DatabaseTypeOK
    <3> QED BY <3>1
  <2>2. CASE log' = log /\ unwritten' = unwritten \cup {<<i, w>>}
      BY <1>1, <2>2 DEF FinalStatuses
  <2>3. CASE log' = log /\ unwritten' = unwritten /\ Aborted(i)
      BY <1>1, <2>3 DEF Speaks, FinalStatuses
  <2> QED BY <1>3, <2>1, <2>2, <2>3
<1>6. ASSUME NEW j \in Instances, NEW v \in Workflows
      PROVE  /\ log'[<<j, v>>] \in FinalStatuses => log'[<<j, v>>] = outcome'[<<j, v>>]
             /\ outcome'[<<j, v>>] # "none" /\ <<j, v>> \notin unwritten' =>
                    \/ log'[<<j, v>>] = outcome'[<<j, v>>]
                    \/ v \notin {"daily", "weekly"} /\ outcome'[<<j, v>>] # "completed"
  <2>1. CASE <<j, v>> = <<i, w>>
      BY <1>4, <1>5, <2>1
  <2>2. CASE <<j, v>> # <<i, w>>
    <3>1. /\ log[<<j, v>>] \in FinalStatuses => log[<<j, v>>] = outcome[<<j, v>>]
          /\ outcome[<<j, v>>] # "none" /\ <<j, v>> \notin unwritten =>
                 \/ log[<<j, v>>] = outcome[<<j, v>>]
                 \/ v \notin {"daily", "weekly"} /\ outcome[<<j, v>>] # "completed"
        BY DEF HistoryInv, HistoryTellsResults
    <3>2. <<j, v>> \in (Instances \X Workflows) \ {<<i, w>>}
        BY <2>2
    <3> QED BY <1>4, <3>1, <3>2
  <2> QED BY <2>1, <2>2
<1>7. HistoryTellsResults'
    BY <1>6 DEF HistoryTellsResults
<1> QED BY <1>1, <1>2, <1>4, <1>7 DEF HistoryInv, DatabaseTypeOK, Aborted

(* Reads leave the history alone, whatever becomes of the session.         *)
Reads(i) ==
    /\ ReadsOnly
    /\ session' = session \/ session' = [session EXCEPT ![i] = "aborted"]

\* Reads leave the history and the rows of the run as they are.
LEMMA ReadsKeepHistory ==
    ASSUME HistoryInv, NEW i \in Instances, Reads(i)
    PROVE  HistoryInv' /\ OnlySessionOf(i) /\ (Aborted(i) => Aborted(i)')
           /\ UNCHANGED <<facts, reachable, active>>
<1>1. session' \in [Instances -> {"ok", "aborted"}] /\ OnlySessionOf(i) /\ (Aborted(i) => Aborted(i)')
    BY DEF HistoryInv, DatabaseTypeOK, Reads, OnlySessionOf, Aborted
<1>2. UNCHANGED <<facts, reachable, active, log, outcome, unwritten>>
    BY DEF Reads, ReadsOnly
<1> QED BY <1>1, <1>2 DEF HistoryInv, DatabaseTypeOK, HistoryTellsResults

(* The kinds of reads.                                                     *)
LEMMA KindsOfReads ==
    ASSUME DatabaseTypeOK, NEW i \in Instances
    PROVE  /\ ReadsOnly /\ StatementSucceeds(i) => Reads(i) /\ ~Aborted(i) /\ ~Aborted(i)'
           /\ ReadsOnly /\ StatementFails(i) => Reads(i) /\ Aborted(i)'
           /\ \A r \in DOMAIN ReadOrder : ReadsOnly /\ ReadsFail(i, r) =>
                  /\ Reads(i)
                  /\ Aborted(i) => r = "ects"
                  /\ Aborted(i)' => Aborted(i) \/ r \in {"ects", "right", "events"}
BY DEF DatabaseTypeOK, Reads, StatementSucceeds, StatementFails, ReadsFail, Aborted, ReadOrder
-----------------------------------------------------------------------------
(* The evidence and what the stages make of it.                            *)

(* With no failure the facts are read as they are stored.                  *)
LEMMA UnharmedFacts ==
    ASSUME NEW f \in StudentFacts
    PROVE  /\ FactsFrom("none", f) = f
           /\ FactsFrom("right", f).ects = f.ects
BY DEF StudentFacts, FactsFrom, ReadOrder

(* What is read after a failure raises as well.                            *)
LEMMA FailureSpreads ==
    ASSUME NEW f \in StudentFacts, NEW r \in DOMAIN ReadOrder, r # "none"
    PROVE  /\ FactsFrom(r, f).meetings.read = "raises"
           /\ r # "meetings" => FactsFrom(r, f).events.read = "raises"
           /\ r \in {"ects", "right"} => FactsFrom(r, f).right.read = "raises"
           /\ r = "ects" => FactsFrom(r, f).ects.read = "raises"
BY DEF StudentFacts, FactsFrom, ReadOrder

(* An assessment in full is one of all that is stored.                     *)
LEMMA FullIsUnharmed ==
    ASSUME NEW f \in StudentFacts, NEW r \in DOMAIN ReadOrder,
           Full(ParseAssessment(AssessStudentRisk(FactsFrom(r, f), TRUE)))
    PROVE  r = "none" /\ FactsFrom(r, f) = f
<1> DEFINE found == Evaluate(FactsFrom(r, f))
<1>1. CASE r = "none"
    BY <1>1, UnharmedFacts
<1>2. CASE r # "none"
  <2>1. EvaluateStudentMeetings(FactsFrom(r, f).meetings) = NoEvaluation
      BY <1>2, FailureSpreads DEF EvaluateStudentMeetings
  <2>2. found["tutor_meetings"] = Absent
      BY <2>1 DEF Evaluate, EvaluateTutorMeetings, NoEvaluation
  <2> HIDE DEF found
  <2>3. "tutor_meetings" \in Indicators \ {i \in Indicators : found[i] # Absent}
      BY <2>2 DEF Indicators
  <2>4. ~CalculateAcademicRisk(found, TRUE).success
        \/ CalculateAcademicRisk(found, TRUE).status = "PARTIAL"
      BY <2>3 DEF CalculateAcademicRisk, Unprocessable
  <2>5. ~Full(ParseAssessment(CalculateAcademicRisk(found, TRUE)))
      BY <2>4 DEF ParseAssessment, Full
  <2> QED BY <2>5 DEF AssessStudentRisk, found
<1> QED BY <1>1, <1>2


(* The greater and the lesser of two numbers.                              *)
LEMMA MaxOfTwo ==
    ASSUME NEW a \in Int, NEW b \in Int
    PROVE  Max({a, b}) = IF a >= b THEN a ELSE b
BY DEF Max

\* The lesser of two numbers.
LEMMA MinOfTwo ==
    ASSUME NEW a \in Int, NEW b \in Int
    PROVE  Min({a, b}) = IF a <= b THEN a ELSE b
BY DEF Min

(* Every indicator contributes a number of points, none when it is absent; *)
(* and the rule of an expired study right gives it 30.                     *)
LEMMA PointsAreNatural ==
    ASSUME NEW student
    PROVE  /\ \A i \in Indicators : Evaluate(student)[i].points \in Nat
           /\ Evaluate(student)["study_right"].rule = "EXPIRED"
                  => Evaluate(student)["study_right"].points = 30
<1>1. EvaluateDelay(DetectStudentDelay(student.ects)).points \in Nat
    BY DEF EvaluateDelay, Absent, Contribution
<1>2. ASSUME NEW result
      PROVE  LET c == EvaluateStudyRight(result)
             IN  c.points \in Nat /\ (c.rule = "EXPIRED" => c.points = 30)
    BY DEF EvaluateStudyRight, Absent, Contribution, StudyRightPoints
<1>3. EvaluateTutorMeetings(EvaluateStudentMeetings(student.meetings)).points \in Nat
    BY DEF EvaluateTutorMeetings, EvaluateStudentMeetings, NoEvaluation, Evaluation, Absent,
           Contribution
<1>4. EvaluateAcademicEvents(GetUpcomingEvents(student.events)).points \in Nat
    BY DEF EvaluateAcademicEvents, Absent, Contribution
<1> QED BY <1>1, <1>2, <1>3, <1>4 DEF Evaluate, Indicators

(* The subtotal of the available indicators and the most it could be.      *)
LEMMA Subtotals ==
    ASSUME NEW student, NEW available \in SUBSET Indicators, RequiredIndicators \subseteq available
    PROVE  LET points == [i \in available |-> Evaluate(student)[i].points]
               raw == SumOf(points, available)
               maximum == SumOf([i \in available |-> MaximumPoints[i]], available)
           IN  /\ raw \in Nat /\ maximum \in Nat \ {0}
               /\ (\A i \in available : Evaluate(student)[i].points = 0) => raw = 0
<1> DEFINE points == [i \in available |-> Evaluate(student)[i].points]
           maxima == [i \in available |-> MaximumPoints[i]]
<1>1. IsFiniteSet(available)
  <2>1. IsFiniteSet(Indicators)
    <3>1. /\ IsFiniteSet({"academic_delay"}) /\ IsFiniteSet({"study_right"})
          /\ IsFiniteSet({"tutor_meetings"}) /\ IsFiniteSet({"academic_events"})
        BY FS_Singleton
    <3>2. Indicators = (({"academic_delay"} \cup {"study_right"}) \cup {"tutor_meetings"})
                       \cup {"academic_events"}
        BY DEF Indicators
    <3> QED BY <3>1, <3>2, FS_Union
  <2> QED BY <2>1, FS_Subset
<1>2. \A i \in available : points[i] \in Nat /\ maxima[i] \in Nat
    BY PointsAreNatural DEF Indicators, MaximumPoints
<1>3. /\ SumOf(points, available) = Summation(points, available)[available]
      /\ SumOf(maxima, available) = Summation(maxima, available)[available]
    BY SumIsSummation DEF SumOf
<1>4. "academic_delay" \in available /\ maxima["academic_delay"] = 50
    BY DEF RequiredIndicators, MaximumPoints
<1>5. (\A i \in available : Evaluate(student)[i].points = 0)
          => \A i \in available : points[i] = 0
    OBVIOUS
<1> HIDE DEF points, maxima
<1>6. /\ Summation(points, available)[available] \in Nat
      /\ (\A i \in available : points[i] = 0) => Summation(points, available)[available] = 0
    BY <1>1, <1>2, SumOfNaturals
<1>7. /\ Summation(maxima, available)[available] \in Nat
      /\ 50 <= Summation(maxima, available)[available]
  <2>1. Summation(maxima, available)[available] \in Nat
      BY <1>1, <1>2, SumOfNaturals
  <2>2. \A i \in available : maxima[i] <= Summation(maxima, available)[available]
      BY <1>1, <1>2, SumIsAtLeast
  <2> QED BY <1>4, <2>1, <2>2
<1> QED BY <1>3, <1>5, <1>6, <1>7 DEF points, maxima

(* Who asks for attention has something to act on.                         *)
LEMMA AttentionIsActionable ==
    ASSUME NEW student,
           ParseAssessment(AssessStudentRisk(student, TRUE)).parsed,
           ParseAssessment(AssessStudentRisk(student, TRUE)).attention
    PROVE  ParseAssessment(AssessStudentRisk(student, TRUE)).actionable # {}
<1> DEFINE found == Evaluate(student)
           available == {i \in Indicators : found[i] # Absent}
           raw == SumOf([i \in available |-> found[i].points], available)
           maximum == SumOf([i \in available |-> MaximumPoints[i]], available)
           expired == found["study_right"].rule = "EXPIRED"
           adjusted == AdjustedScore(raw, expired)
           risk == AssessStudentRisk(student, TRUE)
<1> SUFFICES ASSUME ParseAssessment(risk).parsed, ParseAssessment(risk).attention,
                    ParseAssessment(risk).actionable = {}
             PROVE  FALSE
    OBVIOUS
<1>1. risk.success /\ risk.level \in TutorAttentionRiskLevels
      /\ \A i \in DOMAIN risk.contributions : ~(risk.contributions[i].points > 0)
  <2> HIDE DEF risk
  <2> QED BY DEF ParseAssessment
<1>2. RequiredIndicators \subseteq available
  <2> HIDE DEF found
  <2>1. CalculateAcademicRisk(found, TRUE).success
      BY <1>1 DEF AssessStudentRisk, found
  <2> QED BY <2>1 DEF CalculateAcademicRisk, Unprocessable
<1>3. risk.contributions = [i \in available |-> found[i]]
  <2> HIDE DEF found
  <2>1. CalculateAcademicRisk(found, TRUE).contributions = [i \in available |-> found[i]]
      BY <1>2 DEF CalculateAcademicRisk
  <2> QED BY <2>1 DEF AssessStudentRisk, found
<1>4. /\ \A i \in Indicators : found[i].points \in Nat
      /\ found["study_right"].rule = "EXPIRED" => found["study_right"].points = 30
    BY PointsAreNatural
<1>5. \A i \in available : found[i].points = 0
  <2>1. available \subseteq Indicators
      OBVIOUS
  <2> HIDE DEF found, available, risk
  <2>2. \A i \in available : ~(found[i].points > 0)
      BY <1>1, <1>3
  <2> QED BY <1>4, <2>1, <2>2
<1>6. ~expired
    BY <1>2, <1>4, <1>5 DEF RequiredIndicators
<1>7. raw = 0 /\ maximum \in Nat \ {0}
  <2> HIDE DEF available
  <2>1. available \in SUBSET Indicators
      BY DEF available
  <2> QED BY <1>2, <1>5, <2>1, Subtotals
<1>8. adjusted = 0
    BY <1>6, <1>7 DEF AdjustedScore
<1>9. PartialScore(raw, adjusted, maximum) = 0
  <2>1. RoundHalfEven(0, maximum) = 0
    <3> HIDE DEF maximum
    <3>1. 0 \div maximum = 0 /\ 0 % maximum = 0
        BY <1>7
    <3> QED BY <1>7, <3>1 DEF RoundHalfEven
  <2>2. Min({100, 0}) = 0 /\ Max({0, 0}) = 0
      BY MaxOfTwo, MinOfTwo
  <2> HIDE DEF adjusted, maximum, raw
  <2> QED BY <1>8, <2>1, <2>2 DEF PartialScore, NormalizeAvailableIndicatorScore
<1>10. risk.level = "LOW"
  <2>1. CalculateAcademicRisk(found, TRUE).level
          = IF Indicators \ available = {} THEN ClassifyRiskScore(adjusted)
            ELSE ClassifyRiskScore(PartialScore(raw, adjusted, maximum))
    <3>1. adjusted # -1 /\ PartialScore(raw, adjusted, maximum) # -1
        BY <1>8, <1>9
    <3> HIDE DEF found
    <3> QED BY <1>2, <3>1 DEF CalculateAcademicRisk
  <2>2. ClassifyRiskScore(0) = "LOW"
      BY DEF ClassifyRiskScore
  <2> HIDE DEF found, adjusted, maximum, raw
  <2> QED BY <1>8, <1>9, <2>1, <2>2 DEF AssessStudentRisk, found
<1> QED BY <1>1, <1>10 DEF TutorAttentionRiskLevels

(* A completed detection assessed everyone in full and kept whom it has to.*)
LEMMA DetectionTells ==
    ASSUME NEW parsed
    PROVE  LET d == DetectionResult(parsed)
           IN  /\ d.status \in FinalStatuses
               /\ d.status = "completed" => \A s \in DOMAIN parsed : Full(parsed[s])
               /\ \A s \in DOMAIN parsed : parsed[s].parsed /\ parsed[s].attention =>
                      s \in DOMAIN d.results /\ d.results[s] = parsed[s]
<1>1. DetectionResult(parsed).status = DetectionStatus(parsed)
    BY DEF DetectionResult
<1>2. DetectionStatus(parsed) \in FinalStatuses
    BY DEF DetectionStatus, FinalStatuses
<1>3. DetectionStatus(parsed) = "completed" => \A s \in DOMAIN parsed : Full(parsed[s])
    BY DEF DetectionStatus, Full
<1>4. \A s \in DOMAIN parsed : parsed[s].parsed /\ parsed[s].attention =>
          /\ s \in DOMAIN DetectionResult(parsed).results
          /\ DetectionResult(parsed).results[s] = parsed[s]
    BY DEF DetectionResult
<1> QED BY <1>1, <1>2, <1>3, <1>4

(* A study right that asks for attention has a code of its own.            *)
LEMMA AttentionHasCode ==
    ASSUME NEW right,
           ParseStudyRight(DetectStudyRightRisk(right)).success,
           ParseStudyRight(DetectStudyRightRisk(right)).requires_attention
    PROVE  StudyRightAlertCode[ParseStudyRight(DetectStudyRightRisk(right)).risk_status]
               \in {"STUDY_RIGHT_EXPIRED", "STUDY_RIGHT_EXPIRING_SOON", "STUDY_RIGHT_EXTENDED"}
<1> DEFINE result == DetectStudyRightRisk(right)
<1>1. ASSUME NEW status, ClassifyStudyRightRisk(status).requires_attention
      PROVE  StudyRightAlertCode[ClassifyStudyRightRisk(status).risk_status]
                 \in {"STUDY_RIGHT_EXPIRED", "STUDY_RIGHT_EXPIRING_SOON", "STUDY_RIGHT_EXTENDED"}
  <2>1. ClassifyStudyRightRisk(status).risk_status \in {"EXPIRED", "EXPIRING_SOON", "EXTENDED"}
      BY <1>1 DEF ClassifyStudyRightRisk
  <2>2. \A x \in {"EXPIRED", "EXPIRING_SOON", "EXTENDED"} : StudyRightAlertCode[x]
            \in {"STUDY_RIGHT_EXPIRED", "STUDY_RIGHT_EXPIRING_SOON", "STUDY_RIGHT_EXTENDED"}
      BY DEF StudyRightAlertCode
  <2> QED BY <2>1, <2>2
<1>2. result.success /\ ParseStudyRight(result) = result
  <2> HIDE DEF result
  <2> QED BY DEF ParseStudyRight, Unsuccessful, result
<1>3. \/ result = ClassifyStudyRightRisk("none")
      \/ result = ClassifyStudyRightRisk(right.status)
  <2>1. \/ result = ClassifyStudyRightRisk("none")
        \/ result = ClassifyStudyRightRisk(right.status)
        \/ result = Unsuccessful
      BY DEF DetectStudyRightRisk
  <2> HIDE DEF result
  <2> QED BY <1>2, <2>1 DEF Unsuccessful
<1> HIDE DEF result
<1> QED BY <1>1, <1>2, <1>3 DEF result

(* The alerts of one student are of known types and about that student.    *)
LEMMA AlertsAreKnown ==
    ASSUME NEW s, NEW delay, NEW right, NEW results,
           right.success /\ right.requires_attention =>
               StudyRightAlertCode[right.risk_status]
                   \in {"STUDY_RIGHT_EXPIRED", "STUDY_RIGHT_EXPIRING_SOON", "STUDY_RIGHT_EXTENDED"}
    PROVE  \A a \in AlertsOf(s, delay, right, results) : a.student = s /\ a.type \in AlertTypes
BY DEF AlertsOf, DelayAlert, StudyRightAlert, OverallRiskAlert, AlertTypes

(* Of somebody whose risk asks for attention, one of the alerts is about   *)
(* an indicator to act on.                                                 *)
LEMMA RiskIsAlerted ==
    ASSUME NEW s, NEW delay, NEW right, NEW results, s \in DOMAIN results,
           results[s].attention, results[s].actionable # {},
           right.success /\ right.requires_attention =>
               StudyRightAlertCode[right.risk_status]
                   \in {"STUDY_RIGHT_EXPIRED", "STUDY_RIGHT_EXPIRING_SOON", "STUDY_RIGHT_EXTENDED"}
    PROVE  \E a \in AlertsOf(s, delay, right, results) :
               a.student = s /\ Concerns(a.type, results[s]) \cap results[s].actionable # {}
<1> DEFINE risk == results[s]
           delayed == DelayAlert(s, delay)
           threatened == StudyRightAlert(s, right)
           covered == (IF delayed # {} THEN {"academic_delay"} ELSE {})
                      \cup (IF threatened # {} THEN {"study_right"} ELSE {})
           alerts == AlertsOf(s, delay, right, results)
<1>1. alerts = delayed \cup threatened \cup OverallRiskAlert(s, risk, covered)
    BY DEF AlertsOf
<1>2. delayed # {} => [student |-> s, type |-> "DELAYED_PROGRESS"] \in delayed
    BY DEF DelayAlert
<1>3. threatened # {} =>
          \E type \in {"STUDY_RIGHT_EXPIRED", "STUDY_RIGHT_EXPIRING_SOON", "STUDY_RIGHT_EXTENDED"} :
              [student |-> s, type |-> type] \in threatened
    BY DEF StudyRightAlert
<1> HIDE DEF delayed, threatened, alerts, risk
<1>4. CASE risk.actionable \cap covered = {}
  <2>1. [student |-> s, type |-> "ACADEMIC_RISK_DETECTED"] \in alerts
      BY <1>1, <1>4 DEF OverallRiskAlert, risk
  <2>2. Concerns("ACADEMIC_RISK_DETECTED", risk) = risk.actionable
      BY DEF Concerns
  <2> QED BY <2>1, <2>2 DEF risk, alerts
<1>5. CASE "academic_delay" \in risk.actionable \cap covered
  <2>1. [student |-> s, type |-> "DELAYED_PROGRESS"] \in alerts
      BY <1>1, <1>2, <1>5
  <2>2. Concerns("DELAYED_PROGRESS", risk) = {"academic_delay"}
      BY DEF Concerns
  <2> QED BY <1>5, <2>1, <2>2 DEF risk, alerts
<1>6. CASE "study_right" \in risk.actionable \cap covered
  <2>1. PICK type \in {"STUDY_RIGHT_EXPIRED", "STUDY_RIGHT_EXPIRING_SOON", "STUDY_RIGHT_EXTENDED"} :
            [student |-> s, type |-> type] \in alerts
      BY <1>1, <1>3, <1>6
  <2>2. Concerns(type, risk) = {"study_right"}
      BY DEF Concerns
  <2> QED BY <1>6, <2>1, <2>2 DEF risk, alerts
<1> QED BY <1>4, <1>5, <1>6

(* What the status of the generated alerts says of their sources.          *)
LEMMA GenerationTells ==
    ASSUME NEW delays, NEW rights, NEW detection
    PROVE  LET g == GenerateAlerts(delays, rights, detection)
           IN  /\ g.status \in FinalStatuses
               /\ g.status = "completed" =>
                      /\ \A s \in DOMAIN delays : delays[s].success /\ rights[s].success
                      /\ RiskSource(detection, DOMAIN delays) = detection
                      /\ detection.status = "completed"
<1> DEFINE ids == DOMAIN delays
           risk == RiskSource(detection, ids)
           loaded == {s \in ids : delays[s].success}
           righted == {s \in ids : rights[s].success}
           statuses == {SourceStatus(loaded, ids), SourceStatus(righted, ids), risk.status}
           g == GenerateAlerts(delays, rights, detection)
<1>1. g.status = AlertStatus(statuses)
    BY DEF GenerateAlerts
<1> HIDE DEF g
<1>2. AlertStatus(statuses) \in FinalStatuses
    BY DEF AlertStatus, FinalStatuses
<1>3. ASSUME AlertStatus(statuses) = "completed"
      PROVE  /\ \A s \in DOMAIN delays : delays[s].success /\ rights[s].success
             /\ risk = detection /\ detection.status = "completed"
  <2>1. statuses = {"completed"}
    <3> HIDE DEF statuses
    <3> QED BY <1>3 DEF AlertStatus
  <2>2. /\ SourceStatus(loaded, ids) = "completed" /\ SourceStatus(righted, ids) = "completed"
        /\ risk.status = "completed"
    <3> HIDE DEF loaded, righted, risk, ids
    <3> QED BY <2>1
  <2>3. loaded = ids /\ righted = ids
    <3> HIDE DEF loaded, righted, ids
    <3> QED BY <2>2 DEF SourceStatus
  <2>4. risk = detection
      BY <2>2 DEF RiskSource, FailedDetection
  <2> QED BY <2>2, <2>3, <2>4
<1> QED BY <1>1, <1>2, <1>3 DEF g

(* What the status of the batch says of its deliveries.                    *)
LEMMA BatchTells ==
    ASSUME NEW deliveries, NEW source
    PROVE  /\ BatchStatus(deliveries, source) \in FinalStatuses
           /\ BatchStatus(deliveries, source) = "completed" =>
                  \A d \in deliveries : d.status \notin {"failed", "skipped"}
BY DEF BatchStatus, FinalStatuses

(* An aggregate is a final status; completed only if everything is.        *)
LEMMA AggregateTells ==
    ASSUME NEW statuses
    PROVE  /\ AggregateStatus(statuses) \in FinalStatuses
           /\ AggregateStatus(statuses) = "completed" => statuses = {"completed"}
BY DEF AggregateStatus, FinalStatuses
-----------------------------------------------------------------------------
(* The daily run.                                                          *)

LEMMA GotoFields ==
    ASSUME DOMAIN daily = DailyFields, NEW at, NEW changes, Goto(at, changes)
    PROVE  /\ DOMAIN daily' = DailyFields /\ daily'.at = at
           /\ \A x \in DailyFields \ {"at"} :
                 daily'[x] = IF x \in DOMAIN changes THEN changes[x] ELSE daily[x]
BY DEF Goto, DailyFields

(* There is a first one among any students.                                *)
LEMMA FirstIsOne ==
    ASSUME NEW ids \in SUBSET StudentIds, ids # {}
    PROVE  First(ids) \in ids
<1>1. IsFiniteSet(ids) /\ ids \in SUBSET Nat
    BY StudentIdsAssumption, FS_Subset
<1>2. \E s \in ids : \A t \in ids : s <= t
    BY <1>1, LeastPosition
<1> QED BY <1>2 DEF First

LEMMA FactsAreTyped ==
    ASSUME DatabaseTypeOK
    PROVE  \A s \in StudentIds : facts[s] \in StudentFacts
BY FactsAssumption DEF DatabaseTypeOK

\* What a daily step that reads or writes a row leaves alone.
Beside == UNCHANGED <<facts, reachable>> /\ sender' = sender

(* What is judged by the stored facts stays as long as they do.            *)
LEMMA JudgementsStay ==
    ASSUME Beside
    PROVE  /\ \A s : /\ RiskOf(s)' = RiskOf(s) /\ DelayOf(s)' = DelayOf(s)
                     /\ RightOf(s)' = RightOf(s) /\ Alarming(s)' = Alarming(s)
                     /\ RecipientsOf(s)' = RecipientsOf(s)
           /\ daily'.generated = daily.generated => \A s : Alerted(s)' = Alerted(s)
           /\ arrived' = arrived => \A a : Reached(a)' = Reached(a)
<1>1. facts' = facts /\ reachable' = reachable
    BY DEF Beside
<1>2. \A s : /\ RiskOf(s)' = RiskOf(s) /\ DelayOf(s)' = DelayOf(s)
             /\ RightOf(s)' = RightOf(s) /\ RecipientsOf(s)' = RecipientsOf(s)
    BY <1>1 DEF RiskOf, DelayOf, RightOf, RecipientsOf
<1>3. \A s : Alarming(s)' = Alarming(s)
    BY <1>2 DEF Alarming
<1>4. daily'.generated = daily.generated => \A s : Alerted(s)' = Alerted(s)
    BY <1>2 DEF Alerted
<1>5. arrived' = arrived => \A a : Reached(a)' = Reached(a)
    BY <1>2 DEF Reached
<1> QED BY <1>2, <1>3, <1>4, <1>5

(* The steps up to the assessments.                                        *)
LEMMA DailyBegins ==
    ASSUME HistoryInv, DailyInv, StartDaily \/ CheckEvents \/ StartRisk \/ ListForRisk
    PROVE  HistoryInv' /\ DailyInv' /\ OnlySessionOf(DailyRun) /\ Beside
<1>0. DOMAIN daily = DailyFields /\ DatabaseTypeOK
    BY DEF HistoryInv, DailyInv, DailyTypes
<1>1. HistoryInv' /\ OnlySessionOf(DailyRun) /\ Beside /\ arrived' = arrived
  <2>1. CASE StartDaily
      BY <2>1, StartKeepsHistory, DailyRunAssumption DEF StartDaily, Beside, Workflows
  <2>2. CASE CheckEvents
      BY <1>0, <2>2, KindsOfReads, ReadsKeepHistory, DailyRunAssumption DEF CheckEvents, Beside
  <2>3. CASE StartRisk
      BY <2>3, StartKeepsHistory, DailyRunAssumption DEF StartRisk, Beside, Workflows
  <2>4. CASE ListForRisk
      BY <1>0, <2>4, KindsOfReads, ReadsKeepHistory, DailyRunAssumption DEF ListForRisk, Beside
  <2> QED BY <2>1, <2>2, <2>3, <2>4
<1>2. /\ DOMAIN daily' = DailyFields /\ daily.at \in {"start", "events", "risk.start", "risk.list"}
      /\ \A x \in DailyFields \ {"at", "events", "todo", "first", "detection"} : daily'[x] = daily[x]
      /\ daily'.events \in CheckStatuses
      /\ \/ /\ daily'.at \in {"events", "risk.start", "risk.list"}
            /\ daily'.todo = daily.todo /\ daily'.first = daily.first
         \/ /\ daily'.at = "risk.assess"
            /\ daily'.todo = active /\ daily'.first = active /\ ~Aborted(DailyRun)'
         \/ /\ daily'.at = "risk.end"
            /\ daily'.todo = daily.todo /\ daily'.first = daily.first
            /\ daily'.detection = FailedDetection
  <2>1. CASE StartDaily
    <3>1. /\ daily.at = "start" /\ daily'.at = "events" /\ DOMAIN daily' = DailyFields
          /\ \A x \in DailyFields \ {"at"} : daily'[x] = daily[x]
        BY <1>0, <2>1, GotoFields DEF StartDaily, At, Stay
    <3> QED BY <3>1 DEF DailyFields, DailyInv, DailyTypes, DailyTypeOK
  <2>2. CASE CheckEvents
    <3>1. /\ daily.at = "events" /\ daily'.at = "risk.start" /\ DOMAIN daily' = DailyFields
          /\ \A x \in DailyFields \ {"at", "events"} : daily'[x] = daily[x]
          /\ daily'.events \in {"completed", "failed"}
        BY <1>0, <2>2, GotoFields DEF CheckEvents, At, DailyFields
    <3> QED BY <3>1 DEF DailyFields, CheckStatuses, FinalStatuses
  <2>3. CASE StartRisk
    <3>1. /\ daily.at = "risk.start" /\ daily'.at = "risk.list" /\ DOMAIN daily' = DailyFields
          /\ \A x \in DailyFields \ {"at"} : daily'[x] = daily[x]
        BY <1>0, <2>3, GotoFields DEF StartRisk, At, Stay
    <3> QED BY <3>1 DEF DailyFields, DailyInv, DailyTypes, DailyTypeOK
  <2>4. CASE ListForRisk
    <3>1. CASE StatementSucceeds(DailyRun)
               /\ Goto("risk.assess", [todo |-> active, first |-> active])
      <4>1. ~Aborted(DailyRun)'
          BY <1>0, <2>4, <3>1, KindsOfReads, DailyRunAssumption DEF ListForRisk
      <4>2. /\ daily.at = "risk.list" /\ daily'.at = "risk.assess" /\ DOMAIN daily' = DailyFields
            /\ \A x \in DailyFields \ {"at", "todo", "first"} : daily'[x] = daily[x]
            /\ daily'.todo = active /\ daily'.first = active
          BY <1>0, <2>4, <3>1, GotoFields DEF ListForRisk, At, DailyFields
      <4> QED BY <4>1, <4>2 DEF DailyFields, DailyInv, DailyTypes, DailyTypeOK
    <3>2. CASE Goto("risk.end", [detection |-> FailedDetection])
      <4>2. /\ daily.at = "risk.list" /\ daily'.at = "risk.end" /\ DOMAIN daily' = DailyFields
            /\ \A x \in DailyFields \ {"at", "detection"} : daily'[x] = daily[x]
            /\ daily'.detection = FailedDetection
          BY <1>0, <2>4, <3>2, GotoFields DEF ListForRisk, At, DailyFields
      <4> QED BY <4>2 DEF DailyFields, DailyInv, DailyTypes, DailyTypeOK
    <3> QED BY <2>4, <3>1, <3>2 DEF ListForRisk
  <2> QED BY <2>1, <2>2, <2>3, <2>4
<1>3. DailyTypes'
  <2>1. active \subseteq StudentIds
      BY <1>0 DEF DatabaseTypeOK
  <2>2. DailyTypeOK'
    <3>1. /\ daily'.at \in DailyStages
          /\ daily'.todo \cup daily'.first \cup daily'.again \subseteq StudentIds
        BY <1>2, <2>1 DEF DailyInv, DailyTypes, DailyTypeOK, DailyStages, DailyFields
    <3>2. {daily'.events, daily'.risks, daily'.alerts, daily'.notified, daily'.status}
              \subseteq CheckStatuses
        BY <1>2 DEF DailyInv, DailyTypes, DailyTypeOK, DailyFields
    <3>3. sender' \in BOOLEAN /\ \A m \in arrived' : m.tutor \in RecipientsOf(m.student)'
                                                     /\ m.chunk \in 1..ChunksOf(m.type)
        BY <1>1, JudgementsStay DEF DailyInv, DailyTypes, DailyTypeOK, Beside, RecipientsOf
    <3> QED BY <3>1, <3>2, <3>3 DEF DailyTypeOK, RecipientsOf
  <2>3. daily'.at \notin FromAlerts
      BY <1>2 DEF FromAlerts, FromDelivery
  <2>4. daily'.at # "delivery.next" /\ DOMAIN daily' = DailyFields
      BY <1>2
  <2> QED BY <2>2, <2>3, <2>4 DEF DailyTypes
<1>4. FailureIsTold'
    BY <1>2 DEF FailureIsTold, At, Speaks, FailedDetection, FinalStatuses, Aborted
<1>5. daily.parsed = NoResults /\ daily.delays = NoResults /\ daily.rights = NoResults
    BY <1>2 DEF DailyInv, RiskIsSeen, AlertsAreSeen, UpToListing
<1>6. daily'.parsed = NoResults /\ daily'.delays = NoResults /\ daily'.rights = NoResults
    BY <1>2, <1>5 DEF DailyFields
<1>7. RiskIsSeen'
    BY <1>2, <1>6 DEF RiskIsSeen, UpToListing, FromRisk, FromAlerts, FromDelivery, At, NoResults,
                      FailedDetection
<1>8. AlertsAreSeen'
    BY <1>2, <1>6 DEF AlertsAreSeen, UpToListing, FromAlerts, FromDelivery, At
<1>9. DeliveryIsSeen'
  <2>3. daily'.at \notin FromAlerts /\ daily'.at \notin FromDelivery /\ daily'.at # "delivery.next"
      BY <1>2 DEF FromAlerts, FromDelivery
  <2> QED BY <2>3 DEF DeliveryIsSeen, At
<1> QED BY <1>1, <1>3, <1>4, <1>7, <1>8, <1>9 DEF DailyInv

(* One assessment more.                                                    *)
LEMMA DailyAssesses ==
    ASSUME HistoryInv, DailyInv, AssessNext
    PROVE  HistoryInv' /\ DailyInv' /\ OnlySessionOf(DailyRun) /\ Beside
<1> DEFINE s == First(daily.todo)
           Result(r) == ParseAssessment(AssessStudentRisk(FactsFrom(r, facts[s]), TRUE))
<1>0. /\ DOMAIN daily = DailyFields /\ DatabaseTypeOK
      /\ daily.at = "risk.assess" /\ daily.todo # {} /\ daily.todo \subseteq StudentIds
    BY DEF HistoryInv, DailyInv, DailyTypes, DailyTypeOK, AssessNext, At
<1>1. s \in daily.todo /\ s \in StudentIds /\ facts[s] \in StudentFacts
    BY <1>0, FirstIsOne, FactsAreTyped
<1>2. PICK r \in DOMAIN ReadOrder :
          /\ ReadsOnly /\ ReadsFail(DailyRun, r)
          /\ Goto("risk.assess", [todo |-> daily.todo \ {s},
                                  parsed |-> WithResult(daily.parsed, s, Result(r))])
    BY DEF AssessNext
<1> HIDE DEF s, Result
<1>3. /\ HistoryInv' /\ OnlySessionOf(DailyRun)
      /\ Beside /\ arrived' = arrived
      /\ Aborted(DailyRun) => r = "ects"
      /\ Aborted(DailyRun)' => Aborted(DailyRun) \/ r \in {"ects", "right", "events"}
  <2>1. /\ Reads(DailyRun)
        /\ Aborted(DailyRun) => r = "ects"
        /\ Aborted(DailyRun)' => Aborted(DailyRun) \/ r \in {"ects", "right", "events"}
      BY <1>0, <1>2, KindsOfReads, DailyRunAssumption
  <2>2. sender' = sender /\ arrived' = arrived
      BY DEF AssessNext
  <2> QED BY <2>1, <2>2, ReadsKeepHistory, DailyRunAssumption DEF Beside
<1>4. /\ DOMAIN daily' = DailyFields /\ daily'.at = "risk.assess"
      /\ daily'.todo = daily.todo \ {s}
      /\ daily'.parsed = WithResult(daily.parsed, s, Result(r))
      /\ \A x \in DailyFields \ {"at", "todo", "parsed"} : daily'[x] = daily[x]
    BY <1>0, <1>2, GotoFields DEF DailyFields
<1>5. Full(Result(r)) => r = "none" /\ Result(r) = RiskOf(s)
    BY <1>1, FullIsUnharmed DEF Result, RiskOf
<1>6. /\ daily.todo \subseteq daily.first
      /\ DOMAIN daily.parsed = daily.first \ daily.todo
      /\ \A t \in DOMAIN daily.parsed : Full(daily.parsed[t]) => daily.parsed[t] = RiskOf(t)
    BY <1>0 DEF DailyInv, RiskIsSeen, At
<1>7. /\ DOMAIN daily'.parsed = daily'.first \ daily'.todo
      /\ daily'.parsed[s] = Result(r) /\ s \in DOMAIN daily'.parsed
      /\ \A t \in DOMAIN daily.parsed : t \in DOMAIN daily'.parsed
                                        /\ daily'.parsed[t] = daily.parsed[t]
      /\ \A t \in DOMAIN daily'.parsed : t = s \/ t \in DOMAIN daily.parsed
  <2>1. daily'.first = daily.first
      BY <1>4 DEF DailyFields
  <2>2. /\ DOMAIN daily'.parsed = DOMAIN daily.parsed \cup {s}
        /\ daily'.parsed[s] = Result(r)
        /\ \A t \in DOMAIN daily.parsed \ {s} : daily'.parsed[t] = daily.parsed[t]
    <3> DEFINE grown == WithResult(daily.parsed, s, Result(r))
    <3>1. /\ DOMAIN grown = DOMAIN daily.parsed \cup {s} /\ grown[s] = Result(r)
          /\ \A t \in DOMAIN daily.parsed \ {s} : grown[t] = daily.parsed[t]
        BY DEF WithResult
    <3>2. daily'.parsed = grown
        BY <1>4
    <3> HIDE DEF grown
    <3> QED BY <3>1, <3>2
  <2> QED BY <1>1, <1>4, <1>6, <2>1, <2>2
<1>8. DailyTypes'
  <2>1. DailyTypeOK'
    <3>1. /\ daily'.at \in DailyStages
          /\ daily'.todo \cup daily'.first \cup daily'.again \subseteq StudentIds
        BY <1>4 DEF DailyInv, DailyTypes, DailyTypeOK, DailyStages, DailyFields
    <3>2. {daily'.events, daily'.risks, daily'.alerts, daily'.notified, daily'.status}
              \subseteq CheckStatuses
        BY <1>4 DEF DailyInv, DailyTypes, DailyTypeOK, DailyFields
    <3>3. /\ sender' \in BOOLEAN
          /\ \A m \in arrived' : /\ m.tutor \in RecipientsOf(m.student)'
                                 /\ m.chunk \in 1..ChunksOf(m.type)
        BY <1>3, JudgementsStay DEF DailyInv, DailyTypes, DailyTypeOK, Beside, RecipientsOf
    <3> QED BY <3>1, <3>2, <3>3 DEF DailyTypeOK, RecipientsOf
  <2>2. daily'.at \notin FromAlerts
      BY <1>4 DEF FromAlerts, FromDelivery
  <2>3. daily'.at # "delivery.next" /\ DOMAIN daily' = DailyFields
      BY <1>4
  <2> QED BY <2>1, <2>2, <2>3 DEF DailyTypes
<1>9. FailureIsTold'
  <2>1. Aborted(DailyRun)' => ~Full(Result(r))
      BY <1>3, <1>5
  <2>2. Aborted(DailyRun)' => \E t \in DOMAIN daily'.parsed : ~Full(daily'.parsed[t])
      BY <1>7, <2>1
  <2>3. Aborted(DailyRun)' /\ At("risk.assess")' =>
            \E t \in DOMAIN daily'.parsed : ~Full(daily.parsed[t])'
      BY <2>2 DEF Full
  <2> QED BY <1>4, <2>3 DEF FailureIsTold, At
<1>10. RiskIsSeen'
  <2>1. \A t \in DOMAIN daily'.parsed : Full(daily'.parsed[t]) => daily'.parsed[t] = RiskOf(t)
      BY <1>5, <1>6, <1>7
  <2>2. \A t \in DOMAIN daily'.parsed : Full(daily.parsed[t])' => daily'.parsed[t] = RiskOf(t)'
      BY <1>3, <2>1, JudgementsStay DEF Full
  <2>3. daily'.todo \subseteq daily'.first
      BY <1>4, <1>6 DEF DailyFields
  <2>4. daily'.at \notin UpToListing /\ daily'.at \notin FromRisk
      BY <1>4 DEF UpToListing, FromRisk, FromAlerts, FromDelivery
  <2> QED BY <1>7, <2>2, <2>3, <2>4 DEF RiskIsSeen, At
<1>11. AlertsAreSeen'
  <2>1. daily'.delays = NoResults /\ daily'.rights = NoResults
      BY <1>0, <1>4 DEF DailyInv, AlertsAreSeen, DailyFields
  <2> QED BY <1>4, <2>1 DEF AlertsAreSeen, FromAlerts, FromDelivery, At, NoResults
<1>12. DeliveryIsSeen'
  <2>1. daily'.at \notin FromAlerts /\ daily'.at \notin FromDelivery /\ daily'.at # "delivery.next"
      BY <1>4 DEF FromAlerts, FromDelivery
  <2> QED BY <2>1 DEF DeliveryIsSeen, At
<1> QED BY <1>3, <1>8, <1>9, <1>10, <1>11, <1>12 DEF DailyInv

(* The fields of a run keep their types.                                   *)
LEMMA DailyTypesStay ==
    ASSUME DailyInv, Beside, arrived' = arrived,
           daily'.at \in DailyStages,
           daily'.todo \cup daily'.first \cup daily'.again \subseteq StudentIds,
           {daily'.events, daily'.risks, daily'.alerts, daily'.notified, daily'.status}
               \subseteq CheckStatuses
    PROVE  DailyTypeOK'
<1>1. /\ sender' \in BOOLEAN
      /\ \A m \in arrived' : /\ m.tutor \in RecipientsOf(m.student)'
                             /\ m.chunk \in 1..ChunksOf(m.type)
    BY JudgementsStay DEF DailyInv, DailyTypes, DailyTypeOK, Beside, RecipientsOf
<1> QED BY <1>1 DEF DailyTypeOK, RecipientsOf

(* What the detection has seen stands to the end of the run.               *)
LEMMA RiskStaysSeen ==
    ASSUME RiskIsSeen, Beside, daily.at \in FromRisk, daily'.at \in FromRisk,
           daily'.detection = daily.detection, daily'.first = daily.first
    PROVE  RiskIsSeen'
<1>1. daily'.at \notin UpToListing /\ ~At("risk.assess")'
    BY DEF FromRisk, FromAlerts, FromDelivery, UpToListing, At
<1>2. daily.detection.status = "completed" =>
          \A s \in daily.first : Alarming(s) =>
              s \in DOMAIN daily.detection.results /\ daily.detection.results[s] = RiskOf(s)
    BY DEF RiskIsSeen
<1>3. daily'.detection.status = "completed" =>
          \A s \in daily'.first : Alarming(s)' =>
              s \in DOMAIN daily'.detection.results /\ daily'.detection.results[s] = RiskOf(s)'
    BY <1>2, JudgementsStay
<1> QED BY <1>1, <1>3 DEF RiskIsSeen

(* So do the alerts.                                                       *)
LEMMA AlertsStaySeen ==
    ASSUME AlertsAreSeen, Beside, daily.at \in FromAlerts, daily'.at \in FromAlerts,
           daily'.detection = daily.detection, daily'.generated = daily.generated,
           daily'.first = daily.first, daily'.again = daily.again
    PROVE  AlertsAreSeen'
<1>1. /\ daily'.at \notin UpToListing \cup {"risk.assess", "risk.end", "alerts.start", "alerts.list"}
      /\ ~At("alerts.load")'
    BY DEF FromAlerts, FromDelivery, UpToListing, At
<1>2. daily.generated.status = "completed" =>
          /\ daily.detection.status = "completed"
          /\ \A s \in daily.first \cap daily.again : Alarming(s) => Alerted(s)
    BY DEF AlertsAreSeen
<1>3. daily'.generated.status = "completed" =>
          /\ daily'.detection.status = "completed"
          /\ \A s \in daily'.first \cap daily'.again : Alarming(s)' => Alerted(s)'
    BY <1>2, JudgementsStay
<1> QED BY <1>1, <1>3 DEF AlertsAreSeen

(* Before the alerts are there, nothing is said of their delivery.         *)
LEMMA NothingDelivered ==
    ASSUME daily'.at \notin FromAlerts
    PROVE  DeliveryIsSeen'
BY DEF DeliveryIsSeen, FromAlerts, FromDelivery, At

(* Up to the reading of the sources no source is there.                    *)
LEMMA NoSourceYet ==
    ASSUME DOMAIN daily = DailyFields, DOMAIN daily' = DailyFields, AlertsAreSeen,
           daily.at \in UpToListing \cup {"risk.assess", "risk.end", "alerts.start", "alerts.list"},
           daily'.at \in UpToListing \cup {"risk.assess", "risk.end", "alerts.start", "alerts.list"},
           \A x \in {"delays", "rights"} : daily'[x] = daily[x]
    PROVE  AlertsAreSeen'
<1>1. daily'.at \notin FromAlerts /\ ~At("alerts.load")'
    BY DEF FromAlerts, FromDelivery, UpToListing, At
<1>2. daily.delays = NoResults /\ daily.rights = NoResults
    BY DEF AlertsAreSeen
<1>3. daily'.delays = NoResults /\ daily'.rights = NoResults
    BY <1>2
<1> QED BY <1>1, <1>3 DEF AlertsAreSeen, NoResults

(* The result of the detection.                                            *)
LEMMA DailyConcludesRisk ==
    ASSUME HistoryInv, DailyInv, ConcludeRisk
    PROVE  HistoryInv' /\ DailyInv' /\ OnlySessionOf(DailyRun) /\ Beside
<1>0. /\ DOMAIN daily = DailyFields
      /\ daily.at = "risk.assess" /\ daily.todo = {}
    BY DEF DailyInv, DailyTypes, ConcludeRisk, At
<1>1. /\ UNCHANGED databaseVars /\ sender' = sender /\ arrived' = arrived
      /\ Beside /\ HistoryInv' /\ OnlySessionOf(DailyRun) /\ Aborted(DailyRun)' = Aborted(DailyRun)
    BY DEF ConcludeRisk, databaseVars, Beside, HistoryInv, HistoryTellsResults, DatabaseTypeOK,
           OnlySessionOf, Aborted
<1>2. /\ DOMAIN daily' = DailyFields /\ daily'.at = "risk.end"
      /\ daily'.detection = DetectionResult(daily.parsed) /\ daily'.parsed = NoResults
      /\ \A x \in DailyFields \ {"at", "detection", "parsed"} : daily'[x] = daily[x]
    BY <1>0, GotoFields DEF ConcludeRisk, DailyFields
<1>3. /\ DOMAIN daily.parsed = daily.first
      /\ \A t \in DOMAIN daily.parsed : Full(daily.parsed[t]) => daily.parsed[t] = RiskOf(t)
    BY <1>0 DEF DailyInv, RiskIsSeen, At
<1>4. /\ daily'.detection.status \in FinalStatuses
      /\ daily'.detection.status = "completed" => \A s \in DOMAIN daily.parsed : Full(daily.parsed[s])
      /\ \A s \in DOMAIN daily.parsed : daily.parsed[s].parsed /\ daily.parsed[s].attention =>
             s \in DOMAIN daily'.detection.results /\ daily'.detection.results[s] = daily.parsed[s]
    BY <1>2, DetectionTells
<1>5. DailyTypes'
  <2>1. DailyTypeOK'
    <3>1. /\ daily'.at \in DailyStages
          /\ daily'.todo \cup daily'.first \cup daily'.again \subseteq StudentIds
          /\ {daily'.events, daily'.risks, daily'.alerts, daily'.notified, daily'.status}
                 \subseteq CheckStatuses
        BY <1>2 DEF DailyInv, DailyTypes, DailyTypeOK, DailyStages, DailyFields
    <3> QED BY <1>1, <3>1, DailyTypesStay
  <2>2. daily'.at \notin FromAlerts
      BY <1>2 DEF FromAlerts, FromDelivery
  <2>3. daily'.at # "delivery.next" /\ DOMAIN daily' = DailyFields
      BY <1>2
  <2> QED BY <2>1, <2>2, <2>3 DEF DailyTypes
<1>6. FailureIsTold'
  <2>1. Aborted(DailyRun) => daily'.detection.status # "completed"
    <3>1. Aborted(DailyRun) => \E s \in DOMAIN daily.parsed : ~Full(daily.parsed[s])
        BY <1>0 DEF DailyInv, FailureIsTold, At
    <3> QED BY <1>4, <3>1
  <2>2. Speaks(daily.detection.status, DailyRun)'
      BY <1>1, <1>4, <2>1 DEF Speaks
  <2> QED BY <1>2, <2>2 DEF FailureIsTold, At
<1>7. RiskIsSeen'
  <2>1. ASSUME daily'.detection.status = "completed", NEW s \in daily.first, Alarming(s)
        PROVE  s \in DOMAIN daily'.detection.results /\ daily'.detection.results[s] = RiskOf(s)
    <3>1. s \in DOMAIN daily.parsed /\ daily.parsed[s] = RiskOf(s)
        BY <1>3, <1>4, <2>1
    <3> QED BY <1>4, <2>1, <3>1 DEF Alarming
  <2>2. daily'.detection.status = "completed" =>
            \A s \in daily'.first : Alarming(s)' =>
                s \in DOMAIN daily'.detection.results /\ daily'.detection.results[s] = RiskOf(s)'
    <3>1. daily'.first = daily.first
        BY <1>2 DEF DailyFields
    <3> QED BY <1>1, <2>1, <3>1, JudgementsStay
  <2>3. daily'.at \notin UpToListing /\ ~At("risk.assess")'
      BY <1>2 DEF UpToListing, At
  <2> QED BY <2>2, <2>3 DEF RiskIsSeen
<1>8. AlertsAreSeen' /\ DeliveryIsSeen'
  <2>1. /\ daily'.at \in UpToListing \cup {"risk.assess", "risk.end", "alerts.start", "alerts.list"}
        /\ daily'.at \notin FromAlerts
      BY <1>2 DEF FromAlerts, FromDelivery
  <2> QED BY <1>0, <1>2, <2>1, NoSourceYet, NothingDelivered DEF DailyInv, DailyFields
<1> QED BY <1>1, <1>5, <1>6, <1>7, <1>8 DEF DailyInv

(* From the end of the detection to the second reading.                    *)
LEMMA DailyTurnsToAlerts ==
    ASSUME HistoryInv, DailyInv, FinishRisk \/ StartAlerts \/ ListForAlerts
    PROVE  HistoryInv' /\ DailyInv' /\ OnlySessionOf(DailyRun) /\ Beside
<1>0. DOMAIN daily = DailyFields /\ DatabaseTypeOK /\ active \subseteq StudentIds
    BY DEF HistoryInv, DatabaseTypeOK, DailyInv, DailyTypes
<1>1. HistoryInv' /\ OnlySessionOf(DailyRun) /\ Beside /\ arrived' = arrived
  <2>1. CASE FinishRisk
    <3>1. Speaks(daily.detection.status, DailyRun)
        BY <2>1 DEF FinishRisk, DailyInv, FailureIsTold
    <3>2. /\ FinishExecution(DailyRun, "risk", daily.detection.status)
          /\ sender' = sender /\ arrived' = arrived
        BY <2>1 DEF FinishRisk
    <3> QED BY <3>1, <3>2, FinishKeepsHistory, DailyRunAssumption DEF Beside, Workflows
  <2>2. CASE StartAlerts
      BY <2>2, StartKeepsHistory, DailyRunAssumption DEF StartAlerts, Beside, Workflows
  <2>3. CASE ListForAlerts
      BY <1>0, <2>3, KindsOfReads, ReadsKeepHistory, DailyRunAssumption DEF ListForAlerts, Beside
  <2> QED BY <2>1, <2>2, <2>3
<1>2. /\ DOMAIN daily' = DailyFields /\ daily.at \in {"risk.end", "alerts.start", "alerts.list"}
      /\ \A x \in DailyFields \ {"at", "todo", "again", "risks", "generated"} : daily'[x] = daily[x]
      /\ daily'.risks \in CheckStatuses
      /\ \/ /\ daily'.at \in {"alerts.start", "alerts.list"}
            /\ daily'.todo = daily.todo /\ daily'.again = daily.again
         \/ /\ daily'.at = "alerts.load"
            /\ daily'.todo = active /\ daily'.again = active /\ ~Aborted(DailyRun)'
         \/ /\ daily'.at = "alerts.end"
            /\ daily'.todo = daily.todo /\ daily'.again = daily.again
            /\ daily'.generated = FailedAlerts
  <2>1. CASE FinishRisk
    <3>1. /\ daily.at = "risk.end" /\ daily'.at = "alerts.start" /\ DOMAIN daily' = DailyFields
          /\ \A x \in DailyFields \ {"at", "risks"} : daily'[x] = daily[x]
          /\ daily'.risks = daily.detection.status
        BY <1>0, <2>1, GotoFields DEF FinishRisk, At, DailyFields
    <3>2. daily.detection.status \in FinalStatuses
        BY <3>1 DEF DailyInv, FailureIsTold, At, Speaks
    <3> QED BY <3>1, <3>2 DEF DailyFields, CheckStatuses
  <2>2. CASE StartAlerts
    <3>1. /\ daily.at = "alerts.start" /\ daily'.at = "alerts.list" /\ DOMAIN daily' = DailyFields
          /\ \A x \in DailyFields \ {"at"} : daily'[x] = daily[x]
        BY <1>0, <2>2, GotoFields DEF StartAlerts, At, Stay
    <3> QED BY <3>1 DEF DailyFields, DailyInv, DailyTypes, DailyTypeOK
  <2>3. CASE ListForAlerts
    <3>1. CASE StatementSucceeds(DailyRun)
               /\ Goto("alerts.load", [todo |-> active, again |-> active])
      <4>1. ~Aborted(DailyRun)'
          BY <1>0, <2>3, <3>1, KindsOfReads, DailyRunAssumption DEF ListForAlerts
      <4>2. /\ daily.at = "alerts.list" /\ daily'.at = "alerts.load" /\ DOMAIN daily' = DailyFields
            /\ \A x \in DailyFields \ {"at", "todo", "again"} : daily'[x] = daily[x]
            /\ daily'.todo = active /\ daily'.again = active
          BY <1>0, <2>3, <3>1, GotoFields DEF ListForAlerts, At, DailyFields
      <4> QED BY <4>1, <4>2 DEF DailyFields, DailyInv, DailyTypes, DailyTypeOK
    <3>2. CASE Goto("alerts.end", [generated |-> FailedAlerts])
      <4>2. /\ daily.at = "alerts.list" /\ daily'.at = "alerts.end" /\ DOMAIN daily' = DailyFields
            /\ \A x \in DailyFields \ {"at", "generated"} : daily'[x] = daily[x]
            /\ daily'.generated = FailedAlerts
          BY <1>0, <2>3, <3>2, GotoFields DEF ListForAlerts, At, DailyFields
      <4> QED BY <4>2 DEF DailyFields, DailyInv, DailyTypes, DailyTypeOK
    <3> QED BY <2>3, <3>1, <3>2 DEF ListForAlerts
  <2> QED BY <2>1, <2>2, <2>3
<1>3. DailyTypes'
  <2>1. DailyTypeOK'
    <3>1. /\ daily'.at \in DailyStages
          /\ daily'.todo \cup daily'.first \cup daily'.again \subseteq StudentIds
        BY <1>0, <1>2 DEF DailyInv, DailyTypes, DailyTypeOK, DailyStages, DailyFields
    <3>2. {daily'.events, daily'.risks, daily'.alerts, daily'.notified, daily'.status}
              \subseteq CheckStatuses
        BY <1>2 DEF DailyInv, DailyTypes, DailyTypeOK, DailyFields
    <3> QED BY <1>1, <3>1, <3>2, DailyTypesStay
  <2>2. daily'.at \in FromAlerts => daily'.generated.alerts = {}
      BY <1>2 DEF FromAlerts, FromDelivery, FailedAlerts
  <2>3. daily'.at # "delivery.next" /\ DOMAIN daily' = DailyFields
      BY <1>2
  <2> QED BY <2>1, <2>2, <2>3 DEF DailyTypes
<1>4. FailureIsTold'
    BY <1>2 DEF FailureIsTold, At, Speaks, FailedAlerts, FinalStatuses, Aborted
<1>5. RiskIsSeen'
  <2>1. daily.at \in FromRisk /\ daily'.at \in FromRisk
      BY <1>2 DEF FromRisk, FromAlerts, FromDelivery
  <2>2. daily'.detection = daily.detection /\ daily'.first = daily.first
      BY <1>2 DEF DailyFields
  <2> QED BY <1>1, <2>1, <2>2, RiskStaysSeen DEF DailyInv
<1>6. AlertsAreSeen'
  <2>0. daily.delays = NoResults /\ daily.rights = NoResults
      BY <1>2 DEF DailyInv, AlertsAreSeen, UpToListing
  <2>1. daily'.delays = NoResults /\ daily'.rights = NoResults
      BY <1>2, <2>0 DEF DailyFields
  <2>2. At("alerts.load")' => daily'.todo \subseteq daily'.again /\ daily'.again \ daily'.todo = {}
      BY <1>2 DEF At
  <2>3. daily'.at \in FromAlerts => daily'.generated.status # "completed"
      BY <1>2 DEF FromAlerts, FromDelivery, FailedAlerts
  <2> QED BY <2>1, <2>2, <2>3 DEF AlertsAreSeen, NoResults
<1>7. DeliveryIsSeen'
  <2>1. daily'.at \notin FromDelivery /\ daily'.at \notin FromAlerts \ {"alerts.end"}
        /\ ~At("delivery.next")'
      BY <1>2 DEF FromAlerts, FromDelivery, At
  <2> QED BY <2>1 DEF DeliveryIsSeen
<1> QED BY <1>1, <1>3, <1>4, <1>5, <1>6, <1>7 DEF DailyInv

(* The sources of one student as they are read when r is the first read to *)
(* fail: what is successful is what the database holds.                    *)
LEMMA SourcesAreTrue ==
    ASSUME NEW f \in StudentFacts, NEW r \in {"ects", "right", "none"}
    PROVE  LET delay == ParseDelay(DetectStudentDelay(FactsFrom(r, f).ects))
               right == ParseStudyRight(DetectStudyRightRisk(FactsFrom(r, f).right))
           IN  /\ delay.success => delay = ParseDelay(DetectStudentDelay(f.ects))
               /\ right.success => r = "none" /\ right = ParseStudyRight(DetectStudyRightRisk(f.right))
<1>1. r \in DOMAIN ReadOrder
    BY DEF ReadOrder
<1>2. ASSUME NEW ects, ects.read = "raises" PROVE ~ParseDelay(DetectStudentDelay(ects)).success
    BY <1>2 DEF ParseDelay, DetectStudentDelay, GetProgress, Unsuccessful
<1>3. ASSUME NEW right, right.read = "raises"
      PROVE  ~ParseStudyRight(DetectStudyRightRisk(right)).success
    BY <1>3 DEF ParseStudyRight, DetectStudyRightRisk, Unsuccessful
<1>4. CASE r = "none"
    BY <1>4, UnharmedFacts
<1>5. CASE r = "right"
  <2>1. FactsFrom(r, f).ects = f.ects /\ FactsFrom(r, f).right.read = "raises"
      BY <1>1, <1>5, UnharmedFacts, FailureSpreads
  <2> QED BY <1>3, <2>1
<1>6. CASE r = "ects"
  <2>1. FactsFrom(r, f).ects.read = "raises" /\ FactsFrom(r, f).right.read = "raises"
      BY <1>1, <1>6, FailureSpreads
  <2> QED BY <1>2, <1>3, <2>1
<1> QED BY <1>4, <1>5, <1>6

(* One pair of sources more.                                               *)
LEMMA DailyLoads ==
    ASSUME HistoryInv, DailyInv, LoadNext
    PROVE  HistoryInv' /\ DailyInv' /\ OnlySessionOf(DailyRun) /\ Beside
<1> DEFINE s == First(daily.todo)
           Delay(r) == ParseDelay(DetectStudentDelay(FactsFrom(r, facts[s]).ects))
           Right(r) == ParseStudyRight(DetectStudyRightRisk(FactsFrom(r, facts[s]).right))
<1>0. /\ DOMAIN daily = DailyFields /\ DatabaseTypeOK
      /\ daily.at = "alerts.load" /\ daily.todo # {} /\ daily.todo \subseteq StudentIds
    BY DEF HistoryInv, DailyInv, DailyTypes, DailyTypeOK, LoadNext, At
<1>1. s \in daily.todo /\ s \in StudentIds /\ facts[s] \in StudentFacts
    BY <1>0, FirstIsOne, FactsAreTyped
<1>2. PICK r \in {"ects", "right", "none"} :
          /\ ReadsOnly /\ ReadsFail(DailyRun, r)
          /\ Goto("alerts.load", [todo |-> daily.todo \ {s},
                                  delays |-> WithResult(daily.delays, s, Delay(r)),
                                  rights |-> WithResult(daily.rights, s, Right(r))])
    BY DEF LoadNext
<1>3. /\ Delay(r).success => Delay(r) = DelayOf(s)
      /\ Right(r).success => r = "none" /\ Right(r) = RightOf(s)
    BY <1>1, <1>2, SourcesAreTrue DEF DelayOf, RightOf
<1> HIDE DEF s, Delay, Right
<1>4. /\ HistoryInv' /\ OnlySessionOf(DailyRun)
      /\ Beside /\ arrived' = arrived
      /\ Aborted(DailyRun)' => r # "none"
  <2>1. r \in DOMAIN ReadOrder
      BY DEF ReadOrder
  <2>2. /\ Reads(DailyRun)
        /\ Aborted(DailyRun) => r = "ects"
        /\ Aborted(DailyRun)' => Aborted(DailyRun) \/ r \in {"ects", "right", "events"}
      BY <1>0, <1>2, <2>1, KindsOfReads, DailyRunAssumption
  <2>3. sender' = sender /\ arrived' = arrived
      BY DEF LoadNext
  <2> QED BY <2>2, <2>3, ReadsKeepHistory, DailyRunAssumption DEF Beside
<1>5. /\ DOMAIN daily' = DailyFields /\ daily'.at = "alerts.load"
      /\ daily'.todo = daily.todo \ {s}
      /\ daily'.delays = WithResult(daily.delays, s, Delay(r))
      /\ daily'.rights = WithResult(daily.rights, s, Right(r))
      /\ \A x \in DailyFields \ {"at", "todo", "delays", "rights"} : daily'[x] = daily[x]
    BY <1>0, <1>2, GotoFields DEF DailyFields
<1>6. /\ daily.todo \subseteq daily.again
      /\ DOMAIN daily.delays = daily.again \ daily.todo
      /\ DOMAIN daily.rights = daily.again \ daily.todo
      /\ \A t \in DOMAIN daily.delays :
            /\ daily.delays[t].success => daily.delays[t] = DelayOf(t)
            /\ daily.rights[t].success => daily.rights[t] = RightOf(t)
    BY <1>0 DEF DailyInv, AlertsAreSeen, At
<1>7. /\ daily'.again = daily.again
      /\ DOMAIN daily'.delays = daily'.again \ daily'.todo
      /\ DOMAIN daily'.rights = daily'.again \ daily'.todo
      /\ daily'.delays[s] = Delay(r) /\ daily'.rights[s] = Right(r) /\ s \in DOMAIN daily'.delays
      /\ \A t \in DOMAIN daily.delays : /\ t \in DOMAIN daily'.delays
                                        /\ daily'.delays[t] = daily.delays[t]
                                        /\ daily'.rights[t] = daily.rights[t]
      /\ \A t \in DOMAIN daily'.delays : t = s \/ t \in DOMAIN daily.delays
  <2>1. daily'.again = daily.again
      BY <1>5 DEF DailyFields
  <2>2. /\ DOMAIN daily'.delays = DOMAIN daily.delays \cup {s}
        /\ DOMAIN daily'.rights = DOMAIN daily.rights \cup {s}
        /\ daily'.delays[s] = Delay(r) /\ daily'.rights[s] = Right(r)
      BY <1>5 DEF WithResult
  <2>3. \A t \in DOMAIN daily.delays \ {s} : /\ daily'.delays[t] = daily.delays[t]
                                             /\ daily'.rights[t] = daily.rights[t]
      BY <1>5, <1>6 DEF WithResult
  <2>4. s \notin DOMAIN daily.delays
      BY <1>1, <1>6
  <2> QED BY <1>1, <1>5, <1>6, <2>1, <2>2, <2>3, <2>4
<1>8. DailyTypes'
  <2>1. DailyTypeOK'
    <3>1. /\ daily'.at \in DailyStages
          /\ daily'.todo \cup daily'.first \cup daily'.again \subseteq StudentIds
          /\ {daily'.events, daily'.risks, daily'.alerts, daily'.notified, daily'.status}
                 \subseteq CheckStatuses
        BY <1>5 DEF DailyInv, DailyTypes, DailyTypeOK, DailyStages, DailyFields
    <3> QED BY <1>4, <3>1, DailyTypesStay
  <2>2. daily'.at \notin FromAlerts
      BY <1>5 DEF FromAlerts, FromDelivery
  <2>3. daily'.at # "delivery.next" /\ DOMAIN daily' = DailyFields
      BY <1>5
  <2> QED BY <2>1, <2>2, <2>3 DEF DailyTypes
<1>9. FailureIsTold'
  <2>1. Aborted(DailyRun)' => ~Right(r).success
      BY <1>3, <1>4
  <2>2. Aborted(DailyRun)' =>
            \E t \in DOMAIN daily'.delays : ~(daily'.delays[t].success /\ daily'.rights[t].success)
      BY <1>7, <2>1
  <2> QED BY <1>5, <2>2 DEF FailureIsTold, At
<1>10. RiskIsSeen'
  <2>1. daily.at \in FromRisk /\ daily'.at \in FromRisk
      BY <1>0, <1>5 DEF FromRisk, FromAlerts, FromDelivery
  <2>2. daily'.detection = daily.detection /\ daily'.first = daily.first
      BY <1>5 DEF DailyFields
  <2> QED BY <1>4, <2>1, <2>2, RiskStaysSeen DEF DailyInv
<1>11. AlertsAreSeen'
  <2>1. \A t \in DOMAIN daily'.delays :
            /\ daily'.delays[t].success => daily'.delays[t] = DelayOf(t)'
            /\ daily'.rights[t].success => daily'.rights[t] = RightOf(t)'
    <3>1. \A t \in DOMAIN daily'.delays :
              /\ daily'.delays[t].success => daily'.delays[t] = DelayOf(t)
              /\ daily'.rights[t].success => daily'.rights[t] = RightOf(t)
        BY <1>3, <1>6, <1>7
    <3> QED BY <1>4, <3>1, JudgementsStay
  <2>2. daily'.todo \subseteq daily'.again
      BY <1>5, <1>6, <1>7
  <2>3. /\ daily'.at \notin UpToListing \cup {"risk.assess", "risk.end", "alerts.start", "alerts.list"}
        /\ daily'.at \notin FromAlerts
      BY <1>5 DEF UpToListing, FromAlerts, FromDelivery
  <2> QED BY <1>7, <2>1, <2>2, <2>3 DEF AlertsAreSeen
<1>12. DeliveryIsSeen'
  <2>1. daily'.at \notin FromAlerts
      BY <1>5 DEF FromAlerts, FromDelivery
  <2> QED BY <2>1, NothingDelivered
<1> QED BY <1>4, <1>8, <1>9, <1>10, <1>11, <1>12 DEF DailyInv

(* The alerts.                                                             *)
LEMMA DailyConcludesAlerts ==
    ASSUME HistoryInv, DailyInv, ConcludeAlerts
    PROVE  HistoryInv' /\ DailyInv' /\ OnlySessionOf(DailyRun) /\ Beside
<1> DEFINE g == GenerateAlerts(daily.delays, daily.rights, daily.detection)
           results == RiskSource(daily.detection, DOMAIN daily.delays).results
           AlertsAbout(s) == AlertsOf(s, daily.delays[s], daily.rights[s], results)
<1>0. /\ DOMAIN daily = DailyFields
      /\ daily.at = "alerts.load" /\ daily.todo = {} /\ daily.again \subseteq StudentIds
    BY DEF DailyInv, DailyTypes, DailyTypeOK, ConcludeAlerts, At
<1>1. /\ UNCHANGED databaseVars /\ sender' = sender /\ arrived' = arrived
      /\ Beside /\ HistoryInv' /\ OnlySessionOf(DailyRun) /\ Aborted(DailyRun)' = Aborted(DailyRun)
    BY DEF ConcludeAlerts, databaseVars, Beside, HistoryInv, HistoryTellsResults, DatabaseTypeOK,
           OnlySessionOf, Aborted
<1>2. /\ DOMAIN daily' = DailyFields /\ daily'.at = "alerts.end"
      /\ daily'.generated = g /\ daily'.delays = NoResults /\ daily'.rights = NoResults
      /\ \A x \in DailyFields \ {"at", "generated", "delays", "rights"} : daily'[x] = daily[x]
    BY <1>0, GotoFields DEF ConcludeAlerts, DailyFields
<1>3. /\ DOMAIN daily.delays = daily.again /\ DOMAIN daily.rights = daily.again
      /\ \A t \in daily.again :
            /\ daily.delays[t].success => daily.delays[t] = DelayOf(t)
            /\ daily.rights[t].success => daily.rights[t] = RightOf(t)
    BY <1>0 DEF DailyInv, AlertsAreSeen, At
<1>4. /\ g.status \in FinalStatuses
      /\ g.status = "completed" =>
             /\ \A s \in DOMAIN daily.delays : daily.delays[s].success /\ daily.rights[s].success
             /\ RiskSource(daily.detection, DOMAIN daily.delays) = daily.detection
             /\ daily.detection.status = "completed"
    BY GenerationTells
<1>5. g.alerts = UNION {AlertsAbout(s) : s \in daily.again}
    BY <1>3 DEF GenerateAlerts
<1>6. ASSUME NEW s \in daily.again
      PROVE  daily.rights[s].success /\ daily.rights[s].requires_attention =>
                 StudyRightAlertCode[daily.rights[s].risk_status]
                   \in {"STUDY_RIGHT_EXPIRED", "STUDY_RIGHT_EXPIRING_SOON", "STUDY_RIGHT_EXTENDED"}
    BY <1>3, AttentionHasCode DEF RightOf
<1>7. \A s \in daily.again : \A a \in AlertsAbout(s) : a.student = s /\ a.type \in AlertTypes
    BY <1>6, AlertsAreKnown
<1>8. \A a \in g.alerts : a.student \in StudentIds /\ a.type \in AlertTypes
  <2> HIDE DEF g, AlertsAbout
  <2> QED BY <1>0, <1>5, <1>7
<1>9. ASSUME g.status = "completed", NEW s \in daily.first \cap daily.again, Alarming(s)
      PROVE  \E a \in g.alerts :
                 a.student = s /\ Concerns(a.type, RiskOf(s)) \cap RiskOf(s).actionable # {}
  <2>1. s \in DOMAIN daily.detection.results /\ daily.detection.results[s] = RiskOf(s)
    <3>1. daily.at \in FromRisk
        BY <1>0 DEF FromRisk
    <3> QED BY <1>4, <1>9, <3>1 DEF DailyInv, RiskIsSeen
  <2>2. results = daily.detection.results
      BY <1>4, <1>9
  <2>3. RiskOf(s).attention /\ RiskOf(s).actionable # {}
      BY <1>9, AttentionIsActionable DEF Alarming, RiskOf
  <2> HIDE DEF results, g
  <2>4. s \in DOMAIN results /\ results[s].attention /\ results[s].actionable # {}
      BY <2>1, <2>2, <2>3
  <2>5. \E a \in AlertsAbout(s) :
            a.student = s /\ Concerns(a.type, results[s]) \cap results[s].actionable # {}
      BY <1>6, <2>4, RiskIsAlerted
  <2> HIDE DEF AlertsAbout
  <2> QED BY <1>5, <2>1, <2>2, <2>5
<1> HIDE DEF g
<1>10. DailyTypes'
  <2>1. DailyTypeOK'
    <3>1. /\ daily'.at \in DailyStages
          /\ daily'.todo \cup daily'.first \cup daily'.again \subseteq StudentIds
          /\ {daily'.events, daily'.risks, daily'.alerts, daily'.notified, daily'.status}
                 \subseteq CheckStatuses
        BY <1>2 DEF DailyInv, DailyTypes, DailyTypeOK, DailyStages, DailyFields
    <3> QED BY <1>1, <3>1, DailyTypesStay
  <2>2. \A a \in daily'.generated.alerts : a.student \in StudentIds /\ a.type \in AlertTypes
      BY <1>2, <1>8
  <2>3. daily'.at # "delivery.next" /\ DOMAIN daily' = DailyFields
      BY <1>2
  <2> QED BY <2>1, <2>2, <2>3 DEF DailyTypes
<1>11. FailureIsTold'
  <2>1. Aborted(DailyRun) => g.status # "completed"
    <3>1. Aborted(DailyRun) => \E s \in DOMAIN daily.delays :
                                   ~(daily.delays[s].success /\ daily.rights[s].success)
        BY <1>0 DEF DailyInv, FailureIsTold, At
    <3> QED BY <1>4, <3>1
  <2>2. Speaks(daily.generated.status, DailyRun)'
      BY <1>1, <1>2, <1>4, <2>1 DEF Speaks
  <2> QED BY <1>2, <2>2 DEF FailureIsTold, At
<1>12. RiskIsSeen'
  <2>1. daily.at \in FromRisk /\ daily'.at \in FromRisk
      BY <1>0, <1>2 DEF FromRisk, FromAlerts, FromDelivery
  <2>2. daily'.detection = daily.detection /\ daily'.first = daily.first
      BY <1>2 DEF DailyFields
  <2> QED BY <1>1, <2>1, <2>2, RiskStaysSeen DEF DailyInv
<1>13. AlertsAreSeen'
  <2>1. daily'.first = daily.first /\ daily'.again = daily.again /\ daily'.detection = daily.detection
      BY <1>2 DEF DailyFields
  <2>2. ASSUME NEW s PROVE RiskOf(s)' = RiskOf(s) /\ Alarming(s)' = Alarming(s)
      BY <1>1, JudgementsStay
  <2>3. ASSUME g.status = "completed", NEW s \in daily.first \cap daily.again, Alarming(s)
        PROVE  Alerted(s)'
    <3>1. \E a \in daily'.generated.alerts :
              a.student = s /\ Concerns(a.type, RiskOf(s)') \cap RiskOf(s)'.actionable # {}
        BY <1>2, <1>9, <2>2, <2>3
    <3> QED BY <3>1 DEF Alerted
  <2>4. daily'.generated.status = "completed" =>
            /\ daily'.detection.status = "completed"
            /\ \A s \in daily'.first \cap daily'.again : Alarming(s)' => Alerted(s)'
      BY <1>2, <1>4, <2>1, <2>2, <2>3
  <2>5. /\ daily'.at \notin UpToListing \cup {"risk.assess", "risk.end", "alerts.start", "alerts.list"}
        /\ ~At("alerts.load")'
      BY <1>2 DEF UpToListing, At
  <2> QED BY <2>4, <2>5 DEF AlertsAreSeen
<1>14. DeliveryIsSeen'
    BY <1>2 DEF DeliveryIsSeen, FromDelivery, At
<1> QED BY <1>1, <1>10, <1>11, <1>12, <1>13, <1>14 DEF DailyInv

(* A message that has arrived stays so.                                    *)
LEMMA ReachedStays ==
    ASSUME Beside, arrived \subseteq arrived', NEW a, Reached(a)
    PROVE  Reached(a)'
<1>1. RecipientsOf(a.student)' = RecipientsOf(a.student)
    BY JudgementsStay
<1>2. /\ RecipientsOf(a.student) # {}
      /\ \A t \in RecipientsOf(a.student), c \in 1..ChunksOf(a.type) :
             [student |-> a.student, type |-> a.type, tutor |-> t, chunk |-> c] \in arrived'
    BY DEF Reached
<1> QED BY <1>1, <1>2 DEF Reached

(* From the end of the alerts to their delivery, or past it.               *)
LEMMA DailyTurnsToDelivery ==
    ASSUME HistoryInv, DailyInv, FinishAlerts \/ StartDelivery
    PROVE  HistoryInv' /\ DailyInv' /\ OnlySessionOf(DailyRun) /\ Beside
<1>0. DOMAIN daily = DailyFields
    BY DEF DailyInv, DailyTypes
<1>1. /\ HistoryInv' /\ OnlySessionOf(DailyRun)
      /\ Beside /\ arrived' = arrived /\ ~Aborted(DailyRun)'
  <2>1. CASE FinishAlerts
    <3>1. Speaks(daily.generated.status, DailyRun)
        BY <2>1 DEF FinishAlerts, DailyInv, FailureIsTold
    <3>2. /\ FinishExecution(DailyRun, "alerts", daily.generated.status)
          /\ sender' = sender /\ arrived' = arrived
        BY <2>1 DEF FinishAlerts
    <3> QED BY <3>1, <3>2, FinishKeepsHistory, DailyRunAssumption DEF Beside, Workflows
  <2>2. CASE StartDelivery
      BY <2>2, StartKeepsHistory, DailyRunAssumption DEF StartDelivery, Beside, Workflows
  <2> QED BY <2>1, <2>2
<1>2. /\ DOMAIN daily' = DailyFields /\ daily.at \in {"alerts.end", "delivery.start"}
      /\ \A x \in DailyFields \ {"at", "alerts", "notified", "queue"} : daily'[x] = daily[x]
      /\ daily'.alerts = daily.generated.status /\ daily'.alerts \in CheckStatuses
      /\ \/ daily'.at = "delivery.start" /\ daily'.notified = daily.notified
         \/ daily'.at = "end" /\ daily'.notified = "unavailable"
         \/ daily'.at = "delivery.end" /\ daily'.notified = "failed"
         \/ /\ daily'.at = "delivery.next" /\ daily'.notified = daily.notified
            /\ daily'.queue = daily.generated.alerts
  <2>1. CASE FinishAlerts
    <3>1. daily.generated.status \in FinalStatuses /\ daily.at = "alerts.end"
        BY <2>1 DEF FinishAlerts, DailyInv, FailureIsTold, Speaks, At
    <3>2. CASE Goto("delivery.start", [alerts |-> daily.generated.status])
      <4>1. /\ daily'.at = "delivery.start" /\ DOMAIN daily' = DailyFields
            /\ \A x \in DailyFields \ {"at", "alerts"} : daily'[x] = daily[x]
            /\ daily'.alerts = daily.generated.status
          BY <1>0, <3>2, GotoFields DEF DailyFields
      <4> QED BY <3>1, <4>1 DEF DailyFields, CheckStatuses
    <3>3. CASE Goto("end", [alerts |-> daily.generated.status, notified |-> "unavailable"])
      <4>1. /\ daily'.at = "end" /\ DOMAIN daily' = DailyFields
            /\ \A x \in DailyFields \ {"at", "alerts", "notified"} : daily'[x] = daily[x]
            /\ daily'.alerts = daily.generated.status /\ daily'.notified = "unavailable"
          BY <1>0, <3>3, GotoFields DEF DailyFields
      <4> QED BY <3>1, <4>1 DEF DailyFields, CheckStatuses
    <3> QED BY <2>1, <3>2, <3>3 DEF FinishAlerts
  <2>2. CASE StartDelivery
    <3>1. /\ daily.at = "delivery.start" /\ daily.alerts = daily.generated.status
          /\ daily.alerts \in CheckStatuses
        BY <2>2 DEF StartDelivery, DailyInv, DeliveryIsSeen, FromAlerts, At, DailyTypes, DailyTypeOK
    <3>2. CASE Goto("delivery.end", [notified |-> "failed"])
      <4>1. /\ daily'.at = "delivery.end" /\ DOMAIN daily' = DailyFields
            /\ \A x \in DailyFields \ {"at", "notified"} : daily'[x] = daily[x]
            /\ daily'.notified = "failed"
          BY <1>0, <3>2, GotoFields DEF DailyFields
      <4> QED BY <3>1, <4>1 DEF DailyFields
    <3>3. CASE Goto("delivery.next", [queue |-> daily.generated.alerts])
      <4>1. /\ daily'.at = "delivery.next" /\ DOMAIN daily' = DailyFields
            /\ \A x \in DailyFields \ {"at", "queue"} : daily'[x] = daily[x]
            /\ daily'.queue = daily.generated.alerts
          BY <1>0, <3>3, GotoFields DEF DailyFields
      <4> QED BY <3>1, <4>1 DEF DailyFields
    <3> QED BY <2>2, <3>2, <3>3 DEF StartDelivery
  <2> QED BY <2>1, <2>2
<1>3. daily.at \in FromAlerts /\ daily'.at \in FromAlerts
    BY <1>2 DEF FromAlerts, FromDelivery
<1>4. /\ daily'.generated = daily.generated /\ daily'.detection = daily.detection
      /\ daily'.first = daily.first /\ daily'.again = daily.again
    BY <1>2 DEF DailyFields
<1>5. DailyTypes'
  <2>1. DailyTypeOK'
    <3>1. /\ daily'.at \in DailyStages
          /\ daily'.todo \cup daily'.first \cup daily'.again \subseteq StudentIds
        BY <1>2 DEF DailyInv, DailyTypes, DailyTypeOK, DailyStages, DailyFields
    <3>2. {daily'.events, daily'.risks, daily'.alerts, daily'.notified, daily'.status}
              \subseteq CheckStatuses
        BY <1>2 DEF DailyInv, DailyTypes, DailyTypeOK, DailyFields, CheckStatuses, FinalStatuses
    <3> QED BY <1>1, <3>1, <3>2, DailyTypesStay
  <2>2. \A a \in daily'.generated.alerts : a.student \in StudentIds /\ a.type \in AlertTypes
      BY <1>3, <1>4 DEF DailyInv, DailyTypes
  <2>3. daily'.at = "delivery.next" => daily'.queue = daily'.generated.alerts
      BY <1>2, <1>4
  <2> QED BY <1>2, <2>1, <2>2, <2>3 DEF DailyTypes
<1>6. FailureIsTold'
    BY <1>1, <1>2 DEF FailureIsTold, At, Speaks, FinalStatuses
<1>7. RiskIsSeen'
  <2>1. daily.at \in FromRisk /\ daily'.at \in FromRisk
      BY <1>3 DEF FromRisk
  <2> QED BY <1>1, <1>4, <2>1, RiskStaysSeen DEF DailyInv
<1>8. AlertsAreSeen'
    BY <1>1, <1>3, <1>4, AlertsStaySeen DEF DailyInv
<1>9. DeliveryIsSeen'
  <2>1. At("delivery.next")' => daily'.generated.alerts \ daily'.queue = {}
      BY <1>2, <1>4 DEF At
  <2>2. daily'.at \in FromDelivery => daily'.notified # "completed"
      BY <1>2 DEF FromDelivery
  <2>3. daily'.alerts = daily'.generated.status
      BY <1>2, <1>4
  <2> QED BY <2>1, <2>2, <2>3 DEF DeliveryIsSeen
<1> QED BY <1>1, <1>5, <1>6, <1>7, <1>8, <1>9 DEF DailyInv

(* A delivery to every recipient in full reaches them, any other is told.  *)
LEMMA SendingTells ==
    ASSUME NEW a, a.type \in AlertTypes, RecipientsOf(a.student) # {}, NEW messages,
           NEW n \in [RecipientsOf(a.student) -> 0..ChunksOf(a.type)],
           NEW late \in [RecipientsOf(a.student) -> BOOLEAN],
           messages = UNION {SendTo(a, t, n[t], late[t]) : t \in RecipientsOf(a.student)}
    PROVE  \/ \E t \in RecipientsOf(a.student) : SendStatus(a, n[t]) = "failed"
           \/ \A t \in RecipientsOf(a.student), c \in 1..ChunksOf(a.type) :
                  [student |-> a.student, type |-> a.type, tutor |-> t, chunk |-> c] \in messages
<1> SUFFICES ASSUME \A t \in RecipientsOf(a.student) : SendStatus(a, n[t]) # "failed",
                    NEW t \in RecipientsOf(a.student), NEW c \in 1..ChunksOf(a.type)
             PROVE  [student |-> a.student, type |-> a.type, tutor |-> t, chunk |-> c] \in messages
    OBVIOUS
<1>1. n[t] = ChunksOf(a.type) /\ ChunksOf(a.type) \in Nat
    BY ChunksAssumption DEF SendStatus
<1>2. [student |-> a.student, type |-> a.type, tutor |-> t, chunk |-> c] \in SendTo(a, t, n[t], late[t])
    BY <1>1 DEF SendTo
<1> QED BY <1>2

(* Only what is sent arrives.                                              *)
LEMMA SendingIsAddressed ==
    ASSUME NEW a, a.type \in AlertTypes, NEW t,
           NEW n \in 0..ChunksOf(a.type), NEW late \in BOOLEAN, late => n < ChunksOf(a.type),
           NEW m \in SendTo(a, t, n, late)
    PROVE  m.tutor = t /\ m.student = a.student /\ m.chunk \in 1..ChunksOf(m.type)
<1>1. ChunksOf(a.type) \in Nat
    BY ChunksAssumption
<1>2. PICK c \in 1..(IF late THEN n + 1 ELSE n) :
          m = [student |-> a.student, type |-> a.type, tutor |-> t, chunk |-> c]
    BY DEF SendTo
<1>3. c \in 1..ChunksOf(a.type)
    BY <1>1, <1>2
<1> QED BY <1>2, <1>3

(* One alert delivered, or not.                                            *)
LEMMA DailyDelivers ==
    ASSUME HistoryInv, DailyInv, DeliverNext
    PROVE  HistoryInv' /\ DailyInv' /\ OnlySessionOf(DailyRun) /\ Beside
<1> DEFINE alert == CHOOSE a \in daily.queue : a.student = First({b.student : b \in daily.queue})
           tutors == RecipientsOf(alert.student)
           left == daily.queue \ {alert}
           delivery(t, status) == [student |-> alert.student, type |-> alert.type,
                                   tutor |-> t, status |-> status]
<1>0. /\ DOMAIN daily = DailyFields /\ DatabaseTypeOK
      /\ daily.at = "delivery.next" /\ daily.queue # {}
      /\ daily.queue \subseteq daily.generated.alerts
      /\ \A a \in daily.generated.alerts : a.student \in StudentIds /\ a.type \in AlertTypes
    BY DEF HistoryInv, DailyInv, DailyTypes, DeliverNext, At, FromAlerts
<1>1. alert \in daily.queue
  <2> DEFINE ids == {b.student : b \in daily.queue}
  <2>1. ids \in SUBSET StudentIds /\ ids # {}
      BY <1>0
  <2>2. First(ids) \in ids
    <3> HIDE DEF ids
    <3> QED BY <2>1, FirstIsOne
  <2> QED BY <2>2
<1>2. alert.type \in AlertTypes
    BY <1>0, <1>1
<1>3. /\ ReadsOnly /\ sender' = sender
      /\ \E added :
            /\ Goto("delivery.next", [queue |-> left, deliveries |-> daily.deliveries \cup added])
            /\ \/ /\ StatementFails(DailyRun) /\ arrived' = arrived
                  /\ added = {delivery(None, "failed")}
               \/ /\ StatementSucceeds(DailyRun) /\ arrived' = arrived
                  /\ added = {delivery(None, "skipped")}
               \/ /\ StatementSucceeds(DailyRun) /\ tutors # {}
                  /\ \E n \in [tutors -> 0..ChunksOf(alert.type)], late \in [tutors -> BOOLEAN] :
                        /\ \A t \in tutors : late[t] => n[t] < ChunksOf(alert.type)
                        /\ arrived' = arrived
                               \cup UNION {SendTo(alert, t, n[t], late[t]) : t \in tutors}
                        /\ added = {delivery(t, SendStatus(alert, n[t])) : t \in tutors}
    BY DEF DeliverNext
<1>4. PICK added :
          /\ Goto("delivery.next", [queue |-> left, deliveries |-> daily.deliveries \cup added])
          /\ \/ /\ StatementFails(DailyRun) /\ arrived' = arrived
                /\ added = {delivery(None, "failed")}
             \/ /\ StatementSucceeds(DailyRun) /\ arrived' = arrived
                /\ added = {delivery(None, "skipped")}
             \/ /\ StatementSucceeds(DailyRun) /\ tutors # {}
                /\ \E n \in [tutors -> 0..ChunksOf(alert.type)], late \in [tutors -> BOOLEAN] :
                      /\ \A t \in tutors : late[t] => n[t] < ChunksOf(alert.type)
                      /\ arrived' = arrived
                             \cup UNION {SendTo(alert, t, n[t], late[t]) : t \in tutors}
                      /\ added = {delivery(t, SendStatus(alert, n[t])) : t \in tutors}
    BY <1>3
<1> HIDE DEF alert, left
<1>5. /\ arrived \subseteq arrived'
      /\ \/ \E d \in added : d.status \in {"failed", "skipped"}
         \/ /\ tutors # {}
            /\ \A t \in tutors, c \in 1..ChunksOf(alert.type) :
                   [student |-> alert.student, type |-> alert.type, tutor |-> t, chunk |-> c]
                       \in arrived'
      /\ \A m \in arrived' \ arrived : m.tutor \in RecipientsOf(m.student)
                                       /\ m.chunk \in 1..ChunksOf(m.type)
      /\ StatementFails(DailyRun) \/ StatementSucceeds(DailyRun)
      /\ (StatementSucceeds(DailyRun) \/ \E d \in added : d.status = "failed")
  <2>1. CASE /\ StatementFails(DailyRun) /\ arrived' = arrived
             /\ added = {delivery(None, "failed")}
    <3>1. delivery(None, "failed") \in added /\ delivery(None, "failed").status = "failed"
        BY <2>1
    <3> QED BY <2>1, <3>1
  <2>2. CASE /\ StatementSucceeds(DailyRun) /\ arrived' = arrived
             /\ added = {delivery(None, "skipped")}
    <3>1. delivery(None, "skipped") \in added /\ delivery(None, "skipped").status = "skipped"
        BY <2>2
    <3> QED BY <2>2, <3>1
  <2>3. ASSUME StatementSucceeds(DailyRun), tutors # {},
               NEW n \in [tutors -> 0..ChunksOf(alert.type)], NEW late \in [tutors -> BOOLEAN],
               \A t \in tutors : late[t] => n[t] < ChunksOf(alert.type),
               arrived' = arrived \cup UNION {SendTo(alert, t, n[t], late[t]) : t \in tutors},
               added = {delivery(t, SendStatus(alert, n[t])) : t \in tutors}
        PROVE  /\ arrived \subseteq arrived'
               /\ \/ \E d \in added : d.status \in {"failed", "skipped"}
                  \/ \A t \in tutors, c \in 1..ChunksOf(alert.type) :
                         [student |-> alert.student, type |-> alert.type, tutor |-> t, chunk |-> c]
                             \in arrived'
               /\ \A m \in arrived' \ arrived : m.tutor \in RecipientsOf(m.student)
                                                /\ m.chunk \in 1..ChunksOf(m.type)
    <3> DEFINE messages == UNION {SendTo(alert, t, n[t], late[t]) : t \in tutors}
    <3>1. \/ \E t \in tutors : SendStatus(alert, n[t]) = "failed"
          \/ \A t \in tutors, c \in 1..ChunksOf(alert.type) :
                 [student |-> alert.student, type |-> alert.type, tutor |-> t, chunk |-> c] \in messages
        BY <1>2, <2>3, SendingTells
    <3>2. ASSUME NEW m \in arrived' \ arrived
          PROVE  m.tutor \in RecipientsOf(m.student) /\ m.chunk \in 1..ChunksOf(m.type)
      <4>1. PICK t \in tutors : m \in SendTo(alert, t, n[t], late[t])
          BY <2>3
      <4>2. n[t] \in 0..ChunksOf(alert.type) /\ late[t] \in BOOLEAN
            /\ (late[t] => n[t] < ChunksOf(alert.type))
          BY <2>3
      <4>3. m.tutor = t /\ m.student = alert.student /\ m.chunk \in 1..ChunksOf(m.type)
          BY <1>2, <4>1, <4>2, SendingIsAddressed
      <4> QED BY <4>1, <4>3
    <3>3. ASSUME NEW t \in tutors, SendStatus(alert, n[t]) = "failed"
          PROVE  \E d \in added : d.status = "failed"
      <4>1. delivery(t, SendStatus(alert, n[t])) \in added
          BY <2>3
      <4>2. delivery(t, SendStatus(alert, n[t])).status = SendStatus(alert, n[t])
          OBVIOUS
      <4> QED BY <3>3, <4>1, <4>2
    <3> HIDE DEF tutors, delivery
    <3> QED BY <2>3, <3>1, <3>2, <3>3
  <2>4. ASSUME StatementSucceeds(DailyRun), tutors # {},
               \E n \in [tutors -> 0..ChunksOf(alert.type)], late \in [tutors -> BOOLEAN] :
                   /\ \A t \in tutors : late[t] => n[t] < ChunksOf(alert.type)
                   /\ arrived' = arrived \cup UNION {SendTo(alert, t, n[t], late[t]) : t \in tutors}
                   /\ added = {delivery(t, SendStatus(alert, n[t])) : t \in tutors}
        PROVE  /\ arrived \subseteq arrived'
               /\ \/ \E d \in added : d.status \in {"failed", "skipped"}
                  \/ \A t \in tutors, c \in 1..ChunksOf(alert.type) :
                         [student |-> alert.student, type |-> alert.type, tutor |-> t, chunk |-> c]
                             \in arrived'
               /\ \A m \in arrived' \ arrived : m.tutor \in RecipientsOf(m.student)
                                                /\ m.chunk \in 1..ChunksOf(m.type)
    <3> HIDE DEF tutors, delivery
    <3> QED BY <2>3, <2>4
  <2> HIDE DEF tutors, delivery
  <2> QED BY <1>4, <2>1, <2>2, <2>4
<1> HIDE DEF tutors, delivery
<1>6. /\ HistoryInv' /\ OnlySessionOf(DailyRun) /\ Beside
      /\ Aborted(DailyRun)' => \E d \in added : d.status = "failed"
  <2>1. Reads(DailyRun) /\ (StatementSucceeds(DailyRun) => ~Aborted(DailyRun)')
      BY <1>0, <1>3, <1>5, KindsOfReads, DailyRunAssumption
  <2> QED BY <1>3, <1>5, <2>1, ReadsKeepHistory, DailyRunAssumption DEF Beside
<1>7. /\ DOMAIN daily' = DailyFields /\ daily'.at = "delivery.next"
      /\ daily'.queue = left /\ daily'.deliveries = daily.deliveries \cup added
      /\ \A x \in DailyFields \ {"at", "queue", "deliveries"} : daily'[x] = daily[x]
    BY <1>0, <1>4, GotoFields DEF DailyFields
<1>8. /\ daily.at \in FromAlerts /\ daily'.at \in FromAlerts
      /\ daily.at \in FromRisk /\ daily'.at \in FromRisk
    BY <1>0, <1>7 DEF FromRisk, FromAlerts, FromDelivery
<1>9. /\ daily'.generated = daily.generated /\ daily'.detection = daily.detection
      /\ daily'.first = daily.first /\ daily'.again = daily.again /\ daily'.alerts = daily.alerts
    BY <1>7 DEF DailyFields
<1>10. DailyTypes'
  <2>1. DailyTypeOK'
    <3>1. /\ daily'.at \in DailyStages
          /\ daily'.todo \cup daily'.first \cup daily'.again \subseteq StudentIds
          /\ {daily'.events, daily'.risks, daily'.alerts, daily'.notified, daily'.status}
                 \subseteq CheckStatuses
        BY <1>7 DEF DailyInv, DailyTypes, DailyTypeOK, DailyStages, DailyFields
    <3>2. \A m \in arrived' : m.tutor \in RecipientsOf(m.student) /\ m.chunk \in 1..ChunksOf(m.type)
        BY <1>5 DEF DailyInv, DailyTypes, DailyTypeOK, RecipientsOf
    <3>3. \A m \in arrived' : m.tutor \in RecipientsOf(m.student)' /\ m.chunk \in 1..ChunksOf(m.type)
        BY <1>6, <3>2, JudgementsStay
    <3>4. sender' \in BOOLEAN
        BY <1>3 DEF DailyInv, DailyTypes, DailyTypeOK
    <3> QED BY <3>1, <3>3, <3>4 DEF DailyTypeOK, RecipientsOf
  <2>2. \A a \in daily'.generated.alerts : a.student \in StudentIds /\ a.type \in AlertTypes
      BY <1>0, <1>9
  <2>3. daily'.queue \subseteq daily'.generated.alerts
      BY <1>0, <1>7, <1>9 DEF left
  <2> QED BY <1>7, <2>1, <2>2, <2>3 DEF DailyTypes
<1>11. FailureIsTold'
  <2>1. Aborted(DailyRun)' => \E d \in daily'.deliveries : d.status = "failed"
      BY <1>6, <1>7
  <2> QED BY <1>7, <2>1 DEF FailureIsTold, At
<1>12. RiskIsSeen'
    BY <1>6, <1>8, <1>9, RiskStaysSeen DEF DailyInv
<1>13. AlertsAreSeen'
    BY <1>6, <1>8, <1>9, AlertsStaySeen DEF DailyInv
<1>14. DeliveryIsSeen'
  <2>1. ASSUME NEW a \in daily'.generated.alerts \ daily'.queue
        PROVE  Reached(a)' \/ \E d \in daily'.deliveries : d.status \in {"failed", "skipped"}
    <3>1. CASE a = alert
      <4>1. CASE \E d \in added : d.status \in {"failed", "skipped"}
          BY <1>7, <4>1
      <4>2. CASE /\ tutors # {}
                 /\ \A t \in tutors, c \in 1..ChunksOf(alert.type) :
                        [student |-> alert.student, type |-> alert.type, tutor |-> t, chunk |-> c]
                            \in arrived'
        <5>1. RecipientsOf(a.student)' = tutors
            BY <1>6, <3>1, JudgementsStay DEF tutors
        <5> QED BY <3>1, <4>2, <5>1 DEF Reached
      <4> QED BY <1>5, <4>1, <4>2
    <3>2. CASE a # alert
      <4>1. a \in daily.generated.alerts \ daily.queue
          BY <1>7, <1>9, <3>2 DEF left
      <4>2. Reached(a) \/ \E d \in daily.deliveries : d.status \in {"failed", "skipped"}
          BY <1>0, <4>1 DEF DailyInv, DeliveryIsSeen, At
      <4> QED BY <1>5, <1>6, <1>7, <4>2, ReachedStays
    <3> QED BY <3>1, <3>2
  <2>2. daily'.alerts = daily'.generated.status
      BY <1>0, <1>9 DEF DailyInv, DeliveryIsSeen, FromAlerts
  <2>3. daily'.at \notin FromDelivery
      BY <1>7 DEF FromDelivery
  <2> QED BY <2>1, <2>2, <2>3 DEF DeliveryIsSeen
<1> QED BY <1>6, <1>10, <1>11, <1>12, <1>13, <1>14 DEF DailyInv

(* The end of the deliveries and of the run.                               *)
LEMMA DailyEnds ==
    ASSUME HistoryInv, DailyInv, ConcludeDelivery \/ FinishDelivery \/ FinishDaily
    PROVE  HistoryInv' /\ DailyInv' /\ OnlySessionOf(DailyRun) /\ Beside
<1>0. DOMAIN daily = DailyFields
    BY DEF DailyInv, DailyTypes
<1>1. /\ HistoryInv' /\ OnlySessionOf(DailyRun)
      /\ Beside /\ arrived' = arrived
      /\ Aborted(DailyRun)' => ConcludeDelivery /\ Aborted(DailyRun)
  <2>1. CASE ConcludeDelivery
    <3>1. UNCHANGED databaseVars /\ sender' = sender /\ arrived' = arrived
        BY <2>1 DEF ConcludeDelivery
    <3> QED BY <2>1, <3>1 DEF databaseVars, Beside, HistoryInv, HistoryTellsResults,
                              DatabaseTypeOK, OnlySessionOf, Aborted
  <2>2. CASE FinishDelivery
    <3>1. Speaks(daily.notified, DailyRun)
        BY <2>2 DEF FinishDelivery, DailyInv, FailureIsTold
    <3>2. /\ FinishExecution(DailyRun, "delivery", daily.notified)
          /\ sender' = sender /\ arrived' = arrived
        BY <2>2 DEF FinishDelivery
    <3> QED BY <3>1, <3>2, FinishKeepsHistory, DailyRunAssumption DEF Beside, Workflows
  <2>3. CASE FinishDaily
    <3>1. ~Aborted(DailyRun) /\ DailyStatus \in FinalStatuses
        BY <2>3, AggregateTells DEF FinishDaily, DailyInv, FailureIsTold, DailyStatus
    <3>2. /\ FinishExecution(DailyRun, "daily", DailyStatus)
          /\ sender' = sender /\ arrived' = arrived
        BY <2>3 DEF FinishDaily
    <3> QED BY <3>1, <3>2, FinishKeepsHistory, DailyRunAssumption DEF Beside, Workflows, Speaks
  <2> QED BY <2>1, <2>2, <2>3
<1>2. /\ DOMAIN daily' = DailyFields /\ daily.at \in {"delivery.next", "delivery.end", "end"}
      /\ \A x \in DailyFields \ {"at", "notified", "deliveries", "status"} : daily'[x] = daily[x]
      /\ {daily'.notified, daily'.status} \subseteq CheckStatuses
      /\ \/ /\ ConcludeDelivery /\ daily.at = "delivery.next" /\ daily.queue = {}
            /\ daily'.at = "delivery.end"
            /\ daily'.notified = BatchStatus(daily.deliveries, daily.generated.status)
         \/ /\ ~ConcludeDelivery /\ daily.at \in FromDelivery
            /\ daily'.at \in {"end", "done"} /\ daily'.notified = daily.notified
  <2>0. {daily.notified, daily.status} \subseteq CheckStatuses
      BY DEF DailyInv, DailyTypes, DailyTypeOK
  <2>1. CASE ConcludeDelivery
    <3>1. /\ daily.at = "delivery.next" /\ daily.queue = {}
          /\ daily'.at = "delivery.end" /\ DOMAIN daily' = DailyFields
          /\ \A x \in DailyFields \ {"at", "notified", "deliveries"} : daily'[x] = daily[x]
          /\ daily'.notified = BatchStatus(daily.deliveries, daily.generated.status)
        BY <1>0, <2>1, GotoFields DEF ConcludeDelivery, At, DailyFields
    <3>2. daily'.notified \in CheckStatuses
        BY <3>1, BatchTells DEF CheckStatuses
    <3> QED BY <2>0, <2>1, <3>1, <3>2 DEF DailyFields
  <2>2. CASE FinishDelivery
    <3>1. /\ daily.at = "delivery.end"
          /\ daily'.at = "end" /\ DOMAIN daily' = DailyFields
          /\ \A x \in DailyFields \ {"at"} : daily'[x] = daily[x]
        BY <1>0, <2>2, GotoFields DEF FinishDelivery, At, Stay
    <3> QED BY <2>0, <3>1 DEF DailyFields, FromDelivery, ConcludeDelivery, At
  <2>3. CASE FinishDaily
    <3>1. /\ daily.at = "end"
          /\ daily'.at = "done" /\ DOMAIN daily' = DailyFields
          /\ \A x \in DailyFields \ {"at", "status"} : daily'[x] = daily[x]
          /\ daily'.status = DailyStatus
        BY <1>0, <2>3, GotoFields DEF FinishDaily, At, DailyFields
    <3>2. DailyStatus \in CheckStatuses
        BY AggregateTells DEF DailyStatus, CheckStatuses
    <3> QED BY <2>0, <3>1, <3>2 DEF DailyFields, FromDelivery, ConcludeDelivery, At
  <2> QED BY <2>1, <2>2, <2>3
<1>3. /\ daily.at \in FromAlerts /\ daily'.at \in FromAlerts
      /\ daily.at \in FromRisk /\ daily'.at \in FromRisk
    BY <1>2 DEF FromRisk, FromAlerts, FromDelivery
<1>4. /\ daily'.generated = daily.generated /\ daily'.detection = daily.detection
      /\ daily'.first = daily.first /\ daily'.again = daily.again /\ daily'.alerts = daily.alerts
    BY <1>2 DEF DailyFields
<1>5. DailyTypes'
  <2>1. DailyTypeOK'
    <3>1. /\ daily'.at \in DailyStages
          /\ daily'.todo \cup daily'.first \cup daily'.again \subseteq StudentIds
          /\ {daily'.events, daily'.risks, daily'.alerts, daily'.notified, daily'.status}
                 \subseteq CheckStatuses
        BY <1>2 DEF DailyInv, DailyTypes, DailyTypeOK, DailyStages, DailyFields
    <3> QED BY <1>1, <3>1, DailyTypesStay
  <2>2. \A a \in daily'.generated.alerts : a.student \in StudentIds /\ a.type \in AlertTypes
      BY <1>3, <1>4 DEF DailyInv, DailyTypes
  <2>3. daily'.at # "delivery.next"
      BY <1>2
  <2> QED BY <1>2, <2>1, <2>2, <2>3 DEF DailyTypes
<1>6. FailureIsTold'
  <2>1. CASE ConcludeDelivery
    <3>1. Aborted(DailyRun) => \E d \in daily.deliveries : d.status = "failed"
        BY <1>2, <2>1 DEF DailyInv, FailureIsTold, At
    <3>2. Speaks(daily.notified, DailyRun)'
        BY <1>1, <1>2, <2>1, <3>1, BatchTells DEF Speaks
    <3> QED BY <1>2, <2>1, <3>2 DEF FailureIsTold, At
  <2>2. CASE ~ConcludeDelivery
    <3>1. ~Aborted(DailyRun)' /\ daily'.at \in {"end", "done"}
        BY <1>1, <1>2, <2>2
    <3> QED BY <3>1 DEF FailureIsTold, At
  <2> QED BY <2>1, <2>2
<1>7. RiskIsSeen'
    BY <1>1, <1>3, <1>4, RiskStaysSeen DEF DailyInv
<1>8. AlertsAreSeen'
    BY <1>1, <1>3, <1>4, AlertsStaySeen DEF DailyInv
<1>9. DeliveryIsSeen'
  <2>1. ASSUME daily'.notified = "completed"
        PROVE  \A a \in daily.generated.alerts : Reached(a)
    <3>1. CASE ConcludeDelivery
      <4>1. \A d \in daily.deliveries : d.status \notin {"failed", "skipped"}
          BY <1>2, <2>1, <3>1, BatchTells
      <4>2. \A a \in daily.generated.alerts :
                Reached(a) \/ \E d \in daily.deliveries : d.status \in {"failed", "skipped"}
          BY <1>2, <3>1 DEF DailyInv, DeliveryIsSeen, At
      <4> QED BY <4>1, <4>2
    <3>2. CASE ~ConcludeDelivery
        BY <1>2, <2>1, <3>2 DEF DailyInv, DeliveryIsSeen
    <3> QED BY <3>1, <3>2
  <2>2. daily'.notified = "completed" => \A a \in daily'.generated.alerts : Reached(a)'
      BY <1>1, <1>4, <2>1, JudgementsStay
  <2>3. daily'.alerts = daily'.generated.status
      BY <1>2, <1>4 DEF DailyInv, DeliveryIsSeen, FromAlerts, FromDelivery
  <2>4. ~At("delivery.next")'
      BY <1>2 DEF At
  <2> QED BY <2>2, <2>3, <2>4 DEF DeliveryIsSeen
<1> QED BY <1>1, <1>5, <1>6, <1>7, <1>8, <1>9 DEF DailyInv

(* A fresh run knows nothing; neither does one that is not explored.       *)
DailyIsFresh ==
    /\ \E at \in {"off", "start", "crashed"} : daily = [NewDaily EXCEPT !.at = at]
    /\ sender \in BOOLEAN
    /\ \A m \in arrived : m.tutor \in RecipientsOf(m.student) /\ m.chunk \in 1..ChunksOf(m.type)

LEMMA DailyKnowsNothing == DailyIsFresh => DailyInv
<1> SUFFICES ASSUME DailyIsFresh PROVE DailyInv
    OBVIOUS
<1>0. PICK at \in {"off", "start", "crashed"} : daily = [NewDaily EXCEPT !.at = at]
    BY DEF DailyIsFresh
<1>1. /\ DOMAIN daily = DailyFields /\ daily.at = at
      /\ daily.parsed = NoResults /\ daily.delays = NoResults /\ daily.rights = NoResults
      /\ daily.todo = {} /\ daily.first = {} /\ daily.again = {}
      /\ {daily.events, daily.risks, daily.alerts, daily.notified, daily.status} = {None}
    BY <1>0 DEF NewDaily, DailyFields
<1>2. DailyTypeOK
  <2>1. {daily.events, daily.risks, daily.alerts, daily.notified, daily.status}
            \subseteq CheckStatuses
      BY <1>1 DEF CheckStatuses
  <2>2. /\ daily.at \in DailyStages
        /\ daily.todo \cup daily.first \cup daily.again \subseteq StudentIds
      BY <1>1 DEF DailyStages
  <2> QED BY <2>1, <2>2 DEF DailyTypeOK, DailyIsFresh, RecipientsOf
<1>3. /\ daily.at \notin FromRisk /\ daily.at \notin FromAlerts /\ daily.at \notin FromDelivery
      /\ daily.at \notin {"risk.assess", "risk.end", "alerts.load", "alerts.end", "delivery.next",
                         "delivery.end", "end"}
    BY <1>1 DEF FromRisk, FromAlerts, FromDelivery
<1> QED BY <1>1, <1>2, <1>3 DEF DailyInv, DailyTypes, FailureIsTold, RiskIsSeen, AlertsAreSeen,
                                DeliveryIsSeen, At

LEMMA DailyCrashes ==
    ASSUME HistoryInv, DailyInv, DailyCrash
    PROVE  HistoryInv' /\ DailyInv' /\ OnlySessionOf(DailyRun) /\ Beside
<1>1. /\ UNCHANGED databaseVars /\ sender' = sender /\ arrived' = arrived
      /\ daily' = [NewDaily EXCEPT !.at = "crashed"]
    BY DEF DailyCrash
<1>2. HistoryInv' /\ OnlySessionOf(DailyRun) /\ Beside
    BY <1>1 DEF databaseVars, Beside, HistoryInv, HistoryTellsResults, DatabaseTypeOK, OnlySessionOf
<1>3. /\ sender' \in BOOLEAN
      /\ \A m \in arrived' : m.tutor \in RecipientsOf(m.student)' /\ m.chunk \in 1..ChunksOf(m.type)
    BY <1>1, <1>2, JudgementsStay DEF DailyInv, DailyTypes, DailyTypeOK, RecipientsOf
<1>4. DailyIsFresh'
    BY <1>1, <1>3 DEF DailyIsFresh
<1>5. DailyIsFresh' => DailyInv'
    BY DailyKnowsNothing, PTL
<1> QED BY <1>2, <1>4, <1>5

(* The invariant of the daily run depends on no student's status.          *)
LEMMA DailyUnmoved ==
    ASSUME DailyInv, UNCHANGED dailyVars, UNCHANGED <<facts, reachable>>,
           session'[DailyRun] = session[DailyRun] \/ daily.at = "off"
    PROVE  DailyInv'
<1>1. daily' = daily /\ sender' = sender /\ arrived' = arrived /\ Beside
    BY DEF dailyVars, Beside
<1>2. DailyTypes'
  <2>1. DailyTypeOK'
      BY <1>1, DailyTypesStay DEF DailyInv, DailyTypes, DailyTypeOK
  <2> QED BY <1>1, <2>1 DEF DailyInv, DailyTypes
<1>3. FailureIsTold'
    BY <1>1 DEF DailyInv, FailureIsTold, At, Speaks, Full, Aborted
<1>4. RiskIsSeen' /\ AlertsAreSeen' /\ DeliveryIsSeen'
    BY <1>1, JudgementsStay DEF DailyInv, RiskIsSeen, AlertsAreSeen, DeliveryIsSeen, At, Full
<1> QED BY <1>2, <1>3, <1>4 DEF DailyInv

LEMMA StatusesChange ==
    ASSUME HistoryInv, DailyInv, StatusChanges
    PROVE  HistoryInv' /\ DailyInv' /\ OnlySessionOf(DailyRun) /\ Beside
<1>1. /\ UNCHANGED dailyVars /\ UNCHANGED <<facts, reachable, session, log, outcome, unwritten>>
      /\ active' \subseteq StudentIds
    BY DEF StatusChanges
<1>2. HistoryInv' /\ OnlySessionOf(DailyRun) /\ Beside
    BY <1>1 DEF dailyVars, Beside, HistoryInv, HistoryTellsResults, DatabaseTypeOK, OnlySessionOf
<1> QED BY <1>1, <1>2, DailyUnmoved

(* Each step of the daily run.                                             *)
LEMMA DailySteps ==
    ASSUME HistoryInv, DailyInv, DailyNext
    PROVE  /\ HistoryInv' /\ DailyInv' /\ OnlySessionOf(DailyRun) /\ UNCHANGED <<facts, reachable>>
           /\ daily.at # "off"
<1>1. HistoryInv' /\ DailyInv' /\ OnlySessionOf(DailyRun) /\ Beside
    BY DailyBegins, DailyAssesses, DailyConcludesRisk, DailyTurnsToAlerts, DailyLoads,
       DailyConcludesAlerts, DailyTurnsToDelivery, DailyDelivers, DailyEnds, DailyCrashes,
       StatusesChange DEF DailyNext
<1>2. daily.at # "off"
    BY DEF DailyNext, At, StartDaily, CheckEvents, StartRisk, ListForRisk, AssessNext, ConcludeRisk,
           FinishRisk, StartAlerts, ListForAlerts, LoadNext, ConcludeAlerts, FinishAlerts,
           StartDelivery, DeliverNext, ConcludeDelivery, FinishDelivery, FinishDaily, DailyCrash,
           StatusChanges
<1> QED BY <1>1, <1>2 DEF Beside
-----------------------------------------------------------------------------
(* The Monday briefing.                                                    *)

LEMMA ProceedFields ==
    ASSUME DOMAIN monday = MondayFields, NEW at, NEW changes, Proceed(at, changes)
    PROVE  /\ DOMAIN monday' = MondayFields /\ monday'.at = at
           /\ \A x \in MondayFields \ {"at"} :
                 monday'[x] = IF x \in DOMAIN changes THEN changes[x] ELSE monday[x]
BY DEF Proceed, MondayFields

\* What a step of the Monday run leaves alone.
Around == UNCHANGED <<facts, reachable>> /\ mondaySender' = mondaySender

(* What is asked of a briefing stays what it is.                           *)
LEMMA WholeStays ==
    ASSUME UNCHANGED facts
    PROVE  /\ \A s : NeedsAttention(s)' = NeedsAttention(s)
           /\ \A b, todo : Whole(b, todo)' <=> Whole(b, todo)
<1>1. \A s : NeedsAttention(s)' = NeedsAttention(s)
    BY DEF NeedsAttention
<1> QED BY <1>1 DEF Whole

(* An analysis without a warning is one of everything that is stored.      *)
LEMMA AnalysisTells ==
    ASSUME NEW f \in StudentFacts, NEW seen \in {"ects", "none"}, NEW r \in DOMAIN ReadOrder
    PROVE  LET a == AnalyzeStudent(FactsFrom(seen, f), FactsFrom(r, f))
           IN  /\ a.warned \in BOOLEAN /\ a.successful \in BOOLEAN
               /\ r # "none" \/ seen # "none" => a.warned
               /\ r = "none" /\ seen = "none" =>
                      a.requires_attention = AnalyzeStudent(f, f).requires_attention
<1> DEFINE read == FactsFrom(r, f)
           before == FactsFrom(seen, f)
           risk == AssessAvailableEvidence(read)
           progress == GetProgress(before.ects)
           a == AnalyzeStudent(before, read)
<1>1. /\ GetProgress(before.ects).success \in BOOLEAN /\ GetProgress(read.ects).success \in BOOLEAN
      /\ GetStudyRight(read.right).success \in BOOLEAN
      /\ GetUpcomingEvents(read.events).success \in BOOLEAN
      /\ EvaluateStudentMeetings(read.meetings).success \in BOOLEAN
    BY DEF GetProgress, GetStudyRight, GetUpcomingEvents, EvaluateStudentMeetings, Unsuccessful,
           NoEvaluation, Evaluation
<1>2. /\ a.warned = (~progress.success \/ ~risk.success \/ risk.unavailable # {})
      /\ a.successful = (progress.success \/ risk.success)
      /\ a.requires_attention = (risk.factors # {})
    BY DEF AnalyzeStudent
<1>3. /\ risk.success \in BOOLEAN
      /\ risk.unavailable = (IF GetProgress(read.ects).success THEN {} ELSE {"progress"})
                            \cup (IF GetStudyRight(read.right).success THEN {} ELSE {"study_right"})
                            \cup (IF GetUpcomingEvents(read.events).success THEN {}
                                  ELSE {"academic_events"})
                            \cup (IF EvaluateStudentMeetings(read.meetings).success THEN {}
                                  ELSE {"tutor_meetings"})
    BY DEF AssessAvailableEvidence
<1>4. CASE r # "none"
  <2>1. /\ r \in {"ects", "right", "events", "meetings"} /\ read.meetings.read = "raises"
        /\ r = "ects" => read.ects.read = "raises"
      BY <1>4 DEF FactsFrom, ReadOrder, StudentFacts
  <2>2. ~EvaluateStudentMeetings(read.meetings).success
      BY <2>1 DEF EvaluateStudentMeetings, NoEvaluation
  <2>3. risk.unavailable # {}
      BY <1>3, <2>2
  <2> QED BY <1>1, <1>2, <1>3, <1>4, <2>3
<1>5. CASE seen # "none"
  <2>1. before.ects.read = "raises"
      BY <1>5 DEF FactsFrom, ReadOrder, StudentFacts
  <2>2. ~progress.success
      BY <2>1 DEF GetProgress, Unsuccessful
  <2>3. a.warned
      BY <1>2, <2>2
  <2> QED BY <1>1, <1>2, <1>3, <1>5, <2>3
<1>6. CASE r = "none" /\ seen = "none"
  <2>1. /\ read.ects = f.ects /\ read.right = f.right /\ read.events = f.events
        /\ read.meetings = f.meetings
      BY <1>6 DEF FactsFrom, ReadOrder, StudentFacts
  <2>2. AssessAvailableEvidence(read) = AssessAvailableEvidence(f)
      BY <2>1 DEF AssessAvailableEvidence
  <2>3. AnalyzeStudent(f, f).requires_attention = (AssessAvailableEvidence(f).factors # {})
      BY DEF AnalyzeStudent
  <2> QED BY <1>1, <1>2, <1>3, <1>6, <2>2, <2>3
<1> QED BY <1>4, <1>5, <1>6

(* The statuses of the Monday run say what its briefings say.              *)
LEMMA AnalysisStatusTells ==
    /\ AnalysisStatus \in {"completed", "partial", "failed"}
    /\ AnalysisStatus = "completed" =>
           \A b \in monday.briefings : ~b.warned /\ b.delivery # "NO_DESTINATION"
BY DEF AnalysisStatus

(* The steps up to the first briefing.                                     *)
LEMMA MondayBegins ==
    ASSUME HistoryInv, MondayInv, StartMonday \/ LoadUpcomingEvents \/ ListActiveTutors
    PROVE  HistoryInv' /\ MondayInv' /\ OnlySessionOf(MondayRun) /\ Around
<1>0. DOMAIN monday = MondayFields /\ DatabaseTypeOK
    BY DEF HistoryInv, MondayInv, MondayTypes
<1>1. HistoryInv' /\ OnlySessionOf(MondayRun) /\ Around /\ received' = received
  <2>1. CASE StartMonday
      BY <2>1, StartKeepsHistory, MondayRunAssumption DEF StartMonday, Around, Workflows
  <2>2. CASE LoadUpcomingEvents
      BY <1>0, <2>2, KindsOfReads, ReadsKeepHistory, MondayRunAssumption
         DEF LoadUpcomingEvents, MondayReads, Around
  <2>3. CASE ListActiveTutors
      BY <1>0, <2>3, KindsOfReads, ReadsKeepHistory, MondayRunAssumption
         DEF ListActiveTutors, MondayReads, Around
  <2> QED BY <2>1, <2>2, <2>3
<1>2. /\ DOMAIN monday' = MondayFields /\ monday.at \in {"start", "events", "tutors"}
      /\ \A x \in MondayFields \ {"at", "eventsMissing", "tutors", "status"} : monday'[x] = monday[x]
      /\ monday'.eventsMissing \in BOOLEAN /\ monday'.tutors \in {monday.tutors, Tutors}
      /\ \/ monday'.at = "events"
         \/ monday'.at = "tutors" /\ (monday'.eventsMissing => Aborted(MondayRun)')
         \/ /\ monday'.at = "assigned" /\ monday'.tutors = Tutors
            /\ ~monday'.eventsMissing /\ ~Aborted(MondayRun)'
         \/ monday'.at = "end" /\ monday'.status = "failed"
  <2>0. monday.eventsMissing \in BOOLEAN
      BY DEF MondayInv, MondayTypes
  <2>1. CASE StartMonday
    <3>1. /\ monday.at = "start" /\ monday'.at = "events" /\ DOMAIN monday' = MondayFields
          /\ \A x \in MondayFields \ {"at", "status"} : monday'[x] = monday[x]
        BY <1>0, <2>1, ProceedFields DEF StartMonday, MondayFields
    <3> QED BY <2>0, <3>1 DEF MondayFields
  <2>2. CASE LoadUpcomingEvents
    <3>1. CASE StatementSucceeds(MondayRun) /\ Proceed("tutors", [eventsMissing |-> FALSE])
      <4>1. /\ monday.at = "events" /\ monday'.at = "tutors" /\ DOMAIN monday' = MondayFields
            /\ \A x \in MondayFields \ {"at", "eventsMissing"} : monday'[x] = monday[x]
            /\ monday'.eventsMissing = FALSE
          BY <1>0, <2>2, <3>1, ProceedFields DEF LoadUpcomingEvents, MondayFields
      <4> QED BY <4>1 DEF MondayFields
    <3>2. CASE StatementFails(MondayRun) /\ Proceed("tutors", [eventsMissing |-> TRUE])
      <4>1. /\ monday.at = "events" /\ monday'.at = "tutors" /\ DOMAIN monday' = MondayFields
            /\ \A x \in MondayFields \ {"at", "eventsMissing"} : monday'[x] = monday[x]
            /\ monday'.eventsMissing = TRUE
          BY <1>0, <2>2, <3>2, ProceedFields DEF LoadUpcomingEvents, MondayFields
      <4>2. Aborted(MondayRun)'
          BY <1>0, <2>2, <3>2, KindsOfReads, MondayRunAssumption DEF LoadUpcomingEvents, MondayReads
      <4> QED BY <4>1, <4>2 DEF MondayFields
    <3> QED BY <2>2, <3>1, <3>2 DEF LoadUpcomingEvents
  <2>3. CASE ListActiveTutors
    <3>1. CASE StatementSucceeds(MondayRun) /\ Proceed("assigned", [tutors |-> Tutors])
      <4>1. /\ monday.at = "tutors" /\ monday'.at = "assigned" /\ DOMAIN monday' = MondayFields
            /\ \A x \in MondayFields \ {"at", "tutors"} : monday'[x] = monday[x]
            /\ monday'.tutors = Tutors
          BY <1>0, <2>3, <3>1, ProceedFields DEF ListActiveTutors, MondayFields
      <4>2. ~Aborted(MondayRun) /\ ~Aborted(MondayRun)'
          BY <1>0, <2>3, <3>1, KindsOfReads, MondayRunAssumption DEF ListActiveTutors, MondayReads
      <4>3. ~monday.eventsMissing
          BY <4>1, <4>2 DEF MondayInv, WarningsTell
      <4> QED BY <2>0, <4>1, <4>2, <4>3 DEF MondayFields
    <3>2. CASE StatementFails(MondayRun) /\ Proceed("end", [status |-> "failed"])
      <4>1. /\ monday.at = "tutors" /\ monday'.at = "end" /\ DOMAIN monday' = MondayFields
            /\ \A x \in MondayFields \ {"at", "status"} : monday'[x] = monday[x]
            /\ monday'.status = "failed"
          BY <1>0, <2>3, <3>2, ProceedFields DEF ListActiveTutors, MondayFields
      <4> QED BY <2>0, <4>1 DEF MondayFields
    <3> QED BY <2>3, <3>1, <3>2 DEF ListActiveTutors
  <2> QED BY <2>1, <2>2, <2>3
<1>3. monday'.briefings = monday.briefings /\ monday'.briefing = monday.briefing
      /\ monday'.todo = monday.todo
    BY <1>2 DEF MondayFields
<1>4. MondayTypes'
  <2>1. /\ monday'.at \in MondayStages /\ monday'.at # "analyze"
        /\ monday'.tutors \subseteq Tutors
      BY <1>2 DEF MondayStages, MondayInv, MondayTypes, MondayTypeOK
  <2> QED BY <1>1, <1>2, <1>3, <2>1 DEF MondayInv, MondayTypes, MondayTypeOK, Around
<1>5. WarningsTell'
  <2>1. ~monday.briefing.warned /\ monday.briefings = {}
      BY <1>2 DEF MondayInv, WarningsTell
  <2> QED BY <1>2, <1>3, <2>1 DEF WarningsTell, Speaks, FinalStatuses
<1>6. BriefingsTell'
  <2>1. monday.briefings = {}
      BY <1>2 DEF MondayInv, WarningsTell
  <2>2. monday'.at # "analyze"
      BY <1>2
  <2> QED BY <1>2, <1>3, <2>1, <2>2 DEF BriefingsTell
<1> QED BY <1>1, <1>4, <1>5, <1>6 DEF MondayInv

(* A briefing is begun: whole so far, or with a warning.                   *)
LEMMA MondayLists ==
    ASSUME HistoryInv, MondayInv, ListStudents
    PROVE  HistoryInv' /\ MondayInv' /\ OnlySessionOf(MondayRun) /\ Around
<1> DEFINE tutor == CHOOSE t \in monday.tutors : TRUE
           begun == [NoBriefing EXCEPT !.tutor = tutor, !.warned = monday.eventsMissing]
           full == [begun EXCEPT !.students = AssignedTo[tutor]]
           warned == [begun EXCEPT !.warned = TRUE]
<1>0. /\ DOMAIN monday = MondayFields /\ DatabaseTypeOK /\ monday.at = "assigned"
      /\ monday.tutors # {} /\ ReadsOnly /\ mondaySender' = mondaySender /\ received' = received
      /\ \/ /\ StatementSucceeds(MondayRun)
            /\ Proceed("analyze", [tutors |-> monday.tutors \ {tutor}, todo |-> AssignedTo[tutor],
                                   briefing |-> full])
         \/ /\ StatementFails(MondayRun)
            /\ Proceed("analyze", [tutors |-> monday.tutors \ {tutor}, todo |-> {},
                                   briefing |-> warned])
    BY DEF HistoryInv, MondayInv, MondayTypes, ListStudents, MondayReads
<1>1. tutor \in monday.tutors /\ tutor \in Tutors /\ AssignedTo[tutor] \subseteq StudentIds
    BY <1>0, TutorsAssumption DEF MondayInv, MondayTypes, MondayTypeOK
<1>2. ~monday.eventsMissing /\ ~monday.briefing.warned
    BY <1>0 DEF MondayInv, WarningsTell
<1>3. /\ DOMAIN full = BriefingFields /\ DOMAIN warned = BriefingFields
      /\ full.tutor = tutor /\ warned.tutor = tutor
      /\ full.students = AssignedTo[tutor] /\ warned.students = {}
      /\ full.priority = {} /\ warned.priority = {} /\ full.failed = {} /\ warned.failed = {}
      /\ full.warned = FALSE /\ warned.warned = TRUE
    BY <1>2 DEF NoBriefing, BriefingFields, MondayInv, MondayTypes
<1> HIDE DEF tutor, begun, full, warned
<1>4. HistoryInv' /\ OnlySessionOf(MondayRun) /\ Around /\ received' = received
      /\ (Aborted(MondayRun) => Aborted(MondayRun)')
    BY <1>0, KindsOfReads, ReadsKeepHistory, MondayRunAssumption DEF Around
<1>5. /\ DOMAIN monday' = MondayFields /\ monday'.at = "analyze"
      /\ \A x \in MondayFields \ {"at", "tutors", "todo", "briefing"} : monday'[x] = monday[x]
      /\ monday'.tutors = monday.tutors \ {tutor}
      /\ \/ monday'.todo = AssignedTo[tutor] /\ monday'.briefing = full /\ ~Aborted(MondayRun)'
         \/ monday'.todo = {} /\ monday'.briefing = warned
  <2>1. CASE /\ StatementSucceeds(MondayRun)
             /\ Proceed("analyze", [tutors |-> monday.tutors \ {tutor}, todo |-> AssignedTo[tutor],
                                    briefing |-> full])
    <3>1. ~Aborted(MondayRun)'
        BY <1>0, <2>1, KindsOfReads, MondayRunAssumption
    <3> QED BY <1>0, <2>1, <3>1, ProceedFields DEF MondayFields
  <2>2. CASE Proceed("analyze", [tutors |-> monday.tutors \ {tutor}, todo |-> {},
                                 briefing |-> warned])
      BY <1>0, <2>2, ProceedFields DEF MondayFields
  <2> QED BY <1>0, <2>1, <2>2
<1>6. monday'.briefings = monday.briefings /\ monday'.eventsMissing = monday.eventsMissing
    BY <1>5 DEF MondayFields
<1>7. MondayTypes'
  <2>1. MondayTypeOK'
      BY <1>1, <1>4, <1>5, <1>6 DEF MondayStages, MondayInv, MondayTypes, MondayTypeOK, Around
  <2>2. DOMAIN monday'.briefing = BriefingFields /\ monday'.briefing.warned \in BOOLEAN
      BY <1>3, <1>5
  <2>3. /\ monday'.briefing.tutor \in Tutors /\ monday'.todo \subseteq monday'.briefing.students
        /\ monday'.briefing.failed \cup monday'.briefing.priority \subseteq monday'.briefing.students
      BY <1>1, <1>3, <1>5
  <2>4. \A b \in monday'.briefings : b.delivery = "NOT_SENT" => b.tutor \in reachable'
      BY <1>4, <1>6 DEF MondayInv, MondayTypes, Around
  <2> QED BY <1>5, <1>6, <2>1, <2>2, <2>3, <2>4 DEF MondayInv, MondayTypes
<1>8. WarningsTell'
  <2>1. Aborted(MondayRun)' => monday'.briefing.warned
      BY <1>3, <1>5
  <2> QED BY <1>2, <1>5, <1>6, <2>1 DEF WarningsTell
<1>9. BriefingsTell'
  <2>1. (~monday.briefing.warned => Whole(monday.briefing, monday.todo))'
    <3>1. CASE monday'.todo = AssignedTo[tutor] /\ monday'.briefing = full
        BY <1>3, <3>1 DEF Whole
    <3> QED BY <1>3, <1>5, <3>1
  <2>2. \A b \in monday'.briefings : ~b.warned => Whole(b, {})'
    <3>1. \A b \in monday.briefings : ~b.warned => Whole(b, {})
        BY DEF MondayInv, BriefingsTell
    <3>2. \A b : Whole(b, {})' <=> Whole(b, {})
        BY <1>4, WholeStays DEF Around
    <3> QED BY <1>6, <3>1, <3>2
  <2>3. \A t \in Tutors : t \in monday'.tutors \/ t = monday'.briefing.tutor \/ Written(t)'
    <3>1. monday'.briefing.tutor = tutor
        BY <1>3, <1>5
    <3>2. \A t \in Tutors : t \in monday.tutors \/ Written(t)
        BY <1>0 DEF MondayInv, BriefingsTell
    <3>3. \A t : Written(t)' <=> Written(t)
        BY <1>6 DEF Written
    <3> QED BY <1>5, <3>1, <3>2, <3>3
  <2>4. \A b \in monday'.briefings : b.delivery \in {"NOT_SENT", "NO_DESTINATION"}
      BY <1>0, <1>6 DEF MondayInv, BriefingsTell
  <2> QED BY <1>5, <2>1, <2>2, <2>3, <2>4 DEF BriefingsTell
<1> QED BY <1>4, <1>7, <1>8, <1>9 DEF MondayInv

(* One student is analysed.                                                *)
LEMMA MondayAnalyzes ==
    ASSUME HistoryInv, MondayInv, AnalyzeNext
    PROVE  HistoryInv' /\ MondayInv' /\ OnlySessionOf(MondayRun) /\ Around
<1> DEFINE b == monday.briefing
           s == CHOOSE x \in monday.todo : \A y \in monday.todo : x <= y
           Analysis(seen, r) == AnalyzeStudent(FactsFrom(seen, facts[s]), FactsFrom(r, facts[s]))
           After(a) == [b EXCEPT !.warned = @ \/ a.warned \/ ~a.successful,
                                 !.failed = IF a.successful THEN @ ELSE @ \cup {s},
                                 !.priority = IF a.requires_attention THEN @ \cup {s} ELSE @]
<1>0. /\ DOMAIN monday = MondayFields /\ DatabaseTypeOK /\ monday.at = "analyze"
      /\ monday.todo # {} /\ ReadsOnly /\ mondaySender' = mondaySender /\ received' = received
      /\ DOMAIN b = BriefingFields /\ b.warned \in BOOLEAN
      /\ b.tutor \in Tutors /\ monday.todo \subseteq b.students
      /\ b.failed \cup b.priority \subseteq b.students
      /\ monday.todo \in SUBSET StudentIds
    BY DEF HistoryInv, MondayInv, MondayTypes, MondayTypeOK, AnalyzeNext, MondayReads
<1>1. s \in monday.todo /\ s \in StudentIds
    BY <1>0, FirstIsOne DEF First
<1>2. PICK seen \in {"ects", "none"}, r \in DOMAIN ReadOrder :
         /\ seen = "ects" => r = "ects"
         /\ ReadsFail(MondayRun, r)
         /\ Proceed("analyze", [todo |-> monday.todo \ {s}, briefing |-> After(Analysis(seen, r))])
    BY DEF AnalyzeNext
<1> DEFINE a == Analysis(seen, r)
           next == After(a)
<1>3. /\ a.warned \in BOOLEAN /\ a.successful \in BOOLEAN
      /\ r # "none" \/ seen # "none" => a.warned
      /\ r = "none" /\ seen = "none" => a.requires_attention = NeedsAttention(s)
  <2>1. facts[s] \in StudentFacts
      BY <1>0, <1>1, FactsAreTyped
  <2> QED BY <2>1, AnalysisTells DEF NeedsAttention
<1> HIDE DEF Analysis
<1>4. /\ DOMAIN next = BriefingFields /\ next.tutor = b.tutor /\ next.students = b.students
      /\ next.warned = (b.warned \/ a.warned \/ ~a.successful)
      /\ next.failed = (IF a.successful THEN b.failed ELSE b.failed \cup {s})
      /\ next.priority = (IF a.requires_attention THEN b.priority \cup {s} ELSE b.priority)
    BY <1>0 DEF BriefingFields
<1> HIDE DEF next, s, a
<1>5. /\ HistoryInv' /\ OnlySessionOf(MondayRun) /\ Around /\ received' = received
      /\ Aborted(MondayRun)' => Aborted(MondayRun) \/ r # "none"
  <2>1. Reads(MondayRun) /\ (Aborted(MondayRun)' => Aborted(MondayRun) \/ r \in {"ects", "right", "events"})
      BY <1>0, <1>2, KindsOfReads, MondayRunAssumption
  <2> QED BY <1>0, <2>1, ReadsKeepHistory, MondayRunAssumption DEF Around
<1>6. /\ DOMAIN monday' = MondayFields /\ monday'.at = "analyze"
      /\ \A x \in MondayFields \ {"at", "todo", "briefing"} : monday'[x] = monday[x]
      /\ monday'.todo = monday.todo \ {s} /\ monday'.briefing = next
  <2>1. Proceed("analyze", [todo |-> monday.todo \ {s}, briefing |-> next])
      BY <1>2 DEF next, a
  <2> QED BY <1>0, <2>1, ProceedFields DEF MondayFields
<1>7. /\ monday'.briefings = monday.briefings /\ monday'.eventsMissing = monday.eventsMissing
      /\ monday'.tutors = monday.tutors
    BY <1>6 DEF MondayFields
<1>8. MondayTypes'
  <2>1. MondayTypeOK'
      BY <1>0, <1>5, <1>6, <1>7 DEF MondayStages, MondayInv, MondayTypes, MondayTypeOK, Around
  <2>2. DOMAIN monday'.briefing = BriefingFields /\ monday'.briefing.warned \in BOOLEAN
      BY <1>0, <1>3, <1>4, <1>6
  <2>3. /\ monday'.briefing.tutor \in Tutors /\ monday'.todo \subseteq monday'.briefing.students
        /\ monday'.briefing.failed \cup monday'.briefing.priority \subseteq monday'.briefing.students
      BY <1>0, <1>1, <1>4, <1>6
  <2>4. \A c \in monday'.briefings : c.delivery = "NOT_SENT" => c.tutor \in reachable'
      BY <1>5, <1>7 DEF MondayInv, MondayTypes, Around
  <2> QED BY <1>6, <1>7, <2>1, <2>2, <2>3, <2>4 DEF MondayInv, MondayTypes
<1>9. WarningsTell'
  <2>1. Aborted(MondayRun)' => monday'.briefing.warned \/ \E c \in monday'.briefings : c.warned
    <3>1. Aborted(MondayRun) => b.warned \/ \E c \in monday.briefings : c.warned
        BY <1>0 DEF MondayInv, WarningsTell
    <3> QED BY <1>3, <1>4, <1>5, <1>6, <1>7, <3>1
  <2>2. ~monday.eventsMissing
      BY <1>0 DEF MondayInv, WarningsTell
  <2> QED BY <1>6, <1>7, <2>1, <2>2 DEF WarningsTell
<1>10. BriefingsTell'
  <2>0. \A c, todo : Whole(c, todo)' <=> Whole(c, todo)
      BY <1>5, WholeStays DEF Around
  <2>1. ~next.warned => Whole(next, monday.todo \ {s})
    <3> SUFFICES ASSUME ~next.warned PROVE Whole(next, monday.todo \ {s})
        OBVIOUS
    <3>1. ~b.warned /\ ~a.warned
        BY <1>0, <1>3, <1>4
    <3>2. r = "none" /\ seen = "none" /\ a.requires_attention = NeedsAttention(s)
        BY <1>3, <3>1
    <3>3. /\ b.students = AssignedTo[b.tutor]
          /\ b.priority = {x \in b.students \ monday.todo : NeedsAttention(x)}
        BY <1>0, <3>1 DEF MondayInv, BriefingsTell, Whole
    <3>4. next.priority = {x \in b.students \ (monday.todo \ {s}) : NeedsAttention(x)}
      <4>1. CASE a.requires_attention
          BY <1>0, <1>1, <1>4, <3>2, <3>3, <4>1
      <4>2. CASE ~a.requires_attention
          BY <1>0, <1>1, <1>4, <3>2, <3>3, <4>2
      <4> QED BY <4>1, <4>2
    <3> QED BY <1>4, <3>3, <3>4 DEF Whole
  <2>2. (~monday.briefing.warned => Whole(monday.briefing, monday.todo))'
      BY <1>6, <2>0, <2>1
  <2>3. \A c \in monday'.briefings : ~c.warned => Whole(c, {})'
    <3>1. \A c \in monday.briefings : ~c.warned => Whole(c, {})
        BY DEF MondayInv, BriefingsTell
    <3> QED BY <1>7, <2>0, <3>1
  <2>4. \A t \in Tutors : t \in monday'.tutors \/ t = monday'.briefing.tutor \/ Written(t)'
    <3>1. \A t \in Tutors : t \in monday.tutors \/ t = b.tutor \/ Written(t)
        BY <1>0 DEF MondayInv, BriefingsTell
    <3>2. \A t : Written(t)' <=> Written(t)
        BY <1>7 DEF Written
    <3> QED BY <1>4, <1>6, <1>7, <3>1, <3>2
  <2>5. \A c \in monday'.briefings : c.delivery \in {"NOT_SENT", "NO_DESTINATION"}
      BY <1>0, <1>7 DEF MondayInv, BriefingsTell
  <2> QED BY <1>6, <2>2, <2>3, <2>4, <2>5 DEF BriefingsTell
<1> QED BY <1>5, <1>8, <1>9, <1>10 DEF MondayInv

(* A briefing is rendered and joins the others.                            *)
LEMMA MondayRenders ==
    ASSUME HistoryInv, MondayInv, RenderBriefing
    PROVE  HistoryInv' /\ MondayInv' /\ OnlySessionOf(MondayRun) /\ Around
<1> DEFINE b == monday.briefing
           ready == [b EXCEPT !.delivery = IF b.tutor \in reachable THEN "NOT_SENT"
                                           ELSE "NO_DESTINATION"]
<1>0. /\ DOMAIN monday = MondayFields /\ monday.at = "analyze" /\ monday.todo = {}
      /\ UNCHANGED databaseVars /\ mondaySender' = mondaySender /\ received' = received
      /\ Proceed("assigned", [briefings |-> monday.briefings \cup {ready},
                              briefing |-> NoBriefing])
      /\ DOMAIN b = BriefingFields /\ b.warned \in BOOLEAN
      /\ b.tutor \in Tutors /\ b.failed \cup b.priority \subseteq b.students
    BY DEF MondayInv, MondayTypes, RenderBriefing
<1>1. /\ DOMAIN ready = BriefingFields /\ ready.tutor = b.tutor /\ ready.students = b.students
      /\ ready.priority = b.priority /\ ready.failed = b.failed /\ ready.warned = b.warned
      /\ ready.delivery \in {"NOT_SENT", "NO_DESTINATION"}
      /\ ready.delivery = "NOT_SENT" => b.tutor \in reachable
    BY <1>0 DEF BriefingFields
<1> HIDE DEF ready
<1>2. /\ DOMAIN monday' = MondayFields /\ monday'.at = "assigned"
      /\ \A x \in MondayFields \ {"at", "briefings", "briefing"} : monday'[x] = monday[x]
      /\ monday'.briefings = monday.briefings \cup {ready} /\ monday'.briefing = NoBriefing
    BY <1>0, ProceedFields DEF MondayFields
<1>3. /\ monday'.todo = monday.todo /\ monday'.eventsMissing = monday.eventsMissing
      /\ monday'.tutors = monday.tutors
    BY <1>2 DEF MondayFields
<1>4. HistoryInv' /\ OnlySessionOf(MondayRun) /\ Around /\ (Aborted(MondayRun)' <=> Aborted(MondayRun))
    BY <1>0 DEF databaseVars, HistoryInv, HistoryTellsResults, DatabaseTypeOK, OnlySessionOf, Around,
                Aborted
<1>5. DOMAIN NoBriefing = BriefingFields /\ NoBriefing.warned = FALSE
    BY DEF NoBriefing, BriefingFields
<1>6. MondayTypes'
  <2>1. \A c \in monday'.briefings :
            /\ c.tutor \in Tutors /\ c.failed \cup c.priority \subseteq c.students
            /\ c.delivery \in {"NOT_SENT", "NO_DESTINATION", "UNAVAILABLE", "DELIVERED", "FAILED"}
      BY <1>0, <1>1, <1>2 DEF MondayInv, MondayTypes, MondayTypeOK
  <2>2. MondayTypeOK'
      BY <1>0, <1>2, <1>3, <1>4, <2>1 DEF MondayStages, MondayInv, MondayTypes, MondayTypeOK, Around
  <2>3. \A c \in monday'.briefings \cup {monday'.briefing} :
            DOMAIN c = BriefingFields /\ c.warned \in BOOLEAN
      BY <1>0, <1>1, <1>2, <1>5 DEF MondayInv, MondayTypes
  <2>4. \A c \in monday'.briefings : c.delivery = "NOT_SENT" => c.tutor \in reachable'
      BY <1>1, <1>2, <1>4 DEF MondayInv, MondayTypes, Around
  <2>5. monday'.eventsMissing \in BOOLEAN
      BY <1>3 DEF MondayInv, MondayTypes
  <2> QED BY <1>2, <2>2, <2>3, <2>4, <2>5 DEF MondayTypes
<1>7. WarningsTell'
  <2>1. ~monday.eventsMissing
      BY <1>0 DEF MondayInv, WarningsTell
  <2>2. Aborted(MondayRun) => b.warned \/ \E c \in monday.briefings : c.warned
      BY <1>0 DEF MondayInv, WarningsTell
  <2>3. Aborted(MondayRun)' => \E c \in monday'.briefings : c.warned
      BY <1>1, <1>2, <1>4, <2>2
  <2> QED BY <1>2, <1>3, <1>5, <2>1, <2>3 DEF WarningsTell
<1>8. BriefingsTell'
  <2>0. \A c, todo : Whole(c, todo)' <=> Whole(c, todo)
      BY <1>4, WholeStays DEF Around
  <2>1. ~ready.warned => Whole(ready, {})
      BY <1>0, <1>1 DEF MondayInv, BriefingsTell, Whole
  <2>2. \A c \in monday'.briefings : ~c.warned => Whole(c, {})'
    <3>1. \A c \in monday.briefings : ~c.warned => Whole(c, {})
        BY DEF MondayInv, BriefingsTell
    <3> QED BY <1>2, <2>0, <2>1, <3>1
  <2>3. \A t \in Tutors : t \in monday'.tutors \/ Written(t)'
    <3>1. \A t \in Tutors : t \in monday.tutors \/ t = b.tutor \/ Written(t)
        BY <1>0 DEF MondayInv, BriefingsTell
    <3>2. \A t : Written(t) \/ t = b.tutor => Written(t)'
        BY <1>1, <1>2 DEF Written
    <3> QED BY <1>3, <3>1, <3>2
  <2>4. \A c \in monday'.briefings : c.delivery \in {"NOT_SENT", "NO_DESTINATION"}
      BY <1>0, <1>1, <1>2 DEF MondayInv, BriefingsTell
  <2> QED BY <1>2, <2>2, <2>3, <2>4 DEF BriefingsTell
<1> QED BY <1>4, <1>6, <1>7, <1>8 DEF MondayInv

(* All briefings are there: the run is given its status, or fails, or ends *)
(* as it stands after the deliveries.                                      *)
LEMMA MondayConcludes ==
    ASSUME HistoryInv, MondayInv, ConcludeAnalysis \/ ConcludeBriefings
    PROVE  HistoryInv' /\ MondayInv' /\ OnlySessionOf(MondayRun) /\ Around
<1> DEFINE status == IF Tutors = {} THEN "completed" ELSE AnalysisStatus
<1>0. /\ DOMAIN monday = MondayFields
      /\ UNCHANGED databaseVars /\ mondaySender' = mondaySender /\ received' = received
    BY DEF MondayInv, MondayTypes, ConcludeAnalysis, ConcludeBriefings
<1>1. HistoryInv' /\ OnlySessionOf(MondayRun) /\ Around /\ (Aborted(MondayRun)' <=> Aborted(MondayRun))
    BY <1>0 DEF databaseVars, HistoryInv, HistoryTellsResults, DatabaseTypeOK, OnlySessionOf, Around,
                Aborted
<1>2. /\ DOMAIN monday' = MondayFields
      /\ \A x \in MondayFields \ {"at", "status"} : monday'[x] = monday[x]
      /\ \/ /\ monday.at = "assigned" /\ monday.tutors = {} /\ monday'.status = status
            /\ monday'.at = (IF status = "failed" THEN "end" ELSE "deliver")
         \/ /\ monday.at = "deliver" /\ \A b \in monday.briefings : b.delivery # "NOT_SENT"
            /\ monday'.at = "end" /\ monday'.status = monday.status
  <2>1. CASE ConcludeAnalysis
    <3>1. /\ monday.at = "assigned" /\ monday.tutors = {}
          /\ Proceed(IF status = "failed" THEN "end" ELSE "deliver", [status |-> status])
        BY <2>1 DEF ConcludeAnalysis
    <3> HIDE DEF status
    <3> QED BY <1>0, <3>1, ProceedFields DEF MondayFields
  <2>2. CASE ConcludeBriefings
      BY <1>0, <2>2, ProceedFields DEF ConcludeBriefings, MondayFields
  <2> QED BY <2>1, <2>2
<1>3. /\ monday'.briefings = monday.briefings /\ monday'.briefing = monday.briefing
      /\ monday'.todo = monday.todo /\ monday'.eventsMissing = monday.eventsMissing
      /\ monday'.tutors = monday.tutors
    BY <1>2 DEF MondayFields
<1>4. Tutors = {} => monday.briefings = {}
    BY DEF MondayInv, MondayTypes, MondayTypeOK
<1>5. /\ status \in {"completed", "partial", "failed"}
      /\ status = "completed" => \A b \in monday.briefings : ~b.warned /\ b.delivery # "NO_DESTINATION"
    BY <1>4, AnalysisStatusTells
<1> HIDE DEF status
<1>6. monday.at \in {"assigned", "deliver"} /\ monday'.at \in {"deliver", "end"}
    BY <1>2
<1>7. MondayTypes'
  <2>1. monday'.at \in MondayStages /\ monday'.at # "analyze"
      BY <1>6 DEF MondayStages
  <2> QED BY <1>0, <1>1, <1>2, <1>3, <2>1 DEF MondayInv, MondayTypes, MondayTypeOK, Around
<1>8. WarningsTell'
  <2>1. CASE monday.at = "assigned"
    <3>1. Aborted(MondayRun) => \E b \in monday.briefings : b.warned
        BY <2>1 DEF MondayInv, WarningsTell
    <3>2. monday'.status = status
        BY <1>2, <2>1
    <3>3. Speaks(monday.status, MondayRun)'
        BY <1>1, <1>5, <3>1, <3>2 DEF Speaks, FinalStatuses
    <3> QED BY <1>6, <3>3 DEF WarningsTell
  <2>2. CASE monday.at = "deliver"
    <3>1. Speaks(monday.status, MondayRun) /\ monday'.status = monday.status
        BY <1>2, <2>2 DEF MondayInv, WarningsTell
    <3>2. Speaks(monday.status, MondayRun)'
        BY <1>1, <3>1 DEF Speaks
    <3> QED BY <1>6, <3>2 DEF WarningsTell
  <2> QED BY <1>6, <2>1, <2>2
<1>9. BriefingsTell'
  <2>1. \A b \in monday'.briefings : ~b.warned => Whole(b, {})'
    <3>1. \A b \in monday.briefings : ~b.warned => Whole(b, {})
        BY DEF MondayInv, BriefingsTell
    <3>2. \A b, todo : Whole(b, todo)' <=> Whole(b, todo)
        BY <1>1, WholeStays DEF Around
    <3> QED BY <1>3, <3>1, <3>2
  <2>2. \A t : Written(t)' <=> Written(t)
      BY <1>3 DEF Written
  <2>3. ASSUME monday'.status = "completed"
        PROVE  /\ \A t \in Tutors : Written(t)
               /\ \A b \in monday.briefings :
                      /\ ~b.warned
                      /\ b.delivery = "NOT_SENT" \/ b.tutor \in received
                      /\ monday'.at # "deliver" => b.delivery # "NOT_SENT"
    <3>1. CASE monday.at = "assigned"
      <4>1. status = "completed" /\ monday.tutors = {} /\ monday'.at = "deliver"
          BY <1>2, <2>3, <3>1
      <4>2. /\ \A t \in Tutors : Written(t)
            /\ \A b \in monday.briefings : b.delivery \in {"NOT_SENT", "NO_DESTINATION"}
          BY <3>1, <4>1 DEF MondayInv, BriefingsTell
      <4> QED BY <1>5, <4>1, <4>2
    <3>2. CASE monday.at = "deliver"
      <4>1. /\ monday.status = "completed"
            /\ \A b \in monday.briefings : b.delivery # "NOT_SENT"
          BY <1>2, <2>3, <3>2
      <4> QED BY <3>2, <4>1 DEF MondayInv, BriefingsTell
    <3> QED BY <1>6, <3>1, <3>2
  <2>4. monday'.at \notin {"analyze", "assigned"}
      BY <1>6
  <2> QED BY <1>0, <1>3, <2>1, <2>2, <2>3, <2>4 DEF BriefingsTell
<1> QED BY <1>1, <1>7, <1>8, <1>9 DEF MondayInv

(* One message is sent, or not.                                            *)
LEMMA MondayDelivers ==
    ASSUME HistoryInv, MondayInv, DeliverBriefing
    PROVE  HistoryInv' /\ MondayInv' /\ OnlySessionOf(MondayRun) /\ Around
<1>0. /\ DOMAIN monday = MondayFields /\ monday.at = "deliver"
      /\ UNCHANGED databaseVars /\ mondaySender' = mondaySender
    BY DEF MondayInv, MondayTypes, DeliverBriefing
<1>1. PICK b \in monday.briefings, fate \in {"UNAVAILABLE", "DELIVERED", "FAILED"},
           reached \in BOOLEAN :
         /\ b.delivery = "NOT_SENT" /\ (fate = "DELIVERED" => reached)
         /\ received' = IF reached THEN received \cup {b.tutor} ELSE received
         /\ Proceed("deliver",
                    [briefings |-> (monday.briefings \ {b}) \cup {[b EXCEPT !.delivery = fate]},
                     status |-> StatusAfterDelivery(monday.status, fate)])
    BY DEF DeliverBriefing
<1> DEFINE sent == [b EXCEPT !.delivery = fate]
           status == StatusAfterDelivery(monday.status, fate)
<1>2. /\ DOMAIN b = BriefingFields /\ b.warned \in BOOLEAN /\ b.tutor \in reachable
      /\ b.tutor \in Tutors /\ b.failed \cup b.priority \subseteq b.students
    BY <1>1 DEF MondayInv, MondayTypes, MondayTypeOK
<1>3. /\ DOMAIN sent = BriefingFields /\ sent.tutor = b.tutor /\ sent.students = b.students
      /\ sent.priority = b.priority /\ sent.failed = b.failed /\ sent.warned = b.warned
      /\ sent.delivery = fate
    BY <1>2 DEF BriefingFields
<1>4. /\ Speaks(status, MondayRun)
      /\ status = "completed" => monday.status = "completed" /\ fate = "DELIVERED"
    BY <1>0, <1>1 DEF MondayInv, WarningsTell, StatusAfterDelivery, Speaks, FinalStatuses
<1> HIDE DEF sent, status
<1>5. /\ DOMAIN monday' = MondayFields /\ monday'.at = "deliver"
      /\ \A x \in MondayFields \ {"at", "briefings", "status"} : monday'[x] = monday[x]
      /\ monday'.briefings = (monday.briefings \ {b}) \cup {sent} /\ monday'.status = status
  <2>1. Proceed("deliver", [briefings |-> (monday.briefings \ {b}) \cup {sent}, status |-> status])
      BY <1>1 DEF sent, status
  <2> QED BY <1>0, <2>1, ProceedFields DEF MondayFields
<1>6. /\ monday'.todo = monday.todo /\ monday'.eventsMissing = monday.eventsMissing
      /\ monday'.tutors = monday.tutors /\ monday'.briefing = monday.briefing
    BY <1>5 DEF MondayFields
<1>7. HistoryInv' /\ OnlySessionOf(MondayRun) /\ Around /\ (Aborted(MondayRun)' <=> Aborted(MondayRun))
    BY <1>0 DEF databaseVars, HistoryInv, HistoryTellsResults, DatabaseTypeOK, OnlySessionOf, Around,
                Aborted
<1>8. received \subseteq received' /\ received' \subseteq reachable
    BY <1>1, <1>2 DEF MondayInv, MondayTypes, MondayTypeOK
<1>9. MondayTypes'
  <2>1. \A c \in monday'.briefings :
            /\ c.tutor \in Tutors /\ c.failed \cup c.priority \subseteq c.students
            /\ c.delivery \in {"NOT_SENT", "NO_DESTINATION", "UNAVAILABLE", "DELIVERED", "FAILED"}
      BY <1>1, <1>2, <1>3, <1>5 DEF MondayInv, MondayTypes, MondayTypeOK
  <2>2. MondayTypeOK'
      BY <1>5, <1>6, <1>7, <1>8, <2>1 DEF MondayStages, MondayInv, MondayTypes, MondayTypeOK, Around
  <2>3. \A c \in monday'.briefings \cup {monday'.briefing} :
            DOMAIN c = BriefingFields /\ c.warned \in BOOLEAN
      BY <1>2, <1>3, <1>5, <1>6 DEF MondayInv, MondayTypes
  <2>4. \A c \in monday'.briefings : c.delivery = "NOT_SENT" => c.tutor \in reachable'
      BY <1>2, <1>3, <1>5, <1>7 DEF MondayInv, MondayTypes, Around
  <2>5. monday'.eventsMissing \in BOOLEAN
      BY <1>6 DEF MondayInv, MondayTypes
  <2> QED BY <1>5, <2>2, <2>3, <2>4, <2>5 DEF MondayTypes
<1>10. WarningsTell'
  <2>1. Speaks(monday.status, MondayRun)'
      BY <1>4, <1>5, <1>7 DEF Speaks
  <2> QED BY <1>5, <2>1 DEF WarningsTell
<1>11. BriefingsTell'
  <2>0. \A c, todo : Whole(c, todo)' <=> Whole(c, todo)
      BY <1>7, WholeStays DEF Around
  <2>1. \A c \in monday'.briefings : ~c.warned => Whole(c, {})'
    <3>1. \A c \in monday.briefings : ~c.warned => Whole(c, {})
        BY DEF MondayInv, BriefingsTell
    <3>2. ~sent.warned => Whole(sent, {})
        BY <1>1, <1>3, <3>1 DEF Whole
    <3> QED BY <1>5, <2>0, <3>1, <3>2
  <2>2. \A t : Written(t) => Written(t)'
      BY <1>1, <1>3, <1>5 DEF Written
  <2>3. ASSUME monday'.status = "completed"
        PROVE  /\ \A t \in Tutors : Written(t)'
               /\ \A c \in monday'.briefings :
                      ~c.warned /\ (c.delivery = "NOT_SENT" \/ c.tutor \in received')
    <3>1. monday.status = "completed" /\ fate = "DELIVERED"
        BY <1>4, <1>5, <2>3
    <3>2. /\ \A t \in Tutors : Written(t)
          /\ \A c \in monday.briefings :
                 ~c.warned /\ (c.delivery = "NOT_SENT" \/ c.tutor \in received)
        BY <1>0, <3>1 DEF MondayInv, BriefingsTell
    <3>3. sent.tutor \in received' /\ ~sent.warned
        BY <1>1, <1>3, <3>1, <3>2
    <3> QED BY <1>5, <1>8, <2>2, <3>2, <3>3
  <2> QED BY <1>5, <2>1, <2>3 DEF BriefingsTell
<1> QED BY <1>7, <1>9, <1>10, <1>11 DEF MondayInv

(* The run ends, with its row written or not.                              *)
LEMMA MondayFinishes ==
    ASSUME HistoryInv, MondayInv, FinishMonday
    PROVE  HistoryInv' /\ MondayInv' /\ OnlySessionOf(MondayRun) /\ Around
<1>0. /\ DOMAIN monday = MondayFields /\ monday.at = "end"
      /\ FinishExecution(MondayRun, "monday", monday.status)
      /\ mondaySender' = mondaySender /\ received' = received
    BY DEF MondayInv, MondayTypes, FinishMonday
<1>1. HistoryInv' /\ OnlySessionOf(MondayRun) /\ Around
  <2>1. Speaks(monday.status, MondayRun)
      BY <1>0 DEF MondayInv, WarningsTell
  <2> QED BY <1>0, <2>1, FinishKeepsHistory, MondayRunAssumption DEF Around, Workflows
<1>2. /\ DOMAIN monday' = MondayFields /\ monday'.at = "done"
      /\ \A x \in MondayFields \ {"at"} : monday'[x] = monday[x]
    BY <1>0, ProceedFields DEF FinishMonday, MondayFields
<1>3. /\ monday'.briefings = monday.briefings /\ monday'.briefing = monday.briefing
      /\ monday'.todo = monday.todo /\ monday'.eventsMissing = monday.eventsMissing
      /\ monday'.tutors = monday.tutors /\ monday'.status = monday.status
    BY <1>2 DEF MondayFields
<1>4. MondayTypes'
    BY <1>1, <1>0, <1>2, <1>3 DEF MondayStages, MondayInv, MondayTypes, MondayTypeOK, Around
<1>5. WarningsTell'
    BY <1>2 DEF WarningsTell
<1>6. BriefingsTell'
  <2>1. \A b \in monday'.briefings : ~b.warned => Whole(b, {})'
    <3>1. \A b \in monday.briefings : ~b.warned => Whole(b, {})
        BY DEF MondayInv, BriefingsTell
    <3>2. \A b, todo : Whole(b, todo)' <=> Whole(b, todo)
        BY <1>1, WholeStays DEF Around
    <3> QED BY <1>3, <3>1, <3>2
  <2>2. \A t : Written(t)' <=> Written(t)
      BY <1>3 DEF Written
  <2> QED BY <1>0, <1>2, <1>3, <2>1, <2>2 DEF MondayInv, BriefingsTell
<1> QED BY <1>1, <1>4, <1>5, <1>6 DEF MondayInv

(* A fresh run knows nothing; neither does one that is not explored.       *)
MondayIsFresh ==
    /\ \E at \in {"off", "start", "crashed"} : monday = [NewMonday EXCEPT !.at = at]
    /\ mondaySender \in BOOLEAN /\ received \subseteq reachable

LEMMA MondayKnowsNothing == MondayIsFresh => MondayInv
<1> SUFFICES ASSUME MondayIsFresh PROVE MondayInv
    OBVIOUS
<1>0. PICK at \in {"off", "start", "crashed"} : monday = [NewMonday EXCEPT !.at = at]
    BY DEF MondayIsFresh
<1>1. /\ DOMAIN monday = MondayFields /\ monday.at = at /\ monday.eventsMissing = FALSE
      /\ monday.tutors = {} /\ monday.todo = {} /\ monday.briefings = {}
      /\ monday.briefing = NoBriefing
    BY <1>0 DEF NewMonday, MondayFields
<1>2. DOMAIN NoBriefing = BriefingFields /\ NoBriefing.warned = FALSE
    BY DEF NoBriefing, BriefingFields
<1>3. MondayTypes
    BY <1>1, <1>2 DEF MondayTypes, MondayTypeOK, MondayStages, MondayIsFresh
<1>4. WarningsTell
    BY <1>1, <1>2 DEF WarningsTell
<1>5. BriefingsTell
    BY <1>1 DEF BriefingsTell
<1> QED BY <1>3, <1>4, <1>5 DEF MondayInv

LEMMA MondayCrashes ==
    ASSUME HistoryInv, MondayInv, MondayCrash
    PROVE  HistoryInv' /\ MondayInv' /\ OnlySessionOf(MondayRun) /\ Around
<1>1. /\ UNCHANGED databaseVars /\ mondaySender' = mondaySender /\ received' = received
      /\ monday' = [NewMonday EXCEPT !.at = "crashed"]
    BY DEF MondayCrash
<1>2. HistoryInv' /\ OnlySessionOf(MondayRun) /\ Around
    BY <1>1 DEF databaseVars, Around, HistoryInv, HistoryTellsResults, DatabaseTypeOK, OnlySessionOf
<1>3. mondaySender' \in BOOLEAN /\ received' \subseteq reachable'
    BY <1>1, <1>2 DEF MondayInv, MondayTypes, MondayTypeOK, Around
<1>4. MondayIsFresh'
    BY <1>1, <1>3 DEF MondayIsFresh
<1>5. MondayIsFresh' => MondayInv'
    BY MondayKnowsNothing, PTL
<1> QED BY <1>2, <1>4, <1>5

(* The invariant is about the run, the facts and its own session.          *)
LEMMA MondayUnmoved ==
    ASSUME MondayInv, UNCHANGED mondayVars, UNCHANGED <<facts, reachable>>,
           session'[MondayRun] = session[MondayRun] \/ monday.at = "off"
    PROVE  MondayInv'
<1>1. /\ monday' = monday /\ mondaySender' = mondaySender /\ received' = received
      /\ facts' = facts /\ reachable' = reachable
    BY DEF mondayVars
<1>2. MondayTypes'
    BY <1>1 DEF MondayInv, MondayTypes, MondayTypeOK
<1>3. WarningsTell'
    BY <1>1 DEF MondayInv, WarningsTell, Speaks, Aborted
<1>4. BriefingsTell'
  <2>1. \A b, todo : Whole(b, todo)' <=> Whole(b, todo)
      BY <1>1, WholeStays
  <2>2. \A t : Written(t)' <=> Written(t)
      BY <1>1 DEF Written
  <2>3. /\ \A b \in monday'.briefings : ~b.warned => Whole(b, {})'
        /\ monday'.at = "analyze" =>
               (~monday.briefing.warned => Whole(monday.briefing, monday.todo))'
    <3>1. Whole(monday.briefing, monday.todo)' <=> Whole(monday.briefing, monday.todo)
        BY <1>1 DEF Whole, NeedsAttention
    <3> QED BY <1>1, <2>1, <3>1 DEF MondayInv, BriefingsTell
  <2> QED BY <1>1, <2>2, <2>3 DEF MondayInv, BriefingsTell
<1> QED BY <1>2, <1>3, <1>4 DEF MondayInv

(* Each step of the Monday run.                                            *)
LEMMA MondaySteps ==
    ASSUME HistoryInv, MondayInv, MondayNext
    PROVE  /\ HistoryInv' /\ MondayInv' /\ OnlySessionOf(MondayRun)
           /\ UNCHANGED <<facts, reachable>>
           /\ monday.at # "off"
<1>1. HistoryInv' /\ MondayInv' /\ OnlySessionOf(MondayRun) /\ Around
    BY MondayBegins, MondayLists, MondayAnalyzes, MondayRenders, MondayConcludes, MondayDelivers,
       MondayFinishes, MondayCrashes DEF MondayNext
<1>2. monday.at # "off"
    BY DEF MondayNext, StartMonday, LoadUpcomingEvents, ListActiveTutors, ListStudents, AnalyzeNext,
           RenderBriefing, ConcludeAnalysis, DeliverBriefing, ConcludeBriefings, FinishMonday,
           MondayCrash
<1> QED BY <1>1, <1>2 DEF Around
-----------------------------------------------------------------------------
(* The weekly report.                                                      *)

(* The kinds of counts are finitely many.                                  *)
CountKinds == {"BEHIND", "ON_TRACK", "AHEAD", "failed"}

LEMMA KindsAreFinite == IsFiniteSet(Buckets) /\ IsFiniteSet(CountKinds)
<1>1. \A x : IsFiniteSet({x})
    BY FS_Singleton
<1>2. CountKinds = (({"BEHIND"} \cup {"ON_TRACK"}) \cup {"AHEAD"}) \cup {"failed"}
    BY DEF CountKinds
<1>3. Buckets = (((({"LOW"} \cup {"MEDIUM"}) \cup {"HIGH"}) \cup {"CRITICAL"}) \cup {"PARTIAL"})
                \cup {"UNAVAILABLE"}
    BY DEF Buckets, RiskLevels
<1>4. IsFiniteSet(CountKinds)
    BY <1>1, <1>2, FS_Union
<1>5. IsFiniteSet(Buckets)
  <2>1. IsFiniteSet((({"LOW"} \cup {"MEDIUM"}) \cup {"HIGH"}) \cup {"CRITICAL"})
      BY <1>1, FS_Union
  <2> QED BY <1>1, <1>3, <2>1, FS_Union
<1> QED BY <1>4, <1>5

(* Nothing counted is a total of nothing.                                  *)
LEMMA TotalOfNothing ==
    /\ NoBuckets \in [Buckets -> Nat] /\ Total(NoBuckets) = 0
    /\ NoCounts \in [CountKinds -> Int] /\ Total(NoCounts) = 0
<1>1. ASSUME NEW f, IsFiniteSet(DOMAIN f), \A x \in DOMAIN f : f[x] = 0
      PROVE  Total(f) = 0
  <2>1. SumFunction(f) = Summation(f, DOMAIN f)[DOMAIN f]
      BY SumFunctionIsSummation
  <2>2. Summation(f, DOMAIN f)[DOMAIN f] = 0
      BY <1>1, SumOfNaturals
  <2> QED BY <2>1, <2>2 DEF Total
<1>2. NoBuckets \in [Buckets -> Nat] /\ \A x \in Buckets : NoBuckets[x] = 0
    BY DEF NoBuckets
<1>3. NoCounts \in [CountKinds -> Int] /\ \A x \in CountKinds : NoCounts[x] = 0
    BY DEF NoCounts, CountKinds
<1> QED BY <1>1, <1>2, <1>3, KindsAreFinite

(* What one kind grows by, the total grows by.                             *)
LEMMA TotalGrows ==
    ASSUME NEW S, IsFiniteSet(S), NEW f \in [S -> Int], NEW more \in [S -> Int], NEW k \in S,
           NEW d \in Int, more[k] = f[k] + d, \A x \in S \ {k} : more[x] = f[x]
    PROVE  Total(f) \in Int /\ Total(more) = Total(f) + d
<1>1. DOMAIN more = S /\ DOMAIN f = S /\ \A x \in S : f[x] \in Int
    OBVIOUS
<1>2. Total(more) = Summation(more, S)[S] /\ Total(f) = Summation(f, S)[S]
    BY <1>1, SumFunctionIsSummation DEF Total
<1>3. Summation(f, S)[S] \in Int /\ Summation(more, S)[S] = Summation(f, S)[S] + d
  <2>1. /\ IsFiniteSet(S) /\ k \in S /\ d \in Int /\ \A x \in S : f[x] \in Int
        /\ more[k] = f[k] + d /\ \A x \in S \ {k} : more[x] = f[x]
      BY <1>1
  <2> QED BY ONLY <2>1, SumIncrement
<1> QED BY <1>2, <1>3

(* The four counts of a cohort are summed.                                 *)
LEMMA TotalOfCounts ==
    ASSUME NEW a \in Int, NEW b \in Int, NEW c \in Int, NEW d \in Int
    PROVE  LET counts == [BEHIND |-> a, ON_TRACK |-> b, AHEAD |-> c, failed |-> d]
           IN  counts \in [CountKinds -> Int] /\ Total(counts) = a + b + c + d
<1> DEFINE Counts(w, x, y, z) == [BEHIND |-> w, ON_TRACK |-> x, AHEAD |-> y, failed |-> z]
<1>1. ASSUME NEW w \in Int, NEW x \in Int, NEW y \in Int, NEW z \in Int
      PROVE  /\ Counts(w, x, y, z) \in [CountKinds -> Int]
             /\ Counts(w, x, y, z)["BEHIND"] = w /\ Counts(w, x, y, z)["ON_TRACK"] = x
             /\ Counts(w, x, y, z)["AHEAD"] = y /\ Counts(w, x, y, z)["failed"] = z
    BY DEF CountKinds
<1>2. NoCounts = Counts(0, 0, 0, 0) /\ Total(NoCounts) = 0
    BY TotalOfNothing DEF NoCounts
<1> HIDE DEF Counts
<1>3. IsFiniteSet(CountKinds) /\ 0 \in Int
    BY KindsAreFinite
<1>4. ASSUME NEW f \in [CountKinds -> Int], NEW more \in [CountKinds -> Int], NEW k \in CountKinds,
             NEW n \in Int, more[k] = f[k] + n, \A x \in CountKinds \ {k} : more[x] = f[x]
      PROVE  Total(more) = Total(f) + n
    BY ONLY <1>3, <1>4, TotalGrows
<1>5. Total(Counts(a, 0, 0, 0)) = Total(Counts(0, 0, 0, 0)) + a
  <2>1. \A x \in CountKinds \ {"BEHIND"} : Counts(a, 0, 0, 0)[x] = Counts(0, 0, 0, 0)[x]
      BY DEF Counts, CountKinds
  <2>2. Counts(a, 0, 0, 0)["BEHIND"] = Counts(0, 0, 0, 0)["BEHIND"] + a /\ "BEHIND" \in CountKinds
      BY DEF Counts, CountKinds
  <2>3. Counts(a, 0, 0, 0) \in [CountKinds -> Int] /\ Counts(0, 0, 0, 0) \in [CountKinds -> Int]
      BY DEF Counts, CountKinds
  <2> QED BY ONLY <1>4, <2>1, <2>2, <2>3, a \in Int, b \in Int, c \in Int, d \in Int
<1>6. Total(Counts(a, b, 0, 0)) = Total(Counts(a, 0, 0, 0)) + b
  <2>1. \A x \in CountKinds \ {"ON_TRACK"} : Counts(a, b, 0, 0)[x] = Counts(a, 0, 0, 0)[x]
      BY DEF Counts, CountKinds
  <2>2. Counts(a, b, 0, 0)["ON_TRACK"] = Counts(a, 0, 0, 0)["ON_TRACK"] + b /\ "ON_TRACK" \in CountKinds
      BY DEF Counts, CountKinds
  <2>3. Counts(a, b, 0, 0) \in [CountKinds -> Int] /\ Counts(a, 0, 0, 0) \in [CountKinds -> Int]
      BY DEF Counts, CountKinds
  <2> QED BY ONLY <1>4, <2>1, <2>2, <2>3, a \in Int, b \in Int, c \in Int, d \in Int
<1>7. Total(Counts(a, b, c, 0)) = Total(Counts(a, b, 0, 0)) + c
  <2>1. \A x \in CountKinds \ {"AHEAD"} : Counts(a, b, c, 0)[x] = Counts(a, b, 0, 0)[x]
      BY DEF Counts, CountKinds
  <2>2. Counts(a, b, c, 0)["AHEAD"] = Counts(a, b, 0, 0)["AHEAD"] + c /\ "AHEAD" \in CountKinds
      BY DEF Counts, CountKinds
  <2>3. Counts(a, b, c, 0) \in [CountKinds -> Int] /\ Counts(a, b, 0, 0) \in [CountKinds -> Int]
      BY DEF Counts, CountKinds
  <2> QED BY ONLY <1>4, <2>1, <2>2, <2>3, a \in Int, b \in Int, c \in Int, d \in Int
<1>8. Total(Counts(a, b, c, d)) = Total(Counts(a, b, c, 0)) + d
  <2>1. \A x \in CountKinds \ {"failed"} : Counts(a, b, c, d)[x] = Counts(a, b, c, 0)[x]
      BY DEF Counts, CountKinds
  <2>2. Counts(a, b, c, d)["failed"] = Counts(a, b, c, 0)["failed"] + d /\ "failed" \in CountKinds
      BY DEF Counts, CountKinds
  <2>3. Counts(a, b, c, d) \in [CountKinds -> Int] /\ Counts(a, b, c, 0) \in [CountKinds -> Int]
      BY DEF Counts, CountKinds
  <2> QED BY ONLY <1>4, <2>1, <2>2, <2>3, a \in Int, b \in Int, c \in Int, d \in Int
<1>9. Total(Counts(a, b, c, d)) = a + b + c + d
    BY <1>2, <1>5, <1>6, <1>7, <1>8
<1> QED BY <1>1, <1>9 DEF Counts

(* The counts of a cohort add up to the listed students, and leave none    *)
(* out only if nobody is listed twice.                                     *)
LEMMA CohortAddsUp ==
    ASSUME NEW listed \in Seq(StudentIds)
    PROVE  /\ CohortCounts(listed) \in [CountKinds -> Int]
           /\ Total(CohortCounts(listed)) = Len(listed)
           /\ CohortCounts(listed).failed = 0 => IsInjective(listed)
<1> DEFINE ids == Range(listed)
           With(x) == {s \in ids : GetProgress(FactsNow(s).ects).success
                                   /\ GetProgress(FactsNow(s).ects).status = x}
           behind == With("BEHIND")
           track == With("ON_TRACK")
           ahead == With("AHEAD")
           counts == CohortCounts(listed)
<1>1. Len(listed) \in Nat /\ DOMAIN listed = 1..Len(listed) /\ listed \in [1..Len(listed) -> StudentIds]
    BY LenProperties
<1>2. IsFiniteSet(1..Len(listed)) /\ Cardinality(1..Len(listed)) = Len(listed)
    BY <1>1, FS_Interval
<1>3. listed \in Surjection(1..Len(listed), ids)
    BY <1>1 DEF Surjection, Range
<1>4. /\ IsFiniteSet(ids) /\ Cardinality(ids) <= Len(listed)
      /\ Cardinality(ids) = Len(listed) => listed \in Injection(1..Len(listed), ids)
    BY <1>2, <1>3, FS_Surjection
<1>5. /\ IsFiniteSet(behind) /\ IsFiniteSet(track) /\ IsFiniteSet(ahead)
      /\ Cardinality(behind) \in Nat /\ Cardinality(track) \in Nat /\ Cardinality(ahead) \in Nat
      /\ Cardinality(ids) \in Nat
    BY <1>4, FS_Subset, FS_CardinalityType
<1>6. Cardinality(behind) + Cardinality(track) + Cardinality(ahead) <= Cardinality(ids)
  <2>1. /\ behind \cap track = {} /\ (behind \cup track) \cap ahead = {}
        /\ (behind \cup track) \cup ahead \in SUBSET ids
      OBVIOUS
  <2> HIDE DEF ids, behind, track, ahead
  <2>2. Cardinality(behind \cap track) = 0 /\ Cardinality((behind \cup track) \cap ahead) = 0
      BY <2>1, FS_EmptySet
  <2>3. /\ IsFiniteSet(behind \cup track)
        /\ Cardinality(behind \cup track) = Cardinality(behind) + Cardinality(track)
    <3>1. /\ IsFiniteSet(behind \cup track)
          /\ Cardinality(behind \cup track)
                = Cardinality(behind) + Cardinality(track) - Cardinality(behind \cap track)
        BY <1>5, FS_Union
    <3> QED BY <1>5, <2>2, <3>1
  <2>4. Cardinality((behind \cup track) \cup ahead)
            = Cardinality(behind \cup track) + Cardinality(ahead)
    <3>1. Cardinality((behind \cup track) \cup ahead)
            = Cardinality(behind \cup track) + Cardinality(ahead)
              - Cardinality((behind \cup track) \cap ahead)
        BY <1>5, <2>3, FS_Union
    <3> QED BY <1>5, <2>2, <2>3, <3>1
  <2>5. Cardinality((behind \cup track) \cup ahead) <= Cardinality(ids)
      BY <1>4, <2>1, FS_Subset
  <2> QED BY <1>5, <2>3, <2>4, <2>5
<1>7. counts = [BEHIND |-> Cardinality(behind), ON_TRACK |-> Cardinality(track),
                AHEAD |-> Cardinality(ahead),
                failed |-> Len(listed)
                           - (Cardinality(behind) + Cardinality(track) + Cardinality(ahead))]
    BY DEF CohortCounts
<1> HIDE DEF ids, With, behind, track, ahead, counts
<1>8. counts \in [CountKinds -> Int] /\ Total(counts) = Len(listed)
  <2> DEFINE a == Cardinality(behind)
             b == Cardinality(track)
             c == Cardinality(ahead)
             d == Len(listed) - (a + b + c)
  <2>1. a \in Int /\ b \in Int /\ c \in Int /\ d \in Int /\ a + b + c + d = Len(listed)
      BY <1>1, <1>5
  <2>2. counts = [BEHIND |-> a, ON_TRACK |-> b, AHEAD |-> c, failed |-> d]
      BY <1>7
  <2> HIDE DEF a, b, c, d
  <2>3. counts \in [CountKinds -> Int] /\ Total(counts) = a + b + c + d
      BY ONLY <2>1, <2>2, TotalOfCounts
  <2> QED BY <2>1, <2>3
<1>9. ASSUME counts.failed = 0 PROVE IsInjective(listed)
  <2>1. Cardinality(ids) = Len(listed)
      BY <1>1, <1>4, <1>5, <1>6, <1>7, <1>9
  <2> QED BY <1>1, <1>4, <2>1 DEF Injection, IsInjective
<1> QED BY <1>8, <1>9 DEF counts

(* The directory lists students, whoever is enrolled.                      *)
LEMMA DirectoryIsListed ==
    ASSUME enrolled \subseteq StudentIds
    PROVE  /\ Directory \in Seq(StudentIds) /\ Cardinality(enrolled) \in Nat
           /\ \A offset \in Nat : Page(offset) \in Seq(StudentIds)
<1> DEFINE n == Cardinality(enrolled)
           rows == [k \in 1..n |-> CHOOSE s \in enrolled : Rank(enrolled, s) = k]
           Ordered(f) == \A i, j \in DOMAIN f : i < j => f[i] < f[j]
<1>1. IsFiniteSet(enrolled) /\ enrolled \in SUBSET Nat
    BY StudentIdsAssumption, FS_Subset
<1>2. n \in Nat /\ \A k \in 1..n : \E s \in enrolled : Rank(enrolled, s) = k
    BY <1>1, RankBijection
<1>3. \A k \in 1..n : rows[k] \in enrolled /\ Rank(enrolled, rows[k]) = k
    BY <1>2
<1>4. rows \in [1..n -> enrolled] /\ DOMAIN rows = 1..n
    BY <1>3
<1> HIDE DEF rows, n
<1>5. ASSUME NEW i \in 1..n, NEW j \in 1..n, i < j PROVE rows[i] < rows[j]
  <2>1. rows[i] \in enrolled /\ rows[j] \in enrolled /\ rows[i] \in Nat /\ rows[j] \in Nat
      BY <1>1, <1>3
  <2>2. CASE rows[j] < rows[i]
    <3>1. Rank(enrolled, rows[j]) < Rank(enrolled, rows[i])
        BY <1>1, <2>1, <2>2, RankMonotonic
    <3> QED BY <1>2, <1>3, <1>5, <3>1
  <2>3. CASE rows[j] = rows[i]
      BY <1>2, <1>3, <1>5, <2>3
  <2> QED BY <2>1, <2>2, <2>3
<1>6. rows \in SetToSeqs(enrolled) /\ Ordered(rows)
  <2>1. \A i, j \in 1..n : i # j => rows[i] # rows[j]
      BY <1>3
  <2> QED BY <1>4, <1>5, <2>1 DEF SetToSeqs, n
<1>7. Directory \in SetToSeqs(enrolled)
    BY <1>6 DEF Directory
<1>8. Directory \in [1..n -> enrolled]
    BY <1>7 DEF SetToSeqs, n
<1>9. Directory \in [1..n -> StudentIds]
    BY <1>8
<1>10. Directory \in Seq(StudentIds)
    BY <1>2, <1>9, IsASeq
<1>11. ASSUME NEW offset \in Nat PROVE Page(offset) \in Seq(StudentIds)
  <2> DEFINE last == Min({offset + PageSize, Len(Directory)})
  <2>1. Len(Directory) \in Nat /\ \A k \in 1..Len(Directory) : Directory[k] \in StudentIds
      BY <1>10, ElementOfSeq, LenProperties
  <2>2. last \in Int /\ last <= Len(Directory)
      BY <2>1, MinOfTwo, PageSizeAssumption
  <2> HIDE DEF last
  <2>3. \A k \in (offset + 1)..last : Directory[k] \in StudentIds
      BY <2>1, <2>2
  <2>4. SubSeq(Directory, offset + 1, last) \in Seq(StudentIds)
      BY <2>2, <2>3, SubSeqProperties
  <2> QED BY <2>4 DEF Page, last
<1> QED BY <1>2, <1>10, <1>11 DEF n

(* Every student has a bucket.                                             *)
LEMMA EverybodyHasABucket ==
    ASSUME NEW student
    PROVE  BucketOf(AssessStudentRisk(student, FALSE)) \in Buckets
<1> DEFINE found == Evaluate(student)
           available == {i \in Indicators : found[i] # Absent}
           raw == SumOf([i \in available |-> found[i].points], available)
           expired == found["study_right"].rule = "EXPIRED"
           adjusted == AdjustedScore(raw, expired)
           risk == AssessStudentRisk(student, FALSE)
<1>1. CASE ~(RequiredIndicators \subseteq available)
  <2> HIDE DEF found
  <2>1. ~CalculateAcademicRisk(found, FALSE).success
      BY <1>1 DEF CalculateAcademicRisk, Unprocessable
  <2> QED BY <2>1 DEF AssessStudentRisk, BucketOf, Buckets, found
<1>2. CASE RequiredIndicators \subseteq available
  <2>1. raw \in Nat
    <3>1. available \in SUBSET Indicators
        OBVIOUS
    <3> HIDE DEF available
    <3> QED BY <1>2, <3>1, Subtotals
  <2>2. adjusted \in Nat
    <3> HIDE DEF raw, expired
    <3>1. Max({raw, 70}) \in Nat
        BY <2>1, MaxOfTwo
    <3> QED BY <2>1, <3>1 DEF AdjustedScore
  <2>3. CASE Indicators \ available = {}
    <3>1. CalculateAcademicRisk(found, FALSE).level = ClassifyRiskScore(adjusted)
          /\ CalculateAcademicRisk(found, FALSE).success
          /\ CalculateAcademicRisk(found, FALSE).status = "COMPLETE"
      <4>1. adjusted # -1
        <5> HIDE DEF adjusted
        <5> QED BY <2>2
      <4> HIDE DEF found
      <4> QED BY <1>2, <2>3, <4>1 DEF CalculateAcademicRisk
    <3>2. ClassifyRiskScore(adjusted) \in RiskLevels
        BY DEF ClassifyRiskScore, RiskLevels
    <3> HIDE DEF found, adjusted
    <3> QED BY <3>1, <3>2 DEF AssessStudentRisk, BucketOf, Buckets, found
  <2>4. CASE Indicators \ available # {}
    <3> HIDE DEF found
    <3>1. CalculateAcademicRisk(found, FALSE).success
          /\ CalculateAcademicRisk(found, FALSE).status = "PARTIAL"
        BY <1>2, <2>4 DEF CalculateAcademicRisk
    <3> QED BY <3>1 DEF AssessStudentRisk, BucketOf, Buckets, found
  <2> QED BY <2>3, <2>4
<1> QED BY <1>1, <1>2

(* The status of the report.                                               *)
LEMMA WeeklyStatusTells ==
    ASSUME NEW w
    PROVE  /\ WeeklyStatus(w) \in FinalStatuses
           /\ WeeklyStatus(w) = "completed" =>
                  w.directory = "completed" /\ w.risks = "completed"
           /\ StatusAfterPersistenceFailure(WeeklyStatus(w)) \in FinalStatuses \ {"completed"}
<1>1. AggregateStatus({w.events, w.directory, w.progress, w.risks}) \in FinalStatuses
    BY AggregateTells
<1>2. AggregateStatus({w.events, w.directory, w.progress, w.risks}) = "completed" =>
          {w.events, w.directory, w.progress, w.risks} = {"completed"}
    BY DEF AggregateStatus
<1> QED BY <1>1, <1>2 DEF WeeklyStatus, StatusAfterPersistenceFailure, FinalStatuses

RunInv(w, i) == RunTypes(w) /\ RunAddsUp(w) /\ RunTells(w, i)

(* A step of one run leaves what is known of the others.                   *)
LEMMA OthersStay ==
    ASSUME WeeklyInv, WeeklyNext, NEW i \in Instances, OnlySessionOf(i),
           \A j \in Instances \ {i} : weekly'[j] = weekly[j], RunInv(weekly[i], i)',
           UNCHANGED enrolled
    PROVE  WeeklyInv'
<1>1. \A j \in Instances \ {i} : RunInv(weekly[j], j)'
  <2> SUFFICES ASSUME NEW j \in Instances \ {i} PROVE RunInv(weekly[j], j)'
      OBVIOUS
  <2>1. weekly'[j] = weekly[j] /\ (Aborted(j)' <=> Aborted(j)) /\ RunInv(weekly[j], j)
      BY DEF WeeklyInv, RunInv, Aborted, OnlySessionOf
  <2>2. RunTypes(weekly[j])' /\ RunAddsUp(weekly[j])'
      BY <2>1 DEF RunInv, RunTypes, RunAddsUp
  <2>3. RunTells(weekly[j], j)'
      BY <2>1 DEF RunInv, RunTells, Speaks
  <2> QED BY <2>2, <2>3 DEF RunInv
<1>2. ReportInv'
    BY WeeklyKeeps DEF WeeklyInv
<1> QED BY <1>1, <1>2 DEF WeeklyInv, RunInv

(* The steps up to the paging.                                             *)
LEMMA WeeklyBegins ==
    ASSUME HistoryInv, WeeklyInv, WeeklyNext, NEW i \in Instances,
           StartWeekly(i) \/ CheckWeekEvents(i) \/ CountStudents(i)
    PROVE  HistoryInv' /\ WeeklyInv' /\ UNCHANGED <<facts, reachable>>
<1>0. DatabaseTypeOK /\ RunsAreRecords /\ RunInv(weekly[i], i) /\ Cardinality(enrolled) \in Nat
    BY DirectoryIsListed DEF HistoryInv, WeeklyInv, ReportInv, RunInv
<1>1. HistoryInv' /\ OnlySessionOf(i) /\ UNCHANGED <<facts, reachable>> /\ UNCHANGED enrolled
  <2>1. CASE StartWeekly(i)
      BY <2>1, StartKeepsHistory DEF StartWeekly, Workflows
  <2>2. CASE CheckWeekEvents(i)
      BY <1>0, <2>2, KindsOfReads, ReadsKeepHistory DEF CheckWeekEvents, Reading
  <2>3. CASE CountStudents(i)
      BY <1>0, <2>3, KindsOfReads, ReadsKeepHistory DEF CountStudents, Reading
  <2> QED BY <2>1, <2>2, <2>3
<1>2. /\ \A j \in Instances \ {i} : weekly'[j] = weekly[j]
      /\ weekly[i].at \in {"start", "events", "count"}
      /\ \A x \in {"total", "assessed", "buckets", "counts", "status", "persistence"} :
            weekly'[i][x] = weekly[i][x]
      /\ \/ /\ weekly'[i].at \in {"events", "count", "page"}
            /\ weekly'[i].rows \in {weekly[i].rows, Cardinality(enrolled)}
            /\ weekly'[i].listed = weekly[i].listed
         \/ /\ weekly'[i].at = "save" /\ weekly'[i].listed = <<>> /\ weekly'[i].rows = weekly[i].rows
            /\ weekly'[i].directory = "failed" /\ weekly'[i].risks = "unavailable"
  <2>1. CASE StartWeekly(i)
      BY <1>0, <2>1, StepFields DEF StartWeekly, Fields, Unchanged
  <2>2. CASE CheckWeekEvents(i)
      BY <1>0, <2>2, StepFields DEF CheckWeekEvents, Fields
  <2>3. CASE CountStudents(i)
    <3>1. CASE Step(i, "page", [rows |-> Cardinality(enrolled)])
        BY <1>0, <2>3, <3>1, StepFields DEF CountStudents, Fields
    <3>2. CASE DirectoryFails(i)
        BY <1>0, <2>3, <3>2, StepFields DEF CountStudents, DirectoryFails, Fields
    <3> QED BY <2>3, <3>1, <3>2 DEF CountStudents
  <2> QED BY <2>1, <2>2, <2>3
<1>3. RunTypes(weekly[i])'
  <2>1. <<>> \in Seq(StudentIds)
      OBVIOUS
  <2> QED BY <1>0, <1>2, <2>1 DEF RunInv, RunTypes, WeeklyStages
<1>4. RunAddsUp(weekly[i])'
  <2>1. weekly[i].assessed = 0 /\ weekly[i].buckets = NoBuckets /\ weekly[i].counts = NoCounts
      BY <1>0, <1>2 DEF RunInv, RunAddsUp, UpToPaging
  <2> QED BY <1>2, <2>1 DEF RunAddsUp
<1>5. RunTells(weekly[i], i)'
    BY <1>0, <1>2 DEF RunInv, RunTells
<1> QED BY <1>1, <1>2, <1>3, <1>4, <1>5, OthersStay DEF RunInv

(* A page is added to what is listed, or the directory is given up.        *)
LEMMA WeeklyPages ==
    ASSUME HistoryInv, WeeklyInv, WeeklyNext, NEW i \in Instances, ReadPage(i)
    PROVE  HistoryInv' /\ WeeklyInv' /\ UNCHANGED <<facts, reachable>>
<1> DEFINE w == weekly[i]
           page == Page(Len(w.listed))
           listed == w.listed \o page
<1>0. DatabaseTypeOK /\ RunsAreRecords /\ RunInv(w, i) /\ w.at = "page"
    BY DEF HistoryInv, WeeklyInv, ReportInv, RunInv, ReadPage
<1>1. HistoryInv' /\ OnlySessionOf(i) /\ UNCHANGED <<facts, reachable>> /\ UNCHANGED enrolled
    BY <1>0, KindsOfReads, ReadsKeepHistory DEF ReadPage, Reading
<1>2. /\ w.listed \in Seq(StudentIds) /\ page \in Seq(StudentIds) /\ listed \in Seq(StudentIds)
      /\ Len(listed) = Len(w.listed) + Len(page) /\ Len(w.listed) \in Nat /\ Len(page) \in Nat
  <2>1. w.listed \in Seq(StudentIds)
      BY <1>0 DEF RunInv, RunTypes
  <2>2. Len(w.listed) \in Nat
      BY <2>1, LenProperties
  <2>3. page \in Seq(StudentIds)
      BY <2>2, DirectoryIsListed DEF WeeklyInv
  <2> HIDE DEF page
  <2> QED BY <2>1, <2>2, <2>3, LenProperties, ConcatProperties
<1>3. \/ DirectoryFails(i)
      \/ Step(i, "count", [total |-> w.rows, listed |-> listed])
      \/ /\ PageIsSound(w, page) /\ (page = <<>> \/ Len(listed) >= w.rows)
         /\ Step(i, "progress", [total |-> w.rows, listed |-> listed, directory |-> "completed"])
  <2>1. \/ DirectoryFails(i)
        \/ PageIsSound(w, page) /\ IF page # <<>> /\ Len(listed) < w.rows
               THEN Step(i, "count", [total |-> w.rows, listed |-> listed])
               ELSE Step(i, "progress", [total |-> w.rows, listed |-> listed,
                                         directory |-> "completed"])
      BY DEF ReadPage
  <2>2. Len(listed) \in Nat /\ w.rows \in Nat
    <3> HIDE DEF page, listed
    <3> QED BY <1>0, <1>2 DEF RunInv, RunTypes
  <2> HIDE DEF page, listed
  <2>3. ~(page # <<>> /\ Len(listed) < w.rows) => page = <<>> \/ Len(listed) >= w.rows
      BY <2>2
  <2> QED BY <2>1, <2>3
<1> HIDE DEF listed
<1>4. /\ \A j \in Instances \ {i} : weekly'[j] = weekly[j]
      /\ \A x \in {"rows", "assessed", "buckets", "counts", "status", "persistence"} :
            weekly'[i][x] = weekly[i][x]
      /\ weekly'[i].listed \in {<<>>, listed}
      /\ \/ weekly'[i].at = "count"
         \/ /\ weekly'[i].at = "save" /\ weekly'[i].directory = "failed"
            /\ weekly'[i].risks = "unavailable"
         \/ /\ weekly'[i].at = "progress" /\ weekly'[i].directory = "completed"
            /\ weekly'[i].total = Len(weekly'[i].listed)
  <2>1. CASE DirectoryFails(i)
      BY <1>0, <2>1, StepFields DEF DirectoryFails, Fields
  <2>2. CASE Step(i, "count", [total |-> w.rows, listed |-> listed])
      BY <1>0, <2>2, StepFields DEF Fields
  <2>3. CASE /\ PageIsSound(w, page) /\ (page = <<>> \/ Len(listed) >= w.rows)
             /\ Step(i, "progress", [total |-> w.rows, listed |-> listed,
                                     directory |-> "completed"])
    <3>1. w.rows = Len(listed)
      <4>1. /\ page = <<>> => Len(w.listed) >= w.rows
            /\ Len(w.listed) + Len(page) <= w.rows
            /\ w.rows \in Nat
          BY <1>0, <2>3 DEF PageIsSound, RunInv, RunTypes
      <4>2. Len(listed) >= w.rows
        <5> HIDE DEF page
        <5> QED BY <1>2, <2>3, <4>1
      <4> HIDE DEF page
      <4> QED BY <1>2, <4>1, <4>2
    <3> QED BY <1>0, <2>3, <3>1, StepFields DEF Fields
  <2> QED BY <1>3, <2>1, <2>2, <2>3
<1>5. RunTypes(weekly[i])'
  <2>1. <<>> \in Seq(StudentIds)
      OBVIOUS
  <2> QED BY <1>0, <1>2, <1>4, <2>1 DEF RunInv, RunTypes, WeeklyStages
<1>6. RunAddsUp(weekly[i])'
  <2>1. w.assessed = 0 /\ w.buckets = NoBuckets /\ w.counts = NoCounts
      BY <1>0 DEF RunInv, RunAddsUp, UpToPaging
  <2> QED BY <1>4, <2>1 DEF RunAddsUp
<1>7. RunTells(weekly[i], i)'
    BY <1>0, <1>4 DEF RunInv, RunTells
<1> QED BY <1>1, <1>4, <1>5, <1>6, <1>7, OthersStay DEF RunInv

(* The progress of everybody listed is counted, or the section fails.      *)
LEMMA WeeklyCounts ==
    ASSUME HistoryInv, WeeklyInv, WeeklyNext, NEW i \in Instances, CheckProgress(i)
    PROVE  HistoryInv' /\ WeeklyInv' /\ UNCHANGED <<facts, reachable>>
<1> DEFINE w == weekly[i]
           counts == CohortCounts(w.listed)
<1>0. DatabaseTypeOK /\ RunsAreRecords /\ RunInv(w, i) /\ w.at = "progress"
    BY DEF HistoryInv, WeeklyInv, ReportInv, RunInv, CheckProgress
<1>1. HistoryInv' /\ OnlySessionOf(i) /\ UNCHANGED <<facts, reachable>> /\ UNCHANGED enrolled
  <2>1. Reads(i)
    <3>1. CASE StatementSucceeds(i) \/ StatementFails(i)
        BY <1>0, <3>1, KindsOfReads DEF CheckProgress, Reading
    <3>2. CASE UNCHANGED session
        BY <3>2 DEF CheckProgress, Reading, Reads
    <3> QED BY <3>1, <3>2 DEF CheckProgress
  <2> QED BY <2>1, ReadsKeepHistory DEF CheckProgress, Reading
<1>2. /\ w.directory = "completed" /\ w.total = Len(w.listed)
      /\ w.assessed = 0 /\ w.buckets = NoBuckets /\ w.counts = NoCounts
      /\ w.listed \in Seq(StudentIds) /\ w.rows \in Nat /\ Len(w.listed) \in Nat
      /\ w.status = "none"
    BY <1>0, LenProperties DEF RunInv, RunTypes, RunAddsUp, RunTells
<1>3. /\ \A j \in Instances \ {i} : weekly'[j] = weekly[j]
      /\ weekly'[i].at = "risks"
      /\ \A x \in {"directory", "total", "rows", "listed", "assessed", "buckets", "status",
                   "persistence"} : weekly'[i][x] = w[x]
      /\ \/ w.listed = <<>> /\ weekly'[i].counts = w.counts /\ weekly'[i].progress = "completed"
         \/ weekly'[i].counts = counts /\ weekly'[i].progress = ProgressStatus(counts)
         \/ weekly'[i].counts = w.counts /\ weekly'[i].progress = "failed"
  <2> HIDE DEF counts
  <2>1. CASE w.listed = <<>> /\ Step(i, "risks", [progress |-> "completed"])
      BY <1>0, <2>1, StepFields DEF Fields
  <2>2. CASE Step(i, "risks", [counts |-> counts, progress |-> ProgressStatus(counts)])
      BY <1>0, <2>2, StepFields DEF Fields
  <2>3. CASE Step(i, "risks", [progress |-> "failed"])
      BY <1>0, <2>3, StepFields DEF Fields
  <2> QED BY <2>1, <2>2, <2>3 DEF CheckProgress, counts
<1>4. /\ counts \in [CountKinds -> Int] /\ Total(counts) = Len(w.listed)
      /\ ProgressStatus(counts) = "completed" => IsInjective(w.listed)
    BY <1>2, CohortAddsUp DEF ProgressStatus
<1> HIDE DEF counts
<1>5. NoBuckets \in [Buckets -> Nat] /\ NoCounts \in [CountKinds -> Int]
      /\ Total(NoBuckets) = 0 /\ Total(NoCounts) = 0
    BY TotalOfNothing
<1>6. RunTypes(weekly[i])'
  <2>1. weekly'[i].counts \in [CountKinds -> Int]
      BY <1>2, <1>3, <1>4, <1>5
  <2>2. weekly'[i].buckets \in [Buckets -> Nat] /\ weekly'[i].assessed \in Nat
      BY <1>2, <1>3, <1>5
  <2> QED BY <1>2, <1>3, <2>1, <2>2 DEF RunTypes, WeeklyStages, CountKinds
<1>7. RunAddsUp(weekly[i])'
  <2>1. /\ weekly'[i].progress # "failed" => Total(weekly'[i].counts) = weekly'[i].total
        /\ weekly'[i].progress = "completed" => IsInjective(weekly'[i].listed)
    <3>1. CASE w.listed = <<>> /\ weekly'[i].counts = w.counts
               /\ weekly'[i].progress = "completed"
      <4>1. Len(w.listed) = 0 /\ IsInjective(w.listed)
          BY <3>1 DEF IsInjective
      <4> QED BY <1>2, <1>3, <1>5, <3>1, <4>1
    <3> QED BY <1>2, <1>3, <1>4, <3>1
  <2>2. weekly'[i].assessed <= Len(weekly'[i].listed) /\ Total(weekly'[i].buckets) = weekly'[i].assessed
      BY <1>2, <1>3, <1>5
  <2> QED BY <1>2, <1>3, <2>1, <2>2 DEF RunAddsUp, UpToPaging
<1>8. RunTells(weekly[i], i)'
    BY <1>2, <1>3 DEF RunTells
<1> QED BY <1>1, <1>3, <1>6, <1>7, <1>8, OthersStay DEF RunInv

(* The risk of one student is put into its bucket.                         *)
LEMMA WeeklyAssesses ==
    ASSUME HistoryInv, WeeklyInv, WeeklyNext, NEW i \in Instances, AssessWeekly(i)
    PROVE  HistoryInv' /\ WeeklyInv' /\ UNCHANGED <<facts, reachable>>
<1> DEFINE w == weekly[i]
           BucketWhen(r) == BucketOf(AssessStudentRisk(
                                FactsFrom(r, FactsNow(w.listed[w.assessed + 1])), FALSE))
<1>0. DatabaseTypeOK /\ RunsAreRecords /\ RunInv(w, i) /\ w.at = "risks" /\ Reading
      /\ w.assessed < Len(w.listed)
    BY DEF HistoryInv, WeeklyInv, ReportInv, RunInv, AssessWeekly
<1>1. PICK r \in DOMAIN ReadOrder :
         /\ WeeklyReadsFail(i, r)
         /\ Step(i, "risks", [assessed |-> w.assessed + 1,
                              memo |-> w.memo \/ r \in {"meetings", "none"},
                              buckets |-> [w.buckets EXCEPT ![BucketWhen(r)] = @ + 1]])
    BY DEF AssessWeekly
<1> DEFINE k == BucketWhen(r)
           more == [w.buckets EXCEPT ![k] = @ + 1]
<1>2. k \in Buckets
    BY EverybodyHasABucket
<1> HIDE DEF k, BucketWhen
<1>3. HistoryInv' /\ OnlySessionOf(i) /\ UNCHANGED <<facts, reachable>> /\ UNCHANGED enrolled
  <2>1. Reads(i)
      BY <1>0, <1>1, KindsOfReads DEF Reading, WeeklyReadsFail
  <2> QED BY <1>0, <2>1, ReadsKeepHistory DEF Reading
<1>4. /\ w.directory = "completed" /\ w.total = Len(w.listed) /\ w.status = "none"
      /\ w.assessed \in Nat /\ w.buckets \in [Buckets -> Nat] /\ w.rows \in Nat
      /\ w.listed \in Seq(StudentIds) /\ w.counts \in [CountKinds -> Int]
      /\ Len(w.listed) \in Nat /\ Total(w.buckets) = w.assessed
      /\ w.progress # "failed" => Total(w.counts) = w.total
      /\ w.progress = "completed" => IsInjective(w.listed)
    BY <1>0, LenProperties DEF RunInv, RunTypes, RunAddsUp, RunTells, CountKinds
<1>5. more \in [Buckets -> Nat] /\ Total(more) = w.assessed + 1
  <2>1. /\ more \in [Buckets -> Nat] /\ more \in [Buckets -> Int] /\ w.buckets \in [Buckets -> Int]
        /\ more[k] = w.buckets[k] + 1 /\ \A x \in Buckets \ {k} : more[x] = w.buckets[x]
      BY <1>2, <1>4
  <2>2. IsFiniteSet(Buckets) /\ 1 \in Int
      BY KindsAreFinite
  <2> HIDE DEF more
  <2>3. Total(more) = Total(w.buckets) + 1
      BY ONLY <1>2, <2>1, <2>2, TotalGrows
  <2> QED BY <1>4, <2>1, <2>3
<1>6. /\ \A j \in Instances \ {i} : weekly'[j] = weekly[j]
      /\ weekly'[i].at = "risks" /\ weekly'[i].assessed = w.assessed + 1
      /\ weekly'[i].buckets = more
      /\ \A x \in {"directory", "total", "rows", "listed", "progress", "counts", "status",
                   "persistence"} : weekly'[i][x] = w[x]
  <2>1. Step(i, "risks", [assessed |-> w.assessed + 1,
                          memo |-> w.memo \/ r \in {"meetings", "none"}, buckets |-> more])
      BY <1>1 DEF k
  <2> HIDE DEF more
  <2> QED BY <1>0, <2>1, StepFields DEF Fields
<1> HIDE DEF more
<1>7. RunTypes(weekly[i])'
    BY <1>4, <1>5, <1>6 DEF RunTypes, WeeklyStages, CountKinds
<1>8. RunAddsUp(weekly[i])'
    BY <1>0, <1>4, <1>5, <1>6 DEF RunAddsUp, UpToPaging
<1>9. RunTells(weekly[i], i)'
    BY <1>4, <1>6 DEF RunTells
<1> QED BY <1>3, <1>6, <1>7, <1>8, <1>9, OthersStay DEF RunInv

(* Everybody is in a bucket.                                               *)
LEMMA WeeklyConcludes ==
    ASSUME HistoryInv, WeeklyInv, WeeklyNext, NEW i \in Instances, ConcludeRisks(i)
    PROVE  HistoryInv' /\ WeeklyInv' /\ UNCHANGED <<facts, reachable>>
<1> DEFINE w == weekly[i]
<1>0. RunsAreRecords /\ RunInv(w, i) /\ w.at = "risks" /\ w.assessed = Len(w.listed)
      /\ UNCHANGED databaseVars /\ UNCHANGED enrolled
    BY DEF WeeklyInv, ReportInv, RunInv, ConcludeRisks
<1>1. HistoryInv' /\ OnlySessionOf(i) /\ UNCHANGED <<facts, reachable>>
    BY <1>0 DEF databaseVars, HistoryInv, HistoryTellsResults, DatabaseTypeOK, OnlySessionOf
<1>2. /\ \A j \in Instances \ {i} : weekly'[j] = weekly[j]
      /\ weekly'[i].at = "save" /\ weekly'[i].risks = RisksStatus(w)
      /\ \A x \in Fields \ {"at", "risks"} : weekly'[i][x] = w[x]
    BY <1>0, StepFields DEF ConcludeRisks, Fields
<1>3. \A x \in {"directory", "total", "rows", "listed", "progress", "counts", "status", "assessed",
                "buckets", "persistence"} : weekly'[i][x] = w[x]
    BY <1>2 DEF Fields
<1>4. RunTypes(weekly[i])'
    BY <1>0, <1>2, <1>3 DEF RunInv, RunTypes, WeeklyStages
<1>5. RunAddsUp(weekly[i])'
  <2>1. weekly'[i].risks = "completed" =>
            weekly'[i].buckets["PARTIAL"] + weekly'[i].buckets["UNAVAILABLE"] = 0
      BY <1>2, <1>3 DEF RisksStatus
  <2> QED BY <1>0, <1>2, <1>3, <2>1 DEF RunInv, RunAddsUp, UpToPaging
<1>6. RunTells(weekly[i], i)'
    BY <1>0, <1>2, <1>3 DEF RunInv, RunTells
<1> QED BY <1>0, <1>1, <1>2, <1>4, <1>5, <1>6, OthersStay DEF RunInv

(* The report is saved or not, and the session is usable again.            *)
LEMMA WeeklySaves ==
    ASSUME HistoryInv, WeeklyInv, WeeklyNext, NEW i \in Instances, SaveReport(i)
    PROVE  HistoryInv' /\ WeeklyInv' /\ UNCHANGED <<facts, reachable>>
<1> DEFINE w == weekly[i]
<1>0. DatabaseTypeOK /\ RunsAreRecords /\ RunInv(w, i) /\ w.at = "save" /\ ReadsOnly
      /\ UNCHANGED enrolled
    BY DEF HistoryInv, WeeklyInv, ReportInv, RunInv, SaveReport
<1>1. /\ session' \in [Instances -> {"ok", "aborted"}] /\ OnlySessionOf(i) /\ ~Aborted(i)'
      /\ HistoryInv' /\ UNCHANGED <<facts, reachable>>
  <2>1. session' \in [Instances -> {"ok", "aborted"}] /\ OnlySessionOf(i) /\ ~Aborted(i)'
      BY <1>0 DEF SaveReport, DatabaseTypeOK, OnlySessionOf, Aborted
  <2> QED BY <1>0, <2>1 DEF ReadsOnly, HistoryInv, HistoryTellsResults, DatabaseTypeOK
<1>2. /\ \A j \in Instances \ {i} : weekly'[j] = weekly[j]
      /\ weekly'[i].at = "end"
      /\ \A x \in Fields \ {"at", "status", "persistence"} : weekly'[i][x] = w[x]
      /\ \/ weekly'[i].status = WeeklyStatus(w) /\ weekly'[i].persistence # "failed"
         \/ weekly'[i].status = StatusAfterPersistenceFailure(WeeklyStatus(w))
  <2>1. CASE Step(i, "end", [status |-> WeeklyStatus(w),
                             persistence |-> IF store = NoReport THEN "saved"
                                             ELSE "already_stored"])
      BY <1>0, <2>1, StepFields DEF Fields
  <2>2. CASE Step(i, "end", [status |-> StatusAfterPersistenceFailure(WeeklyStatus(w)),
                             persistence |-> "failed"])
      BY <1>0, <2>2, StepFields DEF Fields
  <2> QED BY <2>1, <2>2 DEF SaveReport
<1>3. \A x \in {"directory", "total", "rows", "listed", "progress", "risks", "counts", "assessed",
                "buckets"} : weekly'[i][x] = w[x]
    BY <1>2 DEF Fields
<1>4. RunTypes(weekly[i])'
    BY <1>0, <1>2, <1>3 DEF RunInv, RunTypes, WeeklyStages
<1>5. RunAddsUp(weekly[i])'
    BY <1>0, <1>2, <1>3 DEF RunInv, RunAddsUp, UpToPaging
<1>6. RunTells(weekly[i], i)'
  <2>1. /\ weekly'[i].status \in FinalStatuses
        /\ weekly'[i].status = "completed" =>
               /\ w.directory = "completed" /\ w.risks = "completed"
               /\ weekly'[i].persistence # "failed"
    <3>1. WeeklyStatus(w) \in FinalStatuses
          /\ (WeeklyStatus(w) = "completed" => w.directory = "completed" /\ w.risks = "completed")
          /\ StatusAfterPersistenceFailure(WeeklyStatus(w)) \in FinalStatuses \ {"completed"}
        BY WeeklyStatusTells
    <3> QED BY <1>2, <3>1
  <2>2. w.risks = "completed" => w.buckets["PARTIAL"] + w.buckets["UNAVAILABLE"] = 0
      BY <1>0 DEF RunInv, RunAddsUp
  <2> QED BY <1>1, <1>2, <1>3, <2>1, <2>2 DEF RunTells, Speaks
<1> QED BY <1>0, <1>1, <1>2, <1>4, <1>5, <1>6, OthersStay DEF RunInv

(* The row of the run is finished.                                         *)
LEMMA WeeklyFinishes ==
    ASSUME HistoryInv, WeeklyInv, WeeklyNext, NEW i \in Instances, FinishWeekly(i)
    PROVE  HistoryInv' /\ WeeklyInv' /\ UNCHANGED <<facts, reachable>>
<1> DEFINE w == weekly[i]
<1>0. RunsAreRecords /\ RunInv(w, i) /\ w.at = "end" /\ UNCHANGED enrolled
      /\ FinishExecution(i, "weekly", w.status)
    BY DEF WeeklyInv, ReportInv, RunInv, FinishWeekly
<1>1. HistoryInv' /\ ~Aborted(i)' /\ OnlySessionOf(i) /\ UNCHANGED <<facts, reachable>>
  <2>1. Speaks(w.status, i) /\ ~Aborted(i)
      BY <1>0 DEF RunInv, RunTells
  <2> QED BY <1>0, <2>1, FinishKeepsHistory DEF Workflows
<1>2. /\ \A j \in Instances \ {i} : weekly'[j] = weekly[j]
      /\ weekly'[i].at = "done" /\ \A x \in Fields \ {"at"} : weekly'[i][x] = w[x]
    BY <1>0, StepFields DEF FinishWeekly, Unchanged, Fields
<1>3. \A x \in {"directory", "total", "rows", "listed", "progress", "risks", "counts", "assessed",
                "buckets", "status", "persistence"} : weekly'[i][x] = w[x]
    BY <1>2 DEF Fields
<1>4. RunTypes(weekly[i])'
    BY <1>0, <1>2, <1>3 DEF RunInv, RunTypes, WeeklyStages
<1>5. RunAddsUp(weekly[i])'
    BY <1>0, <1>2, <1>3 DEF RunInv, RunAddsUp, UpToPaging
<1>6. RunTells(weekly[i], i)'
    BY <1>0, <1>2, <1>3 DEF RunInv, RunTells
<1> QED BY <1>0, <1>1, <1>2, <1>4, <1>5, <1>6, OthersStay DEF RunInv

(* A fresh run has counted nothing and says nothing.                       *)
LEMMA WeeklyKnowsNothing ==
    ASSUME NEW i, NEW at \in {"off", "start", "crashed"}, NEW w, w = [NewWeekly EXCEPT !.at = at]
    PROVE  /\ RunTypes(w) /\ RunAddsUp(w) /\ w.status = "none"
           /\ w.at \notin {"end", "done"}
<1>1. /\ w.at = at /\ w.listed = <<>> /\ w.rows = 0
      /\ w.assessed = 0 /\ w.buckets = NoBuckets /\ w.counts = NoCounts
      /\ w.status = "none"
    BY DEF NewWeekly
<1>2. NoBuckets \in [Buckets -> Nat] /\ NoCounts \in [CountKinds -> Int]
      /\ <<>> \in Seq(StudentIds)
    BY TotalOfNothing
<1>3. RunTypes(w)
  <2>1. w.counts \in [CountKinds -> Int] /\ w.buckets \in [Buckets -> Nat]
      BY <1>1, <1>2
  <2>2. w.at \in WeeklyStages
      BY <1>1 DEF WeeklyStages
  <2>3. w.listed \in Seq(StudentIds)
      BY <1>1, <1>2, Zenon
  <2>4. w.rows \in Nat /\ w.assessed \in Nat
      BY <1>1
  <2> QED BY <2>1, <2>2, <2>3, <2>4 DEF RunTypes, CountKinds
<1>4. RunAddsUp(w)
    BY <1>1 DEF RunAddsUp
<1> QED BY <1>1, <1>3, <1>4

LEMMA WeeklyCrashes ==
    ASSUME HistoryInv, WeeklyInv, WeeklyNext, NEW i \in Instances, WeeklyCrash(i)
    PROVE  HistoryInv' /\ WeeklyInv' /\ UNCHANGED <<facts, reachable>>
<1>1. /\ UNCHANGED databaseVars /\ UNCHANGED enrolled
      /\ weekly'[i] = [NewWeekly EXCEPT !.at = "crashed"]
      /\ \A j \in Instances \ {i} : weekly'[j] = weekly[j]
    BY DEF WeeklyCrash, WeeklyInv, ReportInv, RunsAreRecords
<1>2. HistoryInv' /\ OnlySessionOf(i) /\ UNCHANGED <<facts, reachable>>
    BY <1>1 DEF databaseVars, HistoryInv, HistoryTellsResults, DatabaseTypeOK, OnlySessionOf
<1>3. RunInv(weekly[i], i)'
  <2>1. ASSUME NEW w, w = [NewWeekly EXCEPT !.at = "crashed"]
        PROVE  /\ RunTypes(w) /\ RunAddsUp(w) /\ w.status = "none" /\ w.at \notin {"end", "done"}
      BY <2>1, WeeklyKnowsNothing
  <2>2. /\ RunTypes(weekly[i])' /\ RunAddsUp(weekly[i])'
        /\ weekly'[i].status = "none" /\ weekly'[i].at \notin {"end", "done"}
      BY <1>1, <2>1
  <2> QED BY <2>2 DEF RunInv, RunTells
<1> QED BY <1>1, <1>2, <1>3, OthersStay

(* Whoever comes or goes, what was counted stays counted.                  *)
LEMMA WeeklyEnrols ==
    ASSUME HistoryInv, WeeklyInv, WeeklyNext, EnrolmentChanges
    PROVE  HistoryInv' /\ WeeklyInv' /\ UNCHANGED <<facts, reachable>>
<1>1. /\ UNCHANGED databaseVars /\ weekly' = weekly /\ enrolled' \subseteq StudentIds
    BY DEF EnrolmentChanges, WeeklyInv
<1>2. HistoryInv' /\ UNCHANGED <<facts, reachable>> /\ session' = session
    BY <1>1 DEF databaseVars, HistoryInv, HistoryTellsResults, DatabaseTypeOK
<1>3. \A i \in Instances : RunInv(weekly[i], i)'
    BY <1>1, <1>2 DEF WeeklyInv, RunInv, RunTypes, RunAddsUp, RunTells, Speaks, Aborted
<1>4. ReportInv'
    BY WeeklyKeeps DEF WeeklyInv
<1> QED BY <1>1, <1>2, <1>3, <1>4 DEF WeeklyInv, RunInv

(* The invariant is about the runs, the directory and the report, and      *)
(* while nothing runs about no session.                                    *)
LEMMA WeeklyUnmoved ==
    ASSUME WeeklyInv, UNCHANGED weeklyVars,
           session' = session \/ \A i \in Instances : weekly[i].at = "off"
    PROVE  WeeklyInv'
<1>1. weekly' = weekly /\ enrolled' = enrolled /\ store' = store
    BY DEF weeklyVars
<1>2. ReportInv'
    BY <1>1 DEF WeeklyInv, ReportInv, RunsAreRecords, StoreHasAuthor, SaysWhatIsStored, NoReport,
                Report, WeeklyStatus
<1>3. ASSUME NEW i \in Instances PROVE RunInv(weekly[i], i)'
  <2>1. RunTypes(weekly[i])' /\ RunAddsUp(weekly[i])'
      BY <1>1 DEF WeeklyInv, RunTypes, RunAddsUp
  <2>2. RunTells(weekly[i], i)'
      BY <1>1 DEF WeeklyInv, RunTells, Speaks, Aborted
  <2> QED BY <2>1, <2>2 DEF RunInv
<1> QED BY <1>1, <1>2, <1>3 DEF WeeklyInv, RunInv

(* Each step of the weekly runs.                                           *)
LEMMA WeeklySteps ==
    ASSUME HistoryInv, WeeklyInv, WeeklyNext
    PROVE  /\ HistoryInv' /\ WeeklyInv' /\ UNCHANGED <<facts, reachable>>
           /\ \E i \in Instances : weekly[i].at # "off"
<1>1. HistoryInv' /\ WeeklyInv' /\ UNCHANGED <<facts, reachable>>
    BY WeeklyBegins, WeeklyPages, WeeklyCounts, WeeklyAssesses, WeeklyConcludes, WeeklySaves,
       WeeklyFinishes, WeeklyCrashes, WeeklyEnrols DEF WeeklyNext
<1>2. \E i \in Instances : weekly[i].at # "off"
    BY DEF WeeklyNext, StartWeekly, CheckWeekEvents, CountStudents, ReadPage, CheckProgress,
           AssessWeekly, ConcludeRisks, SaveReport, FinishWeekly, WeeklyCrash, EnrolmentChanges
<1> QED BY <1>1, <1>2
-----------------------------------------------------------------------------
(* The three jobs.                                                         *)

LEMMA InitiallySound == Init => IInv
<1> SUFFICES ASSUME Init PROVE IInv
    OBVIOUS
<1>1. PICK job \in Jobs :
         /\ DatabaseInit
         /\ DailyInit(IF job = "daily" THEN "start" ELSE "off")
         /\ WeeklyInit(IF job = "weekly" THEN "start" ELSE "off")
         /\ MondayInit(IF job = "monday" THEN "start" ELSE "off")
    BY DEF Init
<1>2. /\ daily.at = (IF job = "daily" THEN "start" ELSE "off")
      /\ monday.at = (IF job = "monday" THEN "start" ELSE "off")
      /\ \A i \in Instances : weekly[i].at = IF job = "weekly" THEN "start" ELSE "off"
    BY <1>1 DEF DailyInit, NewDaily, MondayInit, NewMonday, WeeklyInit, NewWeekly
<1>3. SharedInv
  <2>1. DatabaseTypeOK
      BY <1>1, TutorsAssumption DEF DatabaseInit, DatabaseTypeOK
  <2>2. HistoryTellsResults
      BY <1>1 DEF DatabaseInit, HistoryTellsResults, FinalStatuses
  <2>3. OneJob
      BY <1>2 DEF OneJob
  <2> QED BY <2>1, <2>2, <2>3 DEF SharedInv
<1>4. DailyIsFresh
    BY <1>1 DEF DailyIsFresh, DailyInit
<1>5. MondayIsFresh
    BY <1>1 DEF MondayIsFresh, MondayInit
<1>6. ASSUME NEW i \in Instances PROVE RunInv(weekly[i], i)
  <2>1. PICK at \in {"off", "start"} : weekly[i] = [NewWeekly EXCEPT !.at = at]
      BY <1>1 DEF WeeklyInit
  <2> DEFINE w == weekly[i]
  <2>2. RunTypes(w) /\ RunAddsUp(w) /\ w.status = "none" /\ w.at \notin {"end", "done"}
    <3>1. at \in {"off", "start", "crashed"} /\ w = [NewWeekly EXCEPT !.at = at]
        BY <2>1
    <3> HIDE DEF w
    <3> QED BY ONLY <3>1, WeeklyKnowsNothing
  <2> QED BY <2>2 DEF RunInv, RunTells
<1>7. ReportInv /\ enrolled \subseteq StudentIds
    BY <1>1, NothingIsStored DEF WeeklyInit
<1>8. WeeklyInv
    BY <1>6, <1>7 DEF WeeklyInv, RunInv
<1> QED BY <1>3, <1>4, <1>5, <1>8, DailyKnowsNothing, MondayKnowsNothing DEF IInv

LEMMA JobsKeepSound == IInv /\ [Next]_vars => IInv'
<1> SUFFICES ASSUME IInv, [Next]_vars PROVE IInv'
    OBVIOUS
<1>0. HistoryInv /\ OneJob /\ DailyInv /\ MondayInv /\ WeeklyInv
    BY DEF IInv, SharedInv, HistoryInv
<1>1. CASE DailyNext /\ UNCHANGED <<weeklyVars, mondayVars>>
  <2>1. /\ HistoryInv' /\ DailyInv' /\ UNCHANGED <<facts, reachable>>
        /\ daily.at # "off"
      BY <1>0, <1>1, DailySteps
  <2>2. monday.at = "off" /\ \A i \in Instances : weekly[i].at = "off"
      BY <1>0, <2>1 DEF OneJob
  <2>3. MondayInv' /\ WeeklyInv'
      BY <1>0, <1>1, <2>1, <2>2, MondayUnmoved, WeeklyUnmoved
  <2>4. OneJob'
      BY <1>1, <2>2 DEF OneJob, weeklyVars, mondayVars
  <2> QED BY <2>1, <2>3, <2>4 DEF IInv, SharedInv, HistoryInv
<1>2. CASE WeeklyNext /\ UNCHANGED <<dailyVars, mondayVars>>
  <2>1. /\ HistoryInv' /\ WeeklyInv' /\ UNCHANGED <<facts, reachable>>
        /\ \E i \in Instances : weekly[i].at # "off"
      BY <1>0, <1>2, WeeklySteps
  <2>2. daily.at = "off" /\ monday.at = "off"
      BY <1>0, <2>1 DEF OneJob
  <2>3. MondayInv' /\ DailyInv'
      BY <1>0, <1>2, <2>1, <2>2, MondayUnmoved, DailyUnmoved
  <2>4. OneJob'
      BY <1>2, <2>2 DEF OneJob, dailyVars, mondayVars
  <2> QED BY <2>1, <2>3, <2>4 DEF IInv, SharedInv, HistoryInv
<1>3. CASE MondayNext /\ UNCHANGED <<dailyVars, weeklyVars>>
  <2>1. /\ HistoryInv' /\ MondayInv' /\ UNCHANGED <<facts, reachable>>
        /\ monday.at # "off"
      BY <1>0, <1>3, MondaySteps
  <2>2. daily.at = "off" /\ \A i \in Instances : weekly[i].at = "off"
      BY <1>0, <2>1 DEF OneJob
  <2>3. DailyInv' /\ WeeklyInv'
      BY <1>0, <1>3, <2>1, <2>2, DailyUnmoved, WeeklyUnmoved
  <2>4. OneJob'
      BY <1>3, <2>2 DEF OneJob, dailyVars, weeklyVars
  <2> QED BY <2>1, <2>3, <2>4 DEF IInv, SharedInv, HistoryInv
<1>4. CASE UNCHANGED vars
  <2>1. UNCHANGED databaseVars /\ UNCHANGED dailyVars /\ UNCHANGED weeklyVars /\ UNCHANGED mondayVars
      BY <1>4 DEF vars
  <2>2. UNCHANGED <<facts, reachable>> /\ session' = session
      BY <2>1 DEF databaseVars
  <2>3. DailyInv' /\ MondayInv' /\ WeeklyInv'
      BY <1>0, <2>1, <2>2, DailyUnmoved, MondayUnmoved, WeeklyUnmoved
  <2>4. HistoryInv' /\ OneJob'
      BY <1>0, <2>1 DEF databaseVars, dailyVars, weeklyVars, mondayVars, HistoryInv, DatabaseTypeOK,
                        HistoryTellsResults, OneJob
  <2> QED BY <2>3, <2>4 DEF IInv, SharedInv, HistoryInv
<1> QED BY <1>1, <1>2, <1>3, <1>4 DEF Next

(* The invariant of the jobs, for any students and facts, tutors, reports  *)
(* and page size.                                                          *)
THEOREM JobsInvariant == Spec => []IInv
BY InitiallySound, JobsKeepSound, PTL DEF Spec

(* Every field of the runs, the rows and the messages has its type.        *)
THEOREM JobTypes == Spec => []TypeOK
<1>1. IInv => TypeOK
  <2> SUFFICES ASSUME IInv PROVE TypeOK
      OBVIOUS
  <2>1. DatabaseTypeOK /\ DailyTypeOK /\ MondayTypeOK
      BY DEF IInv, SharedInv, DailyInv, DailyTypes, MondayInv, MondayTypes
  <2>2. WeeklyTypeOK
      BY DEF IInv, WeeklyInv, RunTypes, ReportInv, StoreHasAuthor, NoReport, WeeklyTypeOK
  <2> QED BY <2>1, <2>2 DEF TypeOK
<1> QED BY <1>1, JobsInvariant, PTL

(* The history never tells of a result what the run did not come to, and   *)
(* leaves none of the daily and weekly runs that end as running: whatever  *)
(* fails on the way, a run that comes to its own end has a usable session. *)
THEOREM HistoryIsTrue == Spec => []HistoryTellsResults
<1>1. IInv => HistoryTellsResults
    BY DEF IInv, SharedInv
<1> QED BY <1>1, JobsInvariant, PTL

(* A daily run that reports its three parts as completed left no student   *)
(* out, for every number of students, tutors, alerts and messages of an    *)
(* alert: all the assigned tutors who have a chat got all of them.         *)
THEOREM NobodyIsSkipped == Spec => []NobodyIsSkippedSilently
<1>1. IInv => NobodyIsSkippedSilently
  <2> SUFFICES ASSUME IInv, At("done"), {daily.risks, daily.alerts, daily.notified} = {"completed"},
                      NEW s \in daily.first \cap daily.again
               PROVE  LET risk == RiskOf(s)
                          alerts == {a \in daily.generated.alerts : a.student = s}
                      IN  /\ risk.parsed /\ risk.attention =>
                                 \E a \in alerts : Concerns(a.type, risk) \cap risk.actionable # {}
                          /\ alerts # {} => RecipientsOf(s) # {}
                          /\ \A a \in alerts, t \in RecipientsOf(s) : \A c \in 1..ChunksOf(a.type) :
                                 [student |-> s, type |-> a.type, tutor |-> t, chunk |-> c]
                                     \in arrived
      BY DEF NobodyIsSkippedSilently, RiskOf
  <2>1. daily.alerts = "completed" /\ daily.notified = "completed"
      OBVIOUS
  <2>2. daily.at \in FromDelivery /\ daily.at \in FromAlerts \ {"alerts.end"}
      BY DEF At, FromDelivery, FromAlerts
  <2>3. daily.generated.status = "completed"
      BY <2>1, <2>2 DEF IInv, DailyInv, DeliveryIsSeen
  <2>4. Alarming(s) => Alerted(s)
      BY <2>2, <2>3 DEF IInv, DailyInv, AlertsAreSeen
  <2>5. \A a \in daily.generated.alerts : Reached(a)
      BY <2>1, <2>2 DEF IInv, DailyInv, DeliveryIsSeen
  <2> DEFINE risk == RiskOf(s)
  <2>6. risk.parsed /\ risk.attention =>
            \E a \in daily.generated.alerts :
                a.student = s /\ Concerns(a.type, risk) \cap risk.actionable # {}
      BY <2>4 DEF Alarming, Alerted
  <2> HIDE DEF risk
  <2>7. ASSUME NEW a \in daily.generated.alerts, a.student = s
        PROVE  /\ RecipientsOf(s) # {}
               /\ \A t \in RecipientsOf(s), c \in 1..ChunksOf(a.type) :
                      [student |-> s, type |-> a.type, tutor |-> t, chunk |-> c] \in arrived
      BY <2>5, <2>7 DEF Reached
  <2> QED BY <2>6, <2>7 DEF risk
<1> QED BY <1>1, JobsInvariant, PTL

(* What a weekly report says adds up, however many students there are,     *)
(* however they are paged and whatever of it could not be read.            *)
THEOREM ReportsAddUp == Spec => []ReportAddsUp
<1>1. IInv => ReportAddsUp
  <2> SUFFICES ASSUME IInv, NEW i \in Instances, weekly[i].at \in {"save", "end", "done"}
               PROVE  LET w == weekly[i] IN
                      /\ w.directory = "completed" =>
                             /\ w.total = Len(w.listed) /\ Total(w.buckets) = w.total
                             /\ w.progress # "failed" => Total(w.counts) = w.total
                             /\ w.progress = "completed" => IsInjective(w.listed)
                      /\ w.status = "completed" =>
                             /\ w.directory = "completed" /\ w.persistence # "failed"
                             /\ w.buckets["PARTIAL"] + w.buckets["UNAVAILABLE"] = 0
      BY DEF ReportAddsUp
  <2>1. RunAddsUp(weekly[i]) /\ RunTells(weekly[i], i)
      BY DEF IInv, WeeklyInv
  <2>2. weekly[i].status = "completed" => weekly[i].at \in {"end", "done"}
      BY <2>1 DEF RunTells
  <2> QED BY <2>1, <2>2 DEF RunAddsUp, RunTells
<1> QED BY <1>1, JobsInvariant, PTL

(* A Monday briefing without a warning is about everybody and names all    *)
(* who need attention, and a completed run brought one to every tutor.     *)
THEOREM BriefingsAreWhole == Spec => []BriefingIsWholeOrWarns
<1>1. IInv => BriefingIsWholeOrWarns
  <2> SUFFICES ASSUME IInv PROVE BriefingIsWholeOrWarns
      OBVIOUS
  <2>1. \A b \in monday.briefings : ~b.warned =>
            b.students = AssignedTo[b.tutor] /\ b.priority = {s \in b.students : NeedsAttention(s)}
      BY DEF IInv, MondayInv, BriefingsTell, Whole
  <2>2. monday.at = "done" /\ monday.status = "completed" =>
            \A t \in Tutors : t \in received /\ \E b \in monday.briefings : b.tutor = t /\ ~b.warned
      BY DEF IInv, MondayInv, BriefingsTell, Written
  <2> QED BY <2>1, <2>2 DEF BriefingIsWholeOrWarns
<1> QED BY <1>1, JobsInvariant, PTL
-----------------------------------------------------------------------------
(* The rest of the module is about the policy the detection and the Monday *)
(* briefing of the scheduled workflows judge by, and about what the        *)
(* tutors' other views make of the same facts (EvidenceChain).  Each of    *)
(* them is a function of the facts of one student, so the properties of    *)
(* the chain are lemmas about these functions.                             *)

\* Every set of indicators is finite.
LEMMA SetsOfIndicators ==
    ASSUME NEW S \in SUBSET Indicators
    PROVE  IsFiniteSet(S)
<1>1. IsFiniteSet(Indicators)
  <2>1. /\ IsFiniteSet({"academic_delay"}) /\ IsFiniteSet({"study_right"})
        /\ IsFiniteSet({"tutor_meetings"}) /\ IsFiniteSet({"academic_events"})
      BY FS_Singleton
  <2>2. Indicators = (({"academic_delay"} \cup {"study_right"}) \cup {"tutor_meetings"})
                     \cup {"academic_events"}
      BY DEF Indicators
  <2> QED BY <2>1, <2>2, FS_Union
<1> QED BY <1>1, FS_Subset

(* A sum over some indicators, written out.                                *)
Share(f, S, i) == IF i \in S THEN f[i] ELSE 0

\* A sum over indicators, term by term.
LEMMA SumOverIndicators ==
    ASSUME NEW S \in SUBSET Indicators, NEW f, \A i \in S : f[i] \in Int
    PROVE  SumOf(f, S) = Share(f, S, "academic_delay") + Share(f, S, "study_right")
                         + Share(f, S, "tutor_meetings") + Share(f, S, "academic_events")
<1> DEFINE Upto(N) == [i \in S |-> IF i \in N THEN f[i] ELSE 0]
           Sum(N) == Summation(Upto(N), S)[S]
           d == "academic_delay"
           r == "study_right"
           m == "tutor_meetings"
           e == "academic_events"
<1>1. IsFiniteSet(S)
    BY SetsOfIndicators
<1>2. Sum({}) = 0
  <2>1. \A x \in S : Upto({})[x] = 0
      OBVIOUS
  <2> HIDE DEF Upto
  <2>2. \A x \in S : Upto({})[x] \in Nat
      BY <2>1
  <2> QED BY <1>1, <2>1, <2>2, SumOfNaturals
<1>3. ASSUME NEW N, NEW k \in Indicators \ N
      PROVE  Sum(N) \in Int /\ Sum(N \cup {k}) = Sum(N) + Share(f, S, k)
  <2>1. \A x \in S : Upto(N)[x] \in Int
      OBVIOUS
  <2>2. \A x \in S \ {k} : Upto(N \cup {k})[x] = Upto(N)[x]
      OBVIOUS
  <2>3. CASE k \in S
    <3>1. Upto(N \cup {k})[k] = Upto(N)[k] + f[k] /\ f[k] \in Int
        BY <1>3, <2>3
    <3> DEFINE less == Upto(N)
               more == Upto(N \cup {k})
    <3>2. /\ \A x \in S : less[x] \in Int
          /\ more[k] = less[k] + f[k]
          /\ \A x \in S \ {k} : more[x] = less[x]
        BY <2>1, <2>2, <3>1
    <3> HIDE DEF less, more
    <3>3. /\ Summation(less, S)[S] \in Int
          /\ Summation(more, S)[S] = Summation(less, S)[S] + f[k]
        BY <1>1, <2>3, <3>1, <3>2, SumIncrement
    <3> QED BY <2>3, <3>3 DEF Share, less, more
  <2>4. CASE k \notin S
    <3>1. Upto(N \cup {k}) = Upto(N)
        BY <2>4
    <3>2. Sum(N) \in Int
      <4>1. CASE S = {}
        <5>1. \A x \in S : Upto(N)[x] \in Nat
            BY <4>1
        <5> HIDE DEF Upto
        <5> QED BY <1>1, <5>1, SumOfNaturals
      <4>2. ASSUME NEW x \in S PROVE Sum(N) \in Int
        <5>1. Upto(N)[x] = Upto(N)[x] + 0
            BY <2>1
        <5> HIDE DEF Upto
        <5> QED BY <1>1, <2>1, <5>1, SumIncrement
      <4> QED BY <4>1, <4>2
    <3> QED BY <2>4, <3>1, <3>2 DEF Share
  <2> QED BY <2>3, <2>4
<1>4. SumOf(f, S) = Sum(Indicators)
  <2>1. SumOf(f, S) = Summation(f, S)[S]
      BY SumIsSummation DEF SumOf
  <2>2. CASE S = {}
    <3>1. Upto(Indicators) = <<>> /\ \A x \in S : f[x] \in Nat /\ Upto(Indicators)[x] \in Nat
        BY <2>2
    <3>2. \A x \in S : f[x] = 0 /\ Upto(Indicators)[x] = 0
        BY <2>2
    <3> HIDE DEF Upto
    <3>3. Summation(f, S)[S] = 0 /\ Summation(Upto(Indicators), S)[S] = 0
        BY <1>1, <3>1, <3>2, SumOfNaturals
    <3> QED BY <2>1, <3>3
  <2>3. ASSUME NEW k \in S PROVE SumOf(f, S) = Sum(Indicators)
    <3>1. \A x \in S : Upto(Indicators)[x] = f[x] /\ f[x] \in Int
        OBVIOUS
    <3> HIDE DEF Upto
    <3>2. f[k] = Upto(Indicators)[k] + 0
        BY <3>1
    <3>3. /\ Summation(Upto(Indicators), S)[S] \in Int
          /\ Summation(f, S)[S] = Summation(Upto(Indicators), S)[S] + 0
        BY <1>1, <3>1, <3>2, SumIncrement
    <3> QED BY <2>1, <3>3
  <2> QED BY <2>2, <2>3
<1> HIDE DEF Sum
<1>5. /\ Sum({} \cup {d}) = Sum({}) + Share(f, S, d)
      /\ Sum({d} \cup {r}) = Sum({d}) + Share(f, S, r)
      /\ Sum({d, r} \cup {m}) = Sum({d, r}) + Share(f, S, m)
      /\ Sum({d, r, m} \cup {e}) = Sum({d, r, m}) + Share(f, S, e)
    BY <1>3 DEF Indicators
<1>6. /\ {} \cup {d} = {d} /\ {d} \cup {r} = {d, r} /\ {d, r} \cup {m} = {d, r, m}
      /\ {d, r, m} \cup {e} = Indicators
    BY DEF Indicators
<1>7. \A i \in Indicators : Share(f, S, i) \in Int
    BY DEF Share
<1> QED BY <1>2, <1>4, <1>5, <1>6, <1>7 DEF Indicators

(* What an indicator contributes is within its weight, and nothing when it *)
(* is absent; the rule of an expired study right gives it all its points.  *)
LEMMA PointsAreWithin ==
    ASSUME NEW student
    PROVE  LET found == Evaluate(student)
           IN  /\ \A i \in Indicators : /\ found[i].points \in 0..MaximumPoints[i]
                                        /\ found[i] = Absent => found[i].points = 0
               /\ found["study_right"].rule = "EXPIRED" => found["study_right"].points = 30
<1> DEFINE Within(c, n) == c.points \in 0..n /\ (c = Absent => c.points = 0)
<1>1. Within(EvaluateDelay(DetectStudentDelay(student.ects)), 50)
    BY DEF EvaluateDelay, Absent, Contribution
<1>2. ASSUME NEW result
      PROVE  LET c == EvaluateStudyRight(result)
             IN  Within(c, 30) /\ (c.rule = "EXPIRED" => c.points = 30)
    BY DEF EvaluateStudyRight, Absent, Contribution, StudyRightPoints
<1>3. Within(EvaluateTutorMeetings(EvaluateStudentMeetings(student.meetings)), 10)
    BY DEF EvaluateTutorMeetings, EvaluateStudentMeetings, NoEvaluation, Evaluation, Absent,
           Contribution
<1>4. Within(EvaluateAcademicEvents(GetUpcomingEvents(student.events)), 10)
    BY DEF EvaluateAcademicEvents, Absent, Contribution
<1> QED BY <1>1, <1>2, <1>3, <1>4 DEF Evaluate, Indicators, MaximumPoints

(* Normalising by the weights found moves a score up, and no further than  *)
(* the weights that are missing.                                           *)
LEMMA NormalizedScoreIsBetween ==
    ASSUME NEW maximum \in {80, 90}, NEW score \in 0..maximum
    PROVE  /\ NormalizeAvailableIndicatorScore(score, maximum) \in 0..100
           /\ score <= NormalizeAvailableIndicatorScore(score, maximum)
           /\ NormalizeAvailableIndicatorScore(score, maximum) <= score + (100 - maximum)
<1> DEFINE rounded == RoundHalfEven(score * 100, maximum)
<1>1. rounded \in Int /\ score <= rounded /\ rounded <= score + (100 - maximum)
  <2>1. CASE maximum = 80
    <3>1. RoundHalfEven(score * 100, 80) \in Int
          /\ score <= RoundHalfEven(score * 100, 80)
          /\ RoundHalfEven(score * 100, 80) <= score + 20
        BY <2>1 DEF RoundHalfEven
    <3> QED BY <2>1, <3>1
  <2>2. CASE maximum = 90
    <3>1. RoundHalfEven(score * 100, 90) \in Int
          /\ score <= RoundHalfEven(score * 100, 90)
          /\ RoundHalfEven(score * 100, 90) <= score + 10
        BY <2>2 DEF RoundHalfEven
    <3> QED BY <2>2, <3>1
  <2> QED BY <2>1, <2>2
<1> HIDE DEF rounded
<1>2. rounded \in 0..100
    BY <1>1
<1>3. Min({100, rounded}) = rounded /\ Max({0, rounded}) = rounded
    BY <1>2, MaxOfTwo, MinOfTwo
<1> QED BY <1>1, <1>2, <1>3 DEF NormalizeAvailableIndicatorScore, rounded

\* The indicators a student was evaluated by.
Known(found) == {i \in Indicators : found[i] # Absent}

\* What they contribute, and what they could have.
Points(found) == found["academic_delay"].points + found["study_right"].points
                 + found["tutor_meetings"].points + found["academic_events"].points
Weight(found) == (IF found["tutor_meetings"] = Absent THEN 0 ELSE 10)
                 + (IF found["academic_events"] = Absent THEN 0 ELSE 10) + 80

Expired(found) == found["study_right"].rule = "EXPIRED"
Adjusted(found) == AdjustedScore(Points(found), Expired(found))

\* Contributions an evaluation may find, those that count as absent among them.
Evaluated(found) ==
    /\ \A i \in Indicators : /\ found[i].points \in 0..MaximumPoints[i]
                             /\ found[i] = Absent => found[i].points = 0
    /\ Expired(found) => found["study_right"].points = 30
    /\ RequiredIndicators \subseteq Known(found)

\* The sums the score is made of, and their bounds.
LEMMA PointsAndWeight ==
    ASSUME NEW found, Evaluated(found)
    PROVE  /\ Points(found) \in Nat /\ Weight(found) \in {80, 90, 100}
           /\ Points(found) <= Weight(found)
           /\ Weight(found) = 100 <=> Known(found) = Indicators
           /\ Adjusted(found) \in Nat /\ Adjusted(found) <= Weight(found)
           /\ Adjusted(found) = IF Expired(found) /\ Points(found) < 70 THEN 70 ELSE Points(found)
<1> DEFINE d == found["academic_delay"].points
           r == found["study_right"].points
           m == found["tutor_meetings"].points
           e == found["academic_events"].points
<1>1. d \in 0..50 /\ r \in 0..30 /\ m \in 0..10 /\ e \in 0..10
    BY DEF Evaluated, Indicators, MaximumPoints
<1>2. /\ found["tutor_meetings"] = Absent => m = 0
      /\ found["academic_events"] = Absent => e = 0
    BY DEF Evaluated, Indicators
<1>3. Points(found) = d + r + m + e
    BY DEF Points
<1>4. Weight(found) = 100 <=> Known(found) = Indicators
    BY DEF Evaluated, RequiredIndicators, Known, Indicators, Weight
<1> HIDE DEF d, r, m, e
<1>5. Points(found) \in Nat /\ Points(found) <= Weight(found) /\ Weight(found) \in {80, 90, 100}
    BY <1>1, <1>2, <1>3 DEF Weight
<1>6. Adjusted(found) = IF Expired(found) /\ Points(found) < 70 THEN 70 ELSE Points(found)
    BY <1>5, MaxOfTwo DEF Adjusted, AdjustedScore
<1> QED BY <1>4, <1>5, <1>6

(* The score of an evaluation: all points found, the override, and the     *)
(* normalisation when something is missing and a partial level allowed.    *)
ScoreOf(found, allow) ==
    IF Known(found) = Indicators THEN Adjusted(found)
    ELSE IF allow THEN PartialScore(Points(found), Adjusted(found), Weight(found))
    ELSE -1

IsScore(result, found, allow) ==
    /\ result.success
    /\ result.status = IF Known(found) = Indicators THEN "COMPLETE" ELSE "PARTIAL"
    /\ result.score = ScoreOf(found, allow)
    /\ result.level = IF ScoreOf(found, allow) = -1 THEN "none"
                      ELSE ClassifyRiskScore(ScoreOf(found, allow))
    /\ result.basis = IF Known(found) = Indicators THEN "all_indicators"
                      ELSE IF allow THEN "available_indicator_weights" ELSE "none"
    /\ result.raw = Points(found)
    /\ result.contributions = [i \in Known(found) |-> found[i]]
    /\ result.unavailable = Indicators \ Known(found)
    /\ result.overrides = IF Expired(found)
                          THEN {[raw |-> Points(found), adjusted |-> Adjusted(found)]} ELSE {}

\* What the policy returns for indicators that were found.
LEMMA Calculated ==
    ASSUME NEW found, NEW allow, Evaluated(found)
    PROVE  IsScore(CalculateAcademicRisk(found, allow), found, allow)
<1>1. Known(found) \in SUBSET Indicators /\ RequiredIndicators \subseteq Known(found)
    BY DEF Known, Evaluated
<1>2. SumOf([i \in Known(found) |-> found[i].points], Known(found)) = Points(found)
  <2> DEFINE f == [i \in Known(found) |-> found[i].points]
  <2>1. \A i \in Known(found) : f[i] \in Int
      BY DEF Evaluated, Known, Indicators, MaximumPoints
  <2>2. \A i \in Indicators : Share(f, Known(found), i) = found[i].points
      BY DEF Evaluated, Known, Share
  <2> HIDE DEF f
  <2>3. SumOf(f, Known(found)) = Share(f, Known(found), "academic_delay")
            + Share(f, Known(found), "study_right") + Share(f, Known(found), "tutor_meetings")
            + Share(f, Known(found), "academic_events")
      BY <1>1, <2>1, SumOverIndicators
  <2> QED BY <2>2, <2>3 DEF Points, Indicators, f
<1>3. SumOf([i \in Known(found) |-> MaximumPoints[i]], Known(found)) = Weight(found)
  <2> DEFINE f == [i \in Known(found) |-> MaximumPoints[i]]
  <2>1. \A i \in Known(found) : f[i] \in Int
      BY DEF Known, Indicators, MaximumPoints
  <2>2. /\ Share(f, Known(found), "academic_delay") = 50
        /\ Share(f, Known(found), "study_right") = 30
        /\ Share(f, Known(found), "tutor_meetings") =
               IF found["tutor_meetings"] = Absent THEN 0 ELSE 10
        /\ Share(f, Known(found), "academic_events") =
               IF found["academic_events"] = Absent THEN 0 ELSE 10
      BY <1>1 DEF Known, Share, Indicators, RequiredIndicators, MaximumPoints
  <2> HIDE DEF f
  <2>3. SumOf(f, Known(found)) = Share(f, Known(found), "academic_delay")
            + Share(f, Known(found), "study_right") + Share(f, Known(found), "tutor_meetings")
            + Share(f, Known(found), "academic_events")
      BY <1>1, <2>1, SumOverIndicators
  <2>4. SumOf(f, Known(found)) = Weight(found)
      BY <2>2, <2>3 DEF Weight
  <2> QED BY <2>4 DEF f
<1>4. Known(found) = Indicators <=> Indicators \ Known(found) = {}
    BY <1>1
<1> DEFINE whole == Known(found) = Indicators
           score == IF whole THEN Adjusted(found)
                    ELSE IF allow THEN PartialScore(Points(found), Adjusted(found), Weight(found))
                    ELSE -1
<1>5. CalculateAcademicRisk(found, allow) =
          [success |-> TRUE,
           status |-> IF whole THEN "COMPLETE" ELSE "PARTIAL",
           score |-> score,
           level |-> IF score = -1 THEN "none" ELSE ClassifyRiskScore(score),
           basis |-> IF whole THEN "all_indicators"
                     ELSE IF allow THEN "available_indicator_weights" ELSE "none",
           raw |-> Points(found), maximum |-> Weight(found),
           contributions |-> [i \in Known(found) |-> found[i]],
           unavailable |-> Indicators \ Known(found),
           overrides |-> IF Expired(found)
                         THEN {[raw |-> Points(found), adjusted |-> Adjusted(found)]} ELSE {}]
    BY <1>1, <1>2, <1>3, <1>4
    DEF CalculateAcademicRisk, Known, Adjusted, Expired
<1>6. score = ScoreOf(found, allow)
    BY DEF ScoreOf
<1> HIDE DEF score
<1> QED BY <1>5, <1>6 DEF IsScore

(* A lower score is not of a higher level.                                 *)
LEMMA LevelsAreOrdered ==
    ASSUME NEW a \in Int, NEW b \in Int, a <= b
    PROVE  LevelOrder[ClassifyRiskScore(a)] <= LevelOrder[ClassifyRiskScore(b)]
BY DEF LevelOrder, ClassifyRiskScore

(* An assessment succeeds when both required indicators were found.        *)
LEMMA AssessmentSucceeds ==
    ASSUME NEW student, NEW allow
    PROVE  LET found == Evaluate(student)
           IN  /\ AssessStudentRisk(student, allow) = CalculateAcademicRisk(found, allow)
               /\ AssessStudentRisk(student, allow).success => Evaluated(found)
               /\ Evaluated(found) => AssessStudentRisk(student, allow).success
<1> DEFINE found == Evaluate(student)
           result == CalculateAcademicRisk(found, allow)
<1>0. AssessStudentRisk(student, allow) = CalculateAcademicRisk(found, allow)
    BY DEF AssessStudentRisk
<1>1. ASSUME result.success PROVE RequiredIndicators \subseteq Known(found)
  <2> HIDE DEF found
  <2>1. ASSUME ~(RequiredIndicators \subseteq Known(found)) PROVE ~result.success
      BY <2>1 DEF CalculateAcademicRisk, Known, Unprocessable
  <2> QED BY <1>1, <2>1
<1>2. result.success => Evaluated(found)
    BY <1>1, PointsAreWithin DEF Evaluated, Expired
<1>3. ASSUME Evaluated(found) PROVE result.success
  <2> HIDE DEF found
  <2> QED BY <1>3, Calculated DEF IsScore
<1> QED BY <1>0, <1>2, <1>3

(* The partial score lies between the score of the points found and that   *)
(* with the missing weights added.                                         *)
LEMMA PartialScoreIsBetween ==
    ASSUME NEW found, Evaluated(found), Known(found) # Indicators
    PROVE  LET score == PartialScore(Points(found), Adjusted(found), Weight(found))
           IN  /\ score \in 0..100
               /\ Adjusted(found) <= score
               /\ score <= Adjusted(found) + (100 - Weight(found))
               /\ Points(found) <= 10 => score <= 13 \/ Expired(found)
<1>1. Weight(found) \in {80, 90} /\ Adjusted(found) \in 0..Weight(found)
    BY PointsAndWeight
<1>2. Points(found) <= 10 => Adjusted(found) <= 10 \/ Expired(found)
    BY PointsAndWeight
<1>3. ASSUME NEW n \in 0..10, NEW max \in {80, 90}
      PROVE  NormalizeAvailableIndicatorScore(n, max) <= 13
  <2> DEFINE rounded == RoundHalfEven(n * 100, max)
  <2>1. rounded \in 0..13
    <3>1. CASE max = 80
      BY <3>1 DEF RoundHalfEven
    <3>2. CASE max = 90
      BY <3>2 DEF RoundHalfEven
    <3> QED BY <3>1, <3>2
  <2> HIDE DEF rounded
  <2>2. Min({100, rounded}) = rounded /\ Max({0, rounded}) = rounded
      BY <2>1, MaxOfTwo, MinOfTwo
  <2> QED BY <2>1, <2>2 DEF NormalizeAvailableIndicatorScore, rounded
<1> DEFINE adjusted == Adjusted(found)
           weight == Weight(found)
<1> HIDE DEF adjusted, weight
<1>4. adjusted \in 0..weight /\ weight \in {80, 90}
    BY <1>1 DEF adjusted, weight
<1> DEFINE normal == NormalizeAvailableIndicatorScore(adjusted, weight)
<1>5. normal \in 0..100 /\ adjusted <= normal /\ normal <= adjusted + (100 - weight)
  <2>1. NormalizeAvailableIndicatorScore(adjusted, weight) \in 0..100
      BY <1>4, NormalizedScoreIsBetween, ZenonT(40)
  <2>2. adjusted <= NormalizeAvailableIndicatorScore(adjusted, weight)
      BY <1>4, NormalizedScoreIsBetween, ZenonT(40)
  <2>3. NormalizeAvailableIndicatorScore(adjusted, weight) <= adjusted + (100 - weight)
      BY <1>4, NormalizedScoreIsBetween, ZenonT(40)
  <2> QED BY <2>1, <2>2, <2>3
<1>6. adjusted <= 10 => NormalizeAvailableIndicatorScore(adjusted, weight) <= 13
    BY <1>3, <1>4
<1> QED BY <1>2, <1>5, <1>6 DEF PartialScore, adjusted, weight, normal

(* A student's evaluation with the missing indicators assumed.             *)
AssumedFor(student, points) ==
    [i \in Indicators |->
        LET found == Evaluate(student)[i]
        IN  IF found = Absent THEN Contribution(points[i], "ASSUMED") ELSE found]

\* Assuming points for the missing indicators gives a complete evaluation.
LEMMA AssumedEvaluation ==
    ASSUME NEW student, Evaluated(Evaluate(student)),
           NEW points, \A i \in Indicators : points[i] \in 0..MaximumPoints[i]
    PROVE  LET found == Evaluate(student)
               assumed == AssumedFor(student, points)
           IN  /\ Evaluated(assumed) /\ Known(assumed) = Indicators
               /\ Expired(assumed) = Expired(found)
               /\ Completed(student, points).level = ClassifyRiskScore(Adjusted(assumed))
               /\ Points(assumed) = Points(found)
                    + (IF found["tutor_meetings"] = Absent THEN points["tutor_meetings"] ELSE 0)
                    + (IF found["academic_events"] = Absent THEN points["academic_events"] ELSE 0)
<1> DEFINE found == Evaluate(student)
           assumed == AssumedFor(student, points)
<1> USE DEF Indicators
<1>1. \A i \in Indicators : assumed[i] = IF found[i] = Absent
                                         THEN Contribution(points[i], "ASSUMED") ELSE found[i]
    BY DEF AssumedFor
<1>2. /\ \A i \in Indicators : found[i].points \in 0..MaximumPoints[i]
      /\ \A i \in Indicators : found[i] = Absent => found[i].points = 0
      /\ Expired(found) => found["study_right"].points = 30
      /\ found["academic_delay"] # Absent /\ found["study_right"] # Absent
    BY DEF Evaluated, Known, RequiredIndicators
<1> HIDE DEF found
<1>3. \A i \in Indicators : assumed[i] # Absent
  <2>1. \A n : Contribution(n, "ASSUMED") # Absent
      BY DEF Contribution, Absent
  <2> QED BY <1>1, <2>1
<1>4. assumed["academic_delay"] = found["academic_delay"]
      /\ assumed["study_right"] = found["study_right"]
    BY <1>1, <1>2
<1>5. \A i \in Indicators : assumed[i].points = IF found[i] = Absent THEN points[i]
                                                ELSE found[i].points
    BY <1>1 DEF Contribution
<1> HIDE DEF assumed
<1>6. Known(assumed) = Indicators
    BY <1>3 DEF Known
<1>7. Expired(assumed) = Expired(found)
    BY <1>4 DEF Expired
<1>8. Evaluated(assumed)
  <2>1. \A i \in Indicators : assumed[i].points \in 0..MaximumPoints[i]
      BY <1>2, <1>5
  <2>2. Expired(assumed) => assumed["study_right"].points = 30
      BY <1>2, <1>4, <1>7
  <2>3. RequiredIndicators \subseteq Known(assumed)
      BY <1>6 DEF RequiredIndicators
  <2> QED BY <1>3, <2>1, <2>2, <2>3 DEF Evaluated
<1>9. Completed(student, points).level = ClassifyRiskScore(Adjusted(assumed))
  <2>1. Completed(student, points) = CalculateAcademicRisk(assumed, FALSE)
      BY DEF Completed, assumed, AssumedFor, found
  <2>2. /\ Adjusted(assumed) # -1
        /\ ScoreOf(assumed, FALSE) = Adjusted(assumed)
      BY <1>6, <1>8, PointsAndWeight DEF ScoreOf
  <2>3. CalculateAcademicRisk(assumed, FALSE).level =
            IF ScoreOf(assumed, FALSE) = -1 THEN "none"
            ELSE ClassifyRiskScore(ScoreOf(assumed, FALSE))
      BY <1>8, Calculated DEF IsScore
  <2> QED BY <2>1, <2>2, <2>3
<1>10. Points(assumed) = Points(found)
           + (IF found["tutor_meetings"] = Absent THEN points["tutor_meetings"] ELSE 0)
           + (IF found["academic_events"] = Absent THEN points["academic_events"] ELSE 0)
  <2> DEFINE d == found["academic_delay"].points
             r == found["study_right"].points
             m == found["tutor_meetings"].points
             e == found["academic_events"].points
             pm == points["tutor_meetings"]
             pe == points["academic_events"]
  <2>1. d \in Int /\ r \in Int /\ m \in Int /\ e \in Int /\ pm \in Int /\ pe \in Int
      BY <1>2 DEF MaximumPoints
  <2>2. /\ assumed["academic_delay"].points = d /\ assumed["study_right"].points = r
        /\ assumed["tutor_meetings"].points = IF found["tutor_meetings"] = Absent THEN pm ELSE m
        /\ assumed["academic_events"].points = IF found["academic_events"] = Absent THEN pe ELSE e
        /\ found["tutor_meetings"] = Absent => m = 0
        /\ found["academic_events"] = Absent => e = 0
      BY <1>2, <1>5
  <2>3. Points(assumed) = assumed["academic_delay"].points + assumed["study_right"].points
              + assumed["tutor_meetings"].points + assumed["academic_events"].points
        /\ Points(found) = d + r + m + e
      BY DEF Points
  <2> HIDE DEF d, r, m, e, pm, pe
  <2> QED BY <2>1, <2>2, <2>3 DEF pm, pe
<1> QED BY <1>6, <1>7, <1>8, <1>9, <1>10 DEF found, assumed

(* The level of every assessment lies between the two.                     *)
LEMMA LevelsAreBracketed ==
    ASSUME NEW student, AssessStudentRisk(student, TRUE).success
    PROVE  LevelIsBracketed(student, AssessStudentRisk(student, TRUE).level)
<1> DEFINE found == Evaluate(student)
           nothing == AssumedFor(student, [i \in Indicators |-> 0])
           full == AssumedFor(student, MaximumPoints)
           level == AssessStudentRisk(student, TRUE).level
           score == ScoreOf(found, TRUE)
<1>1. Evaluated(found)
    BY AssessmentSucceeds
<1>2. Evaluated(nothing) /\ Expired(nothing) = Expired(found)
      /\ Completed(student, [i \in Indicators |-> 0]).level = ClassifyRiskScore(Adjusted(nothing))
      /\ Points(nothing) = Points(found)
  <2>1. \A i \in Indicators : [j \in Indicators |-> 0][i] \in 0..MaximumPoints[i]
      BY DEF Indicators, MaximumPoints
  <2>2. Points(found) \in Nat
      BY <1>1, PointsAndWeight
  <2> DEFINE none == [i \in Indicators |-> 0]
  <2>3. none["tutor_meetings"] = 0 /\ none["academic_events"] = 0
      BY DEF Indicators
  <2> HIDE DEF none
  <2>4. \A i \in Indicators : none[i] \in 0..MaximumPoints[i]
      BY <2>1 DEF none
  <2>5. LET assumed == AssumedFor(student, none)
        IN  /\ Evaluated(assumed) /\ Expired(assumed) = Expired(found)
            /\ Completed(student, none).level = ClassifyRiskScore(Adjusted(assumed))
            /\ Points(assumed) = Points(found) 
                    + (IF found["tutor_meetings"] = Absent THEN none["tutor_meetings"] ELSE 0)
                    + (IF found["academic_events"] = Absent THEN none["academic_events"] ELSE 0)
      BY <1>1, <2>4, AssumedEvaluation
  <2> HIDE DEF found
  <2>6. Points(AssumedFor(student, none)) = Points(found)
      BY <2>2, <2>3, <2>5
  <2> QED BY <2>5, <2>6 DEF none
<1>3. Evaluated(full) /\ Expired(full) = Expired(found)
      /\ Completed(student, MaximumPoints).level = ClassifyRiskScore(Adjusted(full))
      /\ Points(full) = Points(found) + (100 - Weight(found))
  <2>1. \A i \in Indicators : MaximumPoints[i] \in 0..MaximumPoints[i]
      BY DEF Indicators, MaximumPoints
  <2>2. Points(found) \in Nat
      BY <1>1, PointsAndWeight
  <2>3. MaximumPoints["tutor_meetings"] = 10 /\ MaximumPoints["academic_events"] = 10
      BY DEF MaximumPoints
  <2>4. LET assumed == AssumedFor(student, MaximumPoints)
        IN  /\ Evaluated(assumed) /\ Expired(assumed) = Expired(found)
            /\ Completed(student, MaximumPoints).level = ClassifyRiskScore(Adjusted(assumed))
            /\ Points(assumed) = Points(found) 
                 + (IF found["tutor_meetings"] = Absent THEN MaximumPoints["tutor_meetings"] ELSE 0)
                 + (IF found["academic_events"] = Absent THEN MaximumPoints["academic_events"] ELSE 0)
      BY <1>1, <2>1, AssumedEvaluation
  <2> HIDE DEF found
  <2>5. Points(full) = Points(found) + (100 - Weight(found))
      BY <2>2, <2>3, <2>4 DEF Weight
  <2> QED BY <2>4, <2>5
<1>4. score \in Int /\ level = ClassifyRiskScore(score)
  <2> HIDE DEF found
  <2>1. score \in Nat /\ score # -1
      BY <1>1, PointsAndWeight, PartialScoreIsBetween DEF ScoreOf
  <2>2. level = IF score = -1 THEN "none" ELSE ClassifyRiskScore(score)
    <3>1. AssessStudentRisk(student, TRUE) = CalculateAcademicRisk(found, TRUE)
        BY AssessmentSucceeds DEF found
    <3>2. CalculateAcademicRisk(found, TRUE).level =
              IF score = -1 THEN "none" ELSE ClassifyRiskScore(score)
        BY <1>1, Calculated DEF IsScore
    <3> HIDE DEF score
    <3> QED BY <3>1, <3>2
  <2> HIDE DEF score, level
  <2> QED BY <2>1, <2>2
<1>5. /\ Points(found) \in Nat /\ Weight(found) \in {80, 90, 100}
      /\ Adjusted(found) = IF Expired(found) /\ Points(found) < 70 THEN 70 ELSE Points(found)
      /\ Adjusted(nothing) = IF Expired(found) /\ Points(nothing) < 70 THEN 70 ELSE Points(nothing)
      /\ Adjusted(full) = IF Expired(found) /\ Points(full) < 70 THEN 70 ELSE Points(full)
  <2> HIDE DEF found, nothing, full
  <2>1. /\ Points(found) \in Nat /\ Weight(found) \in {80, 90, 100}
        /\ Adjusted(found) = IF Expired(found) /\ Points(found) < 70 THEN 70 ELSE Points(found)
      BY <1>1, PointsAndWeight
  <2>2. Adjusted(nothing) = IF Expired(nothing) /\ Points(nothing) < 70 THEN 70 ELSE Points(nothing)
      BY <1>2, PointsAndWeight
  <2>3. Adjusted(full) = IF Expired(full) /\ Points(full) < 70 THEN 70 ELSE Points(full)
      BY <1>3, PointsAndWeight
  <2> QED BY <1>2, <1>3, <2>1, <2>2, <2>3
<1>6. Adjusted(found) <= score /\ score <= Adjusted(found) + (100 - Weight(found))
  <2> HIDE DEF found
  <2>1. CASE Known(found) = Indicators
      BY <1>1, <1>5, <2>1, PointsAndWeight DEF ScoreOf
  <2>2. CASE Known(found) # Indicators
      BY <1>1, <2>2, PartialScoreIsBetween DEF ScoreOf
  <2> QED BY <2>1, <2>2
<1> HIDE DEF found, nothing, full, score, level
<1>7. Adjusted(nothing) = Adjusted(found) /\ Adjusted(found) \in Int /\ Adjusted(full) \in Int
    BY <1>2, <1>3, <1>5
<1>8. LevelOrder[ClassifyRiskScore(Adjusted(nothing))] <= LevelOrder[level]
    BY <1>4, <1>6, <1>7, LevelsAreOrdered
<1>9. LevelOrder[level] <= LevelOrder[ClassifyRiskScore(Adjusted(full))]
  <2>1. CASE score <= Adjusted(full)
      BY <1>4, <1>7, <2>1, LevelsAreOrdered
  <2>2. CASE Adjusted(full) < score
    <3>1. Adjusted(full) >= 70
        BY <1>3, <1>4, <1>5, <1>6, <2>2
    <3> QED BY <1>4, <1>7, <3>1 DEF ClassifyRiskScore, LevelOrder
  <2> QED BY <1>4, <1>7, <2>1, <2>2
<1> QED BY <1>2, <1>3, <1>8, <1>9 DEF LevelIsBracketed, level

\* Sums of no and of one term, for the adjustments of a health score.
LEMMA SumOfAtMostOne ==
    ASSUME NEW f, NEW z, f[z] \in Int
    PROVE  SumOf(f, {}) = 0 /\ SumOf(f, {z}) = f[z]
<1> DEFINE zero == [y \in {z} |-> 0]
           one == {z}
<1>1. IsFiniteSet({}) /\ IsFiniteSet(one)
    BY FS_EmptySet, FS_Singleton
<1>2. SumOf(f, {}) = Summation(f, {})[{}] /\ SumOf(f, one) = Summation(f, one)[one]
    BY SumIsSummation DEF SumOf
<1>3. Summation(f, {})[{}] = 0
    BY ONLY <1>1, SummationStep
<1>4. /\ \A y \in one : zero[y] = 0
      /\ z \in one /\ f[z] = zero[z] + f[z] /\ one \ {z} = {}
    OBVIOUS
<1> HIDE DEF zero, one
<1>5. Summation(zero, one)[one] = 0
  <2>1. \A y \in one : zero[y] \in Nat
      BY <1>4
  <2> QED BY <1>1, <1>4, <2>1, SumOfNaturals
<1>6. Summation(f, one)[one] = Summation(zero, one)[one] + f[z]
  <2>1. \A y \in one : zero[y] \in Int
      BY <1>4
  <2>2. \A y \in one \ {z} : f[y] = zero[y]
      BY <1>4
  <2> QED BY <1>1, <1>4, <2>1, <2>2, SumIncrement
<1> QED BY <1>2, <1>3, <1>5, <1>6 DEF one

(* The sums the health score makes of a result.                            *)
LEMMA SumsOfContributions ==
    ASSUME NEW found, Evaluated(found)
    PROVE  LET given == [i \in Known(found) |-> found[i]]
           IN  /\ SumOf([i \in Known(found) |-> given[i].points], Known(found)) = Points(found)
               /\ Known(found) = Indicators =>
                    SumOf([i \in Known(found) |-> MaximumPoints[i] - given[i].points], Known(found))
                        = 100 - Points(found)
<1> DEFINE given == [i \in Known(found) |-> found[i]]
           f == [i \in Known(found) |-> given[i].points]
           g == [i \in Known(found) |-> MaximumPoints[i] - given[i].points]
<1>1. Known(found) \in SUBSET Indicators
    BY DEF Known
<1>2. /\ \A i \in Indicators : /\ found[i].points \in 0..MaximumPoints[i]
                               /\ found[i] = Absent => found[i].points = 0
      /\ \A i \in Indicators : MaximumPoints[i] \in Int
    BY DEF Evaluated, Indicators, MaximumPoints
<1>3. SumOf(f, Known(found)) = Points(found)
  <2>1. \A i \in Known(found) : f[i] \in Int
      BY <1>1, <1>2
  <2>2. \A i \in Indicators : Share(f, Known(found), i) = found[i].points
      BY <1>2 DEF Known, Share
  <2> HIDE DEF f
  <2>3. SumOf(f, Known(found)) = Share(f, Known(found), "academic_delay")
            + Share(f, Known(found), "study_right") + Share(f, Known(found), "tutor_meetings")
            + Share(f, Known(found), "academic_events")
      BY <1>1, <2>1, SumOverIndicators
  <2> QED BY <2>2, <2>3 DEF Points, Indicators
<1>4. ASSUME Known(found) = Indicators
      PROVE  SumOf(g, Known(found)) = 100 - Points(found)
  <2>1. \A i \in Known(found) : g[i] \in Int
      BY <1>1, <1>2
  <2>2. \A i \in Indicators : Share(g, Known(found), i) = MaximumPoints[i] - found[i].points
      BY <1>4 DEF Share
  <2> HIDE DEF g
  <2>3. SumOf(g, Known(found)) = Share(g, Known(found), "academic_delay")
            + Share(g, Known(found), "study_right") + Share(g, Known(found), "tutor_meetings")
            + Share(g, Known(found), "academic_events")
      BY <1>1, <2>1, SumOverIndicators
  <2> DEFINE d == found["academic_delay"].points
             r == found["study_right"].points
             m == found["tutor_meetings"].points
             e == found["academic_events"].points
  <2>4. d \in Int /\ r \in Int /\ m \in Int /\ e \in Int /\ Points(found) = d + r + m + e
      BY <1>2 DEF Points, Indicators, MaximumPoints
  <2>5. SumOf(g, Known(found)) = (50 - d) + (30 - r) + (10 - m) + (10 - e)
      BY <2>2, <2>3 DEF Indicators, MaximumPoints
  <2> HIDE DEF d, r, m, e
  <2> QED BY <2>4, <2>5
<1> QED BY <1>3, <1>4

(* The health converter accepts every result of the scoring policy.        *)
LEMMA HealthOfScore ==
    ASSUME NEW found, Evaluated(found)
    PROVE  LET result == CalculateAcademicRisk(found, FALSE)
           IN  /\ HealthOf(result).success
               /\ Known(found) = Indicators =>
                    HealthOf(result).level = ClassifyHealthScore(100 - Adjusted(found))
<1> DEFINE result == CalculateAcademicRisk(found, FALSE)
           raw == Points(found)
           adjusted == Adjusted(found)
           override == [raw |-> raw, adjusted |-> adjusted]
<1>1. /\ result.success
      /\ result.status = IF Known(found) = Indicators THEN "COMPLETE" ELSE "PARTIAL"
      /\ result.score = ScoreOf(found, FALSE)
      /\ result.level = IF ScoreOf(found, FALSE) = -1 THEN "none"
                        ELSE ClassifyRiskScore(ScoreOf(found, FALSE))
      /\ result.basis = IF Known(found) = Indicators THEN "all_indicators" ELSE "none"
      /\ result.raw = raw
      /\ result.contributions = [i \in Known(found) |-> found[i]]
      /\ result.unavailable = Indicators \ Known(found)
      /\ result.overrides = IF Expired(found) THEN {override} ELSE {}
  <2>1. IsScore(result, found, FALSE)
      BY Calculated
  <2> HIDE DEF result
  <2> QED BY <2>1 DEF IsScore
<1>2. /\ raw \in 0..100 /\ adjusted \in 0..100
      /\ adjusted = IF Expired(found) /\ raw < 70 THEN 70 ELSE raw
    BY PointsAndWeight
<1>3. Known(found) \in SUBSET Indicators /\ RequiredIndicators \subseteq Known(found)
    BY DEF Known, Evaluated
<1>4. ScoreOf(found, FALSE) = IF Known(found) = Indicators THEN adjusted ELSE -1
    BY DEF ScoreOf
<1> HIDE DEF result, raw, adjusted, override
<1>5. DOMAIN result.contributions = Known(found)
      /\ \A i \in Known(found) : result.contributions[i] = found[i]
    BY <1>1
<1>6. ValidComponents(result)
  <2>1. \A i \in Known(found) : found[i].points <= MaximumPoints[i]
      BY <1>3 DEF Evaluated, Indicators, MaximumPoints
  <2> QED BY <1>1, <1>3, <1>5, <2>1 DEF ValidComponents
<1>7. ValidAdjustments(result)
  <2>1. "study_right" \in Known(found)
      BY <1>3 DEF RequiredIndicators
  <2>2. Cardinality({}) = 0 /\ Cardinality({override}) = 1
      BY FS_EmptySet, FS_Singleton
  <2>3. (Expired(found) <=> result.overrides # {}) /\ Cardinality(result.overrides) <= 1
      BY <1>1, <2>2
  <2>4. \A o \in result.overrides : Expired(found) /\ o.raw = raw /\ o.adjusted = adjusted
      BY <1>1 DEF override
  <2>5. Max({raw, 70}) = IF raw >= 70 THEN raw ELSE 70
      BY <1>2, MaxOfTwo
  <2>6. \A o \in result.overrides : /\ o.raw = result.raw /\ ValidScore(o.raw)
                                    /\ o.adjusted = Max({o.raw, 70}) /\ ValidScore(o.adjusted)
    <3> SUFFICES ASSUME NEW o \in result.overrides
                 PROVE  /\ o.raw = result.raw /\ ValidScore(o.raw)
                        /\ o.adjusted = Max({o.raw, 70}) /\ ValidScore(o.adjusted)
        OBVIOUS
    <3>1. o.raw = raw /\ o.adjusted = adjusted /\ Expired(found)
        BY <2>4
    <3>2. adjusted = Max({raw, 70})
        BY <1>2, <2>5, <3>1
    <3> QED BY <1>1, <1>2, <3>1, <3>2 DEF ValidScore
  <2> QED BY <1>5, <2>1, <2>3, <2>6 DEF ValidAdjustments, Expired
<1>8. HealthAdjustment(result) = raw - adjusted
  <2> DEFINE f == [o \in result.overrides |-> o.raw - o.adjusted]
  <2>1. CASE Expired(found)
    <3>1. result.overrides = {override} /\ override.raw = raw /\ override.adjusted = adjusted
        BY <1>1, <2>1 DEF override
    <3>2. f[override] = raw - adjusted /\ raw - adjusted \in Int
        BY <1>2, <3>1
    <3> HIDE DEF f
    <3>3. SumOf(f, {override}) = raw - adjusted
        BY <3>2, SumOfAtMostOne
    <3> QED BY <3>1, <3>3 DEF HealthAdjustment, f
  <2>2. CASE ~Expired(found)
    <3>1. result.overrides = {} /\ raw - adjusted = 0
        BY <1>1, <1>2, <2>2
    <3>2. SumOf(f, {}) = 0
      <4>1. SumOf(f, {}) = Summation(f, {})[{}]
          BY SumIsSummation DEF SumOf
      <4> HIDE DEF f
      <4>2. IsFiniteSet({})
          BY FS_EmptySet
      <4>3. Summation(f, {})[{}] = 0
          BY ONLY <4>2, SummationStep
      <4> QED BY <4>1, <4>3
    <3> QED BY <3>1, <3>2 DEF HealthAdjustment
  <2> QED BY <2>1, <2>2
<1>9. /\ SumOf([i \in DOMAIN result.contributions |-> result.contributions[i].points],
               DOMAIN result.contributions) = raw
      /\ Known(found) = Indicators =>
           SumOf([i \in DOMAIN result.contributions |->
                     MaximumPoints[i] - result.contributions[i].points],
                 DOMAIN result.contributions) = 100 - raw
    BY <1>1, <1>5, SumsOfContributions DEF raw
<1>10. CASE Known(found) = Indicators
  <2>1. /\ result.status = "COMPLETE" /\ result.basis = "all_indicators"
        /\ result.unavailable = {} /\ result.score = adjusted
      BY <1>1, <1>4, <1>10
  <2>2. result.level = ClassifyRiskScore(result.score)
    <3>1. adjusted # -1
        BY <1>2
    <3> QED BY <1>1, <1>4, <1>10, <3>1
  <2>3. ValidScore(result.score) /\ ValidScore(result.raw)
    <3>1. result.score = adjusted /\ result.raw = raw
        BY <1>1, <2>1
    <3> QED BY <1>2, <3>1 DEF ValidScore
  <2>4. /\ result.score = result.raw - HealthAdjustment(result)
        /\ (100 - raw) + HealthAdjustment(result) = 100 - result.score
    <3>1. result.score = adjusted /\ result.raw = raw
        BY <1>1, <2>1
    <3> QED BY <1>2, <1>8, <3>1
  <2>5. HealthOf(result) = [success |-> TRUE, status |-> "COMPLETE", score |-> 100 - result.score,
                            level |-> ClassifyHealthScore(100 - result.score)]
      BY <1>1, <1>6, <1>7, <1>9, <1>10, <2>1, <2>2, <2>3, <2>4 DEF HealthOf
  <2>6. /\ HealthOf(result).success
        /\ HealthOf(result).level = ClassifyHealthScore(100 - adjusted)
      BY <2>1, <2>5
  <2> QED BY <2>6 DEF result, adjusted
<1>11. CASE Known(found) # Indicators
  <2>1. /\ result.status = "PARTIAL" /\ result.unavailable # {}
        /\ result.score = -1 /\ result.level = "none" /\ result.basis = "none"
      BY <1>1, <1>3, <1>4, <1>11
  <2>4. ValidScore(result.raw)
      BY <1>1, <1>2 DEF ValidScore
  <2>2. ValidPartialScoreLevel(result)
      BY <2>1 DEF ValidPartialScoreLevel
  <2>3. HealthOf(result) = [success |-> TRUE, status |-> "PARTIAL", score |-> -1,
                            level |-> "none"]
      BY <1>1, <1>6, <1>7, <1>9, <2>1, <2>2, <2>4 DEF HealthOf
  <2>5. HealthOf(result).success
      BY <2>3
  <2> QED BY <1>11, <2>5 DEF result
<1> QED BY <1>10, <1>11

(* What the dashboard shows is what the risk detection found.              *)
LEMMA DashboardIsMirror ==
    ASSUME NEW student
    PROVE  DashboardMirrors(AssessStudentRisk(student, TRUE), Dashboard(student))
<1> DEFINE found == Evaluate(student)
           risk == AssessStudentRisk(student, TRUE)
           own == AssessStudentRisk(student, FALSE)
           view == Dashboard(student)
<1>0. view.risk = DashboardRisk(own) /\ view.health = HealthOf(own)
    BY DEF Dashboard
<1>1. CASE ~Evaluated(found)
  <2>1. ~risk.success /\ ~own.success
      BY <1>1, AssessmentSucceeds
  <2> HIDE DEF risk, own, view
  <2>2. view.risk.source = "legacy_fallback"
      BY <1>0, <2>1 DEF DashboardRisk
  <2> QED BY <2>1, <2>2 DEF DashboardMirrors, risk, view
<1>2. CASE Evaluated(found)
  <2>1. risk = CalculateAcademicRisk(found, TRUE) /\ own = CalculateAcademicRisk(found, FALSE)
      BY DEF AssessStudentRisk
  <2> HIDE DEF found, risk, own, view
  <2>2. Known(found) = Indicators => risk.level = own.level
    <3> SUFFICES ASSUME Known(found) = Indicators PROVE risk.level = own.level
        OBVIOUS
    <3>1. ScoreOf(found, TRUE) = Adjusted(found) /\ ScoreOf(found, FALSE) = Adjusted(found)
        BY DEF ScoreOf
    <3>2. risk.level = IF ScoreOf(found, TRUE) = -1 THEN "none"
                       ELSE ClassifyRiskScore(ScoreOf(found, TRUE))
        BY <1>2, <2>1, Calculated DEF IsScore
    <3>3. own.level = IF ScoreOf(found, FALSE) = -1 THEN "none"
                      ELSE ClassifyRiskScore(ScoreOf(found, FALSE))
        BY <1>2, <2>1, Calculated DEF IsScore
    <3>4. risk.level = IF Adjusted(found) = -1 THEN "none" ELSE ClassifyRiskScore(Adjusted(found))
        BY ONLY <3>1, <3>2, Zenon
    <3>5. own.level = IF Adjusted(found) = -1 THEN "none" ELSE ClassifyRiskScore(Adjusted(found))
        BY ONLY <3>1, <3>3, Zenon
    <3>6. risk.level = own.level
        BY ONLY <3>4, <3>5
    <3> QED BY <3>6
  <2>3. /\ risk.success /\ own.success /\ HealthOf(own).success
        /\ risk.status = "COMPLETE" => Known(found) = Indicators
      BY <1>2, <2>1, Calculated, HealthOfScore DEF IsScore
  <2>4. view.risk.source = "canonical" /\ view.risk.level = own.level /\ view.health.success
      BY <1>0, <2>3 DEF DashboardRisk
  <2>5. ASSUME risk.status = "COMPLETE"
        PROVE  view.risk.level = risk.level /\ view.health.level = HealthLevelOf[risk.level]
    <3>1. Known(found) = Indicators
        BY <2>3, <2>5
    <3> DEFINE score == Adjusted(found)
    <3>2. score \in Nat /\ score # -1
        BY <1>2, PointsAndWeight
    <3>3. risk.level = IF ScoreOf(found, TRUE) = -1 THEN "none"
                       ELSE ClassifyRiskScore(ScoreOf(found, TRUE))
        BY <1>2, <2>1, Calculated DEF IsScore
    <3>4. ScoreOf(found, TRUE) = score
        BY <3>1 DEF ScoreOf
    <3>5. view.health.level = ClassifyHealthScore(100 - score)
        BY <1>0, <1>2, <2>1, <3>1, HealthOfScore
    <3> HIDE DEF score
    <3>6. risk.level = ClassifyRiskScore(score)
        BY <3>2, <3>3, <3>4
    <3>7. ClassifyHealthScore(100 - score) = HealthLevelOf[ClassifyRiskScore(score)]
        BY <3>2 DEF ClassifyHealthScore, ClassifyRiskScore, HealthLevelOf
    <3> QED BY <2>2, <2>4, <3>1, <3>5, <3>6, <3>7
  <2>6. DashboardMirrors(risk, view)
      BY <2>3, <2>4, <2>5 DEF DashboardMirrors
  <2> QED BY <2>6 DEF risk, view
<1> QED BY <1>1, <1>2

(* The indicators other than the meetings: those that the other views of a *)
(* student judge by as well.                                               *)
Shared == {"academic_delay", "study_right", "academic_events"}

(* The meetings alone are never worth attention.                           *)
LEMMA AttentionIsShared ==
    ASSUME NEW student, LET risk == AssessStudentRisk(student, TRUE)
                        IN  risk.success /\ risk.level \in TutorAttentionRiskLevels
    PROVE  \E i \in Shared : i \in Known(Evaluate(student)) /\ Evaluate(student)[i].points > 0
<1> DEFINE found == Evaluate(student)
           risk == AssessStudentRisk(student, TRUE)
           score == ScoreOf(found, TRUE)
<1> SUFFICES ASSUME \A i \in Shared : i \in Known(found) => ~(found[i].points > 0)
             PROVE  risk.level \notin TutorAttentionRiskLevels
    OBVIOUS
<1>1. Evaluated(found) /\ risk = CalculateAcademicRisk(found, TRUE)
    BY AssessmentSucceeds
<1> HIDE DEF found, risk
<1>2. risk.level = IF score = -1 THEN "none" ELSE ClassifyRiskScore(score)
  <2>1. IsScore(risk, found, TRUE)
      BY <1>1, Calculated
  <2> QED BY <2>1 DEF IsScore
<1>3. \A i \in Shared : found[i].points = 0
  <2>1. \A i \in Indicators : /\ found[i].points \in 0..MaximumPoints[i]
                              /\ found[i] = Absent => found[i].points = 0
      BY <1>1 DEF Evaluated
  <2>2. \A i \in Indicators : found[i].points \in Nat
      BY <2>1 DEF Indicators, MaximumPoints
  <2> QED BY <2>1, <2>2 DEF Shared, Indicators, Known
<1>4. found["tutor_meetings"].points \in 0..10
    BY <1>1 DEF Evaluated, Indicators, MaximumPoints
<1>5. Points(found) <= 10 /\ Points(found) \in Nat /\ ~Expired(found)
    BY <1>1, <1>3, <1>4 DEF Points, Shared, Evaluated
<1>6. score \in Nat /\ score <= 13
  <2>1. CASE Known(found) = Indicators
      BY <1>1, <1>5, <2>1, PointsAndWeight DEF ScoreOf
  <2>2. CASE Known(found) # Indicators
      BY <1>1, <1>5, <2>2, PartialScoreIsBetween DEF ScoreOf
  <2> QED BY <2>1, <2>2
<1> HIDE DEF score
<1>7. risk.level = "LOW"
    BY <1>2, <1>6 DEF ClassifyRiskScore
<1> QED BY <1>7 DEF TutorAttentionRiskLevels

(* The risk factors that both the Monday workflow and the risk agent find. *)
EvidenceFactors(student) ==
    LET progress == GetProgress(student.ects)
        right == GetStudyRight(student.right)
        events == GetUpcomingEvents(student.events)
    IN  (IF progress.success THEN ProgressRiskFactors(progress) ELSE {})
        \cup (IF right.success THEN StudyRightRiskFactors(right) ELSE {})
        \cup (IF events.success THEN EventRiskFactors(events.events) ELSE {})

(* What such an indicator has points for is what these views look at.      *)
LEMMA DelayIsBehind ==
    ASSUME NEW student \in StudentFacts, Evaluate(student)["academic_delay"].points > 0
    PROVE  LET progress == GetProgress(student.ects)
           IN  progress.success /\ progress.status = "BEHIND"
<1> DEFINE ects == student.ects
           found == Evaluate(student)["academic_delay"]
<1>1. found = EvaluateDelay(DetectStudentDelay(ects))
    BY DEF Evaluate
<1>2. ects.completed \in Int /\ ects.expected \in Int
    BY DEF StudentFacts
<1>3. Max({ects.expected - ects.completed, 0})
          = IF ects.expected - ects.completed >= 0 THEN ects.expected - ects.completed ELSE 0
    BY <1>2, MaxOfTwo
<1> HIDE DEF ects, found
<1>4. CASE ects.read # "ok"
  <2>1. found.points = 0
      BY <1>1, <1>4 DEF EvaluateDelay, DetectStudentDelay, GetProgress, Unsuccessful, Absent
  <2> QED BY <2>1 DEF found
<1>5. CASE ects.read = "ok" /\ ects.completed >= ects.expected
  <2> DEFINE progress == GetProgress(ects)
  <2>1. /\ progress.success
        /\ progress.expected = ects.expected /\ progress.completed = ects.completed
      BY <1>5 DEF GetProgress
  <2> HIDE DEF progress
  <2>4. Deficit(progress) = 0
      BY <1>2, <1>3, <1>5, <2>1 DEF Deficit
  <2>2. DetectStudentDelay(ects).success /\ DetectStudentDelay(ects).delay_ects = 0
      BY <2>1, <2>4 DEF DetectStudentDelay, progress
  <2>3. found.points = 0
      BY <1>1, <2>2 DEF EvaluateDelay, Contribution
  <2> QED BY <2>3 DEF found
<1>6. CASE ects.read = "ok" /\ ects.completed < ects.expected
    BY <1>2, <1>6 DEF GetProgress, ects
<1> QED BY <1>2, <1>4, <1>5, <1>6

\* Points for the study right come from one that ends or has ended.
LEMMA RightIsEnding ==
    ASSUME NEW student, Evaluate(student)["study_right"].points > 0
    PROVE  LET right == GetStudyRight(student.right)
           IN  right.success /\ right.status \in {"EXPIRES_SOON", "EXPIRED"}
<1> DEFINE right == student.right
           found == Evaluate(student)["study_right"]
           status == IF right.read = "ok" THEN right.status ELSE "none"
           seen == IF status \in DOMAIN StudyRightStatusOf THEN StudyRightStatusOf[status]
                   ELSE "UNKNOWN"
<1>1. found = EvaluateStudyRight(DetectStudyRightRisk(right))
    BY DEF Evaluate
<1> HIDE DEF right, found
<1>2. CASE right.read \notin {"ok", "not_found"}
  <2>1. found.points = 0
      BY <1>1, <1>2 DEF EvaluateStudyRight, DetectStudyRightRisk, Unsuccessful, Absent
  <2> QED BY <2>1 DEF found
<1>3. CASE right.read \in {"ok", "not_found"}
  <2>1. DetectStudyRightRisk(right) = ClassifyStudyRightRisk(status)
      BY <1>3 DEF DetectStudyRightRisk
  <2>2. /\ DetectStudyRightRisk(right).success
        /\ DetectStudyRightRisk(right).risk_status = seen
      BY <2>1 DEF ClassifyStudyRightRisk
  <2>3. status \notin {"EXPIRES_SOON", "EXPIRED"} =>
            seen \in {"SAFE", "EXTENDED", "UNKNOWN"}
      BY DEF StudyRightStatusOf
  <2> HIDE DEF seen, status
  <2>4. seen \in {"SAFE", "EXTENDED", "UNKNOWN"} => found.points = 0
      BY <1>1, <2>2 DEF EvaluateStudyRight, StudyRightPoints, Absent, Contribution
  <2>5. status \in {"EXPIRES_SOON", "EXPIRED"}
      BY <2>3, <2>4 DEF found
  <2>6. right.read = "ok" /\ right.status = status
      BY <2>5 DEF status
  <2>7. GetStudyRight(right).success /\ GetStudyRight(right).status = status
      BY <2>6 DEF GetStudyRight
  <2> QED BY <2>5, <2>7 DEF right
<1> QED BY <1>2, <1>3

\* Points for events come from a deadline that applies.
LEMMA DeadlineApplies ==
    ASSUME NEW student, Evaluate(student)["academic_events"].points > 0
    PROVE  LET events == GetUpcomingEvents(student.events)
           IN  events.success /\ \E e \in events.events : IsApplicableDeadline(e)
<1> DEFINE events == GetUpcomingEvents(student.events)
           found == Evaluate(student)["academic_events"]
<1>1. found = EvaluateAcademicEvents(events)
    BY DEF Evaluate
<1> HIDE DEF events, found
<1> SUFFICES ASSUME ~(events.success /\ \E e \in events.events : IsApplicableDeadline(e))
             PROVE  found.points = 0
    BY DEF events, found
<1> QED BY <1>1 DEF EvaluateAcademicEvents, Absent, Contribution

\* An indicator with points, other than the meetings, is a factor of the evidence.
LEMMA SharedIsFactor ==
    ASSUME NEW student \in StudentFacts,
           \E i \in Shared : i \in Known(Evaluate(student)) /\ Evaluate(student)[i].points > 0
    PROVE  EvidenceFactors(student) # {}
<1> DEFINE progress == GetProgress(student.ects)
           right == GetStudyRight(student.right)
           events == GetUpcomingEvents(student.events)
<1>1. CASE Evaluate(student)["academic_delay"].points > 0
  <2>1. progress.success /\ progress.status = "BEHIND"
      BY <1>1, DelayIsBehind
  <2> HIDE DEF progress
  <2>2. ProgressRiskFactors(progress) # {}
      BY <2>1 DEF ProgressRiskFactors
  <2> QED BY <2>1, <2>2 DEF EvidenceFactors, progress
<1>2. CASE Evaluate(student)["study_right"].points > 0
  <2>1. right.success /\ right.status \in {"EXPIRES_SOON", "EXPIRED"}
      BY <1>2, RightIsEnding
  <2> HIDE DEF right
  <2>2. StudyRightRiskFactors(right) # {}
      BY <2>1 DEF StudyRightRiskFactors
  <2> QED BY <2>1, <2>2 DEF EvidenceFactors, right
<1>3. CASE Evaluate(student)["academic_events"].points > 0
  <2>1. events.success /\ \E e \in events.events : IsApplicableDeadline(e)
      BY <1>3, DeadlineApplies
  <2> HIDE DEF events
  <2>2. EventRiskFactors(events.events) # {}
      BY <2>1 DEF EventRiskFactors
  <2> QED BY <2>1, <2>2 DEF EvidenceFactors, events
<1> QED BY <1>1, <1>2, <1>3 DEF Shared

\* A student who requires attention, and what the detection says of one.
Requires(student) ==
    LET detected == ParseAssessment(AssessStudentRisk(student, TRUE))
    IN  detected.parsed /\ detected.attention

\* What the detection reports of a student who requires attention.
LEMMA DetectionOfAttention ==
    ASSUME NEW student, Requires(student)
    PROVE  LET risk == AssessStudentRisk(student, TRUE)
               detected == ParseAssessment(risk)
           IN  /\ risk.success /\ risk.level \in TutorAttentionRiskLevels
               /\ detected.level = risk.level /\ detected.status = risk.status
               /\ detected.unavailable = risk.unavailable
               /\ detected.actionable = {i \in DOMAIN risk.contributions :
                                             risk.contributions[i].points > 0}
<1> DEFINE risk == AssessStudentRisk(student, TRUE)
<1> HIDE DEF risk
<1>1. ParseAssessment(risk).parsed /\ ParseAssessment(risk).attention
    BY DEF Requires, risk
<1> DEFINE detected == ParseAssessment(risk)
           counted == {i \in DOMAIN risk.contributions : risk.contributions[i].points > 0}
           urgent == risk.level \in TutorAttentionRiskLevels
<1>2. detected = [parsed |-> TRUE, level |-> risk.level, status |-> risk.status,
                  attention |-> urgent, unavailable |-> risk.unavailable, actionable |-> counted]
      /\ risk.success
    BY <1>1 DEF ParseAssessment
<1> HIDE DEF counted, detected, urgent
<1>3. /\ detected.level = risk.level /\ detected.status = risk.status
      /\ detected.unavailable = risk.unavailable
      /\ detected.actionable = counted
    BY <1>2
<1>4. detected.attention = urgent
    BY <1>2
<1> QED BY <1>1, <1>2, <1>3, <1>4 DEF risk, counted, detected, urgent

\* The Monday briefing lists the students who require attention.
LEMMA MondayListsAttention ==
    ASSUME NEW student \in StudentFacts, Requires(student)
    PROVE  AnalyzeStudent(student, student).requires_attention
<1>1. EvidenceFactors(student) # {}
    BY AttentionIsShared, DetectionOfAttention, SharedIsFactor
<1>2. AssessAvailableEvidence(student).factors = EvidenceFactors(student)
    BY DEF AssessAvailableEvidence, EvidenceFactors
<1> QED BY <1>1, <1>2 DEF AnalyzeStudent

\* The dashboard asks for attention to them.
LEMMA DashboardAsksForAttention ==
    ASSUME NEW student, Requires(student)
    PROVE  Dashboard(student).attention
<1> DEFINE found == Evaluate(student)
           risk == AssessStudentRisk(student, TRUE)
           own == AssessStudentRisk(student, FALSE)
           view == Dashboard(student)
<1>1. risk.success /\ risk.level \in TutorAttentionRiskLevels
    BY DetectionOfAttention
<1>2. /\ DashboardMirrors(risk, view)
      /\ view.risk = DashboardRisk(own)
      /\ PriorityOf(view.risk.level) # "LOW" => view.attention
    BY DashboardIsMirror DEF Dashboard
<1>3. /\ Evaluated(found) /\ IsScore(risk, found, TRUE) /\ IsScore(own, found, FALSE)
    BY <1>1, AssessmentSucceeds, Calculated
<1> HIDE DEF found, risk, own, view
<1>4. view.risk.level \in TutorAttentionRiskLevels \cup {"none"}
  <2>1. CASE risk.status = "COMPLETE"
      BY <1>1, <1>2, <2>1 DEF DashboardMirrors
  <2>2. CASE risk.status # "COMPLETE"
    <3>1. Known(found) # Indicators
        BY <1>3, <2>2 DEF IsScore
    <3>2. own.level = "none"
        BY <1>3, <3>1 DEF IsScore, ScoreOf
    <3> QED BY <1>2, <3>2 DEF DashboardRisk
  <2> QED BY <2>1, <2>2
<1>5. PriorityOf(view.risk.level) # "LOW"
    BY <1>4 DEF PriorityOf, TutorAttentionRiskLevels
<1> QED BY <1>2, <1>5 DEF view

\* What the chain hands to the briefing of a student with this result.
Briefed(detected, progress) == [id |-> 1, named |-> TRUE, result |-> detected, resultOf |-> 1,
                                progress |-> progress]
BriefingOf(detected, progress) ==
    [tutor |-> 1, assigned |-> 1, ordered |-> TRUE,
     evaluation |-> IF ~detected.parsed THEN "failed"
                    ELSE IF detected.status = "PARTIAL" THEN "partial" ELSE "completed",
     students |-> IF detected.parsed /\ detected.attention
                  THEN {Briefed(detected, progress)} ELSE {}]

\* The weekly briefing accepts them and has an action for each.
LEMMA BriefingShowsAttention ==
    ASSUME NEW student, Requires(student), NEW progress
    PROVE  LET detected == ParseAssessment(AssessStudentRisk(student, TRUE))
               briefing == GenerateBriefing(BriefingOf(detected, progress))
           IN  /\ briefing.status # "raised"
               /\ \A s \in briefing.summaries : s.actions # {}
               /\ briefing.summaries # {}
<1> DEFINE found == Evaluate(student)
           risk == AssessStudentRisk(student, TRUE)
           detected == ParseAssessment(risk)
           input == BriefingOf(detected, progress)
           one == Briefed(detected, progress)
           briefing == GenerateBriefing(input)
<1>1. /\ risk.success /\ detected.level \in TutorAttentionRiskLevels
      /\ detected.actionable = {i \in DOMAIN risk.contributions : risk.contributions[i].points > 0}
    BY DetectionOfAttention
<1>2. detected.parsed /\ detected.attention
    BY DEF Requires
<1>3. IsScore(risk, found, TRUE)
  <2>1. risk = CalculateAcademicRisk(found, TRUE) /\ Evaluated(found)
      BY <1>1, AssessmentSucceeds
  <2> HIDE DEF risk, found
  <2> QED BY <2>1, Calculated
<1>4. \E i \in Shared : i \in Known(found) /\ found[i].points > 0
    BY AttentionIsShared, DetectionOfAttention
<1> HIDE DEF found, risk, detected
<1>5. detected.actionable \cap ActionMappings # {}
  <2>1. DOMAIN risk.contributions = Known(found)
        /\ \A i \in Known(found) : risk.contributions[i] = found[i]
      BY <1>3 DEF IsScore
  <2> QED BY <1>1, <1>4, <2>1 DEF Shared, ActionMappings
<1>6. Recommend(detected).actions # {}
  <2>1. PICK i \in detected.actionable \cap ActionMappings : TRUE
      BY <1>5
  <2>2. <<i, "review">> \in Recommend(detected).actions
      BY <2>1 DEF Recommend
  <2> QED BY <2>2
<1>7. /\ input.students = {one} /\ input.tutor = 1 /\ input.assigned = 1 /\ input.ordered
      /\ input.evaluation \in {"completed", "partial"}
    BY <1>2 DEF BriefingOf
<1>8. /\ one.id = 1 /\ one.named /\ one.result = detected /\ one.resultOf = 1
      /\ one.progress = progress
    BY DEF Briefed
<1> HIDE DEF input, one
<1>9. ValidInput(input)
  <2>1. Cardinality({one}) = 1
      BY FS_Singleton
  <2> QED BY <1>1, <1>2, <1>7, <1>8, <2>1 DEF ValidInput
<1>10. /\ briefing.status = BriefingStatus(input)
       /\ briefing.summaries = {[id |-> s.id, level |-> s.result.level,
                                 actions |-> Recommend(s.result).actions,
                                 noted |-> StudentNoted(s)] : s \in input.students}
    BY <1>9 DEF GenerateBriefing
<1>11. BriefingStatus(input) # "raised"
    BY <1>7 DEF BriefingStatus
<1> HIDE DEF briefing
<1>12. briefing.summaries = {[id |-> one.id, level |-> one.result.level,
                              actions |-> Recommend(one.result).actions,
                              noted |-> StudentNoted(one)]}
    BY <1>7, <1>10
<1>13. briefing.summaries # {} /\ \A s \in briefing.summaries : s.actions # {}
    BY <1>6, <1>8, <1>12
<1> QED BY <1>10, <1>11, <1>13 DEF briefing, input, detected, risk
-----------------------------------------------------------------------------
(* What the risk agent hands on.                                           *)
LEMMA RiskAgentIsHonest ==
    ASSUME NEW found \in BOOLEAN, NEW student
    PROVE  LET risk == RiskAgentResult(found, student)
           IN  /\ risk.status \in {"FAILED", "SUCCESS", "PARTIAL"}
               /\ risk.status = "FAILED" => risk.unavailable = {} /\ risk.factors = {}
               /\ risk.status = "SUCCESS" => /\ risk.unavailable = {}
                                             /\ risk.factors = {} => risk.level = "NONE"
               /\ risk.status = "PARTIAL" => risk.unavailable # {}
               /\ risk.status # "FAILED" => risk.factors = EvidenceFactors(student)
<1> DEFINE risk == RiskAgentResult(found, student)
           unavailable == (IF GetProgress(student.ects).success THEN {} ELSE {"progress"})
                          \cup (IF GetStudyRight(student.right).success THEN {} ELSE {"study_right"})
                          \cup (IF GetUpcomingEvents(student.events).success THEN {}
                                ELSE {"academic_events"})
           factors == EvidenceFactors(student)
<1>1. risk = IF ~found THEN [status |-> "FAILED", level |-> "NONE", factors |-> {},
                             unavailable |-> {}]
             ELSE [status |-> IF unavailable = {} THEN "SUCCESS" ELSE "PARTIAL",
                   level |-> HighestRiskLevel(factors, "NONE"),
                   factors |-> factors, unavailable |-> unavailable]
    BY DEF RiskAgentResult, EvidenceFactors
<1> HIDE DEF unavailable, factors, risk
<1>2. CASE ~found
  <2>1. risk.status = "FAILED" /\ risk.unavailable = {} /\ risk.factors = {}
      BY <1>1, <1>2
  <2> QED BY <2>1 DEF risk
<1>3. CASE found
  <2>1. /\ risk.status = IF unavailable = {} THEN "SUCCESS" ELSE "PARTIAL"
        /\ risk.level = HighestRiskLevel(factors, "NONE")
        /\ risk.factors = factors /\ risk.unavailable = unavailable
      BY <1>1, <1>3
  <2>2. factors = {} => HighestRiskLevel(factors, "NONE") = "NONE"
      BY DEF HighestRiskLevel
  <2> QED BY <2>1, <2>2 DEF risk, factors
<1> QED BY <1>2, <1>3

(* The factors are of the dimensions the rules know, and of their levels.  *)
LEMMA FactorsHaveRules ==
    ASSUME NEW student, NEW f \in EvidenceFactors(student)
    PROVE  /\ f.dimension \in DOMAIN Rules
           /\ f.level \in {"LOW", "MEDIUM", "HIGH"}
           /\ \E rule \in Rules[f.dimension] : rule.minimum = "LOW"
           /\ \A rule \in Rules[f.dimension] : rule.type # "monitoring"
<1>1. /\ f.dimension \in {"progress", "study_right", "academic_event"}
      /\ f.level \in {"LOW", "MEDIUM", "HIGH"}
  <2>1. \A progress, g : g \in ProgressRiskFactors(progress) =>
            g.dimension = "progress" /\ g.level \in {"LOW", "MEDIUM", "HIGH"}
      BY DEF ProgressRiskFactors, Factor
  <2>2. \A right, g : g \in StudyRightRiskFactors(right) =>
            g.dimension = "study_right" /\ g.level \in {"LOW", "MEDIUM", "HIGH"}
      BY DEF StudyRightRiskFactors, Factor
  <2>3. \A events, g : g \in EventRiskFactors(events) =>
            g.dimension = "academic_event" /\ g.level \in {"LOW", "MEDIUM", "HIGH"}
      BY DEF EventRiskFactors, Factor
  <2> QED BY <2>1, <2>2, <2>3 DEF EvidenceFactors
<1> DEFINE plan == Rule("progress", "REVIEW_STUDY_PLAN", "progress policy", "LOW")
           meeting == Rule("progress", "SCHEDULE_TUTOR_MEETING", "progress policy", "MEDIUM")
           right == Rule("study_right", "REVIEW_STUDY_RIGHT", "study right policy", "LOW")
           deadline == Rule("deadline", "REVIEW_ACADEMIC_DEADLINE", "deadline policy", "LOW")
<1>2. /\ plan.type = "progress" /\ plan.minimum = "LOW"
      /\ meeting.type = "progress"
      /\ right.type = "study_right" /\ right.minimum = "LOW"
      /\ deadline.type = "deadline" /\ deadline.minimum = "LOW"
    BY DEF Rule
<1>3. Rules = [progress |-> {plan, meeting}, study_right |-> {right},
               academic_event |-> {deadline}]
    BY DEF Rules
<1> HIDE DEF plan, meeting, right, deadline
<1>4. /\ Rules["progress"] = {plan, meeting} /\ Rules["study_right"] = {right}
      /\ Rules["academic_event"] = {deadline}
      /\ DOMAIN Rules = {"progress", "study_right", "academic_event"}
    BY <1>3
<1>5. \A d \in {"progress", "study_right", "academic_event"} :
          /\ \E rule \in Rules[d] : rule.minimum = "LOW"
          /\ \A rule \in Rules[d] : rule.type # "monitoring"
    BY <1>2, <1>4
<1> QED BY <1>1, <1>4, <1>5

(* Among the decisions for an intervention one has the highest priority.   *)
LEMMA SuggestionExists ==
    ASSUME NEW decisions, \A d \in decisions : d.priority \in {"LOW", "MEDIUM", "HIGH"},
           NEW d \in decisions
    PROVE  \E e \in Suggest(decisions) :
               /\ e.intervention = d.intervention
               /\ PriorityOrder[d.priority] <= PriorityOrder[e.priority]
<1> DEFINE same == {e \in decisions : e.intervention = d.intervention}
<1>1. \A e \in same : PriorityOrder[e.priority] \in 0..2
    BY DEF PriorityOrder
<1>2. PICK e \in same : \A g \in same : PriorityOrder[g.priority] <= PriorityOrder[e.priority]
  <2> DEFINE rank(g) == PriorityOrder[g.priority]
  <2>1. \A g \in same : rank(g) = 0 \/ rank(g) = 1 \/ rank(g) = 2
      BY <1>1
  <2>2. d \in same
      OBVIOUS
  <2> HIDE DEF same, rank
  <2>3. ASSUME \E g \in same : rank(g) = 2
        PROVE  \E e \in same : \A g \in same : rank(g) <= rank(e)
      BY <2>1, <2>3
  <2>4. ASSUME (\A g \in same : rank(g) # 2) /\ \E g \in same : rank(g) = 1
        PROVE  \E e \in same : \A g \in same : rank(g) <= rank(e)
      BY <2>1, <2>4
  <2>5. ASSUME \A g \in same : rank(g) = 0
        PROVE  \E e \in same : \A g \in same : rank(g) <= rank(e)
      BY <2>2, <2>5
  <2>6. \E e \in same : \A g \in same : rank(g) <= rank(e)
      BY <2>1, <2>3, <2>4, <2>5
  <2> QED BY <2>6 DEF rank
<1>3. e \in Suggest(decisions)
    BY <1>2 DEF Suggest
<1> QED BY <1>2, <1>3

(* The decisions made of the factors: where each comes from, and that none *)
(* of the factors is left out.                                             *)
LEMMA DecisionsAreOfFactors ==
    ASSUME NEW found \in BOOLEAN, NEW student,
           RiskAgentResult(found, student).status # "FAILED"
    PROVE  LET risk == RiskAgentResult(found, student)
               decisions == EvaluateRecommendations(risk)
           IN  /\ \A d \in decisions : d.priority \in {"LOW", "MEDIUM", "HIGH"}
               /\ \A d \in decisions : d.type = "monitoring" => Monitoring(risk)
               /\ Monitoring(risk) =>
                    decisions = {Decision(HealthyMonitoringRule, "LOW")}
               /\ \A f \in risk.factors : \E d \in decisions :
                    /\ d.priority = f.level
                    /\ d.intervention \in {r.intervention : r \in Rules[f.dimension]}
<1> DEFINE risk == RiskAgentResult(found, student)
           decisions == EvaluateRecommendations(risk)
           healthy == Decision(HealthyMonitoringRule, "LOW")
           Made(f) == {Decision(rule, f.level) : rule \in {r \in Rules[f.dimension] :
                          PriorityOrder[r.minimum] <= PriorityOrder[f.level]}}
<1>1. /\ risk.factors = EvidenceFactors(student)
      /\ \A f \in EvidenceFactors(student) :
           /\ f.level \in {"LOW", "MEDIUM", "HIGH"}
           /\ \E rule \in Rules[f.dimension] : rule.minimum = "LOW"
           /\ \A rule \in Rules[f.dimension] : rule.type # "monitoring"
    BY RiskAgentIsHonest, FactorsHaveRules
<1> HIDE DEF risk
<1>2. decisions = (IF Monitoring(risk) THEN {healthy} ELSE {})
                  \cup UNION {Made(f) : f \in risk.factors}
    BY DEF EvaluateRecommendations
<1>3. \A rule, level : /\ Decision(rule, level).priority = level
                       /\ Decision(rule, level).type = rule.type
                       /\ Decision(rule, level).intervention = rule.intervention
    BY DEF Decision
<1>4. \A f \in risk.factors : \A d \in Made(f) :
          \E rule \in Rules[f.dimension] : d = Decision(rule, f.level)
    OBVIOUS
<1>5. \A f \in risk.factors : \A rule \in Rules[f.dimension] :
          rule.minimum = "LOW" => Decision(rule, f.level) \in Made(f)
    BY <1>1 DEF PriorityOrder
<1>6. \A d \in decisions : \/ Monitoring(risk) /\ d = healthy
                           \/ \E f \in risk.factors : d \in Made(f)
  <2> HIDE DEF healthy, Made
  <2> QED BY <1>2
<1>7. \A f \in risk.factors : Made(f) \subseteq decisions
  <2> HIDE DEF healthy, Made
  <2> QED BY <1>2
<1>8. Monitoring(risk) => decisions = {healthy}
  <2>1. ASSUME Monitoring(risk) PROVE risk.factors = {}
      BY <2>1 DEF Monitoring
  <2> HIDE DEF healthy, Made
  <2> QED BY <1>2, <2>1
<1> HIDE DEF decisions, Made
<1>9. ASSUME NEW d \in decisions
      PROVE  /\ d.priority \in {"LOW", "MEDIUM", "HIGH"}
             /\ d.type = "monitoring" => Monitoring(risk)
  <2>1. CASE Monitoring(risk) /\ d = healthy
    <3>1. d.priority = "LOW"
        BY <1>3, <2>1
    <3> QED BY <2>1, <3>1
  <2>2. ASSUME NEW f \in risk.factors, d \in Made(f)
        PROVE  d.priority \in {"LOW", "MEDIUM", "HIGH"} /\ d.type # "monitoring"
    <3>1. PICK rule \in Rules[f.dimension] : d = Decision(rule, f.level)
        BY <1>4, <2>2
    <3>2. d.priority = f.level /\ d.type = rule.type
        BY <1>3, <3>1
    <3> QED BY <1>1, <3>2
  <2> QED BY <1>6, <2>1, <2>2
<1>10. ASSUME NEW f \in risk.factors
       PROVE  \E d \in decisions : /\ d.priority = f.level
                                   /\ d.intervention \in {r.intervention : r \in Rules[f.dimension]}
  <2>1. PICK rule \in Rules[f.dimension] : rule.minimum = "LOW"
      BY <1>1
  <2> DEFINE d == Decision(rule, f.level)
  <2>2. d \in decisions
      BY <1>5, <1>7, <2>1
  <2>3. d.priority = f.level /\ d.intervention = rule.intervention
      BY <1>3
  <2> HIDE DEF d
  <2> QED BY <2>2, <2>3
<1> QED BY <1>8, <1>9, <1>10 DEF risk, decisions

(* Advice, and what the tutors are told of the same student.               *)
LEMMA AdviceOfRisk ==
    ASSUME NEW student \in StudentFacts, NEW found \in BOOLEAN,
           NEW policy \in [Queries(RiskAgentResult(found, student)) -> PolicyOutcomes]
    PROVE  LET assessed == RiskAgentResult(found, student)
               advice == Advise(assessed, policy)
           IN  /\ (advice.status = "SUCCESS") = ("availability" \notin advice.sections)
               /\ advice.status = "SUCCESS" => /\ assessed.unavailable = {}
                                               /\ "policy" \in advice.sections
               /\ assessed.status # "FAILED" => \A f \in assessed.factors :
                      \/ \E i \in advice.interventions :
                             /\ i.intervention \in {r.intervention : r \in Rules[f.dimension]}
                             /\ PriorityOrder[f.level] <= PriorityOrder[i.priority]
                      \/ "availability" \in advice.sections
               /\ (\E r \in advice.recommendations : r.type = "monitoring") =>
                      /\ assessed.unavailable = {} /\ Cardinality(advice.recommendations) = 1
                      /\ ~Requires(student)
<1> DEFINE assessed == RiskAgentResult(found, student)
           advice == Advise(assessed, policy)
           decisions == IF assessed.status = "FAILED" THEN {} ELSE EvaluateRecommendations(assessed)
           Kept(S) == {d \in S : policy[d.query] # "conflict"}
           missing == {d.query : d \in {e \in decisions : policy[e.query] # "evidence"}}
           complete == assessed.status = "SUCCESS" /\ missing = {}
           status == IF complete THEN "SUCCESS" ELSE "PARTIAL"
           recommendations == Kept(decisions)
           interventions == Kept(Suggest(decisions))
           sections == Sections(status, recommendations, interventions, policy,
                                assessed.unavailable)
<1>1. /\ assessed.status \in {"FAILED", "SUCCESS", "PARTIAL"}
      /\ assessed.status = "FAILED" => assessed.unavailable = {} /\ assessed.factors = {}
      /\ assessed.status = "SUCCESS" => /\ assessed.unavailable = {}
                                        /\ assessed.factors = {} => assessed.level = "NONE"
      /\ assessed.status = "PARTIAL" => assessed.unavailable # {}
      /\ assessed.status # "FAILED" => assessed.factors = EvidenceFactors(student)
    BY RiskAgentIsHonest
<1>2. assessed.status # "FAILED" =>
        /\ \A d \in decisions : d.priority \in {"LOW", "MEDIUM", "HIGH"}
        /\ \A d \in decisions : d.type = "monitoring" => Monitoring(assessed)
        /\ Monitoring(assessed) => decisions = {Decision(HealthyMonitoringRule, "LOW")}
        /\ \A f \in assessed.factors : \E d \in decisions :
               /\ d.priority = f.level
               /\ d.intervention \in {r.intervention : r \in Rules[f.dimension]}
    BY DecisionsAreOfFactors
<1>3. /\ advice.status = status /\ advice.recommendations = recommendations
      /\ advice.interventions = interventions /\ advice.sections = sections
    BY DEF Advise
<1>4. assessed.status = "FAILED" => decisions = {}
    OBVIOUS
<1> HIDE DEF assessed, advice, decisions
<1>5. missing = {} <=> \A d \in decisions : policy[d.query] = "evidence"
    OBVIOUS
<1>6. /\ recommendations = {d \in decisions : policy[d.query] # "conflict"}
      /\ interventions = {d \in Suggest(decisions) : policy[d.query] # "conflict"}
      /\ Suggest(decisions) \subseteq decisions
    BY DEF Suggest
<1> HIDE DEF missing, recommendations, interventions
<1>7. "availability" \in sections <=> status = "PARTIAL" \/ assessed.unavailable # {}
    BY DEF Sections
<1>8. "policy" \in sections <=> \E r \in recommendations : policy[r.query] = "evidence"
    BY DEF Sections
<1> HIDE DEF sections
<1>9. (status = "SUCCESS") = ("availability" \notin sections)
    BY <1>1, <1>7
<1>10. ASSUME status = "SUCCESS"
       PROVE  assessed.unavailable = {} /\ "policy" \in sections
  <2>1. assessed.status = "SUCCESS" /\ \A d \in decisions : policy[d.query] = "evidence"
      BY <1>5, <1>10
  <2>2. decisions # {}
    <3>1. CASE assessed.factors = {}
        BY <1>1, <1>2, <2>1, <3>1 DEF Monitoring
    <3>2. CASE assessed.factors # {}
        BY <1>2, <2>1, <3>2
    <3> QED BY <3>1, <3>2
  <2>3. \A d \in decisions : d \in recommendations
      BY <1>6, <2>1
  <2> QED BY <1>1, <1>8, <2>1, <2>2, <2>3
<1>11. ASSUME assessed.status # "FAILED", NEW f \in assessed.factors, "availability" \notin sections
       PROVE  \E i \in interventions :
                  /\ i.intervention \in {r.intervention : r \in Rules[f.dimension]}
                  /\ PriorityOrder[f.level] <= PriorityOrder[i.priority]
  <2>1. status = "SUCCESS"
      BY <1>9, <1>11
  <2>2. \A d \in decisions : policy[d.query] = "evidence"
      BY <1>5, <2>1
  <2>3. PICK d \in decisions : /\ d.priority = f.level
                               /\ d.intervention \in {r.intervention : r \in Rules[f.dimension]}
      BY <1>2, <1>11
  <2>4. PICK e \in Suggest(decisions) :
            /\ e.intervention = d.intervention
            /\ PriorityOrder[d.priority] <= PriorityOrder[e.priority]
      BY <1>2, <1>11, SuggestionExists
  <2>5. e \in interventions
      BY <1>6, <2>2
  <2> QED BY <2>3, <2>4, <2>5
<1>12. ASSUME NEW r \in recommendations, r.type = "monitoring"
       PROVE  /\ assessed.unavailable = {} /\ Cardinality(recommendations) = 1
              /\ ~Requires(student)
  <2>1. r \in decisions /\ assessed.status # "FAILED"
      BY <1>4, <1>6
  <2>2. Monitoring(assessed)
      BY <1>2, <1>12, <2>1
  <2>3. assessed.status = "SUCCESS" /\ assessed.factors = {}
      BY <2>2 DEF Monitoring
  <2>4. decisions = {r}
      BY <1>2, <2>1, <2>2
  <2>5. recommendations = {r}
      BY <1>6, <2>4
  <2>6. ~Requires(student)
    <3>1. EvidenceFactors(student) = {}
        BY <1>1, <2>3
    <3> QED BY <3>1, AttentionIsShared, DetectionOfAttention, SharedIsFactor
  <2>7. Cardinality({r}) = 1
      BY FS_Singleton
  <2> QED BY <1>1, <2>3, <2>5, <2>6, <2>7
<1> QED BY <1>3, <1>9, <1>10, <1>11, <1>12 DEF assessed, advice

\* What the chain has computed when a stage is reached, by the operators above.
ChainInv ==
    /\ stage \in {"assess", "dashboard", "monday", "brief", "shown", "advised"}
    /\ subject \in StudentFacts
    /\ stage # "assess" =>
           /\ assessment = AssessStudentRisk(subject, TRUE)
           /\ finding = ParseAssessment(assessment)
    /\ stage \notin {"assess", "dashboard"} =>
           dashboard = IF ReadsRaise THEN [success |-> FALSE]
                       ELSE [success |-> TRUE, view |-> Dashboard(subject)]
    /\ stage \in {"brief", "shown", "advised"} => analysis = AnalyzeStudent(subject, subject)
    /\ stage \in {"shown", "advised"} =>
           tutorBriefing = GenerateBriefing(BriefingOf(finding, GetProgress(subject.ects).success))
    /\ stage = "advised" => \E found \in BOOLEAN :
           /\ evidence = RiskAgentResult(found, subject)
           /\ \E policy \in [Queries(evidence) -> PolicyOutcomes] :
                  reply = Advise(evidence, policy)

\* Nothing has been computed at first.
LEMMA ChainStarts ==
    ChainInit => ChainInv
BY StudentsAssumption DEF ChainInit, ChainInv

\* Each step computes one view.
LEMMA ChainStep ==
    ChainInv /\ [ChainNext]_chainVars => ChainInv'
<1> SUFFICES ASSUME ChainInv, [ChainNext]_chainVars PROVE ChainInv'
    OBVIOUS
<1>1. CASE Assess
    BY <1>1 DEF ChainInv, Assess
<1>2. CASE ShowDashboard
    BY <1>2 DEF ChainInv, ShowDashboard, ReadsRaise
<1>3. CASE AnalyzeOnMonday
    BY <1>3 DEF ChainInv, AnalyzeOnMonday, ReadsRaise
<1>4. CASE Brief
    <2>1. tutorBriefing' = GenerateBriefing(BriefingOf(finding, GetProgress(subject.ects).success))
        BY <1>4 DEF Brief, DetectionOutcome, BriefingOf, Briefed
    <2> QED BY <1>4, <2>1 DEF ChainInv, Brief, ReadsRaise
<1>5. CASE AdviseTutor
    <2>1. \E found \in BOOLEAN :
              /\ evidence' = RiskAgentResult(found, subject)
              /\ \E policy \in [Queries(evidence') -> PolicyOutcomes] :
                     reply' = Advise(evidence', policy)
        BY <1>5 DEF AdviseTutor
    <2> QED BY <1>5, <2>1 DEF ChainInv, AdviseTutor, ReadsRaise
<1>6. CASE UNCHANGED chainVars
    BY <1>6 DEF ChainInv, chainVars, ReadsRaise
<1> QED BY <1>1, <1>2, <1>3, <1>4, <1>5, <1>6 DEF ChainNext

\* The chain computes what ChainInv says.
LEMMA ChainInvariant ==
    ChainSpec => []ChainInv
BY ChainStarts, ChainStep, PTL DEF ChainSpec

(* A level given to a partial assessment lies between the levels the       *)
(* student would have if the missing indicators counted for nothing and in *)
(* full, for all facts of a student: the normalisation moves the score up  *)
(* by at most the missing weights.                                         *)
THEOREM GapsNeitherHideNorAccuse == ChainSpec => []PartialLevelIsBracketed
<1>1. ChainInv => PartialLevelIsBracketed
    BY LevelsAreBracketed DEF ChainInv, PartialLevelIsBracketed
<1> QED BY <1>1, ChainInvariant, PTL

(* The health converter accepts every result of the scoring policy, and    *)
(* the health level the dashboard shows agrees with the risk level next to *)
(* it, for all facts of a student.                                         *)
THEOREM HealthAgreesWithRisk == ChainSpec => []HealthMirrorsRisk
<1>1. ChainInv => HealthMirrorsRisk
    <2> SUFFICES ASSUME ChainInv, stage \in {"monday", "brief", "shown", "advised"},
                        dashboard.success
                 PROVE  DashboardMirrors(assessment, dashboard.view)
        BY DEF HealthMirrorsRisk
    <2>1. /\ assessment = AssessStudentRisk(subject, TRUE)
          /\ dashboard = IF ReadsRaise THEN [success |-> FALSE]
                         ELSE [success |-> TRUE, view |-> Dashboard(subject)]
        BY DEF ChainInv
    <2>2. dashboard.view = Dashboard(subject)
        BY <2>1
    <2>3. DashboardMirrors(assessment, dashboard.view)
        BY ONLY <2>1, <2>2, DashboardIsMirror
    <2> QED BY <2>3
<1> QED BY <1>1, ChainInvariant, PTL

(* A student the detection finds to require attention is in the tutor's    *)
(* briefing with an action, in the Monday briefing and on the dashboard,   *)
(* for all facts of a student: the meetings alone never make one require   *)
(* attention, and each other indicator with points is a factor to the      *)
(* Monday policy too.                                                      *)
THEOREM FlaggedIsShownEverywhere == ChainSpec => []DetectedIsShownEverywhere
<1>1. ChainInv => DetectedIsShownEverywhere
    <2> SUFFICES ASSUME ChainInv, stage = "shown", finding.parsed, finding.attention
                 PROVE  /\ tutorBriefing.status # "raised"
                        /\ \A s \in tutorBriefing.summaries : s.actions # {}
                        /\ tutorBriefing.summaries # {}
                        /\ analysis.requires_attention
                        /\ dashboard.success => dashboard.view.attention
        BY DEF DetectedIsShownEverywhere
    <2> DEFINE progress == GetProgress(subject.ects).success
    <2>1. /\ assessment = AssessStudentRisk(subject, TRUE)
          /\ finding = ParseAssessment(assessment)
          /\ subject \in StudentFacts
          /\ analysis = AnalyzeStudent(subject, subject)
          /\ tutorBriefing = GenerateBriefing(BriefingOf(finding, progress))
          /\ dashboard = IF ReadsRaise THEN [success |-> FALSE]
                         ELSE [success |-> TRUE, view |-> Dashboard(subject)]
        BY DEF ChainInv
    <2>2. Requires(subject)
        BY <2>1 DEF Requires
    <2>3. /\ tutorBriefing.status # "raised"
          /\ \A s \in tutorBriefing.summaries : s.actions # {}
          /\ tutorBriefing.summaries # {}
        <3> HIDE DEF progress
        <3> QED BY <2>1, <2>2, BriefingShowsAttention
    <2>4. analysis.requires_attention
        BY <2>1, <2>2, MondayListsAttention
    <2>5. dashboard.success => dashboard.view.attention
        <3>1. Dashboard(subject).attention
            BY <2>2, DashboardAsksForAttention
        <3>2. CASE ReadsRaise
            BY <2>1, <3>2
        <3>3. CASE ~ReadsRaise
            BY <2>1, <3>1, <3>3
        <3> QED BY <3>2, <3>3
    <2> QED BY <2>3, <2>4, <2>5
<1> QED BY <1>1, ChainInvariant, PTL

(* Advice is complete only with all evidence, leaves no risk factor        *)
(* without an intervention or a note, and tells nobody the canonical score *)
(* flags that nothing is required, for all facts and every outcome of the  *)
(* policy queries.                                                         *)
THEOREM AdviceClaimsWhatWasFound == ChainSpec => []AdviceIsEarned
<1>1. ChainInv => AdviceIsEarned
    <2> SUFFICES ASSUME ChainInv, stage = "advised"
                 PROVE  AdviceIsEarned
        BY DEF AdviceIsEarned
    <2>1. /\ assessment = AssessStudentRisk(subject, TRUE)
          /\ finding = ParseAssessment(assessment)
          /\ subject \in StudentFacts
        BY DEF ChainInv
    <2>2. PICK found \in BOOLEAN :
              /\ evidence = RiskAgentResult(found, subject)
              /\ \E policy \in [Queries(evidence) -> PolicyOutcomes] :
                     reply = Advise(evidence, policy)
        BY DEF ChainInv
    <2>3. PICK policy \in [Queries(evidence) -> PolicyOutcomes] :
              reply = Advise(evidence, policy)
        BY <2>2
    <2>4. (finding.parsed /\ finding.attention) <=> Requires(subject)
        BY <2>1 DEF Requires
    <2>5. /\ (reply.status = "SUCCESS") = ("availability" \notin reply.sections)
          /\ reply.status = "SUCCESS" => /\ evidence.unavailable = {}
                                         /\ "policy" \in reply.sections
          /\ evidence.status # "FAILED" => \A f \in evidence.factors :
                 \/ \E i \in reply.interventions :
                        /\ i.intervention \in {r.intervention : r \in Rules[f.dimension]}
                        /\ PriorityOrder[f.level] <= PriorityOrder[i.priority]
                 \/ "availability" \in reply.sections
          /\ (\E r \in reply.recommendations : r.type = "monitoring") =>
                 /\ evidence.unavailable = {} /\ Cardinality(reply.recommendations) = 1
                 /\ ~Requires(subject)
        BY ONLY <2>1, <2>2, <2>3, AdviceOfRisk
    <2> QED BY <2>4, <2>5 DEF AdviceIsEarned
<1> QED BY <1>1, ChainInvariant, PTL
=============================================================================
