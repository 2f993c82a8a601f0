--------------------------- MODULE WeeklyWorkflow ---------------------------
(***************************************************************************)
(* workflows/weekly and its report store (repositories/weekly_report_      *)
(* repository): each instance reads the events of the week, pages through  *)
(* the student directory, reads everyone's progress and risk, and stores   *)
(* one report under the week's key.  The instances are runs for the same   *)
(* week: of one process after a restart, or of several at the same time.   *)
(***************************************************************************)
EXTENDS WorkflowDatabase, RiskReaders, SequencesExt

CONSTANT PageSize       \* students per page of the directory

ASSUME PageSizeAssumption == PageSize \in Nat \ {0}
ASSUME InstancesAssumption == Instances \subseteq Nat \ {0}      \* 0 is the author of no report

VARIABLES
    weekly,     \* the run of each instance
    enrolled,   \* the students in the directory, which lists them by name (by id here)
    store       \* the week's row of weekly_workflow_reports

weeklyVars == <<weekly, enrolled, store>>

WeeklyStages == {"off", "start", "events", "count", "page", "progress", "risks", "save",
                 "end", "done", "crashed"}
Buckets == RiskLevels \cup {"PARTIAL", "UNAVAILABLE"}
NoBuckets == [b \in Buckets |-> 0]
NoCounts == [BEHIND |-> 0, ON_TRACK |-> 0, AHEAD |-> 0, failed |-> 0]
NoReport == [by |-> 0]

WeeklyTypeOK ==
    /\ \A i \in Instances : /\ weekly[i].at \in WeeklyStages
                            /\ weekly[i].listed \in Seq(StudentIds)
                            /\ weekly[i].buckets \in [Buckets -> Nat]
    /\ enrolled \subseteq StudentIds
    /\ store.by \in Instances \cup {0}

NewWeekly ==
    [at |-> "off", events |-> "none", directory |-> "none", progress |-> "none",
     risks |-> "none", total |-> -1, rows |-> 0, listed |-> <<>>, memo |-> FALSE,
     assessed |-> 0, buckets |-> NoBuckets, counts |-> NoCounts,
     status |-> "none", persistence |-> "not_attempted"]

WeeklyInit(at) ==
    /\ weekly = [i \in Instances |-> [NewWeekly EXCEPT !.at = at]]
    /\ enrolled \in SUBSET StudentIds
    /\ store = NoReport

Step(i, at, changes) ==
    weekly' = [weekly EXCEPT ![i] =
                  [x \in DOMAIN @ |-> IF x = "at" THEN at
                                      ELSE IF x \in DOMAIN changes THEN changes[x] ELSE @[x]]]

Reading == ReadsOnly /\ UNCHANGED <<enrolled, store>>
Unchanged == [x \in {} |-> 0]
-----------------------------------------------------------------------------
\* Bound: a later instance starts when the earlier ones have made their report;
\* up to there an instance leaves nothing that another one could read.
StartWeekly(i) ==
    /\ \A j \in Instances : j < i => weekly[j].at \in {"save", "end", "done", "crashed"}
    /\ weekly[i].at = "start" /\ StartExecution(i, "weekly") /\ Step(i, "events", Unchanged)
    /\ UNCHANGED <<enrolled, store>>

CheckWeekEvents(i) ==
    /\ weekly[i].at = "events" /\ Reading
    /\ \/ StatementSucceeds(i) /\ Step(i, "count", [events |-> "completed"])
       \/ StatementFails(i) /\ Step(i, "count", [events |-> "failed"])

DirectoryFails(i) ==
    Step(i, "save", [directory |-> "failed", progress |-> "unavailable",
                     risks |-> "unavailable", listed |-> <<>>])

\* search_students counts first and reads the page with a second statement.
CountStudents(i) ==
    /\ weekly[i].at = "count" /\ Reading
    /\ \/ StatementSucceeds(i) /\ Step(i, "page", [rows |-> Cardinality(enrolled)])
       \/ StatementFails(i) /\ DirectoryFails(i)

\* The rows of the directory in their order.
Directory ==
    CHOOSE rows \in SetToSeqs(enrolled) : \A i, j \in DOMAIN rows : i < j => rows[i] < rows[j]

Page(offset) == SubSeq(Directory, offset + 1, Min({offset + PageSize, Len(Directory)}))

\* Mutant of PageIsSound: a total that changes between the pages goes unnoticed.
PageIsSoundAlone(w, page) == page = <<>> => Len(w.listed) >= w.rows

\* _list_students raises for a total that changes and for rows that do not add up to it.
PageIsSound(w, page) ==
    /\ w.total \in {-1, w.rows}
    /\ page = <<>> => Len(w.listed) >= w.rows
    /\ Len(w.listed) + Len(page) <= w.rows

ReadPage(i) ==
    /\ weekly[i].at = "page" /\ Reading
    /\ LET w == weekly[i]
           page == Page(Len(w.listed))
           listed == w.listed \o page
       IN  \/ StatementFails(i) /\ DirectoryFails(i)
           \/ StatementSucceeds(i) /\ ~PageIsSound(w, page) /\ DirectoryFails(i)
           \/ /\ StatementSucceeds(i) /\ PageIsSound(w, page)
              /\ IF page # <<>> /\ Len(listed) < w.rows
                 THEN Step(i, "count", [total |-> w.rows, listed |-> listed])
                 ELSE Step(i, "progress", [total |-> w.rows, listed |-> listed,
                                           directory |-> "completed"])
-----------------------------------------------------------------------------
\* A student who has been removed since has no row to be found.
FactsNow(s) ==
    IF s \in enrolled THEN facts[s] ELSE [facts[s] EXCEPT !.ects.read = "not_found"]

\* calculate_ects_for_cohort over the listed ids, each of them once; a row too
\* many for its id counts as a malformed record.
CohortCounts(listed) ==
    LET ids == Range(listed)
        with(x) == Cardinality({s \in ids : GetProgress(FactsNow(s).ects).success
                                           /\ GetProgress(FactsNow(s).ects).status = x})
        processed == with("BEHIND") + with("ON_TRACK") + with("AHEAD")
    IN  [BEHIND |-> with("BEHIND"), ON_TRACK |-> with("ON_TRACK"), AHEAD |-> with("AHEAD"),
         failed |-> Len(listed) - processed]

ProgressStatus(counts) ==
    IF counts.failed = 0 THEN "completed"
    ELSE IF counts.BEHIND + counts.ON_TRACK + counts.AHEAD = 0 THEN "failed" ELSE "partial"

CheckProgress(i) ==
    /\ weekly[i].at = "progress" /\ Reading
    /\ \/ /\ weekly[i].listed = <<>> /\ UNCHANGED session
          /\ Step(i, "risks", [progress |-> "completed"])
       \/ /\ weekly[i].listed # <<>> /\ StatementSucceeds(i)
          /\ LET counts == CohortCounts(weekly[i].listed)
             IN  Step(i, "risks", [counts |-> counts, progress |-> ProgressStatus(counts)])
       \/ /\ weekly[i].listed # <<>> /\ StatementFails(i)
          /\ Step(i, "risks", [progress |-> "failed"])

\* The events of the week are asked for once in a report.
WeeklyReadsFail(i, r) ==
    /\ weekly[i].memo => r # "events"
    /\ ReadsFail(i, r)

BucketOf(risk) ==
    IF ~risk.success THEN "UNAVAILABLE"
    ELSE IF risk.status = "PARTIAL" THEN "PARTIAL" ELSE risk.level

AssessWeekly(i) ==
    /\ weekly[i].at = "risks" /\ weekly[i].assessed < Len(weekly[i].listed) /\ Reading
    /\ LET w == weekly[i]
           s == w.listed[w.assessed + 1]
       IN  \E r \in DOMAIN ReadOrder :
              /\ WeeklyReadsFail(i, r)
              /\ Step(i, "risks",
                      [assessed |-> w.assessed + 1,
                       memo |-> w.memo \/ r \in {"meetings", "none"},
                       buckets |-> [w.buckets EXCEPT ![BucketOf(
                                      AssessStudentRisk(FactsFrom(r, FactsNow(s)), FALSE))] = @ + 1]])

RisksStatus(w) ==
    IF w.buckets["PARTIAL"] + w.buckets["UNAVAILABLE"] = 0 THEN "completed"
    ELSE IF w.buckets["UNAVAILABLE"] < Len(w.listed) THEN "partial" ELSE "unavailable"

ConcludeRisks(i) ==
    /\ weekly[i].at = "risks" /\ weekly[i].assessed = Len(weekly[i].listed)
    /\ Step(i, "save", [risks |-> RisksStatus(weekly[i])])
    /\ UNCHANGED <<databaseVars, enrolled, store>>
-----------------------------------------------------------------------------
WeeklyStatus(w) == AggregateStatus({w.events, w.directory, w.progress, w.risks})

StatusAfterPersistenceFailure(status) ==
    IF status \in {"failed", "unavailable"} THEN "failed" ELSE "partial"

Report(i) ==
    [by |-> i, status |-> WeeklyStatus(weekly[i]), count |-> Len(weekly[i].listed),
     buckets |-> weekly[i].buckets]

\* Mutant of StoreAfterInsert: the later report replaces the stored one.
StoreAfterUpsert(i) == Report(i)

\* INSERT ... ON CONFLICT (execution_key) DO NOTHING.
StoreAfterInsert(i) == IF store = NoReport THEN Report(i) ELSE store

\* _persist and save_report: every failure is rolled back.
SaveReport(i) ==
    /\ weekly[i].at = "save"
    /\ \/ /\ session[i] = "ok" /\ UNCHANGED session
          /\ store' = StoreAfterInsert(i)
          /\ Step(i, "end", [status |-> WeeklyStatus(weekly[i]),
                             persistence |-> IF store = NoReport THEN "saved"
                                             ELSE "already_stored"])
       \/ /\ session' = [session EXCEPT ![i] = "ok"]
          /\ UNCHANGED store
          /\ Step(i, "end", [status |-> StatusAfterPersistenceFailure(WeeklyStatus(weekly[i])),
                             persistence |-> "failed"])
    /\ ReadsOnly /\ UNCHANGED enrolled

FinishWeekly(i) ==
    /\ weekly[i].at = "end"
    /\ FinishExecution(i, "weekly", weekly[i].status)
    /\ Step(i, "done", Unchanged)
    /\ UNCHANGED <<enrolled, store>>

WeeklyCrash(i) ==
    /\ weekly[i].at \notin {"off", "done", "crashed"}
    /\ weekly' = [weekly EXCEPT ![i] = [NewWeekly EXCEPT !.at = "crashed"]]
    /\ UNCHANGED <<databaseVars, enrolled, store>>

\* Students come and go while the directory is read; before, it makes no difference.
EnrolmentChanges ==
    /\ \E i \in Instances : \/ weekly[i].at = "page"
                            \/ weekly[i].at = "count" /\ weekly[i].listed # <<>>
    /\ \E s \in StudentIds :
          enrolled' = IF s \in enrolled THEN enrolled \ {s} ELSE enrolled \cup {s}
    /\ UNCHANGED <<databaseVars, weekly, store>>

WeeklyNext ==
    \/ \E i \in Instances :
          \/ StartWeekly(i) \/ CheckWeekEvents(i) \/ CountStudents(i) \/ ReadPage(i)
          \/ CheckProgress(i) \/ AssessWeekly(i) \/ ConcludeRisks(i)
          \/ SaveReport(i) \/ FinishWeekly(i) \/ WeeklyCrash(i)
    \/ EnrolmentChanges
-----------------------------------------------------------------------------
Total(buckets) == SumFunction(buckets)

(* What a report says adds up however its reads failed and whoever came or *)
(* went meanwhile: with the directory read, the six risk buckets hold as   *)
(* many students as the population it states, and so do the progress       *)
(* counts when that section did not fail as a whole; a completed progress  *)
(* section counted nobody twice; and a completed report has a level for    *)
(* each of its students (weekly_workflow.md, "always add up").             *)
ReportAddsUp ==
    \A i \in Instances : weekly[i].at \in {"save", "end", "done"} =>
        LET w == weekly[i] IN
        /\ w.directory = "completed" =>
               /\ w.total = Len(w.listed) /\ Total(w.buckets) = w.total
               /\ w.progress # "failed" => Total(w.counts) = w.total
               /\ w.progress = "completed" => IsInjective(w.listed)
        /\ w.status = "completed" =>
               /\ w.directory = "completed" /\ w.persistence # "failed"
               /\ w.buckets["PARTIAL"] + w.buckets["UNAVAILABLE"] = 0

(* The week has one report, the first that was stored, whatever a restart  *)
(* or another instance finds afterwards; a run that says a report is       *)
(* stored is right, and the run that says it stored its own did            *)
(* (WeeklyReportRepository, "a durable idempotency boundary").             *)
FirstReportStands ==
    [][/\ store # NoReport => store' = store
       /\ \A i \in Instances :
             /\ weekly'[i].persistence = "saved" => store' = Report(i)'
             /\ weekly'[i].persistence = "already_stored" => store'.by \notin {0, i}
      ]_<<databaseVars, weeklyVars>>
=============================================================================
