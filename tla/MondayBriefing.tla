--------------------------- MODULE MondayBriefing ---------------------------
(***************************************************************************)
(* workflows/monday as the scheduler runs it: a briefing for each active   *)
(* tutor about the students assigned to them, all of them prepared first   *)
(* and then sent.  Nothing in the run rolls its session back: after one    *)
(* failed statement every later one fails, the final write of its          *)
(* execution row included.                                                 *)
(***************************************************************************)
EXTENDS WorkflowDatabase, RiskReaders

CONSTANT MondayRun      \* the instance that runs it

ASSUME MondayRunAssumption == MondayRun \in Instances

VARIABLES
    monday,         \* the run
    mondaySender,   \* is a sender configured when the run is made?
    received        \* the tutors whom a briefing reached

mondayVars == <<monday, mondaySender, received>>

MondayStages == {"off", "start", "events", "tutors", "assigned", "analyze", "conclude",
                 "deliver", "end", "done", "crashed"}
NoTutor == "nobody"
NoBriefing == [tutor |-> NoTutor, students |-> {}, priority |-> {}, failed |-> {},
               warned |-> FALSE, delivery |-> "none"]

MondayTypeOK ==
    /\ monday.at \in MondayStages
    /\ monday.tutors \subseteq Tutors /\ monday.todo \subseteq StudentIds
    /\ \A b \in monday.briefings :
          /\ b.tutor \in Tutors /\ b.failed \cup b.priority \subseteq b.students
          /\ b.delivery \in {"NOT_SENT", "NO_DESTINATION", "UNAVAILABLE", "DELIVERED", "FAILED"}
    /\ mondaySender \in BOOLEAN /\ received \subseteq reachable

NewMonday == [at |-> "off", eventsMissing |-> FALSE, tutors |-> {}, todo |-> {},
              briefing |-> NoBriefing, briefings |-> {}, status |-> "none"]

MondayInit(at) ==
    /\ monday = [NewMonday EXCEPT !.at = at]
    /\ mondaySender \in BOOLEAN
    /\ received = {}

Proceed(at, changes) ==
    monday' = [x \in DOMAIN monday |-> IF x = "at" THEN at
                                       ELSE IF x \in DOMAIN changes THEN changes[x] ELSE monday[x]]

MondayReads == ReadsOnly /\ UNCHANGED <<mondaySender, received>>

StartMonday ==
    /\ monday.at = "start" /\ StartExecution(MondayRun, "monday")
    /\ Proceed("events", [status |-> "none"])
    /\ UNCHANGED <<mondaySender, received>>

LoadUpcomingEvents ==
    /\ monday.at = "events" /\ MondayReads
    /\ \/ StatementSucceeds(MondayRun) /\ Proceed("tutors", [eventsMissing |-> FALSE])
       \/ StatementFails(MondayRun) /\ Proceed("tutors", [eventsMissing |-> TRUE])

\* Only the tutors' own query makes the run fail outright.
ListActiveTutors ==
    /\ monday.at = "tutors" /\ MondayReads
    /\ \/ StatementSucceeds(MondayRun) /\ Proceed("assigned", [tutors |-> Tutors])
       \/ StatementFails(MondayRun) /\ Proceed("end", [status |-> "failed"])

\* A briefing is begun with the students assigned to the tutor; the order of the
\* tutors makes no difference.
ListStudents ==
    /\ monday.at = "assigned" /\ monday.tutors # {} /\ MondayReads
    /\ LET tutor == CHOOSE t \in monday.tutors : TRUE
           begun == [NoBriefing EXCEPT !.tutor = tutor, !.warned = monday.eventsMissing]
           left == monday.tutors \ {tutor}
       IN  \/ /\ StatementSucceeds(MondayRun)
              /\ Proceed("analyze", [tutors |-> left, todo |-> AssignedTo[tutor],
                                     briefing |-> [begun EXCEPT !.students = AssignedTo[tutor]]])
           \/ /\ StatementFails(MondayRun)
              /\ Proceed("analyze", [tutors |-> left, todo |-> {},
                                     briefing |-> [begun EXCEPT !.warned = TRUE]])

\* First the progress, then the four reads of the risk provider.
AnalyzeNext ==
    /\ monday.at = "analyze" /\ monday.todo # {} /\ MondayReads
    /\ LET s == CHOOSE x \in monday.todo : \A y \in monday.todo : x <= y
           b == monday.briefing
       IN  \E seen \in {"ects", "none"}, r \in DOMAIN ReadOrder :
              LET analysis == AnalyzeStudent(FactsFrom(seen, facts[s]), FactsFrom(r, facts[s]))
              IN  /\ seen = "ects" => r = "ects"
                  /\ session[MondayRun] = "aborted" => seen = "ects"
                  /\ ReadsFail(MondayRun, r)
                  /\ Proceed("analyze",
                       [todo |-> monday.todo \ {s},
                        briefing |->
                          [b EXCEPT !.warned = @ \/ analysis.warned \/ ~analysis.successful,
                                    !.failed = IF analysis.successful THEN @ ELSE @ \cup {s},
                                    !.priority = IF analysis.requires_attention THEN @ \cup {s}
                                                 ELSE @]])

\* The text is rendered before the warning that there is nowhere to send it.
RenderBriefing ==
    /\ monday.at = "analyze" /\ monday.todo = {}
    /\ LET b == monday.briefing
       IN  Proceed("assigned",
                   [briefings |-> monday.briefings \cup
                       {[b EXCEPT !.delivery = IF b.tutor \in reachable THEN "NOT_SENT"
                                               ELSE "NO_DESTINATION"]},
                    briefing |-> NoBriefing])
    /\ UNCHANGED <<databaseVars, mondaySender, received>>

AnalysisStatus ==
    LET assigned == UNION {{<<b.tutor, s>> : s \in b.students} : b \in monday.briefings}
        failed == UNION {{<<b.tutor, s>> : s \in b.failed} : b \in monday.briefings}
    IN  IF assigned # {} /\ failed = assigned THEN "failed"
        ELSE IF monday.eventsMissing
                \/ \E b \in monday.briefings : b.warned \/ b.delivery = "NO_DESTINATION"
             THEN "partial"
        ELSE "completed"

\* Without tutors a warning about the events does not make the run partial.
ConcludeAnalysis ==
    /\ monday.at = "assigned" /\ monday.tutors = {}
    /\ LET status == IF Tutors = {} THEN "completed" ELSE AnalysisStatus
       IN  Proceed(IF status = "failed" THEN "end" ELSE "deliver", [status |-> status])
    /\ UNCHANGED <<databaseVars, mondaySender, received>>

StatusAfterDelivery(status, delivery) ==
    IF delivery \in {"FAILED", "UNAVAILABLE"} /\ status = "completed" THEN "partial" ELSE status

\* A message that timed out may have reached the tutor all the same.
DeliverBriefing ==
    /\ monday.at = "deliver"
    /\ \E b \in {x \in monday.briefings : x.delivery = "NOT_SENT"},
          fate \in {"UNAVAILABLE", "DELIVERED", "FAILED"}, reached \in BOOLEAN :
          /\ fate = "UNAVAILABLE" <=> ~mondaySender
          /\ fate = "DELIVERED" => reached
          /\ fate = "UNAVAILABLE" => ~reached
          /\ received' = IF reached THEN received \cup {b.tutor} ELSE received
          /\ Proceed("deliver",
                     [briefings |-> (monday.briefings \ {b}) \cup {[b EXCEPT !.delivery = fate]},
                      status |-> StatusAfterDelivery(monday.status, fate)])
    /\ UNCHANGED <<databaseVars, mondaySender>>

ConcludeBriefings ==
    /\ monday.at = "deliver" /\ \A b \in monday.briefings : b.delivery # "NOT_SENT"
    /\ Proceed("end", [status |-> monday.status])
    /\ UNCHANGED <<databaseVars, mondaySender, received>>

FinishMonday ==
    /\ monday.at = "end"
    /\ FinishExecution(MondayRun, "monday", monday.status)
    /\ Proceed("done", [status |-> monday.status])
    /\ UNCHANGED <<mondaySender, received>>

MondayCrash ==
    /\ monday.at \notin {"off", "done", "crashed"}
    /\ monday' = [NewMonday EXCEPT !.at = "crashed"]
    /\ UNCHANGED <<databaseVars, mondaySender, received>>

MondayNext ==
    \/ StartMonday \/ LoadUpcomingEvents \/ ListActiveTutors \/ ListStudents
    \/ AnalyzeNext \/ RenderBriefing \/ ConcludeAnalysis
    \/ DeliverBriefing \/ ConcludeBriefings \/ FinishMonday \/ MondayCrash
-----------------------------------------------------------------------------
NeedsAttention(s) == AnalyzeStudent(facts[s], facts[s]).requires_attention

(* "Missing information is not interpreted as no academic concern": a      *)
(* briefing whose text shows no warning covers every student assigned to   *)
(* the tutor and lists all of those whose facts ask for attention, and a   *)
(* run that ends completed brought such a briefing to every active tutor,  *)
(* with a session that may abort and messages that may fail or time out.   *)
BriefingIsWholeOrWarns ==
    /\ \A b \in monday.briefings : ~b.warned =>
          /\ b.students = AssignedTo[b.tutor]
          /\ b.priority = {s \in b.students : NeedsAttention(s)}
    /\ monday.at = "done" /\ monday.status = "completed" =>
          \A t \in Tutors : t \in received /\ \E b \in monday.briefings : b.tutor = t /\ ~b.warned

(* The history has the final status of every run that ended and whose own  *)
(* writes of its row did not fail.                                         *)
EndedRunIsFinal ==
    \A e \in Instances \X Workflows :
        outcome[e] # "none" /\ e \notin unwritten => log[e] = outcome[e]
=============================================================================
