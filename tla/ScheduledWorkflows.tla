------------------------- MODULE ScheduledWorkflows -------------------------
(***************************************************************************)
(* The three jobs that main.py registers with the scheduler, each over the *)
(* same database.  A job runs in a thread and a session of its own and     *)
(* shares nothing with the others but the committed data, which none of    *)
(* them changes for another: they are explored one after another, and a    *)
(* weekly run together with a second one for the same week.                *)
(***************************************************************************)
EXTENDS DailyWorkflow, WeeklyWorkflow, MondayBriefing

CONSTANT Jobs       \* the jobs that are explored

ASSUME FactsAssumption == Facts \subseteq [StudentIds -> StudentFacts]

vars == <<databaseVars, dailyVars, weeklyVars, mondayVars>>

Init ==
    \E job \in Jobs :
        /\ DatabaseInit
        /\ DailyInit(IF job = "daily" THEN "start" ELSE "off")
        /\ WeeklyInit(IF job = "weekly" THEN "start" ELSE "off")
        /\ MondayInit(IF job = "monday" THEN "start" ELSE "off")
        /\ job # "daily" => ~sender /\ active = {}
        /\ job # "weekly" => enrolled = {}
        /\ job = "weekly" => reachable = Tutors
        /\ job # "monday" => ~mondaySender

Next ==
    \/ DailyNext /\ UNCHANGED <<weeklyVars, mondayVars>>
    \/ WeeklyNext /\ UNCHANGED <<dailyVars, mondayVars>>
    \/ MondayNext /\ UNCHANGED <<dailyVars, weeklyVars>>

Spec == Init /\ [][Next]_vars

TypeOK == DatabaseTypeOK /\ DailyTypeOK /\ WeeklyTypeOK /\ MondayTypeOK
=============================================================================
