-------------------------- MODULE WorkflowDatabase --------------------------
(***************************************************************************)
(* What the scheduled workflows share: the students in the database, the   *)
(* one session each running instance reads and writes it through, and the  *)
(* history of executions (workflows/execution_logging,                     *)
(* repositories/workflow_execution_log_repository).                        *)
(*                                                                         *)
(* A statement that fails aborts the session's transaction: every further  *)
(* statement fails until somebody rolls back.  Of the code the workflows   *)
(* run, only the two repositories that write do (and the query of the      *)
(* meetings, which has a savepoint of its own).                            *)
(***************************************************************************)
EXTENDS Integers, FiniteSets

CONSTANTS
    StudentIds,     \* ids of the students, a set of positive integers
    Facts,          \* what may be stored of them, by id (see RiskScoring)
    Instances,      \* the runs of a workflow, each with a session of its own
    Tutors,         \* the active tutors
    AssignedTo,     \* [Tutors -> SUBSET StudentIds]
    Destinations,   \* the sets of tutors who may have a Telegram chat
    MaxUnwritten    \* bound on the history's own failed writes

ASSUME StudentIdsAssumption == StudentIds \subseteq Nat \ {0} /\ IsFiniteSet(StudentIds)
ASSUME TutorsAssumption == /\ AssignedTo \in [Tutors -> SUBSET StudentIds]
                           /\ Destinations \subseteq SUBSET Tutors

Workflows == {"daily", "risk", "alerts", "delivery", "weekly", "monday"}
FinalStatuses == {"completed", "partial", "failed", "unavailable"}

VARIABLES
    facts,      \* of each student
    reachable,  \* the tutors who have a Telegram chat
    active,     \* the students whose status is ACTIVE
    session,    \* the transaction of each instance: "ok" or "aborted"
    log,        \* the row of each execution: "none", "running" or its final status
    outcome,    \* the status of the result each execution ended with, "none" before
    unwritten   \* executions of which a write of their own row failed

databaseVars == <<facts, reachable, active, session, log, outcome, unwritten>>

DatabaseTypeOK ==
    /\ facts \in Facts
    /\ reachable \subseteq Tutors
    /\ active \subseteq StudentIds
    /\ session \in [Instances -> {"ok", "aborted"}]
    /\ log \in [Instances \X Workflows -> FinalStatuses \cup {"none", "running"}]
    /\ outcome \in [Instances \X Workflows -> FinalStatuses \cup {"none"}]
    /\ unwritten \subseteq Instances \X Workflows

DatabaseInit ==
    /\ facts \in Facts
    /\ reachable \in Destinations
    /\ active \in SUBSET StudentIds
    /\ session = [i \in Instances |-> "ok"]
    /\ log = [e \in Instances \X Workflows |-> "none"]
    /\ outcome = [e \in Instances \X Workflows |-> "none"]
    /\ unwritten = {}
-----------------------------------------------------------------------------
(* Statements.  They leave the history alone.                              *)

StatementSucceeds(i) == session[i] = "ok" /\ UNCHANGED session

\* On its own account, or because the transaction is aborted.
StatementFails(i) == session' = [session EXCEPT ![i] = "aborted"]

ReadsOnly == UNCHANGED <<facts, reachable, active, log, outcome, unwritten>>

ReadOrder == [ects |-> 1, right |-> 2, events |-> 3, meetings |-> 4, none |-> 5]

\* The facts f as they are read when `r` is the first read to fail.
FactsFrom(r, f) ==
    LET read(x) == IF ReadOrder[x] < ReadOrder[r] THEN f[x].read ELSE "raises"
    IN  [x \in {"ects", "right", "events", "meetings"} |-> [f[x] EXCEPT !.read = read(x)]]

\* The reads about one student end with r the first to fail; a failure of the
\* meetings' query alone is confined to its savepoint.
ReadsFail(i, r) ==
    /\ session[i] = "aborted" => r = "ects"
    /\ session' = [session EXCEPT ![i] = IF r \in {"ects", "right", "events"}
                                         THEN "aborted" ELSE @]
-----------------------------------------------------------------------------
(* The history of executions.                                              *)

WriteIsLost(i, w) ==
    /\ Cardinality(unwritten) < MaxUnwritten
    /\ unwritten' = unwritten \cup {<<i, w>>}

\* Mutant of WriteRow: a failing write leaves the transaction as it is.
WriteRowWithoutRollback(i, w, row) ==
    \/ /\ session[i] = "ok"
       /\ log' = [log EXCEPT ![<<i, w>>] = row]
       /\ UNCHANGED <<session, unwritten>>
    \/ /\ session' = [session EXCEPT ![i] = "aborted"]
       /\ IF session[i] = "ok" THEN WriteIsLost(i, w) ELSE UNCHANGED unwritten
       /\ UNCHANGED log

\* A write and its commit, or the rollback after whatever failed.
WriteRow(i, w, row) ==
    \/ /\ session[i] = "ok"
       /\ log' = [log EXCEPT ![<<i, w>>] = row]
       /\ UNCHANGED <<session, unwritten>>
    \/ /\ session' = [session EXCEPT ![i] = "ok"]
       /\ IF session[i] = "ok" THEN WriteIsLost(i, w) ELSE UNCHANGED unwritten
       /\ UNCHANGED log

\* WorkflowExecutionRecorder._start: a failure is logged and forgotten.
StartExecution(i, w) ==
    /\ log[<<i, w>>] = "none"
    /\ WriteRow(i, w, "running")
    /\ UNCHANGED <<facts, reachable, active, outcome>>

\* workflow_outcome: a status the table does not know counts as failed.
WorkflowOutcome(status) == IF status \in FinalStatuses THEN status ELSE "failed"

\* _finish: updates the running row or, when its start was not written, inserts it.
FinishExecution(i, w, status) ==
    /\ log[<<i, w>>] \in {"none", "running"}
    /\ outcome' = [outcome EXCEPT ![<<i, w>>] = status]
    /\ WriteRow(i, w, WorkflowOutcome(status))
    /\ UNCHANGED <<facts, reachable, active>>
-----------------------------------------------------------------------------
\* _aggregate_status, the same over the daily checks and the weekly sections.
AggregateStatus(statuses) ==
    IF statuses = {"completed"} THEN "completed"
    ELSE IF statuses = {"unavailable"} THEN "unavailable"
    ELSE IF statuses \cap {"completed", "partial"} # {} THEN "partial"
    ELSE "failed"
-----------------------------------------------------------------------------
(* The execution history, as long as its own writes succeed, tells what    *)
(* the runs came to although they share one session with it: a daily or a  *)
(* weekly run that ends is never left running by a failure inside it, for  *)
(* its later writes roll the failure back; no execution that completed is  *)
(* left running; and no row claims another status than the result had      *)
(* (WorkflowExecutionRecorder, "never presented as successful completion").*)
HistoryTellsResults ==
    \A i \in Instances, w \in Workflows :
        /\ log[<<i, w>>] \in FinalStatuses => log[<<i, w>>] = outcome[<<i, w>>]
        /\ outcome[<<i, w>>] # "none" /\ <<i, w>> \notin unwritten =>
               \/ log[<<i, w>>] = outcome[<<i, w>>]
               \/ w \notin {"daily", "weekly"} /\ outcome[<<i, w>>] # "completed"
=============================================================================
