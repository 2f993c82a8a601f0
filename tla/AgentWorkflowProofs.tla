------------------------ MODULE AgentWorkflowProofs ------------------------
(***************************************************************************)
(* The safety properties of AgentWorkflow hold for every set of plans      *)
(* and every max_steps.                                                    *)
(*                                                                         *)
(* The argument: `prepare` leaves a plan without duplicates and no agent   *)
(* has run yet; every later step moves the head of `pending` to the end of *)
(* `completed`, so the plan is always completed \o pending.  step_count is *)
(* the length of `completed`, which bounds the nodes LangGraph runs, and   *)
(* an agent reads only results of agents that stand before it in the plan, *)
(* which no later agent replaces because no route occurs twice.            *)
(***************************************************************************)
EXTENDS AgentWorkflow, ListIdiomsProofs

(* Nothing has happened before `prepare`. *)
NothingBeforePrepare ==
    node = "prepare" =>
        completed = <<>> /\ pending = <<>> /\ stepCount = 0 /\ superSteps = 0

(* Each executed agent costs one step and one graph node. *)
StepBudget ==
    /\ stepCount = Len(completed)
    /\ stepCount <= maxSteps
    /\ node = "execute_agent" => pending # <<>> /\ stepCount < maxSteps
    /\ node \in {"finalize", "end"} => pending = <<>> \/ stepCount = maxSteps
    /\ node \in {"execute_agent", "finalize"} => superSteps = stepCount + 1

(* Only agents that have run have a result. *)
ResultsOfCompleted ==
    \A r \in Routes : results[r] # NoResult => r \in Range(completed)

ResponseOfCommunication ==
    finalResponse # "none" => "communication" \in Range(completed)

StatusByNode ==
    /\ node = "prepare" => status = "pending"
    /\ node \in {"execute_agent", "finalize"} => status = "running"
    /\ node = "end" => status = FinalStatus

IInv ==
    /\ TypeOK
    /\ NothingBeforePrepare
    /\ PlanConserved
    /\ StepBudget
    /\ ResultsOfCompleted
    /\ ResponseOfCommunication
    /\ StatusByNode
    /\ DerivedResultsEarned
    /\ CleanResponseIsEarned

-----------------------------------------------------------------------------
(* What popping the head of `pending` does to the plan: the route had not  *)
(* run, every agent that had run stands before it, and the plan is whole.  *)
LEMMA PopAgentMoves ==
    ASSUME IInv, NEW route \in Routes, PopAgent(route)
    PROVE  /\ completed' = Append(completed, route)
           /\ completed' \in Seq(Routes)
           /\ pending' \in Seq(Routes)
           /\ completed' \o pending' = selected
           /\ route \notin Range(completed)
           /\ Range(completed') = Range(completed) \cup {route}
           /\ \A r \in Range(completed) : Before(r, route)
           /\ Len(completed') = Len(completed) + 1
<1> DEFINE n == Len(completed)
<1>1. /\ completed \in Seq(Routes) /\ pending \in Seq(Routes) /\ selected \in Seq(Routes)
      /\ pending # <<>> /\ route = Head(pending) /\ pending' = Tail(pending)
      /\ completed \o pending = selected /\ IsInjective(selected)
      /\ completed' = Unique(Append(completed, route))
  BY DEF IInv, TypeOK, PlanConserved, StepBudget, PopAgent, Enter
<1>2. /\ n \in Nat /\ DOMAIN completed = 1..n
      /\ Len(pending) \in Nat \ {0} /\ DOMAIN pending = 1..Len(pending)
      /\ DOMAIN selected = 1..Len(selected)
  BY <1>1, LenProperties, EmptySeq
<1>3. /\ Len(selected) = n + Len(pending)
      /\ \A i \in 1..n : selected[i] = completed[i]
      /\ selected[n + 1] = pending[1]
  BY <1>1, <1>2, ConcatProperties
<1>4. pending[1] = route
  BY <1>1
<1>5. n + 1 \in DOMAIN selected /\ \A i \in 1..n : i \in DOMAIN selected /\ i < n + 1
  BY <1>2, <1>3
<1>6. ASSUME NEW i \in 1..n PROVE completed[i] # route
  <2>1. selected[i] = completed[i] /\ selected[n + 1] = route /\ i # n + 1
    BY <1>2, <1>3, <1>4
  <2>2. selected[i] # selected[n + 1]
    BY <1>1, <1>5, <2>1 DEF IsInjective
  <2> QED
    BY <2>1, <2>2
<1>7. route \notin Range(completed)
  BY <1>2, <1>6 DEF Range
<1>8. \A r \in Range(completed) : Before(r, route)
  BY <1>2, <1>3, <1>4, <1>5 DEF Range, Before
<1>9. /\ Append(completed, route) \in Seq(Routes)
      /\ Len(Append(completed, route)) = n + 1
      /\ \A i \in 1..n : Append(completed, route)[i] = completed[i]
      /\ Append(completed, route)[n + 1] = route
  BY <1>1, AppendProperties
<1>10. DOMAIN Append(completed, route) = 1..(n + 1)
  BY <1>9, LenProperties
<1>11. IsInjective(Append(completed, route))
  <2> SUFFICES ASSUME NEW i \in 1..(n + 1), NEW j \in 1..(n + 1),
                      Append(completed, route)[i] = Append(completed, route)[j]
               PROVE  i = j
    BY <1>10 DEF IsInjective
  <2>1. \A k \in 1..(n + 1) : k \in DOMAIN selected /\ Append(completed, route)[k] = selected[k]
    BY <1>2, <1>3, <1>4, <1>9
  <2> QED
    BY <1>1, <2>1 DEF IsInjective
<1>12. completed' = Append(completed, route)
  BY <1>1, <1>9, <1>11, UniqueOfInjective
<1>13. pending' \in Seq(Routes) /\ pending = <<route>> \o pending'
  BY <1>1, HeadTailProperties
<1>14. completed' \o pending' = selected
  <2>1. completed' = completed \o <<route>>
    BY <1>1, <1>12, AppendIsConcat
  <2>2. (completed \o <<route>>) \o pending' = completed \o (<<route>> \o pending')
    BY <1>1, <1>13, ConcatAssociative, <<route>> \in Seq(Routes)
  <2> QED
    BY <1>1, <1>13, <2>1, <2>2
<1>15. Range(completed') = Range(completed) \cup {route}
  BY <1>2, <1>9, <1>10, <1>12 DEF Range
<1> QED
  BY <1>7, <1>8, <1>9, <1>12, <1>13, <1>14, <1>15

(* Whatever stands before an agent that has run has run too.               *)
LEMMA EarlierHasRun ==
    ASSUME IInv, node # "prepare", NEW r, NEW q \in Range(completed), Before(r, q)
    PROVE  r \in Range(completed)
<1> DEFINE n == Len(completed)
<1>1. /\ completed \in Seq(Routes) /\ pending \in Seq(Routes) /\ selected \in Seq(Routes)
      /\ completed \o pending = selected /\ IsInjective(selected)
  BY DEF IInv, TypeOK, PlanConserved
<1>2. /\ n \in Nat /\ DOMAIN completed = 1..n
      /\ Len(pending) \in Nat /\ DOMAIN selected = 1..Len(selected)
  BY <1>1, LenProperties
<1>3. /\ Len(selected) = n + Len(pending)
      /\ \A i \in 1..n : selected[i] = completed[i] /\ i \in DOMAIN selected
  BY <1>1, <1>2, ConcatProperties
<1>4. PICK i, j \in DOMAIN selected : i < j /\ selected[i] = r /\ selected[j] = q
  BY DEF Before
<1>5. PICK k \in 1..n : completed[k] = q
  BY <1>2 DEF Range
<1>6. k \in DOMAIN selected /\ selected[k] = selected[j]
  BY <1>3, <1>4, <1>5
<1>7. k = j
  BY <1>1, <1>4, <1>6 DEF IsInjective
<1>8. i \in 1..n
  BY <1>2, <1>4, <1>7
<1> QED
  BY <1>2, <1>3, <1>4, <1>8 DEF Range

(* A result is never of a status the model has no name for.                *)
LEMMA AgentStatusesType ==
    ASSUME NEW route \in Routes
    PROVE  AgentStatuses(route) \subseteq ResultStatuses
<1>1. RecommendationStatuses \subseteq ResultStatuses
  BY DEF RecommendationStatuses, ResultStatuses
<1> QED
  BY <1>1 DEF AgentStatuses, ResultStatuses, Routes, ProgressStatuses,
              StudyRightsStatuses, RiskStatuses, CalendarStatuses,
              AcademicDataStatuses, ReportingStatuses, CommunicationStatuses

LEMMA NextNodeType ==
    ASSUME NEW work, NEW steps
    PROVE  /\ NextNode(work, steps) \in {"execute_agent", "finalize"}
           /\ NextNode(work, steps) = "execute_agent" => work # <<>> /\ ~(steps >= maxSteps)
           /\ NextNode(work, steps) = "finalize" => work = <<>> \/ steps >= maxSteps
  BY DEF NextNode, StepLimitReached

(* The part of the invariant that does not depend on how the agent answers. *)
LEMMA PopAgentKeepsPlan ==
    ASSUME IInv, NEW route \in Routes, PopAgent(route)
    PROVE  /\ node' \in {"execute_agent", "finalize"}
           /\ current' = route
           /\ stepCount' \in Nat /\ superSteps' \in Nat
           /\ NothingBeforePrepare'
           /\ PlanConserved'
           /\ StepBudget'
           /\ node = "execute_agent" /\ selected' = selected /\ status' = status /\ maxSteps' = maxSteps
<1>1. /\ node = "execute_agent" /\ current' = route /\ stepCount' = stepCount + 1
      /\ superSteps' = superSteps + 1 /\ node' = NextNode(pending', stepCount')
      /\ selected' = selected /\ status' = status /\ maxSteps' = maxSteps
  BY DEF PopAgent, Enter
<1>2. /\ stepCount \in Nat /\ superSteps \in Nat /\ stepCount = Len(completed)
      /\ stepCount < maxSteps /\ superSteps = stepCount + 1 /\ maxSteps \in Nat \ {0}
      /\ IsInjective(selected)
  BY <1>1 DEF IInv, TypeOK, StepBudget, PlanConserved
<1>3. completed' \o pending' = selected /\ Len(completed') = Len(completed) + 1
  BY PopAgentMoves
<1>4. /\ node' \in {"execute_agent", "finalize"}
      /\ node' = "execute_agent" => pending' # <<>> /\ ~(stepCount' >= maxSteps)
      /\ node' = "finalize" => pending' = <<>> \/ stepCount' >= maxSteps
  BY <1>1, NextNodeType
<1>5. NothingBeforePrepare'
  BY <1>4 DEF NothingBeforePrepare
<1>6. PlanConserved'
  BY <1>1, <1>2, <1>3 DEF PlanConserved
<1>7. StepBudget'
  BY <1>1, <1>2, <1>3, <1>4 DEF StepBudget
<1> QED
  BY <1>1, <1>2, <1>4, <1>5, <1>6, <1>7

-----------------------------------------------------------------------------
LEMMA InitEstablishes == Init => IInv
<1> SUFFICES ASSUME Init PROVE IInv
  OBVIOUS
<1> USE DEF Init
<1>1. TypeOK
  BY PlansAssumption, StepLimitsAssumption, EmptySeq
     DEF TypeOK, Nodes, WorkflowStatuses, ResultStatuses, NoResult
<1>2. Len(completed) = 0 /\ maxSteps \in Nat \ {0}
  BY StepLimitsAssumption
<1>3. NothingBeforePrepare /\ PlanConserved /\ StepBudget
  BY <1>2 DEF NothingBeforePrepare, PlanConserved, StepBudget
<1>4. ResultsOfCompleted /\ ResponseOfCommunication /\ StatusByNode /\ CleanResponseIsEarned
  BY DEF ResultsOfCompleted, ResponseOfCommunication, StatusByNode, CleanResponseIsEarned
<1>5. DerivedResultsEarned
  BY DEF DerivedResultsEarned, Routes, NoResult
<1> QED
  BY <1>1, <1>3, <1>4, <1>5 DEF IInv

LEMMA PrepareKeeps == IInv /\ Prepare => IInv'
<1> SUFFICES ASSUME IInv, Prepare PROVE IInv'
  OBVIOUS
<1>1. /\ node = "prepare" /\ completed = <<>> /\ pending = <<>>
      /\ stepCount = 0 /\ superSteps = 0 /\ selected \in Seq(Routes)
      /\ maxSteps \in Nat \ {0}
  BY DEF Prepare, Enter, IInv, NothingBeforePrepare, TypeOK
<1>2. /\ selected' = Unique(selected) /\ pending' = Without(selected', Range(completed))
      /\ completed' = completed /\ stepCount' = 0 /\ superSteps' = 1 /\ maxSteps' = maxSteps
      /\ results' = results /\ raised' = raised /\ finalResponse' = finalResponse
      /\ current' = "none" /\ status' = "running" /\ node' = NextNode(pending', stepCount)
  BY <1>1 DEF Prepare, Enter
<1>3. Range(completed) = {}
  BY <1>1 DEF Range
<1>4. /\ selected' \in Seq(Routes) /\ IsInjective(selected')
      /\ pending' = selected'
  BY <1>1, <1>2, <1>3, UniqueProperties, WithoutNothing
<1>5. /\ node' \in {"execute_agent", "finalize"}
      /\ node' = "execute_agent" => pending' # <<>> /\ ~(stepCount >= maxSteps)
      /\ node' = "finalize" => pending' = <<>> \/ stepCount >= maxSteps
  BY <1>2, NextNodeType
<1>6. \A r \in Routes : results[r] = NoResult
  BY <1>3 DEF IInv, ResultsOfCompleted
<1>7. finalResponse = "none"
  BY <1>3 DEF IInv, ResponseOfCommunication
<1>8. TypeOK'
  BY <1>1, <1>2, <1>4, <1>5 DEF IInv, TypeOK, Nodes, WorkflowStatuses
<1>9. NothingBeforePrepare' /\ StatusByNode'
  BY <1>2, <1>5 DEF NothingBeforePrepare, StatusByNode
<1>10. PlanConserved'
  <2>1. <<>> \o selected' = selected'
    BY <1>4, ConcatEmptySeq
  <2> QED
    BY <1>1, <1>2, <1>4, <2>1 DEF PlanConserved
<1>11. StepBudget'
  BY <1>1, <1>2, <1>5 DEF StepBudget
<1>12. ResultsOfCompleted' /\ ResponseOfCommunication' /\ CleanResponseIsEarned'
  BY <1>2, <1>6, <1>7 DEF ResultsOfCompleted, ResponseOfCommunication, CleanResponseIsEarned
<1>13. DerivedResultsEarned'
  BY <1>2, <1>6 DEF DerivedResultsEarned, Routes, NoResult
<1> QED
  BY <1>8, <1>9, <1>10, <1>11, <1>12, <1>13 DEF IInv

LEMMA AgentAnswersKeeps ==
    ASSUME IInv, NEW route \in Routes, AgentAnswers(route)
    PROVE  IInv'
<1>1. PopAgent(route)
  BY DEF AgentAnswers
<1>2. PICK s \in AgentStatuses(route) : results' = [results EXCEPT ![route] = s]
  BY DEF AgentAnswers
<1>3. /\ raised' = raised
      /\ finalResponse' = IF route # "communication" THEN finalResponse
                          ELSE IF ResponseIncomplete THEN "caveated" ELSE "clean"
  BY DEF AgentAnswers
<1>4. /\ results \in [Routes -> ResultStatuses \cup {NoResult}]
      /\ raised \in SUBSET Routes /\ finalResponse \in {"none", "caveated", "clean"}
      /\ status \in WorkflowStatuses /\ selected \in Seq(Routes)
      /\ maxSteps \in Nat \ {0}
  BY DEF IInv, TypeOK
<1>5. /\ route \notin Range(completed)
      /\ Range(completed') = Range(completed) \cup {route}
      /\ \A r \in Range(completed) : Before(r, route)
      /\ completed' \in Seq(Routes) /\ pending' \in Seq(Routes)
  BY <1>1, PopAgentMoves
<1>6. /\ node' \in {"execute_agent", "finalize"} /\ node = "execute_agent"
      /\ current' = route /\ selected' = selected /\ status' = status /\ maxSteps' = maxSteps
      /\ stepCount' \in Nat /\ superSteps' \in Nat
      /\ NothingBeforePrepare' /\ PlanConserved' /\ StepBudget'
  BY <1>1, PopAgentKeepsPlan
<1>7. s \in ResultStatuses
  BY AgentStatusesType
<1>8. \A r \in Routes : results'[r] = IF r = route THEN s ELSE results[r]
  BY <1>2, <1>4
<1>9. \A r \in Routes : results[r] = "SUCCESS" => r \in Range(completed) /\ r # route
  BY <1>5 DEF IInv, ResultsOfCompleted, NoResult
<1>10. \A a, b : Before(a, b)' = Before(a, b)
  BY <1>6 DEF Before
<1>11. TypeOK'
  BY <1>2, <1>3, <1>4, <1>5, <1>6, <1>7 DEF TypeOK, Nodes
<1>12. ResultsOfCompleted'
  BY <1>5, <1>8 DEF IInv, ResultsOfCompleted
<1>13. ResponseOfCommunication'
  BY <1>3, <1>5 DEF IInv, ResponseOfCommunication
<1>14. StatusByNode'
  BY <1>6 DEF IInv, StatusByNode
<1>15. CleanResponseIsEarned'
  <2> SUFFICES ASSUME finalResponse' = "clean", NEW r \in Range(selected) \ {"communication"}
               PROVE  results'[r] = "SUCCESS" /\ Before(r, "communication")
    BY <1>6, <1>10 DEF CleanResponseIsEarned
  <2>1. r \in Routes
    BY <1>4, RangeOfSeq
  <2>2. CASE route = "communication"
    <3>1. ~ResponseIncomplete
      BY <1>3, <2>2
    <3>2. results[r] # NoResult /\ r \in CommunicationSources
      BY <3>1 DEF ResponseIncomplete
    <3>3. results[r] = "SUCCESS"
      BY <3>1, <3>2 DEF ResponseIncomplete
    <3> QED
      BY <1>5, <1>8, <1>9, <2>1, <2>2, <3>3
  <2>3. CASE route # "communication"
    <3>1. results[r] = "SUCCESS" /\ Before(r, "communication")
      BY <1>3, <2>3 DEF IInv, CleanResponseIsEarned
    <3> QED
      BY <1>8, <1>9, <2>1, <3>1
  <2> QED
    BY <2>2, <2>3
<1>16. DerivedResultsEarned'
  <2>1. ASSUME results'["recommendation"] = "SUCCESS"
        PROVE  /\ results'["risk"] = "SUCCESS"
               /\ Before("risk", "recommendation")
               /\ \A r \in {"progress", "study_rights"} :
                     r \in Range(selected) => r \in Range(completed') /\ Before(r, "risk")
    <3>0. "risk" \in Routes /\ "recommendation" \in Routes /\ "risk" # "recommendation"
      BY DEF Routes
    <3>1. CASE route = "recommendation"
      <4>1. s = "SUCCESS"
        BY <1>8, <2>1, <3>0, <3>1
      <4>2. AgentStatuses(route) = RecommendationStatuses
        BY <3>1 DEF AgentStatuses
      <4>3. RecommendationPrerequisites /\ results["risk"] = "SUCCESS"
        BY <4>1, <4>2 DEF RecommendationStatuses
      <4>4. "risk" \in Range(completed) /\ results'["risk"] = "SUCCESS"
        BY <1>8, <1>9, <3>0, <4>3
      <4>5. Before("risk", "recommendation")
        BY <1>5, <3>1, <4>4
      <4>6. "risk" \in Range(selected)
        BY <4>5 DEF Before, Range
      <4>7. ASSUME NEW r \in {"progress", "study_rights"}, r \in Range(selected)
            PROVE  r \in Range(completed') /\ Before(r, "risk")
        <5>1. Before(r, "risk")
          <6>1. PICK i \in {1, 2} : r = ReportSources[i]
            BY <4>7 DEF ReportSources
          <6>2. ReportSources[3] = "risk" /\ i \in 1..4 /\ 3 \in 1..4 /\ i < 3
            BY DEF ReportSources
          <6> QED
            BY <4>3, <4>6, <4>7, <6>1, <6>2 DEF RecommendationPrerequisites
        <5> QED
          BY <1>5, <1>6, <4>4, <5>1, EarlierHasRun
      <4> QED
        BY <4>4, <4>5, <4>7
    <3>2. CASE route # "recommendation"
      <4>1. results["recommendation"] = "SUCCESS"
        BY <1>8, <2>1, <3>0, <3>2
      <4>2. /\ results["risk"] = "SUCCESS" /\ Before("risk", "recommendation")
            /\ \A r \in {"progress", "study_rights"} :
                  r \in Range(selected) => r \in Range(completed) /\ Before(r, "risk")
        BY <4>1 DEF IInv, DerivedResultsEarned
      <4> QED
        BY <1>5, <1>8, <1>9, <3>0, <4>2
    <3> QED
      BY <3>1, <3>2
  <2>2. ASSUME results'["reporting"] = "SUCCESS", NEW r \in Range(ReportSources)
        PROVE  results'[r] = "SUCCESS" /\ Before(r, "reporting")
    <3>0. "reporting" \in Routes /\ r \in Routes /\ r # "reporting"
      BY DEF Routes, ReportSources, Range
    <3>1. CASE route = "reporting"
      <4>1. s = "SUCCESS"
        BY <1>8, <2>2, <3>0, <3>1
      <4>2. AgentStatuses(route) = IF ReportComplete THEN {"SUCCESS"} ELSE {"PARTIAL"}
        BY <3>1 DEF AgentStatuses, ReportingStatuses
      <4>3. ReportComplete
        BY <4>1, <4>2
      <4>4. results[r] = "SUCCESS"
        BY <4>3 DEF ReportComplete
      <4> QED
        BY <1>5, <1>8, <1>9, <3>0, <3>1, <4>4
    <3>2. CASE route # "reporting"
      <4>1. results["reporting"] = "SUCCESS"
        BY <1>8, <2>2, <3>0, <3>2
      <4>2. results[r] = "SUCCESS" /\ Before(r, "reporting")
        BY <4>1 DEF IInv, DerivedResultsEarned
      <4> QED
        BY <1>8, <1>9, <3>0, <4>2
    <3> QED
      BY <3>1, <3>2
  <2> QED
    BY <1>6, <1>10, <2>1, <2>2 DEF DerivedResultsEarned
<1> QED
  BY <1>6, <1>11, <1>12, <1>13, <1>14, <1>15, <1>16 DEF IInv

LEMMA AgentRaisesKeeps ==
    ASSUME IInv, NEW route \in Routes, AgentRaises(route)
    PROVE  IInv'
<1>1. /\ PopAgent(route) /\ raised' = raised \cup {route}
      /\ results' = results /\ finalResponse' = finalResponse
  BY DEF AgentRaises
<1>2. /\ Range(completed') = Range(completed) \cup {route}
      /\ completed' \in Seq(Routes) /\ pending' \in Seq(Routes)
  BY <1>1, PopAgentMoves
<1>3. /\ node' \in {"execute_agent", "finalize"} /\ node = "execute_agent"
      /\ current' = route /\ selected' = selected /\ status' = status /\ maxSteps' = maxSteps
      /\ stepCount' \in Nat /\ superSteps' \in Nat
      /\ NothingBeforePrepare' /\ PlanConserved' /\ StepBudget'
  BY <1>1, PopAgentKeepsPlan
<1>4. \A a, b : Before(a, b)' = Before(a, b)
  BY <1>3 DEF Before
<1>5. TypeOK'
  BY <1>1, <1>2, <1>3 DEF IInv, TypeOK, Nodes
<1>6. ResultsOfCompleted' /\ ResponseOfCommunication'
  BY <1>1, <1>2 DEF IInv, ResultsOfCompleted, ResponseOfCommunication
<1>7. StatusByNode'
  BY <1>3 DEF IInv, StatusByNode
<1>8. DerivedResultsEarned' /\ CleanResponseIsEarned'
  BY <1>1, <1>2, <1>3, <1>4 DEF IInv, DerivedResultsEarned, CleanResponseIsEarned
<1> QED
  BY <1>3, <1>5, <1>6, <1>7, <1>8 DEF IInv

LEMMA FinalizeKeeps == IInv /\ Finalize => IInv'
<1> SUFFICES ASSUME IInv, Finalize PROVE IInv'
  OBVIOUS
<1>1. /\ node = "finalize" /\ node' = "end" /\ current' = "none" /\ status' = FinalStatus
      /\ superSteps' = superSteps + 1
      /\ UNCHANGED <<selected, pending, completed, stepCount, maxSteps, results, raised,
                     finalResponse>>
  BY DEF Finalize, Enter
<1>2. FinalStatus \in WorkflowStatuses
  BY DEF FinalStatus, WorkflowStatuses
<1>3. TypeOK'
  BY <1>1, <1>2 DEF IInv, TypeOK, Nodes
<1>4. NothingBeforePrepare' /\ PlanConserved' /\ StepBudget'
  BY <1>1 DEF IInv, NothingBeforePrepare, PlanConserved, StepBudget
<1>5. ResultsOfCompleted' /\ ResponseOfCommunication'
  BY <1>1 DEF IInv, ResultsOfCompleted, ResponseOfCommunication
<1>6. StatusByNode'
  BY <1>1 DEF StatusByNode, FinalStatus
<1>7. DerivedResultsEarned' /\ CleanResponseIsEarned'
  BY <1>1 DEF IInv, DerivedResultsEarned, CleanResponseIsEarned, Before
<1> QED
  BY <1>3, <1>4, <1>5, <1>6, <1>7 DEF IInv

LEMMA StutteringKeeps == IInv /\ UNCHANGED vars => IInv'
  BY DEF IInv, vars, TypeOK, NothingBeforePrepare, PlanConserved, StepBudget,
         ResultsOfCompleted, ResponseOfCommunication, StatusByNode, FinalStatus,
         DerivedResultsEarned, CleanResponseIsEarned, Before

LEMMA Inductive == Spec => []IInv
<1>1. IInv /\ [Next]_vars => IInv'
  <2> SUFFICES ASSUME IInv, [Next]_vars PROVE IInv'
    OBVIOUS
  <2>1. CASE Prepare
    BY <2>1, PrepareKeeps
  <2>2. CASE ExecuteAgent
    BY <2>2, AgentAnswersKeeps, AgentRaisesKeeps DEF ExecuteAgent
  <2>3. CASE Finalize
    BY <2>3, FinalizeKeeps
  <2>4. CASE UNCHANGED vars
    BY <2>4, StutteringKeeps
  <2> QED
    BY <2>1, <2>2, <2>3, <2>4 DEF Next
<1> QED
  BY InitEstablishes, <1>1, PTL DEF Spec

-----------------------------------------------------------------------------
(* A plan has as many distinct agents as entries, at most.                 *)
LEMMA RangeCardinality ==
    ASSUME NEW S, NEW s \in Seq(S)
    PROVE  /\ IsFiniteSet(Range(s))
           /\ Cardinality(Range(s)) \in Nat
           /\ Cardinality(Range(s)) <= Len(s)
<1>1. DOMAIN s = 1..Len(s) /\ Len(s) \in Nat /\ s \in [1..Len(s) -> S]
  BY LenProperties
<1>2. s \in Surjection(1..Len(s), Range(s))
  BY <1>1 DEF Surjection, Range
<1>3. IsFiniteSet(1..Len(s)) /\ Cardinality(1..Len(s)) = Len(s)
  BY <1>1, FS_Interval
<1>4. IsFiniteSet(Range(s)) /\ Cardinality(Range(s)) <= Cardinality(1..Len(s))
  BY <1>2, <1>3, FS_Surjection
<1> QED
  BY <1>3, <1>4, FS_CardinalityType

(* _final_status compares a count of successes with the length of the      *)
(* plan; the invariant makes that comparison mean "every agent succeeded". *)
LEMMA CompletedCountsAll == IInv => CompletedMeansAll
<1> SUFFICES ASSUME IInv, status = "completed"
             PROVE  pending = <<>> /\ \A r \in Range(selected) : results[r] = "SUCCESS"
  BY DEF CompletedMeansAll
<1>1. /\ node = "end" /\ FinalStatus = "completed"
      /\ completed \in Seq(Routes) /\ pending \in Seq(Routes) /\ selected \in Seq(Routes)
  BY DEF IInv, StatusByNode, TypeOK, Nodes
<1>2. completed \o pending = selected
  BY <1>1 DEF IInv, PlanConserved
<1> DEFINE succeeded == {r \in Routes : results[r] \in {"SUCCESS"}}
<1>3. CASE selected = <<>>
  <2>1. pending = <<>>
    BY <1>1, <1>2, <1>3, ConcatProperties, EmptySeq, LenProperties
  <2>2. Range(selected) = {}
    BY <1>3 DEF Range
  <2> QED
    BY <2>1, <2>2
<1>4. CASE selected # <<>>
  <2>1. Cardinality(succeeded) = Len(selected) /\ pending = <<>>
    BY <1>1, <1>4 DEF FinalStatus
  <2>2. completed = selected
    BY <1>1, <1>2, <2>1, ConcatEmptySeq
  <2>3. succeeded \in SUBSET Range(selected)
    BY <2>2 DEF IInv, ResultsOfCompleted, NoResult
  <2>4. /\ IsFiniteSet(Range(selected)) /\ Cardinality(Range(selected)) \in Nat
        /\ Cardinality(Range(selected)) <= Len(selected)
    BY <1>1, RangeCardinality
  <2>5. Cardinality(succeeded) <= Cardinality(Range(selected))
    BY <2>3, <2>4, FS_Subset
  <2>6. Len(selected) \in Nat
    BY <1>1, LenProperties
  <2>7. Cardinality(Range(selected)) = Cardinality(succeeded)
    BY <2>1, <2>4, <2>5, <2>6
  <2>8. Range(selected) = succeeded
    BY <2>3, <2>4, <2>7, FS_Subset
  <2> QED
    BY <2>1, <2>8
<1> QED
  BY <1>3, <1>4

LEMMA FailedCountsNothing == IInv => FailedMeansNothing
<1> SUFFICES ASSUME IInv, status = "failed"
             PROVE  selected # <<>> /\ \A r \in Routes : results[r] \in {"FAILED", NoResult}
  BY DEF FailedMeansNothing
<1>1. FinalStatus = "failed"
  BY DEF IInv, StatusByNode, TypeOK, Nodes
<1>2. /\ selected # <<>>
      /\ {r \in Routes : results[r] \in {"SUCCESS", "PARTIAL", "SKIPPED"}} = {}
  BY <1>1 DEF FinalStatus
<1>3. \A r \in Routes : results[r] \in ResultStatuses \cup {NoResult}
  BY DEF IInv, TypeOK
<1> QED
  BY <1>2, <1>3 DEF ResultStatuses

(* Every step keeps the state well formed: the plan stays a list of known  *)
(* routes and each agent answers with a status the workflow knows.         *)
THEOREM TypeCorrect == Spec => []TypeOK
<1>1. IInv => TypeOK
  BY DEF IInv
<1> QED
  BY Inductive, <1>1, PTL

(* No plan loses, repeats or reorders an agent (_prepare, _execute_agent). *)
THEOREM PlanIsConserved == Spec => []PlanConserved
<1>1. IInv => PlanConserved
  BY DEF IInv
<1> QED
  BY Inductive, <1>1, PTL

(* Counting results in _final_status decides the status correctly for      *)
(* every plan: a completed run left nothing pending and every planned      *)
(* agent succeeded, a failed one produced nothing usable, and only the     *)
(* step limit leaves planned agents unrun.                                 *)
THEOREM StatusesAreHonest == Spec => []StatusIsHonest
<1>1. IInv => OnlyLimitLeavesWork
  BY CompletedCountsAll
     DEF IInv, StepBudget, OnlyLimitLeavesWork, CompletedMeansAll
<1>2. IInv => StatusIsHonest
  BY <1>1, CompletedCountsAll, FailedCountsNothing DEF StatusIsHonest
<1> QED
  BY Inductive, <1>2, PTL

(* A recommendation or a report is a success only when every result it was *)
(* built from is one and was there before it (the validation of their      *)
(* prerequisites in recommendation_agent.py and reporting_agent.py).       *)
THEOREM DerivedResultsAreEarned == Spec => []DerivedResultsEarned
<1>1. IInv => DerivedResultsEarned
  BY DEF IInv
<1> QED
  BY Inductive, <1>1, PTL

(* A reply without the availability note follows the success of every      *)
(* other agent of the plan (communication_agent.py _is_incomplete).        *)
THEOREM CleanResponsesAreEarned == Spec => []CleanResponseIsEarned
<1>1. IInv => CleanResponseIsEarned
  BY DEF IInv
<1> QED
  BY Inductive, <1>1, PTL

(* For every max_steps, `recursion_limit = max_steps + 4` leaves room for   *)
(* every node the graph still has to run.                                  *)
THEOREM RecursionLimitSuffices == Spec => []NeverAborted
<1>1. IInv => NeverAborted
  <2> SUFFICES ASSUME IInv, node # "end" PROVE superSteps < RecursionLimit
    BY DEF NeverAborted
  <2>1. /\ superSteps \in Nat /\ stepCount \in Nat /\ maxSteps \in Nat
        /\ stepCount <= maxSteps
        /\ superSteps = 0 \/ superSteps = stepCount + 1
    BY DEF IInv, TypeOK, Nodes, NothingBeforePrepare, StepBudget
  <2> QED
    BY <2>1 DEF RecursionLimit
<1> QED
  BY Inductive, <1>1, PTL
=============================================================================
