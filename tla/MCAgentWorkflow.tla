-------------------------- MODULE MCAgentWorkflow --------------------------
(* Small instances of AgentWorkflow: every plan of up to three agents,     *)
(* repetitions included, and the report plan with one extra agent inserted *)
(* or one agent moved.                                                     *)
EXTENDS AgentWorkflow

ShortPlans == UNION {[1..n -> Routes] : n \in 0..3}

ReportPlan == ReportSources \o <<"reporting">>

InsertAt(s, k, r) == SubSeq(s, 1, k) \o <<r>> \o SubSeq(s, k + 1, Len(s))

ReportVariants ==
    {InsertAt(ReportPlan, k, r) : k \in 0..5, r \in {"communication", "calendar", "progress"}}
        \cup {InsertAt(Without(ReportPlan, {r}), k, r) : k \in 0..4, r \in Range(ReportPlan)}
        \cup {InsertAt(InsertAt(ReportPlan, 5, "communication"), k, r) :
                 k \in 0..6, r \in {"calendar", "risk"}}

MCPlans == ShortPlans \cup ReportVariants

\* The production limit, and limits that cut a plan short.
MCStepLimits == {1, 2, 4, 10}
=============================================================================
