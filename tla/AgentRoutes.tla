---------------------------- MODULE AgentRoutes ----------------------------
(***************************************************************************)
(* The routes an academic request can be sent to and the results the       *)
(* agents produce from one another.                                        *)
(***************************************************************************)
EXTENDS ListIdioms

Routes == {"calendar", "progress", "study_rights", "risk", "recommendation",
           "reporting", "communication", "academic_data"}

\* Sources the reporting agent aggregates, in the order the code lists them.
ReportSources == <<"progress", "study_rights", "risk", "recommendation">>

\* Sources the communication agent formats.
CommunicationSources ==
    {"progress", "study_rights", "risk", "recommendation", "reporting"}

\* Mutant of DefaultDependencies: the analyses of a report after risk.
ReportRiskFirst ==
    [r \in Routes |->
        CASE r = "recommendation" -> <<"risk">>
          [] r = "reporting"      -> <<"risk", "progress", "study_rights", "recommendation">>
          [] OTHER                -> <<>>]

\* DEFAULT_ROUTE_DEPENDENCIES: what each agent reads from agent_results.
DefaultDependencies ==
    [r \in Routes |->
        CASE r = "recommendation" -> <<"risk">>
          [] r = "reporting"      -> ReportSources
          [] OTHER                -> <<>>]

=============================================================================
