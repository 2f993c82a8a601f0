-------------------------- MODULE MCDependencyPlan --------------------------
(* A small instance of DependencyPlan over the routes that depend on one   *)
(* another in the product.  Three families of inputs: every mapping of     *)
(* three routes to up to two distinct ones; every mapping of two routes to *)
(* up to two values, legal or not, with every registry; and the product's  *)
(* own mapping with every registry and every single selection.             *)
EXTENDS DependencyPlan

MCExecutable == Range(ReportSources) \cup {"reporting"}
MCUnsupported == {"nonsense"}

Shortlists(S, n) == UNION {[1..k -> S] : k \in 0..n}

\* A mapping of some routes, the others having no dependencies.
Completed(graph) == [r \in MCExecutable |-> IF r \in DOMAIN graph THEN graph[r] ELSE <<>>]

Three == {"progress", "study_rights", "risk"}
Distinct(n) == {s \in Shortlists(Three, n) : IsInjective(s)}

WellFormedInputs ==
    [deps: {Completed(g) : g \in [Three -> Distinct(2)]}, malformed: {{}},
     registered: {MCExecutable}, request: Distinct(2)]

Two == {"progress", "risk"}
TwoValues == Two \cup MCUnsupported \cup {"finish"}

IrregularInputs ==
    [deps: {Completed(g) : g \in [Two -> Shortlists(TwoValues, 2)]},
     malformed: {{}, {"risk"}}, registered: SUBSET Two,
     request: Shortlists(TwoValues, 1) \cup {<<"risk", "progress">>, <<"risk", "risk">>}]

ProductInputs ==
    [deps: {[r \in MCExecutable |-> DefaultDependencies[r]]}, malformed: {{}},
     registered: SUBSET MCExecutable, request: {<<r>> : r \in MCExecutable} \cup {<<>>}]

MCInputs == WellFormedInputs \cup IrregularInputs \cup ProductInputs
=============================================================================
