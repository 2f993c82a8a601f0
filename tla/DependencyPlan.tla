--------------------------- MODULE DependencyPlan ---------------------------
(***************************************************************************)
(* DependencyResolver.resolve: expand the requested routes into a plan in  *)
(* which every route follows the routes it reads results from.  The nested *)
(* function `visit` is recursive in the code; here its call stack is a     *)
(* variable, the frame at the bottom being the loop over the roots, so one *)
(* step is one turn of a `for` loop or one return of `visit`.              *)
(***************************************************************************)
EXTENDS AgentRoutes

CONSTANTS
    Executable,    \* _EXECUTABLE_ROUTES
    Unsupported,   \* other values a mapping or a selection may hold
    Inputs         \* the resolvers and requests considered: the dependency
                   \* mapping (deps), the routes whose entry in it is no list
                   \* or tuple (malformed), the routes of the registry
                   \* (registered) and selected_routes (request)

Values == Executable \cup Unsupported \cup {"finish"}

ASSUME RouteAssumption ==
    /\ "finish" \notin Executable
    /\ "request" \notin Executable
    /\ Unsupported \cap Executable = {}
ASSUME InputAssumption ==
    Inputs \subseteq [deps: [Executable -> Seq(Values)], malformed: SUBSET Executable,
                      registered: SUBSET Executable, request: Seq(Values)]

PlanStatuses ==
    {"planned", "no_routes", "unsupported_root", "unregistered_root",
     "unregistered_dependency", "invalid_dependency", "finish_not_allowed",
     "cycle_detected"}

VARIABLES
    deps, malformed, registered,  \* the resolver's mapping and registry
    roots,     \* dict.fromkeys(selected_routes)
    stack,     \* active loops: [caller, next], the root loop at the bottom
    visited,
    ordered,
    status     \* "resolving" until `resolve` returns

vars == <<deps, malformed, registered, roots, stack, visited, ordered, status>>

Frames == [caller : Executable \cup {"request"}, next : Nat \ {0}]

TypeOK ==
    /\ deps \in [Executable -> Seq(Values)]
    /\ malformed \subseteq Executable
    /\ registered \subseteq Executable
    /\ roots \in Seq(Values)
    /\ stack \in Seq(Frames)
    /\ visited \subseteq Executable
    /\ ordered \in Seq(Executable)
    /\ status \in PlanStatuses \cup {"resolving"}
-----------------------------------------------------------------------------
Top == stack[Len(stack)]
Items(caller) == IF caller = "request" THEN roots ELSE deps[caller]
InDependency == Len(stack) > 1

\* The list `visiting`: the routes whose dependencies are being visited.
Visiting == {stack[i].caller : i \in 2..Len(stack)}

\* The loop at the top of s goes on to its next element.
Advance(s) == [s EXCEPT ![Len(s)].next = @ + 1]

\* Mutant of Refusal: one set of seen routes instead of visiting and visited.
RefusalOfSeen(v) ==
    IF v = "finish" THEN "finish_not_allowed"
    ELSE IF v \notin Executable
         THEN IF InDependency THEN "invalid_dependency" ELSE "unsupported_root"
    ELSE IF v \in Visiting \cup visited THEN "cycle_detected"
    ELSE IF v \notin registered
         THEN IF InDependency THEN "unregistered_dependency" ELSE "unregistered_root"
    ELSE IF v \in malformed THEN "invalid_dependency"
    ELSE "none"

\* Mutant of Refusal: whatever is wrong, the requested route is blamed.
RefusalBlamesRoot(v) ==
    IF v = "finish" THEN "finish_not_allowed"
    ELSE IF v \notin Executable THEN "unsupported_root"
    ELSE IF v \in Visiting THEN "cycle_detected"
    ELSE IF v \in visited THEN "none"
    ELSE IF v \notin registered THEN "unregistered_root"
    ELSE IF v \in malformed THEN "invalid_dependency"
    ELSE "none"

(* The first check of `visit` that refuses v, in the order of the code.    *)
Refusal(v) ==
    IF v = "finish" THEN "finish_not_allowed"
    ELSE IF v \notin Executable
         THEN IF InDependency THEN "invalid_dependency" ELSE "unsupported_root"
    ELSE IF v \in Visiting THEN "cycle_detected"
    ELSE IF v \in visited THEN "none"
    ELSE IF v \notin registered
         THEN IF InDependency THEN "unregistered_dependency" ELSE "unregistered_root"
    ELSE IF v \in malformed THEN "invalid_dependency"
    ELSE "none"

Init ==
    /\ \E in \in Inputs :
          /\ deps = in.deps
          /\ malformed = in.malformed
          /\ registered = in.registered
          /\ roots = Unique(in.request)
    /\ stack = <<[caller |-> "request", next |-> 1]>>
    /\ visited = {}
    /\ ordered = <<>>
    /\ status = IF roots = <<>> THEN "no_routes" ELSE "resolving"

inputs == <<deps, malformed, registered, roots>>

(* `visit` is called with the next element of the innermost loop.          *)
Visits(v) ==
    /\ status = "resolving"
    /\ Top.next <= Len(Items(Top.caller))
    /\ v = Items(Top.caller)[Top.next]

\* Mutant of Refuse: iterating over what is no list raises a TypeError, which is no
\* _PlanFailure; `resolve` raises and returns no plan.
RefuseOrRaise ==
    \E v \in Values :
        /\ Visits(v)
        /\ Refusal(v) # "none" /\ (v \in malformed => v \notin registered)
        /\ status' = Refusal(v)
        /\ UNCHANGED <<inputs, stack, visited, ordered>>

Refuse ==
    \E v \in Values :
        /\ Visits(v)
        /\ Refusal(v) # "none"
        /\ status' = Refusal(v)
        /\ UNCHANGED <<inputs, stack, visited, ordered>>

SkipVisited ==
    \E v \in Values :
        /\ Visits(v)
        /\ Refusal(v) = "none" /\ v \in visited
        /\ stack' = Advance(stack)
        /\ UNCHANGED <<inputs, visited, ordered, status>>

EnterRoute ==
    \E v \in Values :
        /\ Visits(v)
        /\ Refusal(v) = "none" /\ v \notin visited
        /\ stack' = Append(stack, [caller |-> v, next |-> 1])
        /\ UNCHANGED <<inputs, visited, ordered, status>>

LoopDone == status = "resolving" /\ Top.next > Len(Items(Top.caller))

\* Mutant of LeaveRoute: the plan grows at its front.
LeaveRouteReversed ==
    /\ LoopDone /\ InDependency
    /\ visited' = visited \cup {Top.caller}
    /\ ordered' = <<Top.caller>> \o ordered
    /\ stack' = Advance(SubSeq(stack, 1, Len(stack) - 1))
    /\ UNCHANGED <<inputs, status>>

\* Mutant of LeaveRoute: a planned route is not remembered as visited.
LeaveRouteForgotten ==
    /\ LoopDone /\ InDependency
    /\ ordered' = Append(ordered, Top.caller)
    /\ stack' = Advance(SubSeq(stack, 1, Len(stack) - 1))
    /\ UNCHANGED <<inputs, visited, status>>

LeaveRoute ==
    /\ LoopDone /\ InDependency
    /\ visited' = visited \cup {Top.caller}
    /\ ordered' = Append(ordered, Top.caller)
    /\ stack' = Advance(SubSeq(stack, 1, Len(stack) - 1))
    /\ UNCHANGED <<inputs, status>>

ReturnPlan ==
    /\ LoopDone /\ ~InDependency
    /\ status' = "planned"
    /\ UNCHANGED <<inputs, stack, visited, ordered>>

Next == Refuse \/ SkipVisited \/ EnterRoute \/ LeaveRoute \/ ReturnPlan

Spec == Init /\ [][Next]_vars
FairSpec == Spec /\ WF_vars(Next)
-----------------------------------------------------------------------------
(* What a request asks for, defined without the traversal: the least set   *)
(* of values that holds the roots and the dependencies of its routes.      *)
Closed(C) ==
    /\ Range(roots) \subseteq C
    /\ \A r \in (C \cap Executable) \ malformed : Range(deps[r]) \subseteq C

Reached ==
    LET closedSets == {C \in SUBSET Values : Closed(C)}
    IN  {v \in Values : \A C \in closedSets : v \in C}

\* A set in which every route waits for another route of the set.
Circular(C) ==
    C # {} /\ \A r \in C : r \notin malformed /\ Range(deps[r]) \cap C # {}

HasCycle == \E C \in SUBSET (Reached \cap Executable) : Circular(C)

Plannable ==
    /\ roots # <<>>
    /\ Reached \subseteq registered \ malformed
    /\ ~HasCycle

(* Every route of the plan stands after everything it reads results from,  *)
(* however the dependencies were interleaved by the traversal.             *)
PlanIsTopological ==
    \A k \in DOMAIN ordered :
        Range(deps[ordered[k]]) \subseteq {ordered[j] : j \in 1..(k - 1)}

(* A plan holds the requested routes and all they depend on, each once and *)
(* nothing else.                                                           *)
PlanIsClosure ==
    status = "planned" => Range(ordered) = Reached /\ IsInjective(ordered)

(* `resolve` succeeds exactly for the requests that can be planned at all; *)
(* the order of the roots and of the checks never decides about that.      *)
PlannedIffPossible ==
    status # "resolving" => (status = "planned" <=> Plannable)

(* The status of a refusal names a defect that is really there.            *)
RefusalIsTrue ==
    LET required == UNION {Range(deps[r]) : r \in (Reached \cap Executable) \ malformed}
    IN  /\ status = "cycle_detected" => HasCycle
        /\ status = "finish_not_allowed" => "finish" \in Reached
        /\ status = "unsupported_root" => Range(roots) \cap Unsupported # {}
        /\ status = "unregistered_root" => ~(Range(roots) \cap Executable \subseteq registered)
        /\ status = "unregistered_dependency" => ~(required \cap Executable \subseteq registered)
        /\ status = "invalid_dependency" =>
              required \cap Unsupported # {} \/ Reached \cap malformed # {}

(* The routes being visited form one chain of dependencies, so the nesting *)
(* of `visit` is never deeper than the number of routes.                   *)
VisitingIsChain ==
    /\ \A i, j \in 2..Len(stack) : stack[i].caller = stack[j].caller => i = j
    /\ \A i \in 2..Len(stack) :
          /\ stack[i].caller \notin visited
          /\ stack[i - 1].next <= Len(Items(stack[i - 1].caller))
          /\ stack[i].caller = Items(stack[i - 1].caller)[stack[i - 1].next]

(* Whatever the dependency mapping, circular or malformed, `resolve`       *)
(* returns: it neither recurses for ever nor raises.                       *)
Terminates == <>(status # "resolving")

(* What RecommendationAgent._validate_prerequisites demands of the plan it *)
(* runs in holds of every plan made with the dependencies of the product   *)
(* for the single route that intent detection selects.                     *)
ProductDependencies ==
    Executable \subseteq Routes /\ \A r \in Executable : deps[r] = DefaultDependencies[r]

PlanMeetsPrerequisites ==
    ProductDependencies /\ Len(roots) = 1
        /\ status = "planned" /\ "recommendation" \in Range(ordered) =>
        /\ "risk" \in Range(ordered)
        /\ \A i, j \in 1..4 : \A k, l \in DOMAIN ordered :
              i < j /\ ordered[k] = ReportSources[i] /\ ordered[l] = ReportSources[j] => k < l
=============================================================================
