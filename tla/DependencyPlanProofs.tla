------------------------ MODULE DependencyPlanProofs ------------------------
(***************************************************************************)
(* The safety properties of DependencyPlan hold for every set of routes,   *)
(* every dependency mapping, registry and request.                         *)
(*                                                                         *)
(* The argument: in every active loop all elements before the current one  *)
(* are visited, and a loop above another one runs over the dependencies of *)
(* the current element of the lower loop.  So when `visit` leaves a route  *)
(* all its dependencies are in `ordered`, and when the root loop ends the  *)
(* visited routes are a set closed under dependencies.                     *)
(***************************************************************************)
EXTENDS DependencyPlan, ListIdiomsProofs

StackShape ==
    /\ Len(stack) >= 1
    /\ stack[1].caller = "request"
    /\ \A i \in 2..Len(stack) : stack[i].caller \in registered \ malformed

VisitedIsOrdered ==
    /\ visited = Range(ordered)
    /\ IsInjective(ordered)
    /\ visited \subseteq registered \ malformed

(* Everything a loop has passed is visited. *)
LoopProgress ==
    \A i \in 1..Len(stack) :
        /\ stack[i].next <= Len(Items(stack[i].caller)) + 1
        /\ \A m \in 1..(stack[i].next - 1) : Items(stack[i].caller)[m] \in visited

(* Only what the request asks for is ever visited. *)
OnlyReached ==
    \A C \in SUBSET Values : Closed(C) =>
        visited \subseteq C /\ \A i \in 2..Len(stack) : stack[i].caller \in C

ReturnedPlan ==
    /\ status = "planned" => roots # <<>> /\ Range(roots) \subseteq visited
    /\ status = "resolving" => roots # <<>>

(* A refusal is remembered together with the reason to refuse. *)
RefusedIsUnplannable == status \notin {"resolving", "planned"} => ~Plannable

IInv ==
    /\ TypeOK
    /\ StackShape
    /\ VisitingIsChain
    /\ VisitedIsOrdered
    /\ PlanIsTopological
    /\ LoopProgress
    /\ OnlyReached
    /\ ReturnedPlan
    /\ RefusedIsUnplannable
-----------------------------------------------------------------------------
LEMMA OneOrMore ==
    \A n \in Nat \ {0} : n = 1 \/ (n > 1 /\ n \in 2..n)
  OBVIOUS

LEMMA StackBasics ==
    ASSUME TypeOK
    PROVE  /\ Len(stack) \in Nat /\ DOMAIN stack = 1..Len(stack)
           /\ \A i \in 1..Len(stack) : /\ stack[i] \in Frames
                                       /\ stack[i].next \in Nat \ {0}
                                       /\ stack[i].caller \in Executable \cup {"request"}
           /\ \A c \in Executable \cup {"request"} :
                 Items(c) \in Seq(Values) /\ Len(Items(c)) \in Nat
<1>1. stack \in Seq(Frames) /\ roots \in Seq(Values) /\ deps \in [Executable -> Seq(Values)]
  BY DEF TypeOK
<1>2. Len(stack) \in Nat /\ DOMAIN stack = 1..Len(stack)
  BY <1>1, LenProperties
<1>3. \A i \in 1..Len(stack) : stack[i] \in Frames
  BY <1>1, ElementOfSeq
<1>4. \A f \in Frames : f.next \in Nat \ {0} /\ f.caller \in Executable \cup {"request"}
  BY DEF Frames
<1>5. \A c \in Executable \cup {"request"} : Items(c) \in Seq(Values)
  BY <1>1 DEF Items
<1>6. \A c \in Executable \cup {"request"} : Len(Items(c)) \in Nat
  BY <1>5, LenProperties
<1> QED
  BY <1>2, <1>3, <1>4, <1>5, <1>6

(* Moving the innermost loop on changes its position only.                 *)
LEMMA AdvanceProperties ==
    ASSUME NEW s \in Seq(Frames), Len(s) >= 1
    PROVE  /\ Advance(s) \in Seq(Frames) /\ Len(Advance(s)) = Len(s)
           /\ \A i \in 1..Len(s) : Advance(s)[i].caller = s[i].caller
           /\ \A i \in 1..(Len(s) - 1) : Advance(s)[i].next = s[i].next
           /\ Advance(s)[Len(s)].next = s[Len(s)].next + 1
<1> DEFINE n == Len(s)
           e == [s[n] EXCEPT !.next = @ + 1]
<1>1. n \in Nat /\ n \in 1..n /\ DOMAIN s = 1..n
  BY LenProperties
<1>2. s[n] \in Frames
  BY <1>1, ElementOfSeq
<1>3. e \in Frames /\ e.caller = s[n].caller /\ e.next = s[n].next + 1
  BY <1>2 DEF Frames
<1>4. Advance(s) = [s EXCEPT ![n] = e]
  BY DEF Advance
<1>5. /\ [s EXCEPT ![n] = e] \in Seq(Frames)
      /\ Len([s EXCEPT ![n] = e]) = n
      /\ \A j \in 1..n : [s EXCEPT ![n] = e][j] = IF j = n THEN e ELSE s[j]
  BY <1>1, <1>3, ExceptSeq
<1> QED
  BY <1>1, <1>3, <1>4, <1>5

(* The value being visited and where it comes from.                        *)
LEMMA VisitsProperties ==
    ASSUME IInv, NEW v \in Values, Visits(v)
    PROVE  /\ status = "resolving"
           /\ Top \in Frames /\ Top = stack[Len(stack)] /\ Len(stack) \in Nat \ {0}
           /\ Top.next \in 1..Len(Items(Top.caller))
           /\ v = Items(Top.caller)[Top.next]
           /\ Top.caller # "request" => Top.caller \in registered \ malformed
           /\ InDependency <=> Top.caller # "request"
<1>1. TypeOK /\ StackShape
  BY DEF IInv
<1>2. /\ status = "resolving" /\ Top.next <= Len(Items(Top.caller))
      /\ v = Items(Top.caller)[Top.next] /\ Top = stack[Len(stack)]
  BY DEF Visits, Top
<1>3. Len(stack) \in Nat \ {0} /\ Len(stack) \in 1..Len(stack)
  BY <1>1, StackBasics DEF StackShape
<1>4. /\ Top \in Frames /\ Top.next \in Nat \ {0}
      /\ Len(Items(Top.caller)) \in Nat
  BY <1>1, <1>2, <1>3, StackBasics
<1>5. CASE Len(stack) = 1
  <2>1. Top.caller = "request" /\ ~InDependency
    BY <1>1, <1>2, <1>5 DEF StackShape, InDependency
  <2> QED
    BY <1>2, <1>3, <1>4, <2>1
<1>6. CASE Len(stack) # 1
  <2>0. Len(stack) > 1 /\ Len(stack) \in 2..Len(stack)
    BY <1>3, <1>6, OneOrMore
  <2>1. Top.caller \in registered \ malformed /\ InDependency
    BY <1>1, <1>2, <2>0 DEF StackShape, InDependency
  <2>2. Top.caller # "request"
    BY <1>1, <2>1, RouteAssumption DEF TypeOK
  <2> QED
    BY <1>2, <1>3, <1>4, <2>1, <2>2
<1> QED
  BY <1>5, <1>6

(* The value being visited belongs to every closed set.                    *)
LEMMA VisitedNextIsReached ==
    ASSUME IInv, NEW v \in Values, Visits(v), NEW C \in SUBSET Values, Closed(C)
    PROVE  v \in C
<1>1. /\ Top = stack[Len(stack)] /\ Len(stack) \in Nat \ {0}
      /\ Top.next \in 1..Len(Items(Top.caller))
      /\ v = Items(Top.caller)[Top.next]
      /\ Top.caller # "request" => Top.caller \in registered \ malformed
      /\ InDependency <=> Top.caller # "request"
  BY VisitsProperties
<1>2. TypeOK /\ OnlyReached
  BY DEF IInv
<1>3. CASE Top.caller = "request"
  <2>1. v \in Range(roots)
    BY <1>1, <1>2, <1>3, LenProperties DEF Items, Range, TypeOK
  <2> QED
    BY <2>1 DEF Closed
<1>4. CASE Top.caller # "request"
  <2>1. Len(stack) \in 2..Len(stack)
    BY <1>1, <1>4 DEF InDependency
  <2>2. Top.caller \in C
    BY <1>1, <1>2, <2>1 DEF OnlyReached
  <2>3. Top.caller \in Executable \ malformed
    BY <1>1, <1>2, <1>4 DEF TypeOK
  <2>4. deps[Top.caller] \in Seq(Values)
    BY <1>2, <2>3 DEF TypeOK
  <2>5. v \in Range(deps[Top.caller])
    BY <1>1, <1>4, <2>4, LenProperties DEF Items, Range
  <2> QED
    BY <2>2, <2>3, <2>5 DEF Closed
<1> QED
  BY <1>3, <1>4

-----------------------------------------------------------------------------
LEMMA InitEstablishes == Init => IInv
<1> SUFFICES ASSUME Init PROVE IInv
  OBVIOUS
<1> USE DEF Init
<1>1. PICK in \in Inputs :
         /\ deps = in.deps /\ malformed = in.malformed /\ registered = in.registered
         /\ roots = Unique(in.request)
  OBVIOUS
<1>2. roots \in Seq(Values)
  BY <1>1, InputAssumption, UniqueProperties
<1>3. [caller |-> "request", next |-> 1] \in Frames
  BY DEF Frames
<1>4. stack \in Seq(Frames) /\ Len(stack) = 1
  BY <1>3
<1>5. TypeOK
  BY <1>1, <1>2, <1>4, InputAssumption, EmptySeq DEF TypeOK, PlanStatuses
<1>6. StackShape /\ VisitingIsChain
  BY <1>4 DEF StackShape, VisitingIsChain
<1>7. VisitedIsOrdered /\ PlanIsTopological
  BY DEF VisitedIsOrdered, PlanIsTopological, Range, IsInjective
<1>8. LoopProgress
  <2>1. Items("request") = roots /\ Len(roots) \in Nat
    BY <1>2, LenProperties DEF Items
  <2> QED
    BY <1>4, <2>1 DEF LoopProgress
<1>9. OnlyReached /\ ReturnedPlan /\ RefusedIsUnplannable
  BY <1>4 DEF OnlyReached, ReturnedPlan, RefusedIsUnplannable, Plannable
<1> QED
  BY <1>5, <1>6, <1>7, <1>8, <1>9 DEF IInv

(* A route that is being visited and required again closes a cycle.        *)
LEMMA RevisitClosesCycle ==
    ASSUME IInv, NEW v \in Values, Visits(v), v \in Visiting
    PROVE  HasCycle
<1> DEFINE n == Len(stack)
<1>1. /\ Top = stack[n] /\ n \in Nat \ {0}
      /\ Top.next \in 1..Len(Items(Top.caller)) /\ v = Items(Top.caller)[Top.next]
  BY VisitsProperties
<1>2. TypeOK /\ StackShape /\ VisitingIsChain /\ OnlyReached
  BY DEF IInv
<1>3. PICK k \in 2..n : stack[k].caller = v
  BY DEF Visiting
<1> DEFINE C == {stack[i].caller : i \in k..n}
<1>4. \A i \in k..n : /\ i \in 2..n /\ i \in 1..n /\ (i = n \/ i + 1 \in k..n)
                     /\ (i + 1 \in 2..n \/ i = n)
  BY <1>1, <1>3
<1>5. ASSUME NEW i \in k..n
      PROVE  /\ stack[i].caller \in registered \ malformed
             /\ stack[i].caller \in Executable
             /\ stack[i].caller # "request"
  BY <1>2, <1>4, RouteAssumption DEF StackShape, TypeOK
<1>6. C \in SUBSET (Reached \cap Executable)
  <2>1. ASSUME NEW i \in k..n PROVE stack[i].caller \in Reached
    <3>1. stack[i].caller \in Values
      BY <1>5 DEF Values
    <3>2. \A D \in SUBSET Values : Closed(D) => stack[i].caller \in D
      BY <1>2, <1>4 DEF OnlyReached
    <3> QED
      BY <3>1, <3>2 DEF Reached
  <2> QED
    BY <1>5, <2>1
<1>7. ASSUME NEW i \in k..n PROVE Range(deps[stack[i].caller]) \cap C # {}
  <2>1. /\ Items(stack[i].caller) = deps[stack[i].caller]
        /\ deps[stack[i].caller] \in Seq(Values)
        /\ stack[i].next \in Nat \ {0}
    BY <1>2, <1>4, <1>5, StackBasics DEF Items, TypeOK
  <2>2. \A m \in 1..Len(deps[stack[i].caller]) :
           deps[stack[i].caller][m] \in Range(deps[stack[i].caller])
    BY <2>1, LenProperties DEF Range
  <2>3. CASE i = n
    <3>1. v \in Range(deps[stack[i].caller])
      BY <1>1, <2>1, <2>2, <2>3
    <3>2. k \in k..n
      BY <1>3
    <3> QED
      BY <1>3, <3>1, <3>2
  <2>4. CASE i # n
    <3>1. i + 1 \in 2..n /\ i + 1 \in k..n /\ (i + 1) - 1 = i
      BY <1>4, <2>4
    <3>2. /\ stack[i].next <= Len(deps[stack[i].caller])
          /\ stack[i + 1].caller = deps[stack[i].caller][stack[i].next]
      BY <1>2, <2>1, <3>1 DEF VisitingIsChain
    <3>3. stack[i + 1].caller \in Range(deps[stack[i].caller])
      <4>1. Len(deps[stack[i].caller]) \in Nat
        BY <2>1, LenProperties
      <4> QED
        BY <2>1, <2>2, <3>2, <4>1
    <3> QED
      BY <3>1, <3>3
  <2> QED
    BY <2>3, <2>4
<1>8. C # {}
  <2>1. k \in k..n
    BY <1>1, <1>3
  <2> QED
    BY <2>1
<1>9. Circular(C)
  BY <1>5, <1>7, <1>8 DEF Circular
<1> QED
  BY <1>6, <1>9 DEF HasCycle

(* Every check of `visit` refuses only what cannot be planned.             *)
LEMMA RefusalMeansUnplannable ==
    ASSUME IInv, NEW v \in Values, Visits(v), Refusal(v) # "none"
    PROVE  ~Plannable
<1>1. v \in Reached
  BY VisitedNextIsReached DEF Reached
<1>2. CASE v \in Visiting
  BY <1>2, RevisitClosesCycle DEF Plannable
<1>3. CASE v \notin Visiting
  <2>1. v \notin Executable \/ v \notin registered \/ v \in malformed
    BY <1>3, RouteAssumption DEF Refusal
  <2>2. v \notin registered \ malformed
    BY <2>1 DEF IInv, TypeOK
  <2> QED
    BY <1>1, <2>2 DEF Plannable
<1> QED
  BY <1>2, <1>3

LEMMA RefuseKeeps == IInv /\ Refuse => IInv'
<1> SUFFICES ASSUME IInv, Refuse PROVE IInv'
  OBVIOUS
<1>1. PICK v \in Values : Visits(v) /\ Refusal(v) # "none" /\ status' = Refusal(v)
  BY DEF Refuse
<1>2. UNCHANGED <<deps, malformed, registered, roots, stack, visited, ordered>>
  BY DEF Refuse, inputs
<1>3. status' \in PlanStatuses \ {"planned"}
  BY <1>1 DEF Refusal, PlanStatuses
<1>4. TypeOK'
  BY <1>2, <1>3 DEF IInv, TypeOK
<1>5. StackShape' /\ VisitingIsChain' /\ LoopProgress'
  BY <1>2 DEF IInv, StackShape, VisitingIsChain, LoopProgress, Items
<1>6. VisitedIsOrdered' /\ PlanIsTopological'
  BY <1>2 DEF IInv, VisitedIsOrdered, PlanIsTopological
<1>7. OnlyReached'
  BY <1>2 DEF IInv, OnlyReached, Closed
<1>8. ReturnedPlan'
  BY <1>3 DEF ReturnedPlan, PlanStatuses
<1>9. RefusedIsUnplannable'
  <2>1. ~Plannable
    BY <1>1, RefusalMeansUnplannable
  <2>2. Plannable' = Plannable
    BY <1>2 DEF Plannable, HasCycle, Reached, Circular, Closed
  <2> QED
    BY <2>1, <2>2 DEF RefusedIsUnplannable
<1> QED
  BY <1>4, <1>5, <1>6, <1>7, <1>8, <1>9 DEF IInv

LEMMA ReturnPlanKeeps == IInv /\ ReturnPlan => IInv'
<1> SUFFICES ASSUME IInv, ReturnPlan PROVE IInv'
  OBVIOUS
<1>1. /\ status = "resolving" /\ status' = "planned"
      /\ Top.next > Len(Items(Top.caller)) /\ ~InDependency
      /\ UNCHANGED <<deps, malformed, registered, roots, stack, visited, ordered>>
  BY DEF ReturnPlan, LoopDone, inputs
<1>2. TypeOK'
  BY <1>1 DEF IInv, TypeOK, PlanStatuses
<1>3. StackShape' /\ VisitingIsChain' /\ LoopProgress'
  BY <1>1 DEF IInv, StackShape, VisitingIsChain, LoopProgress, Items
<1>4. VisitedIsOrdered' /\ PlanIsTopological'
  BY <1>1, ZenonT(40) DEF IInv, VisitedIsOrdered, PlanIsTopological
<1>5. OnlyReached'
  BY <1>1 DEF IInv, OnlyReached, Closed
<1>6. ReturnedPlan'
  <2>1. /\ Len(stack) = 1 /\ Top = stack[1] /\ stack[1].caller = "request"
        /\ roots \in Seq(Values) /\ roots # <<>>
    <3>1. TypeOK /\ StackShape /\ ReturnedPlan
      BY DEF IInv
    <3>2. Len(stack) \in Nat \ {0} /\ ~(Len(stack) > 1)
      BY <1>1, <3>1, StackBasics DEF StackShape, InDependency
    <3>3. Len(stack) = 1
      BY <3>2, OneOrMore
    <3> QED
      BY <1>1, <3>1, <3>3 DEF StackShape, Top, TypeOK, ReturnedPlan
  <2>2. /\ stack[1].next \in Nat /\ Len(roots) \in Nat /\ DOMAIN roots = 1..Len(roots)
        /\ Items("request") = roots
    BY <2>1, StackBasics, LenProperties DEF IInv, Items
  <2>3. \A m \in 1..(stack[1].next - 1) : roots[m] \in visited
    BY <2>1, <2>2 DEF IInv, LoopProgress
  <2>4. 1..Len(roots) \subseteq 1..(stack[1].next - 1)
    BY <1>1, <2>1, <2>2
  <2>5. Range(roots) \subseteq visited
    BY <2>2, <2>3, <2>4 DEF Range
  <2> QED
    BY <1>1, <2>1, <2>5 DEF ReturnedPlan
<1>7. RefusedIsUnplannable'
  BY <1>1 DEF RefusedIsUnplannable
<1> QED
  BY <1>2, <1>3, <1>4, <1>5, <1>6, <1>7 DEF IInv

LEMMA SkipVisitedKeeps == IInv /\ SkipVisited => IInv'
<1> SUFFICES ASSUME IInv, SkipVisited PROVE IInv'
  OBVIOUS
<1> DEFINE n == Len(stack)
<1>1. PICK v \in Values : Visits(v) /\ v \in visited
  BY DEF SkipVisited
<1>2. /\ stack' = Advance(stack)
      /\ UNCHANGED <<deps, malformed, registered, roots, visited, ordered, status>>
  BY DEF SkipVisited, inputs
<1>3. TypeOK /\ StackShape /\ VisitingIsChain /\ LoopProgress /\ OnlyReached
  BY DEF IInv
<1>4. /\ Top = stack[n] /\ n \in Nat \ {0}
      /\ Top.next \in 1..Len(Items(Top.caller)) /\ v = Items(Top.caller)[Top.next]
  BY <1>1, VisitsProperties
<1>5. /\ stack' \in Seq(Frames) /\ Len(stack') = n
      /\ \A i \in 1..n : stack'[i].caller = stack[i].caller
      /\ \A i \in 1..(n - 1) : stack'[i].next = stack[i].next
      /\ stack'[n].next = stack[n].next + 1
  BY <1>2, <1>3, <1>4, AdvanceProperties DEF TypeOK, StackShape
<1>6. \A c : Items(c)' = Items(c)
  BY <1>2 DEF Items
<1>7. TypeOK'
  BY <1>2, <1>3, <1>5 DEF TypeOK
<1>8. StackShape'
  BY <1>2, <1>3, <1>4, <1>5 DEF StackShape
<1>9. VisitingIsChain'
  <2>1. \A i \in 2..n : i \in 1..n /\ i - 1 \in 1..(n - 1) /\ i - 1 \in 1..n
    BY <1>4
  <2>2. \A i, j \in 2..n : stack'[i].caller = stack'[j].caller => i = j
    BY <1>3, <1>5, <2>1 DEF VisitingIsChain
  <2>3. ASSUME NEW i \in 2..n
        PROVE  /\ stack'[i].caller \notin visited
               /\ stack'[i - 1].next <= Len(Items(stack'[i - 1].caller))
               /\ stack'[i].caller = Items(stack'[i - 1].caller)[stack'[i - 1].next]
    <3>1. /\ stack'[i].caller = stack[i].caller
          /\ stack'[i - 1].caller = stack[i - 1].caller
          /\ stack'[i - 1].next = stack[i - 1].next
      BY <1>5, <2>1
    <3> QED
      BY <1>3, <3>1 DEF VisitingIsChain
  <2> QED
    BY <1>2, <1>5, <1>6, <2>2, <2>3 DEF VisitingIsChain
<1>10. LoopProgress'
  <2> SUFFICES ASSUME NEW i \in 1..n
               PROVE  /\ stack'[i].next <= Len(Items(stack'[i].caller)) + 1
                      /\ \A m \in 1..(stack'[i].next - 1) : Items(stack'[i].caller)[m] \in visited
    BY <1>2, <1>5, <1>6 DEF LoopProgress
  <2>1. /\ stack'[i].caller = stack[i].caller
        /\ stack[i].next \in Nat /\ Len(Items(stack[i].caller)) \in Nat
        /\ stack[i].next <= Len(Items(stack[i].caller)) + 1
        /\ \A m \in 1..(stack[i].next - 1) : Items(stack[i].caller)[m] \in visited
    BY <1>3, <1>5, StackBasics DEF LoopProgress
  <2>2. CASE i = n
    <3>1. /\ stack'[i].next = stack[i].next + 1 /\ stack[i].next <= Len(Items(stack[i].caller))
          /\ Items(stack[i].caller)[stack[i].next] \in visited
      BY <1>1, <1>4, <1>5, <2>2
    <3>2. \A m \in 1..stack[i].next : m \in 1..(stack[i].next - 1) \/ m = stack[i].next
      BY <2>1
    <3> QED
      BY <2>1, <3>1, <3>2
  <2>3. CASE i # n
    <3>1. i \in 1..(n - 1)
      BY <1>4, <2>3
    <3>2. stack'[i].next = stack[i].next
      BY <1>5, <3>1
    <3> QED
      BY <2>1, <3>2
  <2> QED
    BY <2>2, <2>3
<1>11. OnlyReached'
  <2>1. \A C : Closed(C)' = Closed(C)
    BY <1>2 DEF Closed
  <2>2. \A i \in 2..n : i \in 1..n
    BY <1>4
  <2> QED
    BY <1>2, <1>3, <1>5, <2>1, <2>2 DEF OnlyReached
<1>12. VisitedIsOrdered' /\ PlanIsTopological' /\ ReturnedPlan'
  BY <1>2, ZenonT(40) DEF IInv, VisitedIsOrdered, PlanIsTopological, ReturnedPlan
<1>13. RefusedIsUnplannable'
  BY <1>1, <1>2 DEF RefusedIsUnplannable, Visits
<1> QED
  BY <1>7, <1>8, <1>9, <1>10, <1>11, <1>12, <1>13 DEF IInv

LEMMA EnterRouteKeeps == IInv /\ EnterRoute => IInv'
<1> SUFFICES ASSUME IInv, EnterRoute PROVE IInv'
  OBVIOUS
<1> DEFINE n == Len(stack)
<1>1. PICK v \in Values : /\ Visits(v) /\ Refusal(v) = "none" /\ v \notin visited
                         /\ stack' = Append(stack, [caller |-> v, next |-> 1])
  BY DEF EnterRoute
<1>2. UNCHANGED <<deps, malformed, registered, roots, visited, ordered, status>>
  BY DEF EnterRoute, inputs
<1>3. TypeOK /\ StackShape /\ VisitingIsChain /\ LoopProgress /\ OnlyReached
  BY DEF IInv
<1>4. /\ Top = stack[n] /\ n \in Nat \ {0}
      /\ Top.next \in 1..Len(Items(Top.caller)) /\ v = Items(Top.caller)[Top.next]
  BY <1>1, VisitsProperties
<1>5. v \in Executable /\ v \notin Visiting /\ v \in registered \ malformed
  BY <1>1 DEF Refusal
<1>6. v # "request" /\ [caller |-> v, next |-> 1] \in Frames
  BY <1>5, RouteAssumption DEF Frames
<1>7. /\ stack' \in Seq(Frames) /\ Len(stack') = n + 1
      /\ \A i \in 1..n : stack'[i] = stack[i]
      /\ stack'[n + 1] = [caller |-> v, next |-> 1]
  BY <1>1, <1>3, <1>6, AppendProperties DEF TypeOK
<1>8. \A c : Items(c)' = Items(c)
  BY <1>2 DEF Items
<1>9. \A i \in 1..(n + 1) : i \in 1..n \/ i = n + 1
  BY <1>4
<1>10. TypeOK'
  BY <1>2, <1>3, <1>7 DEF TypeOK
<1>11. StackShape'
  <2>1. \A i \in 2..(n + 1) : i \in 2..n \/ i = n + 1
    BY <1>4
  <2>2. \A i \in 2..n : i \in 1..n
    BY <1>4
  <2> QED
    BY <1>2, <1>3, <1>4, <1>5, <1>7, <2>1, <2>2 DEF StackShape
<1>12. VisitingIsChain'
  <2>1. \A i \in 2..(n + 1) : i \in 2..n \/ i = n + 1
    BY <1>4
  <2>2. \A i \in 2..n : i \in 1..n /\ i - 1 \in 1..n /\ i # n + 1
    BY <1>4
  <2>3. \A i \in 2..n : stack[i].caller # v
    BY <1>5 DEF Visiting
  <2>4. \A i, j \in 2..(n + 1) : stack'[i].caller = stack'[j].caller => i = j
    BY <1>3, <1>7, <2>1, <2>2, <2>3, SMTT(30) DEF VisitingIsChain
  <2>5. ASSUME NEW i \in 2..(n + 1)
        PROVE  /\ stack'[i].caller \notin visited
               /\ stack'[i - 1].next <= Len(Items(stack'[i - 1].caller))
               /\ stack'[i].caller = Items(stack'[i - 1].caller)[stack'[i - 1].next]
    <3>1. CASE i \in 2..n
      BY <1>3, <1>7, <2>2, <3>1 DEF VisitingIsChain
    <3>2. CASE i = n + 1
      <4>1. i - 1 = n /\ n \in 1..n
        BY <1>4, <3>2
      <4> QED
        BY <1>1, <1>4, <1>7, <3>2, <4>1
    <3> QED
      BY <2>1, <3>1, <3>2
  <2> QED
    BY <1>2, <1>7, <1>8, <2>4, <2>5 DEF VisitingIsChain
<1>13. LoopProgress'
  <2>1. Len(Items(v)) \in Nat
    BY <1>3, <1>5, StackBasics
  <2>2. ASSUME NEW i \in 1..(n + 1)
        PROVE  /\ stack'[i].next <= Len(Items(stack'[i].caller)) + 1
               /\ \A m \in 1..(stack'[i].next - 1) : Items(stack'[i].caller)[m] \in visited
    <3>1. CASE i \in 1..n
      BY <1>3, <1>7, <3>1 DEF LoopProgress
    <3>2. CASE i = n + 1
      BY <1>7, <2>1, <3>2
    <3> QED
      BY <1>9, <3>1, <3>2
  <2> QED
    BY <1>2, <1>7, <1>8, <2>2 DEF LoopProgress
<1>14. OnlyReached'
  <2>1. \A C : Closed(C)' = Closed(C)
    BY <1>2 DEF Closed
  <2>2. \A C \in SUBSET Values : Closed(C) => v \in C
    BY <1>1, VisitedNextIsReached
  <2>3. \A i \in 2..(n + 1) : i \in 2..n \/ i = n + 1
    BY <1>4
  <2>4. \A i \in 2..n : i \in 1..n
    BY <1>4
  <2> QED
    BY <1>2, <1>3, <1>7, <2>1, <2>2, <2>3, <2>4 DEF OnlyReached
<1>15. VisitedIsOrdered' /\ PlanIsTopological' /\ ReturnedPlan'
  BY <1>2 DEF IInv, VisitedIsOrdered, PlanIsTopological, ReturnedPlan
<1>16. RefusedIsUnplannable'
  BY <1>1, <1>2 DEF RefusedIsUnplannable, Visits
<1> QED
  BY <1>10, <1>11, <1>12, <1>13, <1>14, <1>15, <1>16 DEF IInv

LEMMA LeaveRouteKeeps == IInv /\ LeaveRoute => IInv'
<1> SUFFICES ASSUME IInv, LeaveRoute PROVE IInv'
  OBVIOUS
<1> DEFINE n == Len(stack)
           rest == SubSeq(stack, 1, n - 1)
           r == stack[n].caller
<1>1. /\ status = "resolving" /\ Top = stack[n] /\ n > 1
      /\ Top.next > Len(Items(Top.caller))
      /\ visited' = visited \cup {r} /\ ordered' = Append(ordered, r)
      /\ stack' = Advance(rest)
      /\ UNCHANGED <<deps, malformed, registered, roots, status>>
  BY DEF LeaveRoute, LoopDone, InDependency, inputs, Top
<1>2. TypeOK /\ StackShape /\ VisitingIsChain /\ LoopProgress /\ OnlyReached
  BY DEF IInv
<1>3. VisitedIsOrdered /\ PlanIsTopological /\ ReturnedPlan
  BY DEF IInv
<1>4. n \in Nat /\ n - 1 \in Nat /\ n - 1 >= 1 /\ n \in 2..n /\ n \in 1..n
  BY <1>1, <1>2, StackBasics
<1>5. r \in registered \ malformed /\ r \in Executable /\ r \notin visited /\ r # "request"
  BY <1>2, <1>4, RouteAssumption DEF StackShape, TypeOK, VisitingIsChain
<1>6. /\ rest \in Seq(Frames) /\ Len(rest) = n - 1
      /\ \A i \in 1..(n - 1) : rest[i] = stack[i]
  <2>1. \A i \in 1..(n - 1) : stack[i] \in Frames
    BY <1>2, <1>4, StackBasics
  <2>2. n - 1 - 1 + 1 = n - 1 /\ \A i \in 1..(n - 1) : 1 + i - 1 = i
    BY <1>4
  <2> QED
    BY <1>4, <2>1, <2>2, SubSeqProperties
<1>7. /\ stack' \in Seq(Frames) /\ Len(stack') = n - 1
      /\ \A i \in 1..(n - 1) : stack'[i].caller = stack[i].caller
      /\ \A i \in 1..(n - 2) : stack'[i].next = stack[i].next
      /\ stack'[n - 1].next = stack[n - 1].next + 1
  <2>1. n - 1 \in 1..(n - 1) /\ (n - 1) - 1 = n - 2 /\ \A i \in 1..(n - 2) : i \in 1..(n - 1)
    BY <1>4
  <2>2. /\ Advance(rest) \in Seq(Frames) /\ Len(Advance(rest)) = Len(rest)
        /\ \A i \in 1..Len(rest) : Advance(rest)[i].caller = rest[i].caller
        /\ \A i \in 1..(Len(rest) - 1) : Advance(rest)[i].next = rest[i].next
        /\ Advance(rest)[Len(rest)].next = rest[Len(rest)].next + 1
    <3> HIDE DEF rest
    <3> QED
      BY <1>4, <1>6, AdvanceProperties
  <2> HIDE DEF rest
  <2>3. /\ stack' \in Seq(Frames) /\ Len(stack') = n - 1
        /\ \A i \in 1..(n - 1) : stack'[i].caller = stack[i].caller
    BY <1>1, <1>6, <2>2
  <2>4. \A i \in 1..(n - 2) : stack'[i].next = stack[i].next
    BY <1>1, <1>6, <2>1, <2>2
  <2>5. stack'[n - 1].next = stack[n - 1].next + 1
    BY <1>1, <1>6, <2>1, <2>2
  <2> QED
    BY <2>3, <2>4, <2>5
<1>8. \A c : Items(c)' = Items(c)
  BY <1>1 DEF Items
<1>9. \A i \in 1..(n - 1) : i \in 1..n /\ (i = n - 1 \/ i \in 1..(n - 2))
  BY <1>4
<1>10. ordered \in Seq(Executable) /\ Len(ordered) \in Nat /\ DOMAIN ordered = 1..Len(ordered)
  BY <1>2, LenProperties DEF TypeOK
<1>11. /\ ordered' \in Seq(Executable) /\ Len(ordered') = Len(ordered) + 1
       /\ \A k \in 1..Len(ordered) : ordered'[k] = ordered[k]
       /\ ordered'[Len(ordered) + 1] = r
       /\ DOMAIN ordered' = 1..(Len(ordered) + 1)
  BY <1>1, <1>5, <1>10, AppendProperties, LenProperties
<1>12. TypeOK'
  BY <1>1, <1>2, <1>5, <1>7, <1>11 DEF TypeOK
<1>13. StackShape'
  <2>1. 1 \in 1..(n - 1) /\ \A i \in 2..(n - 1) : i \in 2..n /\ i \in 1..(n - 1)
    BY <1>4
  <2> QED
    BY <1>1, <1>2, <1>4, <1>7, <2>1 DEF StackShape
<1>14. VisitingIsChain'
  <2>1. \A i \in 2..(n - 1) : i \in 2..n /\ i # n /\ i \in 1..(n - 1) /\ i - 1 \in 1..(n - 2) /\ i - 1 \in 1..(n - 1)
    BY <1>4
  <2>2. \A i, j \in 2..(n - 1) : stack'[i].caller = stack'[j].caller => i = j
    BY <1>2, <1>7, <2>1 DEF VisitingIsChain
  <2>3. ASSUME NEW i \in 2..(n - 1)
        PROVE  /\ stack'[i].caller \notin visited'
               /\ stack'[i - 1].next <= Len(Items(stack'[i - 1].caller))
               /\ stack'[i].caller = Items(stack'[i - 1].caller)[stack'[i - 1].next]
    <3>1. /\ stack'[i].caller = stack[i].caller
          /\ stack'[i - 1].caller = stack[i - 1].caller
          /\ stack'[i - 1].next = stack[i - 1].next
      BY <1>7, <2>1
    <3>2. stack[i].caller # r
      BY <1>2, <1>4, <2>1 DEF VisitingIsChain
    <3>3. /\ stack[i].caller \notin visited
          /\ stack[i - 1].next <= Len(Items(stack[i - 1].caller))
          /\ stack[i].caller = Items(stack[i - 1].caller)[stack[i - 1].next]
      BY <1>2, <2>1 DEF VisitingIsChain
    <3> QED
      BY <1>1, <3>1, <3>2, <3>3
  <2> QED
    BY <1>7, <1>8, <2>2, <2>3 DEF VisitingIsChain
<1>15. LoopProgress'
  <2>1. ASSUME NEW i \in 1..(n - 1)
        PROVE  /\ stack'[i].next <= Len(Items(stack'[i].caller)) + 1
               /\ \A m \in 1..(stack'[i].next - 1) : Items(stack'[i].caller)[m] \in visited'
    <3>1. /\ stack'[i].caller = stack[i].caller
          /\ stack[i].next \in Nat /\ Len(Items(stack[i].caller)) \in Nat
          /\ stack[i].next <= Len(Items(stack[i].caller)) + 1
          /\ \A m \in 1..(stack[i].next - 1) : Items(stack[i].caller)[m] \in visited
      BY <1>2, <1>7, <1>9, StackBasics DEF LoopProgress
    <3>2. CASE i = n - 1
      <4>1. /\ stack[n - 1].next <= Len(Items(stack[n - 1].caller))
            /\ r = Items(stack[n - 1].caller)[stack[n - 1].next]
        BY <1>2, <1>4 DEF VisitingIsChain
      <4>2. \A m \in 1..stack[i].next : m \in 1..(stack[i].next - 1) \/ m = stack[i].next
        BY <3>1
      <4> QED
        BY <1>1, <1>7, <3>1, <3>2, <4>1, <4>2, SMTT(30)
    <3>3. CASE i \in 1..(n - 2)
      <4>1. stack'[i].next = stack[i].next
        BY <1>7, <3>3
      <4> QED
        BY <1>1, <3>1, <4>1
    <3> QED
      BY <1>9, <3>2, <3>3
  <2> QED
    BY <1>7, <1>8, <2>1 DEF LoopProgress
<1>16. OnlyReached'
  <2>1. \A C : Closed(C)' = Closed(C)
    BY <1>1 DEF Closed
  <2>2. \A i \in 2..(n - 1) : i \in 2..n /\ i \in 1..(n - 1)
    BY <1>4
  <2>3. \A C \in SUBSET Values : Closed(C) => r \in C
    BY <1>2, <1>4 DEF OnlyReached
  <2> QED
    BY <1>1, <1>2, <1>7, <2>1, <2>2, <2>3 DEF OnlyReached
<1>17. VisitedIsOrdered'
  <2>1. Range(ordered') = Range(ordered) \cup {r}
    BY <1>10, <1>11 DEF Range
  <2>2. \A k \in 1..Len(ordered) : ordered[k] # r
    BY <1>3, <1>5, <1>10 DEF VisitedIsOrdered, Range
  <2>3. \A k \in 1..(Len(ordered) + 1) : k \in 1..Len(ordered) \/ k = Len(ordered) + 1
    BY <1>10
  <2>4. IsInjective(ordered')
    BY <1>3, <1>10, <1>11, <2>2, <2>3 DEF VisitedIsOrdered, IsInjective
  <2> QED
    BY <1>1, <1>3, <1>5, <2>1, <2>4 DEF VisitedIsOrdered
<1>18. PlanIsTopological'
  <2>1. Range(deps[r]) \subseteq visited
    <3>1. /\ stack[n].next \in Nat /\ Len(Items(r)) \in Nat
          /\ \A m \in 1..(stack[n].next - 1) : Items(r)[m] \in visited
      BY <1>2, <1>4, StackBasics DEF LoopProgress
    <3>2. Items(r) = deps[r] /\ deps[r] \in Seq(Values)
      BY <1>2, <1>5 DEF Items, TypeOK
    <3>3. 1..Len(deps[r]) \subseteq 1..(stack[n].next - 1)
      BY <1>1, <3>1, <3>2
    <3> QED
      BY <3>1, <3>2, <3>3, LenProperties DEF Range
  <2>2. ASSUME NEW k \in 1..(Len(ordered) + 1)
        PROVE  Range(deps[ordered'[k]]) \subseteq {ordered'[j] : j \in 1..(k - 1)}
    <3>1. CASE k \in 1..Len(ordered)
      <4>1. ordered'[k] = ordered[k] /\ \A j \in 1..(k - 1) : ordered'[j] = ordered[j]
        BY <1>10, <1>11, <3>1
      <4>2. Range(deps[ordered[k]]) \subseteq {ordered[j] : j \in 1..(k - 1)}
        BY <1>3, <1>10, <3>1 DEF PlanIsTopological
      <4> QED
        BY <4>1, <4>2
    <3>2. CASE k = Len(ordered) + 1
      <4>1. k - 1 = Len(ordered)
        BY <1>10, <3>2
      <4>2. visited = {ordered[j] : j \in 1..(k - 1)}
        BY <1>3, <1>10, <4>1 DEF VisitedIsOrdered, Range
      <4>3. \A j \in 1..(k - 1) : ordered'[j] = ordered[j]
        BY <1>11, <4>1
      <4>4. {ordered'[j] : j \in 1..(k - 1)} = visited
        BY <4>2, <4>3
      <4>5. ordered'[k] = r
        BY <1>11, <3>2
      <4> QED
        BY <2>1, <4>4, <4>5
    <3> QED
      BY <1>10, <3>1, <3>2
  <2> QED
    BY <1>1, <1>11, <2>2 DEF PlanIsTopological
<1>19. ReturnedPlan'
  BY <1>1, <1>3 DEF ReturnedPlan
<1>20. RefusedIsUnplannable'
  BY <1>1 DEF RefusedIsUnplannable, Visits
<1> QED
  BY <1>12, <1>13, <1>14, <1>15, <1>16, <1>17, <1>18, <1>19, <1>20 DEF IInv

LEMMA StutteringKeeps == IInv /\ UNCHANGED vars => IInv'
<1> SUFFICES ASSUME IInv, UNCHANGED vars PROVE IInv'
  OBVIOUS
<1>1. UNCHANGED <<deps, malformed, registered, roots, stack, visited, ordered, status>>
  BY DEF vars
<1>2. TypeOK'
  BY <1>1 DEF IInv, TypeOK
<1>3. StackShape' /\ VisitingIsChain' /\ LoopProgress'
  BY <1>1 DEF IInv, StackShape, VisitingIsChain, LoopProgress, Items
<1>4. VisitedIsOrdered' /\ PlanIsTopological' /\ ReturnedPlan'
  BY <1>1, ZenonT(40) DEF IInv, VisitedIsOrdered, PlanIsTopological, ReturnedPlan
<1>5. OnlyReached'
  BY <1>1 DEF IInv, OnlyReached, Closed
<1>6. RefusedIsUnplannable'
  BY <1>1 DEF IInv, RefusedIsUnplannable, Plannable, HasCycle, Reached, Circular, Closed
<1> QED
  BY <1>2, <1>3, <1>4, <1>5, <1>6 DEF IInv

LEMMA Inductive == Spec => []IInv
<1>1. IInv /\ [Next]_vars => IInv'
  BY RefuseKeeps, SkipVisitedKeeps, EnterRouteKeeps, LeaveRouteKeeps, ReturnPlanKeeps,
     StutteringKeeps DEF Next
<1> QED
  BY InitEstablishes, <1>1, PTL DEF Spec

-----------------------------------------------------------------------------
(* When the root loop has ended, the visited routes are closed under       *)
(* dependencies and hold the roots.                                        *)
LEMMA PlannedIsReached ==
    ASSUME IInv, status = "planned"
    PROVE  visited = Reached
<1>1. TypeOK /\ VisitedIsOrdered /\ PlanIsTopological /\ OnlyReached /\ ReturnedPlan
  BY DEF IInv
<1>2. ordered \in Seq(Executable) /\ DOMAIN ordered = 1..Len(ordered) /\ Len(ordered) \in Nat
  BY <1>1, LenProperties DEF TypeOK
<1>3. ASSUME NEW r \in visited PROVE Range(deps[r]) \subseteq visited
  <2>1. PICK k \in DOMAIN ordered : ordered[k] = r
    BY <1>1 DEF VisitedIsOrdered, Range
  <2>2. Range(deps[r]) \subseteq {ordered[j] : j \in 1..(k - 1)}
    BY <1>1, <2>1 DEF PlanIsTopological
  <2>3. \A j \in 1..(k - 1) : j \in DOMAIN ordered
    BY <1>2, <2>1
  <2>4. {ordered[j] : j \in 1..(k - 1)} \subseteq visited
    BY <1>1, <2>3 DEF VisitedIsOrdered, Range
  <2> QED
    BY <2>2, <2>4
<1>4. Closed(visited)
  <2>1. Range(roots) \subseteq visited
    BY <1>1 DEF ReturnedPlan
  <2> QED
    BY <1>3, <2>1 DEF Closed
<1>5. visited \in SUBSET Values
  BY <1>1 DEF TypeOK, Values
<1>6. Reached \subseteq visited
  BY <1>4, <1>5 DEF Reached
<1>7. visited \subseteq Reached
  BY <1>1, <1>5 DEF OnlyReached, Reached
<1> QED
  BY <1>6, <1>7

(* A topological plan has no cycle: the first route of the plan that lies  *)
(* on one would have a dependency on it still earlier.                     *)
LEMMA PlannedIsPlannable ==
    ASSUME IInv, status = "planned"
    PROVE  Plannable
<1>1. TypeOK /\ VisitedIsOrdered /\ PlanIsTopological /\ ReturnedPlan
  BY DEF IInv
<1>2. ordered \in Seq(Executable) /\ DOMAIN ordered = 1..Len(ordered) /\ Len(ordered) \in Nat
  BY <1>1, LenProperties DEF TypeOK
<1>3. visited = Reached
  BY PlannedIsReached
<1>4. roots # <<>> /\ Reached \subseteq registered \ malformed
  BY <1>1, <1>3 DEF ReturnedPlan, VisitedIsOrdered
<1>5. ASSUME NEW C \in SUBSET (Reached \cap Executable), Circular(C) PROVE FALSE
  <2> DEFINE I == {k \in DOMAIN ordered : ordered[k] \in C}
  <2>1. IsFiniteSet(I) /\ I \in SUBSET Nat
    <3>1. IsFiniteSet(1..Len(ordered))
      BY <1>2, FS_Interval
    <3>2. I \in SUBSET (1..Len(ordered))
      BY <1>2
    <3> QED
      BY <3>1, <3>2, FS_Subset
  <2>2. PICK i \in I : TRUE
    <3>1. PICK c \in C : TRUE
      BY <1>5 DEF Circular
    <3>2. c \in Range(ordered)
      BY <1>1, <1>3 DEF VisitedIsOrdered
    <3> QED
      BY <3>1, <3>2 DEF Range
  <2>3. PICK m \in I : \A k \in I : m <= k
    <3> HIDE DEF I
    <3> QED
      BY <2>1, <2>2, LeastPosition
  <2>4. PICK d \in C : d \in Range(deps[ordered[m]])
    BY <1>5 DEF Circular
  <2>5. PICK j \in 1..(m - 1) : ordered[j] = d
    BY <1>1, <2>4 DEF PlanIsTopological
  <2>6. j \in I /\ j < m
    BY <1>2, <2>4, <2>5
  <2> QED
    BY <1>2, <2>3, <2>6
<1> QED
  BY <1>4, <1>5 DEF Plannable, HasCycle

-----------------------------------------------------------------------------
(* A refusal is decided with the value in hand that is at fault: that value *)
(* is reached, and required by a route when it was found in dependencies.   *)
Required == UNION {Range(deps[r]) : r \in (Reached \cap Executable) \ malformed}

LEMMA VisitedNextIsAskedFor ==
    ASSUME IInv, NEW v \in Values, Visits(v)
    PROVE  /\ v \in Reached
           /\ InDependency => v \in Required
           /\ ~InDependency => v \in Range(roots)
<1>1. /\ Top = stack[Len(stack)] /\ Len(stack) \in Nat \ {0}
      /\ Top.next \in 1..Len(Items(Top.caller))
      /\ v = Items(Top.caller)[Top.next]
      /\ Top.caller # "request" => Top.caller \in registered \ malformed
      /\ InDependency <=> Top.caller # "request"
  BY VisitsProperties
<1>2. TypeOK /\ OnlyReached
  BY DEF IInv
<1>3. v \in Reached
  BY VisitedNextIsReached DEF Reached
<1>4. ASSUME ~InDependency PROVE v \in Range(roots)
  BY <1>1, <1>2, <1>4, LenProperties DEF Items, Range, TypeOK
<1>5. ASSUME InDependency PROVE v \in Required
  <2>1. Len(stack) \in 2..Len(stack)
    BY <1>1, <1>5 DEF InDependency
  <2>2. Top.caller \in Executable \ malformed
    BY <1>1, <1>2, <1>5 DEF TypeOK
  <2>3. Top.caller \in Reached
    BY <1>1, <1>2, <2>1, <2>2 DEF OnlyReached, Reached, Values
  <2>4. deps[Top.caller] \in Seq(Values)
    BY <1>2, <2>2 DEF TypeOK
  <2>5. v \in Range(deps[Top.caller])
    BY <1>1, <1>5, <2>4, LenProperties DEF Items, Range
  <2> QED
    BY <2>2, <2>3, <2>5 DEF Required
<1> QED
  BY <1>3, <1>4, <1>5

LEMMA RefuseTellsTruth == IInv /\ Refuse => RefusalIsTrue'
<1> SUFFICES ASSUME IInv, Refuse PROVE RefusalIsTrue'
  OBVIOUS
<1>1. PICK v \in Values : Visits(v) /\ Refusal(v) # "none" /\ status' = Refusal(v)
  BY DEF Refuse
<1>2. UNCHANGED <<deps, malformed, registered, roots, stack, visited, ordered>>
  BY DEF Refuse, inputs
<1>3. /\ HasCycle' = HasCycle
      /\ Reached' = Reached
      /\ Required' = Required
  BY <1>2 DEF HasCycle, Reached, Required, Circular, Closed
<1>4. /\ v \in Reached
      /\ InDependency => v \in Required
      /\ ~InDependency => v \in Range(roots)
  BY <1>1, VisitedNextIsAskedFor
<1>5. status' = "cycle_detected" => HasCycle
  <2>1. status' = "cycle_detected" => v \in Visiting
    BY <1>1 DEF Refusal
  <2> QED
    BY <1>1, <2>1, RevisitClosesCycle
<1>6. status' = "finish_not_allowed" => v = "finish"
  BY <1>1 DEF Refusal
<1>7. v \notin Executable /\ v # "finish" => v \in Unsupported
  BY DEF Values
<1>8. status' = "unsupported_root" => v \in Range(roots) \cap Unsupported
  <2>1. status' = "unsupported_root" => v \notin Executable /\ v # "finish" /\ ~InDependency
    BY <1>1 DEF Refusal
  <2> QED
    BY <1>4, <1>7, <2>1
<1>9. status' = "unregistered_root" => v \in Range(roots) \cap Executable /\ v \notin registered
  <2>1. status' = "unregistered_root" => v \in Executable /\ v \notin registered /\ ~InDependency
    BY <1>1 DEF Refusal
  <2> QED
    BY <1>4, <2>1
<1>10. status' = "unregistered_dependency" => v \in Required \cap Executable /\ v \notin registered
  <2>1. status' = "unregistered_dependency" => v \in Executable /\ v \notin registered /\ InDependency
    BY <1>1 DEF Refusal
  <2> QED
    BY <1>4, <2>1
<1>11. status' = "invalid_dependency" => v \in Required \cap Unsupported \/ v \in Reached \cap malformed
  <2>1. status' = "invalid_dependency" =>
           \/ v \notin Executable /\ v # "finish" /\ InDependency
           \/ v \in malformed
    BY <1>1 DEF Refusal
  <2> QED
    BY <1>4, <1>7, <2>1
<1> QED
  BY <1>2, <1>3, <1>4, <1>5, <1>6, <1>8, <1>9, <1>10, <1>11 DEF RefusalIsTrue, Required

(* Without a refusal there is nothing to be true.                          *)
LEMMA UnrefusedIsTrue ==
    (status \in {"resolving", "planned", "no_routes"} => RefusalIsTrue)'
  BY DEF RefusalIsTrue

LEMMA TruthIsInductive == IInv /\ RefusalIsTrue /\ [Next]_vars => RefusalIsTrue'
<1> SUFFICES ASSUME IInv, RefusalIsTrue, [Next]_vars PROVE RefusalIsTrue'
  OBVIOUS
<1>1. CASE Refuse
  BY <1>1, RefuseTellsTruth
<1>2. CASE SkipVisited \/ EnterRoute \/ LeaveRoute \/ ReturnPlan
  <2>1. status' \in {"resolving", "planned"}
    BY <1>2 DEF SkipVisited, EnterRoute, LeaveRoute, ReturnPlan, Visits, LoopDone
  <2> QED
    BY <2>1, UnrefusedIsTrue
<1>3. CASE UNCHANGED vars
  <2>1. UNCHANGED <<deps, malformed, registered, roots, status>>
    BY <1>3 DEF vars
  <2>2. HasCycle' = HasCycle /\ Reached' = Reached
    BY <2>1 DEF HasCycle, Reached, Circular, Closed
  <2> QED
    BY <2>1, <2>2 DEF RefusalIsTrue
<1> QED
  BY <1>1, <1>2, <1>3 DEF Next

-----------------------------------------------------------------------------
(* The plan of a report request, in the order in which it is made.         *)
ReportPlan == <<"progress", "study_rights", "risk", "recommendation", "reporting">>

(* With the dependencies of the product a request for a report is planned  *)
(* along its sources, one after the other.                                 *)
ReportInOrder ==
    ProductDependencies /\ roots = <<"reporting">> =>
        Len(ordered) <= 5 /\ \A k \in 1..Len(ordered) : ordered[k] = ReportPlan[k]

(* The route that `visit` leaves is the next one of that plan.             *)
LEMMA NextOfReport ==
    ASSUME IInv, ReportInOrder, ProductDependencies, roots = <<"reporting">>, LeaveRoute
    PROVE  Len(ordered) < 5 /\ Top.caller = ReportPlan[Len(ordered) + 1]
<1> DEFINE n == Len(stack)
           L == Len(ordered)
           r == stack[n].caller
<1>1. Top = stack[n] /\ Top.next > Len(Items(Top.caller)) /\ n > 1
  BY DEF LeaveRoute, LoopDone, InDependency, Top
<1>2. TypeOK /\ StackShape /\ VisitingIsChain /\ LoopProgress /\ VisitedIsOrdered
  BY DEF IInv
<1>3. n \in Nat /\ n \in 2..n /\ n \in 1..n /\ 1 \in 1..n /\ 2 \in 2..n /\ 2 \in 1..n
  BY <1>1, <1>2, StackBasics
<1>4. /\ \A i \in 1..n : stack[i].next \in Nat \ {0}
      /\ \A c \in Executable \cup {"request"} : Len(Items(c)) \in Nat
  BY <1>2, StackBasics
<1>5. L \in Nat /\ ordered \in Seq(Executable) /\ DOMAIN ordered = 1..L
  BY <1>2, LenProperties DEF TypeOK
<1>6. L <= 5 /\ visited = {ReportPlan[k] : k \in 1..L}
  <2>1. visited = {ordered[k] : k \in 1..L}
    BY <1>2, <1>5 DEF VisitedIsOrdered, Range
  <2> QED
    BY <2>1 DEF ReportInOrder
<1>7. \A i \in 2..n : /\ stack[i].caller \in Executable
                     /\ stack[i].caller # "request"
                     /\ Items(stack[i].caller) = DefaultDependencies[stack[i].caller]
                     /\ stack[i].caller \in Routes
  BY <1>2, RouteAssumption DEF StackShape, TypeOK, Items, ProductDependencies
<1>8. stack[2].caller = "reporting"
  <2>1. /\ stack[1].next <= Len(Items(stack[1].caller))
        /\ stack[2].caller = Items(stack[1].caller)[stack[1].next]
    BY <1>2, <1>3 DEF VisitingIsChain
  <2>2. Items(stack[1].caller) = <<"reporting">>
    BY <1>2 DEF StackShape, Items
  <2>3. stack[1].next \in Nat \ {0} /\ stack[1].next <= 1
    BY <1>3, <1>4, <2>1, <2>2
  <2>4. stack[1].next = 1
    BY <2>3
  <2> QED
    BY <2>1, <2>2, <2>4
<1>9. Items("reporting") = <<"progress", "study_rights", "risk", "recommendation">>
  BY <1>3, <1>7, <1>8 DEF DefaultDependencies, ReportSources
<1>10. r \notin visited
  BY <1>2, <1>3 DEF VisitingIsChain
<1>11. \A k \in 1..L : ReportPlan[k] \in visited
  BY <1>6
<1>12. CASE n = 2
  <2>1. r = "reporting" /\ stack[2].next > 4
    BY <1>1, <1>8, <1>9, <1>12
  <2>2. \A m \in 1..4 : Items("reporting")[m] \in visited
    <3>1. \A m \in 1..(stack[2].next - 1) : Items("reporting")[m] \in visited
      BY <1>2, <1>3, <1>8 DEF LoopProgress
    <3>2. stack[2].next \in Nat
      BY <1>3, <1>4
    <3> QED
      BY <2>1, <3>1, <3>2
  <2>3. "recommendation" \in visited
    BY <1>9, <2>2
  <2>4. L >= 4
    <3>1. PICK k \in 1..L : ReportPlan[k] = "recommendation"
      BY <1>6, <2>3
    <3>2. \A a \in 1..5 : ReportPlan[a] = "recommendation" => a = 4
      BY DEF ReportPlan
    <3>3. k \in 1..5
      BY <1>5, <1>6
    <3> QED
      BY <1>5, <3>1, <3>2, <3>3
  <2>5. L # 5
    BY <1>10, <1>11, <2>1, SMTT(30) DEF ReportPlan
  <2>6. L = 4
    BY <1>5, <1>6, <2>4, <2>5
  <2> QED
    BY <1>1, <2>1, <2>6 DEF ReportPlan
<1>13. CASE n > 2
  <2> DEFINE j == stack[2].next
  <2>1. 3 \in 2..n /\ 3 - 1 = 2 /\ 3 \in 1..n
    BY <1>3, <1>13
  <2>2. stack[2].next <= 4 /\ stack[3].caller = Items("reporting")[j]
    <3>1. /\ stack[2].next <= Len(Items(stack[2].caller))
          /\ stack[3].caller = Items(stack[2].caller)[stack[2].next]
      BY <1>2, <2>1 DEF VisitingIsChain
    <3>2. Len(Items("reporting")) = 4
      BY <1>9
    <3> QED
      BY <1>8, <3>1, <3>2
  <2>3. j \in 1..4
    BY <1>3, <1>4, <2>2
  <2>4. \A m \in 1..(j - 1) : Items("reporting")[m] \in visited
    BY <1>2, <1>3, <1>8 DEF LoopProgress
  <2>5. stack[3].caller = ReportPlan[j] /\ \A m \in 1..(j - 1) : ReportPlan[m] \in visited
    BY <1>9, <2>2, <2>3, <2>4 DEF ReportPlan
  <2>6. stack[3].caller \notin visited
    BY <1>2, <2>1 DEF VisitingIsChain
  <2>7. L < j
    BY <1>5, <1>11, <2>3, <2>5, <2>6
  <2>8. L >= j - 1
    <3>1. \A a, b \in 1..5 : ReportPlan[a] = ReportPlan[b] => a = b
      BY DEF ReportPlan
    <3>2. ASSUME j # 1 PROVE j - 1 \in 1..L
      <4>1. j - 1 \in 1..(j - 1) /\ j - 1 \in 1..5
        BY <2>3, <3>2
      <4>2. PICK k \in 1..L : ReportPlan[k] = ReportPlan[j - 1]
        BY <1>6, <2>5, <4>1
      <4>3. k \in 1..5
        BY <1>5, <1>6
      <4> QED
        BY <3>1, <4>1, <4>2, <4>3
    <3> QED
      BY <1>5, <2>3, <3>2
  <2>9. L + 1 = j /\ L < 5
    BY <1>5, <2>3, <2>7, <2>8
  <2>10. n = 3
    <3> SUFFICES ASSUME n # 3 PROVE FALSE
      OBVIOUS
    <3>0. \A m \in Nat : m > 2 /\ m # 3 => 4 \in 2..m
      OBVIOUS
    <3>1. 4 \in 2..n /\ 4 - 1 = 3
      BY <1>3, <1>13, <3>0, SMTT(30)
    <3>2. /\ stack[3].next <= Len(Items(stack[3].caller))
          /\ stack[4].caller = Items(stack[3].caller)[stack[3].next]
          /\ stack[4].caller \notin visited
      BY <1>2, <3>1 DEF VisitingIsChain
    <3>3. stack[3].next \in Nat \ {0}
      BY <1>4, <2>1
    <3>4. Items(stack[3].caller) = DefaultDependencies[ReportPlan[j]]
      BY <1>7, <2>1, <2>5
    <3>5. CASE j # 4
      <4>1. DefaultDependencies[ReportPlan[j]] = <<>>
        BY <2>3, <3>5 DEF DefaultDependencies, ReportPlan, Routes
      <4> QED
        BY <3>2, <3>3, <3>4, <4>1
    <3>6. CASE j = 4
      <4>1. DefaultDependencies[ReportPlan[j]] = <<"risk">>
        BY <3>6 DEF DefaultDependencies, ReportPlan, Routes
      <4>2. stack[3].next = 1
        BY <3>2, <3>3, <3>4, <4>1
      <4>3. stack[4].caller = "risk"
        BY <3>2, <3>4, <4>1, <4>2
      <4>4. "risk" \in visited
        BY <2>5, <3>6 DEF ReportPlan
      <4> QED
        BY <3>2, <4>3, <4>4
    <3> QED
      BY <3>5, <3>6
  <2> QED
    BY <1>1, <2>5, <2>9, <2>10
<1>14. \A m \in Nat : m > 1 => m = 2 \/ m > 2
  OBVIOUS
<1> QED
  BY <1>1, <1>3, <1>12, <1>13, <1>14

LEMMA ReportInOrderIsInductive == IInv /\ ReportInOrder /\ [Next]_vars => ReportInOrder'
<1> SUFFICES ASSUME IInv, ReportInOrder, [Next]_vars PROVE ReportInOrder'
  OBVIOUS
<1>1. UNCHANGED <<deps, roots>>
  BY DEF Next, vars, inputs, Refuse, SkipVisited, EnterRoute, LeaveRoute, ReturnPlan
<1>2. ProductDependencies' = ProductDependencies
  BY <1>1 DEF ProductDependencies
<1>3. CASE LeaveRoute
  <2> SUFFICES ASSUME ProductDependencies, roots = <<"reporting">>
               PROVE  Len(ordered') <= 5 /\ \A k \in 1..Len(ordered') : ordered'[k] = ReportPlan[k]
    BY <1>1, <1>2 DEF ReportInOrder
  <2>1. Len(ordered) < 5 /\ Top.caller = ReportPlan[Len(ordered) + 1]
    BY <1>3, NextOfReport
  <2>2. \A k \in 1..Len(ordered) : ordered[k] = ReportPlan[k]
    BY DEF ReportInOrder
  <2>3. ordered' = Append(ordered, Top.caller)
    BY <1>3 DEF LeaveRoute
  <2>4. ordered \in Seq(Executable) /\ Len(ordered) \in Nat
    BY LenProperties DEF IInv, TypeOK
  <2>5. Top.caller \in Executable
    <3>1. Len(stack) \in 2..Len(stack) /\ Top = stack[Len(stack)]
      BY <1>3, StackBasics DEF IInv, LeaveRoute, InDependency, Top
    <3> QED
      BY <3>1 DEF IInv, StackShape, TypeOK
  <2>6. /\ Len(ordered') = Len(ordered) + 1
        /\ \A k \in 1..Len(ordered) : ordered'[k] = ordered[k]
        /\ ordered'[Len(ordered) + 1] = Top.caller
    BY <2>3, <2>4, <2>5, AppendProperties
  <2>7. \A k \in 1..(Len(ordered) + 1) : k \in 1..Len(ordered) \/ k = Len(ordered) + 1
    BY <2>4
  <2>8. Len(ordered') <= 5
    BY <2>1, <2>4, <2>6
  <2>9. \A k \in 1..Len(ordered') : ordered'[k] = ReportPlan[k]
    BY <2>1, <2>2, <2>6, <2>7
  <2> QED
    BY <2>8, <2>9
<1>4. CASE ~LeaveRoute
  <2>1. ordered' = ordered
    BY <1>4 DEF Next, vars, Refuse, SkipVisited, EnterRoute, ReturnPlan
  <2> QED
    BY <1>1, <1>2, <2>1 DEF ReportInOrder
<1> QED
  BY <1>3, <1>4

(* A plan for one root other than a report holds that root and, before a   *)
(* recommendation, the risk it rests on.                                   *)
LEMMA OtherPlansAreSmall ==
    ASSUME IInv, ProductDependencies, status = "planned",
           NEW r \in Executable, roots = <<r>>, r # "reporting"
    PROVE  /\ r = "recommendation" => Range(ordered) \subseteq {"recommendation", "risk"}
           /\ r # "recommendation" => Range(ordered) \subseteq {r}
<1>1. TypeOK /\ VisitedIsOrdered
  BY DEF IInv
<1>2. Range(ordered) = Reached
  BY <1>1, PlannedIsReached DEF VisitedIsOrdered
<1>3. Range(roots) = {r}
  BY DEF Range
<1>4. deps[r] = DefaultDependencies[r] /\ r \in Routes /\ deps[r] \in Seq(Values)
  BY <1>1 DEF ProductDependencies, TypeOK
<1>5. CASE r = "recommendation"
  <2> DEFINE C == {"recommendation", "risk"}
  <2>1. deps[r] = <<"risk">>
    BY <1>4, <1>5 DEF DefaultDependencies
  <2>2. Range(deps[r]) = {"risk"}
    BY <2>1 DEF Range
  <2>3. "risk" \in Values
    BY <1>4, <2>2, LenProperties, ElementOfSeq DEF Range
  <2>4. C \in SUBSET Values
    BY <1>5, <2>3 DEF Values
  <2>5. "risk" \in Executable => Range(deps["risk"]) = {}
    <3>1. "risk" \in Executable => deps["risk"] = <<>>
      BY DEF ProductDependencies, DefaultDependencies, Routes
    <3> QED
      BY <3>1 DEF Range
  <2>6. Closed(C)
    BY <1>3, <1>5, <2>2, <2>5 DEF Closed
  <2> QED
    BY <1>2, <1>5, <2>4, <2>6 DEF Reached
<1>6. CASE r # "recommendation"
  <2>1. deps[r] = <<>>
    BY <1>4, <1>6 DEF DefaultDependencies
  <2>2. Range(deps[r]) = {}
    BY <2>1 DEF Range
  <2>3. Closed({r})
    BY <1>3, <2>2 DEF Closed
  <2>4. {r} \in SUBSET Values
    BY DEF Values
  <2> QED
    BY <1>2, <1>6, <2>3, <2>4 DEF Reached
<1> QED
  BY <1>5, <1>6

LEMMA OrderedPlanMeetsPrerequisites == IInv /\ ReportInOrder => PlanMeetsPrerequisites
<1> SUFFICES ASSUME IInv, ReportInOrder, ProductDependencies, Len(roots) = 1,
                    status = "planned", "recommendation" \in Range(ordered)
             PROVE  /\ "risk" \in Range(ordered)
                    /\ \A i, j \in 1..4 : \A k, l \in DOMAIN ordered :
                          i < j /\ ordered[k] = ReportSources[i] /\ ordered[l] = ReportSources[j]
                          => k < l
  BY DEF PlanMeetsPrerequisites
<1>1. TypeOK /\ VisitedIsOrdered /\ PlanIsTopological /\ ReturnedPlan
  BY DEF IInv
<1>2. ordered \in Seq(Executable) /\ DOMAIN ordered = 1..Len(ordered) /\ Len(ordered) \in Nat
  BY <1>1, LenProperties DEF TypeOK
<1> DEFINE r == roots[1]
<1>3. roots = <<r>> /\ r \in Executable /\ r \in Routes
  <2>1. roots \in Seq(Values) /\ DOMAIN roots = 1..1
    BY <1>1, LenProperties DEF TypeOK
  <2>2. roots = <<r>>
    BY <2>1
  <2>3. r \in Range(roots)
    BY <2>1 DEF Range
  <2> QED
    BY <1>1, <2>2, <2>3 DEF ReturnedPlan, TypeOK, ProductDependencies
<1>4. ASSUME NEW l \in 1..Len(ordered), ordered[l] = "recommendation"
      PROVE  \E k \in 1..(l - 1) : ordered[k] = "risk"
  <2>1. "recommendation" \in Executable
    BY <1>2, <1>4, ElementOfSeq
  <2>2. deps["recommendation"] = <<"risk">>
    BY <2>1 DEF ProductDependencies, DefaultDependencies, Routes
  <2>3. Range(deps["recommendation"]) = {"risk"}
    BY <2>2 DEF Range
  <2>4. Range(deps[ordered[l]]) \subseteq {ordered[k] : k \in 1..(l - 1)}
    BY <1>1, <1>2 DEF PlanIsTopological
  <2>5. "risk" \in {ordered[k] : k \in 1..(l - 1)}
    BY <1>4, <2>3, <2>4
  <2> QED
    BY <2>5
<1>5. "risk" \in Range(ordered)
  <2>1. PICK l \in 1..Len(ordered) : ordered[l] = "recommendation"
    BY <1>2 DEF Range
  <2>2. PICK k \in 1..(l - 1) : ordered[k] = "risk"
    BY <1>4, <2>1
  <2>3. k \in 1..Len(ordered)
    BY <1>2
  <2> QED
    BY <1>2, <2>2, <2>3 DEF Range
<1>6. ASSUME NEW i \in 1..4, NEW j \in 1..4,
             NEW k \in DOMAIN ordered, NEW l \in DOMAIN ordered,
             i < j, ordered[k] = ReportSources[i], ordered[l] = ReportSources[j]
      PROVE  k < l
  <2>1. CASE r = "reporting"
    <3>1. Len(ordered) <= 5 /\ ordered[k] = ReportPlan[k] /\ ordered[l] = ReportPlan[l]
      BY <1>2, <1>3, <2>1 DEF ReportInOrder
    <3>2. k \in 1..5 /\ l \in 1..5
      BY <1>2, <3>1
    <3>3. \A a \in 1..5, b \in 1..4 : ReportPlan[a] = ReportSources[b] => a = b
      BY DEF ReportPlan, ReportSources
    <3> QED
      BY <1>6, <3>1, <3>2, <3>3
  <2>2. CASE r # "reporting"
    <3>1. r = "recommendation" /\ Range(ordered) \subseteq {"recommendation", "risk"}
      BY <1>3, <2>2, OtherPlansAreSmall
    <3>2. ordered[k] \in {"recommendation", "risk"} /\ ordered[l] \in {"recommendation", "risk"}
      BY <3>1 DEF Range
    <3>3. ordered[k] = "risk" /\ ordered[l] = "recommendation"
      BY <1>6, <3>2 DEF ReportSources
    <3>4. PICK m \in 1..(l - 1) : ordered[m] = "risk"
      BY <1>2, <1>4, <3>3
    <3>5. m \in DOMAIN ordered /\ m < l
      BY <1>2, <3>4
    <3>6. m = k
      BY <1>1, <3>3, <3>4, <3>5 DEF VisitedIsOrdered, IsInjective
    <3> QED
      BY <3>5, <3>6
  <2> QED
    BY <2>1, <2>2
<1> QED
  BY <1>5, <1>6

-----------------------------------------------------------------------------
(* Every step of the traversal keeps stack, visited set and plan well      *)
(* formed: only executable routes are entered or planned (visit).          *)
THEOREM TypeCorrect == Spec => []TypeOK
<1>1. IInv => TypeOK
  BY DEF IInv
<1> QED
  BY Inductive, <1>1, PTL

(* Every plan, and every part of one, lists a route after all the routes   *)
(* whose results it reads (visit).                                         *)
THEOREM PlansAreTopological == Spec => []PlanIsTopological
<1>1. IInv => PlanIsTopological
  BY DEF IInv
<1> QED
  BY Inductive, <1>1, PTL

(* A plan is exactly what the request needs, each route once (resolve).    *)
THEOREM PlansAreClosures == Spec => []PlanIsClosure
<1>1. IInv => PlanIsClosure
  BY PlannedIsReached DEF IInv, VisitedIsOrdered, PlanIsClosure
<1> QED
  BY Inductive, <1>1, PTL

(* `visit` recurses along one chain of distinct routes (visiting).         *)
THEOREM VisitingIsAChain == Spec => []VisitingIsChain
<1>1. IInv => VisitingIsChain
  BY DEF IInv
<1> QED
  BY Inductive, <1>1, PTL

(* `resolve` returns a plan if and only if one exists: it never refuses a  *)
(* request that can be planned and never plans one that cannot.            *)
THEOREM PlansAreFound == Spec => []PlannedIffPossible
<1>1. IInv => PlannedIffPossible
  BY PlannedIsPlannable DEF IInv, RefusedIsUnplannable, PlannedIffPossible
<1> QED
  BY Inductive, <1>1, PTL

(* The status of a refusal names a defect that the request really has: a   *)
(* root or dependency at fault is among the routes it asks for (visit).    *)
THEOREM RefusalsAreTrue == Spec => []RefusalIsTrue
<1>1. Init => RefusalIsTrue
  BY DEF Init, RefusalIsTrue
<1> QED
  BY Inductive, <1>1, TruthIsInductive, PTL DEF Spec

(* With the dependencies of the product, the plan for a selected route     *)
(* meets what _validate_prerequisites demands before a recommendation.     *)
THEOREM PrerequisitesAreMet == Spec => []PlanMeetsPrerequisites
<1>1. Init => ReportInOrder
  BY DEF Init, ReportInOrder
<1>2. Spec => []ReportInOrder
  BY Inductive, <1>1, ReportInOrderIsInductive, PTL DEF Spec
<1> QED
  BY Inductive, <1>2, OrderedPlanMeetsPrerequisites, PTL
=============================================================================
