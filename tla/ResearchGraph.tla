--------------------------- MODULE ResearchGraph ----------------------------
(***************************************************************************)
(* The analysis of a research snapshot (research_state.rs): the graph of   *)
(* the nodes that are not superseded, its cycles and its order, the issues *)
(* that invalidate a route, and what is left to do for each active plan.   *)
(*                                                                         *)
(* A node is a number; smaller numbers come first in the stable order of   *)
(* rounds, plans and positions.  A snapshot s has s.target, s.active (a    *)
(* set of plans) and s.nodes, a function from nodes to records             *)
(*   [deps, status, plan, critical].                                       *)
(* Texts, identifiers, attempts and the digest are left out.               *)
(***************************************************************************)
EXTENDS Naturals, SequencesExt, FiniteSetsExt

IsActionable(status) == status \in {"open", "partial", "blocked"}

Live(s) == {n \in DOMAIN s.nodes : s.nodes[n].status # "superseded"}

Dependencies(s) == LET live == Live(s) IN [n \in live |-> s.nodes[n].deps \cap live]

Dependents(s) == LET live == Live(s) IN [n \in live |-> {m \in live : n \in s.nodes[m].deps}]

(* The live nodes that still name a superseded one.                        *)
SupersededSeeds(s) ==
    {e \in Live(s) \X (DOMAIN s.nodes \ Live(s)) : e[2] \in s.nodes[e[1]].deps}

StableOrder(S) == SetToSortSeq(S, <)

-----------------------------------------------------------------------------
(* The nodes whose dependencies can all come first, smallest ready first.  *)
RECURSIVE Emit(_, _, _, _)
Emit(order, remaining, ready, dependents) ==
    IF ready = {} THEN order
    ELSE LET n == Min(ready)
             left == [m \in DOMAIN remaining |->
                        IF m \in dependents[n] THEN remaining[m] - 1 ELSE remaining[m]]
         IN  Emit(Append(order, n), left,
                  (ready \ {n}) \cup {m \in dependents[n] : left[m] = 0}, dependents)

TopologicalOrder(s) ==
    LET dependencies == Dependencies(s)
        counts == [n \in Live(s) |-> Cardinality(dependencies[n])]
    IN  Emit(<<>>, counts, {n \in Live(s) : counts[n] = 0}, Dependents(s))

(* A depth-first visit: the nodes seen, and those left, in that order.     *)
RECURSIVE Visit(_, _, _)
Visit(walk, n, adjacency) ==
    IF n \in walk.seen THEN walk
    ELSE LET after == FoldLeft(LAMBDA w, m : Visit(w, m, adjacency),
                               [walk EXCEPT !.seen = @ \cup {n}], StableOrder(adjacency[n]))
         IN  [after EXCEPT !.left = Append(@, n)]

Unvisited == [seen |-> {}, left |-> <<>>]

IsCycle(c, dependencies) == Cardinality(c) > 1 \/ \E n \in c : n \in dependencies[n]

(* Two passes: the order in which the nodes are left along dependencies,   *)
(* then, last first, what each reaches along dependents.                   *)
CycleComponents(s) ==
    LET dependencies == Dependencies(s)
        dependents == Dependents(s)
        walk == FoldLeft(LAMBDA w, n : Visit(w, n, dependencies), Unvisited, StableOrder(Live(s)))
        Assign(acc, n) ==
            LET reached == Visit([seen |-> acc.assigned, left |-> <<>>], n, dependents).seen
            IN  [assigned |-> reached, components |-> acc.components \cup {reached \ acc.assigned}]
        split == FoldLeft(Assign, [assigned |-> {}, components |-> {}], Reverse(walk.left))
    IN  {c \in split.components \ {{}} : IsCycle(c, dependencies)}

RECURSIVE Closure(_, _, _)
Closure(result, pending, dependencies) ==
    IF pending \subseteq result THEN result
    ELSE Closure(result \cup pending,
                 UNION {dependencies[n] : n \in pending \cap DOMAIN dependencies}, dependencies)

DependencyClosure(n, s) == Closure({}, {n}, Dependencies(s))

-----------------------------------------------------------------------------
(* What makes a route unusable: the node it starts from and its cause.     *)
IssueSeeds(s) ==
    {<<n, [kind |-> "refuted_dependency", source |-> n]>> :
        n \in {m \in DOMAIN s.nodes : s.nodes[m].status = "refuted"}}
    \cup UNION {{<<n, [kind |-> "dependency_cycle", source |-> Min(c)]>> : n \in c} : c \in CycleComponents(s)}
    \cup {<<e[1], [kind |-> "superseded_dependency", source |-> e[2]]>> : e \in SupersededSeeds(s)}

RECURSIVE Spread(_, _, _)
Spread(issues, pending, dependents) ==
    IF pending \subseteq issues THEN issues
    ELSE Spread(issues \cup pending,
                UNION {dependents[i[1]] \X {i[2]} : i \in pending \ issues}, dependents)

RouteIssues(s) == Spread({}, IssueSeeds(s), Dependents(s))

InvalidNodes(s) == {i[1] : i \in RouteIssues(s)}

Solved(s, n) == s.nodes[n].status = "route_solved"

ActionableNodes(s) ==
    LET dependencies == Dependencies(s) IN
    {n \in Live(s) \ InvalidNodes(s) :
        /\ IsActionable(s.nodes[n].status)
        /\ n = s.target => s.active = {}
        /\ \A d \in dependencies[n] : Solved(s, d)}

PlanNodes(s, p) == {n \in Live(s) : s.nodes[n].plan = p}

(* The first node of the plan stands for it.                               *)
GoalsFirst(s, p) == IF PlanNodes(s, p) = {} THEN {} ELSE {Min(PlanNodes(s, p))}

(* The candidates no other candidate depends on, or else the whole plan.   *)
Goals(s, p) ==
    LET declared == {n \in PlanNodes(s, p) : s.nodes[n].critical}
        candidates == IF declared = {} THEN PlanNodes(s, p) ELSE declared
        dependents == Dependents(s)
        goals == {n \in candidates : dependents[n] \cap candidates = {}}
    IN  IF goals = {} THEN PlanNodes(s, p) ELSE goals

PlanRoute(s, p) ==
    LET goals == Goals(s, p)
        critical == UNION {DependencyClosure(g, s) : g \in goals}
        invalid == critical \cap InvalidNodes(s)
        blockers == {n \in critical : ~Solved(s, n)}
    IN  [critical |-> critical, invalid |-> invalid, blockers |-> blockers,
         frontier |-> critical \cap ActionableNodes(s),
         route_solved |-> goals # {} /\ invalid = {} /\ blockers = {}]

CriticalNodes(s) ==
    DependencyClosure(s.target, s) \cup UNION {PlanRoute(s, p).critical : p \in s.active}

(* What may be worked on, what matters for the target or a plan first.     *)
Frontier(s) ==
    LET actionable == ActionableNodes(s)
        critical == actionable \cap CriticalNodes(s)
    IN  StableOrder(critical) \o StableOrder(actionable \ critical)

(* Whether project, unlike analyze, accepts the snapshot.                  *)
Projects(s) == CycleComponents(s) = {}

(* The checks on a snapshot before its analysis.                           *)
ValidSnapshot(s) ==
    /\ \A n \in DOMAIN s.nodes : s.nodes[n].deps \subseteq DOMAIN s.nodes
    /\ s.target \in Live(s)
    /\ s.active \subseteq {s.nodes[n].plan : n \in Live(s)}
=============================================================================
