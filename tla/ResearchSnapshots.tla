------------------------- MODULE ResearchSnapshots --------------------------
(***************************************************************************)
(* Snapshots of two active plans that gain dependencies and findings one   *)
(* at a time, and what their analysis (ResearchGraph) must say of each.    *)
(* The graph of the nodes is arbitrary: analyze is also given cyclic ones. *)
(***************************************************************************)
EXTENDS ResearchGraph

CONSTANTS
    Lemmas,              \* the nodes of the plans, numbers above 1; 1 is the target
    MaxDependencies      \* bound: dependencies declared

VARIABLE snapshot

snapshotVars == <<snapshot>>

Node(plan, critical) == [deps |-> {}, status |-> "open", critical |-> critical, plan |-> plan]

(* Two plans are proposed: the last lemma is all of the second one.        *)
Adopt ==
    /\ snapshot.active = {}
    /\ \E critical \in {{}, Lemmas, {Min(Lemmas)}} :
        snapshot' = [snapshot EXCEPT !.active = {"p", "q"},
            !.nodes = @ @@ [n \in Lemmas |-> Node(IF n = Max(Lemmas) THEN "q" ELSE "p", n \in critical)]]

Declared == FoldSet(LAMBDA n, sum : sum + Cardinality(snapshot.nodes[n].deps), 0, DOMAIN snapshot.nodes)

Declare ==
    \E n, m \in DOMAIN snapshot.nodes \ {1} :
        /\ Declared < MaxDependencies
        /\ m \notin snapshot.nodes[n].deps
        /\ snapshot' = [snapshot EXCEPT !.nodes[n].deps = @ \cup {m}]

Conclude ==
    \E n \in DOMAIN snapshot.nodes \ {1} : \E status \in {"route_solved", "refuted", "superseded"} :
        /\ snapshot.nodes[n].status = "open"
        /\ snapshot' = [snapshot EXCEPT !.nodes[n].status = status]

SnapshotInit == snapshot = [target |-> 1, active |-> {}, nodes |-> 1 :> Node("none", FALSE)]

SnapshotNext == Adopt \/ Declare \/ Conclude

-----------------------------------------------------------------------------
(* The nodes a live node needs: the least set with what it names and with  *)
(* what each of its members names.                                         *)
Named(n) == snapshot.nodes[n].deps \cap Live(snapshot)

Below == [n \in Live(snapshot) |->
            {m \in Live(snapshot) : \A S \in SUBSET Live(snapshot) :
                (Named(n) \subseteq S /\ \A k \in S : Named(k) \subseteq S) => m \in S}]

OnCycle == {n \in Live(snapshot) : n \in Below[n]}

(* The reported cycles are the strongly connected parts of the graph, and  *)
(* the order lists exactly the nodes no cycle is below, dependencies first *)
(* (cycle_components, topological_order).                                  *)
CyclesAndOrderExact ==
    LET order == TopologicalOrder(snapshot)
        below == Below
        cyclic == OnCycle
    IN  /\ CycleComponents(snapshot) = {{m \in below[n] : n \in below[m]} : n \in cyclic}
        /\ IsInjective(order)
        /\ ToSet(order) = {n \in Live(snapshot) \ cyclic : below[n] \cap cyclic = {}}
        /\ \A i, j \in DOMAIN order : order[j] \in Named(order[i]) => j < i

(* A node is invalid exactly when it, or something it needs however far,   *)
(* is refuted, is on a cycle or names a superseded node, and each cause is *)
(* reported (route_issues).                                                *)
IssuesReachDependents ==
    LET below == Below
        seeds == IssueSeeds(snapshot)
    IN  RouteIssues(snapshot) =
            {<<n, i[2]>> : <<n, i>> \in {e \in Live(snapshot) \X seeds :
                                           e[2][1] = e[1] \/ e[2][1] \in below[e[1]]}}

(* A plan reported as solved rests on nothing unsolved, refuted, circular  *)
(* or superseded, and in a graph without cycles none of its critical nodes *)
(* is left out of its goals' closure (derive_plan_routes).                 *)
SolvedRoutesStand ==
    \A p \in snapshot.active :
        PlanRoute(snapshot, p).route_solved =>
            LET base == IF Projects(snapshot)
                          THEN {n \in PlanNodes(snapshot, p) : snapshot.nodes[n].critical}
                          ELSE {}
                rests == base \cup PlanRoute(snapshot, p).critical
                below == Below
            IN  \A n \in rests : \A m \in {n} \cup below[n] :
                    /\ Solved(snapshot, m)
                    /\ m \notin below[m]
                    /\ snapshot.nodes[m].deps \subseteq Live(snapshot)

(* Advice never runs dry: a plan that is neither solved nor invalid has a  *)
(* node to work on (actionable_frontier, derive_plan_routes).              *)
UnsolvedPlansHaveWork ==
    \A p \in snapshot.active :
        LET route == PlanRoute(snapshot, p)
        IN  (PlanNodes(snapshot, p) # {} /\ ~route.route_solved /\ route.invalid = {}) => route.frontier # {}
=============================================================================
