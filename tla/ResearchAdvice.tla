--------------------------- MODULE ResearchAdvice ---------------------------
(***************************************************************************)
(* The advice shown with the research state (advice.rs): the first of an   *)
(* ordered list of rules that the state and the attempts match.  Node 2    *)
(* and then 3 are a plan, 4 is another; an attempt is what the records of  *)
(* ResearchRecords are normalized to and leaves its node in a status.      *)
(***************************************************************************)
EXTENDS ResearchGraph

CONSTANT MaxTries        \* bound: attempts

VARIABLE tries, statuses, advice

adviceVars == <<tries, statuses, advice>>

Explored(marks) ==
    [target |-> 1, active |-> {"p", "q"},
     nodes |-> [n \in 1..4 |->
        [deps |-> IF n = 3 THEN {2} ELSE {}, status |-> marks[n], critical |-> n # 1,
         plan |-> CASE n = 1 -> "none" [] n = 4 -> "q" [] OTHER -> "p"]]]

On(made, n, method) == {i \in DOMAIN made : made[i].node = n /\ made[i].method = method}

Touched(made, n) == \E i \in DOMAIN made : made[i].node = n

Advice(rule, n) == [rule |-> rule, focus |-> n]

(* What the rules read of the analysis.                                    *)
Analysis(s) ==
    [routes |-> {PlanRoute(s, p) : p \in s.active}, critical |-> CriticalNodes(s),
     frontier |-> Frontier(s), statuses |-> [n \in DOMAIN s.nodes |-> s.nodes[n].status]]

Blockers(state) == {n \in state.critical : state.statuses[n] # "route_solved"}

RouteSolved(state) ==
    state.statuses[1] = "route_solved" \/ \E r \in state.routes : r.route_solved

(* A refuted claim matters only when no plan is left without an issue.     *)
RefutedNoWayOut(state) ==
    {n \in state.critical : state.statuses[n] = "refuted" /\ \A r \in state.routes : r.invalid # {}}

(* Asks for a counterexample again after one was tried.                     *)
NeedsCounterexampleAgain(state, made) ==
    {n \in Blockers(state) :
        Cardinality({i \in On(made, n, "direct") : made[i].outcome = "failed"}) >= 2}

NeedsCounterexample(state, made) ==
    {n \in Blockers(state) :
        /\ Cardinality({i \in On(made, n, "direct") : made[i].outcome = "failed"}) >= 2
        /\ On(made, n, "counterexample") = {}}

NeedsSource(state, made) ==
    {n \in Blockers(state) :
        /\ \E i \in DOMAIN made : made[i].node = n /\ made[i].obstruction = "missing_reference"
        /\ On(made, n, "retrieval") = {}}

(* The last retrievals, of whatever node, that brought nothing new.        *)
Barren(made) ==
    LET retrievals == SelectSeq(made, LAMBDA a : a.method = "retrieval")
        run == {i \in DOMAIN retrievals :
                    \A j \in i..Len(retrievals) : retrievals[j].outcome = "inconclusive"}
    IN  IF Cardinality(run) >= 2 THEN {retrievals[Min(run)].node} ELSE {}

(* The frontier lists what is critical first.                              *)
Untouched(state, made) ==
    {n \in Range(state.frontier) \cap state.critical : ~Touched(made, n)}

PartlyDone(state, made) ==
    {n \in Blockers(state) :
        /\ state.statuses[n] = "partial"
        /\ Cardinality({i \in DOMAIN made : /\ made[i].node = n /\ made[i].method # "retrieval"
                                            /\ made[i].outcome = "progress"}) >= 2}

(* ResearchAdvisory::select: the rules in their order, each with the nodes *)
(* it matches; the first of them is the focus.                             *)
Select(state, made) ==
    LET rules == <<
            Advice("assemble", IF RouteSolved(state) THEN {1} ELSE {}),
            Advice("replan_refuted", RefutedNoWayOut(state)),
            Advice("test_counterexample", NeedsCounterexample(state, made)),
            Advice("retrieve_focused", NeedsSource(state, made)),
            Advice("stop_retrieval", Barren(made)),
            Advice("screen_frontier", Untouched(state, made)),
            Advice("consolidate", PartlyDone(state, made)),
            Advice("review_state", Blockers(state))>>
        first == rules[Min({i \in DOMAIN rules : rules[i].focus # {}})]
    IN  Advice(first.rule, Min(first.focus))

-----------------------------------------------------------------------------
Try(n, m, o, b) == [node |-> n, method |-> m, outcome |-> o, obstruction |-> b]

(* What one attempt leaves of the status of its node.                      *)
After(s, a) ==
    CASE s = "refuted" \/ a.outcome = "refuted" -> "refuted"
      [] s # "refuted" /\ a.outcome = "route_solved" -> "route_solved"
      [] OTHER -> IF s = "route_solved" \/ a.method \in {"retrieval", "counterexample"} THEN s
                  ELSE IF a.outcome = "progress" THEN "partial" ELSE "blocked"

AttemptKinds ==
    {<<"direct", "failed", "no_progress">>, <<"direct", "failed", "missing_reference">>,
     <<"direct", "progress", "none">>, <<"direct", "route_solved", "none">>,
     <<"counterexample", "refuted", "false_claim">>, <<"counterexample", "inconclusive", "none">>,
     <<"retrieval", "progress", "none">>, <<"retrieval", "inconclusive", "no_progress">>}

(* Retrieval and probes may be about the target; proofs are of the nodes.  *)
Attempt ==
    /\ Len(tries) < MaxTries
    /\ \E n \in 1..4 : \E k \in AttemptKinds :
        \E marks \in {[statuses EXCEPT ![n] = After(@, Try(n, k[1], k[2], k[3]))]} :
        \E state \in {Analysis(Explored(marks))} :
            /\ n = 1 => k[1] # "direct"
            /\ tries' = Append(tries, Try(n, k[1], k[2], k[3]))
            /\ statuses' = marks
            /\ advice' = Select(state, Append(tries, Try(n, k[1], k[2], k[3])))

AdviceInit ==
    /\ tries = <<>>
    /\ statuses = [n \in 1..4 |-> "open"]
    /\ advice = Select(Analysis(Explored(statuses)), tries)

AdviceNext == Attempt

-----------------------------------------------------------------------------
(* An attempt of the kind each rule asks for.                              *)
Follows(a) ==
    /\ a.node = advice.focus
    /\ \/ advice.rule = "test_counterexample" /\ a.method = "counterexample"
       \/ advice.rule = "retrieve_focused" /\ a.method = "retrieval"
       \/ advice.rule = "screen_frontier" /\ a.method = "direct"

(* A generator that does what it is told is not told the same again: each  *)
(* of these rules is answered by the attempt it asks for, whatever comes   *)
(* of it (ResearchAdvisory::select).                                       *)
FollowedAdviceMoves ==
    [][Len(tries') > Len(tries) /\ Follows(Last(tries')) => advice' # advice]_adviceVars

(* What is advised can be done: a claim to be screened is not waiting for  *)
(* another one, and nothing but a replan is advised once a node every plan *)
(* needs is refuted (untouched_actionable_critical_node,                   *)
(* refuted_without_viable_alternative).                                    *)
AdviceIsFeasible ==
    LET nodes == Explored(statuses).nodes
    IN  /\ advice.rule = "screen_frontier" =>
            \A d \in nodes[advice.focus].deps : statuses[d] = "route_solved"
        /\ (/\ statuses[1] # "route_solved"
            /\ \A p \in {"p", "q"} : \E n \in DOMAIN nodes : nodes[n].plan = p /\ statuses[n] = "refuted")
            => advice.rule = "replan_refuted"

(* The advice can be followed, and following it leads on                   *)
(* (ResearchAdvisory::select).                                             *)
AdviceSound ==
    /\ []AdviceIsFeasible
    /\ FollowedAdviceMoves
=============================================================================
