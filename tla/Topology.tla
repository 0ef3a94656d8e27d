------------------------------ MODULE Topology ------------------------------
(***************************************************************************)
(* The shapes of the multi-agent profiles.  Each profile is written three  *)
(* times in the code: as a plan for the workflow engine                    *)
(* (workflow/planner.py), as a graph for the panel (agents/graph.py) and   *)
(* as stage specifications for the stage walker (agents/crews).            *)
(*                                                                         *)
(* A plan is its step ids in declared order, the dependencies of each and  *)
(* the retries of a step.  A graph is the stage of each node and its       *)
(* edges.  The stages are the agents in order, with stage and depends_on.  *)
(***************************************************************************)
EXTENDS Naturals, FiniteSets, SequencesExt

CONSTANT WorkerCount   \* worker_count, an argument of three builders

ASSUME TopologyAssumption == WorkerCount \in Nat

Plan(order, deps) == [order |-> order, deps |-> deps, retries |-> 1]

DeepResearchPlan ==
    Plan(<<"researcher", "analyst", "writer">>,
         [researcher |-> {}, analyst |-> {"researcher"}, writer |-> {"analyst"}])

ParallelResearchPlan ==
    LET order == <<"coordinator", "web-researcher", "kb-researcher", "analyst", "writer">>
    IN Plan(order, [s \in Range(order) |->
            CASE s = "coordinator" -> {}
              [] s \in {"web-researcher", "kb-researcher"} -> {"coordinator"}
              [] s = "analyst" -> {"web-researcher", "kb-researcher"}
              [] s = "writer" -> {"analyst"}])

DebatePlan ==
    LET order == <<"advocate-a", "advocate-b", "judge">>
    IN Plan(order, [s \in Range(order) |->
            IF s = "judge" THEN {"advocate-a", "advocate-b"} ELSE {}])

WriteReviewPlan ==
    Plan(<<"drafter", "reviewer", "finalizer">>,
         [drafter |-> {}, reviewer |-> {"drafter"}, finalizer |-> {"reviewer"}])

\* _clamp_workers: at least one worker, at most six.
ClampWorkers(n) == Max({1, Min({6, n})})
Workers ==
    SubSeq(<<"worker-1", "worker-2", "worker-3", "worker-4", "worker-5", "worker-6">>,
           1, ClampWorkers(WorkerCount))

TaskDecompositionPlan ==
    LET order == <<"decomposer">> \o Workers \o <<"integrator">>
    IN Plan(order, [s \in Range(order) |->
            CASE s = "decomposer" -> {}
              [] s = "integrator" -> Range(Workers)
              [] OTHER -> {"decomposer"}])

DeepResearchGraph ==
    [stage |-> [researcher |-> 0, analyst |-> 1, writer |-> 2],
     edges |-> {<<"researcher", "analyst">>, <<"analyst", "writer">>}]

ParallelResearchGraph ==
    LET lanes == {"web-researcher", "kb-researcher"}
    IN [stage |-> [s \in {"coordinator", "analyst", "writer"} \cup lanes |->
                      CASE s = "coordinator" -> 0 [] s \in lanes -> 1
                        [] s = "analyst" -> 2     [] s = "writer" -> 3],
        edges |-> ({"coordinator"} \X lanes) \cup (lanes \X {"analyst"})
                     \cup {<<"analyst", "writer">>}]

DebateGraph ==
    LET sides == {"advocate-a", "advocate-b"}
    IN [stage |-> [s \in sides \cup {"judge"} |-> IF s = "judge" THEN 1 ELSE 0],
        edges |-> sides \X {"judge"}]

WriteReviewGraph ==
    [stage |-> [drafter |-> 0, reviewer |-> 1, finalizer |-> 2],
     edges |-> {<<"drafter", "reviewer">>, <<"reviewer", "finalizer">>}]

TaskDecompositionGraph ==
    LET ws == Range(Workers)
    IN [stage |-> [s \in {"decomposer", "integrator"} \cup ws |->
                      CASE s = "decomposer" -> 0 [] s = "integrator" -> 2 [] OTHER -> 1],
        edges |-> ({"decomposer"} \X ws) \cup (ws \X {"integrator"})]

\* A StageSpec, as far as the walker reads it.
Spec1(id, stage, deps) == [id |-> id, stage |-> stage, deps |-> deps]

ResearchStages ==
    <<Spec1("researcher", 0, {}), Spec1("analyst", 1, {"researcher"}),
      Spec1("writer", 2, {"analyst"})>>

ParallelResearchStages ==
    <<Spec1("coordinator", 0, {}),
      Spec1("web-researcher", 1, {"coordinator"}), Spec1("kb-researcher", 1, {"coordinator"}),
      Spec1("analyst", 2, {"web-researcher", "kb-researcher"}),
      Spec1("writer", 3, {"analyst"})>>

DebateStages ==
    <<Spec1("advocate-a", 0, {}), Spec1("advocate-b", 0, {}),
      Spec1("judge", 1, {"advocate-a", "advocate-b"})>>

WriteReviewStages ==
    <<Spec1("drafter", 0, {}), Spec1("reviewer", 1, {"drafter"}),
      Spec1("finalizer", 2, {"reviewer"})>>

TaskDecompositionStages ==
    <<Spec1("decomposer", 0, {})>>
      \o [i \in DOMAIN Workers |-> Spec1(Workers[i], 1, {"decomposer"})]
      \o <<Spec1("integrator", 2, Range(Workers))>>

-----------------------------------------------------------------------------
(***************************************************************************)
(* topology_for: the declaration of a profile names its three builders.    *)
(***************************************************************************)
PlanFor(profile) ==
    CASE profile = "deep_research"      -> DeepResearchPlan
      [] profile = "parallel_research"  -> ParallelResearchPlan
      [] profile = "debate"             -> DebatePlan
      [] profile = "write_review"       -> WriteReviewPlan
      [] profile = "task_decomposition" -> TaskDecompositionPlan

GraphFor(profile) ==
    CASE profile = "deep_research"      -> DeepResearchGraph
      [] profile = "parallel_research"  -> ParallelResearchGraph
      [] profile = "debate"             -> DebateGraph
      [] profile = "write_review"       -> WriteReviewGraph
      [] profile = "task_decomposition" -> TaskDecompositionGraph

StagesFor(profile) ==
    CASE profile = "deep_research"      -> ResearchStages
      [] profile = "parallel_research"  -> ParallelResearchStages
      [] profile = "debate"             -> DebateStages
      [] profile = "write_review"       -> WriteReviewStages
      [] profile = "task_decomposition" -> TaskDecompositionStages

-----------------------------------------------------------------------------
(***************************************************************************)
(* A plan the planner accepts: ids without repetition, dependencies        *)
(* declared, no cycle.  A plan has no cycle when its steps can be numbered *)
(* so that every step comes after what it depends on.                      *)
(***************************************************************************)
ValidPlan(p) ==
    LET ids == Range(p.order)
    IN /\ p.order # <<>> /\ Cardinality(ids) = Len(p.order)
       /\ \A s \in ids : p.deps[s] \subseteq ids
       /\ \E rank \in [ids -> 1..Len(p.order)] :
             \A s \in ids : \A d \in p.deps[s] : rank[d] < rank[s]

\* _stage_depths: the length of the longest chain of dependencies.
Depths(p) ==
    LET depth[s \in Range(p.order)] ==
            IF p.deps[s] = {} THEN 0 ELSE 1 + Max({depth[d] : d \in p.deps[s]})
    IN depth

\* graph_from_plan: nodes, stages and edges are those of the plan.
GraphFromPlan(p) ==
    [stage |-> Depths(p),
     edges |-> UNION {p.deps[s] \X {s} : s \in Range(p.order)}]

\* Everything a step rests on, directly or not.
Ancestors(p) ==
    LET up[s \in Range(p.order)] == p.deps[s] \cup UNION {up[d] : d \in p.deps[s]}
    IN up

\* _downstream_closure: what depends on one of roots, directly or not.
DownstreamClosure(p, roots) ==
    {s \in Range(p.order) : Ancestors(p)[s] \cap roots # {}} \ roots

\* The stage numbers of the walker, and the specs of one stage.
StageNumbers(profile) == {sp.stage : sp \in Range(StagesFor(profile))}
StageGroup(profile, n) == {sp \in Range(StagesFor(profile)) : sp.stage = n}

=============================================================================
