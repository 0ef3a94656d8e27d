----------------------- MODULE PlanExecution_proofs -------------------------
(***************************************************************************)
(* Theorems about a multi-agent run (PlanExecution): fresh inputs, the     *)
(* layer at which a cancel stops the run, and the panel of a finished run. *)
(*                                                                         *)
(* FreshInputs needs to know what a round of the engine rests on.  What is *)
(* retained is closed under dependencies (Ancestors and DownstreamClosure  *)
(* are fixed points), what runs has the present outputs of its             *)
(* dependencies, what is done is fresh (Rounds).  Across a crash the rows  *)
(* take over: in a first pass a current row says what its output was       *)
(* computed from (Saved), and rows of one plan and first passes rest on    *)
(* each other (Kept), so what they restore is fresh again.  For the walker *)
(* the steps below its stage are produced, the steps above untouched       *)
(* (Walked), which the stages of every profile allow: each step's          *)
(* dependencies are in lower stages (ProfilesStaged).                      *)
(*                                                                         *)
(* PanelSettles needs to know, step by step, what the panel has been told  *)
(* (Told): what is done is completed and handed on unless the budget is    *)
(* exhausted, so what starts finds its join complete and never waits; and, *)
(* before a life begins, what an earlier one left on it (Shown).           *)
(***************************************************************************)
EXTENDS PlanExecution, FiniteSetTheorems, WellFoundedInduction, SequenceTheorems, TLAPS

-----------------------------------------------------------------------------
(***************************************************************************)
(* Least and greatest elements.                                            *)
(***************************************************************************)

\* Every nonempty set of natural numbers has a least element.
LEMMA LeastNumber ==
    ASSUME NEW S, S \subseteq Nat, S # {}
    PROVE  \E x \in S : \A y \in S : x <= y
<1>1. PICK x \in S : \A y \in S : ~ (<<y, x>> \in OpToRel(<, Nat))
  BY NatLessThanWellFounded, WFMin
<1>2. \A y \in S : ~ (y < x)
  <2> SUFFICES ASSUME NEW y \in S, y < x PROVE FALSE
    OBVIOUS
  <2>1. <<y, x>> \in Nat \X Nat
    OBVIOUS
  <2>2. <<y, x>> \in OpToRel(<, Nat)
    BY <2>1 DEF OpToRel
  <2> QED BY <2>2, <1>1
<1> HIDE <1>1
<1> QED BY <1>2

\* A nonempty bounded set of natural numbers has a greatest element.
LEMMA GreatestNumber ==
    ASSUME NEW S, S \subseteq Nat, S # {}, NEW b \in Nat, \A x \in S : x <= b
    PROVE  \E x \in S : \A y \in S : y <= x
<1> DEFINE D == {n \in Nat : \E x \in S : n = b - x}
<1>1. D \subseteq Nat /\ D # {}
  <2>1. PICK x \in S : TRUE
    OBVIOUS
  <2>2. b - x \in D
    BY <2>1
  <2> QED BY <2>2
<1>2. PICK n \in D : \A k \in D : n <= k
  BY <1>1, LeastNumber
<1>3. PICK x \in S : n = b - x
  OBVIOUS
<1>4. ASSUME NEW y \in S PROVE y <= x
  <2>1. b - y \in D
    OBVIOUS
  <2> QED BY <2>1, <1>2, <1>3
<1> QED BY <1>4

-----------------------------------------------------------------------------
(***************************************************************************)
(* What a step rests on.                                                   *)
(***************************************************************************)

\* The recursive definition of Ancestors has a solution: the least set that contains
\* the dependencies of a step and those of its members.
LEMMA AncestorsExist ==
    ASSUME NEW p, \A s \in Range(p.order) : p.deps[s] \subseteq Range(p.order)
    PROVE  \E up : up = [s \in Range(p.order) |->
                            p.deps[s] \cup UNION {up[d] : d \in p.deps[s]}]
<1> DEFINE R == Range(p.order)
           Closed(C) == \A y \in C : p.deps[y] \subseteq C
           up == [s \in R |-> {x \in R : \A C \in SUBSET R :
                                  p.deps[s] \subseteq C /\ Closed(C) => x \in C}]
           new(s) == p.deps[s] \cup UNION {up[d] : d \in p.deps[s]}
<1>1. ASSUME NEW s \in R PROVE up[s] = new(s)
  <2>0. p.deps[s] \subseteq R
    OBVIOUS
  <2>1. ASSUME NEW d \in R, NEW x \in R
        PROVE  x \in up[d] <=> \A C \in SUBSET R : p.deps[d] \subseteq C /\ Closed(C) => x \in C
    OBVIOUS
  <2>2. \A d \in R : up[d] \subseteq R /\ p.deps[d] \subseteq up[d]
    OBVIOUS
  <2> HIDE DEF up
  <2>3. new(s) \subseteq up[s]
    <3>1. ASSUME NEW d \in p.deps[s], NEW x \in up[d] PROVE x \in up[s]
      <4>1. d \in R /\ x \in R
        BY <2>0, <2>2
      <4>2. ASSUME NEW C \in SUBSET R, p.deps[s] \subseteq C, Closed(C) PROVE x \in C
        <5>1. p.deps[d] \subseteq C
          BY <4>2
        <5> QED BY <2>1, <3>1, <4>1, <4>2, <5>1
      <4> QED BY <2>1, <4>1, <4>2
    <3> QED BY <2>2, <3>1
  <2>4. Closed(new(s))
    <3>1. ASSUME NEW y \in new(s), NEW z \in p.deps[y] PROVE z \in new(s)
      <4>1. CASE y \in p.deps[s]
        <5>1. y \in R /\ z \in up[y]
          BY <2>0, <2>2, <4>1, <3>1
        <5> QED BY <4>1, <5>1
      <4>2. ASSUME NEW d \in p.deps[s], y \in up[d] PROVE z \in up[d]
        <5>1. d \in R /\ y \in R /\ z \in R
          BY <2>0, <2>2, <4>2, <3>1
        <5>2. ASSUME NEW C \in SUBSET R, p.deps[d] \subseteq C, Closed(C) PROVE z \in C
          <6>1. y \in C
            BY <2>1, <4>2, <5>1, <5>2
          <6> QED BY <5>2, <6>1, <3>1
        <5> QED BY <2>1, <5>1, <5>2
      <4> QED BY <4>1, <4>2
    <3> QED BY <3>1
  <2>5. new(s) \in SUBSET R /\ p.deps[s] \subseteq new(s)
    BY <2>0, <2>2
  <2> HIDE DEF new
  <2>6. up[s] \subseteq new(s)
    <3>1. ASSUME NEW x \in up[s] PROVE x \in new(s)
      <4>1. x \in R
        BY <2>2
      <4> QED BY <2>1, <2>4, <2>5, <3>1, <4>1
    <3> QED BY <3>1
  <2> QED BY <2>3, <2>6
<1>2. up = [s \in R |-> new(s)]
  BY <1>1
<1> QED BY <1>2

LEMMA AncestorsEquation ==
    ASSUME NEW p, \A s \in Range(p.order) : p.deps[s] \subseteq Range(p.order),
           NEW s \in Range(p.order)
    PROVE  Ancestors(p)[s] = p.deps[s] \cup UNION {Ancestors(p)[d] : d \in p.deps[s]}
<1> DEFINE Sol(up) == up = [t \in Range(p.order) |->
                               p.deps[t] \cup UNION {up[d] : d \in p.deps[t]}]
<1>1. \E up : Sol(up)
  BY AncestorsExist
<1>2. Ancestors(p) = CHOOSE up : Sol(up)
  BY DEF Ancestors
<1> HIDE DEF Sol
<1>3. Sol(Ancestors(p))
  BY <1>1, <1>2
<1> QED BY <1>3 DEF Sol

\* What has to run again is closed: whoever depends on it runs again as well.
LEMMA AgainIsClosed ==
    ASSUME NEW p, \A s \in Range(p.order) : p.deps[s] \subseteq Range(p.order),
           NEW flagged, NEW s \in Range(p.order), NEW d \in p.deps[s],
           d \in flagged \cup DownstreamClosure(p, flagged)
    PROVE  s \in flagged \cup DownstreamClosure(p, flagged)
<1>1. d \in Range(p.order)
  OBVIOUS
<1>2. Ancestors(p)[s] = p.deps[s] \cup UNION {Ancestors(p)[x] : x \in p.deps[s]}
  BY AncestorsEquation
<1>3. d \in flagged \/ Ancestors(p)[d] \cap flagged # {}
  BY DEF DownstreamClosure
<1>4. Ancestors(p)[s] \cap flagged # {}
  <2>1. d \in Ancestors(p)[s] /\ Ancestors(p)[d] \subseteq Ancestors(p)[s]
    BY <1>2
  <2> QED BY <1>3, <2>1
<1> QED BY <1>4 DEF DownstreamClosure

\* What is taken over from checkpoints rests on itself.
LEMMA ReusableIsClosed ==
    ASSUME \A s \in Ids : plan.deps[s] \subseteq Ids,
           NEW found, found \subseteq Ids, NEW s \in Reusable(found)
    PROVE  s \in found /\ plan.deps[s] \subseteq Reusable(found)
<1>1. s \in found /\ s \in Ids /\ Ancestors(plan)[s] \subseteq found
  BY DEF Reusable
<1>2. Ancestors(plan)[s] = plan.deps[s] \cup UNION {Ancestors(plan)[d] : d \in plan.deps[s]}
  BY <1>1, AncestorsEquation DEF Ids
<1>3. ASSUME NEW d \in plan.deps[s] PROVE d \in Reusable(found)
  <2>1. d \in found /\ Ancestors(plan)[d] \subseteq found
    BY <1>1, <1>2
  <2> QED BY <2>1 DEF Reusable
<1> QED BY <1>1, <1>3

-----------------------------------------------------------------------------
(***************************************************************************)
(* The commands of people, drained one after the other.                    *)
(***************************************************************************)
Controls == [cancel : BOOLEAN, paused : BOOLEAN, gate : BOOLEAN]

LEMMA CommandTyped ==
    ASSUME NEW c \in Controls, NEW cmd \in Commands
    PROVE  /\ ApplyCommand(c, cmd) \in Controls
           /\ c.cancel => ApplyCommand(c, cmd).cancel
<1>1. CASE cmd = "pause"
  BY <1>1 DEF ApplyCommand, Controls
<1>2. CASE cmd = "resume"
  BY <1>2 DEF ApplyCommand, Controls
<1>3. CASE cmd = "cancel"
  BY <1>3 DEF ApplyCommand, Controls
<1>4. CASE cmd = "gate"
  BY <1>4 DEF ApplyCommand, Controls
<1> QED BY <1>1, <1>2, <1>3, <1>4 DEF Commands

\* One step of the fold over a set of positions.
Folded(c, g, s) == IF s = {} THEN c ELSE ApplyCommand(g[s \ {Max(s)}], cmds[Max(s)])

LEMMA LastPosition ==
    ASSUME NEW n \in Nat, NEW s, s \subseteq 1..n, s # {}
    PROVE  Max(s) \in s
<1>1. s \subseteq Nat /\ \A x \in s : x <= n
  OBVIOUS
<1>2. PICK x \in s : \A y \in s : y <= x
  BY <1>1, GreatestNumber
<1>3. \E z \in s : \A y \in s : z >= y
  BY <1>1, <1>2
<1> QED BY <1>3 DEF Max

\* The fold exists: the positions up to n have one, by the least n that has none.
LEMMA FoldExists ==
    ASSUME NEW c, cmds \in Seq(Commands)
    PROVE  \E g : g = [s \in SUBSET (DOMAIN cmds) |-> Folded(c, g, s)]
<1> DEFINE D == 1..Len(cmds)
           Upto(n) == \E g : g = [s \in SUBSET (1..n) |-> Folded(c, g, s)]
           Bad == {n \in Nat : n <= Len(cmds) /\ ~ Upto(n)}
<1>0. DOMAIN cmds = D /\ Len(cmds) \in Nat
  OBVIOUS
<1>1. Upto(0)
  <2> DEFINE g == [s \in SUBSET (1..0) |-> c]
  <2>1. \A s \in SUBSET (1..0) : Folded(c, g, s) = c
    BY DEF Folded
  <2>2. g = [s \in SUBSET (1..0) |-> Folded(c, g, s)]
    BY <2>1
  <2> HIDE DEF g
  <2> QED BY <2>2
<1>2. ASSUME NEW n \in Nat, Upto(n) PROVE Upto(n + 1)
  <2> DEFINE I == 1..n
             J == 1..n + 1
  <2>1. PICK g : g = [s \in SUBSET I |-> Folded(c, g, s)]
    BY <1>2
  <2> DEFINE h == [s \in SUBSET J |->
                     IF s \in SUBSET I THEN g[s]
                     ELSE ApplyCommand(g[s \ {n + 1}], cmds[n + 1])]
  <2>2. ASSUME NEW s \in SUBSET J PROVE h[s] = Folded(c, h, s)
    <3>1. CASE s \in SUBSET I
      <4>1. h[s] = g[s] /\ g[s] = Folded(c, g, s)
        BY <2>1, <3>1
      <4>2. CASE s = {}
        BY <4>1, <4>2 DEF Folded
      <4>3. CASE s # {}
        <5>1. s \ {Max(s)} \in SUBSET I /\ s \ {Max(s)} \in SUBSET J
          BY <3>1
        <5>2. h[s \ {Max(s)}] = g[s \ {Max(s)}]
          BY <5>1
        <5> QED BY <4>1, <4>3, <5>2 DEF Folded
      <4> QED BY <4>2, <4>3
    <3>2. CASE s \notin SUBSET I
      <4>1. n + 1 \in s
        <5>1. \A x \in J : x \in I \/ x = n + 1
          OBVIOUS
        <5> QED BY <3>2, <5>1
      <4>2. Max(s) \in s
        BY <4>1, LastPosition, n + 1 \in Nat
      <4>3. Max(s) = n + 1
        <5>1. s \subseteq Nat /\ \A x \in s : x <= n + 1
          OBVIOUS
        <5>2. \E z \in s : \A y \in s : z >= y
          BY <4>1, <5>1
        <5>3. Max(s) \in s /\ \A y \in s : Max(s) >= y
          BY <5>2 DEF Max
        <5>4. Max(s) \in Nat /\ Max(s) >= n + 1 /\ Max(s) <= n + 1
          BY <4>1, <5>1, <5>3
        <5> QED BY <5>4
      <4>4. s \ {n + 1} \in SUBSET I /\ s \ {n + 1} \in SUBSET J
        <5>1. \A x \in J : x \in I \/ x = n + 1
          OBVIOUS
        <5> QED BY <5>1
      <4>5. h[s \ {n + 1}] = g[s \ {n + 1}]
        BY <4>4
      <4>6. h[s] = ApplyCommand(g[s \ {n + 1}], cmds[n + 1])
        BY <3>2
      <4> QED BY <4>1, <4>3, <4>5, <4>6 DEF Folded
    <3> QED BY <3>1, <3>2
  <2>3. h = [s \in SUBSET J |-> Folded(c, h, s)]
    BY <2>2
  <2> HIDE DEF h
  <2> QED BY <2>3
<1> HIDE DEF Upto
<1>3. Bad = {}
  <2> SUFFICES ASSUME Bad # {} PROVE FALSE
    OBVIOUS
  <2>1. Bad \subseteq Nat
    OBVIOUS
  <2>2. PICK n \in Bad : \A k \in Bad : n <= k
    BY <2>1, LeastNumber
  <2>3. n # 0
    BY <1>1
  <2>4. n - 1 \in Nat /\ n - 1 \notin Bad /\ n - 1 <= Len(cmds)
    BY <1>0, <2>2, <2>3
  <2>5. Upto((n - 1) + 1)
    BY <1>2, <2>4
  <2> QED BY <2>2, <2>5
<1>4. Upto(Len(cmds))
  BY <1>0, <1>3
<1> QED BY <1>0, <1>4 DEF Upto

LEMMA DrainTyped ==
    ASSUME NEW c \in Controls, cmds \in Seq(Commands)
    PROVE  Drain(c) \in Controls
<1> DEFINE D == DOMAIN cmds
           Sol(g) == g = [s \in SUBSET D |-> Folded(c, g, s)]
           it == CHOOSE g : Sol(g)
<1>0. D = 1..Len(cmds) /\ Len(cmds) \in Nat
  OBVIOUS
<1>1. Drain(c) = it[D]
  BY DEF Drain, FoldLeft, MapThenFoldSet, Folded
<1>2. Sol(it)
  <2>1. \E g : Sol(g)
    BY FoldExists
  <2> HIDE DEF Sol
  <2> QED BY <2>1
<1> HIDE DEF it
<1>3. \A s \in SUBSET D : it[s] = Folded(c, it, s)
  BY <1>2
<1> DEFINE Good(n) == \A s \in SUBSET (1..n) : it[s] \in Controls
           Bad == {n \in Nat : n <= Len(cmds) /\ ~ Good(n)}
<1>4. Good(0)
  <2>1. ASSUME NEW s \in SUBSET (1..0) PROVE it[s] \in Controls
    <3>1. s = {}
      OBVIOUS
    <3> QED BY <1>3, <3>1 DEF Folded
  <2> QED BY <2>1
<1>5. ASSUME NEW n \in Nat, n + 1 <= Len(cmds), Good(n) PROVE Good(n + 1)
  <2> SUFFICES ASSUME NEW s \in SUBSET (1..n + 1) PROVE it[s] \in Controls
    OBVIOUS
  <2>1. CASE s = {}
    <3>1. s \in SUBSET D
      BY <2>1
    <3> QED BY <1>3, <2>1, <3>1 DEF Folded
  <2>2. CASE s # {}
    <3>1. s \subseteq Nat /\ \A x \in s : x <= n + 1
      OBVIOUS
    <3>2. PICK z \in s : \A y \in s : y <= z
      BY <2>2, <3>1, GreatestNumber, n + 1 \in Nat
    <3>3. Max(s) \in s /\ \A y \in s : Max(s) >= y
      <4>1. \E x \in s : \A y \in s : x >= y
        BY <3>1, <3>2
      <4> QED BY <4>1 DEF Max
    <3>4. s \ {Max(s)} \in SUBSET (1..n)
      <4>1. ASSUME NEW x \in s, x # Max(s) PROVE x \in 1..n
        <5> DEFINE b == Max(s)
        <5>1. b \in Nat /\ b <= n + 1 /\ b >= x /\ x # b
          BY <3>1, <3>3, <4>1
        <5>2. x \in Nat /\ 1 <= x
          OBVIOUS
        <5> HIDE DEF b
        <5> QED BY <5>1, <5>2
      <4> QED BY <4>1
    <3>5. s \in SUBSET D
      BY <1>0, <1>5
    <3>6. it[s] = ApplyCommand(it[s \ {Max(s)}], cmds[Max(s)])
      BY <1>3, <2>2, <3>5 DEF Folded
    <3>7. it[s \ {Max(s)}] \in Controls
      BY <1>5, <3>4
    <3>8. cmds[Max(s)] \in Commands
      BY <3>3, <3>5
    <3> QED BY <3>6, <3>7, <3>8, CommandTyped
  <2> QED BY <2>1, <2>2
<1> HIDE DEF Good
<1>6. Bad = {}
  <2> SUFFICES ASSUME Bad # {} PROVE FALSE
    OBVIOUS
  <2>1. Bad \subseteq Nat
    OBVIOUS
  <2>2. PICK n \in Bad : \A k \in Bad : n <= k
    BY <2>1, LeastNumber
  <2>3. n # 0
    BY <1>4
  <2>4. n - 1 \in Nat /\ n - 1 \notin Bad /\ n - 1 <= Len(cmds) /\ (n - 1) + 1 = n
    BY <1>0, <2>2, <2>3
  <2>5. Good((n - 1) + 1)
    BY <1>5, <2>2, <2>4
  <2> QED BY <2>2, <2>4, <2>5
<1>7. Good(Len(cmds))
  BY <1>0, <1>6
<1> QED BY <1>0, <1>1, <1>7 DEF Good

-----------------------------------------------------------------------------
(***************************************************************************)
(* The profiles: plan, stages and graph of each agree.                     *)
(***************************************************************************)
Staging(p, stages, edges) ==
    /\ DOMAIN p.deps = Range(p.order)
    /\ \A s \in Range(p.order) : p.deps[s] \subseteq Range(p.order)
    /\ \A s \in Range(p.order) : \E sp \in stages : sp.id = s
    /\ \A sp \in stages : sp.stage \in Nat /\ sp.id \in Range(p.order)
    /\ \A sp \in stages, sq \in stages :
          /\ sp.id = sq.id => sp.stage = sq.stage
          /\ sq.id \in p.deps[sp.id] => sq.stage < sp.stage
    /\ \A e \in edges : e[1] \in p.deps[e[2]]
    /\ stages # {}

LEMMA RangeOfThree ==
    ASSUME NEW a, NEW b, NEW c
    PROVE  Range(<<a, b, c>>) = {a, b, c}
<1>1. DOMAIN <<a, b, c>> = 1..3
  OBVIOUS
<1>2. \A i : i \in 1..3 <=> i = 1 \/ i = 2 \/ i = 3
  OBVIOUS
<1> QED BY <1>1, <1>2 DEF Range

LEMMA RangeOfFive ==
    ASSUME NEW a, NEW b, NEW c, NEW d, NEW e
    PROVE  Range(<<a, b, c, d, e>>) = {a, b, c, d, e}
<1>1. DOMAIN <<a, b, c, d, e>> = 1..5
  OBVIOUS
<1>2. \A i : i \in 1..5 <=> i = 1 \/ i = 2 \/ i = 3 \/ i = 4 \/ i = 5
  OBVIOUS
<1> QED BY <1>1, <1>2 DEF Range

LEMMA DeepResearchStaged ==
    Staging(DeepResearchPlan, Range(ResearchStages), DeepResearchGraph.edges)
<1>1. Range(DeepResearchPlan.order) = {"researcher", "analyst", "writer"}
  BY RangeOfThree DEF DeepResearchPlan, Plan
<1>2. Range(ResearchStages) = {Spec1("researcher", 0, {}), Spec1("analyst", 1, {"researcher"}),
                               Spec1("writer", 2, {"analyst"})}
  BY RangeOfThree DEF ResearchStages
<1>3. DeepResearchPlan.deps
        = [researcher |-> {}, analyst |-> {"researcher"}, writer |-> {"analyst"}]
  BY DEF DeepResearchPlan, Plan
<1> QED BY <1>1, <1>2, <1>3 DEF Staging, DeepResearchGraph, Spec1

LEMMA WriteReviewStaged ==
    Staging(WriteReviewPlan, Range(WriteReviewStages), WriteReviewGraph.edges)
<1>1. Range(WriteReviewPlan.order) = {"drafter", "reviewer", "finalizer"}
  BY RangeOfThree DEF WriteReviewPlan, Plan
<1>2. Range(WriteReviewStages) = {Spec1("drafter", 0, {}), Spec1("reviewer", 1, {"drafter"}),
                                  Spec1("finalizer", 2, {"reviewer"})}
  BY RangeOfThree DEF WriteReviewStages
<1>3. WriteReviewPlan.deps
        = [drafter |-> {}, reviewer |-> {"drafter"}, finalizer |-> {"reviewer"}]
  BY DEF WriteReviewPlan, Plan
<1> QED BY <1>1, <1>2, <1>3 DEF Staging, WriteReviewGraph, Spec1

LEMMA DebateStaged ==
    Staging(DebatePlan, Range(DebateStages), DebateGraph.edges)
<1>1. Range(DebatePlan.order) = {"advocate-a", "advocate-b", "judge"}
  BY RangeOfThree DEF DebatePlan, Plan
<1>2. Range(DebateStages) = {Spec1("advocate-a", 0, {}), Spec1("advocate-b", 0, {}),
                             Spec1("judge", 1, {"advocate-a", "advocate-b"})}
  BY RangeOfThree DEF DebateStages
<1>3. DebatePlan.deps = [s \in {"advocate-a", "advocate-b", "judge"} |->
                            IF s = "judge" THEN {"advocate-a", "advocate-b"} ELSE {}]
  BY RangeOfThree DEF DebatePlan, Plan
<1>4. DebateGraph.edges = {"advocate-a", "advocate-b"} \X {"judge"}
  BY DEF DebateGraph
<1> QED BY <1>1, <1>2, <1>3, <1>4 DEF Staging, Spec1

LEMMA ParallelResearchStaged ==
    Staging(ParallelResearchPlan, Range(ParallelResearchStages), ParallelResearchGraph.edges)
<1> DEFINE lanes == {"web-researcher", "kb-researcher"}
           ids == {"coordinator", "web-researcher", "kb-researcher", "analyst", "writer"}
<1>1. Range(ParallelResearchPlan.order) = ids
  BY RangeOfFive DEF ParallelResearchPlan, Plan
<1>2. Range(ParallelResearchStages)
        = {Spec1("coordinator", 0, {}), Spec1("web-researcher", 1, {"coordinator"}),
           Spec1("kb-researcher", 1, {"coordinator"}), Spec1("analyst", 2, lanes),
           Spec1("writer", 3, {"analyst"})}
  BY RangeOfFive DEF ParallelResearchStages
<1>3. ParallelResearchPlan.deps
        = [s \in ids |-> CASE s = "coordinator" -> {} [] s \in lanes -> {"coordinator"}
                           [] s = "analyst" -> lanes [] s = "writer" -> {"analyst"}]
  BY RangeOfFive DEF ParallelResearchPlan, Plan
<1>4. ParallelResearchGraph.edges = ({"coordinator"} \X lanes) \cup (lanes \X {"analyst"})
                                      \cup {<<"analyst", "writer">>}
  BY DEF ParallelResearchGraph
<1>5. /\ ParallelResearchPlan.deps["coordinator"] = {}
      /\ \A l \in lanes : ParallelResearchPlan.deps[l] = {"coordinator"}
      /\ ParallelResearchPlan.deps["analyst"] = lanes
      /\ ParallelResearchPlan.deps["writer"] = {"analyst"}
      /\ DOMAIN ParallelResearchPlan.deps = ids
  BY <1>3
<1>6. \A e \in ParallelResearchGraph.edges :
         e[1] \in ParallelResearchPlan.deps[e[2]]
  BY <1>4, <1>5
<1>7. \A s \in ids : ParallelResearchPlan.deps[s] \subseteq ids
  BY <1>5
<1>8. \A s \in ids : \E sp \in Range(ParallelResearchStages) : sp.id = s
  BY <1>2 DEF Spec1
<1>9. \A sp \in Range(ParallelResearchStages) : sp.stage \in Nat /\ sp.id \in ids
  BY <1>2 DEF Spec1
<1>10. \A sp \in Range(ParallelResearchStages), sq \in Range(ParallelResearchStages) :
          /\ sp.id = sq.id => sp.stage = sq.stage
          /\ sq.id \in ParallelResearchPlan.deps[sp.id] => sq.stage < sp.stage
  BY <1>2, <1>5 DEF Spec1
<1>11. Range(ParallelResearchStages) # {}
  BY <1>2
<1> QED BY <1>1, <1>5, <1>6, <1>7, <1>8, <1>9, <1>10, <1>11 DEF Staging

\* The names of the workers; SubSeq keeps the first few of them.
WorkerNames == {"worker-1", "worker-2", "worker-3", "worker-4", "worker-5", "worker-6"}

LEMMA WorkersNamed == Workers \in Seq(WorkerNames)
<1> DEFINE six == <<"worker-1", "worker-2", "worker-3", "worker-4", "worker-5", "worker-6">>
           low == Min({6, WorkerCount})
           k == ClampWorkers(WorkerCount)
<1>1. low \in {6, WorkerCount} /\ low <= 6
  <2>1. \E x \in {6, WorkerCount} : \A y \in {6, WorkerCount} : x <= y
    BY TopologyAssumption
  <2> QED BY <2>1, TopologyAssumption DEF Min
<1>2. k \in {1, low} /\ k <= 6 /\ k \in Nat
  <2>1. low \in Nat
    BY <1>1, TopologyAssumption
  <2>2. k = Max({1, low})
    BY DEF ClampWorkers
  <2> HIDE DEF low, k
  <2>3. \E x \in {1, low} : \A y \in {1, low} : x >= y
    BY <2>1
  <2>4. k \in {1, low}
    BY <2>2, <2>3 DEF Max
  <2> QED BY <1>1, <2>1, <2>4
<1> HIDE DEF k
<1>3. \A i \in 1..k : six[i] \in WorkerNames
  <2>1. ASSUME NEW i \in 1..k PROVE six[i] \in WorkerNames
    <3>1. i = 1 \/ i = 2 \/ i = 3 \/ i = 4 \/ i = 5 \/ i = 6
      BY <1>2
    <3> QED BY <3>1 DEF WorkerNames
  <2> QED BY <2>1
<1>4. k \in Int /\ 1 \in Int
  BY <1>2
<1> HIDE DEF six
<1>5. SubSeq(six, 1, k) \in Seq(WorkerNames)
  BY <1>3, <1>4, SubSeqProperties
<1>6. Workers = SubSeq(six, 1, k)
  BY DEF Workers, six, k
<1> QED BY <1>5, <1>6

LEMMA RangeOfOne ==
    ASSUME NEW a
    PROVE  Range(<<a>>) = {a}
<1>1. DOMAIN <<a>> = 1..1 /\ <<a>>[1] = a
  OBVIOUS
<1>2. \A i : i \in 1..1 <=> i = 1
  OBVIOUS
<1> QED BY <1>1, <1>2 DEF Range

\* One, some, and one more.
LEMMA RangeOfSandwich ==
    ASSUME NEW S, NEW a \in S, NEW w \in Seq(S), NEW b \in S
    PROVE  Range(<<a>> \o w \o <<b>>) = {a, b} \cup Range(w)
<1>1. <<a>> \in Seq(S) /\ <<b>> \in Seq(S)
  OBVIOUS
<1>2. <<a>> \o w \in Seq(S)
  BY <1>1, ConcatProperties
<1>3. Range((<<a>> \o w) \o <<b>>) = Range(<<a>> \o w) \cup Range(<<b>>)
  BY <1>1, <1>2, RangeConcatenation
<1>4. Range(<<a>> \o w) = Range(<<a>>) \cup Range(w)
  BY <1>1, RangeConcatenation
<1> QED BY <1>3, <1>4, RangeOfOne

LEMMA TaskDecompositionStaged ==
    Staging(TaskDecompositionPlan, Range(TaskDecompositionStages), TaskDecompositionGraph.edges)
<1> DEFINE W == Range(Workers)
           ids == {"decomposer", "integrator"} \cup W
           mid == [i \in DOMAIN Workers |-> Spec1(Workers[i], 1, {"decomposer"})]
           first == Spec1("decomposer", 0, {})
           last == Spec1("integrator", 2, W)
           R == Range(mid)
           deps == [s \in ids |-> CASE s = "decomposer" -> {} [] s = "integrator" -> W
                                    [] OTHER -> {"decomposer"}]
<1>0. W \subseteq WorkerNames
  BY WorkersNamed, RangeOfSeq DEF Range
<1>1. Range(<<"decomposer">> \o Workers \o <<"integrator">>) = ids
  <2>1. Workers \in Seq({"decomposer", "integrator"} \cup WorkerNames)
    BY WorkersNamed
  <2> QED BY <2>1, RangeOfSandwich
<1>2. /\ Range(TaskDecompositionPlan.order) = ids
      /\ TaskDecompositionPlan.deps = deps
  BY <1>1 DEF TaskDecompositionPlan, Plan
<1>3. Range(TaskDecompositionStages) = {first, last} \cup R
  <2> DEFINE S == {first, last} \cup R
  <2>1. DOMAIN Workers = 1..Len(Workers) /\ Len(Workers) \in Nat
    BY WorkersNamed
  <2>2. \A i \in 1..Len(Workers) : mid[i] \in S
    BY <2>1 DEF Range
  <2>3. mid \in Seq(S)
    <3>1. mid = [i \in 1..Len(Workers) |-> mid[i]]
      BY <2>1
    <3> HIDE DEF mid, S
    <3> QED BY <2>1, <2>2, <3>1
  <2> HIDE DEF S
  <2>4. first \in S /\ last \in S
    BY DEF S
  <2> HIDE DEF first, last, mid
  <2>5. Range(<<first>> \o mid \o <<last>>) = {first, last} \cup Range(mid)
    BY <2>3, <2>4, RangeOfSandwich
  <2>6. TaskDecompositionStages = <<first>> \o mid \o <<last>>
    BY DEF TaskDecompositionStages, first, last, mid
  <2> QED BY <2>5, <2>6
<1>4. \A sp \in R : sp.id \in W /\ sp.stage = 1
  BY DEF Range, Spec1
<1>5. \A s \in W : \E sp \in R : sp.id = s
  <2> SUFFICES ASSUME NEW s \in W PROVE \E sp \in R : sp.id = s
    OBVIOUS
  <2>1. PICK i \in DOMAIN Workers : Workers[i] = s
    BY DEF Range
  <2>2. mid[i] = Spec1(s, 1, {"decomposer"}) /\ mid[i] \in R
    BY <2>1 DEF Range
  <2>3. mid[i].id = s
    BY <2>2 DEF Spec1
  <2> QED BY <2>2, <2>3
<1>6. /\ first.id = "decomposer" /\ first.stage = 0
      /\ last.id = "integrator" /\ last.stage = 2
  BY DEF Spec1
<1>7. "decomposer" \notin W /\ "integrator" \notin W
  BY <1>0 DEF WorkerNames
<1>8. TaskDecompositionGraph.edges = ({"decomposer"} \X W) \cup (W \X {"integrator"})
  BY DEF TaskDecompositionGraph
<1> HIDE DEF W, R, first, last
<1>9. /\ deps["decomposer"] = {} /\ deps["integrator"] = W
      /\ \A s \in W : deps[s] = {"decomposer"}
      /\ DOMAIN deps = ids
  BY <1>7
<1> HIDE DEF deps
<1>10. \A e \in TaskDecompositionGraph.edges : e[1] \in deps[e[2]]
  BY <1>8, <1>9
<1>11. \A s \in ids : deps[s] \subseteq ids
  BY <1>9
<1>12. \A s \in ids : \E sp \in {first, last} \cup R : sp.id = s
  BY <1>5, <1>6
<1>13. \A sp \in {first, last} \cup R : sp.stage \in Nat /\ sp.id \in ids
  BY <1>4, <1>6
<1>14. \A sp \in {first, last} \cup R, sq \in {first, last} \cup R :
          /\ sp.id = sq.id => sp.stage = sq.stage
          /\ sq.id \in deps[sp.id] => sq.stage < sp.stage
  BY <1>4, <1>6, <1>7, <1>9
<1>15. {first, last} \cup R # {}
  OBVIOUS
<1> QED BY <1>2, <1>3, <1>9, <1>10, <1>11, <1>12, <1>13, <1>14, <1>15 DEF Staging

\* The plan, the stages and the graph of every profile agree.
LEMMA ProfilesStaged ==
    ASSUME NEW q \in Profiles
    PROVE  /\ Staging(PlanFor(q), Range(StagesFor(q)), GraphFor(q).edges)
           /\ Range(PlanFor(q).order) \subseteq StepNames
<1>0. Range(PlanFor(q).order) \subseteq StepNames
  BY DEF StepNames
<1>1. q \in {"deep_research", "parallel_research", "debate", "write_review",
             "task_decomposition"}
  BY PlanExecutionAssumption
<1>2. CASE q = "deep_research"
  BY <1>0, <1>2, DeepResearchStaged DEF PlanFor, StagesFor, GraphFor
<1>3. CASE q = "parallel_research"
  BY <1>0, <1>3, ParallelResearchStaged DEF PlanFor, StagesFor, GraphFor
<1>4. CASE q = "debate"
  BY <1>0, <1>4, DebateStaged DEF PlanFor, StagesFor, GraphFor
<1>5. CASE q = "write_review"
  BY <1>0, <1>5, WriteReviewStaged DEF PlanFor, StagesFor, GraphFor
<1>6. CASE q = "task_decomposition"
  BY <1>0, <1>6, TaskDecompositionStaged DEF PlanFor, StagesFor, GraphFor
<1> QED BY <1>1, <1>2, <1>3, <1>4, <1>5, <1>6

-----------------------------------------------------------------------------
(***************************************************************************)
(* The inductive invariant: the values of the variables.                   *)
(***************************************************************************)
NodeStatus == {"none", "pending", "waiting", "running", "completed", "failed", "cancelled"}
TaskStatus == {"wait", "paused", "running", "done", "failed"}
Phases == {"plan", "gate", "begin", "run", "verify", "clear", "fallback", "control", "paused",
           "group", "completed", "failed", "cancelled", "withdrawn"}
Budgets == {"left", "spent", "timedOut"}
Versions == UNION {[D -> Nat] : D \in SUBSET StepNames}
Observation == [v : Nat, from : Versions, empty : BOOLEAN]

\* A plan in use: every step depends on steps of the plan.
Sound(p) ==
    /\ DOMAIN p.deps = Range(p.order) /\ Range(p.order) \subseteq StepNames
    /\ \A s \in Range(p.order) : p.deps[s] \subseteq Range(p.order)

Types ==
    /\ profile \in Profiles /\ inline \in BOOLEAN /\ budget \in Budgets /\ clean \in BOOLEAN
    /\ phase \in Phases /\ path \in {"engine", "walker"}
    /\ Sound(plan)
    /\ task \in [Ids -> TaskStatus] /\ node \in [StepNames -> NodeStatus]
    /\ skip \subseteq Ids /\ reused \subseteq Ids /\ late \subseteq Ids /\ handed \subseteq Ids
    /\ inp \in [Ids -> Versions] /\ obs \in [Ids -> Observation]
    /\ ver \in [StepNames -> Nat]
    /\ replans \in Nat
    /\ ctl \in Controls /\ cmds \in Seq(Commands)

\* A checkpoint row: an output of a step of the plan it was saved under.
Rows ==
    /\ \A r \in ckpt : /\ r.step \in StepNames /\ r.step \in DOMAIN r.deps
                       /\ r.v \in Nat /\ 0 < r.v /\ r.v <= ver[r.step]
                       /\ r.from \in Versions /\ r.round \in Nat
                       /\ \A d \in DOMAIN r.from : r.from[d] <= ver[d]
    /\ \A s \in Ids : obs[s].v <= ver[s] /\ \A d \in DOMAIN inp[s] : inp[s][d] <= ver[d]

-----------------------------------------------------------------------------
(***************************************************************************)
(* Where the run is.                                                       *)
(***************************************************************************)
Early == {"plan", "gate", "begin"}
Pass  == {"run", "verify", "clear", "fallback"}
Walk  == {"control", "paused", "group"}

Where ==
    /\ path = "engine" => phase \in Early \cup Pass \cup {"completed", "cancelled", "withdrawn"}
    /\ path = "walker" => /\ phase \in {"gate", "begin"} \cup Walk \cup Final
                          /\ plan = PlanFor(profile) /\ ckpt = {} /\ clean

\* Nothing has happened in this life.
Blank ==
    phase \in Early => /\ late = {} /\ handed = {} /\ replans = 0
                       /\ \A s \in Ids : task[s] = "wait"

\* What the panel shows before a life begins: the walker's graph, nothing, or, on a
\* worker, what an earlier life left; a worker has not heard of any command yet.
Shown ==
    phase \in Early =>
       /\ path = "walker" => node = NewPanel(plan)
       /\ path = "engine" /\ inline => \A s \in StepNames : node[s] = "none"
       /\ path = "engine" /\ ~inline => ctl = NoControl

-----------------------------------------------------------------------------
(***************************************************************************)
(* Freshness.                                                              *)
(***************************************************************************)

\* The output of s was computed from the present outputs of its dependencies.
Fresh(s) == 0 < obs[s].v /\ \A d \in plan.deps[s] : obs[s].from[d] = obs[d].v

\* What starts has its dependencies done; a round that has ended has all steps done.
Ordered ==
    path = "engine" /\ phase \in Pass \cup {"completed"} =>
       /\ \A s \in Ids : task[s] \in {"paused", "running", "done"} =>
                            \A d \in plan.deps[s] : task[d] = "done"
       /\ phase \in {"verify", "clear", "completed"} => \A s \in Ids : task[s] = "done"
       /\ \A s \in skip : task[s] # "running"

\* A round: what is retained is fresh, what runs has the present inputs, what is done
\* is fresh.
Rounds ==
    path = "engine" /\ phase \in Pass \cup {"completed"} /\ clean =>
       /\ \A s \in skip : Fresh(s) /\ plan.deps[s] \subseteq skip
       /\ \A s \in Ids : task[s] = "running" => \A d \in plan.deps[s] : inp[s][d] = obs[d].v
       /\ \A s \in Ids : task[s] = "done" => Fresh(s)
       /\ replans = 0 => \A s \in Ids : 0 < obs[s].v => s \in skip \/ task[s] = "done"

\* The rows of a round: a row that is current says what its output was computed from;
\* an output that was overtaken by a later one has no row of the first round.
Saved ==
    path = "engine" /\ phase \in Pass /\ clean =>
       \A r \in ckpt :
          /\ r.deps = plan.deps
          /\ obs[r.step].v = r.v => \A d \in plan.deps[r.step] : r.from[d] = obs[r.step].from[d]
          /\ r.round = 0 /\ obs[r.step].v = r.v =>
                \A s \in Ids : r.step \in plan.deps[s] /\ 0 < obs[s].v => obs[s].from[r.step] = r.v

\* Between lives: rows of one plan and of first rounds rest on each other.
Kept ==
    phase \in Early /\ clean =>
       \A r \in ckpt, q \in ckpt :
          r.round = 0 /\ q.round = 0 /\ r.deps = q.deps /\ q.step \in r.deps[r.step] =>
             r.from[q.step] = q.v

-----------------------------------------------------------------------------
(***************************************************************************)
(* The cancel, the panel, the walker.                                      *)
(***************************************************************************)
Late ==
    /\ late # {} => ctl.cancel
    /\ CancelStopsNextLayer
    /\ phase = "run" /\ late # {} /\ (\E s \in Ids : task[s] = "paused") =>
          /\ \A s \in Ids : task[s] = "paused" => plan.deps[s] \cap late = {}
          /\ \A s \in late : \A d \in plan.deps[s] : task[d] = "done"
    /\ phase = "paused" => late = {}

\* A step of a round in which none has failed: its node is open; it is completed when
\* the step is done or retained, unless an exhausted budget swallowed the report;
\* it runs when the step does; a step held at a pause starts at once behind it.
Intact == \A s \in Ids : task[s] # "failed"
Open(s) == node[s] \notin {"failed", "cancelled", "waiting"}
Reported(s) ==
    task[s] = "done" \/ s \in skip \ reused =>
       \/ node[s] = "completed" /\ s \in handed
       \/ Exhausted /\ node[s] \in {"running", "completed"}
Begun(s) == task[s] = "running" => node[s] \in {"running", "completed"}
Waits(s) == task[s] = "paused" => JoinComplete(s)
Told(s) == Open(s) /\ Reported(s) /\ Begun(s) /\ Waits(s)

Panel ==
    /\ path = "engine" /\ phase \in {"run", "verify", "clear", "completed"} /\ Intact =>
          \A s \in Ids : Told(s)
    /\ path = "engine" /\ phase = "cancelled" => \A s \in Ids : node[s] \in Settled
    /\ path = "engine" /\ phase = "withdrawn" => \A s \in Ids : node[s] = "none"
    /\ path = "walker" /\ phase \in {"failed", "cancelled", "withdrawn"} =>
          \A s \in Ids : node[s] # "running"

\* The stage of a step, and what the walker has produced.
At(s, n) == \E sp \in StageGroup(profile, n) : sp.id = s
Produced(s) == task[s] = "done" /\ node[s] = "completed" /\ s \in handed /\ Fresh(s)
Untouched(s) == task[s] = "wait" /\ node[s] = "pending"
Underway(s) == /\ task[s] = "running" /\ node[s] = "running"
               /\ \A d \in plan.deps[s] : inp[s][d] = obs[d].v

Walked ==
    path = "walker" =>
       /\ phase \in Walk => /\ stage \in StageNumbers(profile)
                            /\ \A s \in Ids : \A n \in StageNumbers(profile) :
                                  At(s, n) => /\ n < stage => Produced(s)
                                              /\ n > stage => Untouched(s)
       /\ phase \in {"control", "paused"} => \A s \in Ids : At(s, stage) => Untouched(s)
       /\ phase = "group" => \A s \in Ids : At(s, stage) => Underway(s) \/ Produced(s)
       /\ phase = "completed" => \A s \in Ids : Produced(s)

Rest ==
    /\ Rows /\ Where /\ Blank /\ Shown /\ Ordered /\ Rounds /\ Saved /\ Kept /\ Late
    /\ Panel /\ Walked
IInv == Types /\ Rest

-----------------------------------------------------------------------------
(***************************************************************************)
(* Types are kept.                                                         *)
(***************************************************************************)
LEMMA StartTyped == << >> \in Versions /\ NoObs \in Observation
<1>1. << >> \in [{} -> Nat]
  OBVIOUS
<1>2. << >> \in Versions
  BY <1>1 DEF Versions
<1> QED BY <1>2 DEF NoObs, Observation

LEMMA PlansAreSound ==
    /\ profile \in Profiles => Sound(PlanFor(profile))
    /\ \A p \in AcceptedProposals : Sound(p)
<1>1. ASSUME profile \in Profiles PROVE Sound(PlanFor(profile))
  BY <1>1, ProfilesStaged DEF Sound, Staging
<1>2. ASSUME NEW p \in AcceptedProposals PROVE Sound(p)
  <2>1. p \in Proposals /\ ValidPlan(p)
    BY <1>2 DEF AcceptedProposals
  <2>2. DOMAIN p.deps = Range(p.order)
    BY <2>1, PlanExecutionAssumption
  <2>3. Range(p.order) \subseteq StepNames
    BY <2>1 DEF StepNames
  <2>4. \A s \in Range(p.order) : p.deps[s] \subseteq Range(p.order)
    BY <2>1 DEF ValidPlan
  <2> QED BY <2>2, <2>3, <2>4 DEF Sound
<1> QED BY <1>1, <1>2

\* What Types says of the variables that FreshSteps sets.
StepTypes ==
    /\ task \in [Ids -> TaskStatus]
    /\ skip \subseteq Ids /\ reused \subseteq Ids /\ late \subseteq Ids /\ handed \subseteq Ids
    /\ inp \in [Ids -> Versions] /\ obs \in [Ids -> Observation]

LEMMA FreshTyped ==
    ASSUME FreshSteps(plan')
    PROVE  StepTypes'
<1>1. Ids' = Range(plan'.order)
  BY DEF Ids
<1>2. task' = [s \in Ids' |-> "wait"] /\ skip' = {} /\ reused' = {}
      /\ inp' = [s \in Ids' |-> << >>] /\ obs' = [s \in Ids' |-> NoObs]
      /\ handed' = {} /\ late' = {}
  BY <1>1 DEF FreshSteps
<1>3. inp' \in [Ids' -> Versions] /\ obs' \in [Ids' -> Observation]
  BY <1>2, StartTyped
<1> QED BY <1>2, <1>3 DEF StepTypes, TaskStatus

LEMMA PanelTyped ==
    ASSUME Types, NEW s \in Ids, NEW n \in [StepNames -> NodeStatus]
    PROVE  /\ Started(n, s) \in [StepNames -> NodeStatus]
           /\ Completed(n, s) \in [StepNames -> NodeStatus]
           /\ NodeFails(n, s) \in [StepNames -> NodeStatus]
           /\ CancelRunning(n) \in [StepNames -> NodeStatus]
           /\ CancelUnfinished(n) \in [StepNames -> NodeStatus]
<1>1. Started(n, s) \in [StepNames -> NodeStatus]
  BY DEF Started, NodeStatus
<1>2. Completed(n, s) \in [StepNames -> NodeStatus]
  BY DEF Completed, NodeStatus
<1>3. NodeFails(n, s) \in [StepNames -> NodeStatus]
  BY DEF NodeFails, NodeStatus
<1>4. CancelRunning(n) \in [StepNames -> NodeStatus]
  BY DEF CancelRunning, NodeStatus
<1>5. CancelUnfinished(n) \in [StepNames -> NodeStatus]
  BY DEF CancelUnfinished, NodeStatus
<1> QED BY <1>1, <1>2, <1>3, <1>4, <1>5

LEMMA InputsTyped ==
    ASSUME Types, NEW s \in Ids
    PROVE  /\ Inputs(s) \in Versions
           /\ plan.deps[s] \subseteq Ids
           /\ DOMAIN Inputs(s) = plan.deps[s]
           /\ \A d \in plan.deps[s] : Inputs(s)[d] = obs[d].v
<1>1. plan.deps[s] \subseteq Ids /\ Ids \subseteq StepNames
  BY DEF Types, Sound, Ids
<1>2. \A d \in Ids : obs[d].v \in Nat
  BY DEF Types, Observation
<1>3. Inputs(s) \in [plan.deps[s] -> Nat]
  BY <1>1, <1>2 DEF Inputs
<1>4. plan.deps[s] \in SUBSET StepNames
  BY <1>1
<1>5. Inputs(s) \in Versions
  BY <1>3, <1>4 DEF Versions
<1> QED BY <1>1, <1>5 DEF Inputs

LEMMA InitTyped == Init => Types
<1> SUFFICES ASSUME Init PROVE Types
  OBVIOUS
<1>1. Sound(plan)
  BY PlansAreSound DEF Init
<1>2. inp \in [Ids -> Versions] /\ obs \in [Ids -> Observation]
  BY StartTyped DEF Init
<1>3. ver \in [StepNames -> Nat]
  BY DEF Init, NoVersions
<1>4. ctl \in Controls /\ cmds \in Seq(Commands)
  BY DEF Init, NoControl, Controls
<1>5. task \in [Ids -> TaskStatus] /\ node \in [StepNames -> NodeStatus]
  BY DEF Init, TaskStatus, NodeStatus
<1>6. budget \in Budgets
  BY DEF Init, Budgets
<1> QED BY <1>1, <1>2, <1>3, <1>4, <1>5, <1>6 DEF Init, Types, Phases

\* Actions that leave the steps and the plan alone.
QuietMove ==
    \/ GatePasses \/ GateTimesOut \/ GateCancels \/ Settle \/ Clear \/ WalkNext
    \/ Confirm \/ (\E cmd \in Commands : Send(cmd)) \/ TimeRunsOut \/ MoneyRunsOut

LEMMA QuietTyped ==
    ASSUME Types, QuietMove
    PROVE  Types'
<1>0. /\ UNCHANGED <<profile, inline, path, plan, clean, steps, panel>>
      /\ replans' = replans /\ Ids' = Ids /\ Sound(plan')
  BY DEF Types, QuietMove, GatePasses, GateTimesOut, GateCancels, Settle, Clear, WalkNext,
         Confirm, Send, TimeRunsOut, MoneyRunsOut, durable, Ids
<1>1. phase' \in Phases
  BY DEF Types, QuietMove, GatePasses, GateTimesOut, GateCancels, Settle, Clear, WalkNext,
         Confirm, Send, TimeRunsOut, MoneyRunsOut, Phases
<1>2. budget' \in Budgets
  BY DEF Types, QuietMove, GatePasses, GateTimesOut, GateCancels, Settle, Clear, WalkNext,
         Confirm, Send, TimeRunsOut, MoneyRunsOut, Budgets
<1>3. ctl' \in Controls /\ cmds' \in Seq(Commands)
  <2>1. CASE GatePasses
    BY <2>1 DEF Types, GatePasses, Controls, durable
  <2>2. CASE \E cmd \in Commands : Send(cmd)
    BY <2>2, CommandTyped DEF Types, Send
  <2>3. CASE \/ GateTimesOut \/ GateCancels \/ Settle \/ Clear \/ WalkNext \/ Confirm
             \/ TimeRunsOut \/ MoneyRunsOut
    BY <2>3 DEF Types, GateTimesOut, GateCancels, Settle, Clear, WalkNext, Confirm, TimeRunsOut,
                MoneyRunsOut, durable
  <2> QED BY <2>1, <2>2, <2>3 DEF QuietMove
<1> QED BY <1>0, <1>1, <1>2, <1>3 DEF Types, steps, panel

\* Actions that start a life, or the walker.
FreshMove == MakePlan \/ Fallback \/ Crash

LEMMA VersionsOfRows ==
    ASSUME Types, Rows, NEW s \in StepNames
    PROVE  /\ LastVersion(s) \in Nat
           /\ \A r \in ckpt : r.step = s => r.v <= LastVersion(s)
           /\ \A r \in ckpt : s \in DOMAIN r.from => r.from[s] <= LastVersion(s)
<1> DEFINE V == {0} \cup {r.v : r \in {q \in ckpt : q.step = s}}
                    \cup {r.from[s] : r \in {q \in ckpt : s \in DOMAIN q.from}}
<1>1. ASSUME NEW x \in V PROVE x \in Nat /\ x <= ver[s]
  <2>0. ver[s] \in Nat
    BY DEF Types
  <2>1. CASE x = 0
    BY <2>0, <2>1
  <2>2. ASSUME NEW r \in ckpt, r.step = s, x = r.v PROVE x \in Nat /\ x <= ver[s]
    BY <2>2 DEF Rows
  <2>3. ASSUME NEW r \in ckpt, s \in DOMAIN r.from, x = r.from[s]
        PROVE  x \in Nat /\ x <= ver[s]
    <3>1. r.from \in Versions
      BY DEF Rows
    <3>2. r.from[s] \in Nat
      BY <2>3, <3>1 DEF Versions
    <3> QED BY <2>3, <3>2 DEF Rows
  <2> QED BY <2>1, <2>2, <2>3
<1>2. V \subseteq Nat /\ V # {} /\ ver[s] \in Nat
  BY <1>1 DEF Types
<1>3. LastVersion(s) = Max(V)
  BY DEF LastVersion
<1>4. \A r \in ckpt : /\ r.step = s => r.v \in V
                      /\ s \in DOMAIN r.from => r.from[s] \in V
  OBVIOUS
<1> HIDE DEF V
<1>5. \E x \in V : \A y \in V : y <= x
  BY <1>1, <1>2, GreatestNumber
<1>6. \E x \in V : \A y \in V : x >= y
  BY <1>2, <1>5
<1>7. Max(V) \in V /\ \A y \in V : Max(V) >= y
  BY <1>6 DEF Max
<1>8. \A y \in V : y <= Max(V) /\ Max(V) \in Nat
  BY <1>2, <1>7
<1> QED BY <1>2, <1>3, <1>4, <1>7, <1>8

LEMMA FreshMoveTyped ==
    ASSUME Types, Rows, FreshMove
    PROVE  Types'
<1>1. FreshSteps(plan') /\ Sound(plan')
  BY PlansAreSound DEF Types, FreshMove, MakePlan, Fallback, Crash, durable
<1>2. StepTypes'
  BY <1>1, FreshTyped
<1>3. ver' \in [StepNames -> Nat]
  <2>1. CASE MakePlan
    BY <2>1 DEF MakePlan, Types
  <2>2. CASE Fallback
    BY <2>2 DEF Fallback, NoVersions
  <2>3. CASE Crash
    BY <2>3, VersionsOfRows DEF Crash
  <2> QED BY <2>1, <2>2, <2>3 DEF FreshMove
<1>4. ctl' \in Controls /\ cmds' \in Seq(Commands)
  <2>1. CASE MakePlan
    BY <2>1 DEF MakePlan, Types
  <2>2. CASE Fallback
    BY <2>2 DEF Fallback, Types
  <2>3. CASE Crash
    BY <2>3 DEF Crash, Types, NoControl, Controls
  <2> QED BY <2>1, <2>2, <2>3 DEF FreshMove
<1>5. /\ profile' \in Profiles /\ inline' \in BOOLEAN /\ budget' \in Budgets
      /\ phase' \in Phases /\ path' \in {"engine", "walker"} /\ replans' \in Nat
  <2>1. CASE MakePlan
    BY <2>1 DEF MakePlan, Types, Phases
  <2>2. CASE Fallback
    BY <2>2 DEF Fallback, Types, Phases
  <2>3. CASE Crash
    BY <2>3 DEF Crash, Types, Phases, Budgets
  <2> QED BY <2>1, <2>2, <2>3 DEF FreshMove
<1>6. clean' \in BOOLEAN
  <2>1. CASE MakePlan
    BY <2>1 DEF MakePlan, Types
  <2>2. CASE Fallback
    BY <2>2 DEF Fallback
  <2>3. CASE Crash
    <3>1. clean' = (clean /\ (phase \in {"plan", "gate", "begin"}
                             \/ \A r \in ckpt : obs[r.step].v = r.v))
      BY <2>3 DEF Crash
    <3> QED BY <3>1
  <2> QED BY <2>1, <2>2, <2>3 DEF FreshMove
<1>7. node' \in [StepNames -> NodeStatus]
  <2>1. \A p : NewPanel(p) \in [StepNames -> NodeStatus]
    BY DEF NewPanel, NodeStatus
  <2>2. node' = node \/ \E p : node' = NewPanel(p)
    BY DEF FreshMove, MakePlan, Fallback, Crash
  <2> QED BY <2>1, <2>2 DEF Types
<1> QED BY <1>1, <1>2, <1>3, <1>4, <1>5, <1>6, <1>7 DEF Types, StepTypes

\* The variables that the controls, the panel and the work of a step may change.
MoveTypes ==
    /\ task' \in [Ids -> TaskStatus] /\ node' \in [StepNames -> NodeStatus]
    /\ budget' \in Budgets /\ (Exhausted => Exhausted')
    /\ late' \subseteq Ids /\ handed' \subseteq Ids
    /\ inp' \in [Ids -> Versions]

LEMMA PassesTyped ==
    ASSUME Types, NEW s \in Ids, NEW c, Passes(s, c)
    PROVE  MoveTypes
<1>0. Started(node, s) \in [StepNames -> NodeStatus] /\ node \in [StepNames -> NodeStatus]
  BY PanelTyped DEF Types
<1>1. CASE s \in skip
  <2>1. Completed(Started(node, s), s) \in [StepNames -> NodeStatus]
    BY <1>0, PanelTyped
  <2>2. node' \in [StepNames -> NodeStatus] /\ handed' \subseteq Ids
    BY <1>0, <1>1, <2>1 DEF Passes, ReportsReused, Types
  <2>3. budget' \in Budgets /\ (Exhausted => Exhausted')
    BY <1>1 DEF Passes, ReportsReused, Types, Exhausted, Budgets
  <2>4. task' \in [Ids -> TaskStatus] /\ late' \subseteq Ids /\ inp' \in [Ids -> Versions]
    BY <1>1 DEF Passes, Types, TaskStatus
  <2> QED BY <2>2, <2>3, <2>4 DEF MoveTypes
<1>2. CASE s \notin skip
  <2>1. /\ node' \in [StepNames -> NodeStatus] /\ handed' \subseteq Ids
        /\ budget' \in Budgets /\ (Exhausted => Exhausted')
    BY <1>0, <1>2 DEF Passes, Types, Exhausted
  <2>2. inp' \in [Ids -> Versions]
    BY <1>2, InputsTyped DEF Passes, Types
  <2>3. task' \in [Ids -> TaskStatus] /\ late' \subseteq Ids
    BY <1>2 DEF Passes, Types, TaskStatus
  <2> QED BY <2>1, <2>2, <2>3 DEF MoveTypes
<1> QED BY <1>1, <1>2

LEMMA GroupKnown ==
    ASSUME Types, plan = PlanFor(profile)
    PROVE  Group \subseteq Ids
<1>1. Staging(plan, Range(StagesFor(profile)), GraphFor(profile).edges)
  BY ProfilesStaged DEF Types
<1> QED BY <1>1 DEF Group, StageGroup, Staging, Ids

LEMMA LaunchTyped ==
    ASSUME Types, plan = PlanFor(profile), NEW c, Launch(c), UNCHANGED <<handed, budget>>
    PROVE  MoveTypes
<1> DEFINE go == {s \in Group : Starts(s)}
<1>1. task' = [s \in Ids |-> IF s \in go THEN "running"
                             ELSE IF s \in Group THEN "done" ELSE task[s]]
  BY DEF Launch
<1>2. node' = [s \in StepNames |-> IF s \in Group THEN Started(node, s)[s] ELSE node[s]]
  BY DEF Launch, Types
<1>3. inp' = [s \in Ids |-> IF s \in go THEN Inputs(s) ELSE inp[s]]
  BY DEF Launch
<1>4. late' = IF c.cancel THEN late \cup go ELSE late
  BY DEF Launch
<1>5. go \subseteq Ids
  BY GroupKnown
<1> HIDE DEF go
<1>6. task' \in [Ids -> TaskStatus]
  BY <1>1 DEF Types, TaskStatus
<1>7. node' \in [StepNames -> NodeStatus]
  <2>1. \A s \in Group : Started(node, s) \in [StepNames -> NodeStatus]
    BY GroupKnown, PanelTyped DEF Types
  <2> QED BY <1>2, <2>1 DEF Types
<1>8. inp' \in [Ids -> Versions]
  BY <1>3, InputsTyped DEF Types
<1> QED BY <1>4, <1>5, <1>6, <1>7, <1>8 DEF MoveTypes, Types, Exhausted

\* Actions of the controls, the panel and the steps' work.
StepMove ==
    \/ WalkControl \/ WalkPauseEnds \/ WalkBegin
    \/ \E s \in Ids : \/ FailsBehind(s) \/ Control(s) \/ PauseEnds(s) \/ Retry(s)
                      \/ StepFails(s) \/ WalkFails(s) \/ Finish(s) \/ WalkProduce(s)

\* What these actions leave alone.
StepFrame ==
    /\ UNCHANGED <<profile, inline, path, plan, clean, skip, reused, replans>>
    /\ phase' \in Phases /\ Ids' = Ids

LEMMA StepMoveCore ==
    ASSUME Types, StepMove
    PROVE  StepFrame
<1>1. ASSUME NEW s \in Ids, FailsBehind(s) \/ Retry(s) \/ StepFails(s) \/ WalkFails(s)
      PROVE  StepFrame
  BY <1>1 DEF StepFrame, FailsBehind, Retry, StepFails, WalkFails, durable, panel, steps, Types,
              Phases, Ids
<1>2. ASSUME NEW s \in Ids, Control(s) PROVE StepFrame
  BY <1>2 DEF StepFrame, Control, EngineGivesUp, EngineCancelled, panel, steps, Types, Phases, Ids
<1>3. ASSUME NEW s \in Ids, PauseEnds(s) PROVE StepFrame
  BY <1>3 DEF StepFrame, PauseEnds, EngineGivesUp, durable, panel, steps, Types, Phases, Ids
<1>4. ASSUME NEW s \in Ids, Finish(s) \/ WalkProduce(s) PROVE StepFrame
  BY <1>4 DEF StepFrame, Finish, WalkProduce, durable, Types, Ids
<1>5. CASE WalkControl
  BY <1>5 DEF StepFrame, WalkControl, Launch, Types, Phases, Ids
<1>6. CASE WalkPauseEnds
  BY <1>6 DEF StepFrame, WalkPauseEnds, Launch, durable, Types, Phases, Ids
<1>7. CASE WalkBegin
  BY <1>7 DEF StepFrame, WalkBegin, durable, steps, Types, Phases, Ids
<1> QED BY <1>1, <1>2, <1>3, <1>4, <1>5, <1>6, <1>7 DEF StepMove

LEMMA OutputTyped ==
    ASSUME Types, NEW s \in Ids, NEW empty \in BOOLEAN
    PROVE  Output(s, empty) \in Observation
<1>1. s \in StepNames
  BY DEF Types, Sound, Ids
<1>2. ver[s] + 1 \in Nat /\ inp[s] \in Versions
  BY <1>1 DEF Types
<1> QED BY <1>2 DEF Output, Observation

\* The remaining variables of Types.
WorkTypes ==
    /\ obs' \in [Ids -> Observation] /\ ver' \in [StepNames -> Nat]
    /\ ctl' \in Controls /\ cmds' \in Seq(Commands)

LEMMA StepMoveWork ==
    ASSUME Types, StepMove
    PROVE  WorkTypes
<1>0. << >> \in Seq(Commands)
  OBVIOUS
<1>1. ASSUME NEW s \in Ids, FailsBehind(s) \/ Retry(s) \/ StepFails(s) \/ WalkFails(s)
      PROVE  WorkTypes
  BY <1>1 DEF WorkTypes, FailsBehind, Retry, StepFails, WalkFails, durable, steps, Types
<1>2. ASSUME NEW s \in Ids, Control(s) PROVE WorkTypes
  BY <1>0, <1>2, DrainTyped DEF WorkTypes, Control, EngineGivesUp, EngineCancelled, steps, Types
<1>3. ASSUME NEW s \in Ids, PauseEnds(s) PROVE WorkTypes
  BY <1>3 DEF WorkTypes, PauseEnds, EngineGivesUp, durable, steps, Types
<1>4. ASSUME NEW s \in Ids, Finish(s) \/ WalkProduce(s) PROVE WorkTypes
  <2>1. ver' \in [StepNames -> Nat]
    <3>1. s \in StepNames
      BY DEF Types, Sound, Ids
    <3>2. ver[s] + 1 \in Nat
      BY <3>1 DEF Types
    <3> QED BY <1>4, <3>2 DEF Finish, WalkProduce, Types
  <2>2. obs' \in [Ids -> Observation]
    <3>1. PICK empty \in BOOLEAN : obs' = [obs EXCEPT ![s] = Output(s, empty)]
      BY <1>4 DEF Finish, WalkProduce
    <3> QED BY <3>1, OutputTyped DEF Types
  <2>3. ctl' \in Controls /\ cmds' \in Seq(Commands)
    BY <1>4 DEF Finish, WalkProduce, durable, Types
  <2> QED BY <2>1, <2>2, <2>3 DEF WorkTypes
<1>5. CASE WalkControl
  BY <1>0, <1>5, DrainTyped DEF WorkTypes, WalkControl, Types
<1>6. CASE WalkPauseEnds
  BY <1>6 DEF WorkTypes, WalkPauseEnds, durable, Types
<1>7. CASE WalkBegin
  BY <1>7 DEF WorkTypes, WalkBegin, durable, steps, Types
<1> QED BY <1>1, <1>2, <1>3, <1>4, <1>5, <1>6, <1>7 DEF StepMove

LEMMA StepMovePanel ==
    ASSUME Types, Where, StepMove
    PROVE  MoveTypes
<1>0. UNCHANGED budget => budget' \in Budgets /\ (Exhausted => Exhausted')
  BY DEF Types, Exhausted
<1>1. ASSUME NEW s \in Ids, FailsBehind(s) PROVE MoveTypes
  BY <1>0, <1>1 DEF MoveTypes, FailsBehind, panel, Types, TaskStatus
<1>2. ASSUME NEW s \in Ids, Retry(s) PROVE MoveTypes
  BY <1>0, <1>2 DEF MoveTypes, Retry, Types, NodeStatus
<1>3. ASSUME NEW s \in Ids, StepFails(s) PROVE MoveTypes
  BY <1>0, <1>3, PanelTyped DEF MoveTypes, StepFails, Types, TaskStatus
<1>4. ASSUME NEW s \in Ids, WalkFails(s) PROVE MoveTypes
  BY <1>0, <1>4, PanelTyped DEF MoveTypes, WalkFails, Types, steps
<1>5. ASSUME NEW s \in Ids, Control(s) PROVE MoveTypes
  <2>1. CASE EngineGivesUp /\ UNCHANGED budget
    BY <1>0, <2>1 DEF MoveTypes, EngineGivesUp, steps, panel, Types
  <2>2. CASE EngineCancelled /\ UNCHANGED budget
    BY <1>0, <2>2, PanelTyped DEF MoveTypes, EngineCancelled, steps, Types
  <2>3. CASE task' = [task EXCEPT ![s] = "paused"] /\ UNCHANGED <<inp, panel, budget>>
    BY <1>0, <2>3 DEF MoveTypes, panel, Types, TaskStatus
  <2>4. CASE Passes(s, ctl')
    BY <2>4, PassesTyped
  <2> QED BY <1>5, <2>1, <2>2, <2>3, <2>4 DEF Control
<1>6. ASSUME NEW s \in Ids, PauseEnds(s) PROVE MoveTypes
  <2>1. CASE EngineGivesUp /\ UNCHANGED budget
    BY <1>0, <2>1 DEF MoveTypes, EngineGivesUp, steps, panel, Types
  <2>2. CASE Passes(s, ctl)
    BY <2>2, PassesTyped
  <2> QED BY <1>6, <2>1, <2>2 DEF PauseEnds
<1>7. ASSUME NEW s \in Ids, Finish(s) \/ WalkProduce(s) PROVE MoveTypes
  <2>1. /\ inp' = [inp EXCEPT ![s] = << >>] /\ task' = [task EXCEPT ![s] = "done"]
        /\ UNCHANGED <<late, budget>>
    BY <1>7 DEF Finish, WalkProduce
  <2>2. \/ node' = node /\ handed' = handed
        \/ node' = Completed(node, s) /\ handed' = handed \cup {s}
    BY <1>7 DEF Finish, WalkProduce
  <2> QED BY <1>0, <2>1, <2>2, PanelTyped, StartTyped DEF MoveTypes, Types, TaskStatus
<1>8. CASE WalkControl \/ WalkPauseEnds
  <2>1. phase \in {"control", "paused"} /\ UNCHANGED <<handed, budget>>
    BY <1>8 DEF WalkControl, WalkPauseEnds
  <2>2. plan = PlanFor(profile)
    BY <2>1 DEF Where, Types, Early, Pass
  <2>3. CASE UNCHANGED <<task, node, inp, late>>
    BY <1>0, <2>1, <2>3 DEF MoveTypes, Types
  <2>4. CASE \E c \in {ctl, ctl'} : Launch(c)
    BY <2>1, <2>2, <2>4, LaunchTyped
  <2> QED BY <1>8, <2>3, <2>4 DEF WalkControl, WalkPauseEnds
<1>9. CASE WalkBegin
  BY <1>0, <1>9 DEF MoveTypes, WalkBegin, NewPanel, steps, Types, NodeStatus
<1> QED BY <1>1, <1>2, <1>3, <1>4, <1>5, <1>6, <1>7, <1>8, <1>9 DEF StepMove

LEMMA StepMoveTyped ==
    ASSUME Types, Where, StepMove
    PROVE  Types'
<1>1. StepFrame /\ WorkTypes /\ MoveTypes
  BY StepMoveCore, StepMoveWork, StepMovePanel
<1>2. plan' = plan /\ Ids' = Ids /\ Sound(plan')
  BY <1>1 DEF StepFrame, Types
<1> QED BY <1>1, <1>2 DEF StepFrame, WorkTypes, MoveTypes, Types

\* The beginning of the engine and its verifier.
PassMove == Begin \/ Verify

\* What the engine begins with: rows it has found, all or none of the steps' rows.
Loads(found, load) ==
    /\ \A s \in found : load[s] \in ckpt /\ load[s].step = s
    /\ reused' = Reusable(found)
    /\ obs' = [s \in Ids |-> IF s \in reused'
                             THEN [v |-> load[s].v, from |-> load[s].from, empty |-> FALSE]
                             ELSE NoObs]

LEMMA BeginLoads ==
    ASSUME Begin
    PROVE  \E found, load : found \subseteq Checkpointed /\ Loads(found, load)
<1>1. PICK found \in {Checkpointed, {}} : \E load \in [found -> ckpt] :
         /\ \A s \in found : load[s].step = s
         /\ reused' = Reusable(found)
         /\ obs' = [s \in Ids |-> IF s \in reused'
                                  THEN [v |-> load[s].v, from |-> load[s].from, empty |-> FALSE]
                                  ELSE NoObs]
  BY DEF Begin
<1>2. found \subseteq Checkpointed
  OBVIOUS
<1>3. PICK load \in [found -> ckpt] : Loads(found, load)
  BY <1>1 DEF Loads
<1> QED BY <1>2, <1>3

LEMMA PassMoveTyped ==
    ASSUME Types, Rows, PassMove
    PROVE  Types'
<1>0. Ids' = Ids /\ plan' = plan /\ Sound(plan')
  BY DEF PassMove, Begin, Verify, Ids, Types
<1>1. CASE Begin
  <2>1. PICK found, load : found \subseteq Checkpointed /\ Loads(found, load)
    BY <1>1, BeginLoads
  <2>2. reused' \subseteq found /\ Checkpointed \subseteq Ids /\ skip' = reused'
    BY <1>1, <2>1 DEF Loads, Reusable, Checkpointed, Begin
  <2>3. \A s \in reused' : load[s].v \in Nat /\ load[s].from \in Versions
    BY <2>1, <2>2 DEF Loads, Rows
  <2>4. obs' \in [Ids -> Observation]
    BY <2>1, <2>3, StartTyped DEF Loads, Observation
  <2>5. node' \in [StepNames -> NodeStatus]
    BY <1>1 DEF Begin, NewPanel, NodeStatus
  <2>6. clean' \in BOOLEAN
    <3>1. clean' = (clean /\ \A r \in ckpt : r.round = 0 /\ r.deps = plan.deps)
      BY <1>1 DEF Begin
    <3> QED BY <3>1
  <2> QED BY <1>0, <1>1, <2>1, <2>2, <2>4, <2>5, <2>6 DEF Begin, Types, Phases, durable
<1>2. CASE Verify
  <2>1. /\ replans' \in Nat /\ skip' \subseteq Ids /\ task' \in [Ids -> TaskStatus]
        /\ obs' \in [Ids -> Observation] /\ phase' \in Phases
    <3>1. CASE UNCHANGED <<replans, skip, task, obs>> /\ phase' \in {"clear", "fallback"}
      BY <3>1 DEF Types, Phases
    <3>2. ASSUME NEW flagged, Revise(flagged), MayRevise
          PROVE  /\ replans' \in Nat /\ skip' \subseteq Ids /\ task' \in [Ids -> TaskStatus]
                 /\ obs' \in [Ids -> Observation] /\ phase' \in Phases
      <4>1. /\ phase' = "run" /\ replans' = replans + 1 /\ skip' \subseteq Ids
            /\ task' = [s \in Ids |-> "wait"]
            /\ obs' = [s \in Ids |-> [obs[s] EXCEPT !.empty = FALSE]]
        BY <3>2 DEF Revise
      <4>2. \A o \in Observation : [o EXCEPT !.empty = FALSE] \in Observation
        BY DEF Observation
      <4>3. \A s \in Ids : obs[s] \in Observation
        BY DEF Types
      <4> QED BY <4>1, <4>2, <4>3 DEF Types, Phases, TaskStatus
    <3> QED BY <1>2, <3>1, <3>2 DEF Verify, Revise
  <2> QED BY <1>0, <1>2, <2>1 DEF Verify, Types, durable, panel
<1> QED BY <1>1, <1>2 DEF PassMove

LEMMA TypesKept ==
    ASSUME Types, Rows, Where, [Next]_vars
    PROVE  Types'
<1>1. CASE QuietMove
  BY <1>1, QuietTyped
<1>2. CASE FreshMove
  BY <1>2, FreshMoveTyped
<1>3. CASE StepMove
  BY <1>3, StepMoveTyped
<1>4. CASE PassMove
  BY <1>4, PassMoveTyped
<1>5. CASE UNCHANGED vars
  BY <1>5 DEF vars, durable, panel, steps, Types, Ids
<1> QED BY <1>1, <1>2, <1>3, <1>4, <1>5 DEF Next, Advance, Work, Error, People, QuietMove,
                                          FreshMove, StepMove, PassMove

-----------------------------------------------------------------------------
(***************************************************************************)
(* The rows, and where the run is.                                         *)
(***************************************************************************)

\* The versions a step is given or has are versions there are.
Bounded == \A s \in Ids : obs[s].v <= ver[s] /\ \A d \in DOMAIN inp[s] : inp[s][d] <= ver[d]

RowTyped(r, upto) ==
    /\ r.step \in StepNames /\ r.step \in DOMAIN r.deps
    /\ r.v \in Nat /\ 0 < r.v /\ r.v <= upto[r.step]
    /\ r.from \in Versions /\ r.round \in Nat
    /\ \A d \in DOMAIN r.from : r.from[d] <= upto[d]

LEMMA RowsParts == /\ Rows <=> (\A r \in ckpt : RowTyped(r, ver)) /\ Bounded
                   /\ Rows' <=> (\A r \in ckpt' : RowTyped(r, ver')) /\ Bounded'
BY DEF Rows, RowTyped, Bounded

LEMMA InputsBounded ==
    ASSUME Types, Rows, NEW s \in Ids
    PROVE  \A d \in DOMAIN Inputs(s) : Inputs(s)[d] <= ver[d]
BY InputsTyped DEF Rows

LEMMA GrowingRows ==
    ASSUME NEW r, NEW low \in [StepNames -> Nat], NEW high \in [StepNames -> Nat],
           \A s \in StepNames : low[s] <= high[s], RowTyped(r, low)
    PROVE  RowTyped(r, high)
<1>1. r.v <= high[r.step]
  <2>1. r.step \in StepNames /\ r.v \in Nat /\ r.v <= low[r.step] /\ low[r.step] <= high[r.step]
    BY DEF RowTyped
  <2>2. low[r.step] \in Nat /\ high[r.step] \in Nat
    BY <2>1
  <2> QED BY <2>1, <2>2
<1>2. ASSUME NEW d \in DOMAIN r.from PROVE r.from[d] <= high[d]
  <2>1. r.from \in Versions /\ r.from[d] <= low[d]
    BY DEF RowTyped
  <2>2. d \in StepNames /\ r.from[d] \in Nat
    BY <2>1 DEF Versions
  <2>3. low[d] <= high[d] /\ low[d] \in Nat /\ high[d] \in Nat
    BY <2>2
  <2> QED BY <2>1, <2>2, <2>3
<1> QED BY <1>1, <1>2 DEF RowTyped

\* An output is produced: by the engine or by the walker.
Produces(s) ==
    /\ inp' = [inp EXCEPT ![s] = << >>] /\ ver' = [ver EXCEPT ![s] = @ + 1]
    /\ \E empty \in BOOLEAN : /\ obs' = [obs EXCEPT ![s] = Output(s, empty)]
                              /\ ckpt' \subseteq ckpt \cup {Row(s, Output(s, empty))}

LEMMA FinishProduces ==
    ASSUME Types, NEW s \in Ids, Finish(s) \/ WalkProduce(s)
    PROVE  Produces(s)
<1>1. CASE Finish(s)
  <2>1. PICK empty \in BOOLEAN, saved \in BOOLEAN :
           /\ obs' = [obs EXCEPT ![s] = Output(s, empty)]
           /\ ckpt' = IF saved /\ ~empty THEN ckpt \cup {Row(s, obs'[s])} ELSE ckpt
    BY <1>1 DEF Finish
  <2>2. obs'[s] = Output(s, empty)
    BY <2>1 DEF Types
  <2>3. ckpt' \subseteq ckpt \cup {Row(s, Output(s, empty))}
    BY <2>1, <2>2
  <2> QED BY <1>1, <2>1, <2>3 DEF Produces, Finish
<1>2. CASE WalkProduce(s)
  BY <1>2 DEF WalkProduce, Produces, durable
<1> QED BY <1>1, <1>2

LEMMA RowsProduced ==
    ASSUME Types, Rows, Types', Ids' = Ids, NEW s \in Ids, Produces(s)
    PROVE  Rows'
<1>0. s \in StepNames /\ ver \in [StepNames -> Nat] /\ ver' \in [StepNames -> Nat]
  BY DEF Types, Sound, Ids
<1>1. ver'[s] = ver[s] + 1 /\ \A t \in StepNames : t # s => ver'[t] = ver[t]
  BY <1>0 DEF Produces
<1>2. \A t \in StepNames : ver[t] <= ver'[t]
  BY <1>0, <1>1
<1>3. PICK empty \in BOOLEAN : /\ obs' = [obs EXCEPT ![s] = Output(s, empty)]
                               /\ ckpt' \subseteq ckpt \cup {Row(s, Output(s, empty))}
  BY DEF Produces
<1>4. RowTyped(Row(s, Output(s, empty)), ver')
  <2> DEFINE r == Row(s, Output(s, empty))
  <2>1. /\ r.step = s /\ r.v = ver[s] + 1 /\ r.from = inp[s] /\ r.round = replans
        /\ r.deps = plan.deps
    BY DEF Row, Output
  <2>2. s \in DOMAIN plan.deps /\ replans \in Nat /\ inp[s] \in Versions
    BY DEF Types, Sound, Ids
  <2>3. ASSUME NEW d \in DOMAIN inp[s] PROVE inp[s][d] <= ver'[d]
    <3>1. inp[s][d] <= ver[d] /\ d \in StepNames /\ inp[s][d] \in Nat
      BY <2>2 DEF Rows, Versions
    <3>2. ver[d] \in Nat /\ ver'[d] \in Nat /\ ver[d] <= ver'[d]
      BY <1>0, <1>2, <3>1
    <3> QED BY <3>1, <3>2
  <2>4. ver[s] + 1 \in Nat /\ 0 < ver[s] + 1 /\ ver[s] + 1 <= ver'[s]
    BY <1>0, <1>1
  <2> HIDE DEF r
  <2>5. \A d \in DOMAIN r.from : r.from[d] <= ver'[d]
    BY <2>1, <2>3
  <2>6. r.step \in StepNames /\ r.step \in DOMAIN r.deps
    BY <1>0, <2>1, <2>2
  <2>7. r.v \in Nat /\ 0 < r.v /\ r.v <= ver'[r.step]
    BY <2>1, <2>4
  <2>8. r.from \in Versions /\ r.round \in Nat
    BY <2>1, <2>2
  <2>9. RowTyped(r, ver')
    BY <2>5, <2>6, <2>7, <2>8 DEF RowTyped
  <2> QED BY <2>9 DEF r
<1>5. \A r \in ckpt' : RowTyped(r, ver')
  <2>1. \A r \in ckpt : RowTyped(r, ver')
    BY <1>0, <1>2, GrowingRows, RowsParts
  <2> QED BY <1>3, <1>4, <2>1
<1>6. Bounded'
  <2> SUFFICES ASSUME NEW t \in Ids
               PROVE  obs'[t].v <= ver'[t] /\ \A d \in DOMAIN inp'[t] : inp'[t][d] <= ver'[d]
    BY DEF Bounded
  <2>0. t \in StepNames
    BY DEF Types, Sound, Ids
  <2>1. CASE t = s
    <3>1. obs'[t] = Output(s, empty) /\ inp'[t] = << >>
      BY <1>3, <2>1 DEF Types, Produces
    <3>2. obs'[t].v = ver[s] + 1
      BY <3>1 DEF Output
    <3>3. DOMAIN inp'[t] = {}
      BY <3>1
    <3>4. ver'[t] = ver[s] + 1 /\ ver[s] \in Nat
      BY <1>0, <1>1, <2>1
    <3> QED BY <3>2, <3>3, <3>4
  <2>2. CASE t # s
    <3>1. obs'[t] = obs[t] /\ inp'[t] = inp[t]
      BY <1>3, <2>2 DEF Types, Produces
    <3>2. obs[t].v <= ver[t] /\ obs[t].v \in Nat /\ ver[t] \in Nat /\ ver'[t] \in Nat
      BY <1>0, <2>0 DEF Rows, Types, Observation
    <3>3. ASSUME NEW d \in DOMAIN inp[t] PROVE inp[t][d] <= ver'[d]
      <4>0. inp[t] \in Versions
        BY DEF Types
      <4>1. inp[t][d] <= ver[d] /\ d \in StepNames /\ inp[t][d] \in Nat
        BY <4>0 DEF Rows, Versions
      <4>2. ver[d] \in Nat /\ ver'[d] \in Nat /\ ver[d] <= ver'[d]
        BY <1>0, <1>2, <4>1
      <4> QED BY <4>1, <4>2
    <3> QED BY <1>2, <2>0, <3>1, <3>2, <3>3
  <2> QED BY <2>1, <2>2
<1> QED BY <1>5, <1>6, RowsParts

\* A step is given its inputs, or nothing of it changes.
InputsGiven == \A s \in Ids : inp'[s] = inp[s] \/ inp'[s] = Inputs(s)

LEMMA StepGivesInputs ==
    ASSUME Types, Where, StepMove, ver' = ver
    PROVE  InputsGiven /\ obs' = obs /\ ckpt' = ckpt
<1>1. ASSUME NEW s \in Ids, FailsBehind(s) \/ Retry(s) \/ StepFails(s) \/ WalkFails(s)
      PROVE  InputsGiven /\ obs' = obs /\ ckpt' = ckpt
  BY <1>1 DEF InputsGiven, FailsBehind, Retry, StepFails, WalkFails, durable, steps
<1>2. ASSUME NEW s \in Ids, NEW c, Passes(s, c) PROVE InputsGiven
  BY <1>2 DEF InputsGiven, Passes, Types
<1>3. ASSUME NEW s \in Ids, Control(s) PROVE InputsGiven /\ obs' = obs /\ ckpt' = ckpt
  <2>1. obs' = obs /\ ckpt' = ckpt
    BY <1>3 DEF Control, EngineGivesUp, EngineCancelled, steps
  <2>2. inp' = inp \/ Passes(s, ctl')
    BY <1>3 DEF Control, EngineGivesUp, EngineCancelled, steps
  <2> QED BY <1>2, <2>1, <2>2 DEF InputsGiven
<1>4. ASSUME NEW s \in Ids, PauseEnds(s) PROVE InputsGiven /\ obs' = obs /\ ckpt' = ckpt
  <2>1. obs' = obs /\ ckpt' = ckpt
    BY <1>4 DEF PauseEnds, EngineGivesUp, durable, steps
  <2>2. inp' = inp \/ Passes(s, ctl)
    BY <1>4 DEF PauseEnds, EngineGivesUp, steps
  <2> QED BY <1>2, <2>1, <2>2 DEF InputsGiven
<1>5. ASSUME NEW s \in Ids, Finish(s) \/ WalkProduce(s) PROVE FALSE
  <2>1. s \in StepNames
    BY DEF Types, Sound, Ids
  <2>2. ver' = [ver EXCEPT ![s] = @ + 1] /\ ver[s] \in Nat /\ ver'[s] = ver[s]
    BY <1>5, <2>1 DEF Finish, WalkProduce, Types
  <2> QED BY <2>1, <2>2 DEF Types
<1>6. ASSUME NEW c, Launch(c) PROVE InputsGiven
  BY <1>6 DEF InputsGiven, Launch
<1>7. CASE WalkControl
  BY <1>6, <1>7 DEF WalkControl, InputsGiven
<1>8. CASE WalkPauseEnds
  BY <1>6, <1>8 DEF WalkPauseEnds, InputsGiven, durable
<1>9. CASE WalkBegin
  BY <1>9 DEF WalkBegin, InputsGiven, durable, steps
<1> QED BY <1>1, <1>3, <1>4, <1>5, <1>7, <1>8, <1>9 DEF StepMove

LEMMA RowsKeptByStep ==
    ASSUME Types, Rows, Where, StepMove, Types'
    PROVE  Rows'
<1>0. Ids' = Ids /\ plan' = plan
  BY StepMoveCore DEF StepFrame
<1>1. ASSUME NEW s \in Ids, Finish(s) \/ WalkProduce(s) PROVE Rows'
  BY <1>0, <1>1, FinishProduces, RowsProduced
<1>2. CASE ver' = ver
  <2>1. InputsGiven /\ obs' = obs /\ ckpt' = ckpt
    BY <1>2, StepGivesInputs
  <2>2. Bounded'
    <3> SUFFICES ASSUME NEW s \in Ids
                 PROVE  obs'[s].v <= ver'[s] /\ \A d \in DOMAIN inp'[s] : inp'[s][d] <= ver'[d]
      BY <1>0 DEF Bounded
    <3>1. obs[s].v <= ver[s] /\ \A d \in DOMAIN inp[s] : inp[s][d] <= ver[d]
      BY DEF Rows
    <3>2. \A d \in DOMAIN Inputs(s) : Inputs(s)[d] <= ver[d]
      BY InputsBounded
    <3>3. inp'[s] = inp[s] \/ inp'[s] = Inputs(s)
      BY <2>1 DEF InputsGiven
    <3> HIDE DEF Inputs
    <3> QED BY <1>2, <2>1, <3>1, <3>2, <3>3
  <2> QED BY <1>2, <2>1, <2>2, RowsParts
<1>3. StepMove => ver' = ver \/ \E s \in Ids : Finish(s) \/ WalkProduce(s)
  BY DEF StepMove, WalkControl, WalkPauseEnds, WalkBegin, FailsBehind, Control, PauseEnds, Retry,
         StepFails, WalkFails, EngineGivesUp, EngineCancelled, steps
<1> QED BY <1>1, <1>2, <1>3

LEMMA RowsKept ==
    ASSUME Types, Rows, Where, [Next]_vars, Types'
    PROVE  Rows'
<1>0. \A s \in Ids : ver[s] \in Nat
  BY DEF Types, Sound, Ids
<1>1. CASE QuietMove
  <2>1. UNCHANGED <<obs, inp, ver, plan>> /\ Ids' = Ids /\ (ckpt' = ckpt \/ ckpt' = {})
    BY <1>1 DEF QuietMove, GatePasses, GateTimesOut, GateCancels, Settle, Clear, WalkNext,
                Confirm, Send, TimeRunsOut, MoneyRunsOut, durable, steps, Ids
  <2> QED BY <2>1 DEF Rows
<1>2. ASSUME FreshSteps(plan'), \A s \in Ids' : ver'[s] \in Nat PROVE Bounded'
  <2>1. inp' = [s \in Ids' |-> << >>] /\ obs' = [s \in Ids' |-> NoObs]
    BY <1>2 DEF FreshSteps, Ids
  <2>2. \A s \in Ids' : inp'[s] = << >> /\ obs'[s].v = 0
    BY <2>1 DEF NoObs
  <2>3. DOMAIN << >> = {}
    OBVIOUS
  <2> QED BY <1>2, <2>2, <2>3 DEF Bounded
<1>3. \A s \in Ids' : ver'[s] \in Nat
  BY DEF Types, Sound, Ids
<1>4. CASE MakePlan
  <2>1. FreshSteps(plan') /\ ckpt' = ckpt /\ ver' = ver
    BY <1>4 DEF MakePlan
  <2> QED BY <1>2, <1>3, <2>1, RowsParts
<1>5. CASE Fallback
  <2>1. FreshSteps(plan') /\ ckpt' = {}
    BY <1>5 DEF Fallback
  <2> QED BY <1>2, <1>3, <2>1, RowsParts
<1>6. CASE Crash
  <2>1. FreshSteps(plan') /\ ckpt' = ckpt /\ ver' = [s \in StepNames |-> LastVersion(s)]
    BY <1>6 DEF Crash
  <2>2. ASSUME NEW r \in ckpt PROVE RowTyped(r, ver')
    <3>1. RowTyped(r, ver)
      BY RowsParts
    <3>2. r.v <= ver'[r.step]
      BY <2>1, <3>1, VersionsOfRows DEF RowTyped
    <3>3. \A d \in DOMAIN r.from : d \in StepNames
      BY <3>1 DEF RowTyped, Versions
    <3>4. \A d \in DOMAIN r.from : r.from[d] <= ver'[d]
      BY <2>1, <3>3, VersionsOfRows
    <3> QED BY <3>1, <3>2, <3>4 DEF RowTyped
  <2> QED BY <1>2, <1>3, <2>1, <2>2, RowsParts
<1>7. CASE StepMove
  BY <1>7, RowsKeptByStep
<1>8. CASE Begin
  <2>0. Ids' = Ids /\ ckpt' = ckpt /\ ver' = ver /\ inp' = inp
    BY <1>8 DEF Begin, Ids, durable
  <2>1. PICK found, load : found \subseteq Checkpointed /\ Loads(found, load)
    BY <1>8, BeginLoads
  <2>2. reused' \subseteq found
    BY <2>1 DEF Loads, Reusable
  <2>3. \A s \in reused' : load[s].v <= ver[s]
    BY <2>1, <2>2 DEF Loads, Rows
  <2>4. \A s \in Ids : obs'[s].v <= ver[s]
    BY <1>0, <2>1, <2>3 DEF Loads, NoObs
  <2>5. Bounded'
    BY <2>0, <2>4 DEF Bounded, Rows
  <2> QED BY <2>0, <2>5, RowsParts
<1>9. CASE Verify
  <2>0. Ids' = Ids /\ ckpt' = ckpt /\ ver' = ver /\ inp' = inp
    BY <1>9 DEF Verify, Ids, durable
  <2>1. obs' = obs \/ obs' = [s \in Ids |-> [obs[s] EXCEPT !.empty = FALSE]]
    BY <1>9 DEF Verify, Revise
  <2>2. \A o \in Observation : [o EXCEPT !.empty = FALSE].v = o.v
    BY DEF Observation
  <2>3. \A s \in Ids : obs'[s].v = obs[s].v
    BY <2>1, <2>2 DEF Types
  <2>4. Bounded'
    BY <2>0, <2>3 DEF Bounded, Rows
  <2> QED BY <2>0, <2>4, RowsParts
<1>10. CASE UNCHANGED vars
  BY <1>10 DEF vars, durable, steps, Rows, Ids
<1> QED BY <1>1, <1>4, <1>5, <1>6, <1>7, <1>8, <1>9, <1>10
        DEF Next, Advance, Work, Error, People, QuietMove, StepMove

LEMMA WhereKept ==
    ASSUME Types, Where, [Next]_vars
    PROVE  Where'
<1>1. CASE QuietMove
  BY <1>1 DEF QuietMove, GatePasses, GateTimesOut, GateCancels, Settle, Clear, WalkNext, Confirm,
              Send, TimeRunsOut, MoneyRunsOut, durable, Where, Early, Pass, Walk, Final
<1>2. CASE MakePlan
  BY <1>2 DEF MakePlan, Where, Early, Pass, Walk, Final
<1>3. CASE Fallback
  BY <1>3 DEF Fallback, Where, Early, Pass, Walk, Final
<1>4. CASE Crash
  BY <1>4 DEF Crash, Where, Early, Pass, Walk, Final
<1>5. CASE Begin
  BY <1>5 DEF Begin, Where, Early, Pass, Walk, Final, durable
<1>6. CASE Verify
  BY <1>6 DEF Verify, Revise, Where, Early, Pass, Walk, Final, durable
<1>7. CASE StepMove
  <2>1. UNCHANGED <<profile, path, plan, clean>>
    BY <1>7, StepMoveCore DEF StepFrame
  <2>2. path = "walker" => ckpt' = ckpt
    BY <1>7 DEF StepMove, WalkControl, WalkPauseEnds, WalkBegin, FailsBehind, Control, PauseEnds,
                Retry, StepFails, WalkFails, Finish, WalkProduce, durable, Where, Walk, Final
  <2>3. path = "engine" => phase' \in Early \cup Pass \cup {"completed", "cancelled"}
    BY <1>7 DEF StepMove, WalkControl, WalkPauseEnds, WalkBegin, FailsBehind, Control, PauseEnds,
                EngineGivesUp, EngineCancelled, Types,
                Retry, StepFails, WalkFails, Finish, WalkProduce, Where, Early, Pass
  <2>4. path = "walker" => phase' \in Walk \cup Final
    BY <1>7 DEF StepMove, WalkControl, WalkPauseEnds, WalkBegin, FailsBehind, Control, PauseEnds,
                Launch, Retry, StepFails, WalkFails, Finish, WalkProduce, Where, Walk, Final, Types
  <2> QED BY <2>1, <2>2, <2>3, <2>4 DEF Where
<1>8. CASE UNCHANGED vars
  BY <1>8 DEF vars, durable, Where
<1> QED BY <1>1, <1>2, <1>3, <1>4, <1>5, <1>6, <1>7, <1>8
        DEF Next, Advance, Work, Error, People, QuietMove, StepMove

LEMMA BlankKept ==
    ASSUME Types, Where, Blank, [Next]_vars
    PROVE  Blank'
<1>1. CASE QuietMove
  BY <1>1 DEF QuietMove, GatePasses, GateTimesOut, GateCancels, Settle, Clear, WalkNext, Confirm,
              Send, TimeRunsOut, MoneyRunsOut, panel, steps, Blank, Early, Ids
<1>2. CASE FreshMove
  <2>1. FreshSteps(plan')
    BY <1>2 DEF FreshMove, MakePlan, Fallback, Crash
  <2>2. late' = {} /\ handed' = {} /\ \A s \in Ids' : task'[s] = "wait"
    BY <2>1 DEF FreshSteps, Ids
  <2>3. replans' = 0
    BY <1>2 DEF FreshMove, MakePlan, Fallback, Crash, Blank, Early
  <2> QED BY <2>2, <2>3 DEF Blank
<1>3. CASE PassMove
  BY <1>3 DEF PassMove, Begin, Verify, Revise, Blank, Early
<1>4. CASE StepMove
  BY <1>4 DEF StepMove, WalkControl, WalkPauseEnds, WalkBegin, FailsBehind, Control, PauseEnds,
              EngineGivesUp, EngineCancelled, Launch, Retry, StepFails, WalkFails, Finish,
              WalkProduce, Blank, Early
<1>5. CASE UNCHANGED vars
  BY <1>5 DEF vars, durable, panel, steps, Blank, Ids
<1> QED BY <1>1, <1>2, <1>3, <1>4, <1>5
        DEF Next, Advance, Work, Error, People, QuietMove, FreshMove, PassMove, StepMove

LEMMA ShownKept ==
    ASSUME Types, Where, Shown, [Next]_vars
    PROVE  Shown'
<1>1. CASE QuietMove
  <2>1. UNCHANGED <<path, plan, inline, node>> /\ (phase' \in Early => phase \in Early)
    BY <1>1 DEF QuietMove, GatePasses, GateTimesOut, GateCancels, Settle, Clear, WalkNext, Confirm,
                Send, TimeRunsOut, MoneyRunsOut, durable, panel, steps, Early
  <2>2. NewPanel(plan') = NewPanel(plan)
    BY <2>1
  <2>3. phase \in Early /\ path = "engine" /\ ~inline => ctl' = ctl
    <3>1. CASE GatePasses
      BY <3>1 DEF GatePasses, Shown, NoControl
    <3>2. CASE \E cmd \in Commands : Send(cmd)
      BY <3>2 DEF Send
    <3>3. CASE ~GatePasses /\ ~(\E cmd \in Commands : Send(cmd))
      BY <1>1, <3>3 DEF QuietMove, GateTimesOut, GateCancels, Settle, Clear, WalkNext, Confirm,
                        TimeRunsOut, MoneyRunsOut
    <3> QED BY <3>1, <3>2, <3>3
  <2> QED BY <2>1, <2>2, <2>3 DEF Shown
<1>2. CASE MakePlan
  <2>1. path = "engine"
    BY <1>2 DEF MakePlan, Where, Walk, Final, Types
  <2> QED BY <1>2, <2>1 DEF MakePlan, Shown, Early
<1>3. CASE Fallback
  BY <1>3 DEF Fallback, Shown
<1>4. CASE Crash
  BY <1>4 DEF Crash, Shown
<1>5. CASE PassMove
  BY <1>5 DEF PassMove, Begin, Verify, Revise, Shown, Early
<1>6. CASE StepMove
  BY <1>6 DEF StepMove, WalkControl, WalkPauseEnds, WalkBegin, FailsBehind, Control, PauseEnds,
              EngineGivesUp, EngineCancelled, Launch, Retry, StepFails, WalkFails, Finish,
              WalkProduce, Shown, Early
<1>7. CASE UNCHANGED vars
  BY <1>7 DEF vars, durable, panel, steps, Shown, NewPanel
<1> QED BY <1>1, <1>2, <1>3, <1>4, <1>5, <1>6, <1>7
        DEF Next, Advance, Work, Error, People, QuietMove, PassMove, StepMove

-----------------------------------------------------------------------------
(***************************************************************************)
(* The engine's steps, as far as order and freshness go.                   *)
(***************************************************************************)
DepsDone(s) == \A d \in plan.deps[s] : task[d] = "done"

Turns(s, status) == task' = [task EXCEPT ![s] = status]

TaskMove(s) ==
    \/ task[s] # "done" /\ Turns(s, "failed") /\ UNCHANGED <<obs, inp, ckpt, ver>>
    \/ task[s] = "wait" /\ DepsDone(s) /\ Turns(s, "paused") /\ UNCHANGED <<obs, inp, ckpt, ver>>
    \/ /\ task[s] \in {"wait", "paused"} /\ DepsDone(s) /\ s \in skip
       /\ Turns(s, "done") /\ UNCHANGED <<obs, inp, ckpt, ver>>
    \/ /\ task[s] \in {"wait", "paused"} /\ DepsDone(s) /\ s \notin skip
       /\ Turns(s, "running") /\ inp' = [inp EXCEPT ![s] = Inputs(s)]
       /\ UNCHANGED <<obs, ckpt, ver>>
    \/ task[s] = "running" /\ Turns(s, "done") /\ Produces(s)

EngineStep ==
    /\ phase = "run"
    /\ \/ UNCHANGED <<task, obs, inp, ckpt, ver>> /\ phase' \in {"run", "fallback", "cancelled"}
       \/ phase' = "run" /\ \E s \in Ids : TaskMove(s)

LEMMA EngineSteps ==
    ASSUME Types, Where, Ordered, StepMove, path = "engine"
    PROVE  EngineStep \/ phase' = "cancelled"
<1>1. ASSUME NEW s \in Ids, FailsBehind(s) PROVE EngineStep
  BY <1>1 DEF EngineStep, FailsBehind, TaskMove, Turns, durable
<1>2. ASSUME NEW s \in Ids, NEW c, Passes(s, c), task[s] \in {"wait", "paused"}, DepsDone(s),
             UNCHANGED <<obs, ckpt, ver>>
      PROVE  TaskMove(s)
  BY <1>2 DEF Passes, TaskMove, Turns
<1>3. ASSUME NEW s \in Ids, Control(s) PROVE EngineStep
  <2>0. phase = "run" /\ task[s] = "wait" /\ DepsDone(s) /\ ckpt' = ckpt
    BY <1>3 DEF Control, DepsDone
  <2>1. CASE EngineGivesUp \/ EngineCancelled
    BY <2>0, <2>1 DEF EngineStep, EngineGivesUp, EngineCancelled, steps
  <2>2. CASE Turns(s, "paused") /\ UNCHANGED <<inp, obs, ver, phase>>
    BY <2>0, <2>2 DEF EngineStep, TaskMove
  <2>3. CASE Passes(s, ctl') /\ UNCHANGED <<obs, ver, phase>>
    BY <1>2, <2>0, <2>3 DEF EngineStep
  <2> QED BY <1>3, <2>1, <2>2, <2>3 DEF Control, Turns
<1>4. ASSUME NEW s \in Ids, PauseEnds(s) PROVE EngineStep
  <2>0. phase = "run" /\ task[s] = "paused" /\ ckpt' = ckpt
    BY <1>4 DEF PauseEnds, durable
  <2>1. DepsDone(s)
    BY <2>0 DEF Ordered, DepsDone, Pass
  <2>2. CASE EngineGivesUp
    BY <2>0, <2>2 DEF EngineStep, EngineGivesUp, steps
  <2>3. CASE Passes(s, ctl) /\ UNCHANGED <<obs, ver, phase>>
    BY <1>2, <2>0, <2>1, <2>3 DEF EngineStep
  <2> QED BY <1>4, <2>2, <2>3 DEF PauseEnds
<1>5. ASSUME NEW s \in Ids, Retry(s) PROVE EngineStep
  BY <1>5 DEF EngineStep, Retry, durable
<1>6. ASSUME NEW s \in Ids, StepFails(s) PROVE EngineStep
  BY <1>6 DEF EngineStep, StepFails, TaskMove, Turns, durable
<1>7. ASSUME NEW s \in Ids, Finish(s) PROVE EngineStep
  <2>1. Produces(s)
    BY <1>7, FinishProduces
  <2>2. phase = "run" /\ phase' = "run" /\ task[s] = "running" /\ Turns(s, "done")
    BY <1>7 DEF Finish, Turns
  <2> QED BY <2>1, <2>2 DEF EngineStep, TaskMove
<1>8. phase \notin Walk
  BY DEF Where, Early, Pass, Walk
<1> QED BY <1>1, <1>3, <1>4, <1>5, <1>6, <1>7, <1>8
        DEF StepMove, WalkControl, WalkPauseEnds, WalkBegin, WalkFails, WalkProduce, Walk

LEMMA OrderedKept ==
    ASSUME Types, Where, Blank, Ordered, [Next]_vars
    PROVE  Ordered'
<1>1. CASE QuietMove
  <2>1. UNCHANGED <<path, plan, task, skip>> /\ Ids' = Ids
    BY <1>1 DEF QuietMove, GatePasses, GateTimesOut, GateCancels, Settle, Clear, WalkNext,
                Confirm, Send, TimeRunsOut, MoneyRunsOut, steps, Ids
  <2>2. CASE Settle
    BY <2>1, <2>2 DEF Settle, Ordered, Pass, Types, TaskStatus
  <2>3. CASE Clear
    BY <2>1, <2>3 DEF Clear, Ordered, Pass
  <2>4. CASE phase' = phase \/ phase' \notin Pass \cup {"completed"}
    BY <2>1, <2>4 DEF Ordered, Pass
  <2>5. CASE WalkNext
    BY <2>1, <2>5 DEF WalkNext, Ordered, Where, Early, Pass
  <2> QED BY <1>1, <2>2, <2>3, <2>4, <2>5
          DEF QuietMove, GatePasses, GateTimesOut, GateCancels, Confirm, Send, TimeRunsOut,
              MoneyRunsOut, Pass
<1>2. CASE FreshMove
  BY <1>2 DEF FreshMove, MakePlan, Fallback, Crash, Ordered, Pass
<1>3. CASE Begin
  <2>1. Ids' = Ids /\ phase' = "run" /\ UNCHANGED <<task, plan, path>>
    BY <1>3 DEF Begin, Ids
  <2>2. skip' \subseteq Ids
    BY <1>3 DEF Begin, Reusable, Checkpointed
  <2>3. \A s \in Ids : task[s] = "wait"
    BY <1>3 DEF Begin, Blank, Early
  <2> QED BY <2>1, <2>2, <2>3 DEF Ordered
<1>4. CASE Verify
  <2>1. UNCHANGED <<path, plan>> /\ Ids' = Ids /\ phase = "verify"
    BY <1>4 DEF Verify, Ids
  <2>2. CASE UNCHANGED <<task, skip>> /\ phase' \in {"clear", "fallback"}
    BY <2>1, <2>2 DEF Ordered, Pass
  <2>3. CASE phase' = "run" /\ task' = [s \in Ids |-> "wait"] /\ skip' \subseteq Ids
    BY <2>1, <2>3 DEF Ordered, Pass
  <2> QED BY <1>4, <2>2, <2>3 DEF Verify, Revise
<1>5. CASE StepMove /\ path = "engine"
  <2>1. UNCHANGED <<path, plan, skip>> /\ Ids' = Ids
    BY <1>5, StepMoveCore DEF StepFrame
  <2>2. CASE phase' = "cancelled"
    BY <2>2 DEF Ordered, Pass
  <2>3. CASE EngineStep
    <3>1. CASE UNCHANGED task /\ phase = "run" /\ phase' \in {"run", "fallback", "cancelled"}
      BY <2>1, <3>1 DEF Ordered, Pass
    <3>2. ASSUME phase = "run", phase' = "run", NEW s \in Ids, TaskMove(s) PROVE Ordered'
      <4>0. /\ \A t \in Ids : task[t] \in {"paused", "running", "done"} => DepsDone(t)
            /\ \A t \in skip : task[t] # "running"
            /\ \A t \in Ids : plan.deps[t] \subseteq Ids
        BY <1>5, <3>2, InputsTyped DEF Ordered, Pass, DepsDone
      <4>1. PICK x : /\ Turns(s, x) /\ task[s] # "done"
                     /\ x = "failed" \/ DepsDone(s)
                     /\ x = "running" => s \notin skip
        BY <3>2, <4>0 DEF TaskMove
      <4>2. task'[s] = x /\ \A t \in Ids : t # s => task'[t] = task[t]
        BY <4>1 DEF Turns, Types
      <4>3. ASSUME NEW t \in Ids, task'[t] \in {"paused", "running", "done"}
            PROVE  \A d \in plan.deps[t] : task'[d] = "done"
        <5>1. DepsDone(t)
          BY <4>0, <4>1, <4>2, <4>3
        <5>2. s \notin plan.deps[t]
          BY <4>1, <5>1 DEF DepsDone
        <5> QED BY <4>0, <4>2, <5>1, <5>2 DEF DepsDone
      <4>4. \A t \in skip : task'[t] # "running"
        BY <4>0, <4>1, <4>2 DEF Types
      <4> QED BY <2>1, <3>2, <4>3, <4>4 DEF Ordered
    <3> QED BY <2>3, <3>1, <3>2 DEF EngineStep
  <2> QED BY <1>5, <2>2, <2>3, EngineSteps
<1>6. CASE StepMove /\ path # "engine"
  <2>1. path' = path
    BY <1>6, StepMoveCore DEF StepFrame
  <2> QED BY <1>6, <2>1 DEF Ordered
<1>7. CASE UNCHANGED vars
  BY <1>7 DEF vars, durable, steps, Ordered, Ids
<1> QED BY <1>1, <1>2, <1>3, <1>4, <1>5, <1>6, <1>7
        DEF Next, Advance, Work, Error, People, QuietMove, FreshMove, StepMove

-----------------------------------------------------------------------------
(***************************************************************************)
(* Freshness is kept.                                                      *)
(***************************************************************************)

\* The engine is at work, from rows of one plan and one pass.
AtWork == path = "engine" /\ phase \in Pass \cup {"completed"} /\ clean

LEMMA RoundsBegin ==
    ASSUME Types, Where, Blank, Rows, Kept, Begin
    PROVE  Rounds'
<1> SUFFICES ASSUME clean' PROVE Rounds'
  BY DEF Rounds
<1>0. /\ Ids' = Ids /\ UNCHANGED <<task, plan>> /\ phase \in Early
      /\ clean /\ \A r \in ckpt : r.round = 0 /\ r.deps = plan.deps
      /\ skip' = reused'
  BY DEF Begin, Ids, Early
<1>1. PICK found, load : found \subseteq Checkpointed /\ Loads(found, load)
  BY BeginLoads
<1>2. found \subseteq Ids /\ \A s \in Ids : plan.deps[s] \subseteq Ids
  BY <1>1, InputsTyped DEF Checkpointed
<1>3. \A s \in reused' : s \in found /\ plan.deps[s] \subseteq reused'
  BY <1>1, <1>2, ReusableIsClosed DEF Loads
<1>4. \A s \in reused' : obs'[s].v = load[s].v /\ obs'[s].from = load[s].from
  BY <1>1, <1>2, <1>3 DEF Loads
<1>5. ASSUME NEW s \in reused'
      PROVE  0 < obs'[s].v /\ \A d \in plan.deps[s] : obs'[s].from[d] = obs'[d].v
  <2>1. load[s] \in ckpt /\ load[s].step = s
    BY <1>1, <1>3 DEF Loads
  <2>2. 0 < load[s].v
    BY <2>1 DEF Rows
  <2>3. ASSUME NEW d \in plan.deps[s] PROVE load[s].from[d] = obs'[d].v
    <3>1. d \in reused' /\ load[d] \in ckpt /\ load[d].step = d
      BY <1>1, <1>3 DEF Loads
    <3>2. load[s].from[load[d].step] = load[d].v
      BY <1>0, <2>1, <3>1 DEF Kept
    <3> QED BY <1>4, <3>1, <3>2
  <2> QED BY <1>4, <2>2, <2>3
<1>6. \A s \in Ids : 0 < obs'[s].v => s \in reused'
  BY <1>1 DEF Loads, NoObs
<1>7. \A s \in Ids : task'[s] = "wait"
  BY <1>0 DEF Blank
<1> QED BY <1>0, <1>3, <1>5, <1>6, <1>7 DEF Rounds, Fresh

LEMMA RoundsRevised ==
    ASSUME Types, Ordered, Rounds, Verify
    PROVE  Rounds'
<1> SUFFICES ASSUME path = "engine", clean PROVE Rounds'
  BY DEF Rounds, Verify
<1>0. /\ Ids' = Ids /\ UNCHANGED <<plan, path, clean, inp>> /\ phase = "verify"
      /\ \A s \in Ids : plan.deps[s] \subseteq Ids
  BY InputsTyped DEF Verify, Ids
<1>1. CASE UNCHANGED <<replans, skip, task, obs>>
  BY <1>0, <1>1 DEF Rounds, Fresh, Pass
<1>2. ASSUME NEW flagged, MayRevise, Revise(flagged) PROVE Rounds'
  <2>1. /\ replans' = replans + 1 /\ skip' = Ids \ MustRerun(flagged)
        /\ task' = [s \in Ids |-> "wait"]
        /\ obs' = [s \in Ids |-> [obs[s] EXCEPT !.empty = FALSE]]
    BY <1>2 DEF Revise
  <2>2. \A o \in Observation : /\ [o EXCEPT !.empty = FALSE].v = o.v
                               /\ [o EXCEPT !.empty = FALSE].from = o.from
    BY DEF Observation
  <2>3. \A s \in Ids : obs'[s].v = obs[s].v /\ obs'[s].from = obs[s].from
    BY <2>1, <2>2 DEF Types
  <2>4. \A s \in Ids : Fresh(s)
    BY <1>0 DEF Ordered, Rounds, Pass
  <2>5. ASSUME NEW s \in skip', NEW d \in plan.deps[s] PROVE d \in skip'
    <3>1. s \in Ids /\ s \notin MustRerun(flagged) /\ d \in Ids
      BY <1>0, <2>1
    <3>2. s \in Range(plan.order) /\ \A t \in Range(plan.order) : plan.deps[t] \subseteq Range(plan.order)
      BY <1>0, <3>1 DEF Ids
    <3>3. d \notin MustRerun(flagged)
      BY <3>1, <3>2, AgainIsClosed DEF MustRerun
    <3> QED BY <2>1, <3>1, <3>3
  <2>6. \A s \in Ids : Fresh(s)'
    BY <1>0, <2>3, <2>4 DEF Fresh
  <2>7. replans' # 0 /\ skip' \subseteq Ids
    BY <2>1 DEF Types
  <2> QED BY <1>0, <2>1, <2>5, <2>6, <2>7 DEF Rounds
<1> QED BY <1>1, <1>2 DEF Verify, Revise

\* The parts of Rounds in a state of work.
LEMMA RoundsNow ==
    ASSUME Types, Rounds, Ordered, AtWork
    PROVE  /\ \A s \in skip : Fresh(s) /\ plan.deps[s] \subseteq skip /\ task[s] # "running"
           /\ \A s \in Ids : task[s] = "running" => /\ DepsDone(s)
                                                    /\ \A d \in plan.deps[s] : inp[s][d] = obs[d].v
           /\ \A s \in Ids : task[s] = "done" => Fresh(s) /\ DepsDone(s)
           /\ \A s \in Ids : plan.deps[s] \subseteq Ids
           /\ replans = 0 => \A s \in Ids : 0 < obs[s].v => s \in skip \/ task[s] = "done"
BY InputsTyped DEF Rounds, Ordered, AtWork, DepsDone

LEMMA RoundsProduced ==
    ASSUME Types, Rounds, Ordered, AtWork, NEW s \in Ids, task[s] = "running",
           Turns(s, "done"), Produces(s), UNCHANGED <<plan, skip, replans>>, Ids' = Ids
    PROVE  Rounds'
<1>0. PICK empty \in BOOLEAN : obs' = [obs EXCEPT ![s] = Output(s, empty)]
  BY DEF Produces
<1>1. /\ obs'[s].v = ver[s] + 1 /\ obs'[s].from = inp[s]
      /\ \A t \in Ids : t # s => obs'[t] = obs[t] /\ inp'[t] = inp[t] /\ task'[t] = task[t]
      /\ task'[s] = "done"
  BY <1>0 DEF Output, Types, Turns, Produces
<1>2. 0 < ver[s] + 1
  BY DEF Types, Sound, Ids
<1>3. \A t \in Ids : DepsDone(t) => s \notin plan.deps[t]
  BY DEF DepsDone
<1>4. \A t \in skip : s \notin plan.deps[t] /\ t # s
  BY RoundsNow
<1>5. s \notin plan.deps[s] /\ \A d \in plan.deps[s] : inp[s][d] = obs[d].v /\ d \in Ids
  BY <1>3, RoundsNow
<1>6. Fresh(s)'
  BY <1>1, <1>2, <1>5 DEF Fresh
<1>7. ASSUME NEW t \in Ids, t # s, s \notin plan.deps[t]
      PROVE  /\ Fresh(t) => Fresh(t)'
             /\ \A d \in plan.deps[t] : obs'[d].v = obs[d].v
  BY <1>1, <1>7, RoundsNow DEF Fresh
<1>8. \A t \in skip : Fresh(t)' /\ plan.deps[t] \subseteq skip
  BY <1>4, <1>7, RoundsNow DEF Types
<1>9. ASSUME NEW t \in Ids, task'[t] = "running"
      PROVE  \A d \in plan.deps[t] : inp'[t][d] = obs'[d].v
  <2>1. t # s /\ task[t] = "running" /\ inp'[t] = inp[t]
    BY <1>1, <1>9
  <2>2. s \notin plan.deps[t] /\ \A d \in plan.deps[t] : inp[t][d] = obs[d].v
    BY <1>3, <2>1, RoundsNow
  <2> QED BY <1>7, <2>1, <2>2
<1>10. ASSUME NEW t \in Ids, task'[t] = "done" PROVE Fresh(t)'
  <2>1. CASE t = s
    BY <1>6, <2>1
  <2>2. CASE t # s
    <3>1. task[t] = "done" /\ Fresh(t) /\ s \notin plan.deps[t]
      BY <1>1, <1>3, <1>10, <2>2, RoundsNow
    <3> QED BY <1>7, <2>2, <3>1
  <2> QED BY <2>1, <2>2
<1>11. replans = 0 => \A t \in Ids : 0 < obs'[t].v => t \in skip \/ task'[t] = "done"
  BY <1>1, RoundsNow
<1> QED BY <1>8, <1>9, <1>10, <1>11 DEF Rounds

LEMMA RoundsStep ==
    ASSUME Types, Where, Ordered, Rounds, StepMove, path = "engine"
    PROVE  Rounds'
<1>1. UNCHANGED <<path, plan, skip, replans, clean>> /\ Ids' = Ids
  BY StepMoveCore DEF StepFrame
<1> SUFFICES ASSUME clean, phase' \in Pass \cup {"completed"} PROVE Rounds'
  BY <1>1 DEF Rounds
<1>2. EngineStep /\ phase = "run" /\ AtWork
  BY EngineSteps DEF EngineStep, Pass, AtWork
<1>3. CASE UNCHANGED <<task, obs, inp, ckpt, ver>>
  BY <1>1, <1>2, <1>3, RoundsNow DEF Rounds, Fresh
<1>4. ASSUME NEW s \in Ids, TaskMove(s), NEW x, Turns(s, x), x \in {"failed", "paused"},
             task[s] # "done", UNCHANGED <<obs, inp>>
      PROVE  Rounds'
  <2>1. \A t \in Ids : task'[t] = task[t] \/ task'[t] \notin {"running", "done"}
    BY <1>4 DEF Turns, Types
  <2>2. \A t \in Ids : task[t] = "done" => task'[t] = "done"
    BY <1>4 DEF Turns, Types
  <2> QED BY <1>1, <1>4, <2>1, <2>2, RoundsNow, <1>2 DEF Rounds, Fresh
<1>5. ASSUME NEW s \in skip, Turns(s, "done"), UNCHANGED <<obs, inp>>
      PROVE  Rounds'
  <2>1. \A t \in Ids : task'[t] = task[t] \/ (t = s /\ task'[t] = "done")
    BY <1>5 DEF Turns, Types
  <2>2. Fresh(s)
    BY <1>2, RoundsNow
  <2> QED BY <1>1, <1>5, <2>1, <2>2, RoundsNow, <1>2 DEF Rounds, Fresh
<1>6. ASSUME NEW s \in Ids, task[s] \in {"wait", "paused"}, Turns(s, "running"),
             inp' = [inp EXCEPT ![s] = Inputs(s)], UNCHANGED obs
      PROVE  Rounds'
  <2>1. \A t \in Ids : t # s => task'[t] = task[t] /\ inp'[t] = inp[t]
    BY <1>6 DEF Turns, Types
  <2>2. task'[s] = "running" /\ inp'[s] = Inputs(s) /\ task[s] # "done"
    BY <1>6 DEF Turns, Types
  <2>3. \A d \in plan.deps[s] : inp'[s][d] = obs[d].v
    BY <2>2, InputsTyped
  <2> QED BY <1>1, <1>6, <2>1, <2>2, <2>3, RoundsNow, <1>2 DEF Rounds, Fresh
<1>7. ASSUME NEW s \in Ids, TaskMove(s) PROVE Rounds'
  BY <1>1, <1>2, <1>4, <1>5, <1>6, <1>7, RoundsProduced DEF TaskMove
<1> QED BY <1>2, <1>3, <1>7 DEF EngineStep

LEMMA RoundsKept ==
    ASSUME Types, Where, Blank, Rows, Ordered, Rounds, Kept, [Next]_vars
    PROVE  Rounds'
<1>1. CASE QuietMove
  <2>1. UNCHANGED <<path, plan, clean, task, skip, obs, inp, replans>> /\ Ids' = Ids
    BY <1>1 DEF QuietMove, GatePasses, GateTimesOut, GateCancels, Settle, Clear, WalkNext,
                Confirm, Send, TimeRunsOut, MoneyRunsOut, steps, Ids
  <2>2. path = "engine" /\ phase' \in Pass \cup {"completed"} => phase \in Pass \cup {"completed"}
    BY <1>1 DEF QuietMove, GatePasses, GateTimesOut, GateCancels, Settle, Clear, WalkNext,
                Confirm, Send, TimeRunsOut, MoneyRunsOut, Where, Early, Pass
  <2> QED BY <2>1, <2>2 DEF Rounds, Fresh
<1>2. CASE FreshMove
  BY <1>2 DEF FreshMove, MakePlan, Fallback, Crash, Rounds, Pass
<1>3. CASE Begin
  BY <1>3, RoundsBegin
<1>4. CASE Verify
  BY <1>4, RoundsRevised
<1>5. CASE StepMove /\ path = "engine"
  BY <1>5, RoundsStep
<1>6. CASE StepMove /\ path # "engine"
  <2>1. path' = path
    BY <1>6, StepMoveCore DEF StepFrame
  <2> QED BY <1>6, <2>1 DEF Rounds
<1>7. CASE UNCHANGED vars
  BY <1>7 DEF vars, durable, steps, Rounds, Fresh, Ids
<1> QED BY <1>1, <1>2, <1>3, <1>4, <1>5, <1>6, <1>7
        DEF Next, Advance, Work, Error, People, QuietMove, FreshMove, StepMove

-----------------------------------------------------------------------------
(***************************************************************************)
(* The rows of a round, and rows between lives.                            *)
(***************************************************************************)
SavedRow(r) ==
    /\ r.deps = plan.deps
    /\ obs[r.step].v = r.v => \A d \in plan.deps[r.step] : r.from[d] = obs[r.step].from[d]
    /\ r.round = 0 /\ obs[r.step].v = r.v =>
          \A s \in Ids : r.step \in plan.deps[s] /\ 0 < obs[s].v => obs[s].from[r.step] = r.v

LEMMA SavedParts ==
    /\ Saved <=> (path = "engine" /\ phase \in Pass /\ clean => \A r \in ckpt : SavedRow(r))
    /\ Saved' <=> (path' = "engine" /\ phase' \in Pass /\ clean' => \A r \in ckpt' : SavedRow(r)')
BY DEF Saved, SavedRow

LEMMA SavedBegin ==
    ASSUME Types, Where, Blank, Rows, Kept, Begin
    PROVE  Saved'
<1> SUFFICES ASSUME clean', NEW r \in ckpt PROVE SavedRow(r)'
  BY SavedParts DEF Begin, durable
<1>0. /\ Ids' = Ids /\ UNCHANGED plan /\ phase \in Early
      /\ clean /\ \A q \in ckpt : q.round = 0 /\ q.deps = plan.deps
  BY DEF Begin, Ids, Early
<1>1. PICK found, load : found \subseteq Checkpointed /\ Loads(found, load)
  BY BeginLoads
<1>2. found \subseteq Ids /\ \A s \in Ids : plan.deps[s] \subseteq Ids
  BY <1>1, InputsTyped DEF Checkpointed
<1>3. \A s \in reused' : s \in found /\ plan.deps[s] \subseteq reused'
  BY <1>1, <1>2, ReusableIsClosed DEF Loads
<1>4. \A s \in reused' : /\ obs'[s].v = load[s].v /\ obs'[s].from = load[s].from
                         /\ load[s] \in ckpt /\ load[s].step = s
  BY <1>1, <1>2, <1>3 DEF Loads
<1>5. \A s \in Ids : 0 < obs'[s].v => s \in reused'
  BY <1>1 DEF Loads, NoObs
<1>6. r.deps = plan.deps /\ r.step \in Ids /\ 0 < r.v
  BY <1>0 DEF Rows, Types, Sound, Ids
<1>7. ASSUME obs'[r.step].v = r.v, NEW d \in plan.deps[r.step]
      PROVE  r.from[d] = obs'[r.step].from[d]
  <2>1. r.step \in reused' /\ d \in reused'
    BY <1>3, <1>5, <1>6, <1>7
  <2>2. r.from[load[d].step] = load[d].v
    BY <1>0, <1>4, <1>6, <1>7, <2>1 DEF Kept
  <2>3. load[r.step].from[load[d].step] = load[d].v
    BY <1>0, <1>4, <1>7, <2>1 DEF Kept
  <2> QED BY <1>4, <2>1, <2>2, <2>3
<1>8. ASSUME NEW s \in Ids, r.step \in plan.deps[s], 0 < obs'[s].v
      PROVE  obs'[s].from[r.step] = r.v
  <2>1. s \in reused'
    BY <1>5, <1>8
  <2>2. load[s].from[r.step] = r.v
    BY <1>0, <1>4, <1>8, <2>1 DEF Kept
  <2> QED BY <1>4, <2>1, <2>2
<1> QED BY <1>0, <1>6, <1>7, <1>8 DEF SavedRow

LEMMA SavedSame ==
    ASSUME Types, Rows, Saved, UNCHANGED <<plan, path>>, Ids' = Ids,
           \A s \in Ids : obs'[s].v = obs[s].v /\ obs'[s].from = obs[s].from,
           ckpt' \subseteq ckpt, clean' => clean, phase \in Pass
    PROVE  Saved'
<1> SUFFICES ASSUME path = "engine", clean, NEW r \in ckpt PROVE SavedRow(r)'
  BY SavedParts
<1>1. SavedRow(r)
  BY SavedParts
<1>2. r.step \in Ids
  BY <1>1 DEF SavedRow, Rows, Types, Sound, Ids
<1> QED BY <1>1, <1>2 DEF SavedRow

LEMMA SavedProduced ==
    ASSUME Types, Rows, Ordered, Rounds, Saved, AtWork, phase \in Pass, NEW s \in Ids,
           task[s] = "running", Produces(s), UNCHANGED plan, Ids' = Ids
    PROVE  Saved'
<1> SUFFICES ASSUME NEW r \in ckpt' PROVE SavedRow(r)'
  BY SavedParts
<1>0. PICK empty \in BOOLEAN : /\ obs' = [obs EXCEPT ![s] = Output(s, empty)]
                               /\ ckpt' \subseteq ckpt \cup {Row(s, Output(s, empty))}
  BY DEF Produces
<1>1. /\ obs'[s].v = ver[s] + 1 /\ obs'[s].from = inp[s]
      /\ \A t \in Ids : t # s => obs'[t] = obs[t]
      /\ ver[s] \in Nat
  BY <1>0 DEF Output, Types, Sound, Ids
<1>2. \A t \in Ids : DepsDone(t) => s \notin plan.deps[t]
  BY DEF DepsDone
<1>3. s \notin plan.deps[s] /\ \A d \in plan.deps[s] : inp[s][d] = obs[d].v /\ d \in Ids
  BY <1>2, RoundsNow
<1>4. CASE r \in ckpt
  <2>1. SavedRow(r) /\ r.step \in Ids /\ r.v <= ver[r.step] /\ r.v \in Nat
    BY <1>4, SavedParts DEF AtWork, Rows, SavedRow, Types, Sound, Ids
  <2>2. CASE r.step = s
    <3>1. obs'[r.step].v # r.v
      BY <1>1, <2>1, <2>2
    <3> QED BY <2>1, <3>1 DEF SavedRow
  <2>3. CASE r.step # s
    <3>1. obs'[r.step] = obs[r.step]
      BY <1>1, <2>1, <2>3
    <3>2. ASSUME r.round = 0, obs[r.step].v = r.v, NEW t \in Ids, r.step \in plan.deps[t],
                 0 < obs'[t].v
          PROVE  obs'[t].from[r.step] = r.v
      <4>1. CASE t = s
        BY <1>1, <1>3, <3>2, <4>1
      <4>2. CASE t # s
        <5>1. obs'[t] = obs[t]
          BY <1>1, <4>2
        <5> QED BY <2>1, <3>2, <5>1 DEF SavedRow
      <4> QED BY <4>1, <4>2
    <3> QED BY <2>1, <3>1, <3>2 DEF SavedRow
  <2> QED BY <2>2, <2>3
<1>5. CASE r = Row(s, Output(s, empty))
  <2>1. r.step = s /\ r.v = ver[s] + 1 /\ r.from = inp[s] /\ r.round = replans /\ r.deps = plan.deps
    BY <1>5 DEF Row, Output
  <2>2. ASSUME replans = 0, NEW t \in Ids, s \in plan.deps[t], 0 < obs'[t].v PROVE FALSE
    <3>1. t # s /\ 0 < obs[t].v
      BY <1>1, <1>3, <2>2
    <3>2. t \in skip \/ task[t] = "done"
      BY <2>2, <3>1, RoundsNow
    <3>3. CASE t \in skip
      BY <2>2, <3>3, RoundsNow
    <3>4. CASE task[t] = "done"
      BY <1>2, <2>2, <3>4, RoundsNow
    <3> QED BY <3>2, <3>3, <3>4
  <2> QED BY <1>1, <2>1, <2>2 DEF SavedRow
<1> QED BY <1>0, <1>4, <1>5

LEMMA SavedKept ==
    ASSUME Types, Where, Blank, Rows, Ordered, Rounds, Saved, Kept, [Next]_vars
    PROVE  Saved'
<1>1. CASE QuietMove
  <2>1. UNCHANGED <<path, plan, clean, obs>> /\ Ids' = Ids /\ ckpt' \subseteq ckpt
    BY <1>1 DEF QuietMove, GatePasses, GateTimesOut, GateCancels, Settle, Clear, WalkNext,
                Confirm, Send, TimeRunsOut, MoneyRunsOut, steps, durable, Ids
  <2>2. path = "engine" /\ phase' \in Pass => phase \in Pass
    BY <1>1 DEF QuietMove, GatePasses, GateTimesOut, GateCancels, Settle, Clear, WalkNext,
                Confirm, Send, TimeRunsOut, MoneyRunsOut, Where, Early, Pass
  <2>3. CASE phase \in Pass
    BY <2>1, <2>3, SavedSame
  <2> QED BY <2>1, <2>2, <2>3 DEF Saved
<1>2. CASE FreshMove
  BY <1>2 DEF FreshMove, MakePlan, Fallback, Crash, Saved, Pass
<1>3. CASE Begin
  BY <1>3, SavedBegin
<1>4. CASE Verify
  <2>1. UNCHANGED <<path, plan, clean, ckpt>> /\ Ids' = Ids /\ phase \in Pass
    BY <1>4 DEF Verify, Ids, durable, Pass
  <2>2. obs' = obs \/ obs' = [s \in Ids |-> [obs[s] EXCEPT !.empty = FALSE]]
    BY <1>4 DEF Verify, Revise
  <2>3. \A o \in Observation : /\ [o EXCEPT !.empty = FALSE].v = o.v
                               /\ [o EXCEPT !.empty = FALSE].from = o.from
    BY DEF Observation
  <2>4. \A s \in Ids : obs'[s].v = obs[s].v /\ obs'[s].from = obs[s].from
    BY <2>2, <2>3 DEF Types
  <2> QED BY <2>1, <2>4, SavedSame
<1>5. CASE StepMove /\ path = "engine"
  <2>1. UNCHANGED <<path, plan, clean>> /\ Ids' = Ids
    BY <1>5, StepMoveCore DEF StepFrame
  <2> SUFFICES ASSUME clean, phase' \in Pass PROVE Saved'
    BY <2>1 DEF Saved
  <2>2. EngineStep /\ phase \in Pass /\ AtWork
    BY <1>5, EngineSteps DEF EngineStep, Pass, AtWork
  <2>3. CASE UNCHANGED <<obs, ckpt>>
    BY <2>1, <2>2, <2>3, SavedSame
  <2>4. ASSUME NEW s \in Ids, task[s] = "running", Produces(s) PROVE Saved'
    BY <2>1, <2>2, <2>4, SavedProduced
  <2> QED BY <2>2, <2>3, <2>4 DEF EngineStep, TaskMove
<1>6. CASE StepMove /\ path # "engine"
  <2>1. path' = path
    BY <1>6, StepMoveCore DEF StepFrame
  <2> QED BY <1>6, <2>1 DEF Saved
<1>7. CASE UNCHANGED vars
  BY <1>7 DEF vars, durable, steps, Saved, Ids
<1> QED BY <1>1, <1>2, <1>3, <1>4, <1>5, <1>6, <1>7
        DEF Next, Advance, Work, Error, People, QuietMove, FreshMove, StepMove

\* Two rows rest on each other.
RestsOn(r, q) ==
    r.round = 0 /\ q.round = 0 /\ r.deps = q.deps /\ q.step \in r.deps[r.step] =>
       r.from[q.step] = q.v

LEMMA KeptAfterCrash ==
    ASSUME Types, Where, Rows, Saved, Kept, Crash
    PROVE  Kept'
<1> SUFFICES ASSUME clean', NEW r \in ckpt, NEW q \in ckpt PROVE RestsOn(r, q)
  BY DEF Kept, RestsOn, Crash
<1>0. clean /\ (phase \in Early \/ \A x \in ckpt : obs[x.step].v = x.v)
  BY DEF Crash, Early
<1>1. CASE phase \in Early
  BY <1>0, <1>1 DEF Kept, RestsOn
<1>2. CASE phase \notin Early
  <2>1. path = "engine" /\ phase \in Pass
    BY <1>2 DEF Crash, Event, Where, Final, Early
  <2>2. obs[r.step].v = r.v /\ obs[q.step].v = q.v
    BY <1>0, <1>2
  <2>3. SavedRow(r) /\ SavedRow(q)
    BY <1>0, <2>1, SavedParts
  <2>4. r.step \in Ids /\ 0 < r.v
    BY <2>3 DEF Rows, SavedRow, Types, Sound, Ids
  <2>5. ASSUME q.round = 0, q.step \in r.deps[r.step] PROVE r.from[q.step] = q.v
    <3>1. q.step \in plan.deps[r.step]
      BY <2>3, <2>5 DEF SavedRow
    <3>2. obs[r.step].from[q.step] = q.v
      BY <2>2, <2>3, <2>4, <2>5, <3>1 DEF SavedRow
    <3>3. r.from[q.step] = obs[r.step].from[q.step]
      BY <2>2, <2>3, <3>1 DEF SavedRow
    <3> QED BY <3>2, <3>3
  <2> QED BY <2>5 DEF RestsOn
<1> QED BY <1>1, <1>2

LEMMA KeptKept ==
    ASSUME Types, Where, Rows, Saved, Kept, [Next]_vars
    PROVE  Kept'
<1>1. CASE QuietMove
  BY <1>1 DEF QuietMove, GatePasses, GateTimesOut, GateCancels, Settle, Clear, WalkNext, Confirm,
              Send, TimeRunsOut, MoneyRunsOut, durable, Kept, Early
<1>2. CASE MakePlan
  BY <1>2 DEF MakePlan, Kept, Early
<1>3. CASE Fallback
  BY <1>3 DEF Fallback, Kept
<1>4. CASE Crash
  BY <1>4, KeptAfterCrash
<1>5. CASE PassMove
  BY <1>5 DEF PassMove, Begin, Verify, Revise, Kept, Early
<1>6. CASE StepMove
  BY <1>6 DEF StepMove, WalkControl, WalkPauseEnds, WalkBegin, FailsBehind, Control, PauseEnds,
              EngineGivesUp, EngineCancelled, Launch, Retry, StepFails, WalkFails, Finish,
              WalkProduce, Kept, Early
<1>7. CASE UNCHANGED vars
  BY <1>7 DEF vars, durable, Kept
<1> QED BY <1>1, <1>2, <1>3, <1>4, <1>5, <1>6, <1>7
        DEF Next, Advance, Work, Error, People, QuietMove, PassMove, StepMove

-----------------------------------------------------------------------------
(***************************************************************************)
(* The stages of a profile and the walker's plan.                          *)
(***************************************************************************)
LEMMA StagesOrdered ==
    ASSUME Types, plan = PlanFor(profile)
    PROVE  /\ StageNumbers(profile) \subseteq Nat /\ StageNumbers(profile) # {}
           /\ \A s \in Ids : \E n \in StageNumbers(profile) : At(s, n)
           /\ \A s, n : At(s, n) => s \in Ids /\ n \in StageNumbers(profile)
           /\ \A s, d, n, m : At(s, n) /\ At(d, m) => /\ s = d => n = m
                                                      /\ d \in plan.deps[s] => m < n
           /\ \A e \in GraphFor(profile).edges : e[1] \in plan.deps[e[2]]
<1> DEFINE R == Range(StagesFor(profile))
<1>0. Staging(plan, R, GraphFor(profile).edges)
  BY ProfilesStaged DEF Types
<1>1. \A s, n : At(s, n) <=> \E sp \in R : sp.id = s /\ sp.stage = n
  BY DEF At, StageGroup
<1>2. StageNumbers(profile) = {sp.stage : sp \in R}
  BY DEF StageNumbers
<1>3. Ids = Range(plan.order)
  BY DEF Ids
<1> HIDE DEF R
<1>4. StageNumbers(profile) \subseteq Nat /\ StageNumbers(profile) # {}
  BY <1>0, <1>2 DEF Staging
<1>5. ASSUME NEW s \in Ids PROVE \E n \in StageNumbers(profile) : At(s, n)
  <2>1. PICK sp \in R : sp.id = s
    BY <1>0, <1>3 DEF Staging
  <2>2. sp.stage \in StageNumbers(profile) /\ At(s, sp.stage)
    BY <1>1, <1>2, <2>1
  <2> QED BY <2>2
<1>6. ASSUME NEW s, NEW n, At(s, n) PROVE s \in Ids /\ n \in StageNumbers(profile)
  BY <1>0, <1>1, <1>2, <1>3, <1>6 DEF Staging
<1>7. ASSUME NEW s, NEW d, NEW n, NEW m, At(s, n), At(d, m)
      PROVE  /\ s = d => n = m
             /\ d \in plan.deps[s] => m < n
  <2>1. PICK sp \in R : sp.id = s /\ sp.stage = n
    BY <1>1, <1>7
  <2>2. PICK sq \in R : sq.id = d /\ sq.stage = m
    BY <1>1, <1>7
  <2> QED BY <1>0, <2>1, <2>2 DEF Staging
<1>8. \A e \in GraphFor(profile).edges : e[1] \in plan.deps[e[2]]
  BY <1>0 DEF Staging
<1> QED BY <1>4, <1>5, <1>6, <1>7, <1>8

LEMMA GroupAtStage == \A s : s \in Group <=> At(s, stage)
BY DEF Group, At

-----------------------------------------------------------------------------
(***************************************************************************)
(* The cancel.                                                             *)
(***************************************************************************)
LEMMA LateMarked ==
    ASSUME Types, NEW c, NEW s \in Ids, Passes(s, c)
    PROVE  late' = late \/ (c.cancel /\ late' = late \cup {s} /\ Turns(s, "running"))
BY DEF Passes, Turns

LEMMA LateFromPause ==
    ASSUME Types, Where, Ordered, Late, NEW s \in Ids, PauseEnds(s)
    PROVE  Late'
<1>0. /\ phase = "run" /\ task[s] = "paused" /\ UNCHANGED <<ctl, plan>> /\ Ids' = Ids
      /\ \A t \in Ids : plan.deps[t] \subseteq Ids
  BY InputsTyped DEF PauseEnds, Ids
<1>1. path = "engine"
  BY <1>0 DEF Where, Walk, Final, Types
<1>2. \A t \in Ids : task[t] \in {"paused", "running", "done"} => DepsDone(t)
  BY <1>0, <1>1 DEF Ordered, Pass, DepsDone
<1>3. \A t \in Ids : DepsDone(t) => s \notin plan.deps[t]
  BY <1>0 DEF DepsDone
<1>4. CASE EngineGivesUp
  BY <1>0, <1>4 DEF EngineGivesUp, panel, steps, Late, CancelStopsNextLayer
<1>5. CASE Passes(s, ctl) /\ phase' = phase
  <2>1. Late /\ (late # {} => /\ plan.deps[s] \cap late = {}
                              /\ \A t \in late : DepsDone(t))
    BY <1>0 DEF Late, DepsDone
  <2>2. /\ late' = late \/ (ctl.cancel /\ late' = late \cup {s})
        /\ late' \subseteq Ids
    BY <1>5, LateMarked, PassesTyped DEF MoveTypes
  <2>3. \E x \in {"done", "running"} : Turns(s, x)
    BY <1>5 DEF Passes, Turns
  <2>4. \A t \in Ids : /\ task[t] = "done" => task'[t] = "done"
                       /\ task'[t] = "paused" => task[t] = "paused" /\ t # s
    BY <1>0, <2>3 DEF Turns, Types
  <2>5. late' # {} => ctl'.cancel
    BY <1>0, <2>2 DEF Late
  <2>6. ASSUME NEW t \in late' PROVE DepsDone(t) /\ plan.deps[t] \cap late' = {}
    <3>1. DepsDone(t)
      BY <1>0, <1>2, <2>1, <2>2, <2>6
    <3>2. s \notin plan.deps[t]
      BY <1>3, <2>2, <2>6, <3>1
    <3>3. plan.deps[t] \cap late = {}
      BY <2>1, <2>2, <2>6 DEF Late, CancelStopsNextLayer
    <3> QED BY <2>2, <3>1, <3>2, <3>3
  <2>7. ASSUME NEW t \in Ids, task'[t] = "paused" PROVE plan.deps[t] \cap late' = {}
    <3>1. task[t] = "paused" /\ s \notin plan.deps[t]
      BY <1>2, <1>3, <2>4, <2>7
    <3>2. plan.deps[t] \cap late = {}
      BY <1>0, <3>1 DEF Late
    <3> QED BY <2>2, <3>1, <3>2
  <2>8. \A t \in late' : \A d \in plan.deps[t] : task'[d] = "done"
    BY <1>0, <2>2, <2>4, <2>6 DEF DepsDone
  <2> QED BY <1>0, <1>5, <2>5, <2>6, <2>7, <2>8 DEF Late, CancelStopsNextLayer
<1> QED BY <1>4, <1>5 DEF PauseEnds

LEMMA LateFromControl ==
    ASSUME Types, Where, Ordered, Late, NEW s \in Ids, Control(s)
    PROVE  Late'
<1>0. /\ phase = "run" /\ task[s] = "wait" /\ DepsDone(s) /\ UNCHANGED plan /\ Ids' = Ids
      /\ \A t \in Ids : plan.deps[t] \subseteq Ids
  BY InputsTyped DEF Control, DepsDone, Ids
<1>1. path = "engine"
  BY <1>0 DEF Where, Walk, Final, Types
<1>2. \A t \in Ids : task[t] \in {"paused", "running", "done"} => DepsDone(t)
  BY <1>0, <1>1 DEF Ordered, Pass, DepsDone
<1>3. \A t \in Ids : DepsDone(t) => s \notin plan.deps[t]
  BY <1>0 DEF DepsDone
<1>4. CASE EngineGivesUp /\ UNCHANGED ctl
  BY <1>0, <1>4 DEF EngineGivesUp, panel, steps, Late, CancelStopsNextLayer
<1>5. CASE EngineCancelled /\ UNCHANGED ctl
  BY <1>0, <1>5 DEF EngineCancelled, steps, Late, CancelStopsNextLayer
<1>6. CASE ~CancelSeen /\ phase' = phase /\ (late' = late \/ Passes(s, ctl'))
  <2>1. late = {}
    BY <1>6 DEF Late, CancelSeen
  <2>2. late' = {} \/ (ctl'.cancel /\ late' = {s} /\ Turns(s, "running"))
    BY <1>6, <2>1, LateMarked
  <2>3. CASE late' = {}
    BY <1>0, <1>6, <2>3 DEF Late, CancelStopsNextLayer
  <2>4. CASE ctl'.cancel /\ late' = {s} /\ Turns(s, "running")
    <3>1. s \notin plan.deps[s]
      BY <1>0, <1>3
    <3>2. \A t \in Ids : t # s => task'[t] = task[t]
      BY <2>4 DEF Turns, Types
    <3>3. task'[s] = "running"
      BY <2>4 DEF Turns, Types
    <3>4. \A t \in Ids : task'[t] = "paused" => s \notin plan.deps[t]
      BY <1>2, <1>3, <3>2, <3>3
    <3>5. \A d \in plan.deps[s] : task'[d] = "done"
      BY <1>0, <3>1, <3>2 DEF DepsDone
    <3> QED BY <1>0, <1>6, <2>4, <3>1, <3>4, <3>5 DEF Late, CancelStopsNextLayer
  <2> QED BY <2>2, <2>3, <2>4
<1> QED BY <1>4, <1>5, <1>6 DEF Control, panel

LEMMA LateAfterLaunch ==
    ASSUME Types, plan = PlanFor(profile), late = {}, NEW c, c = ctl', Launch(c),
           UNCHANGED plan, Ids' = Ids
    PROVE  Late'
<1>1. phase' = "group" /\ (late' = {} \/ (c.cancel /\ late' \subseteq Group))
  BY DEF Launch
<1>2. \A s \in Group : plan.deps[s] \cap Group = {}
  <2>1. \A s \in Group, d \in Group : At(s, stage) /\ At(d, stage)
    BY GroupAtStage
  <2>2. \A s \in Group, d \in Group : d \in plan.deps[s] => stage < stage
    BY <2>1, StagesOrdered
  <2>3. StageNumbers(profile) \subseteq Nat /\ \A s \in Group : stage \in StageNumbers(profile)
    BY <2>1, StagesOrdered
  <2> QED BY <2>2, <2>3
<1> QED BY <1>1, <1>2 DEF Late, CancelStopsNextLayer

LEMMA LateKept ==
    ASSUME Types, Where, Blank, Ordered, Late, [Next]_vars
    PROVE  Late'
<1>1. CASE QuietMove
  <2>1. UNCHANGED <<late, task, plan>> /\ Ids' = Ids
    BY <1>1 DEF QuietMove, GatePasses, GateTimesOut, GateCancels, Settle, Clear, WalkNext,
                Confirm, Send, TimeRunsOut, MoneyRunsOut, steps, panel, Ids
  <2>2. phase' = phase \/ phase' \notin {"run", "paused"}
    BY <1>1 DEF QuietMove, GatePasses, GateTimesOut, GateCancels, Settle, Clear, WalkNext,
                Confirm, Send, TimeRunsOut, MoneyRunsOut
  <2>3. late # {} => ctl'.cancel
    <3>1. CASE GatePasses
      BY <3>1 DEF GatePasses, Blank, Early
    <3>2. CASE \E cmd \in Commands : Send(cmd)
      BY <3>2, CommandTyped DEF Send, Late, Types
    <3>3. CASE UNCHANGED ctl
      BY <3>3 DEF Late
    <3> QED BY <1>1, <3>1, <3>2, <3>3 DEF QuietMove, GateTimesOut, GateCancels, Settle, Clear,
                                          WalkNext, Confirm, TimeRunsOut, MoneyRunsOut
  <2> QED BY <2>1, <2>2, <2>3 DEF Late, CancelStopsNextLayer
<1>2. CASE FreshMove
  <2>1. late' = {} /\ phase' \in Early
    BY <1>2 DEF FreshMove, MakePlan, Fallback, Crash, FreshSteps, Early
  <2> QED BY <2>1 DEF Late, CancelStopsNextLayer, Early
<1>3. CASE Begin
  <2>1. late' = {} /\ phase' = "run"
    BY <1>3 DEF Begin, Blank, Early
  <2> QED BY <2>1 DEF Late, CancelStopsNextLayer
<1>4. CASE Verify
  <2>1. UNCHANGED <<late, ctl, plan>> /\ Ids' = Ids
    BY <1>4 DEF Verify, panel, Ids
  <2>2. phase' \notin {"run", "paused"} \/ (phase' = "run" /\ task' = [s \in Ids |-> "wait"])
    BY <1>4 DEF Verify, Revise
  <2> QED BY <2>1, <2>2 DEF Late, CancelStopsNextLayer
<1>5. ASSUME NEW s \in Ids, FailsBehind(s) \/ Retry(s) \/ StepFails(s) \/ Finish(s)
      PROVE  Late'
  <2>1. UNCHANGED <<late, ctl, plan, phase>> /\ Ids' = Ids /\ phase = "run"
    BY <1>5 DEF FailsBehind, Retry, StepFails, Finish, panel, Ids
  <2>2. \A t \in Ids : /\ task[t] = "done" => task'[t] = "done"
                       /\ task'[t] = "paused" => task[t] = "paused"
    BY <1>5 DEF FailsBehind, Retry, StepFails, Finish, Types
  <2>3. \A t \in Ids : plan.deps[t] \subseteq Ids
    BY InputsTyped
  <2>4. late \subseteq Ids
    BY DEF Types
  <2> QED BY <2>1, <2>2, <2>3, <2>4 DEF Late, CancelStopsNextLayer
<1>6. ASSUME NEW s \in Ids, WalkFails(s) \/ WalkProduce(s) PROVE Late'
  BY <1>6 DEF WalkFails, WalkProduce, Late, CancelStopsNextLayer
<1>7. CASE WalkControl
  <2>1. plan = PlanFor(profile) /\ UNCHANGED plan /\ Ids' = Ids
    BY <1>7 DEF WalkControl, Where, Types, Early, Pass, Ids
  <2>2. CASE UNCHANGED <<ctl, late>> /\ phase' \in {"failed", "cancelled"}
    BY <2>1, <2>2 DEF Late, CancelStopsNextLayer
  <2>3. CASE ~CancelSeen /\ (Launch(ctl') \/ (phase' = "paused" /\ late' = late))
    <3>1. late = {}
      BY <2>3 DEF Late, CancelSeen
    <3>2. CASE Launch(ctl')
      BY <2>1, <3>1, <3>2, LateAfterLaunch
    <3>3. CASE phase' = "paused" /\ late' = late
      BY <3>1, <3>3 DEF Late, CancelStopsNextLayer
    <3> QED BY <2>3, <3>2, <3>3
  <2> QED BY <1>7, <2>2, <2>3 DEF WalkControl
<1>8. CASE WalkPauseEnds
  <2>1. plan = PlanFor(profile) /\ UNCHANGED <<plan, ctl>> /\ Ids' = Ids /\ late = {}
    BY <1>8 DEF WalkPauseEnds, Where, Types, Early, Pass, Ids, Late
  <2>2. CASE UNCHANGED late /\ phase' = "failed"
    BY <2>1, <2>2 DEF Late, CancelStopsNextLayer
  <2>3. CASE Launch(ctl)
    BY <2>1, <2>3, LateAfterLaunch
  <2> QED BY <1>8, <2>2, <2>3 DEF WalkPauseEnds
<1>9. CASE WalkBegin
  BY <1>9 DEF WalkBegin, Late, CancelStopsNextLayer
<1>10. CASE UNCHANGED vars
  BY <1>10 DEF vars, durable, panel, steps, Late, CancelStopsNextLayer, Ids
<1> QED BY <1>1, <1>2, <1>3, <1>4, <1>5, <1>6, <1>7, <1>8, <1>9, <1>10,
           LateFromControl, LateFromPause
        DEF Next, Advance, Work, Error, People, QuietMove, FreshMove

-----------------------------------------------------------------------------
(***************************************************************************)
(* The panel.                                                              *)
(***************************************************************************)

LEMMA PanelParts ==
    Panel' <=>
      /\ path' = "engine" /\ phase' \in {"run", "verify", "clear", "completed"} /\ Intact' =>
            \A s \in Ids' : Told(s)'
      /\ path' = "engine" /\ phase' = "cancelled" => \A s \in Ids' : node'[s] \in Settled
      /\ path' = "engine" /\ phase' = "withdrawn" => \A s \in Ids' : node'[s] = "none"
      /\ path' = "walker" /\ phase' \in {"failed", "cancelled", "withdrawn"} =>
            \A s \in Ids' : node'[s] # "running"
BY DEF Panel

\* A step whose dependencies have reported is started at once.
LEMMA JoinOfReported ==
    ASSUME Types, path = "engine", NEW s \in Ids, ~Exhausted, DepsDone(s),
           \A d \in plan.deps[s] : Reported(d)
    PROVE  JoinComplete(s)
<1> SUFFICES ASSUME NEW e \in Edges, e[2] = s PROVE e[1] \in handed
  BY DEF JoinComplete
<1>1. PICK t \in Range(plan.order) : e \in plan.deps[t] \X {t}
  BY DEF Edges, GraphFromPlan
<1>2. e[1] \in plan.deps[s]
  BY <1>1
<1> QED BY <1>2 DEF Reported, DepsDone

\* Joins stay complete.
LEMMA JoinStays ==
    ASSUME UNCHANGED <<path, plan, profile>>, handed \subseteq handed', NEW s, JoinComplete(s)
    PROVE  JoinComplete(s)'
BY DEF JoinComplete, Edges

\* One step of a run changes its task and its node; the others keep theirs, and what
\* they have handed on.
LEMMA PanelOfOne ==
    ASSUME Types, Panel, path = "engine", phase = "run", phase' = "run",
           UNCHANGED <<path, plan, profile, skip, reused>>, Ids' = Ids,
           handed \subseteq handed', Exhausted => Exhausted', NEW s \in Ids,
           task[s] # "failed",
           \A t \in Ids : t # s => task'[t] = task[t] /\ node'[t] = node[t],
           task'[s] # "failed" /\ Intact => Told(s)'
    PROVE  Panel'
<1> SUFFICES ASSUME Intact' PROVE \A t \in Ids : Told(t)'
  BY PanelParts
<1>1. Intact /\ task'[s] # "failed"
  BY DEF Intact
<1>2. \A t \in Ids : Told(t)
  BY <1>1 DEF Panel
<1>3. ASSUME NEW t \in Ids, t # s PROVE Told(t)'
  <2>1. Told(t) /\ task'[t] = task[t] /\ node'[t] = node[t]
    BY <1>2, <1>3
  <2>2. Waits(t)'
    BY <2>1, JoinStays DEF Told, Waits
  <2> QED BY <2>1, <2>2 DEF Told, Open, Reported, Begun
<1> QED BY <1>1, <1>3

LEMMA PanelPasses ==
    ASSUME Types, Panel, path = "engine", phase = "run", phase' = "run",
           UNCHANGED <<path, plan, profile, skip, reused>>, Ids' = Ids, NEW s \in Ids, NEW c,
           task[s] \in {"wait", "paused"}, Passes(s, c), Intact => JoinComplete(s)
    PROVE  Panel'
<1>0. s \in StepNames /\ Ids \subseteq StepNames /\ node \in [StepNames -> NodeStatus]
  BY DEF Types, Sound, Ids
<1>1. \A t \in Ids : t # s => task'[t] = task[t]
  BY DEF Passes, Types
<1>2. \A t \in Ids : t # s => Started(node, s)[t] = node[t]
  BY <1>0 DEF Started
<1>3. Started(node, s) \in [StepNames -> NodeStatus]
  BY <1>0, PanelTyped
<1>4. \A t \in Ids : t # s => Completed(Started(node, s), s)[t] = node[t]
  BY <1>0, <1>2, <1>3 DEF Completed
<1>5. node' \in {node, Started(node, s), Completed(Started(node, s), s)}
  BY DEF Passes, ReportsReused
<1>6. \A t \in Ids : t # s => node'[t] = node[t]
  BY <1>2, <1>4, <1>5
<1>7. handed \subseteq handed' /\ (Exhausted => Exhausted')
  <2>1. handed \subseteq handed'
    BY DEF Passes, ReportsReused
  <2> QED BY <2>1, PassesTyped DEF MoveTypes
<1>8. ASSUME Intact PROVE Told(s)'
  <2>0. Told(s)
    BY <1>8 DEF Panel
  <2>1. Started(node, s)[s] \in {node[s], "running"} /\ Started(node, s)[s] \in {"running", "completed"}
    BY <1>0, <1>8, <2>0 DEF Started, Told, Open, Settled
  <2>2. task'[s] \in {"done", "running"}
    BY DEF Passes, Types
  <2>3. CASE s \in skip /\ s \in reused
    <3>1. task'[s] = "done" /\ ReportsReused(s)
      BY <2>3 DEF Passes, Types
    <3>2. CASE node' = Completed(Started(node, s), s) /\ handed' = handed \cup {s}
      <4>1. node'[s] = "completed" /\ s \in handed'
        BY <1>0, <1>3, <2>1, <3>2 DEF Completed
      <4> QED BY <3>1, <4>1 DEF Told, Open, Reported, Begun, Waits
    <3>3. CASE budget' = (IF Exhausted THEN budget ELSE "spent") /\ node' = Started(node, s)
      <4>1. Exhausted' /\ node'[s] \in {"running", "completed"}
        BY <2>1, <3>3 DEF Exhausted
      <4> QED BY <3>1, <4>1 DEF Told, Open, Reported, Begun, Waits
    <3> QED BY <3>1, <3>2, <3>3 DEF ReportsReused
  <2>4. CASE s \in skip /\ s \notin reused
    <3>1. node' = node /\ handed' = handed /\ task'[s] = "done" /\ budget' = budget
      BY <2>4 DEF Passes, Types
    <3>2. Open(s)' /\ Begun(s)' /\ Waits(s)'
      BY <2>0, <3>1 DEF Told, Open, Begun, Waits
    <3>3. Reported(s)'
      BY <2>0, <2>4, <3>1 DEF Told, Reported, Exhausted
    <3> QED BY <3>2, <3>3 DEF Told
  <2>5. CASE s \notin skip
    <3>1. node'[s] \in {"running", "completed"} /\ task'[s] = "running"
      BY <2>1, <2>5 DEF Passes, Types
    <3> QED BY <2>5, <3>1 DEF Told, Open, Reported, Begun, Waits
  <2> QED BY <2>3, <2>4, <2>5
<1> QED BY <1>1, <1>6, <1>7, <1>8, PanelOfOne

\* Leaving the engine.
LEMMA PanelLeaves ==
    ASSUME Types, path' = "engine", phase' = "fallback" \/ EngineCancelled, Ids' = Ids
    PROVE  Panel'
<1>1. CASE phase' = "fallback"
  BY <1>1, PanelParts
<1>2. CASE EngineCancelled
  <2>1. node \in [StepNames -> NodeStatus] /\ Ids \subseteq StepNames
    BY DEF Types, Sound, Ids
  <2>2. \A t \in Ids : node'[t] \in Settled
    BY <1>2, <2>1 DEF EngineCancelled, CancelUnfinished, Settled
  <2> QED BY <1>2, <2>2, PanelParts DEF EngineCancelled
<1> QED BY <1>1, <1>2

LEMMA PanelStep ==
    ASSUME Types, Where, Ordered, Panel, path = "engine", StepMove
    PROVE  Panel'
<1>0. UNCHANGED <<path, plan, profile, skip, reused>> /\ Ids' = Ids /\ path' = "engine"
  BY StepMoveCore DEF StepFrame
<1>a. node \in [StepNames -> NodeStatus] /\ Ids \subseteq StepNames
  BY DEF Types, Sound, Ids
<1>1. ASSUME NEW s \in Ids, FailsBehind(s) \/ StepFails(s) PROVE Panel'
  <2>1. phase' = "run" /\ task'[s] = "failed"
    BY <1>1 DEF FailsBehind, StepFails, Types
  <2> QED BY <1>0, <2>1, PanelParts DEF Intact
<1>2. ASSUME NEW s \in Ids, Control(s) PROVE Panel'
  <2>0. phase = "run" /\ task[s] = "wait" /\ DepsDone(s)
    BY <1>2 DEF Control, DepsDone
  <2>1. CASE EngineGivesUp \/ EngineCancelled
    BY <1>0, <2>1, PanelLeaves DEF EngineGivesUp
  <2>2. ASSUME ~Exhausted, Intact PROVE JoinComplete(s)
    <3>1. \A t \in Ids : Told(t)
      BY <2>0, <2>2 DEF Panel
    <3>2. plan.deps[s] \subseteq Ids
      BY InputsTyped
    <3>3. \A d \in plan.deps[s] : Reported(d)
      BY <3>1, <3>2 DEF Told
    <3> QED BY <2>0, <2>2, <3>3, JoinOfReported
  <2>3. CASE ~Exhausted /\ Passes(s, ctl') /\ phase' = phase
    BY <1>0, <2>0, <2>2, <2>3, PanelPasses
  <2>4. CASE /\ ~Exhausted /\ task' = [task EXCEPT ![s] = "paused"]
             /\ UNCHANGED <<panel, phase, budget>>
    <3>1. task'[s] = "paused" /\ \A t \in Ids : t # s => task'[t] = task[t]
      BY <2>4 DEF Types
    <3>2. node' = node /\ handed' = handed
      BY <2>4 DEF panel
    <3>3. ASSUME Intact PROVE Told(s)'
      <4>1. Told(s) /\ JoinComplete(s)
        BY <2>0, <2>2, <2>4, <3>3 DEF Panel
      <4>2. JoinComplete(s)'
        BY <1>0, <3>2, <4>1, JoinStays
      <4>3. Reported(s)'
        BY <1>0, <2>4, <3>1, <3>2, <4>1 DEF Told, Reported, Exhausted
      <4> QED BY <3>1, <3>2, <4>1, <4>2, <4>3 DEF Told, Open, Begun, Waits
    <3>4. phase' = "run" /\ handed \subseteq handed' /\ (Exhausted => Exhausted')
      BY <2>0, <2>4, <3>2
    <3> QED BY <1>0, <2>0, <3>1, <3>2, <3>3, <3>4, PanelOfOne
  <2> QED BY <1>2, <2>1, <2>3, <2>4 DEF Control
<1>3. ASSUME NEW s \in Ids, PauseEnds(s) PROVE Panel'
  <2>0. phase = "run" /\ task[s] = "paused"
    BY <1>3 DEF PauseEnds
  <2>1. CASE EngineGivesUp
    BY <1>0, <2>1, PanelLeaves DEF EngineGivesUp
  <2>2. CASE Passes(s, ctl) /\ phase' = phase
    <3>1. Intact => JoinComplete(s)
      BY <2>0 DEF Panel, Told, Waits
    <3> QED BY <1>0, <2>0, <2>2, <3>1, PanelPasses
  <2> QED BY <1>3, <2>1, <2>2 DEF PauseEnds
<1>4. ASSUME NEW s \in Ids, Retry(s) PROVE Panel'
  <2>0. /\ phase = "run" /\ phase' = "run" /\ task[s] = "running"
        /\ UNCHANGED <<task, handed, budget>>
    BY <1>4 DEF Retry
  <2>1. node'[s] \in {node[s], "running"} /\ \A t \in Ids : t # s => node'[t] = node[t]
    BY <1>4, <1>a DEF Retry
  <2>2. s \notin skip
    BY <2>0 DEF Ordered, Pass
  <2>3. ASSUME Intact PROVE Told(s)'
    <3>1. Told(s)
      BY <2>0, <2>3 DEF Panel
    <3> QED BY <1>0, <2>0, <2>1, <2>2, <3>1 DEF Told, Open, Reported, Begun, Waits
  <2>4. handed \subseteq handed' /\ (Exhausted => Exhausted')
    BY <2>0 DEF Exhausted
  <2> QED BY <1>0, <2>0, <2>1, <2>3, <2>4, PanelOfOne
<1>5. ASSUME NEW s \in Ids, Finish(s) PROVE Panel'
  <2>0. /\ phase = "run" /\ phase' = "run" /\ task[s] = "running" /\ task'[s] = "done"
        /\ \A t \in Ids : t # s => task'[t] = task[t]
        /\ budget' = budget
    BY <1>5 DEF Finish, Types
  <2>1. \/ Exhausted /\ UNCHANGED <<node, handed>>
        \/ node' = Completed(node, s) /\ handed' = handed \cup {s}
    BY <1>5 DEF Finish
  <2>2. (\A t \in Ids : t # s => node'[t] = node[t]) /\ handed \subseteq handed'
    BY <1>a, <2>1 DEF Completed
  <2>3. ASSUME Intact PROVE Told(s)'
    <3>1. node[s] \in {"running", "completed"}
      BY <2>0, <2>3 DEF Panel, Told, Begun
    <3>2. \/ Exhausted' /\ node'[s] \in {"running", "completed"}
          \/ node'[s] = "completed" /\ s \in handed'
      BY <1>a, <2>0, <2>1, <3>1 DEF Completed, Exhausted
    <3> QED BY <2>0, <3>2 DEF Told, Open, Reported, Begun, Waits
  <2>4. Exhausted => Exhausted'
    BY <2>0 DEF Exhausted
  <2> QED BY <1>0, <2>0, <2>2, <2>3, <2>4, PanelOfOne
<1>6. phase \notin Walk
  BY DEF Where, Early, Pass, Walk
<1> QED BY <1>1, <1>2, <1>3, <1>4, <1>5, <1>6
        DEF StepMove, WalkControl, WalkPauseEnds, WalkBegin, WalkFails, WalkProduce, Walk

\* Between stages no node runs.
LEMMA NothingRuns ==
    ASSUME Types, Where, Walked, path = "walker", phase \in {"control", "paused"}
    PROVE  \A s \in Ids : node[s] # "running"
<1>1. plan = PlanFor(profile)
  BY DEF Where
<1>2. ASSUME NEW s \in Ids PROVE node[s] # "running"
  <2>1. PICK n \in StageNumbers(profile) : At(s, n)
    BY <1>1, StagesOrdered
  <2>2. stage \in Nat /\ n \in Nat
    BY <1>1, StagesOrdered DEF Walked, Walk
  <2>3. n < stage \/ n = stage \/ n > stage
    BY <2>2
  <2>4. Produced(s) \/ Untouched(s)
    BY <2>1, <2>3 DEF Walked, Walk
  <2> QED BY <2>4 DEF Produced, Untouched
<1> QED BY <1>2

LEMMA PanelWalks ==
    ASSUME Types, Where, Panel, Walked, path = "walker", StepMove
    PROVE  Panel'
<1>0. UNCHANGED path /\ Ids' = Ids
  BY StepMoveCore DEF StepFrame
<1>a. phase' # "withdrawn"
  BY DEF StepMove, WalkControl, WalkPauseEnds, WalkBegin, FailsBehind, Control, PauseEnds,
         EngineGivesUp, EngineCancelled, Launch, Retry, StepFails, WalkFails, Finish, WalkProduce
<1> SUFFICES ASSUME phase' \in {"failed", "cancelled"}, NEW s \in Ids PROVE node'[s] # "running"
  BY <1>0, <1>a, PanelParts
<1>b. node \in [StepNames -> NodeStatus] /\ Ids \subseteq StepNames
  BY DEF Types, Sound, Ids
<1>1. CASE WalkControl \/ WalkPauseEnds
  <2>1. phase \in {"control", "paused"}
    BY <1>1 DEF WalkControl, WalkPauseEnds
  <2>2. node' = node
    BY <1>1 DEF WalkControl, WalkPauseEnds, Launch
  <2> QED BY <2>1, <2>2, NothingRuns
<1>2. ASSUME NEW t \in Ids, WalkFails(t) PROVE node'[s] # "running"
  <2>1. NodeFails(node, t) \in [StepNames -> NodeStatus]
    BY <1>b, PanelTyped
  <2> QED BY <1>2, <1>b, <2>1 DEF WalkFails, CancelRunning
<1>3. CASE phase' = phase
  BY <1>3, PanelParts DEF StepMove, WalkControl, WalkPauseEnds, WalkBegin, FailsBehind, Control,
     PauseEnds, Retry, StepFails, WalkFails, Finish, WalkProduce
<1>4. phase \notin {"run"}
  BY DEF Where, Walk, Final
<1> QED BY <1>1, <1>2, <1>3, <1>4 DEF StepMove, WalkBegin, FailsBehind, Control, PauseEnds, Retry,
                                      StepFails, Finish, WalkProduce

LEMMA PanelKept ==
    ASSUME Types, Where, Blank, Shown, Ordered, Panel, Walked, [Next]_vars
    PROVE  Panel'
<1>a. Ids \subseteq StepNames
  BY DEF Types, Sound, Ids
<1>1. CASE QuietMove
  <2>1. UNCHANGED <<path, plan, profile, task, skip, reused, node, handed>> /\ Ids' = Ids
        /\ (Exhausted => Exhausted')
    BY <1>1 DEF QuietMove, GatePasses, GateTimesOut, GateCancels, Settle, Clear, WalkNext,
                Confirm, Send, TimeRunsOut, MoneyRunsOut, durable, steps, panel, Ids, Exhausted
  <2>2. Intact' <=> Intact
    BY <2>1 DEF Intact
  <2>3. ASSUME NEW s \in Ids, Told(s) PROVE Told(s)'
    <3>1. Waits(s)'
      BY <2>1, <2>3, JoinStays DEF Told, Waits
    <3> QED BY <2>1, <2>3, <3>1 DEF Told, Open, Reported, Begun
  <2>4. CASE GateCancels
    <3>1. phase \in Early /\ phase' = "withdrawn" /\ ctl.gate
      BY <2>4 DEF GateCancels, Early
    <3>2. CASE path = "engine"
      <4>1. inline
        BY <3>1, <3>2 DEF Shown, NoControl
      <4>2. \A s \in Ids : node[s] = "none"
        BY <1>a, <3>1, <3>2, <4>1 DEF Shown
      <4> QED BY <2>1, <3>1, <3>2, <4>2, PanelParts
    <3>3. CASE path = "walker"
      <4>1. \A s \in Ids : node[s] = "pending"
        BY <1>a, <3>1, <3>3 DEF Shown, NewPanel, Ids
      <4> QED BY <2>1, <3>1, <3>3, <4>1, PanelParts
    <3> QED BY <3>2, <3>3 DEF Types
  <2>5. CASE phase' = phase
    BY <2>1, <2>2, <2>3, <2>5, PanelParts DEF Panel
  <2>6. CASE phase' \in {"begin", "fallback", "control"}
    BY <2>6, PanelParts
  <2>7. CASE (Settle /\ phase' = "verify") \/ Clear
    <3>1. phase \in {"run", "clear"} /\ phase' \in {"verify", "completed"}
      BY <2>7 DEF Settle, Clear
    <3> QED BY <2>1, <2>2, <2>3, <3>1, PanelParts DEF Panel
  <2>8. CASE WalkNext /\ phase' = "completed"
    <3>1. path = "walker"
      BY <2>8 DEF WalkNext, Where, Early, Pass, Types
    <3> QED BY <2>1, <2>8, <3>1, PanelParts
  <2> QED BY <1>1, <2>4, <2>5, <2>6, <2>7, <2>8
          DEF QuietMove, GatePasses, GateTimesOut, Settle, WalkNext, Confirm, Send, TimeRunsOut,
              MoneyRunsOut
<1>2. CASE FreshMove
  <2>1. phase' \in Early
    BY <1>2 DEF FreshMove, MakePlan, Fallback, Crash, Early
  <2> QED BY <2>1, PanelParts DEF Early
<1>3. CASE Begin
  <2>1. /\ Ids' = Ids /\ phase' = "run" /\ skip' = reused' /\ task' = task
        /\ \A s \in Ids : node'[s] = "pending"
    BY <1>3, <1>a DEF Begin, NewPanel, Ids
  <2>2. \A s \in Ids : task[s] = "wait"
    BY <1>3 DEF Begin, Blank, Early
  <2> QED BY <2>1, <2>2, PanelParts DEF Told, Open, Reported, Begun, Waits
<1>4. CASE Verify
  <2>1. /\ UNCHANGED <<path, plan, profile, node, handed, reused, budget>> /\ Ids' = Ids
        /\ phase = "verify"
    BY <1>4 DEF Verify, durable, panel, Ids
  <2>2. CASE phase' = "fallback"
    BY <2>2, PanelParts
  <2>3. CASE phase' = "clear" /\ UNCHANGED <<task, skip>>
    <3>1. Intact' <=> Intact
      BY <2>1, <2>3 DEF Intact
    <3>2. ASSUME NEW s \in Ids, Told(s) PROVE Told(s)'
      <4>1. Waits(s)'
        BY <2>1, <2>3, <3>2, JoinStays DEF Told, Waits
      <4> QED BY <2>1, <2>3, <3>2, <4>1 DEF Told, Open, Reported, Begun, Exhausted
    <3> QED BY <2>1, <2>3, <3>1, <3>2, PanelParts DEF Panel
  <2>4. CASE phase' = "run" /\ task' = [s \in Ids |-> "wait"] /\ ~Exhausted
    <3> SUFFICES ASSUME path = "engine", NEW s \in Ids PROVE Told(s)'
      BY <2>1, <2>4, PanelParts
    <3>1. \A t \in Ids : task[t] = "done"
      BY <2>1 DEF Ordered, Pass
    <3>2. Intact
      BY <3>1 DEF Intact
    <3>3. Told(s)
      BY <2>1, <3>2 DEF Panel
    <3>4. node[s] = "completed" /\ s \in handed
      BY <2>4, <3>1, <3>3 DEF Told, Reported
    <3>5. node'[s] = "completed" /\ s \in handed' /\ task'[s] = "wait"
      BY <2>1, <2>4, <3>4
    <3> QED BY <3>5 DEF Told, Open, Reported, Begun, Waits
  <2> QED BY <1>4, <2>2, <2>3, <2>4 DEF Verify, Revise, MayRevise
<1>5. CASE StepMove
  BY <1>5, PanelStep, PanelWalks DEF Types
<1>6. CASE UNCHANGED vars
  BY <1>6 DEF vars, durable, steps, panel, Panel, Ids, Intact, Told, Open, Reported, Begun, Waits,
              JoinComplete, Edges, Exhausted
<1> QED BY <1>1, <1>2, <1>3, <1>4, <1>5, <1>6
        DEF Next, Advance, Work, Error, People, QuietMove, FreshMove, StepMove

-----------------------------------------------------------------------------
(***************************************************************************)
(* The walker.                                                             *)
(***************************************************************************)

\* The parts of Walked: every step by its stage.
Behind == \A s \in Ids : \A n \in StageNumbers(profile) :
             At(s, n) => /\ n < stage => Produced(s)
                         /\ n > stage => Untouched(s)

LEMMA WalkBegins ==
    ASSUME Types, Where, Blank, WalkBegin
    PROVE  Walked'
<1>0. /\ phase' = "control" /\ UNCHANGED <<profile, plan, task>> /\ Ids' = Ids
      /\ plan = PlanFor(profile) /\ stage' = Min(StageNumbers(profile))
  BY DEF WalkBegin, durable, steps, Where, Ids
<1>1. StageNumbers(profile) \subseteq Nat /\ StageNumbers(profile) # {}
  BY <1>0, StagesOrdered
<1>2. stage' \in StageNumbers(profile) /\ \A n \in StageNumbers(profile) : stage' <= n
  <2>1. \E x \in StageNumbers(profile) : \A y \in StageNumbers(profile) : x <= y
    BY <1>1, LeastNumber
  <2> QED BY <1>0, <2>1 DEF Min
<1>3. \A s \in Ids : task'[s] = "wait" /\ node'[s] = "pending"
  <2>1. Ids \subseteq StepNames
    BY DEF Types, Sound, Ids
  <2> QED BY <1>0, <2>1 DEF WalkBegin, NewPanel, Blank, Early, Ids
<1>4. \A s \in Ids : Untouched(s)'
  BY <1>3 DEF Untouched
<1>5. \A n \in StageNumbers(profile) : ~ (n < stage')
  BY <1>1, <1>2
<1>6. StageNumbers(profile)' = StageNumbers(profile)
  BY <1>0
<1> QED BY <1>0, <1>2, <1>4, <1>5, <1>6 DEF Walked, Walk

LEMMA WalkLaunches ==
    ASSUME Types, Where, Walked, path = "walker", phase \in {"control", "paused"}, NEW c,
           Launch(c), UNCHANGED <<profile, plan, stage, path, obs, handed>>, Ids' = Ids
    PROVE  Walked'
<1>0. /\ plan = PlanFor(profile) /\ stage \in StageNumbers(profile)
      /\ \A s \in Ids : At(s, stage) => Untouched(s)
      /\ \A s \in Ids : plan.deps[s] \subseteq Ids
      /\ phase' = "group"
  BY InputsTyped DEF Where, Walked, Walk, Launch
<1>1. ASSUME NEW s \in Group PROVE Starts(s) /\ s \in Ids
  <2>1. At(s, stage) /\ s \in Ids
    BY <1>0, GroupAtStage, StagesOrdered
  <2>2. node[s] = "pending"
    BY <1>0, <2>1 DEF Untouched
  <2>3. ASSUME NEW e \in Edges, e[2] = s PROVE e[1] \in handed
    <3>1. e \in GraphFor(profile).edges
      BY <2>3 DEF Edges
    <3>2. e[1] \in plan.deps[s] /\ e[1] \in Ids
      BY <1>0, <2>1, <2>3, <3>1, StagesOrdered
    <3>3. PICK m \in StageNumbers(profile) : At(e[1], m)
      BY <1>0, <3>2, StagesOrdered
    <3>4. m < stage
      BY <1>0, <2>1, <3>2, <3>3, StagesOrdered
    <3> QED BY <3>2, <3>3, <3>4 DEF Walked, Walk, Produced
  <2> QED BY <2>1, <2>2, <2>3 DEF Starts, JoinComplete, Settled
<1>2. {s \in Group : Starts(s)} = Group
  BY <1>1
<1>3. /\ task' = [s \in Ids |-> IF s \in Group THEN "running" ELSE task[s]]
      /\ \A s \in Ids : node'[s] = IF s \in Group THEN Started(node, s)[s] ELSE node[s]
      /\ inp' = [s \in Ids |-> IF s \in Group THEN Inputs(s) ELSE inp[s]]
  <2>1. Ids \subseteq StepNames /\ DOMAIN node = StepNames
    BY DEF Types, Sound, Ids
  <2> QED BY <1>2, <2>1 DEF Launch
<1>4. ASSUME NEW s \in Ids, At(s, stage) PROVE Underway(s)'
  <2>1. s \in Group /\ Starts(s)
    BY <1>1, <1>4, GroupAtStage
  <2>2. Started(node, s)[s] = "running"
    BY <2>1 DEF Started, Starts, Types, Sound, Ids
  <2>3. task'[s] = "running" /\ node'[s] = "running" /\ inp'[s] = Inputs(s)
    BY <1>3, <2>1, <2>2
  <2> QED BY <2>3, InputsTyped DEF Underway
<1>5. ASSUME NEW s \in Ids, s \notin Group
      PROVE  (Produced(s) => Produced(s)') /\ (Untouched(s) => Untouched(s)')
  BY <1>3, <1>5 DEF Produced, Untouched, Fresh
<1>6. ASSUME NEW s \in Ids, NEW n \in StageNumbers(profile), At(s, n), n # stage
      PROVE  s \notin Group
  BY <1>0, <1>6, GroupAtStage, StagesOrdered
<1>7. StageNumbers(profile) \subseteq Nat
  BY <1>0, StagesOrdered
<1>8. ASSUME NEW s \in Ids, NEW n \in StageNumbers(profile), At(s, n)
      PROVE  /\ n < stage => Produced(s)'
             /\ n > stage => Untouched(s)'
  <2>1. CASE n < stage
    <3>1. n # stage /\ ~ (n > stage) /\ Produced(s)
      BY <1>0, <1>7, <1>8, <2>1 DEF Walked, Walk
    <3> QED BY <1>5, <1>6, <1>8, <3>1
  <2>2. CASE n > stage
    <3>1. n # stage /\ ~ (n < stage) /\ Untouched(s)
      BY <1>0, <1>7, <1>8, <2>2 DEF Walked, Walk
    <3> QED BY <1>5, <1>6, <1>8, <3>1
  <2> QED BY <2>1, <2>2
<1>9. /\ StageNumbers(profile)' = StageNumbers(profile)
      /\ \A s, n : At(s, n)' <=> At(s, n)
  BY DEF At
<1> QED BY <1>0, <1>4, <1>8, <1>9 DEF Walked, Walk

LEMMA WalkProduces ==
    ASSUME Types, Where, Walked, NEW s \in Ids, WalkProduce(s)
    PROVE  Walked'
<1>0. /\ phase = "group" /\ phase' = "group" /\ task[s] = "running" /\ path = "walker"
      /\ plan = PlanFor(profile) /\ stage \in StageNumbers(profile) /\ Ids' = Ids
      /\ UNCHANGED <<profile, plan, stage, path>>
      /\ \A t \in Ids : plan.deps[t] \subseteq Ids
  BY InputsTyped DEF WalkProduce, Where, Early, Pass, Types, Walked, Walk, durable, Ids
<1>1. StageNumbers(profile) \subseteq Nat
  BY <1>0, StagesOrdered
<1>2. At(s, stage) /\ Underway(s)
  <2>1. PICK n \in StageNumbers(profile) : At(s, n)
    BY <1>0, StagesOrdered
  <2>2. n < stage \/ n = stage \/ n > stage
    BY <1>0, <1>1
  <2>3. ~ Produced(s) /\ ~ Untouched(s)
    BY <1>0 DEF Produced, Untouched
  <2> QED BY <1>0, <2>1, <2>2, <2>3 DEF Walked, Walk
<1>3. \A t \in Ids : t # s => /\ task'[t] = task[t] /\ node'[t] = node[t]
                              /\ obs'[t] = obs[t] /\ inp'[t] = inp[t]
  BY DEF WalkProduce, Completed, Types, Sound, Ids
<1>4. ASSUME NEW t \in Ids, NEW n \in StageNumbers(profile), At(t, n), n <= stage
      PROVE  s \notin plan.deps[t]
  <2>1. s \in plan.deps[t] => stage < n
    BY <1>0, <1>2, <1>4, StagesOrdered
  <2> QED BY <1>0, <1>1, <1>4, <2>1
<1>5. s \notin plan.deps[s]
  BY <1>0, <1>1, <1>2, <1>4
<1>6. Produced(s)'
  <2>1. task'[s] = "done" /\ s \in handed'
    BY DEF WalkProduce, Types
  <2>2. node'[s] = "completed"
    BY <1>2 DEF WalkProduce, Completed, Types, Sound, Ids, Underway
  <2>3. obs'[s] = Output(s, FALSE)
    BY DEF WalkProduce, Types
  <2>4. obs'[s].v = ver[s] + 1 /\ obs'[s].from = inp[s] /\ ver[s] \in Nat
    BY <2>3 DEF Output, Types, Sound, Ids
  <2>5. \A d \in plan.deps[s] : inp[s][d] = obs'[d].v
    BY <1>0, <1>2, <1>3, <1>5 DEF Underway
  <2> QED BY <1>0, <2>1, <2>2, <2>4, <2>5 DEF Produced, Fresh
<1>7. ASSUME NEW t \in Ids, t # s, s \notin plan.deps[t]
      PROVE  /\ Produced(t) => Produced(t)'
             /\ Underway(t) => Underway(t)'
  <2>1. handed \subseteq handed'
    BY DEF WalkProduce
  <2>2. \A d \in plan.deps[t] : obs'[d] = obs[d]
    BY <1>0, <1>3, <1>7
  <2> QED BY <1>0, <1>3, <1>7, <2>1, <2>2 DEF Produced, Underway, Fresh
<1>8. ASSUME NEW t \in Ids, NEW n \in StageNumbers(profile), At(t, n), n # stage PROVE t # s
  BY <1>0, <1>2, <1>8, StagesOrdered
<1>9. ASSUME NEW t \in Ids, NEW n \in StageNumbers(profile), At(t, n)
      PROVE  /\ n < stage => Produced(t)'
             /\ n > stage => Untouched(t)'
  <2>1. CASE n < stage
    <3>1. n <= stage /\ n # stage
      BY <1>0, <1>1, <2>1
    <3>2. Produced(t)
      BY <1>0, <1>9, <2>1 DEF Walked, Walk
    <3> QED BY <1>0, <1>1, <1>4, <1>7, <1>8, <1>9, <2>1, <3>1, <3>2
  <2>2. CASE n > stage
    <3>1. n # stage /\ ~ (n < stage)
      BY <1>0, <1>1, <2>2
    <3>2. Untouched(t) /\ t # s
      BY <1>0, <1>8, <1>9, <2>2, <3>1 DEF Walked, Walk
    <3> QED BY <1>3, <3>1, <3>2 DEF Untouched
  <2> QED BY <2>1, <2>2
<1>10. ASSUME NEW t \in Ids, At(t, stage) PROVE Underway(t)' \/ Produced(t)'
  <2>1. CASE t = s
    BY <1>6, <2>1
  <2>2. CASE t # s
    <3>1. Underway(t) \/ Produced(t)
      BY <1>0, <1>10 DEF Walked
    <3>2. s \notin plan.deps[t]
      BY <1>0, <1>1, <1>4, <1>10
    <3> QED BY <1>7, <2>2, <3>1, <3>2
  <2> QED BY <2>1, <2>2
<1>11. /\ StageNumbers(profile)' = StageNumbers(profile)
       /\ \A t, n : At(t, n)' <=> At(t, n)
  BY <1>0 DEF At
<1> QED BY <1>0, <1>9, <1>10, <1>11 DEF Walked, Walk

LEMMA WalkGoesOn ==
    ASSUME Types, Where, Walked, WalkNext
    PROVE  Walked'
<1>0. /\ phase = "group" /\ path = "walker" /\ path' = path
      /\ plan = PlanFor(profile) /\ stage \in StageNumbers(profile) /\ Ids' = Ids
      /\ UNCHANGED <<profile, plan, steps, panel>>
  BY DEF WalkNext, Where, Early, Pass, Types, Walked, Walk, durable, Ids
<1>1. StageNumbers(profile) \subseteq Nat
  BY <1>0, StagesOrdered
<1>2. \A s \in Ids : At(s, stage) => Produced(s)
  <2>1. \A s \in Ids : At(s, stage) => task[s] = "done"
    BY GroupAtStage DEF WalkNext
  <2> QED BY <1>0, <2>1 DEF Walked, Underway
<1>3. \A s \in Ids : (Produced(s)' <=> Produced(s)) /\ (Untouched(s)' <=> Untouched(s))
  BY <1>0 DEF Produced, Untouched, Fresh, steps, panel
<1> DEFINE rest == {n \in StageNumbers(profile) : n > stage}
<1>4. CASE rest = {}
  <2>1. phase' = "completed"
    BY <1>4 DEF WalkNext
  <2>2. ASSUME NEW s \in Ids PROVE Produced(s)
    <3>1. PICK n \in StageNumbers(profile) : At(s, n)
      BY <1>0, StagesOrdered
    <3>2. n < stage \/ n = stage
      BY <1>0, <1>1, <1>4
    <3> QED BY <1>0, <1>2, <3>1, <3>2 DEF Walked, Walk
  <2> QED BY <1>0, <1>3, <2>1, <2>2 DEF Walked, Walk
<1>5. CASE rest # {}
  <2>1. phase' = "control" /\ stage' = Min(rest)
    BY <1>5 DEF WalkNext
  <2>2. stage' \in rest /\ \A n \in rest : stage' <= n
    <3>1. rest \subseteq Nat
      BY <1>1
    <3> HIDE DEF rest
    <3>2. \E x \in rest : \A y \in rest : x <= y
      BY <1>5, <3>1, LeastNumber
    <3> QED BY <2>1, <3>2 DEF Min
  <2>3. ASSUME NEW s \in Ids, NEW n \in StageNumbers(profile), At(s, n)
        PROVE  /\ n < stage' => Produced(s)
               /\ n > stage' => Untouched(s)
               /\ n = stage' => Untouched(s)
    <3>1. CASE n < stage'
      <4>1. (n \notin rest /\ n < stage) \/ n = stage
        BY <1>0, <1>1, <2>2, <3>1
      <4>2. ~ (n > stage') /\ n # stage'
        BY <1>0, <1>1, <2>2, <3>1
      <4> QED BY <1>0, <1>2, <2>3, <4>1, <4>2 DEF Walked, Walk
    <3>2. CASE n >= stage'
      <4>1. n > stage /\ ~ (n < stage')
        BY <1>0, <1>1, <2>2, <3>2
      <4> QED BY <1>0, <2>3, <4>1 DEF Walked, Walk
    <3> QED BY <1>0, <1>1, <2>2, <3>1, <3>2
  <2>4. \A t, n : At(t, n)' <=> At(t, n)
    BY <1>0 DEF At
  <2>5. \A s \in Ids : \A n \in StageNumbers(profile) :
           At(s, n)' => /\ n < stage' => Produced(s)'
                        /\ n > stage' => Untouched(s)'
                        /\ n = stage' => Untouched(s)'
    BY <1>3, <2>3, <2>4
  <2>6. \A s \in Ids : At(s, stage)' => Untouched(s)'
    <3>1. \A s : At(s, stage)' <=> At(s, stage')
      BY <1>0 DEF At
    <3>2. stage' \in StageNumbers(profile)
      BY <2>2
    <3> QED BY <1>3, <2>3, <2>4, <3>1, <3>2
  <2>7. stage' \in StageNumbers(profile)' /\ StageNumbers(profile)' = StageNumbers(profile)
    BY <1>0, <2>2
  <2> QED BY <1>0, <2>1, <2>5, <2>6, <2>7 DEF Walked, Walk
<1> QED BY <1>4, <1>5

\* Nothing of the walker changes.
LEMMA WalkedSame ==
    ASSUME Types, Walked, UNCHANGED <<path, profile, plan, stage, task, node, handed, obs, inp>>,
           Ids' = Ids, phase' = phase \/ phase' \notin Walk \cup {"completed"}
    PROVE  Walked'
<1>1. /\ StageNumbers(profile)' = StageNumbers(profile)
      /\ \A t, n : At(t, n)' <=> At(t, n)
      /\ \A t : At(t, stage)' <=> At(t, stage)
  BY DEF At
<1>2. \A s \in Ids : /\ Produced(s)' <=> Produced(s)
                     /\ Untouched(s)' <=> Untouched(s)
                     /\ Underway(s)' <=> Underway(s)
  BY DEF Produced, Untouched, Underway, Fresh
<1>3. {"control", "paused"} \subseteq Walk /\ "group" \in Walk
  BY DEF Walk
<1> QED BY <1>1, <1>2, <1>3 DEF Walked

LEMMA WalkedKept ==
    ASSUME Types, Where, Blank, Walked, [Next]_vars
    PROVE  Walked'
<1>1. CASE QuietMove
  <2>1. CASE WalkNext
    BY <2>1, WalkGoesOn
  <2>2. CASE Clear
    BY <2>2 DEF Clear, Walked, Where, Walk, Final
  <2>3. CASE QuietMove /\ ~WalkNext /\ ~Clear
    <3>1. UNCHANGED <<path, profile, plan, stage, steps, panel>> /\ Ids' = Ids
          /\ (phase' = phase \/ phase' \notin Walk \cup {"completed"})
      BY <2>3 DEF QuietMove, GatePasses, GateTimesOut, GateCancels, Settle, Confirm, Send,
                  TimeRunsOut, MoneyRunsOut, durable, Walk, Ids
    <3> QED BY <3>1, WalkedSame DEF steps, panel
  <2> QED BY <1>1, <2>1, <2>2, <2>3
<1>2. CASE FreshMove
  BY <1>2 DEF FreshMove, MakePlan, Fallback, Crash, Walked, Walk
<1>3. CASE PassMove
  BY <1>3 DEF PassMove, Begin, Verify, Revise, Walked, Where, Walk, Final
<1>4. CASE StepMove /\ path = "engine"
  <2>1. path' = path
    BY <1>4, StepMoveCore DEF StepFrame
  <2> QED BY <1>4, <2>1 DEF Walked
<1>5. CASE StepMove /\ path = "walker"
  <2>0. UNCHANGED <<path, profile, plan>> /\ Ids' = Ids
    BY <1>5, StepMoveCore DEF StepFrame
  <2>1. phase \notin {"run"}
    BY <1>5 DEF Where, Walk, Final
  <2>2. CASE WalkBegin
    BY <1>5, <2>2, WalkBegins
  <2>3. CASE WalkControl \/ WalkPauseEnds
    <3>1. phase \in {"control", "paused"} /\ UNCHANGED <<stage, obs, handed>>
      BY <2>3 DEF WalkControl, WalkPauseEnds
    <3>2. CASE UNCHANGED <<task, node, inp, late>> /\ phase' \in {"failed", "cancelled"}
      BY <2>0, <3>1, <3>2, WalkedSame DEF Walk
    <3>3. ASSUME UNCHANGED <<task, node, inp, late>>, phase' = "paused" PROVE Walked'
      <4>1. /\ StageNumbers(profile)' = StageNumbers(profile)
            /\ \A t, n : At(t, n)' <=> At(t, n)
            /\ \A t : At(t, stage)' <=> At(t, stage)
        BY <2>0, <3>1 DEF At
      <4>2. \A s \in Ids : (Produced(s)' <=> Produced(s)) /\ (Untouched(s)' <=> Untouched(s))
        BY <2>0, <3>1, <3>3 DEF Produced, Untouched, Fresh
      <4>3. phase \in Walk /\ phase' \in Walk
        BY <3>1, <3>3 DEF Walk
      <4> QED BY <1>5, <2>0, <3>1, <3>3, <4>1, <4>2, <4>3 DEF Walked
    <3>4. ASSUME NEW c, Launch(c) PROVE Walked'
      BY <1>5, <2>0, <3>1, <3>4, WalkLaunches
    <3> QED BY <2>3, <3>2, <3>3, <3>4 DEF WalkControl, WalkPauseEnds
  <2>4. ASSUME NEW s \in Ids, WalkProduce(s) PROVE Walked'
    BY <2>4, WalkProduces
  <2>5. ASSUME NEW s \in Ids, WalkFails(s) PROVE Walked'
    BY <2>5 DEF WalkFails, Walked, Walk
  <2> QED BY <1>5, <2>1, <2>2, <2>3, <2>4, <2>5
          DEF StepMove, FailsBehind, Control, PauseEnds, Retry, StepFails, Finish
<1>6. CASE UNCHANGED vars
  <2>1. UNCHANGED <<path, profile, plan, stage, task, node, handed, obs, inp, phase>> /\ Ids' = Ids
    BY <1>6 DEF vars, durable, steps, panel, Ids
  <2> QED BY <2>1, WalkedSame
<1> QED BY <1>1, <1>2, <1>3, <1>4, <1>5, <1>6
        DEF Next, Advance, Work, Error, People, QuietMove, FreshMove, PassMove, StepMove, Types

-----------------------------------------------------------------------------
(***************************************************************************)
(* The invariant and what follows from it.                                 *)
(***************************************************************************)
LEMMA InitHolds == Init => IInv
<1> SUFFICES ASSUME Init PROVE IInv
  OBVIOUS
<1>1. Types
  BY InitTyped
<1>2. Rows
  <2>1. \A s \in Ids : obs[s].v = 0 /\ DOMAIN inp[s] = {}
    BY DEF Init, NoObs
  <2>2. \A s \in Ids : ver[s] \in Nat
    BY <1>1 DEF Types, Sound, Ids
  <2>3. ckpt = {}
    BY DEF Init
  <2> QED BY <2>1, <2>2, <2>3 DEF Rows
<1>3. Where /\ Blank /\ Shown /\ Kept /\ Late
  BY DEF Init, Where, Blank, Shown, Kept, Late, CancelStopsNextLayer, Early
<1>4. Ordered /\ Rounds /\ Saved /\ Panel /\ Walked
  BY DEF Init, Ordered, Rounds, Saved, Panel, Walked, Pass
<1> QED BY <1>1, <1>2, <1>3, <1>4 DEF IInv, Rest

LEMMA NextKeeps == IInv /\ [Next]_vars => IInv'
<1> SUFFICES ASSUME IInv, [Next]_vars PROVE IInv'
  OBVIOUS
<1>0. /\ Types /\ Rows /\ Where /\ Blank /\ Shown /\ Ordered /\ Rounds /\ Saved /\ Kept /\ Late
      /\ Panel /\ Walked
  BY DEF IInv, Rest
<1>1. Types' /\ Where' /\ Blank' /\ Shown'
  BY <1>0, TypesKept, WhereKept, BlankKept, ShownKept
<1>2. Rows'
  BY <1>0, <1>1, RowsKept
<1>3. Ordered' /\ Rounds'
  BY <1>0, OrderedKept, RoundsKept
<1>4. Saved' /\ Kept'
  BY <1>0, SavedKept, KeptKept
<1>5. Late' /\ Panel' /\ Walked'
  BY <1>0, LateKept, PanelKept, WalkedKept
<1> QED BY <1>1, <1>2, <1>3, <1>4, <1>5 DEF IInv, Rest

\* The inductive invariant holds of every run: what the engine retains, reuses and
\* hands on across revisions and crashes, and what the walker has done stage by
\* stage (_WorkflowRun of workflow/engine.py, load_checkpoints, revise_plan, the
\* stage loop of crewai_runtime.py).
THEOREM PlanInvariant == Spec => []IInv
<1>1. Init => IInv
  BY InitHolds
<1>2. IInv /\ [Next]_vars => IInv'
  BY NextKeeps
<1> QED BY <1>1, <1>2, PTL DEF Spec

LEMMA WhatItSays == IInv => FreshInputs /\ CancelStopsNextLayer /\ PanelSettles
<1> SUFFICES ASSUME IInv PROVE FreshInputs /\ CancelStopsNextLayer /\ PanelSettles
  OBVIOUS
<1>0. Types /\ Where /\ Ordered /\ Rounds /\ Late /\ Panel /\ Walked
  BY DEF IInv, Rest
<1>1. ASSUME phase = "completed", clean, NEW s \in Ids PROVE Fresh(s)
  <2>1. CASE path = "engine"
    BY <1>0, <1>1, <2>1 DEF Ordered, Rounds
  <2>2. CASE path = "walker"
    BY <1>0, <1>1, <2>2 DEF Walked, Produced
  <2> QED BY <1>0, <2>1, <2>2 DEF Types
<1>2. FreshInputs
  <2>1. \A s \in Ids : 0 < obs[s].v => obs[s].v > 0
    BY <1>0 DEF Types, Observation
  <2> QED BY <1>1, <2>1 DEF FreshInputs, Fresh
<1>3. CancelStopsNextLayer
  BY <1>0 DEF Late
<1>4. ASSUME phase = "completed", NEW s \in Ids
      PROVE  node[s] = "completed" \/ (path = "engine" /\ Exhausted /\ node[s] = "running")
  <2>1. CASE path = "walker"
    BY <1>0, <1>4, <2>1 DEF Walked, Produced
  <2>2. CASE path = "engine"
    <3>1. \A t \in Ids : task[t] = "done"
      BY <1>0, <1>4, <2>2 DEF Ordered, Pass
    <3>2. Reported(s)
      BY <1>0, <1>4, <2>2, <3>1 DEF Panel, Intact, Told
    <3> QED BY <2>2, <3>1, <3>2 DEF Reported
  <2> QED BY <1>0, <2>1, <2>2 DEF Types
<1>5. ASSUME phase \in Final, path = "walker", NEW s \in Ids PROVE node[s] # "running"
  BY <1>0, <1>4, <1>5 DEF Panel, Final
<1>6. /\ phase = "cancelled" /\ path = "engine" => \A s \in Ids : node[s] \in Settled
      /\ phase = "withdrawn" /\ path = "engine" => \A s \in Ids : node[s] = "none"
  BY <1>0 DEF Panel
<1> QED BY <1>2, <1>3, <1>4, <1>5, <1>6 DEF PanelSettles

\* A completed run is made of outputs that were computed from one another: no output
\* of an earlier pass, or of a plan before a crash, is left among the inputs
\* (apply_checkpoints and revise_plan of workflow/engine.py, the walker's stages).
THEOREM InputsAreFresh == Spec => []FreshInputs
<1>1. IInv => FreshInputs
  BY WhatItSays
<1> QED BY <1>1, PlanInvariant, PTL

\* Of two steps that start although a cancel is visible, neither depends on the
\* other: respect_controls of the engine and of the walker stops the next layer.
THEOREM CancelStops == Spec => []CancelStopsNextLayer
<1>1. IInv => CancelStopsNextLayer
  BY WhatItSays
<1> QED BY <1>1, PlanInvariant, PTL

\* The panel of a finished run: every node closed by a cancel, none shown by a run
\* withdrawn at its gate, every node completed but for those whose report an exhausted
\* budget swallowed, none running behind the walker (cancel_unfinished of lifecycle.py,
\* step_completed of run_environment.py, the nodes an earlier life left behind).
THEOREM PanelIsSettled == Spec => []PanelSettles
<1>1. IInv => PanelSettles
  BY WhatItSays
<1> QED BY <1>1, PlanInvariant, PTL
=============================================================================
