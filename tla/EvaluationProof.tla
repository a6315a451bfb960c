-------------------------- MODULE EvaluationProof --------------------------
(***************************************************************************)
(* The evaluator keeps its records straight, for every campaign, every     *)
(* number of nodes and scenarios and every MaxRestarts: what is retained   *)
(* is the plan (RetainedInOrder), completed runs are attributable, a       *)
(* replaced cluster proves itself before it is measured (CleanCluster) and *)
(* restarts are bounded (RestartBudget).                                   *)
(***************************************************************************)
EXTENDS Evaluation, FiniteSetTheorems, SequenceTheorems, WellFoundedInduction,
        NaturalsInduction, TLAPS

Stages == {"prepare", "submit", "start", "poll"}
Stopped == {"aborted", "done"}
Going == pc \notin Stopped
GroupSize == Size[plan[at].scenario]

NodeState ==
    [slot : Nat, phase : {"prepared", "running", "completed", "finalized", "failed", "down"},
     limited : BOOLEAN, value : Value \union {None}]
ClusterState ==
    [up : BOOLEAN, generation : Nat, failures : Nat, recovering : BOOLEAN,
     passed : SUBSET DOMAIN campaign.scenarios]
Result == [node : Nat, slot : Nat, value : Value \union {None}]
Planned == [scenario : Scenarios(campaign), phase : {"warmup", "measured"}]
Recorded ==
    [scenario : Scenarios(campaign), phase : {"warmup", "measured", "recovery"},
     outcome : {"completed", "timed_out", "failed"}, slot : Nat, generation : Nat]

(***************************************************************************)
(* The options and the plan: planned runs are of the campaign's scenarios, *)
(* and a persistent campaign goes through the node counts in order.        *)
(***************************************************************************)
CampaignInv ==
    /\ campaign.mode \in {"persistent", "remote", "isolated"}
    /\ campaign.source \in {"synthetic", "mock-encrypted-corpus"}
    /\ campaign.scenarios \in Seq(DOMAIN Size) /\ campaign.scenarios # <<>>
    /\ campaign.mode = "remote" => Len(campaign.scenarios) = 1
    /\ plan \in Seq(Planned)
    /\ Persistent => \A i, j \in DOMAIN plan :
                       i < j => Size[plan[i].scenario] <= Size[plan[j].scenario]

TypeInv ==
    /\ at \in Nat \ {0} /\ at <= Len(plan) + 1
    /\ nextSlot \in Nat
    /\ cluster \in ClusterState
    /\ node \in Seq(NodeState)
    /\ late \subseteq [node : Nat, stage : {"prepare", "start"}, slot : Nat]
    /\ pc \in Stages \union Stopped \union {"cluster", "record"}
    /\ todo \subseteq Nat
    /\ err \in {"none", "failed", "timeout", "terminal", "count"}
    /\ expired \in BOOLEAN
    /\ results \in Seq(Result)
    /\ runs \in Seq(Recorded)
    /\ manifest.status \in {"running", "complete", "invalid"}

(***************************************************************************)
(* Where the evaluator is: there is a cluster while a run goes on, and a   *)
(* recovery has a scenario left to go through.                             *)
(***************************************************************************)
PlaceInv ==
    /\ ~Persistent => cluster = NoCluster
    /\ pc \in Stages \union {"record"} => at <= Len(plan) /\ (Persistent => cluster.up)
    /\ Going /\ (cluster.up \/ cluster.recovering) => at <= Len(plan)
    /\ ~cluster.recovering => cluster.passed = {}
    /\ Going /\ cluster.recovering =>
         cluster.passed \subseteq Group(GroupSize) /\ Unproven # {}

(***************************************************************************)
(* The nodes are those of the present run; in an isolated run all they     *)
(* know is the run's own slot.                                             *)
(***************************************************************************)
NodeInv ==
    /\ Going /\ Persistent /\ cluster.up => DOMAIN node = 1 .. GroupSize
    /\ Going /\ campaign.mode = "remote" => DOMAIN node = 1 .. Size[campaign.scenarios[1]]
    /\ Isolated /\ pc \in Stages => DOMAIN node = Nodes
    /\ \A r \in late : r.node \in DOMAIN node
    /\ Isolated => /\ \A n \in DOMAIN node : node[n].slot = nextSlot
                   /\ \A r \in late : r.slot = nextSlot

\* The results are of different nodes, none of which is still to be asked, and of
\* the run's slot.
OneEach ==
    /\ \A i \in DOMAIN results : results[i].node \in Nodes /\ results[i].slot = nextSlot
    /\ \A i, j \in DOMAIN results : results[i].node = results[j].node => i = j

ResultInv ==
    /\ pc \in Stages => todo \subseteq Nodes
    /\ pc \in Stages \ {"poll"} => results = <<>>
    /\ pc = "poll" => /\ err = "none" /\ OneEach
                      /\ \A i \in DOMAIN results : results[i].node \notin todo
    /\ pc = "record" /\ err = "none" =>
         OneEach /\ Len(results) = Cardinality(Nodes) /\ ~CountMismatch

(***************************************************************************)
(* The records so far are the plan so far.                                 *)
(***************************************************************************)
RunInv ==
    /\ \A i \in PlannedRuns :
         /\ Rank(i) \in DOMAIN plan
         /\ runs[i].scenario = plan[Rank(i)].scenario
         /\ runs[i].phase = plan[Rank(i)].phase
    /\ Going => Cardinality(PlannedRuns) = at - 1
    /\ ~Isolated => \A i, j \in DOMAIN runs : i < j => runs[i].slot < runs[j].slot
    /\ ~Isolated /\ Going => \A i \in DOMAIN runs : runs[i].slot < nextSlot
    /\ manifest.status # "running" => pc = "done"
    /\ manifest.status = "complete" => Cardinality(PlannedRuns) = Len(plan)

-----------------------------------------------------------------------------
(* The persistent cluster of the present group.                            *)

\* Its planned runs.
InGroup == {i \in PlannedRuns : Size[runs[i].scenario] = GroupSize}

\* Run k is generation g getting through scenario s of the group.
Proves(k, s, g) ==
    /\ k \in DOMAIN runs
    /\ runs[k].phase = "recovery" /\ runs[k].outcome = "completed"
    /\ runs[k].scenario = campaign.scenarios[s] /\ runs[k].generation = g

\* The present generation has got through scenario s since run i.
ProvedSince(i, s) == \E k \in DOMAIN runs : i < k /\ Proves(k, s, cluster.generation)

ClusterInv ==
    Persistent /\ Going /\ at <= Len(plan) =>
      /\ \A i \in InGroup : runs[i].generation <= cluster.generation
      /\ ~cluster.up /\ ~cluster.recovering => InGroup = {}
      /\ ~cluster.recovering =>
           \A i \in InGroup : runs[i].generation < cluster.generation =>
             \A s \in Group(GroupSize) : ProvedSince(i, s)
      /\ cluster.recovering /\ cluster.up =>
           \A i \in InGroup : \A s \in cluster.passed : ProvedSince(i, s)

\* Since the generation base the cluster was replaced once for each failure.
Since(base) ==
    \/ cluster.generation <= base + cluster.failures + (IF cluster.up THEN 1 ELSE 0)
    \/ cluster.up /\ ~cluster.recovering /\ cluster.generation <= base + MaxRestarts

BudgetInv ==
    Persistent /\ Going /\ at <= Len(plan) =>
      /\ cluster.failures < MaxRestarts
      /\ \E base \in {runs[i].generation : i \in InGroup} \union {0} : Since(base)

FixedInv == ~Persistent => \A i \in DOMAIN runs : runs[i].generation = 0

IInv ==
    /\ CampaignInv /\ TypeInv /\ PlaceInv /\ NodeInv /\ ResultInv /\ RunInv
    /\ ClusterInv /\ BudgetInv /\ FixedInv /\ CleanCluster

-----------------------------------------------------------------------------
(* Lemmas about the operators.                                             *)

\* A nonempty set of numbers has a first one.
LEMMA FirstIn ==
    ASSUME NEW S \in SUBSET Nat, S # {}
    PROVE  First(S) \in S
<1>1. PICK k \in S : \A j \in S : ~(<<j, k>> \in OpToRel(<, Nat))
  BY NatLessThanWellFounded, WFMin
<1>2. \A j \in S : ~(j < k)
  BY <1>1 DEF OpToRel
<1>3. \A j \in S : k <= j
  BY <1>2
<1> QED
  BY <1>3 DEF First

\* What a request does to a node leaves it a node, and of its slot if the request
\* is for that slot.
LEMMA HandledType ==
    ASSUME NEW nd \in NodeState, NEW stage \in {"prepare", "submit", "start"},
           NEW slot \in Nat, NEW new \in Handled(nd, stage, slot)
    PROVE  new \in NodeState /\ (nd.slot = slot => new.slot = slot)
<1>1. CASE ~Accepts(nd, stage, slot)
  BY <1>1 DEF Handled
<1>2. CASE Accepts(nd, stage, slot) /\ stage = "prepare"
  <2>1. new = [slot |-> slot, phase |-> "prepared", limited |-> TRUE, value |-> None]
    BY <1>2 DEF Handled
  <2> QED
    BY <2>1 DEF NodeState
<1>3. CASE Accepts(nd, stage, slot) /\ stage = "submit"
  BY <1>3 DEF Handled
<1>4. CASE Accepts(nd, stage, slot) /\ stage = "start"
  BY <1>4 DEF Handled, NodeState
<1> QED
  BY <1>1, <1>2, <1>3, <1>4

\* The nodes that a cluster is started with.
LEMMA FreshType ==
    ASSUME NEW n \in Nat, NEW slot \in Nat
    PROVE  /\ Fresh(n, slot) \in Seq(NodeState)
           /\ DOMAIN Fresh(n, slot) = 1 .. n
           /\ \A i \in 1 .. n : Fresh(n, slot)[i].slot = slot
<1>1. \A i \in 1 .. n : Fresh(n, slot)[i] \in NodeState
  BY DEF Fresh, NodeState
<1>2. Fresh(n, slot) \in Seq(NodeState)
  <2>1. Fresh(n, slot) = [i \in 1 .. n |-> Fresh(n, slot)[i]]
    BY DEF Fresh
  <2>2. [i \in 1 .. n |-> Fresh(n, slot)[i]] \in Seq(NodeState)
    BY <1>1, IsASeq
  <2> QED
    BY <2>1, <2>2
<1> QED
  BY <1>2 DEF Fresh

\* The run that is on now is of the present group, whether planned or part of a
\* recovery.
LEMMA PresentRun ==
    ASSUME CampaignInv, TypeInv, PlaceInv, Going, at <= Len(plan)
    PROVE  /\ plan[at] \in Planned
           /\ GroupSize \in Nat \ {0}
           /\ Present.scenario \in Scenarios(campaign)
           /\ Present.phase = (IF cluster.recovering THEN "recovery" ELSE plan[at].phase)
           /\ ~cluster.recovering => Present = plan[at]
           /\ cluster.recovering => /\ First(Unproven) \in Unproven
                                    /\ Present.scenario = campaign.scenarios[First(Unproven)]
           /\ Size[Present.scenario] = GroupSize
           /\ Nodes = 1 .. GroupSize
<1>1. plan[at] \in Planned
  BY DEF CampaignInv, TypeInv
<1>2. \A s \in Scenarios(campaign) : Size[s] \in Nat \ {0}
  <2>1. Scenarios(campaign) \subseteq DOMAIN Size
    BY DEF CampaignInv, Scenarios
  <2> QED
    BY <2>1, EvaluationAssumption
<1>3. GroupSize \in Nat \ {0}
  BY <1>1, <1>2 DEF GroupSize, Planned
<1>4. CASE ~cluster.recovering
  <2>1. Present = plan[at]
    BY <1>4 DEF Present
  <2> QED
    BY <1>1, <1>3, <1>4, <2>1 DEF Nodes, GroupSize, Planned
<1>5. CASE cluster.recovering
  <2>1. Unproven # {} /\ Unproven \subseteq Group(GroupSize)
    BY <1>5 DEF PlaceInv, Unproven, GroupSize
  <2>2. Group(GroupSize) \subseteq Nat /\ Group(GroupSize) \subseteq DOMAIN campaign.scenarios
    BY DEF Group, CampaignInv
  <2>3. First(Unproven) \in Unproven
    BY <2>1, <2>2, FirstIn
  <2>4. Present = [scenario |-> campaign.scenarios[First(Unproven)], phase |-> "recovery"]
    BY <1>5 DEF Present
  <2>5. Size[campaign.scenarios[First(Unproven)]] = GroupSize
    BY <2>1, <2>3 DEF Group
  <2>6. campaign.scenarios[First(Unproven)] \in Scenarios(campaign)
    BY <2>1, <2>2, <2>3 DEF Scenarios
  <2> QED
    BY <1>1, <1>3, <1>5, <2>3, <2>4, <2>5, <2>6 DEF Nodes
<1> QED
  BY <1>4, <1>5

\* A group has at least the scenario of the planned run.
LEMMA GroupNonempty ==
    ASSUME CampaignInv, NEW i \in DOMAIN plan
    PROVE  Group(Size[plan[i].scenario]) # {}
<1>1. plan[i].scenario \in Scenarios(campaign)
  <2>1. plan[i] \in Planned
    BY DEF CampaignInv
  <2> QED
    BY <2>1 DEF Planned
<1> QED
  BY <1>1 DEF Group, Scenarios

-----------------------------------------------------------------------------
(* The initial states.                                                     *)

\* A shuffled plan is a plan of the campaign's scenarios, by node count.
LEMMA PlansSound ==
    ASSUME NEW c \in Campaign, NEW p \in Plans(c),
           campaign = [mode |-> c.mode, source |-> c.source, scenarios |-> c.scenarios,
                       repetitions |-> c.repetitions, plan |-> p]
    PROVE  CampaignInv
<1>1. PICK q \in Orders(c) :
         p = [i \in DOMAIN q |->
                [scenario |-> c.scenarios[q[i]],
                 phase |-> IF Round(c, q, i) < c.warmups THEN "warmup" ELSE "measured"]]
  BY DEF Plans
<1> DEFINE n == (c.warmups + c.repetitions) * Len(c.scenarios)
<1>2. /\ c.mode \in {"persistent", "remote", "isolated"}
      /\ c.source \in {"synthetic", "mock-encrypted-corpus"}
      /\ c.scenarios \in Seq(DOMAIN Size) /\ c.scenarios # <<>>
      /\ c.warmups \in Nat /\ c.repetitions \in Nat
      /\ c.mode = "remote" => Len(c.scenarios) = 1
  BY EvaluationAssumption
<1>3. n \in Nat
  <2>1. \A a, b \in Nat : a * b \in Nat
    OBVIOUS
  <2>2. c.warmups + c.repetitions \in Nat /\ Len(c.scenarios) \in Nat
    BY <1>2
  <2> QED
    BY <2>1, <2>2
<1>4. q \in [1 .. n -> DOMAIN c.scenarios]
  BY DEF Orders
<1>5. \A i, j \in 1 .. n : i < j /\ c.mode = "persistent" =>
        Size[c.scenarios[q[i]]] <= Size[c.scenarios[q[j]]]
  BY DEF Orders
<1> HIDE DEF n
<1>6. DOMAIN p = 1 .. n
  BY <1>1, <1>4
<1>7. \A i \in 1 .. n : p[i].scenario = c.scenarios[q[i]] /\ p[i] \in Planned
  <2> TAKE i \in 1 .. n
  <2>1. p[i] = [scenario |-> c.scenarios[q[i]],
                phase |-> IF Round(c, q, i) < c.warmups THEN "warmup" ELSE "measured"]
    BY <1>1, <1>4
  <2>2. c.scenarios[q[i]] \in Scenarios(campaign)
    BY <1>4 DEF Scenarios
  <2> QED
    BY <2>1, <2>2 DEF Planned
<1>8. p \in Seq(Planned)
  <2>1. p = [i \in 1 .. n |-> p[i]]
    BY <1>1, <1>6
  <2>2. [i \in 1 .. n |-> p[i]] \in Seq(Planned)
    BY <1>3, <1>7, IsASeq
  <2> QED
    BY <2>1, <2>2
<1> QED
  BY <1>2, <1>5, <1>6, <1>7, <1>8 DEF CampaignInv, plan, Persistent

LEMMA Initial ==
    Init => IInv
<1> SUFFICES ASSUME Init PROVE IInv
  OBVIOUS
<1>1. CampaignInv
  <2>1. PICK c \in Campaign : \E p \in Plans(c) :
           campaign = [mode |-> c.mode, source |-> c.source, scenarios |-> c.scenarios,
                       repetitions |-> c.repetitions, plan |-> p]
    BY DEF Init
  <2>2. PICK p \in Plans(c) :
           campaign = [mode |-> c.mode, source |-> c.source, scenarios |-> c.scenarios,
                       repetitions |-> c.repetitions, plan |-> p]
    BY <2>1
  <2> QED
    BY <2>2, PlansSound
<1>2. /\ at = 1 /\ nextSlot = 1 /\ cluster = NoCluster /\ late = {} /\ pc = "cluster"
      /\ todo = {} /\ err = "none" /\ expired = FALSE /\ results = <<>> /\ runs = <<>>
      /\ manifest.status = "running"
  BY DEF Init
<1>3. Len(plan) \in Nat
  BY <1>1 DEF CampaignInv
<1>4. /\ node \in Seq(NodeState)
      /\ campaign.mode = "remote" => DOMAIN node = 1 .. Size[campaign.scenarios[1]]
      /\ Isolated => node = <<>>
  <2>1. Size[campaign.scenarios[1]] \in Nat
    BY <1>1, EvaluationAssumption DEF CampaignInv
  <2>2. 1 \in Nat
    OBVIOUS
  <2>3. node = IF campaign.mode = "remote" THEN Fresh(Size[campaign.scenarios[1]], 1) ELSE <<>>
    BY DEF Init
  <2>4. <<>> \in Seq(NodeState)
    OBVIOUS
  <2> QED
    BY <2>1, <2>2, <2>3, <2>4, FreshType DEF Isolated
<1>5. TypeInv
  <2>1. cluster \in ClusterState
    BY <1>2 DEF NoCluster, ClusterState
  <2>2. results \in Seq(Result) /\ runs \in Seq(Recorded)
    BY <1>2
  <2>3. at \in Nat \ {0} /\ at <= Len(plan) + 1 /\ nextSlot \in Nat
    BY <1>2, <1>3
  <2> QED
    BY <1>2, <1>4, <2>1, <2>2, <2>3 DEF TypeInv
<1>6. PlaceInv /\ ResultInv
  BY <1>2 DEF PlaceInv, ResultInv, NoCluster, Stages, Stopped, Going
<1>7. NodeInv
  BY <1>2, <1>4 DEF NodeInv, NoCluster, Stages
<1>8. PlannedRuns = {} /\ InGroup = {} /\ DOMAIN runs = {}
  BY <1>2 DEF PlannedRuns, InGroup
<1>9. RunInv
  BY <1>2, <1>8, FS_EmptySet DEF RunInv
<1>10. ClusterInv /\ FixedInv /\ CleanCluster
  BY <1>8 DEF ClusterInv, FixedInv, CleanCluster
<1>11. BudgetInv
  <2>1. Since(0)
    BY <1>2 DEF Since, NoCluster
  <2>2. cluster.failures < MaxRestarts
    BY <1>2, EvaluationAssumption DEF NoCluster
  <2> QED
    BY <2>1, <2>2 DEF BudgetInv
<1> QED
  BY <1>1, <1>5, <1>6, <1>7, <1>9, <1>10, <1>11 DEF IInv

-----------------------------------------------------------------------------
(* Steps of nodes and steps within a run leave the records alone.          *)

Records == RunInv /\ ClusterInv /\ BudgetInv /\ FixedInv /\ CleanCluster

LEMMA RecordsKept ==
    ASSUME IInv, UNCHANGED <<campaign, at, nextSlot, cluster, runs, manifest>>,
           pc' = pc \/ (Going /\ Going')
    PROVE  CampaignInv' /\ Records'
<1>1. CampaignInv'
  BY DEF IInv, CampaignInv, Planned, plan, Scenarios, Persistent
<1>2. PlannedRuns' = PlannedRuns /\ plan' = plan /\ Isolated' = Isolated
      /\ Persistent' = Persistent /\ GroupSize' = GroupSize /\ Going' = Going
  BY DEF PlannedRuns, plan, Isolated, Persistent, GroupSize, Going
<1>3. \A i : Rank(i)' = Rank(i)
  BY <1>2 DEF Rank
<1>4. RunInv'
  <2>1. manifest'.status # "running" => pc' = "done"
    BY DEF IInv, RunInv, Going, Stopped
  <2> QED
    BY <1>2, <1>3, <2>1 DEF IInv, RunInv
<1>5. InGroup' = InGroup
  BY <1>2 DEF InGroup
<1>6. \A i, s : ProvedSince(i, s)' = ProvedSince(i, s)
  BY DEF ProvedSince, Proves
<1>7. \A n : Group(n)' = Group(n)
  BY DEF Group
<1>8. ClusterInv'
  BY <1>2, <1>5, <1>6, <1>7 DEF IInv, ClusterInv
<1>9. BudgetInv'
  BY <1>2, <1>5 DEF IInv, BudgetInv, Since
<1>10. FixedInv'
  BY <1>2 DEF IInv, FixedInv
<1>11. CleanCluster'
  BY <1>7 DEF IInv, CleanCluster
<1> QED
  BY <1>1, <1>4, <1>8, <1>9, <1>10, <1>11 DEF Records

\* What the present run is does not change with it.
LEMMA PlaceKept ==
    ASSUME IInv, UNCHANGED <<campaign, at, cluster>>, pc' = pc \/ (Going /\ Going'),
           pc' \in Stages \union {"record"} => at <= Len(plan) /\ (Persistent => cluster.up)
    PROVE  PlaceInv' /\ Nodes' = Nodes /\ GroupSize' = GroupSize
<1>1. /\ plan' = plan /\ Persistent' = Persistent /\ Going' = Going
      /\ \A n : Group(n)' = Group(n)
  BY DEF plan, Persistent, Going, Group
<1>2. GroupSize' = GroupSize /\ Unproven' = Unproven
  BY <1>1 DEF GroupSize, Unproven
<1>3. PlaceInv'
  BY <1>1, <1>2 DEF IInv, PlaceInv, NoCluster
<1>4. Nodes' = Nodes
  BY <1>1, <1>2 DEF Nodes, Present
<1> QED
  BY <1>2, <1>3, <1>4

\* A node changes, and keeps its slot where there is only one.
LEMMA NodeChanges ==
    ASSUME IInv, NEW n \in DOMAIN node, NEW new \in NodeState,
           Isolated => new.slot = nextSlot,
           node' = [node EXCEPT ![n] = new]
    PROVE  /\ node' \in Seq(NodeState)
           /\ DOMAIN node' = DOMAIN node
           /\ Isolated => \A m \in DOMAIN node : node'[m].slot = nextSlot
<1>1. node \in Seq(NodeState)
  BY DEF IInv, TypeInv
<1>2. n \in 1 .. Len(node)
  BY <1>1
<1>3. node' \in Seq(NodeState)
  BY <1>1, <1>2, ExceptSeq
<1> QED
  BY <1>3 DEF IInv, NodeInv

\* In a run the nodes are those the evaluator asks.
LEMMA StageNodes ==
    ASSUME IInv, pc \in Stages
    PROVE  /\ DOMAIN node = Nodes /\ Nodes \subseteq Nat
           /\ \A n \in Nodes : node[n] \in NodeState
<1>1. Going /\ at <= Len(plan) /\ (Persistent => cluster.up)
  BY DEF IInv, PlaceInv, Going, Stages, Stopped
<1>2. Nodes = 1 .. GroupSize /\ plan[at] \in Planned /\ GroupSize \in Nat
  BY <1>1, PresentRun DEF IInv
<1>3. CASE Persistent
  BY <1>1, <1>2, <1>3 DEF IInv, NodeInv, TypeInv
<1>4. CASE Isolated
  BY <1>2, <1>4 DEF IInv, NodeInv, TypeInv
<1>5. CASE campaign.mode = "remote"
  <2>1. Len(campaign.scenarios) = 1 /\ campaign.scenarios \in Seq(DOMAIN Size)
    BY <1>5 DEF IInv, CampaignInv
  <2>2. plan[at].scenario = campaign.scenarios[1]
    BY <1>2, <2>1 DEF Planned, Scenarios
  <2> QED
    BY <1>1, <1>2, <1>5, <2>2 DEF IInv, NodeInv, TypeInv, GroupSize
<1> QED
  BY <1>3, <1>4, <1>5 DEF IInv, CampaignInv, Persistent, Isolated

\* A step that changes nodes and outstanding requests only.
LEMMA NodeStep ==
    ASSUME IInv,
           UNCHANGED <<campaign, at, nextSlot, cluster, pc, todo, err, expired, results, runs,
                       manifest>>,
           NEW n \in DOMAIN node, NEW new \in NodeState, Isolated => new.slot = nextSlot,
           node' = [node EXCEPT ![n] = new], late' \subseteq late
    PROVE  IInv'
<1>1. CampaignInv' /\ Records'
  BY RecordsKept
<1>2. PlaceInv' /\ Nodes' = Nodes /\ GroupSize' = GroupSize
  BY PlaceKept DEF IInv, PlaceInv
<1>3. plan' = plan /\ Isolated' = Isolated /\ Persistent' = Persistent /\ Going' = Going
  BY DEF plan, Isolated, Persistent, Going
<1>4. /\ node' \in Seq(NodeState)
      /\ DOMAIN node' = DOMAIN node
      /\ Isolated => \A m \in DOMAIN node : node'[m].slot = nextSlot
  BY NodeChanges
<1>5. TypeInv'
  <2>1. Scenarios(campaign)' = Scenarios(campaign) /\ Recorded' = Recorded /\ ClusterState' = ClusterState
    BY DEF Scenarios, Recorded, ClusterState
  <2> QED
    BY <1>3, <1>4, <2>1 DEF IInv, TypeInv
<1>6. NodeInv'
  BY <1>2, <1>3, <1>4 DEF IInv, NodeInv
<1>7. ResultInv'
  BY <1>2 DEF IInv, ResultInv, OneEach, CountMismatch, Isolated
<1> QED
  BY <1>1, <1>2, <1>5, <1>6, <1>7 DEF IInv, Records

LEMMA SlotEndsStep ==
    ASSUME IInv, NEW n \in DOMAIN node, SlotEnds(n) \/ Dies(n)
    PROVE  IInv'
<1>1. node[n] \in NodeState
  BY DEF IInv, TypeInv
<1>2. ASSUME NEW p \in {"completed", "finalized", "failed", "down"},
             NEW v \in Value \union {None},
             node' = [node EXCEPT ![n].phase = p, ![n].value = v],
             UNCHANGED <<campaign, at, nextSlot, cluster, late, pc, todo, err, expired,
                         results, runs, manifest>>
      PROVE  IInv'
  <2> DEFINE new == [node[n] EXCEPT !.phase = p, !.value = v]
  <2>1. new \in NodeState /\ new.slot = node[n].slot
    BY <1>1 DEF NodeState
  <2>2. node' = [node EXCEPT ![n] = new]
    BY <1>2
  <2>3. Isolated => new.slot = nextSlot
    BY <2>1 DEF IInv, NodeInv
  <2> HIDE DEF new
  <2> QED
    BY <1>2, <2>1, <2>2, <2>3, NodeStep
<1>3. ASSUME NEW p \in {"completed", "finalized", "failed", "down"},
             node' = [node EXCEPT ![n].phase = p],
             UNCHANGED <<campaign, at, nextSlot, cluster, late, pc, todo, err, expired,
                         results, runs, manifest>>
      PROVE  IInv'
  <2> DEFINE new == [node[n] EXCEPT !.phase = p]
  <2>1. new \in NodeState /\ new.slot = node[n].slot
    BY <1>1 DEF NodeState
  <2>2. node' = [node EXCEPT ![n] = new]
    BY <1>3
  <2>3. Isolated => new.slot = nextSlot
    BY <2>1 DEF IInv, NodeInv
  <2> HIDE DEF new
  <2> QED
    BY <1>3, <2>1, <2>2, <2>3, NodeStep
<1>4. CASE SlotEnds(n)
  BY <1>2, <1>3, <1>4 DEF SlotEnds
<1>5. CASE Dies(n)
  BY <1>3, <1>5 DEF Dies
<1> QED
  BY <1>4, <1>5

LEMMA HandlesLateStep ==
    ASSUME IInv, NEW r \in late, HandlesLate(r)
    PROVE  IInv'
<1>1. PICK new \in Handled(node[r.node], r.stage, r.slot) :
         node' = [node EXCEPT ![r.node] = new]
  BY DEF HandlesLate
<1>2. r.node \in DOMAIN node /\ r.stage \in {"prepare", "start"} /\ r.slot \in Nat
  BY DEF IInv, TypeInv, NodeInv
<1>3. node[r.node] \in NodeState
  BY <1>2 DEF IInv, TypeInv
<1>4. new \in NodeState /\ (node[r.node].slot = r.slot => new.slot = r.slot)
  BY <1>1, <1>2, <1>3, HandledType
<1>5. Isolated => new.slot = nextSlot
  BY <1>2, <1>4 DEF IInv, NodeInv
<1>6. late' \subseteq late
      /\ UNCHANGED <<campaign, at, nextSlot, cluster, pc, todo, err, expired, results, runs,
                     manifest>>
  BY DEF HandlesLate
<1> QED
  BY <1>1, <1>2, <1>4, <1>5, <1>6, NodeStep

-----------------------------------------------------------------------------
(* Steps within a run.                                                     *)

LEMMA RunStep ==
    ASSUME IInv, UNCHANGED <<campaign, at, nextSlot, cluster, runs, manifest>>,
           Going, pc' \in Stages \union {"record"},
           at <= Len(plan), Persistent => cluster.up,
           node' \in Seq(NodeState),
           late' \subseteq [node : Nat, stage : {"prepare", "start"}, slot : Nat],
           todo' \subseteq Nat,
           err' \in {"none", "failed", "timeout", "terminal", "count"},
           expired' \in BOOLEAN,
           results' \in Seq(Result),
           NodeInv', ResultInv'
    PROVE  IInv'
<1>1. Going'
  BY DEF Going, Stages, Stopped
<1>2. CampaignInv' /\ Records'
  BY <1>1, RecordsKept
<1>3. PlaceInv'
  BY <1>1, PlaceKept
<1>4. TypeInv'
  <2>1. Recorded' = Recorded /\ ClusterState' = ClusterState /\ plan' = plan
    BY DEF Scenarios, Recorded, ClusterState, plan
  <2>2. pc' \in Stages \union Stopped \union {"cluster", "record"}
    OBVIOUS
  <2> QED
    BY <2>1, <2>2 DEF IInv, TypeInv
<1> QED
  BY <1>2, <1>3, <1>4 DEF IInv, Records

\* The same for a step that leaves the nodes alone.
LEMMA EvaluatorStep ==
    ASSUME IInv, UNCHANGED <<campaign, at, nextSlot, cluster, node, late, runs, manifest>>,
           pc \in Stages, pc' \in Stages \union {"record"},
           todo' \subseteq Nodes,
           err' \in {"none", "failed", "timeout", "terminal", "count"},
           expired' \in BOOLEAN,
           results' \in Seq(Result), ResultInv'
    PROVE  IInv'
<1>1. Going /\ Going' /\ at <= Len(plan) /\ (Persistent => cluster.up)
  BY DEF IInv, PlaceInv, Going, Stages, Stopped
<1>2. Nodes' = Nodes /\ GroupSize' = GroupSize
  BY <1>1, PlaceKept
<1>3. NodeInv'
  BY <1>1, <1>2 DEF IInv, NodeInv, Persistent, Isolated
<1>4. todo' \subseteq Nat
  BY StageNodes
<1> QED
  BY <1>1, <1>3, <1>4, RunStep DEF IInv, TypeInv

LEMMA BeginSlotStep ==
    ASSUME IInv, BeginSlot
    PROVE  IInv'
<1>1. /\ pc = "cluster" /\ at <= Len(plan) /\ ~Isolated /\ (Persistent => cluster.up)
      /\ pc' = "prepare" /\ todo' = Nodes /\ err' = "none" /\ results' = <<>> /\ expired' = FALSE
      /\ UNCHANGED <<campaign, at, nextSlot, cluster, node, late, runs, manifest>>
  BY DEF BeginSlot, EnterStage, Asked
<1>2. Going /\ Going'
  BY <1>1 DEF Going, Stopped
<1>3. Nodes' = Nodes /\ GroupSize' = GroupSize
  BY <1>1, <1>2, PlaceKept
<1>4. Nodes \subseteq Nat
  BY <1>1, <1>2, PresentRun DEF IInv
<1>5. NodeInv'
  BY <1>1, <1>2, <1>3 DEF IInv, NodeInv, Persistent, Isolated
<1>6. ResultInv'
  BY <1>1, <1>3 DEF ResultInv
<1>7. results' \in Seq(Result)
  BY <1>1
<1> QED
  BY <1>1, <1>2, <1>4, <1>5, <1>6, <1>7, RunStep DEF IInv, TypeInv, Stages

LEMMA runLocalExperimentStep ==
    ASSUME IInv, runLocalExperiment
    PROVE  IInv'
<1>1. /\ pc = "cluster" /\ at <= Len(plan) /\ Isolated /\ late' = {}
      /\ results' = <<>> /\ expired' = FALSE
      /\ UNCHANGED <<campaign, at, nextSlot, cluster, runs, manifest>>
      /\ pc' \in {"submit", "record"}
  BY DEF runLocalExperiment, EnterStage
<1>2. Going /\ Going' /\ ~Persistent /\ Isolated' /\ campaign'.mode # "remote"
  BY <1>1 DEF Going, Stopped, Persistent, Isolated
<1>3. Nodes' = Nodes
  BY <1>1, <1>2, PlaceKept
<1>4. Size[Present.scenario] \in Nat /\ Nodes = 1 .. Size[Present.scenario]
  BY <1>1, <1>2, PresentRun DEF IInv
<1>5. nextSlot \in Nat /\ results' \in Seq(Result)
  BY <1>1 DEF IInv, TypeInv
<1>6. CASE pc' = "submit"
  <2>1. node' = Fresh(Size[Present.scenario], nextSlot) /\ err' = "none" /\ todo' \subseteq Nodes
    BY <1>6 DEF runLocalExperiment, EnterStage, Asked
  <2>2. /\ node' \in Seq(NodeState) /\ DOMAIN node' = Nodes
        /\ \A n \in Nodes : node'[n].slot = nextSlot
    BY <1>4, <1>5, <2>1, FreshType
  <2>3. NodeInv'
    BY <1>1, <1>2, <1>3, <2>2 DEF NodeInv, Persistent, Isolated
  <2>4. ResultInv'
    BY <1>1, <1>3, <1>6, <2>1 DEF ResultInv
  <2>5. todo' \subseteq Nat
    BY <1>4, <2>1
  <2> QED
    BY <1>1, <1>2, <1>5, <1>6, <2>1, <2>2, <2>3, <2>4, <2>5, RunStep DEF Stages
<1>7. CASE pc' = "record"
  <2>1. node' = <<>> /\ err' = "failed" /\ todo' = {}
    BY <1>7 DEF runLocalExperiment, EnterStage
  <2>2. node' \in Seq(NodeState) /\ DOMAIN node' = {}
    BY <2>1
  <2>3. NodeInv'
    BY <1>1, <1>2, <1>7, <2>2 DEF NodeInv, Persistent, Isolated, Stages
  <2>4. ResultInv'
    BY <1>7, <2>1 DEF ResultInv, Stages
  <2> QED
    BY <1>1, <1>2, <1>5, <1>7, <2>1, <2>2, <2>3, <2>4, RunStep DEF Stages
<1> QED
  BY <1>1, <1>6, <1>7

LEMMA PostStep ==
    ASSUME IInv, NEW n \in todo, Post(n)
    PROVE  IInv'
<1>1. /\ pc \in {"prepare", "submit", "start"} /\ pc' = pc /\ todo' = todo \ {n}
      /\ UNCHANGED <<campaign, at, nextSlot, cluster, pc, expired, results, runs, manifest>>
  BY DEF Post, Following
<1>2. Going /\ at <= Len(plan) /\ (Persistent => cluster.up)
  BY <1>1 DEF IInv, PlaceInv, Going, Stages, Stopped
<1>3. Nodes' = Nodes /\ GroupSize' = GroupSize
  BY <1>1, <1>2, PlaceKept
<1>4. todo \subseteq Nodes /\ results = <<>>
  BY <1>1 DEF IInv, ResultInv, Stages
<1>5. DOMAIN node = Nodes /\ Nodes \subseteq Nat /\ node[n] \in NodeState
  BY <1>1, <1>4, StageNodes DEF Stages
<1>6. nextSlot \in Nat
  BY DEF IInv, TypeInv
<1>7. ResultInv'
  BY <1>1, <1>3, <1>4 DEF ResultInv
<1>8. Going' = Going /\ Isolated' = Isolated /\ Persistent' = Persistent
  BY <1>1 DEF Going, Isolated, Persistent
<1>9. CASE UNCHANGED late
           /\ \E new \in Handled(node[n], pc, nextSlot) : node' = [node EXCEPT ![n] = new]
  <2>1. PICK new \in Handled(node[n], pc, nextSlot) : node' = [node EXCEPT ![n] = new]
    BY <1>9
  <2>2. new \in NodeState /\ (Isolated => new.slot = nextSlot)
    BY <1>1, <1>4, <1>5, <1>6, <2>1, HandledType DEF IInv, NodeInv
  <2>3. /\ node' \in Seq(NodeState)
        /\ DOMAIN node' = DOMAIN node
        /\ Isolated => \A m \in DOMAIN node : node'[m].slot = nextSlot
    BY <1>4, <1>5, <2>1, <2>2, NodeChanges
  <2>4. NodeInv'
    BY <1>1, <1>3, <1>8, <1>9, <2>3 DEF IInv, NodeInv
  <2>5. err' \in {"none", "failed", "timeout", "terminal", "count"}
    BY DEF Post, IInv, TypeInv
  <2> QED
    BY <1>1, <1>2, <1>4, <1>5, <1>7, <1>9, <2>3, <2>4, <2>5, RunStep DEF IInv, TypeInv, Stages
<1>10. CASE /\ UNCHANGED node
            /\ err' = IF err = "none" THEN "timeout" ELSE err
            /\ late' = late \union
                         (IF pc = "submit" THEN {} ELSE {[node |-> n, stage |-> pc, slot |-> nextSlot]})
  <2>1. late' \subseteq [node : Nat, stage : {"prepare", "start"}, slot : Nat]
    BY <1>1, <1>4, <1>5, <1>6, <1>10 DEF IInv, TypeInv
  <2>2. NodeInv'
    BY <1>1, <1>3, <1>4, <1>5, <1>8, <1>10 DEF IInv, NodeInv
  <2>3. err' \in {"none", "failed", "timeout", "terminal", "count"}
    BY <1>10 DEF IInv, TypeInv
  <2> QED
    BY <1>1, <1>2, <1>4, <1>5, <1>7, <1>10, <2>1, <2>2, <2>3, RunStep DEF IInv, TypeInv, Stages
<1> QED
  BY <1>9, <1>10 DEF Post

LEMMA StageEndsStep ==
    ASSUME IInv, StageEnds
    PROVE  IInv'
<1>1. /\ pc \in {"prepare", "submit", "start"} /\ todo = {}
      /\ UNCHANGED <<campaign, at, nextSlot, cluster, node, late, err, expired, results, runs,
                     manifest>>
  BY DEF StageEnds, Following
<1>2. results = <<>>
  BY <1>1 DEF IInv, ResultInv, Stages
<1>3. CASE err = "none"
  <2>1. pc' \in Stages /\ todo' \subseteq Nodes
    BY <1>1, <1>3 DEF StageEnds, EnterStage, Asked, Following, Stages
  <2>2. Nodes' = Nodes
    BY <1>1, <2>1, PlaceKept DEF IInv, PlaceInv, Going, Stages, Stopped
  <2>3. ResultInv'
    BY <1>1, <1>2, <1>3, <2>1, <2>2 DEF ResultInv, OneEach, Stages
  <2> QED
    BY <1>1, <2>1, <2>3, EvaluatorStep DEF IInv, TypeInv, Stages
<1>4. CASE err # "none"
  <2>1. pc' = "record" /\ todo' = {}
    BY <1>1, <1>4 DEF StageEnds
  <2>2. ResultInv'
    BY <1>1, <1>4, <2>1 DEF ResultInv, Stages
  <2> QED
    BY <1>1, <2>1, <2>2, EvaluatorStep DEF IInv, TypeInv, Stages
<1> QED
  BY <1>3, <1>4

LEMMA DeadlinePassesStep ==
    ASSUME IInv, DeadlinePasses
    PROVE  IInv'
<1>1. /\ pc = "poll" /\ expired' = TRUE /\ pc' = pc
      /\ UNCHANGED <<campaign, at, nextSlot, cluster, node, late, todo, err, results, runs,
                     manifest>>
  BY DEF DeadlinePasses
<1>2. Nodes' = Nodes
  BY <1>1, PlaceKept DEF IInv, PlaceInv
<1>3. ResultInv'
  BY <1>1, <1>2 DEF IInv, ResultInv, OneEach, CountMismatch, Isolated
<1>4. todo' \subseteq Nodes
  BY <1>1 DEF IInv, ResultInv, Stages
<1> QED
  BY <1>1, <1>3, <1>4, EvaluatorStep DEF IInv, TypeInv, Stages

\* One more result, of a node that was still to be asked.
LEMMA CollectStep ==
    ASSUME IInv, pc = "poll", todo # {}, Collect(First(todo)),
           Isolated \/ node[First(todo)].slot = nextSlot,
           UNCHANGED <<campaign, at, nextSlot, cluster, node, late, expired, runs, manifest>>
    PROVE  IInv'
<1> DEFINE n == First(todo)
<1> DEFINE new == [node |-> n, slot |-> node[n].slot, value |-> node[n].value]
<1>1. todo \subseteq Nodes /\ err = "none" /\ OneEach
      /\ \A i \in DOMAIN results : results[i].node \notin todo
  BY DEF IInv, ResultInv, Stages
<1>2. DOMAIN node = Nodes /\ Nodes \subseteq Nat
      /\ \A m \in Nodes : node[m] \in NodeState
  BY StageNodes DEF Stages
<1>3. n \in todo
  BY <1>1, <1>2, FirstIn
<1>4. new \in Result /\ new.node = n /\ new.slot = nextSlot
  BY <1>1, <1>2, <1>3 DEF Result, NodeState, IInv, NodeInv
<1>5. results' = Append(results, new) /\ todo' = todo \ {n} /\ pc' = pc /\ err' = err
  BY DEF Collect
<1> HIDE DEF n, new
<1>6. results \in Seq(Result)
  BY DEF IInv, TypeInv
<1>7. /\ results' \in Seq(Result)
      /\ DOMAIN results' = DOMAIN results \union {Len(results) + 1}
      /\ \A i \in DOMAIN results : results'[i] = results[i]
      /\ results'[Len(results) + 1] = new
  BY <1>4, <1>5, <1>6
<1>8. Nodes' = Nodes
  BY <1>5, PlaceKept DEF IInv, PlaceInv
<1>9. OneEach'
  <2>1. \A i \in DOMAIN results' : results'[i].node \in Nodes' /\ results'[i].slot = nextSlot'
    BY <1>1, <1>3, <1>4, <1>7, <1>8 DEF OneEach
  <2>2. \A i \in DOMAIN results : results[i].node # n
    BY <1>1, <1>3
  <2>3. \A i, j \in DOMAIN results' : results'[i].node = results'[j].node => i = j
    BY <1>1, <1>4, <1>7, <2>2 DEF OneEach
  <2> QED
    BY <2>1, <2>3 DEF OneEach
<1>10. \A i \in DOMAIN results' : results'[i].node \notin todo'
  BY <1>1, <1>4, <1>5, <1>7
<1>11. ResultInv'
  BY <1>1, <1>5, <1>8, <1>9, <1>10 DEF ResultInv, Stages
<1> QED
  BY <1>1, <1>5, <1>7, <1>11, EvaluatorStep DEF IInv, TypeInv, Stages

\* A node that has nothing to say yet.
LEMMA MissingStep ==
    ASSUME IInv, pc = "poll", todo' \subseteq todo,
           UNCHANGED <<campaign, at, nextSlot, cluster, node, late, pc, err, results, expired,
                       runs, manifest>>
    PROVE  IInv'
<1>1. Nodes' = Nodes
  BY PlaceKept DEF IInv, PlaceInv
<1>2. ResultInv'
  BY <1>1 DEF IInv, ResultInv, OneEach
<1>3. todo' \subseteq Nodes
  BY DEF IInv, ResultInv, Stages
<1> QED
  BY <1>2, <1>3, EvaluatorStep DEF IInv, TypeInv, Stages

LEMMA TerminalStep ==
    ASSUME IInv, pc = "poll", TerminalFailure \/ \E n \in todo : InvalidAnswer(n),
           UNCHANGED <<campaign, at, nextSlot, cluster, node, late, expired, runs, manifest>>
    PROVE  IInv'
<1>1. err' \in {"terminal", "failed"} /\ pc' = "record" /\ todo' = {} /\ results' = results
  BY DEF TerminalFailure, InvalidAnswer
<1>2. ResultInv'
  BY <1>1 DEF ResultInv, Stages
<1> QED
  BY <1>1, <1>2, EvaluatorStep DEF IInv, TypeInv, Stages

LEMMA PollStep ==
    ASSUME IInv, pollResultsOnce \/ pollResults
    PROVE  IInv'
<1>1. /\ pc = "poll" /\ todo # {}
      /\ UNCHANGED <<campaign, at, nextSlot, cluster, node, late, expired, runs, manifest>>
  BY DEF pollResultsOnce, pollResults
<1>2. CASE (Isolated \/ node[First(todo)].slot = nextSlot) /\ Collect(First(todo))
  BY <1>1, <1>2, CollectStep
<1>3. CASE TerminalFailure \/ InvalidAnswer(First(todo))
  <2>1. First(todo) \in todo
    BY <1>1, StageNodes, FirstIn DEF IInv, ResultInv, Stages
  <2> QED
    BY <1>1, <1>3, <2>1, TerminalStep
<1>4. CASE todo' \subseteq todo /\ UNCHANGED <<pc, err, results>>
  BY <1>1, <1>4, MissingStep
<1> QED
  BY <1>2, <1>3, <1>4 DEF pollResultsOnce, pollResults

LEMMA SweepEndsStep ==
    ASSUME IInv, SweepEnds
    PROVE  IInv'
<1>1. /\ pc = "poll" /\ todo = {}
      /\ UNCHANGED <<campaign, at, nextSlot, cluster, node, late, expired, runs, manifest>>
  BY DEF SweepEnds
<1>2. err = "none" /\ OneEach
  BY <1>1 DEF IInv, ResultInv
<1>3. CASE /\ Len(results) = Cardinality(Nodes) /\ pc' = "record"
           /\ err' = IF CountMismatch THEN "count" ELSE err
           /\ UNCHANGED <<todo, results>>
  <2>1. Nodes' = Nodes
    BY <1>1, <1>3, PlaceKept DEF IInv, PlaceInv, Going, Stages, Stopped
  <2>2. CountMismatch' = CountMismatch
    BY <1>1, <1>3 DEF CountMismatch, Isolated
  <2>3. OneEach'
    BY <1>1, <1>2, <1>3, <2>1 DEF OneEach
  <2>4. err' = "none" => ~CountMismatch
    BY <1>3
  <2>5. ResultInv'
    BY <1>3, <2>1, <2>2, <2>3, <2>4 DEF ResultInv, Stages
  <2>6. err' \in {"none", "failed", "timeout", "terminal", "count"}
    BY <1>2, <1>3
  <2> QED
    BY <1>1, <1>3, <2>5, <2>6, EvaluatorStep DEF IInv, TypeInv, Stages
<1>4. CASE pc' = "record" /\ err' = "timeout" /\ UNCHANGED <<todo, results>>
  <2>1. ResultInv'
    BY <1>4 DEF ResultInv, Stages
  <2> QED
    BY <1>1, <1>4, <2>1, EvaluatorStep DEF IInv, TypeInv, Stages
<1>5. CASE todo' = Nodes /\ results' = <<>> /\ UNCHANGED <<pc, err>>
  <2>1. Nodes' = Nodes
    BY <1>1, <1>5, PlaceKept DEF IInv, PlaceInv
  <2>2. ResultInv'
    BY <1>1, <1>2, <1>5, <2>1 DEF ResultInv, OneEach, Stages
  <2>3. results' \in Seq(Result)
    BY <1>5
  <2> QED
    BY <1>1, <1>2, <1>5, <2>2, <2>3, EvaluatorStep DEF IInv, TypeInv, Stages
<1> QED
  BY <1>3, <1>4, <1>5 DEF SweepEnds

-----------------------------------------------------------------------------
(* Steps between runs that record nothing.                                 *)

\* What depends on the campaign and the records alone.
LEMMA RunsKept ==
    ASSUME IInv, UNCHANGED <<campaign, runs>>
    PROVE  /\ CampaignInv' /\ CleanCluster' /\ FixedInv'
           /\ PlannedRuns' = PlannedRuns /\ plan' = plan
           /\ Isolated' = Isolated /\ Persistent' = Persistent
           /\ \A n : Group(n)' = Group(n)
           /\ \A i : Rank(i)' = Rank(i)
<1>1. PlannedRuns' = PlannedRuns /\ plan' = plan /\ Isolated' = Isolated
      /\ Persistent' = Persistent /\ \A n : Group(n)' = Group(n)
  BY DEF PlannedRuns, plan, Isolated, Persistent, Group
<1>2. \A i : Rank(i)' = Rank(i)
  BY <1>1 DEF Rank
<1>3. CampaignInv'
  BY DEF IInv, CampaignInv, Planned, plan, Scenarios, Persistent
<1>4. FixedInv'
  BY <1>1 DEF IInv, FixedInv
<1>5. CleanCluster'
  BY <1>1 DEF IInv, CleanCluster
<1> QED
  BY <1>1, <1>2, <1>3, <1>4, <1>5

LEMMA FinishStep ==
    ASSUME IInv, Finish
    PROVE  IInv'
<1>1. /\ pc \in {"aborted", "cluster"} /\ pc' = "done"
      /\ UNCHANGED <<campaign, at, nextSlot, cluster, node, late, todo, err, expired, results,
                     runs>>
  BY DEF Finish
<1>2. /\ CampaignInv' /\ CleanCluster' /\ FixedInv'
      /\ PlannedRuns' = PlannedRuns /\ plan' = plan
      /\ Isolated' = Isolated /\ Persistent' = Persistent
      /\ \A i : Rank(i)' = Rank(i)
  BY <1>1, RunsKept
<1>3. ~Going'
  BY <1>1 DEF Going, Stopped
<1>4. \/ manifest' = manifest
      \/ /\ manifest'.status \in {"complete", "invalid"}
         /\ manifest'.status = "complete" => Cardinality(PlannedRuns) = Len(plan)
  BY DEF Finish, suiteCollectionComplete
<1>5. TypeInv'
  <2>1. Recorded' = Recorded /\ ClusterState' = ClusterState
    BY <1>1 DEF Scenarios, Recorded, ClusterState
  <2> QED
    BY <1>1, <1>2, <1>4, <2>1 DEF IInv, TypeInv, Stopped
<1>6. PlaceInv' /\ NodeInv' /\ ResultInv'
  BY <1>1, <1>2, <1>3 DEF IInv, PlaceInv, NodeInv, ResultInv, Stages, NoCluster
<1>7. RunInv'
  BY <1>1, <1>2, <1>3, <1>4 DEF IInv, RunInv
<1>8. ClusterInv' /\ BudgetInv'
  BY <1>3 DEF ClusterInv, BudgetInv
<1> QED
  BY <1>2, <1>5, <1>6, <1>7, <1>8 DEF IInv

\* A generation is started, or fails to start.
LEMMA StartStep ==
    ASSUME IInv, startCluster \/ startClusterFails
    PROVE  IInv'
<1>1. /\ pc = "cluster" /\ at <= Len(plan) /\ Persistent /\ ~cluster.up
      /\ UNCHANGED <<campaign, at, nextSlot, todo, err, expired, results, runs, manifest>>
      /\ pc' \in {"cluster", "aborted"}
  BY DEF startCluster, startClusterFails, Continue
<1>2. /\ CampaignInv' /\ CleanCluster' /\ FixedInv'
      /\ PlannedRuns' = PlannedRuns /\ plan' = plan
      /\ Isolated' = Isolated /\ Persistent' = Persistent
      /\ \A n : Group(n)' = Group(n)
      /\ \A i : Rank(i)' = Rank(i)
  BY <1>1, RunsKept
<1>3. Going /\ ~Isolated /\ ~Isolated' /\ campaign'.mode # "remote" /\ GroupSize' = GroupSize
      /\ InGroup' = InGroup
  BY <1>1, <1>2 DEF Going, Stopped, Isolated, Persistent, GroupSize, InGroup
<1>4. GroupSize \in Nat /\ nextSlot \in Nat /\ MaxRestarts \in Nat
  BY <1>1, <1>3, PresentRun, EvaluationAssumption DEF IInv, TypeInv
<1>5. /\ cluster \in ClusterState
      /\ cluster.generation \in Nat /\ cluster.failures \in Nat
      /\ \A i \in InGroup : runs[i].generation \in Nat
  <2>1. runs \in Seq(Recorded) /\ InGroup \subseteq DOMAIN runs
    BY DEF IInv, TypeInv, InGroup, PlannedRuns
  <2>2. \A i \in InGroup : runs[i] \in Recorded
    BY <2>1
  <2> QED
    BY <2>2 DEF IInv, TypeInv, Recorded, ClusterState
<1>6. Group(GroupSize) # {}
  <2>1. at \in DOMAIN plan
    BY <1>1 DEF IInv, TypeInv, CampaignInv
  <2> QED
    BY <2>1, GroupNonempty DEF IInv, GroupSize
<1>7. RunInv'
  <2>1. manifest.status = "running"
    BY <1>1 DEF IInv, RunInv
  <2> QED
    BY <1>1, <1>2, <1>3, <2>1 DEF IInv, RunInv
<1>8. ResultInv'
  BY <1>1 DEF ResultInv, Stages
<1>9. /\ \A i \in InGroup : runs[i].generation <= cluster.generation
      /\ ~cluster.recovering => InGroup = {}
      /\ cluster.failures < MaxRestarts
  BY <1>1, <1>3 DEF IInv, ClusterInv, BudgetInv
<1>10. PICK base \in {runs[i].generation : i \in InGroup} \union {0} : Since(base)
  BY <1>1, <1>3 DEF IInv, BudgetInv
<1>11. base \in Nat /\ cluster.generation <= base + cluster.failures
  BY <1>1, <1>5, <1>10 DEF Since
<1>12. Recorded' = Recorded /\ ClusterState' = ClusterState
  BY <1>1 DEF Scenarios, Recorded, ClusterState
<1>13. CASE startCluster
  <2>1. /\ cluster' = [cluster EXCEPT !.up = TRUE, !.generation = @ + 1, !.passed = {}]
        /\ node' = Fresh(GroupSize, nextSlot) /\ late' = {} /\ pc' = pc
    BY <1>13 DEF startCluster, GroupSize
  <2>2. /\ cluster' \in ClusterState
        /\ cluster'.up /\ cluster'.passed = {} /\ cluster'.recovering = cluster.recovering
        /\ cluster'.generation = cluster.generation + 1 /\ cluster'.failures = cluster.failures
    <3>1. /\ cluster'.generation = cluster.generation + 1 /\ cluster'.failures = cluster.failures
          /\ cluster'.passed = {}
      BY <1>5, <2>1
    <3>2. cluster'.up /\ cluster'.recovering = cluster.recovering
      BY <1>5, <2>1
    <3>3. cluster' \in ClusterState
      <4> DEFINE g == cluster.generation + 1
      <4>1. g \in Nat /\ cluster' = [cluster EXCEPT !.up = TRUE, !.generation = g, !.passed = {}]
        BY <1>5, <2>1
      <4> HIDE DEF g
      <4> QED
        BY <1>5, <4>1 DEF ClusterState
    <3> QED
      BY <3>1, <3>2, <3>3
  <2>3. node' \in Seq(NodeState) /\ DOMAIN node' = 1 .. GroupSize
    BY <1>4, <2>1, FreshType
  <2>4. TypeInv'
    BY <1>1, <1>2, <1>12, <2>1, <2>2, <2>3 DEF IInv, TypeInv
  <2>5. PlaceInv'
    <3>1. Unproven' = Group(GroupSize)
      BY <1>2, <1>3, <2>2 DEF Unproven, GroupSize
    <3> QED
      BY <1>1, <1>2, <1>3, <1>6, <2>2, <3>1 DEF PlaceInv
  <2>6. NodeInv'
    BY <1>1, <1>3, <2>1, <2>3 DEF NodeInv, Stages
  <2>7. ClusterInv'
    BY <1>1, <1>2, <1>3, <1>5, <1>9, <2>2 DEF ClusterInv
  <2>8. BudgetInv'
    <3>1. Since(base)'
      BY <1>5, <1>11, <2>2 DEF Since
    <3> QED
      BY <1>1, <1>3, <1>9, <1>10, <2>2, <3>1 DEF BudgetInv
  <2> QED
    BY <1>2, <1>7, <1>8, <2>4, <2>5, <2>6, <2>7, <2>8 DEF IInv
<1>14. CASE startClusterFails
  <2>1. /\ cluster' = [cluster EXCEPT !.generation = @ + 1, !.failures = @ + 1]
        /\ node' = node /\ late' = late
        /\ pc' = IF cluster.failures + 1 >= MaxRestarts THEN "aborted" ELSE "cluster"
    BY <1>14 DEF startClusterFails, Continue
  <2>2. /\ cluster' \in ClusterState
        /\ ~cluster'.up /\ cluster'.passed = cluster.passed
        /\ cluster'.recovering = cluster.recovering
        /\ cluster'.generation = cluster.generation + 1
        /\ cluster'.failures = cluster.failures + 1
    <3>1. /\ cluster'.generation = cluster.generation + 1
          /\ cluster'.failures = cluster.failures + 1
          /\ cluster'.passed = cluster.passed
      BY <1>5, <2>1
    <3>2. ~cluster'.up /\ cluster'.recovering = cluster.recovering
      BY <1>1, <1>5, <2>1
    <3>3. cluster' \in ClusterState
      <4> DEFINE g == cluster.generation + 1
      <4> DEFINE f == cluster.failures + 1
      <4>1. /\ g \in Nat /\ f \in Nat
            /\ cluster' = [cluster EXCEPT !.generation = g, !.failures = f]
        BY <1>5, <2>1
      <4> HIDE DEF g, f
      <4> QED
        BY <1>5, <4>1 DEF ClusterState
    <3> QED
      BY <3>1, <3>2, <3>3
  <2>3. TypeInv'
    BY <1>1, <1>2, <1>12, <2>1, <2>2 DEF IInv, TypeInv, Stopped
  <2>4. PlaceInv'
    <3>1. Unproven' = Unproven
      BY <1>1, <1>2, <2>2 DEF Unproven
    <3> QED
      BY <1>1, <1>2, <1>3, <2>2, <3>1 DEF IInv, PlaceInv, Stages
  <2>5. NodeInv'
    BY <1>1, <1>3, <2>1, <2>2 DEF IInv, NodeInv, Stages
  <2>6. ClusterInv'
    BY <1>1, <1>2, <1>3, <1>5, <1>9, <2>2 DEF ClusterInv
  <2>7. BudgetInv'
    <3>1. Since(base)'
      BY <1>5, <1>11, <2>2 DEF Since
    <3>2. Going' => cluster'.failures < MaxRestarts
      BY <1>4, <1>5, <2>1, <2>2 DEF Going, Stopped
    <3> QED
      BY <1>1, <1>3, <1>10, <3>1, <3>2 DEF BudgetInv
  <2> QED
    BY <1>2, <1>7, <1>8, <2>3, <2>4, <2>5, <2>6, <2>7 DEF IInv
<1> QED
  BY <1>13, <1>14

-----------------------------------------------------------------------------
(* Recording a run.                                                        *)

\* What a run is recorded as.
LEMMA RunType ==
    ASSUME IInv, pc = "record"
    PROVE  /\ Going /\ at \in DOMAIN plan
           /\ Run \in Recorded
           /\ Run.slot = nextSlot /\ Run.generation = cluster.generation
           /\ Run.outcome = Outcome
           /\ Run.scenario = Present.scenario /\ Size[Run.scenario] = GroupSize
           /\ Run.phase = (IF cluster.recovering THEN "recovery" ELSE plan[at].phase)
           /\ ~cluster.recovering => Run.phase # "recovery" /\ Run.scenario = plan[at].scenario
           /\ cluster.recovering => /\ First(Unproven) \in Unproven
                                    /\ Run.scenario = campaign.scenarios[First(Unproven)]
<1>1. Going /\ at <= Len(plan)
  BY DEF IInv, PlaceInv, Going, Stopped
<1>2. at \in DOMAIN plan
  BY <1>1 DEF IInv, TypeInv, CampaignInv
<1>3. /\ plan[at] \in Planned
      /\ Present.scenario \in Scenarios(campaign)
      /\ Present.phase = (IF cluster.recovering THEN "recovery" ELSE plan[at].phase)
      /\ ~cluster.recovering => Present = plan[at]
      /\ cluster.recovering => /\ First(Unproven) \in Unproven
                               /\ Present.scenario = campaign.scenarios[First(Unproven)]
      /\ Size[Present.scenario] = GroupSize
  BY <1>1, PresentRun DEF IInv
<1>4. plan[at].phase \in {"warmup", "measured"}
  BY <1>3 DEF Planned
<1>5. Outcome \in {"completed", "timed_out", "failed"}
  BY DEF Outcome
<1>6. nextSlot \in Nat /\ cluster.generation \in Nat
  BY DEF IInv, TypeInv, ClusterState
<1>7. Present.phase \in {"warmup", "measured", "recovery"}
  BY <1>3, <1>4
<1>8. /\ Run.slot = nextSlot /\ Run.generation = cluster.generation /\ Run.outcome = Outcome
      /\ Run.scenario = Present.scenario /\ Run.phase = Present.phase
  BY DEF Run
<1>9. Run \in Recorded
  BY <1>3, <1>5, <1>6, <1>7 DEF Run, Recorded
<1> QED
  BY <1>1, <1>2, <1>3, <1>4, <1>8, <1>9

\* The records with the run, and what they keep.
LEMMA Appended ==
    ASSUME IInv, pc = "record", runs' = Append(runs, Run), UNCHANGED campaign,
           NEW L, L = Len(runs) + 1
    PROVE  /\ runs' \in Seq(Recorded) /\ L \in Nat
           /\ DOMAIN runs' = DOMAIN runs \union {L} /\ L \notin DOMAIN runs
           /\ \A i \in DOMAIN runs : runs'[i] = runs[i] /\ i \in Nat /\ i < L
           /\ runs'[L] = Run
           /\ PlannedRuns' = IF cluster.recovering THEN PlannedRuns ELSE PlannedRuns \union {L}
           /\ IsFiniteSet(PlannedRuns)
<1>1. runs \in Seq(Recorded)
  BY DEF IInv, TypeInv
<1>2. Run \in Recorded
  BY RunType
<1>3. /\ runs' \in Seq(Recorded) /\ L \in Nat
      /\ DOMAIN runs' = DOMAIN runs \union {L} /\ L \notin DOMAIN runs
      /\ \A i \in DOMAIN runs : runs'[i] = runs[i] /\ i \in Nat /\ i < L
      /\ runs'[L] = Run
  BY <1>1, <1>2
<1>4. PlannedRuns' = IF cluster.recovering THEN PlannedRuns ELSE PlannedRuns \union {L}
  <2>1. cluster.recovering <=> Run.phase = "recovery"
    BY RunType
  <2>2. PlannedRuns' = {i \in DOMAIN runs' : runs'[i].phase # "recovery"}
    BY DEF PlannedRuns
  <2>3. ASSUME NEW i \in DOMAIN runs
        PROVE  i \in PlannedRuns' <=> i \in PlannedRuns
    BY <1>3, <2>2, <2>3 DEF PlannedRuns
  <2>4. L \in PlannedRuns' <=> ~cluster.recovering
    BY <1>3, <2>1, <2>2
  <2>5. PlannedRuns \subseteq DOMAIN runs /\ PlannedRuns' \subseteq DOMAIN runs \union {L}
    BY <1>3, <2>2 DEF PlannedRuns
  <2> QED
    BY <2>3, <2>4, <2>5
<1>5. IsFiniteSet(PlannedRuns)
  <2>1. Len(runs) \in Int /\ 1 \in Int
    BY <1>1
  <2>2. IsFiniteSet(1 .. Len(runs))
    BY <2>1, FS_Interval
  <2>3. PlannedRuns \in SUBSET (1 .. Len(runs))
    BY <1>1 DEF PlannedRuns
  <2> QED
    BY <2>2, <2>3, FS_Subset
<1> QED
  BY <1>3, <1>4, <1>5

\* A planned run is the one of the plan whose turn it was.
LEMMA RankOfRuns ==
    ASSUME IInv, pc = "record", runs' = Append(runs, Run), UNCHANGED campaign
    PROVE  /\ \A i \in PlannedRuns' :
                /\ Rank(i)' \in DOMAIN plan'
                /\ runs'[i].scenario = plan'[Rank(i)'].scenario
                /\ runs'[i].phase = plan'[Rank(i)'].phase
           /\ Cardinality(PlannedRuns') = IF cluster.recovering THEN at - 1 ELSE at
<1>1. PICK L : L = Len(runs) + 1
  OBVIOUS
<1>2. /\ L \in Nat /\ L \notin DOMAIN runs
      /\ \A i \in DOMAIN runs : runs'[i] = runs[i] /\ i \in Nat /\ i < L
      /\ runs'[L] = Run
      /\ PlannedRuns' = IF cluster.recovering THEN PlannedRuns ELSE PlannedRuns \union {L}
      /\ IsFiniteSet(PlannedRuns) /\ PlannedRuns \subseteq DOMAIN runs
  BY <1>1, Appended DEF PlannedRuns
<1>3. plan' = plan /\ at \in Nat
  BY DEF plan, IInv, TypeInv
<1>4. Cardinality(PlannedRuns) = at - 1
  BY RunType DEF IInv, RunInv
<1>5. ASSUME NEW i \in PlannedRuns
      PROVE  Rank(i)' = Rank(i)
  <2>1. {j \in PlannedRuns' : j <= i} = {j \in PlannedRuns : j <= i}
    BY <1>2
  <2> QED
    BY <2>1 DEF Rank
<1>6. ASSUME NEW i \in PlannedRuns
      PROVE  /\ Rank(i)' \in DOMAIN plan'
             /\ runs'[i].scenario = plan'[Rank(i)'].scenario
             /\ runs'[i].phase = plan'[Rank(i)'].phase
  BY <1>2, <1>3, <1>5 DEF IInv, RunInv
<1>7. CASE cluster.recovering
  BY <1>2, <1>4, <1>6, <1>7
<1>8. CASE ~cluster.recovering
  <2>1. Cardinality(PlannedRuns') = at
    <3>1. L \notin PlannedRuns /\ PlannedRuns' = PlannedRuns \union {L}
      BY <1>2, <1>8
    <3>2. Cardinality(PlannedRuns \union {L}) = Cardinality(PlannedRuns) + 1
      BY <1>2, <3>1, FS_AddElement
    <3> QED
      BY <1>3, <1>4, <3>1, <3>2
  <2>2. {j \in PlannedRuns' : j <= L} = PlannedRuns'
    BY <1>2, <1>8
  <2>3. Rank(L)' = at
    BY <2>1, <2>2 DEF Rank
  <2>4. Run.scenario = plan[at].scenario /\ Run.phase = plan[at].phase /\ at \in DOMAIN plan
    BY <1>8, RunType
  <2>5. /\ Rank(L)' \in DOMAIN plan'
        /\ runs'[L].scenario = plan'[Rank(L)'].scenario
        /\ runs'[L].phase = plan'[Rank(L)'].phase
    BY <1>2, <1>3, <2>3, <2>4
  <2>6. \A i \in PlannedRuns' : i \in PlannedRuns \/ i = L
    BY <1>2, <1>8
  <2> QED
    BY <1>6, <1>8, <2>1, <2>5, <2>6
<1> QED
  BY <1>7, <1>8

\* The runs of the present group with the new one.
LEMMA GroupRuns ==
    ASSUME IInv, pc = "record", runs' = Append(runs, Run), UNCHANGED campaign,
           NEW L, L = Len(runs) + 1, GroupSize' = GroupSize
    PROVE  InGroup' = IF cluster.recovering THEN InGroup ELSE InGroup \union {L}
<1>1. /\ L \notin DOMAIN runs
      /\ \A i \in DOMAIN runs : runs'[i] = runs[i]
      /\ runs'[L] = Run
      /\ PlannedRuns' = IF cluster.recovering THEN PlannedRuns ELSE PlannedRuns \union {L}
      /\ PlannedRuns \subseteq DOMAIN runs
  BY Appended DEF PlannedRuns
<1>2. Size[Run.scenario] = GroupSize
  BY RunType
<1>3. InGroup' = {i \in PlannedRuns' : Size[runs'[i].scenario] = GroupSize}
  BY DEF InGroup
<1>4. ASSUME NEW i \in PlannedRuns
      PROVE  i \in InGroup' <=> i \in InGroup
  BY <1>1, <1>3, <1>4 DEF InGroup
<1>5. L \in InGroup' <=> ~cluster.recovering
  BY <1>1, <1>2, <1>3
<1>6. InGroup \subseteq PlannedRuns /\ InGroup' \subseteq PlannedRuns \union {L}
  BY <1>1, <1>3 DEF InGroup
<1> QED
  BY <1>4, <1>5, <1>6

\* A planned run on a later generation is recorded after its recovery.
LEMMA CleanRecorded ==
    ASSUME IInv, pc = "record", runs' = Append(runs, Run), UNCHANGED campaign
    PROVE  CleanCluster' /\ FixedInv'
<1>1. PICK L : L = Len(runs) + 1
  OBVIOUS
<1>2. /\ L \in Nat /\ DOMAIN runs' = DOMAIN runs \union {L} /\ L \notin DOMAIN runs
      /\ \A i \in DOMAIN runs : runs'[i] = runs[i] /\ i \in Nat /\ i < L
      /\ runs'[L] = Run
  BY <1>1, Appended
<1>3. FixedInv'
  <2>1. ~Persistent => Run.generation = 0
    BY RunType DEF IInv, PlaceInv, NoCluster
  <2> QED
    BY <1>2, <2>1 DEF IInv, FixedInv, Persistent
<1>4. SUFFICES ASSUME NEW i \in DOMAIN runs', NEW j \in DOMAIN runs', i < j,
                      runs'[i].phase # "recovery", runs'[j].phase # "recovery",
                      Size[runs'[i].scenario] = Size[runs'[j].scenario],
                      runs'[i].generation < runs'[j].generation,
                      NEW s \in {t \in DOMAIN campaign'.scenarios :
                                   Size[campaign'.scenarios[t]] = Size[runs'[i].scenario]}
               PROVE  \E k \in i .. j : /\ runs'[k].phase = "recovery"
                                        /\ runs'[k].scenario = campaign'.scenarios[s]
                                        /\ runs'[k].generation = runs'[j].generation
                                        /\ runs'[k].outcome = "completed"
  BY <1>3 DEF CleanCluster, Group
<1>5. i \in DOMAIN runs /\ s \in Group(Size[runs'[i].scenario])
      /\ campaign'.scenarios = campaign.scenarios
  BY <1>2, <1>4 DEF Group
<1>6. CASE j \in DOMAIN runs
  <2>1. runs'[i] = runs[i] /\ runs'[j] = runs[j]
    BY <1>2, <1>5, <1>6
  <2>2. PICK k \in i .. j : /\ runs[k].phase = "recovery"
                            /\ runs[k].scenario = campaign.scenarios[s]
                            /\ runs[k].generation = runs[j].generation
                            /\ runs[k].outcome = "completed"
    <3>1. CleanCluster
      BY DEF IInv
    <3> QED
      BY <1>4, <1>5, <1>6, <2>1, <3>1 DEF CleanCluster
  <2>3. k \in DOMAIN runs
    BY <1>5, <1>6 DEF IInv, TypeInv
  <2> QED
    BY <1>2, <1>5, <2>1, <2>2, <2>3
<1>7. CASE j = L
  <2>1. /\ ~cluster.recovering /\ Run.generation = cluster.generation
        /\ Size[Run.scenario] = GroupSize /\ Going /\ at \in DOMAIN plan
    BY <1>2, <1>4, <1>7, RunType
  <2>2. i \in InGroup /\ runs[i].generation < cluster.generation
    BY <1>2, <1>4, <1>5, <1>7, <2>1 DEF InGroup, PlannedRuns
  <2>3. Persistent
    BY <1>2, <1>3, <1>4, <1>5, <1>7 DEF FixedInv, Persistent
  <2>4. at <= Len(plan)
    BY <2>1 DEF IInv, CampaignInv
  <2>5. s \in Group(GroupSize)
    BY <1>2, <1>4, <1>5, <1>7, <2>1
  <2>6. ProvedSince(i, s)
    BY <2>1, <2>2, <2>3, <2>4, <2>5 DEF IInv, ClusterInv
  <2>7. PICK k \in DOMAIN runs : i < k /\ Proves(k, s, cluster.generation)
    BY <2>6 DEF ProvedSince
  <2>8. k \in i .. j /\ runs'[k] = runs[k]
    BY <1>2, <1>5, <1>7, <2>7
  <2> QED
    BY <1>2, <1>5, <1>7, <2>1, <2>7, <2>8 DEF Proves
<1> QED
  BY <1>2, <1>6, <1>7

\* The records of the next state are the plan so far.
LEMMA RunRecorded ==
    ASSUME IInv, pc = "record", runs' = Append(runs, Run), UNCHANGED <<campaign, manifest>>,
           Going' => /\ at' = IF cluster.recovering THEN at ELSE at + 1
                     /\ Isolated \/ nextSlot' = nextSlot + 1
    PROVE  RunInv'
<1>1. PICK L : L = Len(runs) + 1
  OBVIOUS
<1>2. /\ L \in Nat /\ DOMAIN runs' = DOMAIN runs \union {L} /\ L \notin DOMAIN runs
      /\ \A i \in DOMAIN runs : runs'[i] = runs[i] /\ i \in Nat /\ i < L
      /\ runs'[L] = Run /\ runs' \in Seq(Recorded)
  BY <1>1, Appended
<1>3. /\ \A i \in PlannedRuns' :
           /\ Rank(i)' \in DOMAIN plan'
           /\ runs'[i].scenario = plan'[Rank(i)'].scenario
           /\ runs'[i].phase = plan'[Rank(i)'].phase
      /\ Cardinality(PlannedRuns') = IF cluster.recovering THEN at - 1 ELSE at
  BY RankOfRuns
<1>4. Going' => Cardinality(PlannedRuns') = at' - 1
  BY <1>3 DEF IInv, TypeInv
<1>5. Isolated' = Isolated /\ Going /\ Run.slot = nextSlot /\ nextSlot \in Nat
  BY RunType DEF Isolated, IInv, TypeInv
<1>6. \A i \in DOMAIN runs : runs[i].slot \in Nat
  <2>1. \A i \in DOMAIN runs : runs[i] \in Recorded
    BY DEF IInv, TypeInv
  <2> QED
    BY <2>1 DEF Recorded
<1>7. ~Isolated => \A i \in DOMAIN runs : runs[i].slot < nextSlot
  BY <1>5 DEF IInv, RunInv
<1>8. ~Isolated => \A i, j \in DOMAIN runs' : i < j => runs'[i].slot < runs'[j].slot
  BY <1>2, <1>5, <1>7 DEF IInv, RunInv
<1>9. ~Isolated /\ Going' => \A i \in DOMAIN runs' : runs'[i].slot < nextSlot'
  BY <1>2, <1>5, <1>6, <1>7
<1>10. manifest'.status = "running"
  BY DEF IInv, RunInv, TypeInv
<1> QED
  BY <1>3, <1>4, <1>5, <1>8, <1>9, <1>10 DEF RunInv

LEMMA recordRunFailsStep ==
    ASSUME IInv, recordRunFails
    PROVE  IInv'
<1>1. /\ pc = "record" /\ runs' = Append(runs, Run) /\ pc' \in {"aborted", "done"}
      /\ node' = <<>> /\ late' = {}
      /\ UNCHANGED <<campaign, at, nextSlot, cluster, todo, err, expired, results, manifest>>
  BY DEF recordRunFails, Close
<1>2. ~Going'
  BY <1>1 DEF Going, Stopped
<1>3. CleanCluster' /\ FixedInv' /\ RunInv'
  BY <1>1, <1>2, CleanRecorded, RunRecorded
<1>4. CampaignInv' /\ plan' = plan /\ Persistent' = Persistent
  BY <1>1 DEF IInv, CampaignInv, Planned, plan, Scenarios, Persistent
<1>5. TypeInv'
  <2>1. runs' \in Seq(Recorded)
    BY <1>1, Appended
  <2>2. Recorded' = Recorded /\ ClusterState' = ClusterState
    BY <1>1 DEF Scenarios, Recorded, ClusterState
  <2>3. node' \in Seq(NodeState) /\ late' \subseteq [node : Nat, stage : {"prepare", "start"}, slot : Nat]
    BY <1>1
  <2>4. pc' \in Stages \union Stopped \union {"cluster", "record"}
    BY <1>1 DEF Stopped
  <2> QED
    BY <1>1, <1>4, <2>1, <2>2, <2>3, <2>4 DEF IInv, TypeInv
<1>6. PlaceInv' /\ NodeInv' /\ ResultInv'
  BY <1>1, <1>2, <1>4 DEF IInv, PlaceInv, NodeInv, ResultInv, Stages, NoCluster
<1>7. ClusterInv' /\ BudgetInv'
  BY <1>2 DEF ClusterInv, BudgetInv
<1> QED
  BY <1>3, <1>4, <1>5, <1>6, <1>7 DEF IInv

\* Every way to go on from a recorded run: what is left to show is about the
\* cluster and its nodes.
LEMMA RecordStep ==
    ASSUME IInv, pc = "record", runs' = Append(runs, Run), UNCHANGED <<campaign, manifest>>,
           nextSlot' = (IF Isolated THEN nextSlot ELSE nextSlot + 1),
           at' = (IF cluster.recovering THEN at ELSE at + 1),
           results' = <<>>, err' = "none", expired' = FALSE, todo' = {},
           pc' \in {"cluster", "aborted"},
           cluster' \in ClusterState, node' \in Seq(NodeState), late' \subseteq late,
           PlaceInv', NodeInv', ClusterInv', BudgetInv'
    PROVE  IInv'
<1>1. CleanCluster' /\ FixedInv'
  BY CleanRecorded
<1>2. RunInv'
  BY RunRecorded
<1>3. CampaignInv' /\ plan' = plan
  BY DEF IInv, CampaignInv, Planned, plan, Scenarios, Persistent
<1>4. TypeInv'
  <2>1. runs' \in Seq(Recorded)
    BY Appended
  <2>2. Recorded' = Recorded /\ ClusterState' = ClusterState
    BY DEF Scenarios, Recorded, ClusterState
  <2>3. results' \in Seq(Result)
    OBVIOUS
  <2>4. at' \in Nat \ {0} /\ at' <= Len(plan) + 1 /\ nextSlot' \in Nat
    BY RunType DEF IInv, TypeInv, CampaignInv
  <2>5. pc' \in Stages \union Stopped \union {"cluster", "record"}
    BY DEF Stopped
  <2> QED
    BY <1>3, <2>1, <2>2, <2>3, <2>4, <2>5 DEF IInv, TypeInv
<1>5. ResultInv'
  BY DEF ResultInv, Stages
<1> QED
  BY <1>1, <1>2, <1>3, <1>4, <1>5 DEF IInv

\* Neither isolated nor remote campaigns have a cluster of their own to keep.
LEMMA RecordFixed ==
    ASSUME IInv, recordRun, ~Persistent
    PROVE  IInv'
<1>1. cluster = NoCluster /\ ~cluster.recovering /\ cluster.passed = {} /\ ~cluster.up
  BY DEF IInv, PlaceInv, NoCluster
<1>2. /\ pc = "record" /\ runs' = Append(runs, Run) /\ UNCHANGED <<campaign, manifest, cluster>>
      /\ nextSlot' = (IF Isolated THEN nextSlot ELSE nextSlot + 1)
      /\ at' = (IF cluster.recovering THEN at ELSE at + 1)
      /\ results' = <<>> /\ err' = "none" /\ expired' = FALSE /\ todo' = {}
      /\ pc' = "cluster"
      /\ Isolated => node' = <<>> /\ late' = {}
      /\ ~Isolated => UNCHANGED <<node, late>>
  BY DEF recordRun, Close, Isolated
<1>3. ~Persistent' /\ Isolated' = Isolated /\ Going
  BY <1>2 DEF Persistent, Isolated, Going, Stopped
<1>4. PlaceInv'
  BY <1>1, <1>2, <1>3 DEF PlaceInv, Stages, NoCluster
<1>5. NodeInv'
  BY <1>2, <1>3 DEF IInv, NodeInv, Stages, Isolated
<1>6. ClusterInv' /\ BudgetInv'
  BY <1>3 DEF ClusterInv, BudgetInv
<1>7. cluster' \in ClusterState /\ node' \in Seq(NodeState) /\ late' \subseteq late
  <2>1. cluster \in ClusterState /\ node \in Seq(NodeState) /\ <<>> \in Seq(NodeState)
    BY DEF IInv, TypeInv
  <2> QED
    BY <1>2, <2>1
<1> QED
  BY <1>2, <1>4, <1>5, <1>6, <1>7, RecordStep

\* What a generation had got through it still has.
LEMMA ProvedKept ==
    ASSUME IInv, pc = "record", runs' = Append(runs, Run), UNCHANGED campaign,
           cluster'.generation = cluster.generation,
           NEW i \in DOMAIN runs, NEW s, ProvedSince(i, s)
    PROVE  ProvedSince(i, s)'
<1>1. PICK k \in DOMAIN runs : i < k /\ Proves(k, s, cluster.generation)
  BY DEF ProvedSince
<1>2. runs'[k] = runs[k] /\ k \in DOMAIN runs'
  BY Appended
<1> QED
  BY <1>1, <1>2 DEF ProvedSince, Proves

\* A completed recovery run proves its scenario.
LEMMA ProvedNow ==
    ASSUME IInv, pc = "record", runs' = Append(runs, Run), UNCHANGED campaign,
           cluster.recovering, Outcome = "completed",
           cluster'.generation = cluster.generation,
           NEW i \in DOMAIN runs, NEW s, s = First(Unproven)
    PROVE  ProvedSince(i, s)'
<1>1. PICK L : L = Len(runs) + 1
  OBVIOUS
<1>2. L \in DOMAIN runs' /\ runs'[L] = Run /\ i < L
  BY <1>1, Appended
<1>3. /\ Run.phase = "recovery" /\ Run.outcome = "completed"
      /\ Run.generation = cluster.generation /\ Run.scenario = campaign.scenarios[s]
  BY RunType
<1> QED
  BY <1>2, <1>3 DEF ProvedSince, Proves

LEMMA RecordRecovery ==
    ASSUME IInv, recordRun, Persistent, cluster.recovering
    PROVE  IInv'
<1> DEFINE s == First(Unproven)
<1>1. /\ pc = "record" /\ runs' = Append(runs, Run) /\ UNCHANGED <<campaign, manifest>>
      /\ nextSlot' = (IF Isolated THEN nextSlot ELSE nextSlot + 1) /\ at' = at
      /\ results' = <<>> /\ err' = "none" /\ expired' = FALSE /\ todo' = {}
      /\ RecoveryRun
  BY DEF recordRun, Persistent, Isolated
<1>2. /\ Persistent' /\ ~Isolated /\ ~Isolated' /\ campaign.mode # "remote"
      /\ campaign'.mode # "remote" /\ plan' = plan /\ GroupSize' = GroupSize
      /\ \A n : Group(n)' = Group(n)
  BY <1>1 DEF Persistent, Isolated, plan, GroupSize, Group
<1>3. Going /\ s \in Unproven /\ at \in DOMAIN plan /\ at <= Len(plan)
  BY <1>1, RunType DEF IInv, PlaceInv
<1>4. cluster.up /\ cluster.passed \subseteq Group(GroupSize)
      /\ Unproven = Group(GroupSize) \ cluster.passed
  BY <1>1, <1>3 DEF IInv, PlaceInv, Unproven, GroupSize
<1>5. /\ cluster \in ClusterState
      /\ cluster.generation \in Nat /\ cluster.failures \in Nat /\ MaxRestarts \in Nat
      /\ node \in Seq(NodeState) /\ <<>> \in Seq(NodeState)
  BY EvaluationAssumption DEF IInv, TypeInv, ClusterState
<1>6. InGroup' = InGroup /\ InGroup \subseteq DOMAIN runs
      /\ \A i \in InGroup : runs'[i] = runs[i] /\ runs[i].generation \in Nat
  <2>1. InGroup' = InGroup
    BY <1>1, <1>2, GroupRuns
  <2>2. InGroup \subseteq DOMAIN runs
    BY DEF InGroup, PlannedRuns
  <2>3. \A i \in InGroup : runs'[i] = runs[i]
    BY <1>1, <2>2, Appended
  <2>4. \A i \in InGroup : runs[i] \in Recorded
    BY <2>2 DEF IInv, TypeInv
  <2> QED
    BY <2>1, <2>2, <2>3, <2>4 DEF Recorded
<1>7. /\ \A i \in InGroup : runs[i].generation <= cluster.generation
      /\ \A i \in InGroup : \A t \in cluster.passed : ProvedSince(i, t)
      /\ cluster.failures < MaxRestarts
  BY <1>3, <1>4 DEF IInv, ClusterInv, BudgetInv
<1>8. PICK base \in {runs[i].generation : i \in InGroup} \union {0} : Since(base)
  BY <1>3 DEF IInv, BudgetInv
<1>9. base \in Nat /\ cluster.generation <= base + cluster.failures + 1
      /\ base \in {runs'[i].generation : i \in InGroup'} \union {0}
  BY <1>4, <1>5, <1>6, <1>8 DEF Since
<1>10. DOMAIN node = 1 .. GroupSize
  BY <1>3, <1>4 DEF IInv, NodeInv
<1>11. CASE Outcome = "completed" /\ Unproven # {s}
  <2>1. /\ cluster' = [cluster EXCEPT !.passed = @ \union {s}]
        /\ pc' = "cluster" /\ UNCHANGED <<node, late>>
    BY <1>1, <1>11 DEF RecoveryRun
  <2>2. /\ cluster'.generation = cluster.generation /\ cluster'.failures = cluster.failures
        /\ cluster'.passed = cluster.passed \union {s}
        /\ cluster'.up /\ cluster'.recovering
    BY <1>4, <1>5, <2>1 DEF ClusterState
  <2>3. cluster' \in ClusterState
    <3>1. cluster.passed \union {s} \in SUBSET DOMAIN campaign.scenarios
      BY <1>3, <1>4 DEF Group
    <3> HIDE DEF s
    <3> QED
      BY <1>5, <2>1, <3>1 DEF ClusterState
  <2>4. PlaceInv'
    <3>1. Unproven' = Unproven \ {s}
      BY <1>1, <1>2, <1>4, <2>2 DEF Unproven, GroupSize
    <3>2. Unproven' # {}
      BY <1>3, <1>11, <3>1
    <3> QED
      BY <1>1, <1>2, <1>3, <1>4, <2>1, <2>2, <3>2 DEF PlaceInv, Stages
  <2>5. NodeInv'
    BY <1>1, <1>2, <1>10, <2>1 DEF IInv, NodeInv, Stages
  <2>6. \A i \in InGroup : \A t \in cluster'.passed : ProvedSince(i, t)'
    BY <1>1, <1>6, <1>7, <1>11, <2>2, ProvedKept, ProvedNow
  <2>7. ClusterInv'
    BY <1>6, <1>7, <2>2, <2>6 DEF ClusterInv
  <2>8. BudgetInv'
    <3>1. Since(base)'
      BY <1>5, <1>9, <2>2 DEF Since
    <3> QED
      BY <1>7, <1>9, <2>2, <3>1 DEF BudgetInv
  <2> QED
    BY <1>1, <1>5, <2>1, <2>3, <2>4, <2>5, <2>7, <2>8, RecordStep
<1>12. CASE Outcome = "completed" /\ Unproven = {s}
  <2>1. /\ cluster' = [cluster EXCEPT !.recovering = FALSE, !.passed = {}, !.failures = 0]
        /\ pc' = "cluster" /\ UNCHANGED <<node, late>>
    BY <1>1, <1>12 DEF RecoveryRun
  <2>2. /\ cluster'.generation = cluster.generation /\ cluster'.failures = 0
        /\ cluster'.passed = {} /\ cluster'.up /\ ~cluster'.recovering
    BY <1>4, <1>5, <2>1 DEF ClusterState
  <2>3. cluster' \in ClusterState
    BY <1>5, <2>1 DEF ClusterState
  <2>4. PlaceInv'
    BY <1>1, <1>2, <1>3, <2>1, <2>2 DEF PlaceInv, Stages
  <2>5. NodeInv'
    BY <1>1, <1>2, <1>10, <2>1 DEF IInv, NodeInv, Stages
  <2>6. \A i \in InGroup : \A t \in Group(GroupSize) : ProvedSince(i, t)'
    <3>1. \A t \in Group(GroupSize) : t \in cluster.passed \/ t = s
      BY <1>4, <1>12
    <3> QED
      BY <1>1, <1>6, <1>7, <1>12, <2>2, <3>1, ProvedKept, ProvedNow
  <2>7. ClusterInv'
    BY <1>2, <1>6, <1>7, <2>2, <2>6 DEF ClusterInv
  <2>8. BudgetInv'
    <3>1. Since(base)'
      BY <1>5, <1>7, <1>9, <2>2 DEF Since
    <3>2. cluster'.failures < MaxRestarts
      BY <2>2, EvaluationAssumption
    <3> QED
      BY <1>9, <3>1, <3>2 DEF BudgetInv
  <2> QED
    BY <1>1, <1>5, <2>1, <2>3, <2>4, <2>5, <2>7, <2>8, RecordStep
<1>13. CASE Outcome # "completed"
  <2>1. /\ cluster' = [cluster EXCEPT !.up = FALSE, !.failures = @ + 1]
        /\ pc' = (IF cluster.failures + 1 >= MaxRestarts THEN "aborted" ELSE "cluster")
        /\ node' = <<>> /\ late' = {}
    BY <1>1, <1>13 DEF RecoveryRun, Continue, Close
  <2>2. /\ cluster'.generation = cluster.generation
        /\ cluster'.failures = cluster.failures + 1
        /\ cluster'.passed = cluster.passed /\ ~cluster'.up /\ cluster'.recovering
    BY <1>4, <1>5, <2>1 DEF ClusterState
  <2>3. cluster' \in ClusterState
    <3> DEFINE f == cluster.failures + 1
    <3>1. f \in Nat /\ cluster' = [cluster EXCEPT !.up = FALSE, !.failures = f]
      BY <1>5, <2>1
    <3> HIDE DEF f
    <3> QED
      BY <1>5, <3>1 DEF ClusterState
  <2>4. PlaceInv'
    <3>1. Unproven' = Unproven
      BY <1>1, <1>2, <2>2 DEF Unproven
    <3> QED
      BY <1>1, <1>2, <1>3, <1>4, <2>1, <2>2, <3>1 DEF PlaceInv, Stages
  <2>5. NodeInv'
    BY <1>2, <2>1, <2>2 DEF NodeInv
  <2>6. ClusterInv'
    BY <1>6, <1>7, <2>2 DEF ClusterInv
  <2>7. BudgetInv'
    <3>1. Since(base)'
      BY <1>5, <1>9, <2>2 DEF Since
    <3>2. Going' => cluster'.failures < MaxRestarts
      BY <1>5, <2>1, <2>2 DEF Going, Stopped
    <3> QED
      BY <1>9, <3>1, <3>2 DEF BudgetInv
  <2> QED
    BY <1>1, <1>5, <2>1, <2>3, <2>4, <2>5, <2>6, <2>7, RecordStep
<1> QED
  BY <1>11, <1>12, <1>13

\* When a group ends none of the runs so far is of the next one.
LEMMA NextGroupFresh ==
    ASSUME IInv, recordRun, Persistent, ~cluster.recovering, GroupEnds, at + 1 <= Len(plan)
    PROVE  InGroup' = {}
<1>1. /\ pc = "record" /\ runs' = Append(runs, Run) /\ UNCHANGED campaign /\ at' = at + 1
  BY DEF recordRun
<1>2. /\ \A i \in PlannedRuns' :
           /\ Rank(i)' \in DOMAIN plan'
           /\ runs'[i].scenario = plan'[Rank(i)'].scenario
      /\ Cardinality(PlannedRuns') = at
  BY <1>1, RankOfRuns
<1>3. /\ plan' = plan /\ at \in DOMAIN plan /\ at + 1 \in DOMAIN plan /\ at \in Nat
      /\ \A i \in DOMAIN plan : i \in Nat
  <2>1. plan' = plan
    BY <1>1 DEF plan
  <2>2. plan \in Seq(Planned) /\ at \in Nat \ {0}
    BY DEF IInv, TypeInv, CampaignInv
  <2>3. at \in DOMAIN plan
    BY <1>1, RunType
  <2> QED
    BY <2>1, <2>2, <2>3
<1>4. \A i \in DOMAIN plan : Size[plan[i].scenario] \in Nat
  <2>1. \A i \in DOMAIN plan : plan[i].scenario \in DOMAIN Size
    <3>1. \A i \in DOMAIN plan : plan[i] \in Planned
      BY DEF IInv, CampaignInv
    <3>2. Scenarios(campaign) \subseteq DOMAIN Size
      BY DEF IInv, CampaignInv, Scenarios
    <3> QED
      BY <3>1, <3>2 DEF Planned
  <2> QED
    BY <2>1, EvaluationAssumption
<1>5. /\ Size[plan[at].scenario] < Size[plan[at + 1].scenario]
      /\ \A i \in DOMAIN plan : i <= at => Size[plan[i].scenario] < Size[plan[at + 1].scenario]
  <2>1. Size[plan[at].scenario] <= Size[plan[at + 1].scenario]
    BY <1>3 DEF IInv, CampaignInv
  <2>2. Size[plan[at].scenario] # Size[plan[at + 1].scenario]
    BY <1>3 DEF GroupEnds, IInv, TypeInv, CampaignInv
  <2>3. \A i \in DOMAIN plan : i < at => Size[plan[i].scenario] <= Size[plan[at].scenario]
    BY <1>3 DEF IInv, CampaignInv
  <2> QED
    BY <1>3, <1>4, <2>1, <2>2, <2>3
<1>6. IsFiniteSet(PlannedRuns')
  <2>1. PICK L : L = Len(runs) + 1
    OBVIOUS
  <2>2. PlannedRuns' = PlannedRuns \union {L} /\ IsFiniteSet(PlannedRuns)
    BY <1>1, <2>1, Appended
  <2> QED
    BY <2>2, FS_AddElement
<1>7. \A i \in PlannedRuns' : Rank(i)' <= at
  <2> TAKE i \in PlannedRuns'
  <2> DEFINE S == {j \in PlannedRuns' : j <= i}
  <2>1. S \in SUBSET PlannedRuns'
    OBVIOUS
  <2>2. Cardinality(S) <= Cardinality(PlannedRuns')
    BY <1>6, <2>1, FS_Subset
  <2>3. Rank(i)' = Cardinality(S)
    BY DEF Rank
  <2> QED
    BY <1>2, <2>2, <2>3
<1>8. GroupSize' = Size[plan[at + 1].scenario]
  BY <1>1, <1>3 DEF GroupSize
<1>9. ASSUME NEW i \in PlannedRuns'
      PROVE  Size[runs'[i].scenario] # GroupSize'
  <2>1. Rank(i)' \in DOMAIN plan /\ Rank(i)' <= at
        /\ runs'[i].scenario = plan[Rank(i)'].scenario
    BY <1>2, <1>3, <1>7, <1>9
  <2>2. Size[plan[Rank(i)'].scenario] < Size[plan[at + 1].scenario]
    BY <1>5, <2>1
  <2> QED
    BY <1>3, <1>4, <1>8, <2>1, <2>2
<1> QED
  BY <1>9 DEF InGroup

LEMMA RecordPlanned ==
    ASSUME IInv, recordRun, Persistent, ~cluster.recovering
    PROVE  IInv'
<1> DEFINE failures == IF ShouldRecover THEN cluster.failures + 1 ELSE 0
<1>1. /\ pc = "record" /\ runs' = Append(runs, Run) /\ UNCHANGED <<campaign, manifest>>
      /\ nextSlot' = (IF Isolated THEN nextSlot ELSE nextSlot + 1) /\ at' = at + 1
      /\ results' = <<>> /\ err' = "none" /\ expired' = FALSE /\ todo' = {}
      /\ PlannedRun
  BY DEF recordRun, Persistent, Isolated
<1>2. /\ Persistent' /\ ~Isolated /\ ~Isolated' /\ campaign.mode # "remote"
      /\ campaign'.mode # "remote" /\ plan' = plan
      /\ \A n : Group(n)' = Group(n)
  BY <1>1 DEF Persistent, Isolated, plan, Group
<1>3. Going /\ at \in DOMAIN plan /\ at <= Len(plan) /\ Len(plan) \in Nat /\ at \in Nat
  BY <1>1, RunType DEF IInv, PlaceInv, TypeInv, CampaignInv
<1>4. cluster.up /\ cluster.passed = {}
  BY <1>1 DEF IInv, PlaceInv
<1>5. /\ cluster \in ClusterState
      /\ cluster.generation \in Nat /\ cluster.failures \in Nat /\ MaxRestarts \in Nat \ {0}
      /\ node \in Seq(NodeState) /\ <<>> \in Seq(NodeState)
      /\ failures \in Nat
  BY EvaluationAssumption DEF IInv, TypeInv, ClusterState
<1>6. /\ pc' = (IF failures >= MaxRestarts THEN "aborted" ELSE "cluster")
      /\ \/ node' = <<>> /\ late' = {}
         \/ ~ShouldRecover /\ ~GroupEnds /\ UNCHANGED <<node, late>>
  BY <1>1 DEF PlannedRun, Continue, Close
<1>7. node' \in Seq(NodeState) /\ late' \subseteq late
  BY <1>5, <1>6
<1>8. CASE failures < MaxRestarts /\ GroupEnds
  <2>1. cluster' = NoCluster /\ node' = <<>> /\ late' = {} /\ pc' = "cluster"
    BY <1>1, <1>5, <1>6, <1>8 DEF PlannedRun
  <2>2. cluster' \in ClusterState /\ cluster'.up = FALSE /\ cluster'.recovering = FALSE
        /\ cluster'.passed = {} /\ cluster'.generation = 0 /\ cluster'.failures = 0
    BY <2>1 DEF NoCluster, ClusterState
  <2>3. PlaceInv' /\ NodeInv'
    BY <1>2, <2>1, <2>2 DEF PlaceInv, NodeInv, Stages
  <2>4. ClusterInv'
    <3>1. at' <= Len(plan') => InGroup' = {}
      BY <1>1, <1>2, <1>8, NextGroupFresh
    <3> QED
      BY <2>2, <3>1 DEF ClusterInv
  <2>5. BudgetInv'
    <3>1. Since(0)'
      BY <2>2 DEF Since
    <3>2. cluster'.failures < MaxRestarts
      BY <1>5, <2>2
    <3> QED
      BY <3>1, <3>2 DEF BudgetInv
  <2> QED
    BY <1>1, <1>7, <2>1, <2>2, <2>3, <2>4, <2>5, RecordStep
<1>9. CASE ~(failures < MaxRestarts /\ GroupEnds)
  <2>1. cluster' = [cluster EXCEPT !.up = ~ShouldRecover, !.recovering = ShouldRecover,
                                   !.failures = failures]
    BY <1>1, <1>9 DEF PlannedRun
  <2>2. /\ cluster'.generation = cluster.generation /\ cluster'.failures = failures
        /\ cluster'.passed = {}
    BY <1>4, <1>5, <2>1 DEF ClusterState
  <2>3. ShouldRecover \in BOOLEAN
    BY DEF ShouldRecover
  <2>4. cluster' \in ClusterState
        /\ cluster'.up = ~ShouldRecover /\ cluster'.recovering = ShouldRecover
    <3> HIDE DEF failures
    <3>1. PICK r \in BOOLEAN : r = ShouldRecover
      BY <2>3
    <3>2. PICK u \in BOOLEAN : u = ~ShouldRecover
      BY <2>3
    <3>3. cluster' = [cluster EXCEPT !.up = u, !.recovering = r, !.failures = failures]
      BY <2>1, <3>1, <3>2
    <3>4. cluster' \in ClusterState /\ cluster'.up = u /\ cluster'.recovering = r
      BY <1>5, <3>3 DEF ClusterState
    <3> QED
      BY <3>1, <3>2, <3>4
  <2>5. CASE failures >= MaxRestarts
    <3>1. pc' = "aborted" /\ ~Going'
      BY <1>6, <2>5 DEF Going, Stopped
    <3>2. ShouldRecover /\ node' = <<>> /\ late' = {}
      BY <1>5, <1>6, <2>5
    <3>3. PlaceInv' /\ NodeInv'
      BY <1>2, <2>2, <3>1, <3>2 DEF PlaceInv, NodeInv, Stages
    <3>4. ClusterInv' /\ BudgetInv'
      BY <3>1 DEF ClusterInv, BudgetInv
    <3> QED
      BY <1>1, <1>7, <2>4, <3>1, <3>3, <3>4, RecordStep
  <2>6. CASE failures < MaxRestarts
    <3>1. ~GroupEnds /\ pc' = "cluster"
      BY <1>5, <1>6, <1>9, <2>6
    <3>2. at + 1 <= Len(plan) /\ at + 1 \in DOMAIN plan
          /\ Size[plan[at + 1].scenario] = Size[plan[at].scenario]
      BY <1>3, <3>1 DEF GroupEnds, IInv, CampaignInv
    <3>3. GroupSize' = GroupSize
      BY <1>1, <1>2, <3>2 DEF GroupSize
    <3>4. Group(GroupSize) # {}
      BY <1>3, GroupNonempty DEF IInv, GroupSize
    <3>5. PICK L : L = Len(runs) + 1
      OBVIOUS
    <3>6. /\ InGroup' = InGroup \union {L}
          /\ InGroup \subseteq DOMAIN runs
          /\ \A i \in InGroup : runs'[i] = runs[i] /\ runs[i].generation \in Nat
          /\ runs'[L].generation = cluster.generation
      <4>1. InGroup' = InGroup \union {L}
        BY <1>1, <3>3, <3>5, GroupRuns
      <4>2. InGroup \subseteq DOMAIN runs
        BY DEF InGroup, PlannedRuns
      <4>3. runs'[L] = Run /\ \A i \in InGroup : runs'[i] = runs[i]
        BY <1>1, <3>5, <4>2, Appended
      <4>4. \A i \in InGroup : runs[i] \in Recorded
        BY <4>2 DEF IInv, TypeInv
      <4>5. Run.generation = cluster.generation
        BY <1>1, RunType
      <4> QED
        BY <4>1, <4>2, <4>3, <4>4, <4>5 DEF Recorded
    <3>7. PlaceInv'
      <4>1. Unproven' = Group(GroupSize)
        BY <1>2, <2>2, <3>3 DEF Unproven, GroupSize
      <4> QED
        BY <1>1, <1>2, <2>2, <3>1, <3>2, <3>3, <3>4, <4>1 DEF PlaceInv, Stages
    <3>8. NodeInv'
      <4>1. cluster'.up => UNCHANGED <<node, late>>
        <5>1. ~ShouldRecover /\ ~GroupEnds => UNCHANGED <<node, late>>
          BY <1>1 DEF PlannedRun
        <5> QED
          BY <2>4, <3>1, <5>1
      <4>2. DOMAIN node = 1 .. GroupSize
        BY <1>3, <1>4 DEF IInv, NodeInv
      <4>3. \A q \in late' : q.node \in DOMAIN node'
        BY <1>6 DEF IInv, NodeInv
      <4> QED
        BY <1>2, <3>1, <3>3, <4>1, <4>2, <4>3 DEF NodeInv
    <3>9. ClusterInv'
      <4>1. /\ \A i \in InGroup : runs[i].generation <= cluster.generation
            /\ \A i \in InGroup : runs[i].generation < cluster.generation =>
                 \A t \in Group(GroupSize) : ProvedSince(i, t)
        BY <1>3 DEF IInv, ClusterInv
      <4>2. \A i \in InGroup : runs[i].generation < cluster.generation =>
              \A t \in Group(GroupSize) : ProvedSince(i, t)'
        BY <1>1, <2>2, <3>6, <4>1, ProvedKept
      <4>3. \A i \in InGroup' : runs'[i].generation <= cluster'.generation
        BY <1>5, <2>2, <3>6, <4>1
      <4>4. \A i \in InGroup' : runs'[i].generation < cluster'.generation =>
              \A t \in Group(GroupSize)' : ProvedSince(i, t)'
        BY <1>2, <1>5, <2>2, <3>3, <3>6, <4>2
      <4>5. cluster'.up = ~cluster'.recovering
        BY <2>3, <2>4
      <4> QED
        BY <4>3, <4>4, <4>5 DEF ClusterInv
    <3>10. BudgetInv'
      <4>1. PICK base : base = cluster.generation
        OBVIOUS
      <4>2. Since(base)'
        BY <1>5, <2>2, <4>1 DEF Since
      <4>3. base \in {runs'[i].generation : i \in InGroup'} \union {0}
        BY <3>6, <4>1
      <4> QED
        BY <2>2, <2>6, <4>2, <4>3 DEF BudgetInv
    <3> QED
      BY <1>1, <1>7, <2>4, <3>1, <3>7, <3>8, <3>9, <3>10, RecordStep
  <2> QED
    BY <1>5, <2>5, <2>6
<1> QED
  BY <1>8, <1>9

-----------------------------------------------------------------------------
(* The theorems.                                                           *)

LEMMA NextStep ==
    IInv /\ [Next]_vars => IInv'
<1> SUFFICES ASSUME IInv, [Next]_vars PROVE IInv'
  OBVIOUS
<1>1. CASE Evaluator
  <2>1. CASE recordRun
    BY <2>1, RecordFixed, RecordRecovery, RecordPlanned
  <2> QED
    BY <1>1, <2>1, StartStep, BeginSlotStep, runLocalExperimentStep, PostStep, StageEndsStep,
       PollStep, SweepEndsStep, recordRunFailsStep, FinishStep DEF Evaluator
<1>2. CASE DeadlinePasses
  BY <1>2, DeadlinePassesStep
<1>3. CASE \E n \in DOMAIN node : SlotEnds(n) \/ Dies(n)
  BY <1>3, SlotEndsStep
<1>4. CASE \E r \in late : HandlesLate(r)
  BY <1>4, HandlesLateStep
<1>5. CASE UNCHANGED vars
  <2>1. UNCHANGED <<campaign, at, nextSlot, cluster, node, late, pc, todo, err, expired,
                    results, runs, manifest>>
    BY <1>5 DEF vars
  <2>2. CampaignInv' /\ Records'
    BY <2>1, RecordsKept
  <2>3. PlaceInv' /\ Nodes' = Nodes /\ GroupSize' = GroupSize
    BY <2>1, PlaceKept DEF IInv, PlaceInv
  <2>4. TypeInv'
    <3>1. Recorded' = Recorded /\ ClusterState' = ClusterState /\ plan' = plan
      BY <2>1 DEF Scenarios, Recorded, ClusterState, plan
    <3> QED
      BY <2>1, <3>1 DEF IInv, TypeInv
  <2>5. NodeInv' /\ ResultInv'
    BY <2>1, <2>3 DEF IInv, NodeInv, ResultInv, OneEach, CountMismatch, Isolated, Persistent,
                      Going
  <2> QED
    BY <2>2, <2>3, <2>4, <2>5 DEF IInv, Records
<1> QED
  BY <1>1, <1>2, <1>3, <1>4, <1>5 DEF Next

(***************************************************************************)
(* The inductive invariant holds throughout every campaign (evalSuite,     *)
(* runPersistentSuite, evalRemote).                                        *)
(***************************************************************************)
THEOREM Invariance ==
    Spec => []IInv
<1>1. Init => IInv
  BY Initial
<1>2. IInv /\ [Next]_vars => IInv'
  BY NextStep
<1> QED
  BY <1>1, <1>2, PTL DEF Spec

(***************************************************************************)
(* The variables of the evaluator and of the nodes keep their types, and   *)
(* the plan is one of the campaign's scenarios, by node count.             *)
(***************************************************************************)
THEOREM TypeCorrectness ==
    Spec => [](CampaignInv /\ TypeInv)
<1>1. IInv => CampaignInv /\ TypeInv
  BY DEF IInv
<1> QED
  BY <1>1, Invariance, PTL

-----------------------------------------------------------------------------
(* What the summary counts.                                                *)

\* The places of the measured runs of a scenario in a plan, and its places in the
\* options.
Measured(p, s) == {i \in DOMAIN p : p[i].phase = "measured" /\ p[i].scenario = s}
PlacesOf(scenarios, s) == {t \in DOMAIN scenarios : scenarios[t] = s}

\* A round is a number: each scenario is mixed with itself.
LEMMA RoundIsNat ==
    ASSUME NEW c \in Campaign, NEW n \in Nat, NEW p \in [1 .. n -> DOMAIN c.scenarios],
           NEW i \in 1 .. n
    PROVE  Round(c, p, i) \in Nat
<1> DEFINE M == Mixed(c, p[i])
           B == {j \in 1 .. i - 1 : p[j] \in M}
<1>1. c.scenarios \in Seq(DOMAIN Size)
  BY EvaluationAssumption
<1>2. DOMAIN c.scenarios = 1 .. Len(c.scenarios) /\ Len(c.scenarios) \in Nat
  BY <1>1
<1>3. IsFiniteSet(M)
  <2>1. IsFiniteSet(1 .. Len(c.scenarios))
    BY <1>2, FS_Interval
  <2>2. M \in SUBSET (1 .. Len(c.scenarios))
    BY <1>2 DEF Mixed
  <2> QED
    BY <2>1, <2>2, FS_Subset
<1>4. p[i] \in M
  BY DEF Mixed
<1>5. Cardinality(M) \in Nat \ {0}
  BY <1>3, <1>4, FS_CardinalityType, FS_EmptySet
<1>6. Cardinality(B) \in Nat
  <2>1. IsFiniteSet(1 .. i - 1)
    BY FS_Interval
  <2>2. B \in SUBSET (1 .. i - 1)
    OBVIOUS
  <2>3. IsFiniteSet(B)
    BY <2>1, <2>2, FS_Subset
  <2> QED
    BY <2>3, FS_CardinalityType
<1>7. \A a \in Nat, b \in Nat \ {0} : a \div b \in Nat
  OBVIOUS
<1>8. Cardinality(B) \div Cardinality(M) \in Nat
  <2> HIDE DEF B, M
  <2> QED
    BY <1>5, <1>6, <1>7
<1> QED
  BY <1>8 DEF Round

\* An order takes every scenario exactly once in every round: no two runs share
\* scenario and round, and there are as many runs as such pairs.
LEMMA EveryRoundOnce ==
    ASSUME NEW c \in Campaign, NEW p \in Orders(c)
    PROVE  LET k == c.warmups + c.repetitions
               n == k * Len(c.scenarios)
               f == [i \in 1 .. n |-> <<p[i], Round(c, p, i)>>]
           IN  /\ n \in Nat /\ DOMAIN p = 1 .. n
               /\ f \in Injection(1 .. n, (DOMAIN c.scenarios) \X (0 .. k - 1))
               /\ f \in Surjection(1 .. n, (DOMAIN c.scenarios) \X (0 .. k - 1))
<1> DEFINE k == c.warmups + c.repetitions
           l == Len(c.scenarios)
           n == k * l
           P == DOMAIN c.scenarios
           T == P \X (0 .. k - 1)
           f == [i \in 1 .. n |-> <<p[i], Round(c, p, i)>>]
<1>1. c.scenarios \in Seq(DOMAIN Size) /\ c.warmups \in Nat /\ c.repetitions \in Nat
  BY EvaluationAssumption
<1>2. k \in Nat /\ l \in Nat /\ P = 1 .. l
  BY <1>1
<1>3. n \in Nat
  <2>1. \A a, b \in Nat : a * b \in Nat
    OBVIOUS
  <2> HIDE DEF k, l
  <2> QED
    BY <1>2, <2>1
<1>4. /\ p \in [1 .. n -> P]
      /\ \A i \in 1 .. n : Round(c, p, i) < k
      /\ \A i, j \in 1 .. n : i < j /\ p[i] = p[j] => Round(c, p, i) < Round(c, p, j)
  BY DEF Orders
<1> HIDE DEF k, l, n, P
<1>5. \A i \in 1 .. n : Round(c, p, i) \in Nat
  BY <1>3, <1>4, RoundIsNat DEF P
<1>6. f \in [1 .. n -> T]
  <2>1. ASSUME NEW i \in 1 .. n PROVE <<p[i], Round(c, p, i)>> \in T
    <3>1. p[i] \in P
      BY <1>4
    <3>2. Round(c, p, i) \in 0 .. k - 1
      BY <1>2, <1>4, <1>5
    <3> QED
      BY <3>1, <3>2
  <2> QED
    BY <2>1
<1>7. ASSUME NEW i \in 1 .. n, NEW j \in 1 .. n, f[i] = f[j] PROVE i = j
  <2>1. p[i] = p[j] /\ Round(c, p, i) = Round(c, p, j)
    BY <1>7
  <2>2. ~(i < j) /\ ~(j < i)
    BY <1>4, <1>5, <2>1
  <2> QED
    BY <1>3, <2>2
<1>8. f \in Injection(1 .. n, T)
  BY <1>6, <1>7 DEF Injection, IsInjective
<1>9. IsFiniteSet(T) /\ Cardinality(T) = Cardinality(1 .. n)
  <2>1. IsFiniteSet(P) /\ Cardinality(P) = l
    <3>1. IsFiniteSet(1 .. l) /\ Cardinality(1 .. l) = IF 1 > l THEN 0 ELSE l - 1 + 1
      BY <1>2, FS_Interval
    <3> QED
      BY <1>2, <3>1
  <2>2. IsFiniteSet(0 .. k - 1) /\ Cardinality(0 .. k - 1) = k
    <3>1. k - 1 \in Int
      BY <1>2
    <3>2. /\ IsFiniteSet(0 .. k - 1)
          /\ Cardinality(0 .. k - 1) = IF 0 > k - 1 THEN 0 ELSE (k - 1) - 0 + 1
      BY <3>1, FS_Interval
    <3> QED
      BY <1>2, <3>2
  <2>3. IsFiniteSet(T) /\ Cardinality(T) = l * k
    BY <2>1, <2>2, FS_Product
  <2>4. Cardinality(1 .. n) = n
    <3>1. Cardinality(1 .. n) = IF 1 > n THEN 0 ELSE n - 1 + 1
      BY <1>3, FS_Interval
    <3> QED
      BY <1>3, <3>1
  <2>5. l * k = k * l
    BY <1>2
  <2> QED
    BY <2>3, <2>4, <2>5 DEF n
<1>10. f \in Surjection(1 .. n, T)
  <2> HIDE DEF f, T
  <2> QED
    BY <1>8, <1>9, FS_Injection
<1> QED
  BY <1>3, <1>4, <1>8, <1>10 DEF n, k, l, P

\* A plan measures each scenario as often as it is repeated, once for each of its
\* places in the options.
LEMMA PlanMeasures ==
    ASSUME NEW c \in Campaign, NEW q \in Plans(c), NEW s
    PROVE  Cardinality(Measured(q, s)) =
             c.repetitions * Cardinality(PlacesOf(c.scenarios, s))
<1>1. PICK p \in Orders(c) :
         q = [i \in DOMAIN p |->
                [scenario |-> c.scenarios[p[i]],
                 phase |-> IF Round(c, p, i) < c.warmups THEN "warmup" ELSE "measured"]]
  BY DEF Plans
<1> DEFINE w == c.warmups
           k == w + c.repetitions
           n == k * Len(c.scenarios)
           P == DOMAIN c.scenarios
           T == P \X (0 .. k - 1)
           f == [i \in 1 .. n |-> <<p[i], Round(c, p, i)>>]
           M == Measured(q, s)
           O == PlacesOf(c.scenarios, s)
           U == O \X (w .. k - 1)
           g == [i \in M |-> f[i]]
<1>2. /\ n \in Nat /\ DOMAIN p = 1 .. n
      /\ f \in Injection(1 .. n, T) /\ f \in Surjection(1 .. n, T)
  BY EveryRoundOnce
<1>3. c.scenarios \in Seq(DOMAIN Size) /\ w \in Nat /\ c.repetitions \in Nat \ {0} /\ k \in Nat
  BY EvaluationAssumption
<1>4. /\ M \subseteq 1 .. n
      /\ \A i \in 1 .. n : i \in M <=> c.scenarios[p[i]] = s /\ ~(Round(c, p, i) < w)
  <2>1. DOMAIN q = 1 .. n
    BY <1>1, <1>2
  <2>2. \A i \in 1 .. n :
          /\ q[i].scenario = c.scenarios[p[i]]
          /\ q[i].phase = IF Round(c, p, i) < w THEN "warmup" ELSE "measured"
    BY <1>1, <1>2
  <2> QED
    BY <2>1, <2>2 DEF Measured
<1>5. \A i \in 1 .. n : f[i] = <<p[i], Round(c, p, i)>>
  OBVIOUS
<1> HIDE DEF n, M, k, w
<1>6. \A i \in 1 .. n : p[i] \in P /\ Round(c, p, i) \in 0 .. k - 1
  <2> TAKE i \in 1 .. n
  <2>1. f[i] \in T
    <3> HIDE DEF f, T
    <3> QED
      BY <1>2 DEF Injection
  <2> QED
    BY <1>5, <2>1
<1>7. g \in [M -> U]
  <2>1. ASSUME NEW i \in M PROVE f[i] \in U
    <3>1. i \in 1 .. n /\ c.scenarios[p[i]] = s /\ ~(Round(c, p, i) < w)
      BY <1>4
    <3>2. p[i] \in O
      BY <1>6, <3>1 DEF PlacesOf
    <3>3. Round(c, p, i) \in w .. k - 1
      BY <1>3, <1>6, <3>1
    <3> QED
      BY <1>5, <3>1, <3>2, <3>3
  <2> QED
    BY <2>1
<1>8. g \in Injection(M, U)
  <2>1. \A i, j \in 1 .. n : f[i] = f[j] => i = j
    <3> HIDE DEF f, T
    <3> QED
      BY <1>2 DEF Injection, IsInjective
  <2>2. \A i, j \in M : g[i] = g[j] => i = j
    <3>1. \A i \in M : g[i] = f[i] /\ i \in 1 .. n
      BY <1>4
    <3> HIDE DEF f, g
    <3> QED
      BY <2>1, <3>1
  <2> HIDE DEF g, U
  <2> QED
    BY <1>7, <2>2 DEF Injection, IsInjective
<1>9. g \in Surjection(M, U)
  <2>1. ASSUME NEW u \in U PROVE \E i \in M : g[i] = u
    <3>1. PICK t \in O, r \in w .. k - 1 : u = <<t, r>>
      OBVIOUS
    <3>2. t \in P /\ c.scenarios[t] = s /\ r \in 0 .. k - 1 /\ ~(r < w)
      BY <1>3, <3>1 DEF PlacesOf
    <3>3. u \in T
      BY <3>1, <3>2
    <3>4. PICK i \in 1 .. n : f[i] = u
      <4> HIDE DEF f, T
      <4> QED
        BY <1>2, <3>3 DEF Surjection
    <3>5. p[i] = t /\ Round(c, p, i) = r
      BY <1>5, <3>1, <3>4
    <3>6. i \in M
      BY <1>4, <3>2, <3>5
    <3> QED
      BY <3>4, <3>6
  <2> HIDE DEF g, U
  <2> QED
    BY <1>7, <2>1 DEF Surjection
<1>10. Cardinality(M) = Cardinality(U)
  <2>1. IsFiniteSet(1 .. n)
    BY <1>2, FS_Interval
  <2>2. IsFiniteSet(M)
    BY <1>4, <2>1, FS_Subset
  <2>3. ExistsBijection(M, U)
    <3> HIDE DEF g, U
    <3> QED
      BY <1>8, <1>9 DEF ExistsBijection, Bijection
  <2> HIDE DEF U
  <2> QED
    BY <2>2, <2>3, FS_Bijection
<1>11. Cardinality(U) = Cardinality(O) * c.repetitions
  <2>1. IsFiniteSet(O) /\ Cardinality(O) \in Nat
    <3>1. P = 1 .. Len(c.scenarios) /\ Len(c.scenarios) \in Nat
      BY <1>3
    <3>2. IsFiniteSet(P)
      BY <3>1, FS_Interval
    <3>3. O \in SUBSET P
      BY DEF PlacesOf
    <3> QED
      BY <3>2, <3>3, FS_Subset, FS_CardinalityType
  <2>2. w \in Int /\ k - 1 \in Int
    BY <1>3
  <2>3. /\ IsFiniteSet(w .. k - 1)
        /\ Cardinality(w .. k - 1) = IF w > k - 1 THEN 0 ELSE (k - 1) - w + 1
    BY <2>2, FS_Interval
  <2>4. Cardinality(w .. k - 1) = c.repetitions
    BY <1>3, <2>3 DEF k
  <2> HIDE DEF O
  <2> QED
    BY <2>1, <2>3, <2>4, FS_Product
<1>12. Cardinality(O) \in Nat
  <2>1. P = 1 .. Len(c.scenarios) /\ Len(c.scenarios) \in Nat
    BY <1>3
  <2>2. IsFiniteSet(P)
    BY <2>1, FS_Interval
  <2>3. O \in SUBSET P
    BY DEF PlacesOf
  <2> QED
    BY <2>2, <2>3, FS_Subset, FS_CardinalityType
<1>13. \A a, b \in Nat : a * b = b * a
  OBVIOUS
<1> HIDE DEF O, U
<1> QED
  BY <1>3, <1>10, <1>11, <1>12, <1>13 DEF M, O

\* Two planned runs have different ranks.
LEMMA RanksDiffer ==
    ASSUME IInv, NEW i \in PlannedRuns, NEW j \in PlannedRuns, i < j
    PROVE  Rank(i) # Rank(j)
<1> DEFINE A == {k \in PlannedRuns : k <= i}
           B == {k \in PlannedRuns : k <= j}
<1>1. runs \in Seq(Recorded)
  BY DEF IInv, TypeInv
<1>2. PlannedRuns \in SUBSET (1 .. Len(runs)) /\ Len(runs) \in Nat
  BY <1>1 DEF PlannedRuns
<1>3. IsFiniteSet(B)
  <2>1. IsFiniteSet(1 .. Len(runs))
    BY <1>2, FS_Interval
  <2>2. B \in SUBSET (1 .. Len(runs))
    BY <1>2
  <2> QED
    BY <2>1, <2>2, FS_Subset
<1>4. A \in SUBSET B /\ j \in B /\ j \notin A
  <2>1. \A k \in PlannedRuns : k \in Int
    BY <1>2
  <2>2. \A k \in PlannedRuns : k <= i => k <= j
    BY <2>1
  <2>3. j <= j /\ ~(j <= i)
    BY <2>1
  <2> QED
    BY <2>2, <2>3
<1>5. Cardinality(A) # Cardinality(B)
  <2> HIDE DEF A, B
  <2> QED
    BY <1>3, <1>4, FS_Subset
<1> QED
  BY <1>5 DEF Rank

\* With the whole plan retained, the measured runs of a scenario are as many as the
\* plan has: their ranks are a bijection.
LEMMA WholePlanMeasured ==
    ASSUME IInv, Cardinality(PlannedRuns) = Len(plan), NEW s
    PROVE  Cardinality(Measured(runs, s)) = Cardinality(Measured(plan, s))
<1> DEFINE R == Measured(runs, s)
           M == Measured(plan, s)
           f == [i \in PlannedRuns |-> Rank(i)]
           g == [i \in R |-> Rank(i)]
<1>1. runs \in Seq(Recorded) /\ plan \in Seq(Planned)
  BY DEF IInv, TypeInv, CampaignInv
<1>2. /\ PlannedRuns \in SUBSET (1 .. Len(runs)) /\ Len(runs) \in Nat
      /\ DOMAIN plan = 1 .. Len(plan) /\ Len(plan) \in Nat
  BY <1>1 DEF PlannedRuns
<1>3. IsFiniteSet(PlannedRuns) /\ IsFiniteSet(DOMAIN plan)
  <2>1. IsFiniteSet(1 .. Len(runs)) /\ IsFiniteSet(1 .. Len(plan))
    BY <1>2, FS_Interval
  <2> QED
    BY <1>2, <2>1, FS_Subset
<1>4. \A i \in PlannedRuns :
        /\ Rank(i) \in DOMAIN plan
        /\ runs[i].scenario = plan[Rank(i)].scenario
        /\ runs[i].phase = plan[Rank(i)].phase
  BY DEF IInv, RunInv
<1>5. \A i, j \in PlannedRuns : Rank(i) = Rank(j) => i = j
  <2> SUFFICES ASSUME NEW i \in PlannedRuns, NEW j \in PlannedRuns, Rank(i) = Rank(j), i # j
               PROVE  FALSE
    OBVIOUS
  <2>1. i < j \/ j < i
    BY <1>2
  <2>2. CASE i < j
    BY <2>2, RanksDiffer
  <2>3. CASE j < i
    BY <2>3, RanksDiffer
  <2> QED
    BY <2>1, <2>2, <2>3
<1>6. f \in Injection(PlannedRuns, DOMAIN plan)
  BY <1>4, <1>5 DEF Injection, IsInjective
<1>7. f \in Surjection(PlannedRuns, DOMAIN plan)
  <2>1. Cardinality(DOMAIN plan) = Len(plan)
    <3>1. PICK l : l = Len(plan)
      OBVIOUS
    <3>2. l \in Nat /\ l \in Int /\ 1 \in Int
      BY <1>2, <3>1
    <3>3. Cardinality(1 .. l) = IF 1 > l THEN 0 ELSE l - 1 + 1
      BY <3>2, FS_Interval
    <3>4. Cardinality(1 .. l) = l
      BY <3>2, <3>3
    <3> QED
      BY <1>2, <3>1, <3>4
  <2> HIDE DEF f
  <2> QED
    BY <1>3, <1>6, <2>1, FS_Injection
<1>8. R \in SUBSET PlannedRuns
  BY DEF Measured, PlannedRuns
<1>9. g \in Injection(R, M)
  <2>1. \A i \in R : Rank(i) \in M
    BY <1>4, <1>8 DEF Measured
  <2>2. g \in [R -> M]
    BY <2>1
  <2>3. \A i, j \in R : g[i] = g[j] => i = j
    BY <1>5, <1>8
  <2> HIDE DEF g, R, M
  <2> QED
    BY <2>2, <2>3 DEF Injection, IsInjective
<1>10. g \in Surjection(R, M)
  <2>1. ASSUME NEW m \in M PROVE \E i \in R : g[i] = m
    <3>1. m \in DOMAIN plan /\ plan[m].phase = "measured" /\ plan[m].scenario = s
      BY DEF Measured
    <3>2. PICK i \in PlannedRuns : f[i] = m
      <4> HIDE DEF f
      <4> QED
        BY <1>7, <3>1 DEF Surjection
    <3>3. Rank(i) = m
      BY <3>2
    <3>4. i \in R
      BY <1>4, <3>1, <3>3 DEF Measured, PlannedRuns
    <3> QED
      BY <3>3, <3>4
  <2>2. g \in [R -> M]
    BY <1>9 DEF Injection
  <2> HIDE DEF g, R, M
  <2> QED
    BY <2>1, <2>2 DEF Surjection
<1>11. IsFiniteSet(R)
  BY <1>3, <1>8, FS_Subset
<1>12. ExistsBijection(R, M)
  <2> HIDE DEF g, R, M
  <2> QED
    BY <1>9, <1>10 DEF ExistsBijection, Bijection
<1> HIDE DEF R, M
<1>13. Cardinality(M) = Cardinality(R)
  BY <1>11, <1>12, FS_Bijection
<1> QED
  BY <1>13 DEF R, M

\* The plan is the right one, and a manifest that was finished has the summary of
\* all the runs.
SummaryInv ==
    /\ \A s : Cardinality(Measured(plan, s)) =
                campaign.repetitions * Cardinality(PlacesOf(campaign.scenarios, s))
    /\ manifest.status # "running" => manifest.summary = summarizeScenarios

LEMMA SummaryInitial ==
    Init => SummaryInv
<1> SUFFICES ASSUME Init PROVE SummaryInv
  OBVIOUS
<1>1. PICK c \in Campaign : \E p \in Plans(c) :
         campaign = [mode |-> c.mode, source |-> c.source, scenarios |-> c.scenarios,
                     repetitions |-> c.repetitions, plan |-> p]
  BY DEF Init
<1>2. PICK p \in Plans(c) :
         campaign = [mode |-> c.mode, source |-> c.source, scenarios |-> c.scenarios,
                     repetitions |-> c.repetitions, plan |-> p]
  BY <1>1
<1>3. plan = p /\ campaign.repetitions = c.repetitions /\ campaign.scenarios = c.scenarios
  BY <1>2 DEF plan
<1>4. \A s : Cardinality(Measured(p, s)) =
               c.repetitions * Cardinality(PlacesOf(c.scenarios, s))
  BY PlanMeasures
<1>5. manifest.status = "running"
  BY DEF Init
<1> QED
  BY <1>3, <1>4, <1>5 DEF SummaryInv

\* No step changes the campaign, and none but Finish the manifest; after it nothing
\* is recorded.
LEMMA SummaryStep ==
    IInv /\ SummaryInv /\ [Next]_vars => SummaryInv'
<1> SUFFICES ASSUME IInv, SummaryInv, [Next]_vars PROVE SummaryInv'
  OBVIOUS
<1>1. manifest.status # "running" => pc = "done"
  BY DEF IInv, RunInv
<1>2. ASSUME campaign' = campaign, manifest' = manifest,
             pc = "done" => runs' = runs
      PROVE  SummaryInv'
  <2>1. plan' = plan
    BY <1>2 DEF plan
  <2>2. \A s : Cardinality(Measured(plan, s))' = Cardinality(Measured(plan, s))
    BY <2>1 DEF Measured
  <2>3. runs' = runs => summarizeScenarios' = summarizeScenarios
    BY <1>2 DEF summarizeScenarios, Scenarios
  <2> QED
    BY <1>1, <1>2, <2>2, <2>3 DEF SummaryInv, PlacesOf
<1>3. CASE Finish
  <2>1. campaign' = campaign /\ runs' = runs
    BY <1>3 DEF Finish
  <2>2. manifest' = manifest \/ manifest'.summary = summarizeScenarios
    BY <1>3 DEF Finish
  <2>3. CASE manifest' = manifest
    BY <1>2, <2>1, <2>3
  <2>4. CASE manifest'.summary = summarizeScenarios
    <3>1. summarizeScenarios' = summarizeScenarios /\ plan' = plan
      BY <2>1 DEF summarizeScenarios, Scenarios, plan
    <3>2. \A s : Cardinality(Measured(plan, s))' = Cardinality(Measured(plan, s))
      BY <3>1 DEF Measured
    <3> QED
      BY <2>1, <2>4, <3>1, <3>2 DEF SummaryInv, PlacesOf
  <2> QED
    BY <2>2, <2>3, <2>4
<1>4. CASE recordRun \/ recordRunFails
  BY <1>2, <1>4 DEF recordRun, recordRunFails
<1>5. CASE startCluster \/ startClusterFails \/ BeginSlot \/ runLocalExperiment \/ StageEnds
  BY <1>2, <1>5 DEF startCluster, startClusterFails, BeginSlot, runLocalExperiment, StageEnds
<1>6. CASE \E n \in todo : Post(n)
  BY <1>2, <1>6 DEF Post
<1>7. CASE pollResultsOnce \/ pollResults \/ SweepEnds \/ DeadlinePasses
  BY <1>2, <1>7 DEF pollResultsOnce, pollResults, SweepEnds, DeadlinePasses
<1>8. CASE (\E n \in DOMAIN node : SlotEnds(n) \/ Dies(n)) \/ \E r \in late : HandlesLate(r)
  BY <1>2, <1>8 DEF SlotEnds, Dies, HandlesLate
<1>9. CASE UNCHANGED vars
  BY <1>2, <1>9 DEF vars
<1> QED
  BY <1>3, <1>4, <1>5, <1>6, <1>7, <1>8, <1>9 DEF Next, Evaluator

LEMMA SummaryFollows ==
    IInv /\ SummaryInv => SummaryExact
<1> SUFFICES ASSUME IInv, SummaryInv, manifest.status = "complete",
                    NEW s \in Scenarios(campaign)
             PROVE  /\ manifest.summary[s].attempted =
                         campaign.repetitions * Cardinality(PlacesOf(campaign.scenarios, s))
                    /\ \A i \in manifest.summary[s].latencies :
                         runs[i].phase = "measured" /\ runs[i].outcome = "completed"
  BY DEF SummaryExact, PlacesOf
<1>1. manifest.summary = summarizeScenarios
  BY DEF SummaryInv
<1>2. summarizeScenarios[s] =
        [attempted |-> Cardinality(Measured(runs, s)),
         latencies |-> {i \in Measured(runs, s) : runs[i].outcome = "completed"}]
  BY DEF summarizeScenarios, Measured
<1>3. Cardinality(PlannedRuns) = Len(plan)
  BY DEF IInv, RunInv
<1>4. Cardinality(Measured(runs, s)) = Cardinality(Measured(plan, s))
  BY <1>3, WholePlanMeasured
<1>5. \A i \in Measured(runs, s) : runs[i].phase = "measured"
  BY DEF Measured
<1> QED
  BY <1>1, <1>2, <1>4, <1>5 DEF SummaryInv

(***************************************************************************)
(* The summary of a complete campaign counts exactly the repetitions of    *)
(* every scenario, whatever was repeated, recovered or lost on the way,    *)
(* and no latency is one of a warmup, a recovery or a failure              *)
(* (summarizeScenarios, persistentSpecs, suiteCollectionComplete).         *)
(***************************************************************************)
THEOREM SummaryExactTheorem ==
    Spec => []SummaryExact
<1>1. Init => SummaryInv
  BY SummaryInitial
<1>2. IInv /\ SummaryInv /\ [Next]_vars => SummaryInv'
  BY SummaryStep
<1>3. IInv /\ SummaryInv => SummaryExact
  BY SummaryFollows
<1> QED
  BY <1>1, <1>2, <1>3, Invariance, PTL DEF Spec

(***************************************************************************)
(* Every planned run is retained once and in the order of the plan, no     *)
(* slot is used twice, and a complete manifest has the whole plan and a    *)
(* summary of just its repetitions, for any plan and any MaxRestarts       *)
(* (evalSuite, runPersistentSuite, evalRemote, summarizeScenarios).        *)
(***************************************************************************)
THEOREM RetainedInOrderTheorem ==
    Spec => []RetainedInOrder
<1>1. IInv /\ SummaryExact => RetainedInOrder
  BY DEF IInv, RunInv, RetainedInOrder
<1> QED
  BY <1>1, Invariance, SummaryExactTheorem, PTL

(***************************************************************************)
(* A completed run has one result of every node, all of its own slot and   *)
(* all the same, whatever late requests and dying nodes do, and of a       *)
(* corpus exactly as many ciphertexts as were asked for, unless the run    *)
(* has a cluster of its own (pollResultsOnce, runSlot, runRemoteSlot,      *)
(* runLocalExperiment).                                                    *)
(***************************************************************************)
THEOREM AttributableTheorem ==
    Spec => []Attributable
<1>1. ASSUME IInv, pc = "record", Outcome = "completed"
      PROVE  /\ {results[i].node : i \in DOMAIN results} = Nodes
             /\ \A i \in DOMAIN results :
                  results[i].slot = nextSlot /\ results[i].value = results[1].value
             /\ campaign.source = "mock-encrypted-corpus" /\ ~Isolated =>
                  results[1].value \in Exact
  <2>1. err = "none" /\ resultsConsistent
    BY <1>1 DEF Outcome, Success
  <2>2. OneEach /\ Len(results) = Cardinality(Nodes) /\ ~CountMismatch
    BY <1>1, <2>1 DEF IInv, ResultInv
  <2>3. results \in Seq(Result)
    BY <1>1 DEF IInv, TypeInv
  <2>4. Going /\ at <= Len(plan)
    BY <1>1 DEF IInv, PlaceInv, Going, Stopped
  <2>5. Nodes = 1 .. GroupSize /\ GroupSize \in Nat
    BY <1>1, <2>4, PresentRun DEF IInv
  <2>6. IsFiniteSet(Nodes)
    BY <2>5, FS_Interval
  <2> DEFINE f == [i \in 1 .. Len(results) |-> results[i].node]
  <2>7. f \in Injection(1 .. Len(results), Nodes)
    BY <2>2, <2>3 DEF Injection, IsInjective, OneEach
  <2>8. Cardinality(1 .. Len(results)) = Cardinality(Nodes)
    <3>1. Len(results) \in Int /\ 1 \in Int /\ Len(results) >= 0
      BY <2>3
    <3>2. Cardinality(1 .. Len(results)) = IF 1 > Len(results) THEN 0 ELSE Len(results) - 1 + 1
      BY <3>1, FS_Interval
    <3> QED
      BY <2>2, <3>1, <3>2
  <2>9. f \in Surjection(1 .. Len(results), Nodes)
    BY <2>6, <2>7, <2>8, FS_Injection
  <2>10. {results[i].node : i \in DOMAIN results} = Nodes
    <3>1. \A n \in Nodes : \E i \in 1 .. Len(results) : f[i] = n
      BY <2>9 DEF Surjection
    <3> QED
      BY <2>2, <2>3, <3>1 DEF OneEach
  <2>11. 1 \in DOMAIN results
    BY <2>1, <2>3 DEF resultsConsistent
  <2> QED
    BY <2>1, <2>2, <2>10, <2>11 DEF OneEach, resultsConsistent, CountMismatch
<1>2. IInv => Attributable
  BY <1>1 DEF Attributable
<1> QED
  BY <1>2, Invariance, PTL

(***************************************************************************)
(* No planned run is measured on a replaced cluster that has not got       *)
(* through its whole group first (runPersistentSuite).                     *)
(***************************************************************************)
THEOREM CleanClusterTheorem ==
    Spec => []CleanCluster
<1>1. IInv => CleanCluster
  BY DEF IInv
<1> QED
  BY <1>1, Invariance, PTL

(***************************************************************************)
(* The cluster is replaced at most MaxRestarts times in a row without a    *)
(* planned run, for every MaxRestarts (runPersistentSuite).                *)
(***************************************************************************)
THEOREM RestartBudgetTheorem ==
    Spec => []RestartBudget
<1>1. ASSUME IInv, Persistent, at <= Len(plan), pc \notin {"aborted", "done"},
             cluster.generation > MaxRestarts
      PROVE  \E i \in InGroup : runs[i].generation >= cluster.generation - MaxRestarts
  <2>1. Going
    BY <1>1 DEF Going, Stopped
  <2>2. cluster.failures < MaxRestarts
    BY <1>1, <2>1 DEF IInv, BudgetInv
  <2>3. PICK base \in {runs[i].generation : i \in InGroup} \union {0} : Since(base)
    BY <1>1, <2>1 DEF IInv, BudgetInv
  <2>4. /\ cluster.generation \in Nat /\ cluster.failures \in Nat /\ MaxRestarts \in Nat
        /\ \A i \in InGroup : runs[i].generation \in Nat
    <3>1. \A i \in InGroup : runs[i] \in Recorded
      BY <1>1 DEF IInv, TypeInv, InGroup, PlannedRuns
    <3> QED
      BY <1>1, <3>1, EvaluationAssumption DEF IInv, TypeInv, ClusterState, Recorded
  <2>5. cluster.generation <= base + MaxRestarts /\ base \in Nat
    BY <2>2, <2>3, <2>4 DEF Since
  <2>6. base # 0
    BY <1>1, <2>4, <2>5
  <2> QED
    BY <2>3, <2>4, <2>5, <2>6
<1>2. IInv => RestartBudget
  <2> SUFFICES ASSUME IInv, Persistent, at <= Len(plan), pc \notin {"aborted", "done"},
                      cluster.generation > MaxRestarts
               PROVE  \E g \in {runs[i].generation :
                                  i \in {i \in DOMAIN runs :
                                           /\ runs[i].phase # "recovery"
                                           /\ Size[runs[i].scenario] = Size[plan[at].scenario]}} :
                        g >= cluster.generation - MaxRestarts
    BY DEF RestartBudget
  <2> QED
    BY <1>1 DEF InGroup, PlannedRuns, GroupSize
<1> QED
  BY <1>2, Invariance, PTL
=============================================================================
