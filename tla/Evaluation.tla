----------------------------- MODULE Evaluation -----------------------------
(***************************************************************************)
(* The evaluator: the plan of warmup and measured runs that eval-suite     *)
(* (persistent or isolated clusters) and eval-remote carry out slot by     *)
(* slot over the nodes' HTTP interface, the recovery of a persistent       *)
(* cluster, and what the manifest says at the end                          *)
(* (bloc-node/internal/app/eval_suite.go, eval_persistent.go,              *)
(* eval_remote.go, eval.go).                                               *)
(*                                                                         *)
(* A node is what the evaluator sees of it: its slot and how far that slot *)
(* is (SlotLifecycle has the rest).  Nodes go on while they are asked, may *)
(* die, and may handle a request after the client has given it up.         *)
(***************************************************************************)
EXTENDS Integers, Sequences, FiniteSets

CONSTANTS
    Campaign,     \* the campaigns to consider: mode, source, scenarios, ...
    Size,         \* evalScenario.Nodes: the number of nodes of each scenario
    Value,        \* what a node may decrypt
    Exact,        \* the values with as many ciphertexts as the scenario asks
    MaxRestarts,  \* suiteOptions.MaxRestarts
    None

ASSUME EvaluationAssumption ==
    /\ MaxRestarts \in Nat \ {0}
    /\ Exact \subseteq Value /\ None \notin Value
    /\ \A s \in DOMAIN Size : Size[s] \in Nat \ {0}
    /\ \A c \in Campaign :
         /\ c.mode \in {"persistent", "remote", "isolated"}
         /\ c.source \in {"synthetic", "mock-encrypted-corpus"}
         /\ c.scenarios \in Seq(DOMAIN Size) /\ c.scenarios # <<>>
         /\ c.warmups \in Nat /\ c.repetitions \in Nat \ {0}
         /\ c.mode = "remote" => Len(c.scenarios) = 1

VARIABLES
    campaign,  \* the options and the shuffled plan of this campaign
    at,        \* the planned run that is next
    nextSlot,  \* never used for two runs
    cluster,   \* the persistent cluster and its recovery
    node,      \* the nodes of the cluster
    late,      \* requests the client has given up that a node may still handle
    pc,        \* where the evaluator is
    todo,      \* the nodes the present stage has still to ask
    err,       \* the error of the present run
    expired,   \* the deadline of pollResults has passed
    results,   \* the results of the present run
    runs,      \* allRuns
    manifest   \* its status, and the summary that goes with it

vars == <<campaign, at, nextSlot, cluster, node, late, pc, todo, err, expired,
          results, runs, manifest>>

-----------------------------------------------------------------------------
(* The plan.                                                               *)

Scenarios(c) == {c.scenarios[i] : i \in DOMAIN c.scenarios}

\* The scenarios shuffled together with one, by their place in the options: those
\* of its node count, for persistent clusters; the other modes mix them all.
Mixed(c, s) ==
    {t \in DOMAIN c.scenarios :
        c.mode = "persistent" => Size[c.scenarios[t]] = Size[c.scenarios[s]]}

\* The round of run i: how often those it is mixed with have had their turn.
Round(c, p, i) ==
    Cardinality({j \in 1 .. i - 1 : p[j] \in Mixed(c, p[i])}) \div Cardinality(Mixed(c, p[i]))

\* Each round goes through the scenarios in an order of its own, and persistent
\* clusters of one node count come after the other.
Orders(c) ==
    LET k == c.warmups + c.repetitions
        n == k * Len(c.scenarios)
    IN  {p \in [1 .. n -> DOMAIN c.scenarios] :
            /\ \A i \in 1 .. n : Round(c, p, i) < k
            /\ \A i, j \in 1 .. n :
                 /\ i < j /\ c.mode = "persistent" =>
                      Size[c.scenarios[p[i]]] <= Size[c.scenarios[p[j]]]
                 /\ i < j /\ p[i] = p[j] => Round(c, p, i) < Round(c, p, j)}

\* persistentSpecs, and the loops of the other modes: first the warmups.
Plans(c) ==
    {[i \in DOMAIN p |->
        [scenario |-> c.scenarios[p[i]],
         phase |-> IF Round(c, p, i) < c.warmups THEN "warmup" ELSE "measured"]] :
     p \in Orders(c)}

plan == campaign.plan
Persistent == campaign.mode = "persistent"
Isolated == campaign.mode = "isolated"

First(S) == CHOOSE i \in S : \A j \in S : i <= j

\* The scenarios of a node count, by their place in the options.
Group(size) == {i \in DOMAIN campaign.scenarios : Size[campaign.scenarios[i]] = size}

\* Those that a recovery has still to get through.
Unproven == Group(Size[plan[at].scenario]) \ cluster.passed

\* What is run now: a scenario of the group that the recovery goes through, or
\* the next of the plan.
Present ==
    IF cluster.recovering
    THEN [scenario |-> campaign.scenarios[First(Unproven)], phase |-> "recovery"]
    ELSE plan[at]

Nodes == 1 .. Size[Present.scenario]

-----------------------------------------------------------------------------
(* The nodes.                                                              *)

Fresh(n, slot) ==
    [i \in 1 .. n |-> [slot |-> slot, phase |-> "prepared", limited |-> FALSE, value |-> None]]

\* A slot is replaced when it has ended and its trace is final; the one that the
\* node was started with is only given its proposal limit.
Prepares(nd, slot) ==
    \/ nd.slot = slot /\ nd.phase = "prepared" /\ ~nd.limited
    \/ nd.slot < slot /\ nd.phase \in {"finalized", "failed"}

\* The request of a stage is answered with 200.
Accepts(nd, stage, slot) ==
    CASE stage = "prepare" -> Prepares(nd, slot)
      [] stage = "submit" -> nd.slot = slot /\ nd.phase = "prepared"
      [] stage = "start" -> nd.slot = slot /\ nd.phase # "down"

\* What the node may be after the request.  A start that finds the slot started
\* or ended does nothing.
Handled(nd, stage, slot) ==
    IF ~Accepts(nd, stage, slot) THEN {nd}
    ELSE CASE stage = "prepare" ->
                {[slot |-> slot, phase |-> "prepared", limited |-> TRUE, value |-> None]}
           [] stage = "submit" -> {nd}
           [] stage = "start" ->
                IF nd.phase = "prepared"
                THEN {[nd EXCEPT !.phase = p] : p \in {"running", "failed"}}
                ELSE {nd}

\* A node that was not started ends its slot too, with what the others send it.
Involved(n) ==
    \/ node[n].phase = "running"
    \/ /\ node[n].phase = "prepared"
       /\ \E m \in DOMAIN node : node[m].slot = node[n].slot
                              /\ node[m].phase \in {"running", "completed", "finalized"}

\* The slot of a node ends; with a trace, the result is not final at once.
SlotEnds(n) ==
    /\ \/ /\ Involved(n)
          /\ \/ \E v \in Value, p \in {"completed", "finalized"} :
                  node' = [node EXCEPT ![n].phase = p, ![n].value = v]
             \/ node' = [node EXCEPT ![n].phase = "failed"]
       \/ /\ node[n].phase = "completed"
          /\ node' = [node EXCEPT ![n].phase = "finalized"]
    /\ UNCHANGED <<campaign, at, nextSlot, cluster, late, pc, todo, err, expired,
                   results, runs, manifest>>

\* The process of a node ends.
Dies(n) ==
    /\ node[n].phase # "down"
    /\ node' = [node EXCEPT ![n].phase = "down"]
    /\ UNCHANGED <<campaign, at, nextSlot, cluster, late, pc, todo, err, expired,
                   results, runs, manifest>>

\* A node handles a request that nobody waits for any more.
HandlesLate(r) ==
    /\ late' = late \ {r}
    /\ \E nd \in Handled(node[r.node], r.stage, r.slot) : node' = [node EXCEPT ![r.node] = nd]
    /\ UNCHANGED <<campaign, at, nextSlot, cluster, pc, todo, err, expired,
                   results, runs, manifest>>

-----------------------------------------------------------------------------
(* One run: prepare, submit and start on all nodes, then poll.             *)

\* The stage begins: the nodes it posts to.  A sidecar serves the transactions
\* of a corpus, so that nothing is submitted; runLocalExperiment knows of no
\* source and submits synthetic transactions whatever the options say.
Asked(stage, all) ==
    IF stage = "submit" /\ ~Isolated /\ campaign.source # "synthetic" THEN {} ELSE all

EnterStage(stage, all) ==
    /\ pc' = stage
    /\ todo' = Asked(stage, all)

Following == [prepare |-> "submit", submit |-> "start", start |-> "poll"]

\* The next slot, on the nodes that are there.
BeginSlot ==
    /\ pc = "cluster"
    /\ at <= Len(plan)
    /\ ~Isolated
    /\ Persistent => cluster.up
    /\ EnterStage("prepare", Nodes)
    /\ err' = "none" /\ results' = <<>> /\ expired' = FALSE
    /\ UNCHANGED <<campaign, at, nextSlot, cluster, node, late, runs, manifest>>

\* runLocalExperiment: a cluster of its own for the run, at the default slot.
runLocalExperiment ==
    /\ pc = "cluster"
    /\ at <= Len(plan)
    /\ Isolated
    /\ late' = {}
    /\ results' = <<>> /\ expired' = FALSE
    /\ \/ /\ node' = Fresh(Size[Present.scenario], nextSlot)
          /\ EnterStage("submit", Nodes)
          /\ err' = "none"
       \/ /\ node' = <<>> /\ pc' = "record" /\ todo' = {} /\ err' = "failed"
    /\ UNCHANGED <<campaign, at, nextSlot, cluster, runs, manifest>>

\* parallelNodes: a request of the stage is answered, or the client gives it up
\* and the node may handle it afterwards.  The first error is the stage's.
Post(n) ==
    /\ pc \in DOMAIN Following
    /\ n \in todo
    /\ todo' = todo \ {n}
    /\ \/ /\ \E nd \in Handled(node[n], pc, nextSlot) : node' = [node EXCEPT ![n] = nd]
          /\ err' = IF err = "none" /\ ~Accepts(node[n], pc, nextSlot) THEN "failed" ELSE err
          /\ UNCHANGED late
       \/ /\ node[n].phase # "down"
          /\ err' = IF err = "none" THEN "timeout" ELSE err
          /\ late' = late \union
                       (IF pc = "submit" THEN {} ELSE {[node |-> n, stage |-> pc, slot |-> nextSlot]})
          /\ UNCHANGED node
    /\ UNCHANGED <<campaign, at, nextSlot, cluster, pc, expired, results, runs, manifest>>

\* All have answered: an error ends the run.
StageEnds ==
    /\ pc \in DOMAIN Following
    /\ todo = {}
    /\ IF err = "none" THEN EnterStage(Following[pc], Nodes) ELSE pc' = "record" /\ UNCHANGED todo
    /\ UNCHANGED <<campaign, at, nextSlot, cluster, node, late, err, expired, results, runs,
                   manifest>>

DeadlinePasses ==
    /\ pc = "poll" /\ ~expired
    /\ expired' = TRUE
    /\ UNCHANGED <<campaign, at, nextSlot, cluster, node, late, pc, todo, err, results, runs,
                   manifest>>

\* A final result counts.
Collect(n) ==
    /\ results' = Append(results, [node |-> n, slot |-> node[n].slot, value |-> node[n].value])
    /\ todo' = todo \ {n}
    /\ UNCHANGED <<pc, err>>

\* A failed slot ends the run.
TerminalFailure ==
    /\ err' = "terminal" /\ pc' = "record" /\ todo' = {}
    /\ UNCHANGED results

\* So does an answer of a slot that ended which cannot be decoded (cut short) or
\* is no failure of this slot.
InvalidAnswer(n) ==
    /\ node[n].phase \in {"completed", "finalized", "failed"}
    /\ err' = "failed" /\ pc' = "record" /\ todo' = {}
    /\ UNCHANGED results

\* pollResultsOnce asks the nodes in turn for their result of the slot; whatever
\* else a node says, and no answer, leave it missing in this round.
pollResultsOnce ==
    /\ pc = "poll" /\ ~Isolated
    /\ todo # {}
    /\ LET n == First(todo) IN
         \/ node[n].slot = nextSlot /\ node[n].phase = "finalized" /\ Collect(n)
         \/ node[n].slot = nextSlot /\ node[n].phase = "failed" /\ TerminalFailure
         \/ InvalidAnswer(n)
         \/ todo' = todo \ {n} /\ UNCHANGED <<pc, err, results>>
    /\ UNCHANGED <<campaign, at, nextSlot, cluster, node, late, expired, runs, manifest>>

\* pollResults of the isolated mode asks for the node's only slot, and gives the
\* round up at the first node without a final result.
pollResults ==
    /\ pc = "poll" /\ Isolated
    /\ todo # {}
    /\ LET n == First(todo) IN
         \/ node[n].phase = "finalized" /\ Collect(n)
         \/ node[n].phase = "failed" /\ TerminalFailure
         \/ InvalidAnswer(n)
         \/ todo' = {} /\ UNCHANGED <<pc, err, results>>
    /\ UNCHANGED <<campaign, at, nextSlot, cluster, node, late, expired, runs, manifest>>

\* receivedTxCount: in a corpus run the selected ciphertexts are counted, by
\* runSlot and runRemoteSlot and not by runLocalExperiment.
CountMismatch ==
    /\ campaign.source = "mock-encrypted-corpus" /\ ~Isolated
    /\ \E i \in DOMAIN results : results[i].value \notin Exact

\* Variant for mutation: the results of a round are kept for the next one.
SweepEndsKeeping ==
    /\ pc = "poll"
    /\ todo = {}
    /\ \/ /\ Len(results) >= Cardinality(Nodes)
          /\ pc' = "record"
          /\ err' = IF CountMismatch THEN "count" ELSE err
          /\ UNCHANGED <<todo, results>>
       \/ /\ Len(results) < Cardinality(Nodes) /\ expired
          /\ pc' = "record" /\ err' = "timeout"
          /\ UNCHANGED <<todo, results>>
       \/ /\ Len(results) < Cardinality(Nodes) /\ ~expired
          /\ todo' = Nodes
          /\ UNCHANGED <<pc, err, results>>
    /\ UNCHANGED <<campaign, at, nextSlot, cluster, node, late, expired, runs, manifest>>

\* Variant for mutation: nobody looks at the deadline.
SweepEndsNoDeadline ==
    /\ pc = "poll"
    /\ todo = {}
    /\ \/ /\ Len(results) = Cardinality(Nodes)
          /\ pc' = "record"
          /\ err' = IF CountMismatch THEN "count" ELSE err
          /\ UNCHANGED <<todo, results>>
       \/ /\ Len(results) # Cardinality(Nodes)
          /\ todo' = Nodes /\ results' = <<>>
          /\ UNCHANGED <<pc, err>>
    /\ UNCHANGED <<campaign, at, nextSlot, cluster, node, late, expired, runs, manifest>>

\* pollResultsForSlotWithURL: a round over the nodes is complete, or the
\* deadline has passed, or it is repeated.
SweepEnds ==
    /\ pc = "poll"
    /\ todo = {}
    /\ \/ /\ Len(results) = Cardinality(Nodes)
          /\ pc' = "record"
          /\ err' = IF CountMismatch THEN "count" ELSE err
          /\ UNCHANGED <<todo, results>>
       \/ /\ Len(results) # Cardinality(Nodes) /\ expired
          /\ pc' = "record" /\ err' = "timeout"
          /\ UNCHANGED <<todo, results>>
       \/ /\ Len(results) # Cardinality(Nodes) /\ ~expired
          /\ todo' = Nodes /\ results' = <<>>
          /\ UNCHANGED <<pc, err>>
    /\ UNCHANGED <<campaign, at, nextSlot, cluster, node, late, expired, runs, manifest>>

-----------------------------------------------------------------------------
(* Recording a run and what follows from it.                               *)

resultsConsistent ==
    results # <<>> /\ \A i \in DOMAIN results : results[i].value = results[1].value

Success == err = "none" /\ resultsConsistent

\* classifyRunOutcome
Outcome ==
    CASE Success -> "completed"
      [] ~Success /\ err = "timeout" -> "timed_out"
      [] OTHER -> "failed"

\* shouldRecoverPersistentCluster
ShouldRecover == err \notin {"none", "timeout", "terminal"}

Run ==
    [scenario |-> Present.scenario, phase |-> Present.phase, outcome |-> Outcome,
     slot |-> nextSlot, generation |-> cluster.generation]

NoCluster ==
    [up |-> FALSE, generation |-> 0, failures |-> 0, recovering |-> FALSE, passed |-> {}]

Close == node' = <<>> /\ late' = {}

\* The campaign goes on, or too many generations have failed in a row.
Continue(failures) == pc' = IF failures >= MaxRestarts THEN "aborted" ELSE "cluster"

\* Variant for mutation: one good run is recovery enough.
RecoveryRunsOnce ==
    IF Outcome = "completed"
    THEN /\ cluster' = [cluster EXCEPT !.recovering = FALSE, !.passed = {}, !.failures = 0]
         /\ pc' = "cluster"
         /\ UNCHANGED <<node, late>>
    ELSE /\ cluster' = [cluster EXCEPT !.up = FALSE, !.failures = @ + 1]
         /\ Continue(cluster.failures + 1)
         /\ Close

\* A recovery run: the cluster has to get through the whole group.
RecoveryRun ==
    IF Outcome = "completed"
    THEN /\ cluster' =
              IF Unproven # {First(Unproven)}
              THEN [cluster EXCEPT !.passed = @ \union {First(Unproven)}]
              ELSE [cluster EXCEPT !.recovering = FALSE, !.passed = {}, !.failures = 0]
         /\ pc' = "cluster"
         /\ UNCHANGED <<node, late>>
    ELSE /\ cluster' = [cluster EXCEPT !.up = FALSE, !.failures = @ + 1]
         /\ Continue(cluster.failures + 1)
         /\ Close

\* The group of the next planned run is another one, or there is none.
GroupEnds == at = Len(plan) \/ Size[plan[at + 1].scenario] # Size[plan[at].scenario]

\* A planned run of a persistent cluster is recorded once, whatever came of it;
\* a cluster that could not be used is replaced before the next.
PlannedRun ==
    LET failures == IF ShouldRecover THEN cluster.failures + 1 ELSE 0
    IN  /\ Continue(failures)
        /\ cluster' =
             IF failures < MaxRestarts /\ GroupEnds THEN NoCluster
             ELSE [cluster EXCEPT !.up = ~ShouldRecover, !.recovering = ShouldRecover,
                                  !.failures = failures]
        /\ IF ShouldRecover \/ GroupEnds THEN Close ELSE UNCHANGED <<node, late>>

\* Variant for mutation: a run the cluster could not take is made up for.
RecordRepeats ==
    /\ pc = "record"
    /\ runs' = Append(runs, Run)
    /\ nextSlot' = IF Isolated THEN nextSlot ELSE nextSlot + 1
    /\ at' = IF cluster.recovering \/ (Persistent /\ ShouldRecover) THEN at ELSE at + 1
    /\ \/ Persistent /\ cluster.recovering /\ RecoveryRun
       \/ Persistent /\ ~cluster.recovering /\ PlannedRun
       \/ Isolated /\ Close /\ pc' = "cluster" /\ UNCHANGED cluster
       \/ campaign.mode = "remote" /\ pc' = "cluster" /\ UNCHANGED <<cluster, node, late>>
    /\ results' = <<>> /\ err' = "none" /\ expired' = FALSE /\ todo' = {}
    /\ UNCHANGED <<campaign, manifest>>

\* recordRun and the rest of the loop's body: of evalSuite, of runPersistentSuite
\* and of evalRemote.
recordRun ==
    /\ pc = "record"
    /\ runs' = Append(runs, Run)
    /\ nextSlot' = IF Isolated THEN nextSlot ELSE nextSlot + 1
    /\ at' = IF cluster.recovering THEN at ELSE at + 1
    /\ \/ Persistent /\ cluster.recovering /\ RecoveryRun
       \/ Persistent /\ ~cluster.recovering /\ PlannedRun
       \/ Isolated /\ Close /\ pc' = "cluster" /\ UNCHANGED cluster
       \/ campaign.mode = "remote" /\ pc' = "cluster" /\ UNCHANGED <<cluster, node, late>>
    /\ results' = <<>> /\ err' = "none" /\ expired' = FALSE /\ todo' = {}
    /\ UNCHANGED <<campaign, manifest>>

\* The run cannot be written.  runPersistentSuite stops and the manifest is
\* finished; the other loops return at once and leave it as it is.
recordRunFails ==
    /\ pc = "record"
    /\ runs' = Append(runs, Run)
    /\ pc' = IF Persistent THEN "aborted" ELSE "done"
    /\ Close
    /\ UNCHANGED <<campaign, at, nextSlot, cluster, todo, err, expired, results, manifest>>

-----------------------------------------------------------------------------
(* The persistent cluster, and the end.                                    *)

\* startCluster
startCluster ==
    /\ pc = "cluster"
    /\ at <= Len(plan)
    /\ Persistent /\ ~cluster.up
    /\ cluster' = [cluster EXCEPT !.up = TRUE, !.generation = @ + 1, !.passed = {}]
    /\ node' = Fresh(Size[plan[at].scenario], nextSlot)
    /\ late' = {}
    /\ UNCHANGED <<campaign, at, nextSlot, pc, todo, err, expired, results, runs, manifest>>

\* Variant for mutation: only failures of the cluster to run count.
StartFailsUncounted ==
    /\ pc = "cluster"
    /\ at <= Len(plan)
    /\ Persistent /\ ~cluster.up
    /\ cluster' = [cluster EXCEPT !.generation = @ + 1]
    /\ Continue(cluster.failures)
    /\ UNCHANGED <<campaign, at, nextSlot, node, late, todo, err, expired, results, runs, manifest>>

startClusterFails ==
    /\ pc = "cluster"
    /\ at <= Len(plan)
    /\ Persistent /\ ~cluster.up
    /\ cluster' = [cluster EXCEPT !.generation = @ + 1, !.failures = @ + 1]
    /\ Continue(cluster.failures + 1)
    /\ UNCHANGED <<campaign, at, nextSlot, node, late, todo, err, expired, results, runs, manifest>>

PlannedRuns == {i \in DOMAIN runs : runs[i].phase # "recovery"}

suiteCollectionComplete == Cardinality(PlannedRuns) = Len(plan)

\* summarizeScenarios: the measured runs of a scenario by outcome, and those
\* whose latencies are kept.
summarizeScenarios ==
    LET measured(s) == {i \in DOMAIN runs : runs[i].phase = "measured" /\ runs[i].scenario = s}
    IN  [s \in Scenarios(campaign) |->
           [attempted |-> Cardinality(measured(s)),
            latencies |-> {i \in measured(s) : runs[i].outcome = "completed"}]]

\* The outputs are written and the manifest is finished, or an output cannot be
\* written and the manifest goes on saying that the campaign runs.
Finish ==
    /\ pc = "aborted" \/ (pc = "cluster" /\ at > Len(plan))
    /\ pc' = "done"
    /\ \/ manifest' = [status |-> IF pc # "aborted" /\ suiteCollectionComplete
                                  THEN "complete" ELSE "invalid",
                       summary |-> summarizeScenarios]
       \/ UNCHANGED manifest
    /\ UNCHANGED <<campaign, at, nextSlot, cluster, node, late, todo, err, expired, results, runs>>

-----------------------------------------------------------------------------
Init ==
    /\ \E c \in Campaign : \E p \in Plans(c) :
         campaign = [mode |-> c.mode, source |-> c.source, scenarios |-> c.scenarios,
                     repetitions |-> c.repetitions, plan |-> p]
    /\ at = 1
    /\ nextSlot = 1
    /\ cluster = NoCluster
    /\ node = IF campaign.mode = "remote" THEN Fresh(Size[campaign.scenarios[1]], 1) ELSE <<>>
    /\ late = {}
    /\ pc = "cluster" /\ todo = {} /\ err = "none" /\ expired = FALSE /\ results = <<>>
    /\ runs = <<>>
    /\ manifest = [status |-> "running", summary |-> None]

\* The evaluator never waits for a node for ever: requests time out and a poll
\* has a deadline.
Evaluator ==
    \/ startCluster \/ startClusterFails
    \/ BeginSlot \/ runLocalExperiment
    \/ \E n \in todo : Post(n)
    \/ StageEnds
    \/ pollResultsOnce \/ pollResults \/ SweepEnds
    \/ recordRun \/ recordRunFails
    \/ Finish

Next ==
    \/ Evaluator
    \/ DeadlinePasses
    \/ \E n \in DOMAIN node : SlotEnds(n) \/ Dies(n)
    \/ \E r \in late : HandlesLate(r)

Spec == Init /\ [][Next]_vars /\ WF_vars(Evaluator) /\ WF_vars(DeadlinePasses)

-----------------------------------------------------------------------------
(* Properties.                                                             *)

\* The planned run that run i is: how many were retained up to it.
Rank(i) == Cardinality({j \in PlannedRuns : j <= i})

\* The summary of a complete campaign counts the repetitions of each scenario, as
\* often as the options name it, and neither warmups nor recoveries; it takes
\* latencies from completed measured runs alone (summarizeScenarios).
SummaryExact ==
    manifest.status = "complete" =>
      \A s \in Scenarios(campaign) :
        /\ manifest.summary[s].attempted =
             campaign.repetitions
               * Cardinality({i \in DOMAIN campaign.scenarios : campaign.scenarios[i] = s})
        /\ \A i \in manifest.summary[s].latencies :
             runs[i].phase = "measured" /\ runs[i].outcome = "completed"

\* Every planned run is retained once, in the order of the plan and whatever its
\* outcome, between recovery runs that do not count; no slot is used twice; and a
\* manifest is complete only with the whole plan and a summary of just its
\* repetitions (evalSuite, runPersistentSuite, evalRemote, summarizeScenarios).
RetainedInOrder ==
    /\ \A i \in PlannedRuns :
         /\ Rank(i) \in DOMAIN plan
         /\ runs[i].scenario = plan[Rank(i)].scenario
         /\ runs[i].phase = plan[Rank(i)].phase
    /\ ~Isolated => \A i, j \in DOMAIN runs : i < j => runs[i].slot < runs[j].slot
    /\ manifest.status = "complete" => Cardinality(PlannedRuns) = Len(plan)
    /\ SummaryExact

\* A run counts as completed only with one result of every node, all of the
\* run's own slot and all the same, however late requests, dying nodes and
\* repeated polls are interleaved; of a corpus, with exactly as many ciphertexts
\* as the scenario asks for, except in a cluster of the run's own, where nobody
\* counts them (runSlot, runRemoteSlot, runLocalExperiment, pollResultsOnce).
Attributable ==
    pc = "record" /\ Outcome = "completed" =>
      /\ {results[i].node : i \in DOMAIN results} = Nodes
      /\ \A i \in DOMAIN results :
           results[i].slot = nextSlot /\ results[i].value = results[1].value
      /\ campaign.source = "mock-encrypted-corpus" /\ ~Isolated => results[1].value \in Exact

\* Two planned runs of one group are on different generations of the cluster
\* only if the later generation completed a recovery run of every scenario of
\* the group in between (runPersistentSuite).
CleanCluster ==
    \A i, j \in DOMAIN runs :
      /\ i < j
      /\ runs[i].phase # "recovery" /\ runs[j].phase # "recovery"
      /\ Size[runs[i].scenario] = Size[runs[j].scenario]
      /\ runs[i].generation < runs[j].generation
      => \A s \in Group(Size[runs[i].scenario]) :
           \E k \in i .. j : /\ runs[k].phase = "recovery"
                             /\ runs[k].scenario = campaign.scenarios[s]
                             /\ runs[k].generation = runs[j].generation
                             /\ runs[k].outcome = "completed"

\* While a campaign goes on, the generations of a group without a planned run in
\* between are at most MaxRestarts: a cluster that fails to start, or fails every
\* recovery, does not keep the campaign going (runPersistentSuite).
RestartBudget ==
    Persistent /\ at <= Len(plan) /\ pc \notin {"aborted", "done"} =>
      LET used == {runs[i].generation :
                     i \in {i \in DOMAIN runs : /\ runs[i].phase # "recovery"
                                                /\ Size[runs[i].scenario] = Size[plan[at].scenario]}}
      IN  cluster.generation > MaxRestarts =>
            \E g \in used : g >= cluster.generation - MaxRestarts

\* A campaign ends, whatever becomes of the nodes (evalSuite, evalRemote).
CampaignEnds == <>(pc = "done")
=============================================================================
