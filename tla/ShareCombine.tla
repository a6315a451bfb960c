---------------------------- MODULE ShareCombine ----------------------------
(***************************************************************************)
(* From the ACS output of one slot to its outcome at one node              *)
(* (bloc-node/internal/app/node.go, with the bounded share combination of  *)
(* bte/btd-impl-main/be/cluster.go).  Handlers run concurrently: each      *)
(* section under slotState.mu is one step.  A handler that is about to     *)
(* call tryCombine is counted in waking.                                   *)
(*                                                                         *)
(* A share is named by what tells it apart: its operator, its batch        *)
(* identity, its sub-batch, and whether its point is the right one.        *)
(***************************************************************************)
EXTENDS Integers, FiniteSets

CONSTANTS
    Operator,     \* operator ids, integers: combinations are tried in their order
    Self,         \* this node's id
    Faulty,       \* operators whose shares may be anything
    FaultyShare,  \* the shares they may send
    Planned,      \* the identity of the batch every correct node plans
    Batch,        \* identities shares may carry
    Alpha,        \* len(plan.SubBatches)
    BMax,         \* sub-batch ids that addWireShare admits
    Threshold,    \* cfg.Threshold
    MaxAttempts,  \* cfg.Limits.MaxCombineAttemptsPerSubBatch
    MaxWaking,    \* bound: handlers about to call tryCombine at a time
    None

SubBatch == 0 .. Alpha - 1

Share == [op : Operator, batch : Batch, sub : 0 .. BMax - 1, right : BOOLEAN]

RightShare(op, k) == [op |-> op, batch |-> Planned, sub |-> k, right |-> TRUE]

\* What may arrive: the shares of correct peers, and anything from the others.
Sendable ==
    {RightShare(op, k) : op \in Operator \ (Faulty \union {Self}), k \in SubBatch}
        \union FaultyShare

ASSUME OperatorAssumption ==
    /\ Operator \subseteq Nat
    /\ IsFiniteSet(Operator)
    /\ Self \in Operator \ Faulty
    /\ Planned \in Batch

\* Validated before addShare: the envelope's sender is the share's operator.
ASSUME ShareAssumption ==
    \A s \in FaultyShare : s \in Share /\ s.op \in Faulty \ {Self}

ASSUME SizeAssumption ==
    /\ Alpha \in Nat \ {0}
    /\ BMax \in Nat /\ Alpha <= BMax
    /\ Threshold \in Nat \ {0}
    /\ MaxAttempts \in Nat \ {0}
    /\ MaxWaking \in Nat \ {0}

VARIABLES
    phase,                \* slotState.phase
    result,               \* n.result # nil
    failure,              \* n.failure # nil
    ended,                \* what the slot added to completedSlots and failedSlots
    starting,             \* startConsensus: "idle", "building" or "done"
    plan,                 \* None, "empty" or "full"; n.planned is plan # None
    opens,                \* the sub-batches whose ciphertexts all open under right
                          \* shares; what was encrypted does not change
    shareGenerationDone,
    shares,               \* the retained shares, n.shareCandidates
    shareVersion,
    combineInFlight,
    combineAttemptsLeft,
    acs,                  \* the handler of the ACS output, see below
    made,                 \* the sub-batches it has made shares of
    waking,               \* handlers about to call tryCombine
    attempt,              \* the combination being computed, or None
    arrived,              \* history: shares that reached addShare
    spent                 \* history: subsets tried per sub-batch

outcome == <<phase, result, failure, ended>>
handlers == <<starting, acs, made>>
retained == <<shares, shareVersion, arrived>>
combining == <<combineInFlight, combineAttemptsLeft, attempt, spent>>
vars == <<outcome, handlers, plan, opens, shareGenerationDone, retained, waking, combining>>

\* combineAttempt, and how far it got.
Attempt ==
    [stage : {"running", "succeeded", "failed"}, shares : SUBSET Share,
     version : Nat, limits : [SubBatch -> Nat]]

ASSUME NoneAssumption == None \notin {"empty", "full"} /\ None \notin Attempt

TypeOK ==
    /\ phase \in {"prepared", "running", "completed", "failed"}
    /\ result \in BOOLEAN /\ failure \in BOOLEAN /\ ended \in Nat
    /\ starting \in {"idle", "building", "done"}
    /\ plan \in {None, "empty", "full"}
    /\ opens \subseteq SubBatch
    /\ shareGenerationDone \in BOOLEAN
    /\ shares \subseteq Share /\ arrived \subseteq Share
    /\ shareVersion \in Nat
    /\ combineInFlight \in BOOLEAN
    /\ combineAttemptsLeft \in [SubBatch -> Nat]
    /\ spent \in [SubBatch -> Nat]
    /\ acs \in {"idle", "decided", "sharing", "done"}
    /\ made \in 0 .. Alpha
    /\ waking \in Nat
    /\ attempt = None \/ attempt \in Attempt

-----------------------------------------------------------------------------
(***************************************************************************)
(* The combinations of one sub-batch, be/cluster.go.  Threshold subsets of *)
(* the operators are tried in lexicographic order; a subset decrypts if    *)
(* all its shares are right and every ciphertext opens under them: a       *)
(* single one that does not makes every subset fail.                       *)
(***************************************************************************)
Least(S) == CHOOSE i \in S : \A j \in S : i <= j

Candidates(S, k) == {s.op : s \in {t \in S : t.sub = k}}

Right(S, k) == {s.op : s \in {t \in S : t.sub = k /\ t.right}}

Subsets(ops) == {A \in SUBSET ops : Cardinality(A) = Threshold}

\* forEachShareCombination visits A before B.
Precedes(A, B) == A # B /\ Least((A \ B) \union (B \ A)) \in A

\* The subsets that decrypt.
Decrypting(S, k) == {A \in Subsets(Right(S, k)) : k \in opens}

\* The subsets visited up to and including the first one that decrypts.
Visited(S, k) ==
    {A \in Subsets(Candidates(S, k)) : ~ \E B \in Decrypting(S, k) : Precedes(B, A)}

\* combineSubBatch: the subsets it tries, and whether one decrypts.
Attempts(S, k, limit) ==
    IF Cardinality(Visited(S, k)) <= limit THEN Cardinality(Visited(S, k)) ELSE limit

Decrypts(S, k, limit) ==
    Decrypting(S, k) # {} /\ Cardinality(Visited(S, k)) <= limit

\* CombineSharesBounded: sub-batches in order, up to the first that fails.
AttemptsBySubBatch(S, limits) ==
    [k \in SubBatch |->
        IF \E j \in SubBatch : j < k /\ ~Decrypts(S, j, limits[j])
        THEN 0
        ELSE Attempts(S, k, limits[k])]

\* Variant for mutation: what could be decrypted is returned.
CombinesSome(S, limits) == \E k \in SubBatch : Decrypts(S, k, limits[k])

Combines(S, limits) == \A k \in SubBatch : Decrypts(S, k, limits[k])

-----------------------------------------------------------------------------
\* The first terminal outcome stands.
markSlotFailed ==
    LET first == ~result /\ ~failure
    IN  /\ failure' = (failure \/ first)
        /\ phase' = IF first THEN "failed" ELSE phase
        /\ ended' = IF first THEN ended + 1 ELSE ended
        /\ UNCHANGED result

\* Variant for mutation: a late result is stored whatever came before.
storeResultAlways ==
    /\ result' = TRUE
    /\ phase' = "completed"
    /\ ended' = ended + 1
    /\ UNCHANGED failure

storeResult ==
    LET first == ~result /\ ~failure
    IN  /\ result' = (result \/ first)
        /\ phase' = IF first THEN "completed" ELSE phase
        /\ ended' = IF first THEN ended + 1 ELSE ended
        /\ UNCHANGED failure

(***************************************************************************)
(* addShare.  Before the plan an operator is held to its first batch       *)
(* identity, afterwards to the plan's; the first point stands.  The        *)
(* capacity N * BMax cannot be exceeded: there is one share per operator   *)
(* and sub-batch.                                                          *)
(***************************************************************************)
Of(op) == {s \in shares : s.op = op}

Matches(s) ==
    /\ plan # None => plan = "full" /\ s.batch = Planned /\ s.sub \in SubBatch
    /\ \A t \in Of(s.op) : t.batch = s.batch

Repeated(s) == s \in shares

Conflicting(s) == \E t \in Of(s.op) : t.sub = s.sub /\ t # s

addShare(s) ==
    LET new == Matches(s) /\ ~Repeated(s) /\ ~Conflicting(s)
    IN  /\ shares' = IF new THEN shares \union {s} ELSE shares
        /\ shareVersion' = IF new THEN shareVersion + 1 ELSE shareVersion
        /\ arrived' = arrived \union {s}

\* addShare returned without an error.
Admitted(s) == Matches(s) /\ ~Conflicting(s)

\* Variant for mutation: an operator is pruned by its first share's sub-batch.
pruneFirst ==
    {s \in shares : /\ s.batch = Planned /\ s.sub \in SubBatch
                    /\ \A t \in Of(s.op) : t.sub = s.sub}

\* pruneShareCandidatesLocked.
prune == {s \in shares : s.batch = Planned /\ s.sub \in SubBatch}

-----------------------------------------------------------------------------
(***************************************************************************)
(* startConsensus: the slot runs unless it already ended; building or      *)
(* inputting the proposal may fail while messages are handled.             *)
(***************************************************************************)
startConsensus ==
    /\ starting = "idle"
    /\ IF result \/ failure
       THEN starting' = "done" /\ UNCHANGED phase
       ELSE starting' = "building" /\ phase' = "running"
    /\ UNCHANGED <<result, failure, ended, acs, made, plan, opens, shareGenerationDone,
                   retained, waking, combining>>

inputProposal ==
    /\ starting = "building"
    /\ starting' = "done"
    /\ markSlotFailed \/ UNCHANGED outcome
    /\ UNCHANGED <<acs, made, plan, opens, shareGenerationDone, retained, waking, combining>>

\* stepACS returns the output of the slot, once, to a message or to the start.
receiveOutput ==
    /\ acs = "idle"
    /\ acs' = "decided"
    /\ UNCHANGED <<outcome, starting, made, plan, opens, shareGenerationDone, retained,
                   waking, combining>>

\* handleACSOutput fails on the accepted lists, the ciphertexts or the plan, ...
failOutput ==
    /\ acs = "decided"
    /\ acs' = "done"
    /\ markSlotFailed
    /\ UNCHANGED <<starting, made, plan, opens, shareGenerationDone, retained, waking,
                   combining>>

\* ... or selects nothing (finishEmptyMaterializedSet), ...
finishEmptyMaterializedSet ==
    /\ acs = "decided"
    /\ acs' = "done"
    /\ IF result \/ failure \/ plan # None
       THEN UNCHANGED <<outcome, plan>>
       ELSE plan' = "empty" /\ storeResult
    /\ UNCHANGED <<starting, made, opens, shareGenerationDone, retained, waking, combining>>

\* ... or stores the plan: shares of anything else are dropped.
storePlan ==
    /\ acs = "decided"
    /\ IF plan # None \/ failure
       THEN acs' = "done" /\ UNCHANGED <<plan, shares, combineAttemptsLeft>>
       ELSE /\ acs' = "sharing"
            /\ plan' = "full"
            /\ shares' = prune
            /\ combineAttemptsLeft' = [k \in SubBatch |-> MaxAttempts]
    /\ UNCHANGED <<outcome, starting, made, opens, shareGenerationDone, shareVersion,
                   arrived, waking, combineInFlight, attempt, spent>>

\* A share of its own per sub-batch; if it were refused, the handler would stop.
makeShare ==
    /\ acs = "sharing"
    /\ made < Alpha
    /\ LET s == RightShare(Self, made)
       IN  /\ addShare(s)
           /\ IF Admitted(s) THEN made' = made + 1 /\ UNCHANGED acs
              ELSE acs' = "done" /\ UNCHANGED made
    /\ UNCHANGED <<outcome, starting, plan, opens, shareGenerationDone, waking, combining>>

\* MakeShare fails before a share is added, or marshalShare after it.
failShare ==
    /\ acs = "sharing"
    /\ acs' = "done"
    /\ markSlotFailed
    /\ UNCHANGED <<starting, made, plan, opens, shareGenerationDone, retained, waking,
                   combining>>

\* Variant for mutation: the handler ends without trying to combine.
finishSharesSilently ==
    /\ acs = "sharing"
    /\ made = Alpha
    /\ acs' = "done"
    /\ shareGenerationDone' = TRUE
    /\ UNCHANGED <<outcome, starting, made, plan, opens, retained, waking, combining>>

finishShares ==
    /\ acs = "sharing"
    /\ made = Alpha
    /\ acs' = "done"
    /\ shareGenerationDone' = TRUE
    /\ waking' = waking + 1
    /\ UNCHANGED <<outcome, starting, made, plan, opens, retained, combining>>

\* handleEnvelope of a share: addWireShare, then tryCombine unless refused.
receiveShare(s) ==
    /\ waking < MaxWaking
    /\ addShare(s)
    /\ waking' = IF Admitted(s) THEN waking + 1 ELSE waking
    /\ UNCHANGED <<outcome, handlers, plan, opens, shareGenerationDone, combining>>

-----------------------------------------------------------------------------
HasThreshold == \A k \in SubBatch : Cardinality(Candidates(shares, k)) >= Threshold

Claimable ==
    /\ ~result /\ ~failure
    /\ plan # None /\ shareGenerationDone
    /\ ~combineInFlight
    /\ HasThreshold
    /\ \A k \in SubBatch : combineAttemptsLeft[k] > 0

claimCombine ==
    /\ waking > 0
    /\ waking' = waking - 1
    /\ IF Claimable
       THEN /\ combineInFlight' = TRUE
            /\ attempt' = [stage |-> "running", shares |-> shares,
                           version |-> shareVersion, limits |-> combineAttemptsLeft]
       ELSE UNCHANGED <<combineInFlight, attempt>>
    /\ UNCHANGED <<outcome, handlers, plan, opens, shareGenerationDone, retained,
                   combineAttemptsLeft, spent>>

\* What is left of the budget, never below zero.
Charged(left, tried) ==
    [k \in SubBatch |-> IF tried[k] <= left[k] THEN left[k] - tried[k] ELSE 0]

\* CombineSharesBounded returns, and recordCombineStats.
recordCombineStats ==
    /\ attempt # None
    /\ attempt.stage = "running"
    /\ LET tried == AttemptsBySubBatch(attempt.shares, attempt.limits)
           ok == Combines(attempt.shares, attempt.limits)
       IN  /\ combineAttemptsLeft' = Charged(combineAttemptsLeft, tried)
           /\ spent' = [k \in SubBatch |-> spent[k] + tried[k]]
           /\ attempt' = [attempt EXCEPT !.stage =
                             IF ok THEN "succeeded" ELSE "failed"]
    /\ UNCHANGED <<outcome, handlers, plan, opens, shareGenerationDone, retained, waking,
                   combineInFlight>>

finishCombine ==
    /\ attempt # None
    /\ attempt.stage = "succeeded"
    /\ attempt' = None
    /\ combineInFlight' = FALSE
    /\ storeResult
    /\ UNCHANGED <<handlers, plan, opens, shareGenerationDone, retained, waking,
                   combineAttemptsLeft, spent>>

\* Variant for mutation: a failed attempt is never retried by itself.
RetryNever(version) == FALSE

\* Shares came in while the attempt was computed.
Retry(version) == ~result /\ ~failure /\ shareVersion > version

finishFailedCombine ==
    /\ attempt # None
    /\ attempt.stage = "failed"
    /\ attempt' = None
    /\ combineInFlight' = FALSE
    /\ waking' = IF Retry(attempt.version) THEN waking + 1 ELSE waking
    /\ UNCHANGED <<outcome, handlers, plan, opens, shareGenerationDone, retained,
                   combineAttemptsLeft, spent>>

-----------------------------------------------------------------------------
Init ==
    /\ phase = "prepared" /\ result = FALSE /\ failure = FALSE /\ ended = 0
    /\ starting = "idle" /\ acs = "idle" /\ made = 0
    /\ plan = None
    /\ opens \in SUBSET SubBatch
    /\ shareGenerationDone = FALSE
    /\ shares = {} /\ shareVersion = 0 /\ arrived = {}
    /\ waking = 0
    /\ combineInFlight = FALSE
    /\ combineAttemptsLeft = [k \in SubBatch |-> 0]
    /\ attempt = None
    /\ spent = [k \in SubBatch |-> 0]

Output ==
    \/ receiveOutput
    \/ failOutput
    \/ finishEmptyMaterializedSet
    \/ storePlan
    \/ makeShare
    \/ failShare
    \/ finishShares

Compute ==
    \/ recordCombineStats
    \/ finishCombine
    \/ finishFailedCombine

Next ==
    \/ startConsensus
    \/ inputProposal
    \/ Output
    \/ \E s \in Sendable : receiveShare(s)
    \/ claimCombine
    \/ Compute

Spec == Init /\ [][Next]_vars

\* Handlers run to their end; nothing is assumed of the arrival of shares.
FairSpec == Spec /\ WF_vars(claimCombine) /\ WF_vars(Compute)

-----------------------------------------------------------------------------
(***************************************************************************)
(* A slot ends once, as the phase says: neither the proposal failing while *)
(* a combination runs nor a late result replaces the first outcome, nor    *)
(* does a start reopen an ended slot (node.go:488-499, 959, 1302).         *)
(***************************************************************************)
OneOutcome ==
    /\ ~(result /\ failure)
    /\ result <=> phase = "completed"
    /\ failure <=> phase = "failed"
    /\ ended = IF result \/ failure THEN 1 ELSE 0

(***************************************************************************)
(* A right share that arrived is kept, however early it came and whatever  *)
(* else came, until the slot turns out to be empty: correct peers send     *)
(* each share once (node.go:1109-1133, 1195-1207).                         *)
(***************************************************************************)
RightSharesKept ==
    plan # "empty" =>
        \A op \in Operator \ Faulty, k \in SubBatch :
            RightShare(op, k) \in arrived => RightShare(op, k) \in shares

(***************************************************************************)
(* No wakeup is lost: shares that come in while a combination is computed  *)
(* or shares are still made are tried in the end.  Whenever nobody is      *)
(* going to call tryCombine though it would be admitted, there is nothing  *)
(* to decrypt with (node.go:794-804, 995-1008, 1042-1047).                 *)
(***************************************************************************)
NothingMissed ==
    waking = 0 /\ Claimable =>
        \E k \in SubBatch : Cardinality(Right(shares, k)) < Threshold \/ k \notin opens

(***************************************************************************)
(* "does not publish a successful result" (docs/ARCHITECTURE.md:199): the  *)
(* result of a batch rests, for every sub-batch, on a threshold of right   *)
(* shares of this batch and on ciphertexts that all open, though the       *)
(* attempt worked on a snapshot and its sub-batches succeed one by one     *)
(* (cluster.go:495-560, node.go:958).                                      *)
(***************************************************************************)
ResultBacked ==
    result /\ plan = "full" =>
        \A k \in SubBatch : Decrypting({s \in shares : s.batch = Planned}, k) # {}

(***************************************************************************)
(* "consumes a cumulative configured budget per sub-batch across retries"  *)
(* (docs/modules/bloc-node.md:482): the subsets tried and those left add   *)
(* up to it (node.go:1021-1037).                                           *)
(***************************************************************************)
BudgetHeld ==
    plan = "full" =>
        \A k \in SubBatch : spent[k] + combineAttemptsLeft[k] = MaxAttempts

(***************************************************************************)
(* The slot, whose plan, shares and combination handlers work on at the    *)
(* same time, is one of SlotOutcome: no result before the node's own       *)
(* shares are made, none in a slot that has failed meanwhile, and no plan  *)
(* after either (node.go:488-499, 769-804, 851, 958, 995, 1302).           *)
(***************************************************************************)
PlanState ==
    IF plan = None THEN "no" ELSE IF shareGenerationDone THEN "shared" ELSE "planned"

Promise == INSTANCE SlotOutcome WITH
    Slot <- {0},
    FirstSlot <- 0,
    slot <- 0,
    started <- starting # "idle",
    planned <- PlanState

KeepsPromise == Promise!Spec

(***************************************************************************)
(* With every share at hand a batch that opens ends the slot, or uses up a *)
(* budget (node.go:903-979).                                               *)
(***************************************************************************)
AllArrived ==
    /\ shareGenerationDone
    /\ \A k \in SubBatch : Cardinality(Right(shares, k)) >= Threshold /\ k \in opens

Concluded ==
    result \/ failure \/ \E k \in SubBatch : combineAttemptsLeft[k] = 0

Concludes == AllArrived ~> Concluded
=============================================================================
