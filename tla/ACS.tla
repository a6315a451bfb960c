-------------------------------- MODULE ACS --------------------------------
(***************************************************************************)
(* The asynchronous common subset of one slot (sbc/hbbft/acs.go) with its  *)
(* slot adapter (sbc/hbbft/bloc_slot.go) at every node: one reliable       *)
(* broadcast and one binary agreement per proposer, and the rules that     *)
(* connect them.                                                           *)
(*                                                                         *)
(* The two protocols are used as services with the properties that RBC and *)
(* BBA establish: a broadcast yields one batch, so the proposer's name     *)
(* stands for it, and an agreement yields one value, which some correct    *)
(* node put in.  A handler of acs.go is one step: ACS.run executes one at  *)
(* a time, and what it queues leaves when it has returned.                 *)
(***************************************************************************)
EXTENDS Integers, FiniteSets

CONSTANTS
    Node,       \* every participant, each the proposer of one instance
    Faulty,     \* the participants that need not follow the protocol
    Speaking,   \* the faulty ones whose broadcast may come out
    Malformed,  \* those among them whose batch does not decode
    F,          \* Config.F
    None,       \* nil, or a missing map entry
    Failed      \* the error of a batch that does not decode

N == Cardinality(Node)

Correct == Node \ Faulty

ASSUME NodeAssumption ==
    /\ IsFiniteSet(Node)
    /\ Faulty \subseteq Node
    /\ Speaking \subseteq Faulty
    /\ Malformed \subseteq Speaking
    /\ None \notin BOOLEAN
    /\ Failed # None
    /\ \A S \in SUBSET Node : S # None /\ S # Failed

ASSUME FaultAssumption ==
    /\ F \in Nat
    /\ N > 3 * F
    /\ Cardinality(Faulty) <= F

VARIABLES
    proposed,    \* correct nodes that input their batch
    rbcResults,  \* rbcResults[n]: the proposers whose batch n has
    accepting,   \* accepting[n]: the instances whose BBA.AcceptInput holds at n
    given,       \* given[p]: the values correct nodes put into agreement p
    agreed,      \* agreed[p]: the value agreement p yields, or None as yet
    bbaResults,  \* bbaResults[n][p]: the value p yielded at n, or None
    output,      \* output[n]: the common subset n decided, or None
    slotOutput   \* slotOutput[n]: what the slot adapter made of it, or None

agreement == <<accepting, given, agreed, bbaResults>>
vars == <<proposed, rbcResults, agreement, output, slotOutput>>

TypeOK ==
    /\ proposed \subseteq Correct
    /\ rbcResults \in [Correct -> SUBSET Node]
    /\ accepting \in [Correct -> SUBSET Node]
    /\ given \in [Node -> SUBSET BOOLEAN]
    /\ agreed \in [Node -> BOOLEAN \union {None}]
    /\ bbaResults \in [Correct -> [Node -> BOOLEAN \union {None}]]
    /\ output \in [Correct -> {None} \union SUBSET Node]
    /\ slotOutput \in [Correct -> {None, Failed} \union SUBSET Node]

-----------------------------------------------------------------------------
\* countTruthyAgreements, as the set it counts.
Truthy(results) == {p \in Node : results[p] = TRUE}

\* Variant for mutation: completes without waiting for every agreement.
CompleteEarly(results, batches) ==
    /\ Cardinality(Truthy(results)) >= N - F
    /\ Truthy(results) \subseteq batches

\* The conditions of tryCompleteAgreement.
Complete(results, batches) ==
    /\ Cardinality(Truthy(results)) >= N - F
    /\ \A p \in Node : results[p] # None
    /\ Truthy(results) \subseteq batches

\* Variant for mutation: outputs every batch at hand.
SubsetOfBatches(results, batches) == batches

Subset(results, batches) == Truthy(results)

\* maybeBuildOutput: the subset is consumed even when a batch does not decode.
maybeBuildOutput(S) == IF S \intersect Malformed = {} THEN S ELSE Failed

(***************************************************************************)
(* tryCompleteAgreement, and the slot adapter's call that follows the      *)
(* handler.                                                                *)
(***************************************************************************)
tryCompleteAgreement(n, results, batches) ==
    LET now == output[n] = None /\ Complete(results, batches)
        S == Subset(results, batches)
    IN  /\ output' = [output EXCEPT ![n] = IF now THEN S ELSE @]
        /\ slotOutput' = [slotOutput EXCEPT ![n] =
                             IF now THEN maybeBuildOutput(S) ELSE @]

\* Variant for mutation: the remaining instances are never given an input.
ReachedNever(results) == FALSE

\* An instance that yields TRUE as the (N - F)-th makes the node vote FALSE.
Reached(results) == Cardinality(Truthy(results)) = N - F

\* What the remaining instances are given.
FillIn == FALSE

\* Variant for mutation: votes whether or not the instance accepts input.
VotedBlindly(n, p, vote) == IF vote THEN {p} ELSE {}

\* The instance that is given TRUE, if it still accepts input (AcceptInput).
Voted(n, p, vote) == IF vote THEN accepting[n] \intersect {p} ELSE {}

\* Agreement q may yield v when correct nodes have put in those values.
MayYield(q, v, values) == IF agreed[q] = None THEN v \in values ELSE v = agreed[q]

(***************************************************************************)
(* processAgreement at n for instance p.  vote: ACS offers TRUE to an      *)
(* instance that still accepts input.  got: the values that instances      *)
(* yield in this call, p's first and then those of instances given FALSE.  *)
(* last: the caller ends with tryCompleteAgreement whatever p yields.      *)
(***************************************************************************)
processAgreement(n, p, batches, vote, got, last) ==
    LET yields == DOMAIN got
        voted == Voted(n, p, vote)
        first == [bbaResults[n] EXCEPT ![p] = IF p \in yields THEN got[p] ELSE @]
        fill == IF p \in yields /\ got[p] /\ Reached(first)
                THEN accepting[n] \ {p} ELSE {}
        results == [q \in Node |-> IF q \in yields THEN got[q] ELSE bbaResults[n][q]]
        inputs == [q \in Node |->
                      given[q] \union (IF q \in voted THEN {TRUE} ELSE {})
                               \union (IF q \in fill THEN {FillIn} ELSE {})]
    IN  /\ yields \subseteq fill \union {p}
        /\ \A q \in yields :
              /\ bbaResults[n][q] = None
              /\ MayYield(q, got[q], inputs[q])
        /\ accepting' = [accepting EXCEPT ![n] = @ \ (voted \union fill \union yields)]
        /\ given' = inputs
        /\ agreed' = [q \in Node |-> IF q \in yields THEN got[q] ELSE agreed[q]]
        /\ bbaResults' = [bbaResults EXCEPT ![n] = results]
        /\ IF last \/ p \in yields
           THEN tryCompleteAgreement(n, results, batches)
           ELSE UNCHANGED <<output, slotOutput>>

\* What may come out in a call for instance p at n: nothing, or p's value first.
Yields(n, p) ==
    [{} -> BOOLEAN] \union
        UNION {[S \union {p} -> BOOLEAN] : S \in SUBSET (accepting[n] \ {p})}

-----------------------------------------------------------------------------
(***************************************************************************)
(* inputValue: the broadcast is started; its own output is looked at, but  *)
(* tryCompleteAgreement is left to processAgreement.  A broadcast comes    *)
(* out within the call only when N = 1; here it may for every N.           *)
(***************************************************************************)
inputValue(n) ==
    /\ n \notin proposed
    /\ proposed' = proposed \union {n}
    /\ UNCHANGED <<rbcResults, agreement, output, slotOutput>>

inputValueAlone(n, got) ==
    /\ n \notin proposed
    /\ proposed' = proposed \union {n}
    /\ rbcResults' = [rbcResults EXCEPT ![n] = @ \union {n}]
    /\ processAgreement(n, n, rbcResults[n] \union {n}, TRUE, got, FALSE)

\* Variant for mutation: processBroadcast does not try to complete.
handleBroadcastOnly(n, p, got) ==
    /\ p \in (proposed \union Speaking) \ rbcResults[n]
    /\ rbcResults' = [rbcResults EXCEPT ![n] = @ \union {p}]
    /\ processAgreement(n, p, rbcResults[n] \union {p}, TRUE, got, FALSE)
    /\ UNCHANGED proposed

\* A message that makes broadcast p come out at n (processBroadcast).
handleBroadcast(n, p, got) ==
    /\ p \in (proposed \union Speaking) \ rbcResults[n]
    /\ rbcResults' = [rbcResults EXCEPT ![n] = @ \union {p}]
    /\ processAgreement(n, p, rbcResults[n] \union {p}, TRUE, got, TRUE)
    /\ UNCHANGED proposed

\* A message that makes agreement p yield its value at n ...
handleAgreement(n, p, got) ==
    /\ p \in DOMAIN got
    /\ processAgreement(n, p, rbcResults[n], FALSE, got, FALSE)
    /\ UNCHANGED <<proposed, rbcResults>>

\* ... or takes it past its first epoch, where it accepts no input any more.
leaveFirstEpoch(n, p) ==
    /\ p \in accepting[n]
    /\ given[p] # {}
    /\ accepting' = [accepting EXCEPT ![n] = @ \ {p}]
    /\ UNCHANGED <<proposed, rbcResults, given, agreed, bbaResults, output, slotOutput>>

-----------------------------------------------------------------------------
Init ==
    /\ proposed = {}
    /\ rbcResults = [n \in Correct |-> {}]
    /\ accepting = [n \in Correct |-> Node]
    /\ given = [p \in Node |-> {}]
    /\ agreed = [p \in Node |-> None]
    /\ bbaResults = [n \in Correct |-> [p \in Node |-> None]]
    /\ output = [n \in Correct |-> None]
    /\ slotOutput = [n \in Correct |-> None]

Next ==
    \E n \in Correct :
        \/ inputValue(n)
        \/ \E got \in Yields(n, n) : inputValueAlone(n, got)
        \/ \E p \in Node :
              \/ \E got \in Yields(n, p) : handleBroadcast(n, p, got)
              \/ \E got \in Yields(n, p) : handleAgreement(n, p, got)
              \/ leaveFirstEpoch(n, p)

Spec == Init /\ [][Next]_vars

-----------------------------------------------------------------------------
(***************************************************************************)
(* ACS keeps its promise: what a correct node decides is the same set at   *)
(* all of them, holds at least N - F proposers, and only such as proposed  *)
(* (acs.go:26-28).                                                         *)
(***************************************************************************)
Promise == INSTANCE CommonSubset WITH
    Proposer <- Correct \union Speaking,
    Large <- {S \in SUBSET Node : Cardinality(S) >= N - F},
    offered <- proposed \union Speaking

KeepsPromise == Promise!Spec

\* Each proposer's broadcast and agreement, as the services see them.
Broadcast(p) == INSTANCE ReliableBroadcast WITH
    Batch <- {TRUE},
    offered <- {b \in {TRUE} : p \in proposed \union Speaking},
    output <- [n \in Correct |-> IF p \in rbcResults[n] THEN TRUE ELSE None]

Agreement(p) == INSTANCE BinaryAgreement WITH
    given <- given[p],
    open <- {n \in Correct : p \in accepting[n]},
    result <- [n \in Correct |-> bbaResults[n][p]]

ServicesInit == \A p \in Node : Broadcast(p)!Init /\ Agreement(p)!Init

ServicesStep == \A p \in Node : Broadcast(p)!Next /\ Agreement(p)!Next

(***************************************************************************)
(* ACS uses each broadcast and each agreement as it is promised by RBC     *)
(* and BBA: whatever handlers do to several instances in one call, every   *)
(* instance by itself takes the steps of its service (acs.go:345-432).     *)
(***************************************************************************)
UsesServices == ServicesInit /\ [][ServicesStep]_vars

(***************************************************************************)
(* And it is ready for whatever they may deliver: a batch or a value that  *)
(* the service may hand to a node, ACS takes (acs.go:345-432).             *)
(***************************************************************************)
AdmitsServices ==
    \A n \in Correct, p \in Node :
        /\ Broadcast(p)!MayComeOut(n, TRUE, {b \in {TRUE} : p \in proposed \union Speaking})
              => p \in (proposed \union Speaking) \ rbcResults[n]
        /\ \A v \in BOOLEAN, values \in SUBSET BOOLEAN :
              given[p] \subseteq values /\ Agreement(p)!MayYield(n, v, values)
                 => bbaResults[n][p] = None /\ MayYield(p, v, values)

(***************************************************************************)
(* No two correct nodes hand their owner different slot outputs, and none  *)
(* fails to build one that another built (bloc_slot.go:246).               *)
(***************************************************************************)
SlotAgreement ==
    \A n, m \in Correct :
        slotOutput[n] # None /\ slotOutput[m] # None => slotOutput[n] = slotOutput[m]

(***************************************************************************)
(* An agreement yields TRUE only if a correct node has the batch, so that  *)
(* waiting for it in tryCompleteAgreement (acs.go:453-457) can end.        *)
(***************************************************************************)
TrueIsHeld ==
    \A p \in Node : agreed[p] = TRUE => \E n \in Correct : p \in rbcResults[n]

(***************************************************************************)
(* No completion is missed, though inputValue does not end in              *)
(* tryCompleteAgreement (acs.go:265-275), results of the FALSE loop are    *)
(* not processed like others (acs.go:423-426), and the loop runs only on   *)
(* "== N - F" (acs.go:409).                                                *)
(***************************************************************************)
NothingMissed ==
    \A n \in Correct :
        /\ Complete(bbaResults[n], rbcResults[n]) => output[n] # None
        /\ Cardinality(Truthy(bbaResults[n])) >= N - F => accepting[n] = {}

(***************************************************************************)
(* Everyone gets there (acs.go:35-39).  Once every correct node has input  *)
(* its batch, broadcasts have come out everywhere if they did anywhere or  *)
(* if their proposer is correct (RBC!Totality), and agreements in which    *)
(* every correct node takes part have yielded everywhere                   *)
(* (BBA!Termination), no correct node still waits for its output.  Steps   *)
(* only ever add to the state, so this is all there is to termination.     *)
(***************************************************************************)
TakingPart(p) == \A n \in Correct : p \notin accepting[n]

Settled ==
    /\ proposed = Correct
    /\ \A n \in Correct : Correct \subseteq rbcResults[n]
    /\ \A n, m \in Correct : rbcResults[n] = rbcResults[m]
    /\ \A p \in Node :
          TakingPart(p) => \A n \in Correct : bbaResults[n][p] # None

EveryoneOutputs == Settled => \A n \in Correct : output[n] # None
=============================================================================
