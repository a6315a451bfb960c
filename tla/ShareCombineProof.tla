------------------------- MODULE ShareCombineProof -------------------------
(***************************************************************************)
(* A slot ends once, right shares are kept, the attempt budget adds up and *)
(* no wakeup is lost, for every set of operators, every threshold, number  *)
(* of sub-batches and budget, and whatever faulty operators send.          *)
(***************************************************************************)
EXTENDS ShareCombine, FiniteSetTheorems, FunctionTheorems, WellFoundedInduction, TLAPS

\* An operator has one batch identity, and one share per sub-batch.
OneShareEach ==
    \A s, t \in shares :
        s.op = t.op => s.batch = t.batch /\ (s.sub = t.sub => s = t)

\* Shares come from where they claim to.
Origin ==
    /\ shares \subseteq arrived
    /\ \A s \in arrived :
          s.op \notin Faulty => \E k \in SubBatch : s = RightShare(s.op, k)

\* How far the handlers have got, by what they left behind.
Progress ==
    /\ acs \in {"idle", "decided"} => plan = None
    /\ acs = "sharing" => plan = "full" /\ ~shareGenerationDone
    /\ shareGenerationDone => plan = "full"
    /\ attempt # None => plan = "full"
    /\ combineInFlight <=> attempt # None

\* The plan admits its own shares only.
Pruned == plan = "full" => \A s \in shares : s.batch = Planned /\ s.sub \in SubBatch

\* The budget an attempt was given is the one it is charged to.
Budget ==
    /\ BudgetHeld
    /\ plan # "full" => spent = [k \in SubBatch |-> 0]
    /\ attempt # None /\ attempt.stage = "running" =>
          attempt.limits = combineAttemptsLeft

\* Some sub-batch cannot be decrypted with the shares in S.
Hopeless(S) ==
    \E k \in SubBatch : Cardinality(Right(S, k)) < Threshold \/ k \notin opens

Exhausted == \E k \in SubBatch : combineAttemptsLeft[k] = 0

\* An attempt is up to date unless the version moved, and fails for a reason.
AttemptCurrent ==
    attempt # None =>
        /\ attempt.version <= shareVersion
        /\ attempt.version = shareVersion => attempt.shares = shares
        /\ attempt.stage = "failed" => Hopeless(attempt.shares) \/ Exhausted

IInv ==
    /\ TypeOK
    /\ OneOutcome
    /\ OneShareEach
    /\ Origin
    /\ Progress
    /\ Pruned
    /\ RightSharesKept
    /\ Budget
    /\ AttemptCurrent
    /\ NothingMissed

-----------------------------------------------------------------------------
\* A set of at least n elements has a subset of exactly n.
LEMMA SubsetOfSize ==
    ASSUME NEW S, IsFiniteSet(S), NEW n \in Nat, Cardinality(S) >= n
    PROVE  \E A \in SUBSET S : Cardinality(A) = n
<1> DEFINE m == Cardinality(S)
<1>1. m \in Nat /\ ExistsBijection(1 .. m, S)
  BY FS_CardinalityType
<1>2. PICK f : f \in Bijection(1 .. m, S)
  BY <1>1, Fun_ExistsBij
<1>3. f \in [1 .. m -> S] /\ \A a, b \in 1 .. m : f[a] = f[b] => a = b
  BY <1>2, Fun_BijectionProperties
<1>4. 1 .. n \subseteq 1 .. m
  BY <1>1
<1> DEFINE A == {f[i] : i \in 1 .. n}
           g == [i \in 1 .. n |-> f[i]]
<1>5. A \in SUBSET S
  BY <1>3, <1>4
<1>6. g \in [1 .. n -> A] /\ \A a, b \in 1 .. n : g[a] = g[b] => a = b
  BY <1>3, <1>4
<1>7. \A t \in A : \E i \in 1 .. n : g[i] = t
  OBVIOUS
<1> HIDE DEF A, g
<1>8. g \in Bijection(1 .. n, A)
  BY <1>6, <1>7, Fun_IsBij
<1>9. Cardinality(A) = n
  BY <1>8, Fun_ExistsBij, FS_CountingElements
<1> QED
  BY <1>5, <1>9

\* A nonempty set of sub-batches has a first one.
LEMMA FirstSubBatch ==
    ASSUME NEW S \in SUBSET SubBatch, S # {}
    PROVE  \E k \in S : \A j \in S : ~(j < k)
<1>1. S \subseteq Nat
  BY SizeAssumption DEF SubBatch
<1>2. PICK k \in S : \A j \in S : ~(<<j, k>> \in OpToRel(<, Nat))
  BY <1>1, NatLessThanWellFounded, WFMin
<1>3. \A j \in S : ~(j < k)
  BY <1>1, <1>2 DEF OpToRel
<1> QED
  BY <1>3

-----------------------------------------------------------------------------
\* Operators with a right share are finitely many.
LEMMA RightFinite ==
    ASSUME NEW S \in SUBSET Share, NEW k \in SubBatch
    PROVE  Right(S, k) \in SUBSET Operator /\ IsFiniteSet(Right(S, k))
<1>1. Right(S, k) \in SUBSET Operator
  BY DEF Right, Share
<1> QED
  BY <1>1, OperatorAssumption, FS_Subset

\* An attempt counts its subsets, and no more than the limit.
LEMMA AttemptsBounded ==
    ASSUME NEW S \in SUBSET Share, NEW limits \in [SubBatch -> Nat]
    PROVE  /\ AttemptsBySubBatch(S, limits) \in [SubBatch -> Nat]
           /\ \A k \in SubBatch : AttemptsBySubBatch(S, limits)[k] <= limits[k]
<1>1. ASSUME NEW k \in SubBatch
      PROVE  Attempts(S, k, limits[k]) \in Nat /\ Attempts(S, k, limits[k]) <= limits[k]
  <2>1. Visited(S, k) \in SUBSET (SUBSET Operator)
    BY DEF Visited, Subsets, Candidates, Share
  <2>2. IsFiniteSet(SUBSET Operator)
    BY OperatorAssumption, FS_SUBSET
  <2>3. Cardinality(Visited(S, k)) \in Nat
    BY <2>1, <2>2, FS_Subset, FS_CardinalityType
  <2>4. limits[k] \in Nat
    OBVIOUS
  <2> QED
    BY <2>3, <2>4 DEF Attempts
<1> QED
  BY <1>1 DEF AttemptsBySubBatch

\* A failed attempt lacks right shares or ciphertexts that open, or used a sub-batch's budget up.
LEMMA FailureReason ==
    ASSUME NEW S \in SUBSET Share, NEW limits \in [SubBatch -> Nat],
           ~Combines(S, limits)
    PROVE  \/ Hopeless(S)
           \/ \E k \in SubBatch :
                 Charged(limits, AttemptsBySubBatch(S, limits))[k] = 0
<1> DEFINE Failing == {k \in SubBatch : ~Decrypts(S, k, limits[k])}
<1>1. Failing \in SUBSET SubBatch /\ Failing # {}
  BY DEF Combines
<1>2. PICK k \in Failing : \A j \in Failing : ~(j < k)
  BY <1>1, FirstSubBatch
<1>3. k \in SubBatch /\ ~Decrypts(S, k, limits[k])
  BY <1>2
<1>4. AttemptsBySubBatch(S, limits)[k] = Attempts(S, k, limits[k])
  BY <1>2, <1>3 DEF AttemptsBySubBatch
<1>5. CASE Subsets(Right(S, k)) = {}
  <2>1. ~(Cardinality(Right(S, k)) >= Threshold)
    BY <1>3, <1>5, RightFinite, SubsetOfSize, SizeAssumption DEF Subsets
  <2>2. Cardinality(Right(S, k)) \in Nat
    BY <1>3, RightFinite, FS_CardinalityType
  <2>3. Cardinality(Right(S, k)) < Threshold
    BY <2>1, <2>2, SizeAssumption
  <2> QED
    BY <1>3, <2>3 DEF Hopeless
<1>7. CASE k \notin opens
  BY <1>3, <1>7 DEF Hopeless
<1>6. CASE ~(Cardinality(Visited(S, k)) <= limits[k])
  <2>1. AttemptsBySubBatch(S, limits)[k] = limits[k]
    BY <1>4, <1>6 DEF Attempts
  <2>2. Charged(limits, AttemptsBySubBatch(S, limits))[k] = 0
    BY <1>3, <2>1 DEF Charged
  <2> QED
    BY <1>3, <2>2
<1> QED
  BY <1>3, <1>5, <1>6, <1>7 DEF Decrypts, Decrypting

-----------------------------------------------------------------------------
\* What markSlotFailed and storeResult do to the outcome.
LEMMA OutcomeOfEnding ==
    ASSUME TypeOK, OneOutcome, markSlotFailed \/ storeResult
    PROVE  OneOutcome' /\ (result' \/ failure')
<1>1. CASE ~result /\ ~failure
  <2>1. ended = 0 /\ ended' = ended + 1
    BY <1>1 DEF OneOutcome, markSlotFailed, storeResult
  <2>2. ended' = 1
    BY <2>1
  <2>3. CASE markSlotFailed
    <3>1. failure' /\ ~result' /\ phase' = "failed"
      BY <1>1, <2>3 DEF markSlotFailed
    <3> QED
      BY <2>2, <3>1 DEF OneOutcome
  <2>4. CASE storeResult
    <3>1. result' /\ ~failure' /\ phase' = "completed"
      BY <1>1, <2>4 DEF storeResult
    <3> QED
      BY <2>2, <3>1 DEF OneOutcome
  <2> QED
    BY <2>3, <2>4
<1>2. CASE result \/ failure
  BY <1>2 DEF TypeOK, OneOutcome, markSlotFailed, storeResult
<1> QED
  BY <1>1, <1>2

\* A slot ends once.
LEMMA OneOutcomeStep ==
    ASSUME IInv, [Next]_vars
    PROVE  OneOutcome'
<1> USE DEF IInv
<1>1. CASE startConsensus
  BY <1>1 DEF startConsensus, OneOutcome, TypeOK
<1>2. CASE inputProposal
  <2>1. CASE markSlotFailed
    BY <2>1, OutcomeOfEnding
  <2>2. CASE UNCHANGED outcome
    BY <2>2 DEF outcome, OneOutcome
  <2> QED
    BY <1>2, <2>1, <2>2 DEF inputProposal
<1>3. CASE failOutput \/ failShare \/ finishCombine
  BY <1>3, OutcomeOfEnding DEF failOutput, failShare, finishCombine
<1>4. CASE finishEmptyMaterializedSet
  <2>1. CASE UNCHANGED outcome
    BY <2>1 DEF outcome, OneOutcome
  <2>2. CASE storeResult
    BY <2>2, OutcomeOfEnding
  <2> QED
    BY <1>4, <2>1, <2>2 DEF finishEmptyMaterializedSet
<1>5. CASE UNCHANGED outcome
  BY <1>5 DEF outcome, OneOutcome
<1>6. CASE receiveOutput \/ storePlan \/ makeShare \/ finishShares
  BY <1>5, <1>6 DEF receiveOutput, storePlan, makeShare, finishShares
<1>7. CASE (\E s \in Sendable : receiveShare(s)) \/ claimCombine
  BY <1>5, <1>7 DEF receiveShare, claimCombine
<1>8. CASE recordCombineStats \/ finishFailedCombine
  BY <1>5, <1>8 DEF recordCombineStats, finishFailedCombine
<1>9. CASE UNCHANGED vars
  BY <1>5, <1>9 DEF vars
<1> QED
  BY <1>1, <1>2, <1>3, <1>4, <1>6, <1>7, <1>8, <1>9 DEF Next, Output, Compute

-----------------------------------------------------------------------------
\* What addShare does to the retained shares.
LEMMA AddShareEffect ==
    ASSUME TypeOK, NEW s, addShare(s)
    PROVE  /\ arrived' = arrived \union {s}
           /\ \/ shares' = shares /\ shareVersion' = shareVersion
              \/ /\ shares' = shares \union {s} /\ shareVersion' = shareVersion + 1
                 /\ Matches(s) /\ ~Repeated(s) /\ ~Conflicting(s)
           /\ Admitted(s) => s \in shares'
           /\ ~Admitted(s) => shares' = shares
BY DEF TypeOK, addShare, Admitted, Repeated

\* Where a share that reaches addShare comes from.
Genuine(s) ==
    /\ s \in Share
    /\ s.op \notin Faulty => \E k \in SubBatch : s = RightShare(s.op, k)

\* The right shares are genuine ...
LEMMA RightShareGenuine ==
    ASSUME NEW op \in Operator, NEW k \in SubBatch
    PROVE  Genuine(RightShare(op, k))
<1>1. k \in 0 .. BMax - 1
  BY SizeAssumption DEF SubBatch
<1>2. RightShare(op, k) \in Share
  BY <1>1, OperatorAssumption DEF RightShare, Share
<1>3. RightShare(op, k).op = op
  BY DEF RightShare
<1> QED
  BY <1>2, <1>3 DEF Genuine

\* ... and so is whatever may arrive.
LEMMA SendableGenuine ==
    ASSUME NEW s \in Sendable
    PROVE  Genuine(s)
<1>1. CASE s \in FaultyShare
  BY <1>1, ShareAssumption DEF Genuine
<1>2. ASSUME NEW op \in Operator, NEW k \in SubBatch, s = RightShare(op, k)
      PROVE  Genuine(s)
  BY <1>2, RightShareGenuine
<1> QED
  BY <1>1, <1>2 DEF Sendable

\* What every share step keeps.
SharesInv ==
    /\ shares \subseteq Share /\ arrived \subseteq Share
    /\ OneShareEach
    /\ Origin
    /\ Pruned
    /\ RightSharesKept

\* A share that is added, or refused, disturbs none of it.
LEMMA AddShareKeeps ==
    ASSUME TypeOK, SharesInv, UNCHANGED plan,
           NEW s, Genuine(s), addShare(s)
    PROVE  SharesInv'
<1>1. /\ arrived' = arrived \union {s}
      /\ \/ shares' = shares
         \/ shares' = shares \union {s} /\ Matches(s) /\ ~Conflicting(s)
  BY AddShareEffect
<1>2. shares' \subseteq Share /\ arrived' \subseteq Share
  BY <1>1 DEF SharesInv, Genuine
<1>3. OneShareEach'
  BY <1>1 DEF SharesInv, OneShareEach, Matches, Conflicting, Of
<1>4. Origin'
  BY <1>1 DEF SharesInv, Origin, Genuine
<1>5. Pruned'
  <2>1. Matches(s) /\ plan = "full" => s.batch = Planned /\ s.sub \in SubBatch
    BY NoneAssumption DEF Matches
  <2> QED
    BY <1>1, <2>1 DEF SharesInv, Pruned
<1>6. RightSharesKept'
  <2> SUFFICES ASSUME plan # "empty",
                      NEW op \in Operator \ Faulty, NEW k \in SubBatch,
                      RightShare(op, k) \in arrived'
               PROVE  RightShare(op, k) \in shares'
    BY DEF RightSharesKept
  <2>1. CASE RightShare(op, k) \in arrived
    BY <1>1, <2>1 DEF SharesInv, RightSharesKept
  <2>2. CASE s = RightShare(op, k)
    <3>1. s.op = op /\ s.batch = Planned /\ s.sub = k
      BY <2>2 DEF RightShare
    <3>2. \A t \in Of(op) : t.batch = Planned /\ t.op = op
                              /\ (t.sub = k => t = RightShare(op, k))
      BY DEF SharesInv, Origin, Of, RightShare
    <3>3. ~Conflicting(s)
      BY <2>2, <3>1, <3>2 DEF Conflicting
    <3>4. Matches(s)
      <4>1. plan # None => plan = "full"
        BY DEF TypeOK
      <4> QED
        BY <3>1, <3>2, <4>1 DEF Matches
    <3> QED
      BY <2>2, <3>3, <3>4, AddShareEffect DEF Admitted
  <2> QED
    BY <1>1, <2>1, <2>2
<1> QED
  BY <1>2, <1>3, <1>4, <1>5, <1>6 DEF SharesInv

\* The retained shares stay as SharesInv says.
LEMMA SharesStep ==
    ASSUME IInv, [Next]_vars
    PROVE  SharesInv'
<1> USE DEF IInv
<1>1. SharesInv
  BY DEF SharesInv, TypeOK
<1>2. CASE UNCHANGED <<plan, retained>>
  BY <1>1, <1>2 DEF retained, SharesInv, OneShareEach, Origin, Pruned, RightSharesKept
<1>3. CASE startConsensus \/ inputProposal
  BY <1>2, <1>3 DEF startConsensus, inputProposal
<1>4. CASE receiveOutput \/ failOutput \/ failShare \/ finishShares
  BY <1>2, <1>4 DEF receiveOutput, failOutput, failShare, finishShares
<1>5. CASE claimCombine \/ recordCombineStats
  BY <1>2, <1>5 DEF claimCombine, recordCombineStats
<1>6. CASE finishCombine \/ finishFailedCombine
  BY <1>2, <1>6 DEF finishCombine, finishFailedCombine
<1>7. CASE finishEmptyMaterializedSet
  <2>1. CASE UNCHANGED plan
    BY <1>2, <1>7, <2>1 DEF finishEmptyMaterializedSet
  <2>2. CASE plan' = "empty"
    BY <1>1, <1>7, <2>2
       DEF finishEmptyMaterializedSet, retained, SharesInv, OneShareEach, Origin,
           Pruned, RightSharesKept
  <2> QED
    BY <1>7, <2>1, <2>2 DEF finishEmptyMaterializedSet
<1>8. CASE storePlan
  <2>1. CASE UNCHANGED <<plan, shares>>
    BY <1>2, <1>8, <2>1 DEF storePlan, retained
  <2>2. CASE plan' = "full" /\ shares' = prune /\ plan = None
    <3>1. arrived' = arrived
      BY <1>8 DEF storePlan
    <3>2. RightSharesKept'
      BY <1>1, <2>2, <3>1, NoneAssumption DEF SharesInv, RightSharesKept, prune, RightShare
    <3> QED
      BY <1>1, <2>2, <3>1, <3>2 DEF SharesInv, OneShareEach, Origin, Pruned, prune
  <2> QED
    BY <1>8, <2>1, <2>2 DEF storePlan
<1>9. CASE makeShare
  <2>1. made \in SubBatch
    BY <1>9, SizeAssumption DEF TypeOK, makeShare, SubBatch
  <2> QED
    BY <1>1, <1>9, <2>1, OperatorAssumption, RightShareGenuine, AddShareKeeps
       DEF makeShare
<1>10. CASE \E s \in Sendable : receiveShare(s)
  BY <1>1, <1>10, SendableGenuine, AddShareKeeps DEF receiveShare
<1>11. CASE UNCHANGED vars
  BY <1>2, <1>11 DEF vars
<1> QED
  BY <1>3, <1>4, <1>5, <1>6, <1>7, <1>8, <1>9, <1>10, <1>11 DEF Next, Output, Compute

\* No step touches the ciphertexts.
LEMMA OpensStay ==
    ASSUME [Next]_vars
    PROVE  opens' = opens
  BY DEF Next, vars, startConsensus, inputProposal, Output, receiveOutput, failOutput,
         finishEmptyMaterializedSet, storePlan, makeShare, failShare, finishShares,
         receiveShare, claimCombine, Compute, recordCombineStats, finishCombine,
         finishFailedCombine

-----------------------------------------------------------------------------
\* The types are kept.
LEMMA TypeStep ==
    ASSUME IInv, [Next]_vars
    PROVE  TypeOK'
<1> USE DEF IInv
<1>1. shares' \subseteq Share /\ arrived' \subseteq Share
  BY SharesStep DEF SharesInv
<1>2. shareVersion' \in Nat
  <2>1. CASE makeShare
    BY <2>1, AddShareEffect DEF TypeOK, makeShare
  <2>2. CASE \E s \in Sendable : receiveShare(s)
    BY <2>2, AddShareEffect DEF TypeOK, receiveShare
  <2>3. CASE UNCHANGED shareVersion
    BY <2>3 DEF TypeOK
  <2> QED
    BY <2>1, <2>2, <2>3
       DEF Next, Output, Compute, vars, retained, startConsensus, inputProposal,
           receiveOutput, failOutput, finishEmptyMaterializedSet, storePlan, failShare,
           finishShares, claimCombine, recordCombineStats, finishCombine,
           finishFailedCombine
<1> DEFINE OutcomeType ==
             /\ phase \in {"prepared", "running", "completed", "failed"}
             /\ result \in BOOLEAN /\ failure \in BOOLEAN /\ ended \in Nat
           ControlType ==
             /\ starting \in {"idle", "building", "done"}
             /\ plan \in {None, "empty", "full"}
             /\ shareGenerationDone \in BOOLEAN
             /\ acs \in {"idle", "decided", "sharing", "done"}
             /\ made \in 0 .. Alpha
             /\ waking \in Nat
           CombineType ==
             /\ combineInFlight \in BOOLEAN
             /\ combineAttemptsLeft \in [SubBatch -> Nat]
             /\ spent \in [SubBatch -> Nat]
             /\ attempt = None \/ attempt \in Attempt
<1>3. OutcomeType'
  <2>1. CASE markSlotFailed
    BY <2>1 DEF TypeOK, markSlotFailed
  <2>2. CASE storeResult
    BY <2>2 DEF TypeOK, storeResult
  <2>3. CASE UNCHANGED outcome
    BY <2>3 DEF TypeOK, outcome
  <2>4. CASE startConsensus
    BY <2>4 DEF TypeOK, startConsensus
  <2>5. markSlotFailed \/ storeResult \/ UNCHANGED outcome \/ startConsensus
    BY DEF Next, Output, Compute, vars, inputProposal, receiveOutput, failOutput,
           finishEmptyMaterializedSet, storePlan, makeShare, failShare, finishShares,
           receiveShare, claimCombine, recordCombineStats, finishCombine,
           finishFailedCombine
  <2> QED
    BY <2>1, <2>2, <2>3, <2>4, <2>5
<1>4. ControlType'
  <2>1. CASE startConsensus \/ inputProposal
    BY <2>1 DEF TypeOK, startConsensus, inputProposal
  <2>2. CASE receiveOutput \/ failOutput \/ failShare \/ storePlan
    BY <2>2 DEF TypeOK, receiveOutput, failOutput, failShare, storePlan
  <2>3. CASE finishEmptyMaterializedSet
    BY <2>3 DEF TypeOK, finishEmptyMaterializedSet
  <2>4. CASE makeShare
    BY <2>4, SizeAssumption DEF TypeOK, makeShare
  <2>5. CASE finishShares
    BY <2>5 DEF TypeOK, finishShares
  <2>6. CASE \E s \in Sendable : receiveShare(s)
    BY <2>6 DEF TypeOK, receiveShare, handlers
  <2>7. CASE claimCombine
    BY <2>7 DEF TypeOK, claimCombine, handlers
  <2>8. CASE recordCombineStats
    BY <2>8 DEF TypeOK, recordCombineStats, handlers
  <2>9. CASE finishCombine \/ finishFailedCombine
    BY <2>9 DEF TypeOK, finishCombine, finishFailedCombine, handlers
  <2>10. CASE UNCHANGED vars
    BY <2>10 DEF TypeOK, vars, handlers
  <2> QED
    BY <2>1, <2>2, <2>3, <2>4, <2>5, <2>6, <2>7, <2>8, <2>9, <2>10
       DEF Next, Output, Compute
<1>5. CombineType'
  <2>1. CASE UNCHANGED combining
    BY <2>1 DEF TypeOK, combining
  <2>2. CASE storePlan
    <3>1. combineAttemptsLeft' \in [SubBatch -> Nat]
      BY <2>2, SizeAssumption DEF TypeOK, storePlan
    <3> QED
      BY <2>2, <3>1 DEF TypeOK, storePlan
  <2>3. CASE claimCombine
    <3>1. CASE Claimable
      <4>1. attempt' \in Attempt
        BY <2>3, <3>1 DEF TypeOK, claimCombine, Attempt
      <4> QED
        BY <2>3, <3>1, <4>1 DEF TypeOK, claimCombine
    <3>2. CASE ~Claimable
      BY <2>3, <3>2 DEF TypeOK, claimCombine
    <3> QED
      BY <3>1, <3>2
  <2>4. CASE recordCombineStats
    <3>1. attempt \in Attempt
      BY <2>4 DEF TypeOK, recordCombineStats
    <3>2. AttemptsBySubBatch(attempt.shares, attempt.limits) \in [SubBatch -> Nat]
      BY <3>1, AttemptsBounded DEF Attempt
    <3>3. combineAttemptsLeft' \in [SubBatch -> Nat] /\ spent' \in [SubBatch -> Nat]
      BY <2>4, <3>2 DEF TypeOK, recordCombineStats, Charged
    <3>4. attempt' \in Attempt
      BY <2>4, <3>1 DEF recordCombineStats, Attempt
    <3> QED
      BY <2>4, <3>3, <3>4 DEF TypeOK, recordCombineStats
  <2>5. CASE finishCombine \/ finishFailedCombine
    BY <2>5 DEF TypeOK, finishCombine, finishFailedCombine
  <2> QED
    BY <2>1, <2>2, <2>3, <2>4, <2>5
       DEF Next, Output, Compute, vars, startConsensus, inputProposal, receiveOutput,
           failOutput, finishEmptyMaterializedSet, makeShare, failShare, finishShares,
           receiveShare
<1>6. opens' \subseteq SubBatch
  BY OpensStay DEF TypeOK
<1> QED
  BY <1>1, <1>2, <1>3, <1>4, <1>5, <1>6 DEF TypeOK

-----------------------------------------------------------------------------
\* The handlers and what they leave behind stay in step.
LEMMA ProgressStep ==
    ASSUME IInv, [Next]_vars
    PROVE  Progress'
<1> USE DEF IInv
<1>1. CASE startConsensus \/ inputProposal
  BY <1>1 DEF Progress, startConsensus, inputProposal, combining
<1>2. CASE receiveOutput \/ failOutput \/ failShare
  BY <1>2 DEF Progress, receiveOutput, failOutput, failShare, combining
<1>3. CASE finishEmptyMaterializedSet
  BY <1>3, NoneAssumption DEF Progress, finishEmptyMaterializedSet, combining
<1>4. CASE storePlan
  BY <1>4, NoneAssumption DEF Progress, storePlan
<1>5. CASE makeShare
  BY <1>5 DEF Progress, makeShare, combining
<1>6. CASE finishShares
  BY <1>6 DEF Progress, finishShares, combining
<1>7. CASE \E s \in Sendable : receiveShare(s)
  BY <1>7 DEF Progress, receiveShare, handlers, combining
<1>8. CASE claimCombine
  <2>1. CASE Claimable
    <3>1. attempt' \in Attempt
      BY <1>8, <2>1 DEF TypeOK, claimCombine, Attempt
    <3> QED
      BY <1>8, <2>1, <3>1, NoneAssumption DEF Progress, claimCombine, Claimable, handlers
  <2>2. CASE ~Claimable
    BY <1>8, <2>2 DEF Progress, claimCombine, handlers
  <2> QED
    BY <2>1, <2>2
<1>9. CASE recordCombineStats
  <2>1. attempt \in Attempt /\ attempt' \in Attempt
    BY <1>9 DEF TypeOK, recordCombineStats, Attempt
  <2> QED
    BY <1>9, <2>1, NoneAssumption DEF Progress, recordCombineStats, handlers
<1>10. CASE finishCombine \/ finishFailedCombine
  BY <1>10 DEF Progress, finishCombine, finishFailedCombine, handlers
<1>11. CASE UNCHANGED vars
  BY <1>11 DEF Progress, vars, handlers, combining
<1> QED
  BY <1>1, <1>2, <1>3, <1>4, <1>5, <1>6, <1>7, <1>8, <1>9, <1>10, <1>11
     DEF Next, Output, Compute

-----------------------------------------------------------------------------
\* An attempt is charged what it tried.
LEMMA BudgetStep ==
    ASSUME IInv, [Next]_vars
    PROVE  Budget'
<1> USE DEF IInv
<1>1. CASE UNCHANGED <<plan, combineAttemptsLeft, spent, attempt>>
  BY <1>1 DEF Budget, BudgetHeld
<1>2. CASE finishEmptyMaterializedSet
  <2>1. CASE UNCHANGED plan
    BY <1>1, <1>2, <2>1 DEF finishEmptyMaterializedSet, combining
  <2>2. CASE plan = None /\ plan' = "empty"
    BY <1>2, <2>2, NoneAssumption
       DEF finishEmptyMaterializedSet, combining, Budget, BudgetHeld
  <2> QED
    BY <1>2, <2>1, <2>2 DEF finishEmptyMaterializedSet
<1>3. CASE storePlan
  <2>1. CASE plan' = plan /\ combineAttemptsLeft' = combineAttemptsLeft
    BY <1>1, <1>3, <2>1 DEF storePlan
  <2>2. CASE /\ plan = None /\ plan' = "full"
             /\ combineAttemptsLeft' = [k \in SubBatch |-> MaxAttempts]
    <3>1. attempt = None /\ attempt' = attempt /\ spent' = spent
      BY <1>3, <2>2, NoneAssumption DEF storePlan, Progress
    <3>2. spent = [k \in SubBatch |-> 0]
      BY <2>2, NoneAssumption DEF Budget
    <3>3. \A k \in SubBatch : spent'[k] + combineAttemptsLeft'[k] = MaxAttempts
      BY <2>2, <3>1, <3>2, SizeAssumption
    <3> QED
      BY <2>2, <3>1, <3>3 DEF Budget, BudgetHeld
  <2> QED
    BY <1>3, <2>1, <2>2 DEF storePlan
<1>4. CASE claimCombine
  <2>1. CASE Claimable
    <3>1. attempt'.limits = combineAttemptsLeft
      BY <1>4, <2>1 DEF claimCombine
    <3> QED
      BY <1>4, <3>1 DEF claimCombine, Budget, BudgetHeld
  <2>2. CASE ~Claimable
    BY <1>1, <1>4, <2>2 DEF claimCombine
  <2> QED
    BY <2>1, <2>2
<1>5. CASE recordCombineStats
  <2> DEFINE tried == AttemptsBySubBatch(attempt.shares, attempt.limits)
  <2>1. /\ attempt \in Attempt /\ plan = "full" /\ plan' = plan
        /\ attempt.limits = combineAttemptsLeft
    BY <1>5 DEF TypeOK, Progress, Budget, recordCombineStats
  <2>2. tried \in [SubBatch -> Nat] /\ \A k \in SubBatch : tried[k] <= combineAttemptsLeft[k]
    BY <2>1, AttemptsBounded DEF Attempt
  <2>3. /\ combineAttemptsLeft' = Charged(combineAttemptsLeft, tried)
        /\ spent' = [k \in SubBatch |-> spent[k] + tried[k]]
    BY <1>5 DEF recordCombineStats
  <2>4. attempt'.stage # "running"
    BY <1>5, <2>1 DEF recordCombineStats, Attempt
  <2> HIDE DEF tried
  <2>5. ASSUME NEW k \in SubBatch
        PROVE  spent'[k] + combineAttemptsLeft'[k] = MaxAttempts
    <3>1. spent[k] + combineAttemptsLeft[k] = MaxAttempts
      BY <2>1 DEF Budget, BudgetHeld
    <3>2. combineAttemptsLeft[k] \in Nat /\ spent[k] \in Nat /\ tried[k] \in Nat
      BY <2>2 DEF TypeOK
    <3>3. combineAttemptsLeft'[k] = combineAttemptsLeft[k] - tried[k]
      BY <2>2, <2>3 DEF Charged
    <3>4. spent'[k] = spent[k] + tried[k]
      BY <2>3
    <3> QED
      BY <3>1, <3>2, <3>3, <3>4, SizeAssumption
  <2> QED
    BY <2>1, <2>4, <2>5 DEF Budget, BudgetHeld
<1>6. CASE finishCombine \/ finishFailedCombine
  BY <1>6 DEF finishCombine, finishFailedCombine, Budget, BudgetHeld
<1>7. CASE UNCHANGED <<plan, combining>>
  BY <1>1, <1>7 DEF combining
<1>8. CASE startConsensus \/ inputProposal \/ receiveOutput \/ failOutput
  BY <1>7, <1>8 DEF startConsensus, inputProposal, receiveOutput, failOutput
<1>9. CASE makeShare \/ failShare \/ finishShares
  BY <1>7, <1>9 DEF makeShare, failShare, finishShares
<1>10. CASE \E s \in Sendable : receiveShare(s)
  BY <1>7, <1>10 DEF receiveShare
<1>11. CASE UNCHANGED vars
  BY <1>7, <1>11 DEF vars
<1> QED
  BY <1>2, <1>3, <1>4, <1>5, <1>6, <1>8, <1>9, <1>10, <1>11 DEF Next, Output, Compute

-----------------------------------------------------------------------------
\* An attempt that fails on the current shares fails for a reason.
LEMMA AttemptStep ==
    ASSUME IInv, [Next]_vars
    PROVE  AttemptCurrent'
<1> USE DEF IInv
<1>0. \A S : Hopeless(S)' <=> Hopeless(S)
  BY OpensStay DEF Hopeless
<1>1. CASE UNCHANGED <<shares, shareVersion, attempt, combineAttemptsLeft>>
  BY <1>0, <1>1 DEF AttemptCurrent, Exhausted
<1>2. ASSUME NEW s, addShare(s), UNCHANGED <<attempt, combineAttemptsLeft>>
      PROVE  AttemptCurrent'
  <2>1. CASE shares' = shares /\ shareVersion' = shareVersion
    BY <1>1, <1>2, <2>1
  <2>2. CASE shareVersion' = shareVersion + 1
    <3> SUFFICES ASSUME attempt # None
                 PROVE  /\ attempt.version <= shareVersion'
                        /\ attempt.version # shareVersion'
                        /\ attempt.stage = "failed" =>
                              Hopeless(attempt.shares) \/ Exhausted
      BY <1>0, <1>2 DEF AttemptCurrent, Exhausted
    <3>1. attempt.version \in Nat /\ shareVersion \in Nat
      BY DEF TypeOK, Attempt
    <3>2. attempt.version <= shareVersion
      BY DEF AttemptCurrent
    <3> QED
      BY <2>2, <3>1, <3>2 DEF AttemptCurrent
  <2> QED
    BY <1>2, <2>1, <2>2, AddShareEffect
<1>3. CASE startConsensus \/ inputProposal \/ receiveOutput \/ failOutput
  BY <1>1, <1>3 DEF startConsensus, inputProposal, receiveOutput, failOutput,
                    retained, combining
<1>4. CASE finishEmptyMaterializedSet \/ failShare \/ finishShares
  BY <1>1, <1>4 DEF finishEmptyMaterializedSet, failShare, finishShares, retained, combining
<1>5. CASE storePlan
  <2>1. attempt = None /\ attempt' = attempt
    BY <1>5, NoneAssumption DEF storePlan, Progress
  <2> QED
    BY <2>1 DEF AttemptCurrent
<1>6. CASE makeShare
  BY <1>2, <1>6 DEF makeShare, combining
<1>7. CASE \E s \in Sendable : receiveShare(s)
  BY <1>2, <1>7 DEF receiveShare, combining
<1>8. CASE claimCombine
  <2>1. CASE Claimable
    <3>1. /\ attempt'.stage = "running" /\ attempt'.shares = shares
          /\ attempt'.version = shareVersion
      BY <1>8, <2>1 DEF claimCombine
    <3>2. shares' = shares /\ shareVersion' = shareVersion /\ shareVersion \in Nat
      BY <1>8 DEF claimCombine, retained, TypeOK
    <3> QED
      BY <3>1, <3>2 DEF AttemptCurrent
  <2>2. CASE ~Claimable
    BY <1>1, <1>8, <2>2 DEF claimCombine, retained
  <2> QED
    BY <2>1, <2>2
<1>9. CASE recordCombineStats
  <2>1. /\ attempt \in Attempt /\ attempt # None
        /\ attempt.limits = combineAttemptsLeft
    BY <1>9 DEF TypeOK, Budget, recordCombineStats
  <2>2. /\ attempt'.version = attempt.version /\ attempt'.shares = attempt.shares
        /\ attempt'.stage = "failed" => ~Combines(attempt.shares, attempt.limits)
    BY <1>9, <2>1 DEF recordCombineStats, Attempt
  <2>3. combineAttemptsLeft' =
           Charged(attempt.limits, AttemptsBySubBatch(attempt.shares, attempt.limits))
    BY <1>9, <2>1 DEF recordCombineStats
  <2>4. attempt.shares \in SUBSET Share /\ attempt.limits \in [SubBatch -> Nat]
    BY <2>1 DEF Attempt
  <2>5. attempt'.stage = "failed" => Hopeless(attempt'.shares) \/ Exhausted'
    BY <2>2, <2>3, <2>4, FailureReason DEF Exhausted
  <2>6. shares' = shares /\ shareVersion' = shareVersion
    BY <1>9 DEF recordCombineStats, retained
  <2> QED
    BY <1>0, <2>1, <2>2, <2>5, <2>6 DEF AttemptCurrent
<1>10. CASE finishCombine \/ finishFailedCombine
  BY <1>10 DEF finishCombine, finishFailedCombine, AttemptCurrent
<1>11. CASE UNCHANGED vars
  BY <1>1, <1>11 DEF vars, retained, combining
<1> QED
  BY <1>3, <1>4, <1>5, <1>6, <1>7, <1>8, <1>9, <1>10, <1>11 DEF Next, Output, Compute

-----------------------------------------------------------------------------
\* The last handler to try leaves nothing to decrypt with.
LEMMA NothingMissedStep ==
    ASSUME IInv, [Next]_vars
    PROVE  NothingMissed'
<1> USE DEF IInv
<1>1. SUFFICES ASSUME waking' = 0, Claimable'
               PROVE  \E k \in SubBatch :
                         Cardinality(Right(shares', k)) < Threshold \/ k \notin opens
  BY OpensStay DEF NothingMissed
<1>2. /\ ~result' /\ ~failure' /\ ~combineInFlight'
      /\ plan' # None /\ shareGenerationDone'
      /\ \A k \in SubBatch : combineAttemptsLeft'[k] > 0
  BY <1>1 DEF Claimable
<1>3. CASE /\ ~result /\ ~failure
           /\ UNCHANGED <<plan, shareGenerationDone, shares, combineInFlight,
                          combineAttemptsLeft, waking>>
  BY <1>1, <1>3 DEF NothingMissed, Claimable, HasThreshold
<1>4. CASE startConsensus \/ receiveOutput
  BY <1>2, <1>3, <1>4 DEF startConsensus, receiveOutput, outcome, retained, combining
<1>5. CASE inputProposal
  <2>1. ~markSlotFailed
    BY <1>2, OutcomeOfEnding
  <2> QED
    BY <1>2, <1>3, <1>5, <2>1 DEF inputProposal, outcome, retained, combining
<1>6. CASE failOutput \/ failShare \/ finishCombine
  BY <1>2, <1>6, OutcomeOfEnding DEF failOutput, failShare, finishCombine
<1>7. CASE finishEmptyMaterializedSet
  <2>1. ~storeResult
    BY <1>2, OutcomeOfEnding
  <2> QED
    BY <1>2, <1>3, <1>7, <2>1
       DEF finishEmptyMaterializedSet, outcome, retained, combining
<1>8. CASE storePlan \/ makeShare
  BY <1>2, <1>8, NoneAssumption DEF Progress, storePlan, makeShare
<1>9. CASE finishShares
  BY <1>1, <1>9 DEF finishShares, TypeOK
<1>10. CASE \E s \in Sendable : receiveShare(s)
  <2>1. PICK s \in Sendable : receiveShare(s)
    BY <1>10
  <2>2. ~Admitted(s)
    BY <1>1, <2>1 DEF receiveShare, TypeOK
  <2>3. shares' = shares /\ waking' = waking
    BY <2>1, <2>2, AddShareEffect DEF receiveShare
  <2> QED
    BY <1>2, <1>3, <2>1, <2>3 DEF receiveShare, outcome, combining
<1>11. CASE claimCombine
  <2>1. ~Claimable
    BY <1>2, <1>11 DEF claimCombine
  <2>2. Claimable' <=> Claimable
    BY <1>11, <2>1 DEF claimCombine, outcome, retained, Claimable, HasThreshold
  <2> QED
    BY <1>1, <2>1, <2>2
<1>12. CASE recordCombineStats
  BY <1>2, <1>12 DEF Progress, recordCombineStats
<1>13. CASE finishFailedCombine
  <2>1. ~Retry(attempt.version) /\ ~result /\ ~failure
    BY <1>1, <1>2, <1>13 DEF finishFailedCombine, outcome, TypeOK
  <2>2. attempt.version \in Nat /\ shareVersion \in Nat /\ attempt.version <= shareVersion
    BY <1>13 DEF finishFailedCombine, AttemptCurrent, TypeOK, Attempt
  <2>3. attempt.version = shareVersion
    BY <2>1, <2>2 DEF Retry
  <2>4. Hopeless(shares) \/ Exhausted
    BY <1>13, <2>3 DEF finishFailedCombine, AttemptCurrent
  <2>5. ~Exhausted
    BY <1>2, <1>13 DEF finishFailedCombine, Exhausted
  <2> QED
    BY <1>13, <2>4, <2>5 DEF finishFailedCombine, retained, Hopeless
<1>14. CASE UNCHANGED vars
  BY <1>2, <1>3, <1>14 DEF vars, outcome, retained, combining
<1> QED
  BY <1>4, <1>5, <1>6, <1>7, <1>8, <1>9, <1>10, <1>11, <1>12, <1>13, <1>14
     DEF Next, Output, Compute

-----------------------------------------------------------------------------
(***************************************************************************)
(* The handlers of node.go keep the inductive invariant: the plan, the     *)
(* retained shares, the budget and the attempt in flight fit together.     *)
(***************************************************************************)
THEOREM Invariance == Spec => []IInv
<1>1. Init => IInv
  <2> SUFFICES ASSUME Init
               PROVE  IInv
    OBVIOUS
  <2>1. TypeOK
    <3>1. combineAttemptsLeft \in [SubBatch -> Nat] /\ spent \in [SubBatch -> Nat]
      BY DEF Init
    <3>2. made \in 0 .. Alpha
      BY SizeAssumption DEF Init
    <3> QED
      BY <3>1, <3>2 DEF Init, TypeOK
  <2>2. OneOutcome /\ Progress
    BY NoneAssumption DEF Init, OneOutcome, Progress
  <2>3. OneShareEach /\ Origin /\ Pruned /\ RightSharesKept
    BY DEF Init, OneShareEach, Origin, Pruned, RightSharesKept
  <2>4. Budget /\ AttemptCurrent /\ NothingMissed
    BY NoneAssumption DEF Init, Budget, BudgetHeld, AttemptCurrent, NothingMissed, Claimable
  <2> QED
    BY <2>1, <2>2, <2>3, <2>4 DEF IInv
<1>2. ASSUME IInv, [Next]_vars
      PROVE  IInv'
  BY <1>2, TypeStep, OneOutcomeStep, SharesStep, ProgressStep, BudgetStep, AttemptStep,
     NothingMissedStep DEF IInv, SharesInv
<1> QED
  BY <1>1, <1>2, PTL DEF Spec

(***************************************************************************)
(* Every variable of the slot keeps its type (slotState, types.go).        *)
(***************************************************************************)
THEOREM TypeCorrectness == Spec => []TypeOK
BY Invariance, PTL DEF IInv

(***************************************************************************)
(* A slot ends once, whichever of its handlers gets there first            *)
(* (markSlotFailed, tryCombine, startConsensus).                           *)
(***************************************************************************)
THEOREM OneOutcomeTheorem == Spec => []OneOutcome
BY Invariance, PTL DEF IInv

(***************************************************************************)
(* Neither an early arrival, nor the pruning at the plan, nor what faulty  *)
(* operators send costs a correct operator's share (addShare).             *)
(***************************************************************************)
THEOREM RightSharesKeptTheorem == Spec => []RightSharesKept
BY Invariance, PTL DEF IInv

(***************************************************************************)
(* When no handler is left to try, combining would not succeed: the        *)
(* single-flight claim loses no wakeup (claimCombine, finishFailedCombine).*)
(***************************************************************************)
THEOREM NothingMissedTheorem == Spec => []NothingMissed
BY Invariance, PTL DEF IInv

(***************************************************************************)
(* The attempts made and the attempts left add up to the configured        *)
(* budget: the clamp of recordCombineStats never hides an overrun.         *)
(***************************************************************************)
THEOREM BudgetHeldTheorem == Spec => []BudgetHeld
BY Invariance, PTL DEF IInv, Budget

-----------------------------------------------------------------------------
\* Threshold right shares of k are in S, and k's ciphertexts open.
Backed(S) == \A k \in SubBatch : Decrypting(S, k) # {}

\* An attempt works on shares the slot still has, and succeeds for a reason.
AttemptBacked ==
    attempt # None =>
        /\ attempt.shares \subseteq shares
        /\ attempt.stage = "succeeded" => Backed(attempt.shares)

BackedInv ==
    /\ AttemptBacked
    /\ result => plan # None
    /\ result /\ plan = "full" => Backed(shares)

\* More shares decrypt whatever fewer do.
LEMMA BackedGrows ==
    ASSUME NEW S, NEW T, S \subseteq T, Backed(S)
    PROVE  Backed(T)
<1> SUFFICES ASSUME NEW k \in SubBatch PROVE Decrypting(T, k) # {}
  BY DEF Backed
<1>1. PICK A \in Subsets(Right(S, k)) : k \in opens
  BY DEF Backed, Decrypting
<1>2. Right(S, k) \subseteq Right(T, k)
  BY DEF Right
<1>3. A \in Subsets(Right(T, k))
  BY <1>1, <1>2 DEF Subsets
<1> QED
  BY <1>1, <1>3 DEF Decrypting

\* Shares that stay make what they backed stay backed.
LEMMA BackedKept ==
    ASSUME BackedInv, shares \subseteq shares', UNCHANGED <<attempt, opens>>,
           result' => plan' # None,
           result' /\ plan' = "full" => result /\ plan = "full"
    PROVE  BackedInv'
<1>0. \A S : Backed(S)' <=> Backed(S)
  BY DEF Backed, Decrypting
<1>1. AttemptBacked'
  BY <1>0 DEF BackedInv, AttemptBacked
<1>2. result' /\ plan' = "full" => Backed(shares')
  BY BackedGrows DEF BackedInv
<1> QED
  BY <1>0, <1>1, <1>2 DEF BackedInv

LEMMA BackedStep ==
    ASSUME IInv, BackedInv, [Next]_vars
    PROVE  BackedInv'
<1> USE DEF IInv
<1>0. opens' = opens /\ \A S : Backed(S)' <=> Backed(S)
  BY OpensStay DEF Backed, Decrypting
<1>1. CASE UNCHANGED <<result, plan, shares, attempt>>
  BY <1>0, <1>1, BackedKept DEF BackedInv
<1>2. CASE startConsensus \/ receiveOutput
  BY <1>1, <1>2 DEF startConsensus, receiveOutput, outcome, retained, combining
<1>3. CASE inputProposal \/ failOutput \/ failShare
  BY <1>1, <1>3 DEF inputProposal, failOutput, failShare, markSlotFailed, outcome,
                    retained, combining
<1>4. CASE finishShares
  BY <1>1, <1>4 DEF finishShares, outcome, retained, combining
<1>5. CASE finishEmptyMaterializedSet
  <2>1. CASE UNCHANGED <<outcome, plan>>
    BY <1>1, <1>5, <2>1 DEF finishEmptyMaterializedSet, outcome, retained, combining
  <2>2. CASE plan' = "empty"
    BY <1>0, <1>5, <2>2, NoneAssumption, BackedKept DEF finishEmptyMaterializedSet, retained, combining
  <2> QED
    BY <1>5, <2>1, <2>2 DEF finishEmptyMaterializedSet
<1>6. CASE storePlan
  <2>1. attempt = None /\ attempt' = None /\ result' = result /\ plan = None
    BY <1>6, NoneAssumption DEF storePlan, Progress, outcome
  <2>2. ~result
    BY <2>1 DEF BackedInv
  <2> QED
    BY <2>1, <2>2 DEF BackedInv, AttemptBacked
<1>7. ASSUME NEW s, addShare(s), UNCHANGED <<result, plan, attempt>>
      PROVE  BackedInv'
  <2>1. shares \subseteq shares'
    BY <1>7, AddShareEffect
  <2> QED
    BY <1>0, <1>7, <2>1, BackedKept DEF BackedInv
<1>8. CASE makeShare
  BY <1>7, <1>8 DEF makeShare, outcome, combining
<1>9. CASE \E s \in Sendable : receiveShare(s)
  BY <1>7, <1>9 DEF receiveShare, outcome, combining
<1>10. CASE claimCombine
  <2>1. /\ UNCHANGED <<result, plan, shares>>
        /\ \/ UNCHANGED attempt
           \/ attempt'.stage = "running" /\ attempt'.shares = shares
    BY <1>10 DEF claimCombine, outcome, retained
  <2> QED
    BY <2>1, <1>0 DEF BackedInv, AttemptBacked
<1>11. CASE recordCombineStats
  <2>1. attempt # None /\ attempt \in Attempt
    BY <1>11 DEF recordCombineStats, TypeOK
  <2>2. /\ UNCHANGED <<result, plan, shares>>
        /\ attempt'.shares = attempt.shares
        /\ attempt'.stage = "succeeded" => Combines(attempt.shares, attempt.limits)
    BY <1>11, <2>1 DEF recordCombineStats, outcome, retained, Attempt
  <2>3. attempt'.stage = "succeeded" => Backed(attempt.shares)
    BY <2>2 DEF Combines, Decrypts, Backed
  <2> QED
    BY <1>0, <2>1, <2>2, <2>3 DEF BackedInv, AttemptBacked
<1>12. CASE finishCombine
  <2>1. /\ attempt # None /\ attempt.stage = "succeeded" /\ attempt' = None
        /\ shares' = shares
    BY <1>12 DEF finishCombine, retained
  <2>2. Backed(shares)
    BY <2>1, BackedGrows DEF BackedInv, AttemptBacked
  <2>3. plan' # None
    BY <1>12, <2>1, NoneAssumption DEF finishCombine, Progress
  <2> QED
    BY <1>0, <2>1, <2>2, <2>3 DEF BackedInv, AttemptBacked
<1>13. CASE finishFailedCombine
  BY <1>0, <1>13 DEF finishFailedCombine, outcome, retained, BackedInv, AttemptBacked
<1>14. CASE UNCHANGED vars
  BY <1>1, <1>14 DEF vars, outcome, retained, combining
<1> QED
  BY <1>2, <1>3, <1>4, <1>5, <1>6, <1>8, <1>9, <1>10, <1>11, <1>12, <1>13, <1>14
     DEF Next, Output, Compute

(***************************************************************************)
(* No result is published of a batch with a ciphertext that does not open, *)
(* nor without a threshold of right shares for every sub-batch             *)
(* (CombineSharesBounded, cluster.go:495-560; tryCombine, node.go:958).    *)
(***************************************************************************)
THEOREM ResultBackedTheorem == Spec => []ResultBacked
<1>1. Init => BackedInv
  BY DEF Init, BackedInv, AttemptBacked
<1>2. IInv /\ BackedInv => ResultBacked
  <2> SUFFICES ASSUME IInv, BackedInv, result, plan = "full"
               PROVE  Backed({s \in shares : s.batch = Planned})
    BY DEF ResultBacked, Backed
  <2>1. {s \in shares : s.batch = Planned} = shares
    BY DEF IInv, Pruned
  <2> QED
    BY <2>1 DEF BackedInv
<1>3. IInv /\ BackedInv /\ [Next]_vars => BackedInv'
  BY BackedStep
<1> QED
  BY Invariance, <1>1, <1>2, <1>3, PTL DEF Spec

-----------------------------------------------------------------------------
\* Combining begins after the node's own shares, which are made in a slot that
\* has no result.
SharingInv ==
    /\ attempt # None => shareGenerationDone
    /\ acs = "sharing" => ~result

LEMMA SharingStep ==
    ASSUME IInv, BackedInv, SharingInv, [Next]_vars
    PROVE  SharingInv'
<1> USE DEF IInv, SharingInv
<1>1. CASE /\ UNCHANGED result \/ acs' # "sharing"
           /\ acs' \in {acs, "done", "decided"}
           /\ attempt' # None => attempt # None
           /\ shareGenerationDone => shareGenerationDone'
  BY <1>1
<1>2. CASE startConsensus \/ inputProposal \/ receiveOutput \/ failOutput \/ failShare
  BY <1>1, <1>2 DEF startConsensus, inputProposal, receiveOutput, failOutput, failShare,
                    markSlotFailed, outcome, combining
<1>3. CASE finishEmptyMaterializedSet \/ makeShare
  BY <1>1, <1>3 DEF finishEmptyMaterializedSet, makeShare, outcome, combining
<1>4. CASE finishShares \/ \E s \in Sendable : receiveShare(s)
  BY <1>1, <1>4 DEF finishShares, receiveShare, outcome, handlers, combining
<1>5. CASE recordCombineStats \/ finishFailedCombine
  BY <1>1, <1>5 DEF recordCombineStats, finishFailedCombine, outcome, handlers
<1>6. CASE storePlan
  <2>1. plan = None /\ attempt' = attempt /\ result' = result
    BY <1>6 DEF storePlan, Progress, outcome
  <2>2. ~result /\ attempt = None
    BY <2>1, NoneAssumption DEF BackedInv, Progress
  <2> QED  BY <2>1, <2>2
<1>7. CASE claimCombine
  <2>1. UNCHANGED <<result, acs, shareGenerationDone>>
    BY <1>7 DEF claimCombine, outcome, handlers
  <2>2. CASE Claimable
    BY <2>1, <2>2 DEF Claimable
  <2>3. CASE ~Claimable
    BY <1>7, <2>1, <2>3 DEF claimCombine
  <2> QED  BY <2>2, <2>3
<1>8. CASE finishCombine
  <2>1. attempt # None /\ attempt' = None /\ acs' = acs
    BY <1>8 DEF finishCombine, handlers
  <2>2. acs # "sharing"
    BY <2>1 DEF Progress
  <2> QED  BY <2>1, <2>2
<1>9. CASE UNCHANGED vars
  BY <1>1, <1>9 DEF vars, outcome, handlers, combining
<1> QED
  BY <1>2, <1>3, <1>4, <1>5, <1>6, <1>7, <1>8, <1>9 DEF Next, Output, Compute

\* The outcome that the handlers see is the one of the abstract slot.
LEMMA EndedAlike ==
    ASSUME IInv
    PROVE  Promise!Ended <=> result \/ failure
  BY DEF IInv, OneOutcome, Promise!Ended

LEMMA FailureOutcome ==
    ASSUME IInv, markSlotFailed, UNCHANGED <<plan, shareGenerationDone>>,
           (starting # "idle")' = (starting # "idle")
    PROVE  [Promise!Next]_(Promise!vars)
<1>1. PlanState' = PlanState
  BY DEF PlanState
<1>2. CASE result \/ failure
  BY <1>1, <1>2 DEF markSlotFailed, Promise!vars
<1>3. CASE ~(result \/ failure)
  <2>1. Promise!Fail
    BY <1>1, <1>3, EndedAlike DEF markSlotFailed, Promise!Fail
  <2> QED  BY <2>1 DEF Promise!Next
<1> QED  BY <1>2, <1>3

LEMMA OutcomeStep ==
    ASSUME IInv, BackedInv, SharingInv, [Next]_vars
    PROVE  [Promise!Next]_(Promise!vars)
<1>1. CASE UNCHANGED <<phase, starting, plan, shareGenerationDone>>
  BY <1>1 DEF Promise!vars, PlanState
<1>2. CASE startConsensus
  <2>1. /\ starting = "idle" /\ starting' # "idle"
        /\ UNCHANGED <<plan, shareGenerationDone>>
        /\ phase' = IF result \/ failure THEN phase ELSE "running"
    BY <1>2 DEF startConsensus
  <2>2. Promise!Start
    BY <2>1, EndedAlike DEF Promise!Start, PlanState
  <2> QED  BY <2>2 DEF Promise!Next
<1>3. CASE inputProposal
  <2>1. /\ starting # "idle" /\ starting' # "idle"
        /\ UNCHANGED <<plan, shareGenerationDone>>
    BY <1>3 DEF inputProposal
  <2>2. CASE markSlotFailed
    BY <2>1, <2>2, FailureOutcome
  <2>3. CASE UNCHANGED outcome
    BY <2>1, <2>3 DEF outcome, Promise!vars, PlanState
  <2> QED  BY <1>3, <2>2, <2>3 DEF inputProposal
<1>4. CASE failOutput \/ failShare
  BY <1>4, FailureOutcome DEF failOutput, failShare
<1>5. CASE finishEmptyMaterializedSet
  <2>1. UNCHANGED <<starting, shareGenerationDone>>
    BY <1>5 DEF finishEmptyMaterializedSet
  <2>2. CASE result \/ failure \/ plan # None
    BY <1>1, <1>5, <2>1, <2>2 DEF finishEmptyMaterializedSet, outcome
  <2>3. CASE ~(result \/ failure \/ plan # None)
    <3>1. plan = None /\ plan' = "empty" /\ phase' = "completed"
      BY <1>5, <2>3 DEF finishEmptyMaterializedSet, storeResult
    <3>2. ~shareGenerationDone /\ plan' # None
      BY <3>1, NoneAssumption DEF IInv, Progress
    <3>3. PlanState = "no" /\ PlanState' = "planned"
      BY <2>1, <3>1, <3>2 DEF PlanState
    <3>4. Promise!FinishEmpty
      BY <2>1, <2>3, <3>1, <3>3, EndedAlike DEF Promise!FinishEmpty
    <3> QED  BY <3>4 DEF Promise!Next
  <2> QED  BY <2>2, <2>3
<1>6. CASE storePlan
  <2>1. UNCHANGED <<phase, starting, shareGenerationDone>>
    BY <1>6 DEF storePlan, outcome
  <2>2. CASE plan # None \/ failure
    BY <1>1, <1>6, <2>1, <2>2 DEF storePlan
  <2>3. CASE plan = None /\ ~failure
    <3>1. plan' = "full"
      BY <1>6, <2>3 DEF storePlan
    <3>2. ~shareGenerationDone /\ plan' # None /\ ~result
      BY <2>3, <3>1, NoneAssumption DEF IInv, Progress, BackedInv
    <3>3. PlanState = "no" /\ PlanState' = "planned"
      BY <2>1, <2>3, <3>2 DEF PlanState
    <3>4. Promise!Plan
      BY <2>1, <2>3, <3>2, <3>3, EndedAlike DEF Promise!Plan
    <3> QED  BY <3>4 DEF Promise!Next
  <2> QED  BY <2>2, <2>3
<1>7. CASE finishShares
  <2>1. /\ acs = "sharing" /\ shareGenerationDone'
        /\ UNCHANGED <<phase, starting, plan>>
    BY <1>7 DEF finishShares, outcome
  <2>2. plan # None /\ ~shareGenerationDone /\ phase # "completed"
    BY <2>1, NoneAssumption DEF IInv, Progress, OneOutcome, SharingInv
  <2>3. PlanState = "planned" /\ PlanState' = "shared"
    BY <2>1, <2>2 DEF PlanState
  <2>4. Promise!Share
    BY <2>1, <2>2, <2>3 DEF Promise!Share
  <2> QED  BY <2>4 DEF Promise!Next
<1>8. CASE finishCombine
  <2>1. attempt # None /\ UNCHANGED <<starting, plan, shareGenerationDone>> /\ storeResult
    BY <1>8 DEF finishCombine, handlers
  <2>2. CASE result \/ failure
    BY <1>1, <2>1, <2>2 DEF storeResult
  <2>3. CASE ~(result \/ failure)
    <3>1. phase' = "completed"
      BY <2>1, <2>3 DEF storeResult
    <3>2. plan # None /\ shareGenerationDone
      BY <2>1, NoneAssumption DEF IInv, Progress, SharingInv
    <3>3. PlanState = "shared" /\ PlanState' = "shared"
      BY <2>1, <3>2 DEF PlanState
    <3>4. Promise!Complete
      BY <2>1, <2>3, <3>1, <3>3, EndedAlike DEF Promise!Complete
    <3> QED  BY <3>4 DEF Promise!Next
  <2> QED  BY <2>2, <2>3
<1>9. CASE receiveOutput \/ makeShare \/ \E s \in Sendable : receiveShare(s)
  BY <1>1, <1>9 DEF receiveOutput, makeShare, receiveShare, outcome, handlers
<1>10. CASE claimCombine \/ recordCombineStats \/ finishFailedCombine
  BY <1>1, <1>10 DEF claimCombine, recordCombineStats, finishFailedCombine, outcome, handlers
<1>11. CASE UNCHANGED vars
  BY <1>1, <1>11 DEF vars, outcome, handlers
<1> QED
  BY <1>2, <1>3, <1>4, <1>5, <1>6, <1>7, <1>8, <1>9, <1>10, <1>11 DEF Next, Output, Compute

(***************************************************************************)
(* However handlers of the output, of shares and of the start interleave,  *)
(* the slot they work on is one of SlotOutcome: planned once, its result   *)
(* after its own shares, one end (node.go:488-499, 725-804, 840-868,       *)
(* 950-978, 992-1019, 1298-1314).                                          *)
(***************************************************************************)
THEOREM Refinement == Spec => KeepsPromise
<1>1. Init => Promise!Init
  BY DEF Init, Promise!Init, PlanState
<1>2. Init => BackedInv /\ SharingInv
  BY DEF Init, BackedInv, AttemptBacked, SharingInv
<1>3. IInv /\ BackedInv /\ SharingInv /\ [Next]_vars => BackedInv' /\ SharingInv'
  BY BackedStep, SharingStep
<1>4. IInv /\ BackedInv /\ SharingInv /\ [Next]_vars => [Promise!Next]_(Promise!vars)
  BY OutcomeStep
<1> QED
  BY Invariance, <1>1, <1>2, <1>3, <1>4, PTL DEF Spec, KeepsPromise, Promise!Spec
=============================================================================
