------------------------------ MODULE ACSProof ------------------------------
(***************************************************************************)
(* ACS keeps the promise of CommonSubset, misses no completion and leaves  *)
(* no correct node without an output, for every N > 3F and every set of at *)
(* most F faulty nodes.                                                    *)
(***************************************************************************)
EXTENDS ACS, FiniteSetTheorems, TLAPS

\* A node's results are the agreements' values.
ResultsAgreed ==
    \A n \in Correct, p \in Node :
        bbaResults[n][p] # None => bbaResults[n][p] = agreed[p]

\* A node that has p's batch, or its result, has no input left to give.
InputSpent ==
    \A n \in Correct, p \in Node :
        p \in rbcResults[n] \/ bbaResults[n][p] # None => p \notin accepting[n]

\* What stands behind each input: a batch for TRUE, N - F results for FALSE.
InputBacked ==
    \A p \in Node :
        /\ TRUE \in given[p] => \E n \in Correct : p \in rbcResults[n]
        /\ FALSE \in given[p] =>
              \E n \in Correct : Cardinality(Truthy(bbaResults[n])) >= N - F
        /\ agreed[p] # None => agreed[p] \in given[p]

\* Batches come from those who proposed.
BatchOrigin == \A n \in Correct : rbcResults[n] \subseteq proposed \union Speaking

\* A decided subset is the final one, and the slot adapter has seen it.
OutputFinal ==
    \A n \in Correct :
        /\ output[n] # None =>
              /\ Complete(bbaResults[n], rbcResults[n])
              /\ output[n] = Truthy(bbaResults[n])
        /\ slotOutput[n] = IF output[n] = None THEN None
                           ELSE maybeBuildOutput(output[n])

IInv ==
    /\ TypeOK
    /\ ResultsAgreed
    /\ InputSpent
    /\ InputBacked
    /\ BatchOrigin
    /\ OutputFinal
    /\ NothingMissed

-----------------------------------------------------------------------------
LEMMA Constants ==
    /\ IsFiniteSet(Node) /\ N \in Nat /\ F \in Nat /\ N - F \in Int
    /\ Correct \subseteq Node
    /\ \A S \in SUBSET Node : IsFiniteSet(S) /\ Cardinality(S) \in Nat
BY NodeAssumption, FaultAssumption, FS_Subset, FS_CardinalityType
   DEF N, Correct

\* At least N - F nodes are correct.
LEMMA EnoughCorrect == Cardinality(Correct) >= N - F
<1>1. /\ IsFiniteSet(Node) /\ IsFiniteSet(Faulty)
      /\ Cardinality(Faulty) \in Nat /\ Cardinality(Node) \in Nat
  BY NodeAssumption, FS_Subset, FS_CardinalityType
<1>2. Cardinality(Node \ Faulty) = Cardinality(Node) - Cardinality(Node \cap Faulty)
  BY <1>1, FS_Difference
<1>3. Node \cap Faulty = Faulty
  BY NodeAssumption
<1> QED
  BY <1>1, <1>2, <1>3, FaultAssumption DEF N, Correct

LEMMA CorrectExists == \E n \in Correct : TRUE
<1>1. F \in Nat /\ N \in Nat /\ N > 3 * F
  BY FaultAssumption, Constants
<1>2. N - F > 0 /\ Cardinality(Correct) \in Nat
  BY <1>1, Constants
<1>3. Cardinality(Correct) # 0
  BY <1>2, Constants, EnoughCorrect
<1> QED
  BY <1>3, FS_EmptySet

LEMMA Monotone ==
    ASSUME NEW S \in SUBSET Node, NEW T \in SUBSET Node, S \subseteq T
    PROVE  Cardinality(S) <= Cardinality(T)
BY Constants, FS_Subset

\* One more result adds at most one to the count.
LEMMA OneMore ==
    ASSUME NEW S \in SUBSET Node, NEW p \in Node
    PROVE  Cardinality(S \union {p}) <= Cardinality(S) + 1
<1>1. Cardinality(S \union {p}) =
        IF p \in S THEN Cardinality(S) ELSE Cardinality(S) + 1
  BY Constants, FS_AddElement
<1> QED
  BY <1>1, Constants

(***************************************************************************)
(* The step all handlers share: processAgreement, possibly with a batch    *)
(* that has just come out.  It may skip tryCompleteAgreement only if p has *)
(* not yielded TRUE (as in inputValue, where nobody has p's batch yet).    *)
(***************************************************************************)
LEMMA AgreementStep ==
    ASSUME IInv,
           NEW n \in Correct, NEW p \in Node,
           NEW vote \in BOOLEAN, NEW last \in BOOLEAN,
           NEW Y \in SUBSET Node, NEW got \in [Y -> BOOLEAN],
           NEW batches \in SUBSET Node,
           processAgreement(n, p, batches, vote, got, last),
           rbcResults' = [rbcResults EXCEPT ![n] = batches],
           rbcResults[n] \subseteq batches,
           batches = IF vote THEN rbcResults[n] \union {p} ELSE rbcResults[n],
           proposed \subseteq proposed', proposed' \subseteq Correct,
           batches \subseteq proposed' \union Speaking,
           last \/ p \in Y \/ agreed[p] # TRUE
    PROVE  /\ IInv'
           /\ \/ output' = output
              \/ /\ output[n] = None
                 /\ output' = [output EXCEPT ![n] = Truthy(bbaResults'[n])]
<1> DEFINE voted == IF vote THEN accepting[n] \intersect {p} ELSE {}
           first == [bbaResults[n] EXCEPT ![p] = IF p \in Y THEN got[p] ELSE @]
           fill == IF p \in Y /\ got[p] /\ Reached(first)
                   THEN accepting[n] \ {p} ELSE {}
           results == [q \in Node |-> IF q \in Y THEN got[q] ELSE bbaResults[n][q]]
           inputs == [q \in Node |->
                         given[q] \union (IF q \in voted THEN {TRUE} ELSE {})
                                  \union (IF q \in fill THEN {FillIn} ELSE {})]
<1>t. TypeOK
  BY DEF IInv
<1>d. DOMAIN got = Y
  OBVIOUS
<1>1. /\ Y \subseteq fill \union {p}
      /\ \A q \in Y : /\ bbaResults[n][q] = None
                      /\ IF agreed[q] = None THEN got[q] \in inputs[q]
                         ELSE got[q] = agreed[q]
      /\ accepting' = [accepting EXCEPT ![n] = @ \ (voted \union fill \union Y)]
      /\ given' = inputs
      /\ agreed' = [q \in Node |-> IF q \in Y THEN got[q] ELSE agreed[q]]
      /\ bbaResults' = [bbaResults EXCEPT ![n] = results]
  BY <1>d DEF processAgreement, Voted, MayYield
<1>2. IF last \/ p \in Y
      THEN tryCompleteAgreement(n, results, batches)
      ELSE output' = output /\ slotOutput' = slotOutput
  BY <1>d DEF processAgreement, Voted
<1>3. /\ fill \subseteq Node /\ voted \subseteq Node
      /\ first \in [Node -> BOOLEAN \union {None}]
      /\ results \in [Node -> BOOLEAN \union {None}]
      /\ inputs \in [Node -> SUBSET BOOLEAN]
      /\ \A q \in Y : got[q] \in BOOLEAN
      /\ accepting[n] \subseteq Node
      /\ bbaResults[n] \in [Node -> BOOLEAN \union {None}]
  <2>1. /\ accepting[n] \subseteq Node
        /\ bbaResults[n] \in [Node -> BOOLEAN \union {None}]
    BY <1>t DEF TypeOK
  <2>2. fill \subseteq Node /\ voted \subseteq Node
    BY <2>1
  <2>3. \A q \in Y : got[q] \in BOOLEAN
    OBVIOUS
  <2>4. first \in [Node -> BOOLEAN \union {None}]
    <3>1. (IF p \in Y THEN got[p] ELSE bbaResults[n][p]) \in BOOLEAN \union {None}
      BY <2>1, <2>3
    <3> QED
      BY <2>1, <3>1
  <2>5. results \in [Node -> BOOLEAN \union {None}]
    <3>1. \A q \in Node :
             (IF q \in Y THEN got[q] ELSE bbaResults[n][q]) \in BOOLEAN \union {None}
      BY <2>1, <2>3
    <3> QED
      BY <3>1
  <2>6. inputs \in [Node -> SUBSET BOOLEAN]
    <3>1. \A q \in Node : given[q] \subseteq BOOLEAN
      BY <1>t DEF TypeOK
    <3>2. FillIn \in BOOLEAN
      BY DEF FillIn
    <3>3. \A q \in Node : inputs[q] \subseteq BOOLEAN
      BY <3>1, <3>2
    <3> QED
      BY <3>3
  <2> QED
    BY <2>1, <2>2, <2>3, <2>4, <2>5, <2>6
<1>4. bbaResults'[n] = results /\ \A m \in Correct \ {n} : bbaResults'[m] = bbaResults[m]
  BY <1>1, <1>t DEF TypeOK
<1>5. rbcResults'[n] = batches /\ \A m \in Correct \ {n} : rbcResults'[m] = rbcResults[m]
  BY <1>t DEF TypeOK
<1>6. /\ accepting'[n] = accepting[n] \ (voted \union fill \union Y)
      /\ \A m \in Correct \ {n} : accepting'[m] = accepting[m]
  BY <1>1, <1>t DEF TypeOK
<1>n. None \notin BOOLEAN
  BY NodeAssumption
\* Results of n only grow, and the agreements' values are final.
<1>7. /\ \A q \in Node : bbaResults[n][q] # None => results[q] = bbaResults[n][q]
      /\ \A q \in Node : agreed[q] # None => agreed'[q] = agreed[q]
      /\ \A q \in Y : agreed'[q] = got[q] /\ results[q] = got[q]
  BY <1>1
<1>8. Truthy(bbaResults[n]) \subseteq Truthy(results)
  BY <1>7, <1>n DEF Truthy
<1>9. /\ Truthy(results) \in SUBSET Node /\ Truthy(bbaResults[n]) \in SUBSET Node
      /\ Truthy(first) \in SUBSET Node
  BY DEF Truthy
<1>a. fill # {} => Cardinality(Truthy(results)) >= N - F
  <2> SUFFICES ASSUME fill # {} PROVE Cardinality(Truthy(results)) >= N - F
    OBVIOUS
  <2>1. p \in Y /\ got[p] /\ Cardinality(Truthy(first)) = N - F
    BY DEF Reached
  <2>2. Truthy(first) \subseteq Truthy(results)
    BY <1>7, <1>3, <1>n, <2>1 DEF Truthy
  <2> QED
    BY <2>1, <2>2, <1>9, Monotone, Constants
\* Why "== N - F" steps over nothing.
<1>b. Cardinality(Truthy(results)) >= N - F => accepting'[n] = {}
  <2> SUFFICES ASSUME Cardinality(Truthy(results)) >= N - F PROVE accepting'[n] = {}
    OBVIOUS
  <2>1. CASE Cardinality(Truthy(bbaResults[n])) >= N - F
    BY <2>1, <1>6 DEF IInv, NothingMissed
  <2>2. CASE /\ ~(Cardinality(Truthy(bbaResults[n])) >= N - F)
             /\ p \in Y /\ got[p] /\ Reached(first)
    BY <2>2, <1>6
  <2>3. CASE /\ ~(Cardinality(Truthy(bbaResults[n])) >= N - F)
             /\ ~(p \in Y /\ got[p] /\ Reached(first))
    <3>1. fill = {} /\ Y \subseteq {p}
      BY <2>3, <1>1
    <3>2. results = first
      BY <3>1, <1>3
    <3>3. CASE p \in Y /\ got[p]
      <4>1. Truthy(first) \subseteq Truthy(bbaResults[n]) \union {p}
        BY <1>3 DEF Truthy
      <4>2. Cardinality(Truthy(first)) <= Cardinality(Truthy(bbaResults[n])) + 1
        <5>1. Truthy(bbaResults[n]) \union {p} \in SUBSET Node
          BY <1>9
        <5>2. Cardinality(Truthy(first)) <= Cardinality(Truthy(bbaResults[n]) \union {p})
          BY <4>1, <5>1, <1>9, Monotone
        <5>3. Cardinality(Truthy(bbaResults[n]) \union {p})
                 <= Cardinality(Truthy(bbaResults[n])) + 1
          BY <1>9, OneMore
        <5> HIDE DEF first
        <5> QED
          BY <5>1, <5>2, <5>3, <1>9, Constants
      <4>3. Cardinality(Truthy(first)) # N - F
        BY <2>3, <3>3 DEF Reached
      <4> QED
        BY <4>2, <4>3, <2>3, <3>2, <1>9, Constants
    <3>4. CASE ~(p \in Y /\ got[p])
      <4>1. Truthy(results) \subseteq Truthy(bbaResults[n])
        BY <3>4, <3>1, <1>3 DEF Truthy
      <4> QED
        BY <4>1, <2>3, <1>9, Monotone, Constants
    <3> QED
      BY <3>3, <3>4
  <2> QED
    BY <2>1, <2>2, <2>3
<1>c. TypeOK'
  <2>1. accepting' \in [Correct -> SUBSET Node]
    BY <1>1, <1>3, <1>t DEF TypeOK
  <2>2. given' \in [Node -> SUBSET BOOLEAN]
    BY <1>1, <1>3
  <2>3. agreed' \in [Node -> BOOLEAN \union {None}]
    <3>1. \A q \in Node :
             (IF q \in Y THEN got[q] ELSE agreed[q]) \in BOOLEAN \union {None}
      BY <1>3, <1>t DEF TypeOK
    <3> QED
      BY <3>1, <1>1
  <2>4. bbaResults' \in [Correct -> [Node -> BOOLEAN \union {None}]]
    BY <1>1, <1>3, <1>t DEF TypeOK
  <2>5. rbcResults' \in [Correct -> SUBSET Node]
    BY <1>t DEF TypeOK
  <2>6. /\ output' \in [Correct -> {None} \union SUBSET Node]
        /\ slotOutput' \in [Correct -> {None, Failed} \union SUBSET Node]
    <3> HIDE DEF results
    <3>1. /\ output \in [Correct -> {None} \union SUBSET Node]
          /\ slotOutput \in [Correct -> {None, Failed} \union SUBSET Node]
      BY <1>t DEF TypeOK
    <3>2. CASE output' = output /\ slotOutput' = slotOutput
      BY <3>1, <3>2
    <3>3. CASE tryCompleteAgreement(n, results, batches)
      <4>1. PICK S \in SUBSET Node : S = Truthy(results)
        BY <1>9
      <4>2. PICK o \in {None} \union SUBSET Node : output' = [output EXCEPT ![n] = o]
        BY <3>1, <3>3, <4>1 DEF tryCompleteAgreement, Subset
      <4>3. maybeBuildOutput(S) \in {None, Failed} \union SUBSET Node
        BY <4>1 DEF maybeBuildOutput
      <4>4. PICK q \in {None, Failed} \union SUBSET Node :
              slotOutput' = [slotOutput EXCEPT ![n] = q]
        BY <3>1, <3>3, <4>1, <4>3 DEF tryCompleteAgreement, Subset
      <4> QED
        BY <3>1, <4>2, <4>4
    <3> QED
      BY <1>2, <3>2, <3>3
  <2> QED
    BY <2>1, <2>2, <2>3, <2>4, <2>5, <2>6 DEF TypeOK
<1>e. ResultsAgreed'
  <2> SUFFICES ASSUME NEW m \in Correct, NEW q \in Node, bbaResults'[m][q] # None
               PROVE  bbaResults'[m][q] = agreed'[q]
    BY DEF ResultsAgreed
  <2>1. CASE m = n /\ q \in Y
    BY <2>1, <1>4, <1>7
  <2>2. CASE ~(m = n /\ q \in Y)
    <3>1. bbaResults'[m][q] = bbaResults[m][q]
      BY <2>2, <1>4
    <3>2. bbaResults[m][q] = agreed[q]
      BY <3>1 DEF IInv, ResultsAgreed
    <3> QED
      BY <3>1, <3>2, <1>7
  <2> QED
    BY <2>1, <2>2
<1>f. InputSpent'
  <2> SUFFICES ASSUME NEW m \in Correct, NEW q \in Node,
                      q \in rbcResults'[m] \/ bbaResults'[m][q] # None
               PROVE  q \notin accepting'[m]
    BY DEF InputSpent
  <2>1. CASE m # n
    BY <2>1, <1>4, <1>5, <1>6 DEF IInv, InputSpent
  <2>2. CASE m = n
    <3>1. CASE q \in Y
      BY <2>2, <3>1, <1>6
    <3>2. CASE q \notin Y /\ bbaResults'[n][q] # None
      <4>1. bbaResults[n][q] # None
        BY <3>2, <1>4
      <4> QED
        BY <4>1, <2>2, <1>6 DEF IInv, InputSpent
    <3>3. CASE q \in batches
      <4>1. CASE q \in rbcResults[n]
        BY <4>1, <2>2, <1>6 DEF IInv, InputSpent
      <4>2. CASE q \notin rbcResults[n]
        <5>1. q = p /\ vote
          BY <4>2, <3>3
        <5> QED
          BY <5>1, <2>2, <1>6
      <4> QED
        BY <4>1, <4>2
    <3> QED
      BY <2>2, <3>1, <3>2, <3>3, <1>5
  <2> QED
    BY <2>1, <2>2
\* What a correct node counted as true stays counted.
<1>g. \A m \in Correct :
         Cardinality(Truthy(bbaResults[m])) >= N - F =>
            Cardinality(Truthy(bbaResults'[m])) >= N - F
  <2> SUFFICES ASSUME NEW m \in Correct,
                      Cardinality(Truthy(bbaResults[m])) >= N - F
               PROVE  Cardinality(Truthy(bbaResults'[m])) >= N - F
    OBVIOUS
  <2>1. CASE m # n
    BY <2>1, <1>4
  <2>2. CASE m = n
    <3>1. Cardinality(Truthy(bbaResults[n])) <= Cardinality(Truthy(results))
      BY <1>8, <1>9, Monotone
    <3> HIDE DEF results
    <3> QED
      BY <2>2, <3>1, <1>4, <1>9, Constants
  <2> QED
    BY <2>1, <2>2
<1>h. InputBacked'
  <2> SUFFICES ASSUME NEW q \in Node
               PROVE  /\ TRUE \in given'[q] => \E m \in Correct : q \in rbcResults'[m]
                      /\ FALSE \in given'[q] =>
                            \E m \in Correct : Cardinality(Truthy(bbaResults'[m])) >= N - F
                      /\ agreed'[q] # None => agreed'[q] \in given'[q]
    BY DEF InputBacked
  <2>0. given'[q] = given[q] \union (IF q \in voted THEN {TRUE} ELSE {})
                             \union (IF q \in fill THEN {FALSE} ELSE {})
    BY <1>1 DEF FillIn
  <2>1. ASSUME TRUE \in given'[q] PROVE \E m \in Correct : q \in rbcResults'[m]
    <3>1. CASE q \in voted
      BY <3>1, <1>5
    <3>2. CASE TRUE \in given[q]
      <4>1. PICK m \in Correct : q \in rbcResults[m]
        BY <3>2 DEF IInv, InputBacked
      <4> QED
        BY <4>1, <1>5
    <3> HIDE DEF voted, fill
    <3> QED
      BY <2>0, <2>1, <3>1, <3>2
  <2>2. ASSUME FALSE \in given'[q]
        PROVE  \E m \in Correct : Cardinality(Truthy(bbaResults'[m])) >= N - F
    <3>1. CASE q \in fill
      BY <3>1, <1>a, <1>4
    <3>2. CASE FALSE \in given[q]
      <4>1. PICK m \in Correct : Cardinality(Truthy(bbaResults[m])) >= N - F
        BY <3>2 DEF IInv, InputBacked
      <4> QED
        BY <4>1, <1>g
    <3> HIDE DEF voted, fill
    <3> QED
      BY <2>0, <2>2, <3>1, <3>2
  <2>3. ASSUME agreed'[q] # None PROVE agreed'[q] \in given'[q]
    <3>1. CASE agreed[q] # None
      <4>1. agreed[q] \in given[q]
        BY <3>1 DEF IInv, InputBacked
      <4> QED
        BY <4>1, <3>1, <1>7, <2>0
    <3>2. CASE agreed[q] = None
      <4>1. q \in Y
        BY <3>2, <2>3, <1>1
      <4> QED
        BY <4>1, <3>2, <1>1
    <3> QED
      BY <3>1, <3>2
  <2> QED
    BY <2>1, <2>2, <2>3
<1>i. BatchOrigin'
  BY <1>5 DEF BatchOrigin, IInv
\* Other nodes' outputs do not change.
<1>j. \A m \in Correct \ {n} : output'[m] = output[m] /\ slotOutput'[m] = slotOutput[m]
  BY <1>2, <1>t DEF TypeOK, tryCompleteAgreement
\* A node that has its output has every result.
<1>k. ASSUME output[n] # None
      PROVE  /\ results = bbaResults[n]
             /\ Complete(results, batches)
             /\ output[n] = Truthy(results)
             /\ output'[n] = output[n] /\ slotOutput'[n] = slotOutput[n]
  <2>1. Complete(bbaResults[n], rbcResults[n]) /\ output[n] = Truthy(bbaResults[n])
    BY <1>k DEF IInv, OutputFinal
  <2>2. Y = {}
    BY <2>1, <1>1 DEF Complete
  <2>3. results = bbaResults[n]
    BY <2>2, <1>3
  <2>4. output'[n] = output[n] /\ slotOutput'[n] = slotOutput[n]
    BY <1>k, <1>2, <1>t DEF TypeOK, tryCompleteAgreement
  <2>5. Complete(bbaResults[n], batches)
    BY <2>1 DEF Complete
  <2> HIDE DEF results
  <2> QED
    BY <2>1, <2>3, <2>4, <2>5
\* A node without one gets it when it is complete.
<1>l. ASSUME output[n] = None, Complete(results, batches)
      PROVE  /\ last \/ p \in Y
             /\ output' = [output EXCEPT ![n] = Truthy(results)]
             /\ slotOutput' = [slotOutput EXCEPT ![n] = maybeBuildOutput(Truthy(results))]
  <2>1. last \/ p \in Y
    <3> SUFFICES ASSUME ~last, p \notin Y PROVE FALSE
      OBVIOUS
    <3>1. Y = {}
      BY <1>1
    <3>2. results = bbaResults[n]
      BY <3>1, <1>3
    <3>3. results[p] # TRUE
      <4>1. results[p] # None
        BY <1>l DEF Complete
      <4>2. results[p] = agreed[p]
        BY <4>1, <3>2 DEF IInv, ResultsAgreed
      <4> QED
        BY <4>2
    <3>4. Truthy(results) \subseteq rbcResults[n]
      <4>1. p \notin Truthy(results)
        BY <3>3 DEF Truthy
      <4>2. Truthy(results) \subseteq rbcResults[n] \union {p}
        BY <1>l DEF Complete
      <4> QED
        BY <4>1, <4>2
    <3>5. Complete(bbaResults[n], rbcResults[n])
      BY <3>2, <3>4, <1>l DEF Complete
    <3> QED
      BY <3>5, <1>l DEF IInv, NothingMissed
  <2> QED
    BY <2>1, <1>l, <1>2 DEF tryCompleteAgreement, Subset
<1>m. ASSUME output[n] = None, ~Complete(results, batches)
      PROVE  output' = output /\ slotOutput' = slotOutput
  BY <1>m, <1>2, <1>t DEF TypeOK, tryCompleteAgreement
<1>o. OutputFinal'
  <2> SUFFICES ASSUME NEW m \in Correct
               PROVE  /\ output'[m] # None =>
                            /\ Complete(bbaResults'[m], rbcResults'[m])
                            /\ output'[m] = Truthy(bbaResults'[m])
                      /\ slotOutput'[m] = IF output'[m] = None THEN None
                                          ELSE maybeBuildOutput(output'[m])
    BY DEF OutputFinal
  <2>0. slotOutput[m] = IF output[m] = None THEN None ELSE maybeBuildOutput(output[m])
    BY DEF IInv, OutputFinal
  <2>1. CASE m # n
    BY <2>1, <1>4, <1>5, <1>j DEF IInv, OutputFinal
  <2>2. CASE m = n
    <3> HIDE DEF results
    <3>1. CASE output[n] # None
      BY <3>1, <2>0, <2>2, <1>k, <1>4, <1>5
    <3>2. CASE output[n] = None /\ Complete(results, batches)
      <4>1. output'[n] = Truthy(results) /\ slotOutput'[n] = maybeBuildOutput(Truthy(results))
        BY <3>2, <1>l, <1>t DEF TypeOK
      <4>2. Truthy(results) # None
        BY <1>9, NodeAssumption
      <4> QED
        BY <4>1, <4>2, <3>2, <2>2, <1>4, <1>5
    <3>3. CASE output[n] = None /\ ~Complete(results, batches)
      BY <3>3, <2>0, <2>2, <1>m
    <3> QED
      BY <3>1, <3>2, <3>3
  <2> QED
    BY <2>1, <2>2
<1>p. NothingMissed'
  <2> SUFFICES ASSUME NEW m \in Correct
               PROVE  /\ Complete(bbaResults'[m], rbcResults'[m]) => output'[m] # None
                      /\ Cardinality(Truthy(bbaResults'[m])) >= N - F => accepting'[m] = {}
    BY DEF NothingMissed
  <2>1. CASE m # n
    BY <2>1, <1>4, <1>5, <1>6, <1>j DEF IInv, NothingMissed
  <2>2. CASE m = n
    <3>1. Cardinality(Truthy(bbaResults'[n])) >= N - F => accepting'[n] = {}
      BY <1>b, <1>4
    <3>2. ASSUME Complete(results, batches) PROVE output'[n] # None
      <4>1. CASE output[n] # None
        BY <4>1, <1>k
      <4>2. CASE output[n] = None
        <5> HIDE DEF results
        <5>1. output'[n] = Truthy(results)
          BY <4>2, <3>2, <1>l, <1>t DEF TypeOK
        <5> QED
          BY <5>1, <1>9, NodeAssumption
      <4> QED
        BY <4>1, <4>2
    <3> HIDE DEF results
    <3> QED
      BY <2>2, <3>1, <3>2, <1>4, <1>5
  <2> QED
    BY <2>1, <2>2
<1>q. \/ output' = output
      \/ /\ output[n] = None
         /\ output' = [output EXCEPT ![n] = Truthy(bbaResults'[n])]
  <2>1. CASE output[n] # None
    <3>1. output' = output
      BY <2>1, <1>2, <1>t DEF TypeOK, tryCompleteAgreement
    <3> QED
      BY <3>1
  <2> HIDE DEF results
  <2>2. CASE output[n] = None
    BY <2>2, <1>l, <1>m, <1>4
  <2> QED
    BY <2>1, <2>2
<1> QED
  BY <1>c, <1>e, <1>f, <1>h, <1>i, <1>o, <1>p, <1>q DEF IInv

(***************************************************************************)
(* Nobody else can have yielded TRUE for a correct node that has not       *)
(* proposed: why inputValue need not try to complete.                      *)
(***************************************************************************)
LEMMA NotYetAgreed ==
    ASSUME IInv, NEW n \in Correct, n \notin proposed
    PROVE  agreed[n] # TRUE
<1> SUFFICES ASSUME agreed[n] = TRUE PROVE FALSE
  OBVIOUS
<1>1. n \in Node
  BY Constants
<1>2. TRUE \in given[n]
  BY <1>1, NodeAssumption DEF IInv, InputBacked
<1>3. PICK m \in Correct : n \in rbcResults[m]
  BY <1>1, <1>2 DEF IInv, InputBacked
<1>4. n \in proposed \union Speaking
  BY <1>3 DEF IInv, BatchOrigin
<1> QED
  BY <1>4, NodeAssumption DEF Correct

LEMMA YieldsType ==
    ASSUME IInv, NEW n \in Correct, NEW p \in Node, NEW got \in Yields(n, p)
    PROVE  \E Y \in SUBSET Node : got \in [Y -> BOOLEAN]
<1>1. accepting[n] \subseteq Node
  BY DEF IInv, TypeOK
<1>2. CASE got \in [{} -> BOOLEAN]
  BY <1>2
<1>3. CASE \E S \in SUBSET (accepting[n] \ {p}) : got \in [S \union {p} -> BOOLEAN]
  <2>1. PICK S \in SUBSET (accepting[n] \ {p}) : got \in [S \union {p} -> BOOLEAN]
    BY <1>3
  <2>2. S \union {p} \in SUBSET Node
    BY <1>1
  <2> QED
    BY <2>1, <2>2
<1> QED
  BY <1>2, <1>3 DEF Yields

\* Steps that only propose or spend an input.
LEMMA Frame ==
    ASSUME IInv,
           UNCHANGED <<rbcResults, given, agreed, bbaResults, output, slotOutput>>,
           proposed \subseteq proposed', proposed' \subseteq Correct,
           accepting' \in [Correct -> SUBSET Node],
           \A m \in Correct : accepting'[m] \subseteq accepting[m]
    PROVE  IInv'
<1>1. TypeOK'
  BY DEF IInv, TypeOK
<1>2. ResultsAgreed'
  BY DEF IInv, ResultsAgreed
<1>3. InputSpent'
  BY DEF IInv, InputSpent
<1>4. InputBacked'
  BY DEF IInv, InputBacked, Truthy
<1>5. BatchOrigin'
  BY DEF IInv, BatchOrigin
<1>6. OutputFinal'
  BY DEF IInv, OutputFinal, Complete, Truthy
<1>7. NothingMissed'
  <2> SUFFICES ASSUME NEW m \in Correct
               PROVE  /\ Complete(bbaResults[m], rbcResults[m]) => output[m] # None
                      /\ Cardinality(Truthy(bbaResults[m])) >= N - F => accepting'[m] = {}
    BY DEF NothingMissed
  <2>1. /\ Complete(bbaResults[m], rbcResults[m]) => output[m] # None
        /\ Cardinality(Truthy(bbaResults[m])) >= N - F => accepting[m] = {}
    BY DEF IInv, NothingMissed
  <2> QED
    BY <2>1
<1> QED
  BY <1>1, <1>2, <1>3, <1>4, <1>5, <1>6, <1>7 DEF IInv

\* What a step may do to an output.
Chooses(n) ==
    /\ output[n] = None
    /\ output' = [output EXCEPT ![n] = Truthy(bbaResults'[n])]

LEMMA NextStep ==
    ASSUME IInv, Next
    PROVE  /\ IInv'
           /\ proposed \subseteq proposed'
           /\ output' = output \/ \E n \in Correct : Chooses(n)
<1>t. TypeOK
  BY DEF IInv
<1>1. ASSUME NEW n \in Correct, inputValue(n)
      PROVE  IInv' /\ proposed \subseteq proposed' /\ output' = output
  BY <1>1, <1>t, Frame DEF inputValue, agreement, TypeOK
<1>2. ASSUME NEW n \in Correct, NEW got \in Yields(n, n), inputValueAlone(n, got)
      PROVE  /\ IInv' /\ proposed \subseteq proposed'
             /\ output' = output \/ Chooses(n)
  <2>1. PICK Y \in SUBSET Node : got \in [Y -> BOOLEAN]
    BY Constants, YieldsType
  <2>2. n \in Node /\ rbcResults[n] \subseteq Node
    BY <1>t, Constants DEF TypeOK
  <2>3. agreed[n] # TRUE
    BY <1>2, NotYetAgreed DEF inputValueAlone
  <2>4. proposed \subseteq proposed' /\ proposed' \subseteq Correct
    BY <1>2, <1>t DEF inputValueAlone, TypeOK
  <2>5. rbcResults[n] \union {n} \subseteq proposed' \union Speaking
    BY <1>2 DEF inputValueAlone, IInv, BatchOrigin
  <2>6. /\ processAgreement(n, n, rbcResults[n] \union {n}, TRUE, got, FALSE)
        /\ rbcResults' = [rbcResults EXCEPT ![n] = rbcResults[n] \union {n}]
    BY <1>2, <1>t DEF inputValueAlone, TypeOK
  <2>7. rbcResults[n] \union {n} \in SUBSET Node
    BY <2>2
  <2>8. /\ IInv'
        /\ \/ output' = output
           \/ /\ output[n] = None
              /\ output' = [output EXCEPT ![n] = Truthy(bbaResults'[n])]
    BY <2>1, <2>2, <2>3, <2>4, <2>5, <2>6, <2>7, AgreementStep
  <2> QED
    BY <2>4, <2>8 DEF Chooses
<1>3. ASSUME NEW n \in Correct, NEW p \in Node, NEW got \in Yields(n, p),
             handleBroadcast(n, p, got)
      PROVE  /\ IInv' /\ proposed \subseteq proposed'
             /\ output' = output \/ Chooses(n)
  <2>1. PICK Y \in SUBSET Node : got \in [Y -> BOOLEAN]
    BY YieldsType
  <2>2. rbcResults[n] \subseteq Node
    BY <1>t DEF TypeOK
  <2>4. proposed' = proposed /\ proposed \subseteq Correct
    BY <1>3, <1>t DEF handleBroadcast, TypeOK
  <2>5. rbcResults[n] \union {p} \subseteq proposed' \union Speaking
    BY <1>3 DEF handleBroadcast, IInv, BatchOrigin
  <2>6. /\ processAgreement(n, p, rbcResults[n] \union {p}, TRUE, got, TRUE)
        /\ rbcResults' = [rbcResults EXCEPT ![n] = rbcResults[n] \union {p}]
    BY <1>3, <1>t DEF handleBroadcast, TypeOK
  <2>7. rbcResults[n] \union {p} \in SUBSET Node
    BY <2>2
  <2>8. /\ IInv'
        /\ \/ output' = output
           \/ /\ output[n] = None
              /\ output' = [output EXCEPT ![n] = Truthy(bbaResults'[n])]
    BY <2>1, <2>4, <2>5, <2>6, <2>7, AgreementStep
  <2> QED
    BY <2>4, <2>8 DEF Chooses
<1>4. ASSUME NEW n \in Correct, NEW p \in Node, NEW got \in Yields(n, p),
             handleAgreement(n, p, got)
      PROVE  /\ IInv' /\ proposed \subseteq proposed'
             /\ output' = output \/ Chooses(n)
  <2>1. PICK Y \in SUBSET Node : got \in [Y -> BOOLEAN]
    BY YieldsType
  <2>2. rbcResults[n] \subseteq Node /\ p \in Y
    BY <1>4, <1>t, <2>1 DEF TypeOK, handleAgreement
  <2>4. proposed' = proposed /\ proposed \subseteq Correct
    BY <1>4, <1>t DEF handleAgreement, TypeOK
  <2>5. rbcResults[n] \subseteq proposed' \union Speaking
    BY <1>4 DEF handleAgreement, IInv, BatchOrigin
  <2>6. /\ processAgreement(n, p, rbcResults[n], FALSE, got, FALSE)
        /\ rbcResults' = [rbcResults EXCEPT ![n] = rbcResults[n]]
    BY <1>4, <1>t DEF handleAgreement, TypeOK
  <2> QED
    BY <2>1, <2>2, <2>4, <2>5, <2>6, AgreementStep DEF Chooses
<1>5. ASSUME NEW n \in Correct, NEW p \in Node, leaveFirstEpoch(n, p)
      PROVE  IInv' /\ proposed \subseteq proposed' /\ output' = output
  <2>1. /\ \A m \in Correct : accepting'[m] \subseteq accepting[m]
        /\ accepting' \in [Correct -> SUBSET Node]
    BY <1>5, <1>t DEF leaveFirstEpoch, TypeOK
  <2> QED
    BY <1>5, <1>t, <2>1, Frame DEF leaveFirstEpoch, TypeOK
<1> QED
  BY <1>1, <1>2, <1>3, <1>4, <1>5 DEF Next

LEMMA InitInvariant == ASSUME Init PROVE IInv
<1>1. \A n \in Correct : Truthy(bbaResults[n]) = {}
  BY NodeAssumption DEF Init, Truthy
<1>2. N - F > 0 /\ Cardinality({}) = 0
  <2>1. F \in Nat /\ N \in Nat /\ N > 3 * F
    BY FaultAssumption, Constants
  <2>2. N - F > 0
    BY <2>1
  <2> QED
    BY <2>2, FS_EmptySet
<1>3. \A n \in Correct : ~(Cardinality(Truthy(bbaResults[n])) >= N - F)
  <2> SUFFICES ASSUME NEW n \in Correct
               PROVE  ~(Cardinality(Truthy(bbaResults[n])) >= N - F)
    OBVIOUS
  <2>1. Cardinality(Truthy(bbaResults[n])) = 0
    BY <1>1, <1>2
  <2> QED
    BY <2>1, <1>2, Constants
<1>4. TypeOK
  BY DEF Init, TypeOK
<1>5. ResultsAgreed /\ InputSpent /\ BatchOrigin
  BY DEF Init, ResultsAgreed, InputSpent, BatchOrigin
<1>8. InputBacked
  <2>1. \A p \in Node : given[p] = {} /\ agreed[p] = None
    BY DEF Init
  <2> QED
    BY <2>1 DEF InputBacked
<1>6. OutputFinal
  BY DEF Init, OutputFinal
<1>7. NothingMissed
  BY <1>3 DEF NothingMissed, Complete
<1> QED
  BY <1>4, <1>5, <1>6, <1>7, <1>8 DEF IInv

THEOREM Invariance == Spec => []IInv
<1>1. IInv /\ UNCHANGED vars => IInv'
  BY Frame DEF vars, agreement, IInv, TypeOK
<1> QED
  BY InitInvariant, NextStep, <1>1, PTL DEF Spec

-----------------------------------------------------------------------------
\* Every variable of ACS stays of its type (acs.go:40-66).
THEOREM TypeCorrectness == Spec => []TypeOK
BY Invariance, PTL DEF IInv

\* A decided subset consists of exactly the instances that yield TRUE.
LEMMA OutputIsAgreed ==
    ASSUME IInv, NEW n \in Correct, output[n] # None
    PROVE  /\ output[n] = {p \in Node : agreed[p] = TRUE}
           /\ \A p \in Node : agreed[p] # None
<1>1. /\ \A p \in Node : bbaResults[n][p] # None
      /\ output[n] = Truthy(bbaResults[n])
  BY DEF IInv, OutputFinal, Complete
<1>2. \A p \in Node : bbaResults[n][p] = agreed[p]
  BY <1>1 DEF IInv, ResultsAgreed
<1> QED
  BY <1>1, <1>2 DEF Truthy

(***************************************************************************)
(* Correct nodes never hand over different slot outputs, nor does one fail *)
(* where another succeeds (bloc_slot.go:246).                              *)
(***************************************************************************)
THEOREM SlotAgreementTheorem == Spec => []SlotAgreement
<1>1. IInv => SlotAgreement
  <2> SUFFICES ASSUME IInv, NEW n \in Correct, NEW m \in Correct,
                      slotOutput[n] # None, slotOutput[m] # None
               PROVE  slotOutput[n] = slotOutput[m]
    BY DEF SlotAgreement
  <2>1. /\ output[n] # None /\ slotOutput[n] = maybeBuildOutput(output[n])
        /\ output[m] # None /\ slotOutput[m] = maybeBuildOutput(output[m])
    BY DEF IInv, OutputFinal
  <2> QED
    BY <2>1, OutputIsAgreed
<1> QED
  BY Invariance, <1>1, PTL

\* TRUE is agreed on only for a batch that a correct node has (acs.go:453).
THEOREM TrueIsHeldTheorem == Spec => []TrueIsHeld
<1>1. IInv => TrueIsHeld
  BY NodeAssumption DEF IInv, InputBacked, TrueIsHeld
<1> QED
  BY Invariance, <1>1, PTL

\* No completion is missed by any handler (acs.go:265, 409, 423).
THEOREM NothingMissedTheorem == Spec => []NothingMissed
BY Invariance, PTL DEF IInv

(***************************************************************************)
(* Once broadcasts and agreements have delivered what they owe, no correct *)
(* node waits for an output (acs.go:35-39).                                *)
(***************************************************************************)
THEOREM EveryoneOutputsTheorem == Spec => []EveryoneOutputs
<1>1. ASSUME IInv, Settled PROVE \A n \in Correct : output[n] # None
  <2>t. TypeOK
    BY <1>1 DEF IInv
  <2>1. ASSUME NEW n \in Correct, NEW p \in Node, p \in rbcResults[n]
        PROVE  \A m \in Correct : bbaResults[m][p] = agreed[p] /\ agreed[p] # None
    <3>1. \A m \in Correct : p \in rbcResults[m]
      BY <2>1, <1>1 DEF Settled
    <3>2. TakingPart(p)
      BY <3>1, <1>1 DEF IInv, InputSpent, TakingPart
    <3> QED
      BY <3>2, <1>1 DEF Settled, IInv, ResultsAgreed
  <2>2. \E n \in Correct : Cardinality(Truthy(bbaResults[n])) >= N - F
    <3> SUFFICES ASSUME \A n \in Correct : ~(Cardinality(Truthy(bbaResults[n])) >= N - F)
                 PROVE  FALSE
      OBVIOUS
    <3>1. \A p \in Node : FALSE \notin given[p]
      BY <1>1 DEF IInv, InputBacked
    <3>2. PICK n \in Correct : TRUE
      BY CorrectExists
    <3>3. \A p \in Correct : bbaResults[n][p] = agreed[p] /\ agreed[p] # None
      BY <2>1, <1>1, Constants DEF Settled
    <3>4. \A p \in Correct : agreed[p] = TRUE
      <4> SUFFICES ASSUME NEW p \in Correct PROVE agreed[p] = TRUE
        OBVIOUS
      <4>1. p \in Node /\ agreed[p] \in {TRUE, FALSE, None} /\ agreed[p] # None
        BY <3>3, <2>t, Constants DEF TypeOK
      <4>2. agreed[p] \in given[p]
        BY <4>1, <1>1 DEF IInv, InputBacked
      <4> QED
        BY <4>1, <4>2, <3>1
    <3>5. /\ Correct \subseteq Truthy(bbaResults[n])
          /\ Correct \in SUBSET Node /\ Truthy(bbaResults[n]) \in SUBSET Node
      BY <3>3, <3>4, Constants DEF Truthy
    <3>6. /\ Cardinality(Correct) \in Nat
          /\ Cardinality(Truthy(bbaResults[n])) \in Nat
          /\ Cardinality(Correct) <= Cardinality(Truthy(bbaResults[n]))
      BY <3>5, Monotone, Constants
    <3> QED
      BY <3>6, EnoughCorrect, Constants
  <2>3. PICK n \in Correct : Cardinality(Truthy(bbaResults[n])) >= N - F
    BY <2>2
  <2>4. \A p \in Truthy(bbaResults[n]) : p \in Node /\ p \in rbcResults[n]
    <3> SUFFICES ASSUME NEW p \in Truthy(bbaResults[n])
                 PROVE  p \in Node /\ p \in rbcResults[n]
      OBVIOUS
    <3>1. p \in Node /\ bbaResults[n][p] = TRUE
      BY DEF Truthy
    <3>2. agreed[p] = TRUE
      BY <3>1, <1>1, NodeAssumption DEF IInv, ResultsAgreed
    <3>3. TRUE \in given[p]
      BY <3>1, <3>2, <1>1, NodeAssumption DEF IInv, InputBacked
    <3>4. PICK m \in Correct : p \in rbcResults[m]
      BY <3>1, <3>3, <1>1 DEF IInv, InputBacked
    <3> QED
      BY <3>1, <3>4, <1>1 DEF Settled
  <2>5. ASSUME NEW m \in Correct
        PROVE  Cardinality(Truthy(bbaResults[m])) >= N - F
    <3>1. /\ Truthy(bbaResults[n]) \subseteq Truthy(bbaResults[m])
          /\ Truthy(bbaResults[n]) \in SUBSET Node
          /\ Truthy(bbaResults[m]) \in SUBSET Node
      BY <2>1, <2>4 DEF Truthy
    <3>2. /\ Cardinality(Truthy(bbaResults[n])) \in Nat
          /\ Cardinality(Truthy(bbaResults[m])) \in Nat
          /\ Cardinality(Truthy(bbaResults[n])) <= Cardinality(Truthy(bbaResults[m]))
      BY <3>1, Monotone, Constants
    <3> QED
      BY <3>2, <2>3, Constants
  <2>6. \A p \in Node : TakingPart(p)
    BY <2>5, <1>1 DEF IInv, NothingMissed, TakingPart
  <2>7. \A m \in Correct, p \in Node : bbaResults[m][p] # None
    BY <2>6, <1>1 DEF Settled
  <2>8. \A m \in Correct : Truthy(bbaResults[m]) \subseteq rbcResults[m]
    <3> SUFFICES ASSUME NEW m \in Correct, NEW p \in Truthy(bbaResults[m])
                 PROVE  p \in rbcResults[m]
      OBVIOUS
    <3>1. p \in Node /\ bbaResults[m][p] = TRUE
      BY DEF Truthy
    <3>2. bbaResults[n][p] = TRUE
      BY <3>1, <2>7, <1>1 DEF IInv, ResultsAgreed
    <3> QED
      BY <3>1, <3>2, <2>4, <1>1 DEF Truthy, Settled
  <2> QED
    BY <2>5, <2>7, <2>8, <1>1 DEF IInv, NothingMissed, Complete
<1>2. IInv => EveryoneOutputs
  BY <1>1 DEF EveryoneOutputs
<1> QED
  BY Invariance, <1>2, PTL

(***************************************************************************)
(* The common subset promised at acs.go:26-28: ACS implements it.          *)
(***************************************************************************)
THEOREM Refinement == Spec => KeepsPromise
<1>1. Init => Promise!Init
  BY DEF Init, Promise!Init
<1>2. IInv /\ [Next]_vars => [Promise!Next]_Promise!vars
  <2> SUFFICES ASSUME IInv, [Next]_vars PROVE [Promise!Next]_Promise!vars
    OBVIOUS
  <2>1. CASE UNCHANGED vars
    BY <2>1 DEF vars, Promise!vars
  <2>2. CASE Next
    <3>1. /\ IInv' /\ proposed \subseteq proposed'
          /\ output' = output \/ \E n \in Correct : Chooses(n)
      BY <2>2, NextStep
    <3>2. Promise!Offer
      BY <3>1 DEF Promise!Offer, IInv, TypeOK
    <3>3. CASE output' = output
      BY <3>2, <3>3 DEF Promise!Next
    <3>4. ASSUME NEW n \in Correct, Chooses(n) PROVE Promise!Next
      <4> DEFINE S == Truthy(bbaResults'[n])
      <4>1. output'[n] = S /\ S # None /\ S \in SUBSET Node
        BY <3>4, NodeAssumption DEF Chooses, IInv, TypeOK, Truthy
      <4>2. /\ Cardinality(S) >= N - F
            /\ S \subseteq proposed' \union Speaking
        BY <3>1, <4>1 DEF IInv, OutputFinal, Complete, BatchOrigin
      <4>3. \A m \in Correct : output[m] \in {None, S}
        <5> SUFFICES ASSUME NEW m \in Correct, output[m] # None PROVE output[m] = S
          OBVIOUS
        <5>1. m # n /\ output[n] = None
          BY <3>4 DEF Chooses
        <5>2. output'[m] = output[m]
          BY <5>1, <3>4 DEF Chooses, IInv, TypeOK
        <5>3. output'[m] # None /\ output'[n] # None
          BY <5>2, <4>1
        <5>4. \A i \in {m, n} :
                /\ \A p \in Node : bbaResults'[i][p] = agreed'[p]
                /\ output'[i] = Truthy(bbaResults'[i])
          BY <5>3, <3>1 DEF IInv, OutputFinal, Complete, ResultsAgreed
        <5>5. Truthy(bbaResults'[m]) = Truthy(bbaResults'[n])
          BY <5>4 DEF Truthy
        <5> QED
          BY <5>2, <5>4, <5>5
      <4>4. S \in SUBSET (Correct \union Speaking)
        BY <4>2, <3>1 DEF IInv, TypeOK
      <4>5. Promise!Choose(n, S)
        <5>1. output[n] = None /\ output' = [output EXCEPT ![n] = S]
          BY <3>4 DEF Chooses
        <5> HIDE DEF S
        <5> QED
          BY <5>1, <4>1, <4>2, <4>3 DEF Promise!Choose
      <4> QED
        BY <3>2, <4>4, <4>5 DEF Promise!Next
    <3> QED
      BY <3>1, <3>3, <3>4
  <2> QED
    BY <2>1, <2>2
<1> QED
  BY Invariance, <1>1, <1>2, PTL DEF Spec, KeepsPromise, Promise!Spec

-----------------------------------------------------------------------------
\* A value an agreement has yielded is the result of some correct node.
YieldedSomewhere ==
    \A p \in Node : agreed[p] # None => \E n \in Correct : bbaResults[n][p] = agreed[p]

\* What processAgreement does to one instance q at node n.
LEMMA InstanceStep ==
    ASSUME IInv,
           NEW n \in Correct, NEW p \in Node,
           NEW vote \in BOOLEAN, NEW last \in BOOLEAN,
           NEW Y \in SUBSET Node, NEW got \in [Y -> BOOLEAN],
           NEW batches \in SUBSET Node,
           processAgreement(n, p, batches, vote, got, last),
           NEW q \in Node
    PROVE  /\ agreed'[q] = IF q \in Y THEN got[q] ELSE agreed[q]
           /\ \A m \in Correct :
                 bbaResults'[m][q] = IF m = n /\ q \in Y THEN got[q] ELSE bbaResults[m][q]
           /\ q \in Y => /\ bbaResults[n][q] = None
                         /\ MayYield(q, got[q], given'[q])
                         /\ q \notin accepting'[n]
           /\ \A m \in Correct \ {n} : accepting'[m] = accepting[m]
           /\ \/ /\ given'[q] = given[q]
                 /\ q \in accepting'[n] <=> q \in accepting[n]
              \/ /\ q \in accepting[n] /\ q \notin accepting'[n]
                 /\ given'[q] \in {given[q], given[q] \union {TRUE}, given[q] \union {FALSE}}
                 /\ given'[q] # {}
<1> DEFINE voted == Voted(n, p, vote)
           first == [bbaResults[n] EXCEPT ![p] = IF p \in Y THEN got[p] ELSE @]
           fill == IF p \in Y /\ got[p] /\ Reached(first)
                   THEN accepting[n] \ {p} ELSE {}
           results == [r \in Node |-> IF r \in Y THEN got[r] ELSE bbaResults[n][r]]
           inputs == [r \in Node |->
                         given[r] \union (IF r \in voted THEN {TRUE} ELSE {})
                                  \union (IF r \in fill THEN {FillIn} ELSE {})]
<1>t. TypeOK
  BY DEF IInv
<1>d. DOMAIN got = Y
  OBVIOUS
<1>1. /\ Y \subseteq fill \union {p}
      /\ \A r \in Y : bbaResults[n][r] = None /\ MayYield(r, got[r], inputs[r])
      /\ accepting' = [accepting EXCEPT ![n] = @ \ (voted \union fill \union Y)]
      /\ given' = inputs
      /\ agreed' = [r \in Node |-> IF r \in Y THEN got[r] ELSE agreed[r]]
      /\ bbaResults' = [bbaResults EXCEPT ![n] = results]
  BY <1>d DEF processAgreement
<1>2. /\ voted \subseteq accepting[n] \intersect {p}
      /\ fill \subseteq accepting[n] \ {p}
  BY DEF Voted
<1>3. given'[q] = given[q] \union (IF q \in voted THEN {TRUE} ELSE {})
                           \union (IF q \in fill THEN {FALSE} ELSE {})
  BY <1>1 DEF FillIn
<1> HIDE DEF voted, first, fill
<1>4. /\ accepting'[n] = accepting[n] \ (voted \union fill \union Y)
      /\ \A m \in Correct \ {n} : accepting'[m] = accepting[m]
  BY <1>1, <1>t DEF TypeOK
<1>5. \A m \in Correct :
         bbaResults'[m][q] = IF m = n /\ q \in Y THEN got[q] ELSE bbaResults[m][q]
  BY <1>1, <1>t DEF TypeOK
<1>6. q \in Y => /\ bbaResults[n][q] = None
                 /\ MayYield(q, got[q], given'[q])
                 /\ q \notin accepting'[n]
  BY <1>1, <1>4
<1>7. agreed'[q] = IF q \in Y THEN got[q] ELSE agreed[q]
  BY <1>1
<1>8. CASE q \in voted \union fill
  BY <1>8, <1>2, <1>3, <1>4, <1>5, <1>6, <1>7
<1>9. CASE q \notin voted \union fill
  <2>1. given'[q] = given[q]
    BY <1>9, <1>3
  <2>2. q \in Y => given[q] # {}
    BY <1>6, <2>1 DEF MayYield, IInv, InputBacked
  <2> QED
    BY <1>9, <2>1, <2>2, <1>4, <1>5, <1>6, <1>7
<1> QED
  BY <1>8, <1>9

\* Each agreement by itself takes a step its service allows.
LEMMA AgreementServed ==
    ASSUME IInv,
           NEW n \in Correct, NEW p \in Node,
           NEW vote \in BOOLEAN, NEW last \in BOOLEAN,
           NEW Y \in SUBSET Node, NEW got \in [Y -> BOOLEAN],
           NEW batches \in SUBSET Node,
           processAgreement(n, p, batches, vote, got, last)
    PROVE  /\ \A q \in Node : Agreement(q)!Next
           /\ YieldedSomewhere => YieldedSomewhere'
<1>1. ASSUME NEW q \in Node
      PROVE  /\ Agreement(q)!Next
             /\ agreed'[q] = IF q \in Y THEN got[q] ELSE agreed[q]
             /\ \A m \in Correct :
                   bbaResults'[m][q] = IF m = n /\ q \in Y THEN got[q] ELSE bbaResults[m][q]
  <2> DEFINE open == {m \in Correct : q \in accepting[m]}
             result == [m \in Correct |-> bbaResults[m][q]]
  <2>s. /\ agreed'[q] = IF q \in Y THEN got[q] ELSE agreed[q]
        /\ \A m \in Correct :
              bbaResults'[m][q] = IF m = n /\ q \in Y THEN got[q] ELSE bbaResults[m][q]
        /\ q \in Y => /\ bbaResults[n][q] = None
                      /\ MayYield(q, got[q], given'[q])
                      /\ q \notin accepting'[n]
        /\ \A m \in Correct \ {n} : accepting'[m] = accepting[m]
        /\ \/ /\ given'[q] = given[q]
              /\ q \in accepting'[n] <=> q \in accepting[n]
           \/ /\ q \in accepting[n] /\ q \notin accepting'[n]
              /\ given'[q] \in {given[q], given[q] \union {TRUE}, given[q] \union {FALSE}}
              /\ given'[q] # {}
    BY InstanceStep
  <2>1. Agreement(q)!Close(n) \/ (given'[q] = given[q] /\ open' = open)
    <3>1. CASE /\ given'[q] = given[q]
               /\ q \in accepting'[n] <=> q \in accepting[n]
      BY <3>1, <2>s
    <3>2. CASE /\ q \in accepting[n] /\ q \notin accepting'[n]
               /\ given'[q] \in {given[q], given[q] \union {TRUE}, given[q] \union {FALSE}}
               /\ given'[q] # {}
      <4>1. open' = open \ {n} /\ n \in open
        BY <3>2, <2>s
      <4>2. given'[q] \in {given[q]} \union {given[q] \union {v} : v \in BOOLEAN}
        BY <3>2
      <4> QED
        BY <3>2, <4>1, <4>2 DEF Agreement!Close
    <3> QED
      BY <3>1, <3>2, <2>s
  <2>2. result' = result \/ \E v \in BOOLEAN : Agreement(q)!Yield(n, v)
    <3>1. CASE q \notin Y
      BY <3>1, <2>s
    <3>2. CASE q \in Y
      <4>1. got[q] \in BOOLEAN /\ n \notin open' /\ result[n] = None
        BY <3>2, <2>s
      <4>2. result' = [result EXCEPT ![n] = got[q]]
        BY <3>2, <2>s
      <4>3. given[q] \subseteq given'[q]
        BY <2>s
      <4>4. got[q] \in given'[q]
        BY <3>2, <2>s, <4>3 DEF MayYield, IInv, InputBacked
      <4>5. \A m \in Correct : result[m] \in {None, got[q]}
        BY <3>2, <2>s DEF MayYield, IInv, ResultsAgreed
      <4>6. Agreement(q)!MayYield(n, got[q], given'[q])
        BY <4>1, <4>4, <4>5 DEF Agreement!MayYield
      <4> QED
        BY <4>1, <4>2, <4>6 DEF Agreement!Yield
    <3> QED
      BY <3>1, <3>2
  <2>3. Agreement(q)!Step(n)
    BY <2>1, <2>2 DEF Agreement!Step
  <2>4. Agreement(q)!Next
    BY <2>3 DEF Agreement!Next
  <2> QED
    BY <2>4, <2>s
<1>2. ASSUME YieldedSomewhere PROVE YieldedSomewhere'
  <2> SUFFICES ASSUME NEW q \in Node, agreed'[q] # None
               PROVE  \E m \in Correct : bbaResults'[m][q] = agreed'[q]
    BY DEF YieldedSomewhere
  <2>1. /\ agreed'[q] = IF q \in Y THEN got[q] ELSE agreed[q]
        /\ \A m \in Correct :
              bbaResults'[m][q] = IF m = n /\ q \in Y THEN got[q] ELSE bbaResults[m][q]
    BY <1>1
  <2>2. CASE q \in Y
    BY <2>1, <2>2
  <2>3. CASE q \notin Y
    BY <2>1, <2>3, <1>2 DEF YieldedSomewhere
  <2> QED
    BY <2>2, <2>3
<1> QED
  BY <1>1, <1>2

\* A broadcast comes out at n, or is only offered, or nothing happens to it.
LEMMA BroadcastServed ==
    ASSUME IInv, proposed \subseteq proposed',
           NEW n \in Correct, NEW p \in Node,
           \/ rbcResults' = rbcResults
           \/ /\ rbcResults' = [rbcResults EXCEPT ![n] = @ \union {p}]
              /\ p \in (proposed' \union Speaking) \ rbcResults[n]
    PROVE  \A q \in Node : Broadcast(q)!Next
<1> SUFFICES ASSUME NEW q \in Node PROVE Broadcast(q)!Next
  OBVIOUS
<1> DEFINE outputs == [m \in Correct |-> IF q \in rbcResults[m] THEN TRUE ELSE None]
           offered == {b \in {TRUE} : q \in proposed \union Speaking}
<1>1. Broadcast(q)!Offer
  BY DEF Broadcast!Offer
<1>2. CASE rbcResults' = rbcResults \/ q # p
  <2>1. \A m \in Correct : q \in rbcResults'[m] <=> q \in rbcResults[m]
    BY <1>2 DEF IInv, TypeOK
  <2>2. outputs' = outputs
    BY <2>1
  <2> QED
    BY <1>1, <2>2 DEF Broadcast!Next
<1>3. CASE /\ q = p /\ rbcResults' = [rbcResults EXCEPT ![n] = @ \union {p}]
           /\ p \in (proposed' \union Speaking) \ rbcResults[n]
  <2>1. \A m \in Correct : rbcResults'[m] = IF m = n THEN rbcResults[m] \union {p}
                                            ELSE rbcResults[m]
    BY <1>3 DEF IInv, TypeOK
  <2>2. outputs' = [outputs EXCEPT ![n] = TRUE]
    <3>1. n \in Correct /\ q \in rbcResults'[n]
      BY <1>3, <2>1
    <3>2. \A m \in Correct : m # n => (q \in rbcResults'[m] <=> q \in rbcResults[m])
      BY <2>1
    <3>3. \A m \in Correct : outputs'[m] = IF m = n THEN TRUE ELSE outputs[m]
      BY <3>1, <3>2
    <3> HIDE DEF outputs
    <3>4. /\ outputs' = [m \in Correct |-> outputs'[m]]
          /\ outputs = [m \in Correct |-> outputs[m]]
      BY DEF outputs
    <3> QED
      BY <3>3, <3>4
  <2>3. TRUE \in offered' /\ outputs[n] = None
    BY <1>3
  <2>4. \A m \in Correct : outputs[m] \in {None, TRUE}
    OBVIOUS
  <2>5. Broadcast(q)!MayComeOut(n, TRUE, offered')
    BY <2>3, <2>4 DEF Broadcast!MayComeOut
  <2>6. Broadcast(q)!ComesOut(n, TRUE)
    BY <2>2, <2>5 DEF Broadcast!ComesOut
  <2> QED
    BY <1>1, <2>6 DEF Broadcast!Next
<1> QED
  BY <1>2, <1>3

\* Every step of ACS is, for every instance, a step of its two services.
LEMMA ServicesServed ==
    ASSUME IInv, Next
    PROVE  /\ \A q \in Node : Broadcast(q)!Next /\ Agreement(q)!Next
           /\ YieldedSomewhere => YieldedSomewhere'
<1>t. TypeOK
  BY DEF IInv
<1>1. ASSUME NEW n \in Correct, inputValue(n)
      PROVE  /\ \A q \in Node : Broadcast(q)!Next /\ Agreement(q)!Next
             /\ YieldedSomewhere => YieldedSomewhere'
  <2>1. \A q \in Node : Broadcast(q)!Next
    BY <1>1, <1>t, BroadcastServed, Constants DEF inputValue
  <2>2. \A q \in Node : Agreement(q)!Next
    BY <1>1 DEF inputValue, agreement, Agreement!Next, Agreement!Step
  <2> QED
    BY <1>1, <2>1, <2>2 DEF inputValue, agreement, YieldedSomewhere
<1>2. ASSUME NEW n \in Correct, NEW got \in Yields(n, n), inputValueAlone(n, got)
      PROVE  /\ \A q \in Node : Broadcast(q)!Next /\ Agreement(q)!Next
             /\ YieldedSomewhere => YieldedSomewhere'
  <2>1. n \in Node /\ rbcResults[n] \union {n} \in SUBSET Node
    BY <1>t, Constants DEF TypeOK
  <2>2. PICK Y \in SUBSET Node : got \in [Y -> BOOLEAN]
    BY <2>1, YieldsType
  <2>3. n \notin rbcResults[n]
    BY <1>2, NodeAssumption DEF inputValueAlone, IInv, BatchOrigin, Correct
  <2>4. \A q \in Node : Broadcast(q)!Next
    BY <1>2, <2>1, <2>3, BroadcastServed DEF inputValueAlone
  <2>5. processAgreement(n, n, rbcResults[n] \union {n}, TRUE, got, FALSE)
    BY <1>2 DEF inputValueAlone
  <2> QED
    BY <2>1, <2>2, <2>4, <2>5, AgreementServed
<1>3. ASSUME NEW n \in Correct, NEW p \in Node, NEW got \in Yields(n, p),
             handleBroadcast(n, p, got)
      PROVE  /\ \A q \in Node : Broadcast(q)!Next /\ Agreement(q)!Next
             /\ YieldedSomewhere => YieldedSomewhere'
  <2>1. rbcResults[n] \union {p} \in SUBSET Node
    BY <1>t DEF TypeOK
  <2>2. PICK Y \in SUBSET Node : got \in [Y -> BOOLEAN]
    BY YieldsType
  <2>4. \A q \in Node : Broadcast(q)!Next
    BY <1>3, BroadcastServed DEF handleBroadcast
  <2>5. processAgreement(n, p, rbcResults[n] \union {p}, TRUE, got, TRUE)
    BY <1>3 DEF handleBroadcast
  <2> QED
    BY <2>1, <2>2, <2>4, <2>5, AgreementServed
<1>4. ASSUME NEW n \in Correct, NEW p \in Node, NEW got \in Yields(n, p),
             handleAgreement(n, p, got)
      PROVE  /\ \A q \in Node : Broadcast(q)!Next /\ Agreement(q)!Next
             /\ YieldedSomewhere => YieldedSomewhere'
  <2>1. rbcResults[n] \in SUBSET Node
    BY <1>t DEF TypeOK
  <2>2. PICK Y \in SUBSET Node : got \in [Y -> BOOLEAN]
    BY YieldsType
  <2>4. \A q \in Node : Broadcast(q)!Next
    BY <1>4, BroadcastServed DEF handleAgreement
  <2>5. processAgreement(n, p, rbcResults[n], FALSE, got, FALSE)
    BY <1>4 DEF handleAgreement
  <2> QED
    BY <2>1, <2>2, <2>4, <2>5, AgreementServed
<1>5. ASSUME NEW n \in Correct, NEW p \in Node, leaveFirstEpoch(n, p)
      PROVE  /\ \A q \in Node : Broadcast(q)!Next /\ Agreement(q)!Next
             /\ YieldedSomewhere => YieldedSomewhere'
  <2>1. \A q \in Node : Broadcast(q)!Next
    BY <1>5, BroadcastServed DEF leaveFirstEpoch
  <2>2. ASSUME NEW q \in Node PROVE Agreement(q)!Next
    <3> DEFINE open == {m \in Correct : q \in accepting[m]}
    <3>1. \A m \in Correct : accepting'[m] = IF m = n THEN accepting[m] \ {p}
                                             ELSE accepting[m]
      BY <1>5, <1>t DEF leaveFirstEpoch, TypeOK
    <3>2. CASE q # p
      <4>1. open' = open
        BY <3>1, <3>2
      <4> QED
        BY <4>1, <1>5 DEF leaveFirstEpoch, Agreement!Next, Agreement!Step
    <3>3. CASE q = p
      <4>1. open' = open \ {n} /\ n \in open
        BY <3>1, <3>3, <1>5 DEF leaveFirstEpoch
      <4>2. Agreement(q)!Close(n)
        BY <4>1, <3>3, <1>5 DEF leaveFirstEpoch, Agreement!Close
      <4> QED
        BY <4>2, <1>5 DEF leaveFirstEpoch, Agreement!Next, Agreement!Step
    <3> QED
      BY <3>2, <3>3
  <2> QED
    BY <1>5, <2>1, <2>2 DEF leaveFirstEpoch, YieldedSomewhere
<1> QED
  BY <1>1, <1>2, <1>3, <1>4, <1>5 DEF Next

(***************************************************************************)
(* ACS uses every broadcast and every agreement within what RBC and BBA    *)
(* promise, whatever a handler does to several instances at once           *)
(* (acs.go:345-432).                                                       *)
(***************************************************************************)
THEOREM UsesServicesTheorem == Spec => UsesServices
<1>1. Init => ServicesInit
  <2> SUFFICES ASSUME Init, NEW p \in Node
               PROVE  Broadcast(p)!Init /\ Agreement(p)!Init
    BY DEF ServicesInit
  <2>1. \A n \in Correct : /\ p \notin rbcResults[n] /\ p \in accepting[n]
                           /\ bbaResults[n][p] = None
    BY DEF Init
  <2>2. Broadcast(p)!Init
    BY <2>1 DEF Broadcast!Init
  <2>3. given[p] = {}
    BY DEF Init
  <2>4. Agreement(p)!Init
    BY <2>1, <2>3 DEF Agreement!Init
  <2> QED
    BY <2>2, <2>4
<1>2. IInv /\ [Next]_vars => [ServicesStep]_vars
  BY ServicesServed DEF ServicesStep
<1> QED
  BY Invariance, <1>1, <1>2, PTL DEF Spec, UsesServices

(***************************************************************************)
(* ACS takes whatever a broadcast or an agreement may deliver by its       *)
(* promise, so that it assumes no more of them than RBC and BBA give       *)
(* (acs.go:345-432).                                                       *)
(***************************************************************************)
THEOREM AdmitsServicesTheorem == Spec => []AdmitsServices
<1>1. Init => YieldedSomewhere
  BY DEF Init, YieldedSomewhere
<1>2. IInv /\ YieldedSomewhere /\ [Next]_vars => YieldedSomewhere'
  BY ServicesServed DEF vars, agreement, YieldedSomewhere
<1>3. IInv /\ YieldedSomewhere => AdmitsServices
  <2> SUFFICES ASSUME IInv, YieldedSomewhere, NEW n \in Correct, NEW p \in Node
               PROVE
                 /\ Broadcast(p)!MayComeOut(n, TRUE,
                       {b \in {TRUE} : p \in proposed \union Speaking})
                      => p \in (proposed \union Speaking) \ rbcResults[n]
                 /\ \A v \in BOOLEAN, values \in SUBSET BOOLEAN :
                      given[p] \subseteq values /\ Agreement(p)!MayYield(n, v, values)
                         => bbaResults[n][p] = None /\ MayYield(p, v, values)
    BY DEF AdmitsServices
  <2>1. Broadcast(p)!MayComeOut(n, TRUE,
           {b \in {TRUE} : p \in proposed \union Speaking})
          => p \in (proposed \union Speaking) \ rbcResults[n]
    BY NodeAssumption DEF Broadcast!MayComeOut
  <2>2. ASSUME NEW v \in BOOLEAN, NEW values \in SUBSET BOOLEAN,
               Agreement(p)!MayYield(n, v, values)
        PROVE  bbaResults[n][p] = None /\ MayYield(p, v, values)
    <3>1. /\ bbaResults[n][p] = None /\ v \in values
          /\ \A m \in Correct : bbaResults[m][p] \in {None, v}
      BY <2>2 DEF Agreement!MayYield
    <3> QED
      BY <3>1 DEF MayYield, YieldedSomewhere
  <2> QED
    BY <2>1, <2>2
<1> QED
  BY Invariance, <1>1, <1>2, <1>3, PTL DEF Spec
=============================================================================
