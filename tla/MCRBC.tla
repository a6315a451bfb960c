------------------------------- MODULE MCRBC -------------------------------
(***************************************************************************)
(* RBC for model checking: four nodes, one of them faulty, two roots.      *)
(***************************************************************************)
EXTENDS RBC, TLC

CONSTANTS p1, p2, p3, p4, r1, r2

(***************************************************************************)
(* r1 is a code word: any N - 2F shards rebuild it.  r2 commits to shards  *)
(* that are not one: it is rebuilt only with the odd shard, p4's, at hand. *)
(***************************************************************************)
MCValidProof == Proof

MCDecodable ==
    LET Enough == {S \in SUBSET Node : Cardinality(S) >= N - 2 * F}
    IN  (r1 :> Enough) @@ (r2 :> {S \in Enough : p4 \in S})

\* What a faulty follower sends: all there is of r2, and a Ready for r1.
FollowerMessage ==
    {[kind |-> "proof", from |-> p4, to |-> n,
      proof |-> [root |-> r2, index |-> n]] : n \in Correct}
        \union [kind : {"echo"}, from : {p4},
                proof : [root : {r2}, index : {p4}]]
        \union [kind : {"ready"}, from : {p4}, root : {r1, r2}]

(***************************************************************************)
(* What a faulty proposer sends: to each correct node a proof of either    *)
(* root, then either echo and either Ready.                                *)
(***************************************************************************)
ProposerMessage ==
    {[kind |-> "proof", from |-> p4, to |-> n,
      proof |-> [root |-> r, index |-> n]] : n \in Correct, r \in Root}
        \union [kind : {"echo"}, from : {p4},
                proof : [root : {r1, r2}, index : {p4}]]
        \union [kind : {"ready"}, from : {p4}, root : {r1, r2}]

CorrectFollowers == Permutations(Correct \ {Proposer})
=============================================================================
