------------------------------- MODULE MCACS -------------------------------
(***************************************************************************)
(* ACS for model checking: four nodes, one of them faulty.                 *)
(***************************************************************************)
EXTENDS ACS, TLC

CONSTANTS p1, p2, p3, p4

FastNodes == Permutations(Correct \ {p1})

(***************************************************************************)
(* Bounds on the interleavings.  Every proposal comes first.  p1 is        *)
(* behind: it takes part when p2 and p3 have all batches of correct        *)
(* proposers and all results there are, and gets the batches first.  Only  *)
(* the faulty node's agreement may leave its first epoch at a node that    *)
(* gave it no input.                                                       *)
(***************************************************************************)
ProposalsFirst == proposed' = Correct \/ rbcResults' = rbcResults

UpToDate(n) ==
    /\ Correct \subseteq rbcResults[n]
    /\ \A p \in Node : agreed[p] # None => bbaResults[n][p] # None

LateNode ==
    \/ /\ UpToDate(p2) /\ UpToDate(p3)
       /\ bbaResults'[p1] # bbaResults[p1] => Correct \subseteq rbcResults'[p1]
    \/ rbcResults'[p1] = rbcResults[p1] /\ accepting'[p1] = accepting[p1]

LeavesUnheard ==
    rbcResults' = rbcResults /\ bbaResults' = bbaResults =>
        \A n \in Correct : accepting[n] \ accepting'[n] \subseteq Faulty
=============================================================================
