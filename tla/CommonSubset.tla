---------------------------- MODULE CommonSubset ----------------------------
(***************************************************************************)
(* What the ACS promises (acs.go:26-28): "all of the good nodes output the *)
(* same set, consisting of at least (N - f) of the proposed values".       *)
(***************************************************************************)
CONSTANTS
    Correct,   \* the nodes that output
    Proposer,  \* whose values may be part of the set
    Large,     \* the sets of at least (N - f) nodes
    None

VARIABLES
    offered,   \* proposers whose value is in the network
    output     \* output[n]: the set of proposers n chose, or None

vars == <<offered, output>>

Init ==
    /\ offered \subseteq Proposer
    /\ output = [n \in Correct |-> None]

\* Values come in at any time, also in the step in which a node chooses.
Offer ==
    /\ offered \subseteq offered'
    /\ offered' \subseteq Proposer

Choose(n, S) ==
    /\ output[n] = None
    /\ S \subseteq offered'
    /\ S \in Large
    /\ \A m \in Correct : output[m] \in {None, S}
    /\ output' = [output EXCEPT ![n] = S]

Next ==
    /\ Offer
    /\ \/ UNCHANGED output
       \/ \E n \in Correct, S \in SUBSET Proposer : Choose(n, S)

Spec == Init /\ [][Next]_vars
=============================================================================
