------------------------- MODULE ReliableBroadcast -------------------------
(***************************************************************************)
(* What one reliable broadcast promises the ACS that runs it: the batches  *)
(* that come out at correct nodes are one batch, and one that went in.     *)
(***************************************************************************)
CONSTANTS
    Correct,  \* the nodes where a batch may come out
    Batch,    \* what may be broadcast
    None

VARIABLES
    offered,  \* the batches that have gone in
    output    \* output[n]: the batch that came out at n, or None

vars == <<offered, output>>

Init ==
    /\ offered \subseteq Batch
    /\ output = [n \in Correct |-> None]

\* A batch may go in and come out in one step.
Offer ==
    /\ offered \subseteq offered'
    /\ offered' \subseteq Batch

\* The batch that came out elsewhere, or one that has gone in.
MayComeOut(n, b, batches) ==
    /\ output[n] = None
    /\ b \in batches
    /\ \A m \in Correct : output[m] \in {None, b}

ComesOut(n, b) ==
    /\ MayComeOut(n, b, offered')
    /\ output' = [output EXCEPT ![n] = b]

Next ==
    /\ Offer
    /\ \/ UNCHANGED output
       \/ \E n \in Correct, b \in Batch : ComesOut(n, b)

Spec == Init /\ [][Next]_vars
=============================================================================
