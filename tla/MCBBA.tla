------------------------------- MODULE MCBBA -------------------------------
(***************************************************************************)
(* BBA for model checking: four nodes, one of them faulty.                 *)
(***************************************************************************)
EXTENDS BBA, TLC

CONSTANTS p1, p2, p3, p4

\* The faulty node takes no part, ...
Silent == {}

\* ... or sides with FALSE in the first epoch, towards some nodes or all.
Dissents == [kind : {"bval", "aux"}, from : {p4}, epoch : {0}, val : {FALSE}]

SlowNodes == Permutations(Correct \ {p1})

(***************************************************************************)
(* A bound on the interleavings with a faulty node that speaks.  Inputs    *)
(* come first, p1 is handed the messages of its epoch as soon as they      *)
(* exist, and the faulty BVAL comes before other BVALs (they only count).  *)
(* p2 and p3 receive all else in any order.                                *)
(***************************************************************************)
Due(n) == {msg \in Pending(n) : msg.epoch = epoch[n]}

FaultyBval(msg) == msg.from \in Faulty /\ msg.kind = "bval"

PromptNode ==
    call = None /\ call' # None /\ call'.op = "message" =>
        /\ \A n \in Correct : input[n] # None
        /\ ~done[p1] /\ Due(p1) # {} => call'.node = p1
        /\ (\E msg \in Due(call'.node) : FaultyBval(msg)) => FaultyBval(call'.msg)
=============================================================================
