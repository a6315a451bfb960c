------------------------------ MODULE MCBBALag ------------------------------
(***************************************************************************)
(* Four correct nodes, one of which receives its messages late.  The       *)
(* schedule only orders deliveries: every message arrives exactly once.    *)
(***************************************************************************)
EXTENDS BBA, TLC

CONSTANTS p1, p2, p3, p4

Nobody == {}

\* Two nodes put in TRUE, two FALSE, before anything is delivered.
Inputs == (p1 :> TRUE @@ p2 :> TRUE @@ p3 :> FALSE @@ p4 :> FALSE)

(***************************************************************************)
(* p4 is the slow node.  p2 alone also sees FALSE from two nodes in time.  *)
(* p4 gets the BVALs of epoch 0, then, once the others are through, what   *)
(* they sent last before what they sent first.                             *)
(***************************************************************************)
Rank(n, msg) ==
    CASE n # p4 /\ msg.from # p4 /\ msg.epoch = 0 /\ msg.kind = "bval" /\ msg.val -> 1
      [] n = p2 /\ msg.epoch = 0 /\ msg.kind = "bval" -> 2
      [] n = p4 /\ msg.epoch = 0 /\ msg.kind = "bval" -> IF msg.val THEN 4 ELSE 3
      [] n # p4 /\ msg.from # p4 -> 5
      [] n = p4 /\ msg.epoch = 2 -> 6
      [] n = p4 /\ msg.epoch = 0 -> 7
      [] OTHER -> 8

Deliverable ==
    {d \in Correct \X sent :
        /\ d[2] \in Pending(d[1])
        /\ ~done[d[1]]}

Schedule ==
    /\ \A n \in Correct : input'[n] \in {None, Inputs[n]}
    /\ call = None /\ call' # None /\ call'.op = "message" =>
          /\ \A n \in Correct : input[n] # None
          /\ \A d \in Deliverable :
                Rank(d[1], d[2]) >= Rank(call'.node, call'.msg)
=============================================================================
