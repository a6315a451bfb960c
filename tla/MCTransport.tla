----------------------------- MODULE MCTransport -----------------------------
(***************************************************************************)
(* One node that sends to another.                                         *)
(***************************************************************************)
EXTENDS Transport

MCLink == {<<1, 2>>}

\* An envelope in another operator's name, one of the other lane, and one whose
\* payload is not what its kind says.
MCForged ==
    {[from |-> 2, to |-> 2, kind |-> "echo"], [from |-> 1, to |-> 2, kind |-> "bval"],
     [from |-> 1, to |-> 2, kind |-> "mismatch"]}

\* Scheduling bound: a /slot/prepare comes while a handler waits.  At any other time
\* it holds up nobody here, as the node that prepares sends nothing.
PrepareMeetsHandler ==
    \A n \in Node : prepare'[n] /\ ~prepare[n] =>
        \E k \in Stream : handling[k] # <<>> /\ To(chan[k]) = n
=============================================================================
