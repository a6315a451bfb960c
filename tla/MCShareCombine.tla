--------------------------- MODULE MCShareCombine ---------------------------
(***************************************************************************)
(* ShareCombine for model checking.                                        *)
(***************************************************************************)
EXTENDS ShareCombine

\* Operator 0 sends wrong points, an early share of another batch, and one
\* of a sub-batch that the plan does not have.
WrongShares ==
    {[op |-> 0, batch |-> Planned, sub |-> k, right |-> FALSE] : k \in SubBatch}
        \union {[op |-> 0, batch |-> "other", sub |-> 0, right |-> FALSE],
                [op |-> 0, batch |-> Planned, sub |-> Alpha, right |-> FALSE]}
=============================================================================
