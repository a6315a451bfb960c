-------------------------- MODULE BinaryAgreement --------------------------
(***************************************************************************)
(* What one binary agreement promises the ACS that runs it: correct nodes  *)
(* get one value, which one of them put in, and an instance closes itself  *)
(* to a node's input only when some correct node has put one in.           *)
(***************************************************************************)
CONSTANTS
    Correct,  \* the nodes that take part
    None

VARIABLES
    given,    \* the values correct nodes have put in
    open,     \* the nodes whose input the instance still accepts
    result    \* result[n]: the value the instance yielded at n, or None

vars == <<given, open, result>>

Init ==
    /\ given = {}
    /\ open = Correct
    /\ result = [n \in Correct |-> None]

\* Node n puts in a value, or the instance goes on without one.
Close(n) ==
    /\ n \in open
    /\ open' = open \ {n}
    /\ given' \in {given} \union {given \union {v} : v \in BOOLEAN}
    /\ given' # {}

\* The value that others got, or one that was put in.
MayYield(n, v, values) ==
    /\ result[n] = None
    /\ v \in values
    /\ \A m \in Correct : result[m] \in {None, v}

Yield(n, v) ==
    /\ MayYield(n, v, given')
    /\ n \notin open'
    /\ result' = [result EXCEPT ![n] = v]

\* A node may get its result in the step in which it puts in its value.
Step(n) ==
    /\ Close(n) \/ UNCHANGED <<given, open>>
    /\ UNCHANGED result \/ \E v \in BOOLEAN : Yield(n, v)

Next == \E n \in Correct : Step(n)

Spec == Init /\ [][Next]_vars
=============================================================================
