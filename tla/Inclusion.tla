------------------------------ MODULE Inclusion ------------------------------
(***************************************************************************)
(* The way of a transaction into the batch of a slot: the sidecar and the  *)
(* provider of one operator (ProposalSource) give that operator's list,    *)
(* ACS accepts it or not together with lists of other operators, and every *)
(* node merges and plans what was accepted (AgreedMerge).  What the other  *)
(* operators propose is free, since a list is not checked before it is     *)
(* accepted; that all nodes have the same accepted lists, ordered by their *)
(* proposers, is what ACS shows.                                           *)
(***************************************************************************)
EXTENDS ProposalSource, AgreedMerge

CONSTANTS
    Self,       \* the operator whose sidecar is followed
    OtherList,  \* the lists the other operators may propose, per operator
    Quorum,     \* n - f: ACS accepts at least so many lists
    Followed    \* bound: sources whose proposals are followed into the batch

vars == <<viewVars, sourceVars, mergeVars>>

Init == SourceInit /\ MergeInit

ASSUME ListAssumption ==
    /\ IsFiniteSet(DOMAIN OtherList)
    /\ \A o \in DOMAIN OtherList : \A l \in OtherList[o] : l.items \in Seq(Item)

\* The operators that have proposed something.
Proposers == DOMAIN OtherList \union (IF proposal.ok THEN {Self} ELSE {})

\* What the other operators propose.
Proposed ==
    LET all == UNION {OtherList[o] : o \in DOMAIN OtherList}
    IN  {lists \in [DOMAIN OtherList -> all] :
            \A o \in DOMAIN OtherList : lists[o] \in OtherList[o]}

\* The output of ACS.
Accept(order, lists) ==
    accepted' = [i \in 1 .. Len(order) |->
                   [proposer |-> order[i],
                    list |-> IF order[i] = Self
                             THEN [slot |-> Slot, operator |-> Self, items |-> proposal.items]
                             ELSE lists[order[i]]]]

\* ACS decides: OrderedBatches is sorted by proposer.
Agree ==
    /\ source \in Followed
    /\ proposal # None
    /\ accepted = None
    /\ \E S \in SUBSET Proposers, lists \in Proposed :
         /\ Cardinality(S) >= Quorum
         /\ \E order \in Orders(S, {p \in S \X S : p[1] < p[2]}) : Accept(order, lists)
    /\ UNCHANGED <<viewVars, sourceVars, outcome>>

Next ==
    \/ SourceNext /\ UNCHANGED mergeVars
    \/ Agree
    \/ \E n \in Node : handleACSOutput(n) /\ UNCHANGED <<viewVars, sourceVars>>

Spec == Init /\ [][Next]_vars

-----------------------------------------------------------------------------
TypeOK ==
    /\ ViewTypeOK
    /\ proposal # None => proposal.client \in Client /\ proposal.items \in Seq(Item)
    /\ accepted # None => \A i \in 1 .. Len(accepted) :
         /\ accepted[i].proposer \in DOMAIN OtherList \union {Self}
         /\ accepted[i].list.items \in Seq(Item)
    /\ \A n \in Node : outcome[n] # None =>
         outcome[n].status \in {"decode", "empty", "planning", "planned"}
=============================================================================
