----------------------------- MODULE AgreedMerge -----------------------------
(***************************************************************************)
(* From the lists that ACS accepted to the batch plan of a slot            *)
(* (handleACSOutput, bloc-node/internal/app/inclusion/merge.go and the     *)
(* batch arrangement of bte/btd-impl-main/be/cluster.go).                  *)
(*                                                                         *)
(* Every node computes the plan on its own, and the shares of two nodes    *)
(* combine only if their plans are the same.  The candidates are collected *)
(* in a Go map, whose iteration order differs from node to node: Merge     *)
(* sorts them, and every result the sort may have is allowed here.         *)
(***************************************************************************)
EXTENDS Placeholder

CONSTANTS
    Node,             \* the nodes that have ACS's output
    MaxDecryptedTxs,  \* cfg.Blockspace, 0: BMax
    MaxDecryptedGas,  \* cfg.Blockspace, 0: no limit
    Slot              \* the active slot

ASSUME MergeAssumption ==
    MaxDecryptedTxs \in Nat /\ MaxDecryptedGas \in Nat

VARIABLES
    accepted,  \* SlotOutput.OrderedBatches: proposers and lists by proposer
    outcome    \* what handleACSOutput made of it, per node

mergeVars == <<accepted, outcome>>

-----------------------------------------------------------------------------
(* Merge.                                                                  *)

\* Whether the bytes of a proposal are a list: one without a slot, or with an
\* empty ciphertext, is not.
DecodeList(list) ==
    list.slot # 0 /\ \A item \in ToSet(list.items) : item.ct # None

\* decodeAcceptedLists
Decodes(batches) ==
    \A i \in DOMAIN batches :
        /\ DecodeList(batches[i].list)
        /\ batches[i].list.slot = Slot
        /\ batches[i].list.operator = batches[i].proposer

\* The first well-formed item of a ciphertext counts.  An item equal to one that
\* was validated is passed over without being hashed again.
Admit(acc, item) ==
    IF \/ item.hash # None /\ item \in acc.validated
       \/ ~Normal(item)
       \/ \E c \in acc.unique : c.hash = item.ct
    THEN acc
    ELSE [unique |-> acc.unique \union {[item EXCEPT !.hash = item.ct]},
          validated |-> acc.validated \union {item}]

AdmitAll(acc, items) ==
    LET Loop[k \in 0 .. Len(items)] ==
          IF k = 0 THEN acc ELSE Admit(Loop[k - 1], items[k])
    IN  Loop[Len(items)]

Candidates(batches) ==
    LET Loop[i \in 0 .. Len(batches)] ==
          IF i = 0 THEN [unique |-> {}, validated |-> {}]
          ELSE AdmitAll(Loop[i - 1], batches[i].list.items)
    IN  Loop[Len(batches)].unique

\* Variant for mutation: candidates of equal fee, sender and nonce are not told
\* apart.
BeforeWithoutHash(c, d) ==
    \/ c.fee > d.fee
    \/ /\ c.fee = d.fee
       /\ \/ c.from < d.from
          \/ c.from = d.from /\ c.nonce < d.nonce

\* The order of sortCandidates.
Before(c, d) ==
    \/ c.fee > d.fee
    \/ /\ c.fee = d.fee
       /\ \/ c.from < d.from
          \/ /\ c.from = d.from
             /\ \/ c.nonce < d.nonce
                \/ c.nonce = d.nonce /\ c.hash < d.hash

\* The results that sorting the candidates may have.
sortCandidates(S) == Orders(S, {p \in S \X S : Before(p[1], p[2])})

EffectiveMaxDecryptedTxs ==
    IF MaxDecryptedTxs = 0 \/ MaxDecryptedTxs > BMax THEN BMax ELSE MaxDecryptedTxs

\* Variant for mutation: the first candidate that does not fit ends the loop.
SelectStops(candidates) ==
    LET Take(acc, c) ==
          IF \/ acc.stopped
             \/ Len(acc.items) >= EffectiveMaxDecryptedTxs
             \/ MaxDecryptedGas > 0 /\ c.gas > MaxDecryptedGas - acc.gas
          THEN [acc EXCEPT !.stopped = TRUE]
          ELSE [acc EXCEPT !.items = Append(@, c), !.gas = @ + c.gas]
    IN  FoldLeft(Take, [items |-> <<>>, gas |-> 0, stopped |-> FALSE], candidates).items

\* The blockspace limits: a candidate whose gas does not fit is passed over.
Fit(acc, c) ==
    IF \/ Len(acc.items) >= EffectiveMaxDecryptedTxs
       \/ MaxDecryptedGas > 0 /\ c.gas > MaxDecryptedGas - acc.gas
    THEN acc
    ELSE [items |-> Append(acc.items, c), gas |-> acc.gas + c.gas]

\* The loop over the sorted candidates.
Select(candidates) ==
    LET Loop[k \in 0 .. Len(candidates)] ==
          IF k = 0 THEN [items |-> <<>>, gas |-> 0] ELSE Fit(Loop[k - 1], candidates[k])
    IN  Loop[Len(candidates)].items

-----------------------------------------------------------------------------
(* The arrangement.  A batch is the sequence of its ciphertexts' indexes;  *)
(* a sub-batch is a sequence of positions in it.                           *)

Count(batch, i) == Cardinality({p \in DOMAIN batch : batch[p] = batch[i]})

\* ceil(2 * sqrt(n))
TwiceRoot(n) == CHOOSE a \in 0 .. 2 * n : a * a >= 4 * n /\ \A b \in 0 .. a - 1 : b * b < 4 * n

\* The number of sub-batches.
Alpha(batch) ==
    LET n == Len(batch)
        most == Max({TwiceRoot(n)} \union {Count(batch, p) : p \in DOMAIN batch})
    IN  IF most > n THEN n ELSE most

\* Whether position p is sorted before position q: by how often their indexes
\* occur, then in order.
Oftener(batch, p, q) ==
    \/ Count(batch, p) > Count(batch, q)
    \/ Count(batch, p) = Count(batch, q) /\ p < q

\* The results that sorting the positions may have.
ByCount(batch) ==
    Orders(DOMAIN batch,
           {p \in (DOMAIN batch) \X (DOMAIN batch) : Oftener(batch, p[1], p[2])})

NoSubs(alpha) == [s \in 1 .. alpha |-> <<>>]

RoundRobin(items, alpha) ==
    LET Loop[k \in 0 .. Len(items)] ==
          IF k = 0 THEN NoSubs(alpha)
          ELSE [Loop[k - 1] EXCEPT ![((k - 1) % alpha) + 1] = Append(@, items[k])]
    IN  Loop[Len(items)]

\* validateSubBatchIndices
NoCollision(batch, subs) ==
    \A s \in DOMAIN subs : IsInjective([k \in DOMAIN subs[s] |-> batch[subs[s][k]]])

\* The sub-batches without the index of position p.
Free(batch, subs, p) ==
    {s \in DOMAIN subs : \A k \in DOMAIN subs[s] : batch[subs[s][k]] # batch[p]}

\* The shortest of them, the first of several.
Shortest(free, subs) ==
    CHOOSE s \in free : \A t \in free : \/ Len(subs[s]) < Len(subs[t])
                                        \/ Len(subs[s]) = Len(subs[t]) /\ s <= t

\* <<>> is nil: there was none for some position.
Place(batch, subs, p) ==
    LET free == Free(batch, subs, p)
    IN  IF free = {} THEN <<>>
        ELSE [subs EXCEPT ![Shortest(free, subs)] = Append(@, p)]

arrangeCollisionFree(batch, items, alpha) ==
    LET Loop[k \in 0 .. Len(items)] ==
          IF k = 0 THEN NoSubs(alpha) ELSE Place(batch, Loop[k - 1], items[k])
    IN  Loop[Len(items)]

\* Variant for mutation: the round-robin arrangement is taken as it is.
ArrangeRoundRobin(batch, items) == RoundRobin(items, Alpha(batch))

\* The sub-batches of the sorted positions; <<>> is nil, with an error.
arrangeBatch(batch, items) ==
    LET first == RoundRobin(items, Alpha(batch))
        second == arrangeCollisionFree(batch, items, Alpha(batch))
    IN  IF NoCollision(batch, first) THEN first
        ELSE IF NoCollision(batch, second) THEN second
        ELSE <<>>

-----------------------------------------------------------------------------
(* handleACSOutput                                                         *)

Failed(stage) == [status |-> stage, items |-> <<>>, plan |-> <<>>]

Indexes(items) == [i \in DOMAIN items |-> Index[items[i].ct]]

\* PlanDecodedBatch
Arranged(items, plan) ==
    IF plan = <<>> THEN Failed("planning")
    ELSE [status |-> "planned", items |-> items, plan |-> plan]

\* DecodeBatch, then the empty set or PlanDecodedBatch: what may come of it.
Planned(items) ==
    IF Len(items) > BMax \/ \E i \in DOMAIN items : Indexes(items)[i] = None
    THEN {Failed("decode")}
    ELSE IF items = <<>> THEN {Failed("empty")}
    ELSE {Arranged(items, arrangeBatch(Indexes(items), sorted)) : sorted \in ByCount(Indexes(items))}

handleACSOutput(n) ==
    /\ accepted # None
    /\ outcome[n] = None
    /\ IF Decodes(accepted)
       THEN \E order \in sortCandidates(Candidates(accepted)) :
              \E o \in Planned(Select(order)) : outcome' = [outcome EXCEPT ![n] = o]
       ELSE outcome' = [outcome EXCEPT ![n] = Failed("decode")]
    /\ UNCHANGED accepted

MergeInit == accepted = None /\ outcome = [n \in Node |-> None]

-----------------------------------------------------------------------------
(* Properties.                                                             *)

(* Two nodes that have the same accepted lists reach the same outcome, the *)
(* same batch and the same plan, in whatever order their maps return the   *)
(* candidates (Merge, PlanDecodedBatch): otherwise their shares would not  *)
(* combine.                                                                *)
MergeAgreement ==
    \A m, n \in Node : outcome[m] # None /\ outcome[n] # None => outcome[m] = outcome[n]

\* The gas of the first k items.
GasOf(items, k) ==
    LET Sum[j \in 0 .. k] == IF j = 0 THEN 0 ELSE Sum[j - 1] + items[j].gas
    IN  Sum[k]

\* The well-formed items of the accepted lists.
Offered ==
    UNION {{item \in ToSet(accepted[i].list.items) : Normal(item)} : i \in 1 .. Len(accepted)}

(* The batch holds no ciphertext twice, respects both limits, is in the    *)
(* canonical order, and an offered ciphertext is missing only because the  *)
(* batch is full or, as offered by some list, its gas did not fit beside   *)
(* what precedes it (Merge).                                               *)
MergeCorrect ==
    \A n \in Node : outcome[n] # None /\ outcome[n].status = "planned" =>
        LET items == outcome[n].items
        IN  /\ IsInjective([i \in DOMAIN items |-> items[i].ct])
            /\ Len(items) <= EffectiveMaxDecryptedTxs
            /\ MaxDecryptedGas > 0 => GasOf(items, Len(items)) <= MaxDecryptedGas
            /\ \A i \in 1 .. Len(items) - 1 : Before(items[i], items[i + 1])
            /\ \A c \in Offered :
                 \/ \E i \in DOMAIN items : items[i].ct = c.ct
                 \/ Len(items) = EffectiveMaxDecryptedTxs
                 \/ MaxDecryptedGas > 0 /\
                    \E d \in Offered :
                       /\ d.ct = c.ct
                       /\ LET k == Cardinality({i \in DOMAIN items :
                                                  Before(items[i], [d EXCEPT !.hash = d.ct])})
                          IN  GasOf(items, k) + d.gas > MaxDecryptedGas

(* The arrangement never fails, and no sub-batch has two ciphertexts of    *)
(* one index, which the decryption of a sub-batch cannot tell apart; every *)
(* position of the batch is in exactly one sub-batch, and none is empty,   *)
(* though only a plan that had to give up round robin relies on the search *)
(* of arrangeCollisionFree (arrangeBatch).                                 *)
PlanSound ==
    \A n \in Node : outcome[n] # None =>
        /\ outcome[n].status # "planning"
        /\ outcome[n].status = "planned" =>
             LET items == outcome[n].items
                 plan == outcome[n].plan
                 where == {w \in (DOMAIN plan) \X (DOMAIN items) : w[2] \in DOMAIN plan[w[1]]}
             IN  /\ \A s \in DOMAIN plan : plan[s] # <<>>
                 /\ NoCollision(Indexes(items), plan)
                 /\ \A p \in DOMAIN items :
                      Cardinality({w \in where : plan[w[1]][w[2]] = p}) = 1
=============================================================================
