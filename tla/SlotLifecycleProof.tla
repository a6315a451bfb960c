------------------------- MODULE SlotLifecycleProof -------------------------
(***************************************************************************)
(* The safety of the slot lifecycle, for any slots, goroutines and bounds. *)
(***************************************************************************)
EXTENDS SlotLifecycle, TLAPS

\* Every admitted send is waiting or has ended; a finalized trace has none
\* that waits; a trace that is not sealed has seen no output.
SendsInv ==
    /\ \A s \in Slot :
           /\ terminal[s] + queued[s]["token"] + flying[s]["token"] = scheduled[s]
           /\ queued[s]["nil"] + flying[s]["nil"] <= MaxUntraced
           /\ sealed[s] => Traced
           /\ finalized[s] => sealed[s] /\ terminal[s] = scheduled[s]
           /\ ~Traced => scheduled[s] = 0
           /\ s > id => ~sealed[s]
    /\ ~output => ~sealed[id]

\* A slot completes after its output; from the checks of prepareSlot to the
\* replacement nobody reads, and the slot stays replaceable.
ControlInv ==
    /\ planned # "no" => output
    /\ phase = "completed" => planned # "no"
    /\ \A g \in Goroutine : pc[g] \in {"output", "shares"} => output
    /\ prep.at = "swap" =>
           /\ NoReaders
           /\ prep.slot > id
           /\ phase \in Terminal
           /\ phase = "completed" /\ Traced => finalized[id]
    /\ ReplacementWaits

\* One submission is encrypted at a time, for the next index, and none once
\* the start has begun.
ProposalInv ==
    /\ \A u, v \in Submitter : pc[u] = "encrypt" /\ pc[v] = "encrypt" => u = v
    /\ \A u \in Submitter : pc[u] = "encrypt" => ~once /\ index[u] = NextIndex
    /\ \A c \in Starter : Starting(c) => once
    /\ once => phase # "prepared"
    /\ proposal # None => once
    /\ Len(pending) <= BMax
    /\ \A i \in 1 .. Len(pending) : pending[i] = i - 1
    /\ ProposalFrozen

CurrentAnswer ==
    IF phase = "failed" THEN <<"failed", 0, 0>> ELSE <<"completed", scheduled[id], terminal[id]>>

\* What was published is, but for what the trace observes, what would be
\* published now.
PublishedInv == \A a \in published : publishable /\ Sends(a) = CurrentAnswer

IInv == TypeOK /\ SendsInv /\ ControlInv /\ ProposalInv /\ PublishedInv

\* What the start of a send does to the counters of sends.
LEMMA SendStarts ==
    ASSUME SendTypeOK, NEW s \in Slot, NEW token \in Token, sendStart(s, token)
    PROVE  /\ queued' \in [Slot -> [Token -> Nat]]
           /\ flying' \in [Slot -> [Token -> Nat]]
           /\ queued'[s][token] = queued[s][token] - 1
           /\ \A r \in Slot, u \in Token : (r # s \/ u # token) => queued'[r][u] = queued[r][u]
           /\ s = id => flying'[s][token] = flying[s][token] + 1
           /\ s # id => flying'[s][token] = flying[s][token]
           /\ \A r \in Slot, u \in Token : (r # s \/ u # token) => flying'[r][u] = flying[r][u]
<1> USE DEF SendTypeOK, sendStart
<1>1. queued[s] \in [Token -> Nat] /\ flying[s] \in [Token -> Nat]
  OBVIOUS
<1>2. queued[s][token] \in Nat /\ flying[s][token] \in Nat
  BY <1>1
<1>3. queued[s][token] - 1 \in Nat /\ flying[s][token] + 1 \in Nat
  BY <1>2
<1>4. /\ queued' = [queued EXCEPT ![s][token] = @ - 1]
      /\ s = id => flying' = [flying EXCEPT ![s][token] = @ + 1]
      /\ s # id => flying' = flying
  OBVIOUS
<1> HIDE DEF sendStart
<1>5. queued' \in [Slot -> [Token -> Nat]]
  BY <1>3, <1>4
<1>6. flying' \in [Slot -> [Token -> Nat]]
  <2>1. CASE s = id
    <3>1. flying' = [flying EXCEPT ![s][token] = @ + 1]
      BY <1>4, <2>1
    <3> QED  BY <1>3, <3>1
  <2>2. CASE s # id
    BY <1>4, <2>2
  <2> QED  BY <2>1, <2>2
<1>7. /\ queued'[s][token] = queued[s][token] - 1
      /\ \A r \in Slot, u \in Token : (r # s \/ u # token) => queued'[r][u] = queued[r][u]
  BY <1>4
<1>8. /\ s = id => flying'[s][token] = flying[s][token] + 1
      /\ s # id => flying'[s][token] = flying[s][token]
      /\ \A r \in Slot, u \in Token : (r # s \/ u # token) => flying'[r][u] = flying[r][u]
  BY <1>4
<1> QED  BY <1>5, <1>6, <1>7, <1>8

\* What the end of a send does to them.
LEMMA SendEnds ==
    ASSUME SendTypeOK, NEW s \in Slot, NEW token \in Token, sendEnd(s, token)
    PROVE  /\ flying' \in [Slot -> [Token -> Nat]]
           /\ flying[s][token] \in Nat
           /\ flying'[s][token] = flying[s][token] - 1
           /\ \A r \in Slot, u \in Token : (r # s \/ u # token) => flying'[r][u] = flying[r][u]
<1> USE DEF SendTypeOK, sendEnd
<1>1. flying[s] \in [Token -> Nat]
  OBVIOUS
<1>2. flying[s][token] \in Nat
  BY <1>1
<1>3. flying[s][token] - 1 \in Nat
  BY <1>2
<1>4. flying' = [flying EXCEPT ![s][token] = @ - 1]
  OBVIOUS
<1> HIDE DEF sendEnd
<1>5. flying' \in [Slot -> [Token -> Nat]]
  BY <1>3, <1>4
<1>6. /\ flying'[s][token] = flying[s][token] - 1
      /\ \A r \in Slot, u \in Token : (r # s \/ u # token) => flying'[r][u] = flying[r][u]
  BY <1>4
<1> QED  BY <1>2, <1>5, <1>6

\* What the sends that a slot's ACS step or its shares add do to them.
LEMMA SendsAdded ==
    ASSUME SendTypeOK, id \in Slot, NEW token \in Token, NEW count \in Nat,
           queued' = [queued EXCEPT ![id][token] = @ + count]
    PROVE  /\ queued' \in [Slot -> [Token -> Nat]]
           /\ queued'[id][token] = queued[id][token] + count
           /\ \A r \in Slot, u \in Token : (r # id \/ u # token) => queued'[r][u] = queued[r][u]
<1> USE DEF SendTypeOK
<1>1. queued[id] \in [Token -> Nat]
  OBVIOUS
<1>2. queued[id][token] \in Nat
  BY <1>1
<1>3. queued[id][token] + count \in Nat
  BY <1>2
<1>5. queued' \in [Slot -> [Token -> Nat]]
  BY <1>3
<1>6. /\ queued'[id][token] = queued[id][token] + count
      /\ \A r \in Slot, u \in Token : (r # id \/ u # token) => queued'[r][u] = queued[r][u]
  OBVIOUS
<1> QED  BY <1>5, <1>6

\* For the step of ACS, and for the shares.
LEMMA StepACSAdds ==
    ASSUME SendTypeOK, id \in Slot, NEW count \in Nat, NEW hasOutput, stepACS(count, hasOutput),
           NEW token, token = beginMessageOutbound(id)
    PROVE  /\ token \in Token
           /\ queued' \in [Slot -> [Token -> Nat]]
           /\ queued'[id][token] = queued[id][token] + count
           /\ \A r \in Slot, u \in Token : (r # id \/ u # token) => queued'[r][u] = queued[r][u]
<1>1. token \in Token
  BY DEF beginMessageOutbound, Token
<1>2. queued' = [queued EXCEPT ![id][token] = @ + count]
  BY DEF stepACS
<1> QED  BY <1>1, <1>2, SendsAdded

LEMMA MakeShareAdds ==
    ASSUME SendTypeOK, id \in Slot, NEW g, NEW count \in Nat, makeShare(g, count)
    PROVE  /\ queued' \in [Slot -> [Token -> Nat]]
           /\ queued'[id]["nil"] = queued[id]["nil"] + count
           /\ \A r \in Slot, u \in Token : (r # id \/ u # "nil") => queued'[r][u] = queued[r][u]
<1>1. "nil" \in Token
  BY DEF Token
<1>2. queued' = [queued EXCEPT ![id]["nil"] = @ + count]
  BY DEF makeShare
<1> QED  BY <1>1, <1>2, SendsAdded

\* Sums of the account of one slot.
LEMMA EndedIsLess ==
    ASSUME NEW r, terminal[r] \in Nat, scheduled[r] \in Nat,
           queued[r]["token"] \in Nat, flying[r]["token"] \in Nat,
           terminal[r] + queued[r]["token"] + flying[r]["token"] = scheduled[r],
           queued[r]["token"] + flying[r]["token"] >= 1
    PROVE  terminal[r] < scheduled[r]
OBVIOUS

LEMMA OneMoreEnded ==
    ASSUME NEW r, terminal[r] \in Nat, scheduled[r] \in Nat,
           queued[r]["token"] \in Nat, flying[r]["token"] \in Nat,
           terminal[r] + queued[r]["token"] + flying[r]["token"] = scheduled[r]
    PROVE  terminal[r] + 1 + (queued[r]["token"] + flying[r]["token"] - 1) = scheduled[r]
OBVIOUS

USE SlotAssumption, SizeAssumption, GoroutineAssumption
    DEF IInv, TypeOK, slotVars, traceVars, sendVars, Goroutine, ReadPlace, Terminal, Ended

\* The counters of sends are natural numbers.
LEMMA Counters ==
    ASSUME SendTypeOK, NEW s \in Slot
    PROVE  /\ terminal[s] \in Nat /\ scheduled[s] \in Nat
           /\ queued[s] \in [Token -> Nat] /\ flying[s] \in [Token -> Nat]
           /\ queued[s]["token"] \in Nat /\ flying[s]["token"] \in Nat
           /\ queued[s]["nil"] \in Nat /\ flying[s]["nil"] \in Nat
<1>1. /\ terminal[s] \in Nat /\ scheduled[s] \in Nat
      /\ queued[s] \in [Token -> Nat] /\ flying[s] \in [Token -> Nat]
  BY DEF SendTypeOK
<1> QED  BY <1>1 DEF Token

LEMMA SmallMod ==
    ASSUME NEW n \in Nat, NEW m \in Nat, n < m
    PROVE  n % m = n
BY SMT

\* What the completion of a send does to its trace, and to no other.
LEMMA Completion ==
    ASSUME SendTypeOK, NEW s \in Slot, NEW token \in Token, completeMessageOutbound(s, token)
    PROVE  /\ terminal' \in [Slot -> Nat]
           /\ terminal'[s] = IF token = "token" /\ terminal[s] < scheduled[s]
                               THEN terminal[s] + 1 ELSE terminal[s]
           /\ finalized' \in [Slot -> BOOLEAN]
           /\ \A r \in Slot : r # s => terminal'[r] = terminal[r]
           /\ \A r \in Slot : finalized[r] => finalized'[r]
           /\ \A r \in Slot : finalized'[r] =>
                  \/ finalized[r]
                  \/ r = s /\ token = "token" /\ sealed[s] /\ terminal[s] + 1 = scheduled[s]
<1> USE DEF SendTypeOK, completeMessageOutbound
<1>1. terminal \in [Slot -> Nat]
  OBVIOUS
<1>2. terminal' \in [Slot -> Nat]
  BY <1>1
<1>3. /\ terminal'[s] = IF token = "token" /\ terminal[s] < scheduled[s]
                          THEN terminal[s] + 1 ELSE terminal[s]
      /\ \A r \in Slot : r # s => terminal'[r] = terminal[r]
  BY <1>1
<1>4. finalized' \in [Slot -> BOOLEAN]
  OBVIOUS
<1>5. \A r \in Slot : finalized[r] => finalized'[r]
  OBVIOUS
<1>6. \A r \in Slot : finalized'[r] =>
          \/ finalized[r]
          \/ r = s /\ token = "token" /\ sealed[s] /\ terminal[s] + 1 = scheduled[s]
  OBVIOUS
<1> QED  BY <1>2, <1>3, <1>4, <1>5, <1>6

\* A send that ends leaves its trace's account in balance.
LEMMA CompletionKeeps ==
    ASSUME SendTypeOK, SendsInv, NEW s \in Slot, NEW token \in Token,
           completeMessageOutbound(s, token), UNCHANGED <<scheduled, sealed, id, output>>,
           queued'[s][token] + flying'[s][token] = queued[s][token] + flying[s][token] - 1,
           \A r \in Slot, u \in Token : (r # s \/ u # token) =>
               queued'[r][u] = queued[r][u] /\ flying'[r][u] = flying[r][u],
           queued' \in [Slot -> [Token -> Nat]], flying' \in [Slot -> [Token -> Nat]]
    PROVE  SendsInv' /\ SendTypeOK'
<1>a. "token" \in Token /\ "nil" \in Token /\ (token = "token" \/ token = "nil")
  BY DEF Token
<1>b. \A r \in Slot : queued'[r] \in [Token -> Nat] /\ flying'[r] \in [Token -> Nat]
  OBVIOUS
<1>c. \A r \in Slot : /\ queued'[r]["token"] \in Nat /\ flying'[r]["token"] \in Nat
                     /\ queued'[r]["nil"] \in Nat /\ flying'[r]["nil"] \in Nat
  BY <1>a, <1>b
<1>d. /\ terminal' \in [Slot -> Nat]
      /\ terminal'[s] = IF token = "token" /\ terminal[s] < scheduled[s]
                          THEN terminal[s] + 1 ELSE terminal[s]
      /\ finalized' \in [Slot -> BOOLEAN]
      /\ \A r \in Slot : r # s => terminal'[r] = terminal[r]
      /\ \A r \in Slot : finalized'[r] =>
             \/ finalized[r]
             \/ r = s /\ token = "token" /\ sealed[s] /\ terminal[s] + 1 = scheduled[s]
  BY Completion
<1>1. ASSUME NEW r \in Slot
      PROVE  /\ terminal'[r] + queued'[r]["token"] + flying'[r]["token"] = scheduled'[r]
             /\ queued'[r]["nil"] + flying'[r]["nil"] <= MaxUntraced
             /\ finalized'[r] => sealed'[r] /\ terminal'[r] = scheduled'[r]
  <2>1. /\ terminal[r] + queued[r]["token"] + flying[r]["token"] = scheduled[r]
        /\ queued[r]["nil"] + flying[r]["nil"] <= MaxUntraced
        /\ finalized[r] => sealed[r] /\ terminal[r] = scheduled[r]
    BY DEF SendsInv
  <2>2. CASE r # s
    BY <1>a, <1>d, <2>1, <2>2
  <2>a. /\ terminal[r] \in Nat /\ scheduled[r] \in Nat
        /\ queued[r]["token"] \in Nat /\ flying[r]["token"] \in Nat
        /\ queued[r]["nil"] \in Nat /\ flying[r]["nil"] \in Nat
    BY Counters
  <2>b. /\ queued'[r]["token"] \in Nat /\ flying'[r]["token"] \in Nat
        /\ queued'[r]["nil"] \in Nat /\ flying'[r]["nil"] \in Nat
    BY <1>c
  <2>3. CASE r = s /\ token = "token"
    <3>0. /\ queued'[r]["token"] + flying'[r]["token"] = queued[r]["token"] + flying[r]["token"] - 1
          /\ queued'[r]["nil"] = queued[r]["nil"] /\ flying'[r]["nil"] = flying[r]["nil"]
          /\ scheduled'[r] = scheduled[r]
      BY <1>a, <2>3
    <3>a. terminal[r] < scheduled[r]
      <4>1. queued'[r]["token"] + flying'[r]["token"] >= 0
        BY <2>b
      <4>2. queued[r]["token"] + flying[r]["token"] >= 1
        BY <2>a, <3>0, <4>1
      <4> QED  BY <2>a, <2>1, <4>2, EndedIsLess
    <3>1. /\ queued'[r]["token"] + flying'[r]["token"] = queued[r]["token"] + flying[r]["token"] - 1
          /\ queued'[r]["nil"] = queued[r]["nil"] /\ flying'[r]["nil"] = flying[r]["nil"]
          /\ terminal'[r] = terminal[r] + 1 /\ scheduled'[r] = scheduled[r]
      BY <1>d, <2>3, <3>0, <3>a
    <3>2. finalized'[r] => \/ finalized[r]
                           \/ sealed[r] /\ terminal[r] + 1 = scheduled[r]
      BY <1>d, <2>3
    <3>3. /\ terminal'[r] + queued'[r]["token"] + flying'[r]["token"] = scheduled'[r]
          /\ queued'[r]["nil"] + flying'[r]["nil"] <= MaxUntraced
          /\ terminal[r] # scheduled[r]
      <4>1. terminal[r] + 1 + (queued'[r]["token"] + flying'[r]["token"]) = scheduled[r]
        <5>1. terminal[r] + 1 + (queued[r]["token"] + flying[r]["token"] - 1) = scheduled[r]
          BY <2>a, <2>1, OneMoreEnded
        <5> QED  BY <3>1, <5>1, Zenon
      <4>2. terminal[r] + 1 + queued'[r]["token"] + flying'[r]["token"] = scheduled[r]
        BY <2>a, <2>b, <4>1
      <4>3. terminal[r] # scheduled[r]
        BY <2>a, <2>b, <4>2
      <4> QED  BY <2>1, <3>1, <4>2, <4>3, Zenon
    <3> QED  BY <2>1, <3>1, <3>2, <3>3
  <2>4. CASE r = s /\ token = "nil"
    <3>1. /\ queued'[r]["nil"] + flying'[r]["nil"] = queued[r]["nil"] + flying[r]["nil"] - 1
          /\ queued'[r]["token"] = queued[r]["token"]
          /\ flying'[r]["token"] = flying[r]["token"]
          /\ terminal'[r] = terminal[r] /\ scheduled'[r] = scheduled[r]
      BY <1>a, <1>d, <2>4
    <3>2. finalized'[r] => finalized[r]
      BY <1>d, <2>4
    <3>3. /\ terminal'[r] + queued'[r]["token"] + flying'[r]["token"] = scheduled'[r]
          /\ queued'[r]["nil"] + flying'[r]["nil"] <= MaxUntraced
      <4>1. queued'[r]["nil"] + flying'[r]["nil"] <= MaxUntraced
        BY <2>a, <2>b, <2>1, <3>1
      <4> QED  BY <2>1, <3>1, <4>1, Zenon
    <3> QED  BY <2>1, <3>1, <3>2, <3>3
  <2> QED  BY <1>a, <2>2, <2>3, <2>4
<1>2. SendsInv'
  BY <1>1 DEF SendsInv
<1>3. ASSUME NEW r \in Slot PROVE terminal'[r] \in 0 .. MaxTraced
  <2>1. scheduled[r] \in 0 .. MaxTraced
    BY DEF SendTypeOK
  <2>2. terminal'[r] \in Nat /\ scheduled'[r] = scheduled[r]
    BY <1>d
  <2>3. queued'[r]["token"] \in Nat /\ flying'[r]["token"] \in Nat
    BY <1>c
  <2>4. terminal'[r] + queued'[r]["token"] + flying'[r]["token"] = scheduled'[r]
    BY <1>1
  <2>5. terminal'[r] <= scheduled'[r]
    BY <2>1, <2>2, <2>3, <2>4
  <2> QED  BY <2>1, <2>2, <2>5
<1>4. terminal' \in [Slot -> 0 .. MaxTraced]
  BY <1>d, <1>3
<1> QED  BY <1>2, <1>4, <1>d DEF SendTypeOK

\* What a trace observes stays within its bound.
LEMMA Observes ==
    ASSUME SlotTypeOK, Observe \/ UNCHANGED observed
    PROVE  observed' \in 0 .. MaxObserved
BY SizeAssumption DEF SlotTypeOK, Observe

LEMMA InitIInv == Init => IInv
<1> SUFFICES ASSUME Init PROVE IInv
  OBVIOUS
<1> USE DEF Init, NotPreparing
<1>a. pending \in Seq(0 .. BMax - 1) /\ Len(pending) = 0
  OBVIOUS
<1>b. limit \in 0 .. BMax
  OBVIOUS
<1>c. observed \in 0 .. MaxObserved
  BY SizeAssumption
<1>1. SlotTypeOK
  BY <1>a, <1>b, <1>c DEF SlotTypeOK
<1>2. SendTypeOK /\ SendsInv
  <2>1. [token \in Token |-> 0] \in [Token -> Nat]
    OBVIOUS
  <2>2. SendTypeOK
    BY <2>1 DEF SendTypeOK
  <2>3. "token" \in Token /\ "nil" \in Token
    BY DEF Token
  <2>4. SendsInv
    BY <2>3 DEF SendsInv
  <2> QED  BY <2>2, <2>4
<1>3. RunTypeOK
  BY DEF RunTypeOK, Place
<1>4. ControlInv
  BY DEF ControlInv, ReplacementWaits
<1>5. ProposalInv
  BY <1>a DEF ProposalInv, ProposalFrozen, Starting
<1>6. PublishedInv
  BY DEF PublishedInv
<1> QED  BY <1>1, <1>2, <1>3, <1>4, <1>5, <1>6

LEMMA SendStartKeeps ==
    ASSUME IInv, NEW s \in Slot, NEW token \in Token, sendStart(s, token)
    PROVE  IInv'
<1>a. /\ queued' \in [Slot -> [Token -> Nat]]
      /\ flying' \in [Slot -> [Token -> Nat]]
      /\ queued'[s][token] = queued[s][token] - 1
      /\ \A r \in Slot, u \in Token : (r # s \/ u # token) => queued'[r][u] = queued[r][u]
      /\ s = id => flying'[s][token] = flying[s][token] + 1
      /\ s # id => flying'[s][token] = flying[s][token]
      /\ \A r \in Slot, u \in Token : (r # s \/ u # token) => flying'[r][u] = flying[r][u]
  <2>1. SendTypeOK
    OBVIOUS
  <2> QED  BY <2>1, SendStarts
<1>b. token = "token" \/ token = "nil"
  BY DEF Token
<1> USE DEF sendStart, MayRead
<1>1. SlotTypeOK'
  BY DEF SlotTypeOK
<1>2. SendTypeOK' /\ SendsInv'
  <2>a. "token" \in Token /\ "nil" \in Token
    BY DEF Token
  <2>1. CASE s = id
    <3>1. UNCHANGED <<scheduled, terminal, sealed, finalized, id, output>>
      BY <2>1
    <3> HIDE DEF sendStart
    <3>2. SendTypeOK'
      BY <1>a, <3>1 DEF SendTypeOK
    <3>3. ASSUME NEW r \in Slot
          PROVE  /\ terminal'[r] + queued'[r]["token"] + flying'[r]["token"] = scheduled'[r]
                 /\ queued'[r]["nil"] + flying'[r]["nil"] <= MaxUntraced
      <4>1. /\ terminal[r] + queued[r]["token"] + flying[r]["token"] = scheduled[r]
            /\ queued[r]["nil"] + flying[r]["nil"] <= MaxUntraced
        BY DEF SendsInv
      <4>a. /\ terminal[r] \in Nat /\ scheduled[r] \in Nat
            /\ queued[r]["token"] \in Nat /\ flying[r]["token"] \in Nat
            /\ queued[r]["nil"] \in Nat /\ flying[r]["nil"] \in Nat
        BY Counters
      <4>2. CASE r # s
        BY <1>a, <2>a, <3>1, <4>1, <4>2
      <4>3. CASE r = s /\ token = "token"
        <5>1. /\ queued'[r]["token"] = queued[r]["token"] - 1
              /\ flying'[r]["token"] = flying[r]["token"] + 1
              /\ queued'[r]["nil"] = queued[r]["nil"] /\ flying'[r]["nil"] = flying[r]["nil"]
              /\ terminal'[r] = terminal[r] /\ scheduled'[r] = scheduled[r]
          BY <1>a, <2>a, <2>1, <3>1, <4>3
        <5>2. terminal[r] + (queued[r]["token"] - 1) + (flying[r]["token"] + 1) = scheduled[r]
          BY <4>a, <4>1
        <5> QED  BY <4>1, <5>1, <5>2, Zenon
      <4>4. CASE r = s /\ token = "nil"
        <5>1. /\ queued'[r]["nil"] = queued[r]["nil"] - 1
              /\ flying'[r]["nil"] = flying[r]["nil"] + 1
              /\ queued'[r]["token"] = queued[r]["token"]
              /\ flying'[r]["token"] = flying[r]["token"]
              /\ terminal'[r] = terminal[r] /\ scheduled'[r] = scheduled[r]
          BY <1>a, <2>a, <2>1, <3>1, <4>4
        <5>2. (queued[r]["nil"] - 1) + (flying[r]["nil"] + 1) <= MaxUntraced
          BY <4>a, <4>1
        <5> QED  BY <4>1, <5>1, <5>2, Zenon
      <4> QED  BY <1>b, <4>2, <4>3, <4>4
    <3>4. SendsInv'
      BY <3>1, <3>3 DEF SendsInv
    <3> QED  BY <3>2, <3>4
  <2>2. CASE s # id
    <3>1. completeMessageOutbound(s, token) /\ UNCHANGED <<flying, scheduled, sealed, id, output>>
      BY <2>2 DEF completeMessageOutbound
    <3> HIDE DEF sendStart
    <3>2. queued'[s][token] + flying'[s][token] = queued[s][token] + flying[s][token] - 1
      <4>1. queued[s][token] \in Nat /\ flying[s][token] \in Nat
        BY <1>b, Counters
      <4>2. queued'[s][token] = queued[s][token] - 1 /\ flying'[s][token] = flying[s][token]
        BY <1>a, <2>2
      <4> QED  BY <4>1, <4>2
    <3>3. \A r \in Slot, u \in Token : (r # s \/ u # token) =>
              queued'[r][u] = queued[r][u] /\ flying'[r][u] = flying[r][u]
      BY <1>a
    <3> QED  BY <1>a, <3>1, <3>2, <3>3, CompletionKeeps
  <2> QED  BY <2>1, <2>2
<1>3. RunTypeOK'
  BY DEF RunTypeOK
<1>4. ControlInv'
  BY DEF SlotTypeOK, SendTypeOK, RunTypeOK, ControlInv, NoReaders, ReplacementWaits
<1>5. ProposalInv'
  BY DEF ProposalInv, ProposalFrozen, Starting, NextIndex
<1>6. PublishedInv'
  BY DEF SlotTypeOK, SendTypeOK, SendsInv, ControlInv, PublishedInv, publishable,
         CurrentAnswer, completeMessageOutbound
<1> QED  BY <1>1, <1>2, <1>3, <1>4, <1>5, <1>6

LEMMA SendEndKeeps ==
    ASSUME IInv, NEW s \in Slot, NEW token \in Token, sendEnd(s, token)
    PROVE  IInv'
<1>b. /\ flying' \in [Slot -> [Token -> Nat]]
      /\ flying[s][token] \in Nat
      /\ flying'[s][token] = flying[s][token] - 1
      /\ \A r \in Slot, u \in Token : (r # s \/ u # token) => flying'[r][u] = flying[r][u]
  BY SendEnds
<1> USE DEF sendEnd
<1>c. s = id
  BY DEF ControlInv, ReplacementWaits
<1>1. SlotTypeOK'
  BY DEF SlotTypeOK
<1>2. SendTypeOK' /\ SendsInv'
  <2>1. /\ completeMessageOutbound(s, token)
        /\ UNCHANGED <<queued, scheduled, sealed, id, output>>
    BY DEF completeMessageOutbound
  <2>2. queued \in [Slot -> [Token -> Nat]] /\ queued[s][token] \in Nat
    BY Counters DEF SendTypeOK, Token
  <2> HIDE DEF sendEnd
  <2>3. queued'[s][token] + flying'[s][token] = queued[s][token] + flying[s][token] - 1
    BY <1>b, <2>1, <2>2
  <2>4. \A r \in Slot, u \in Token : (r # s \/ u # token) =>
            queued'[r][u] = queued[r][u] /\ flying'[r][u] = flying[r][u]
    BY <1>b, <2>1
  <2> QED  BY <1>b, <2>1, <2>2, <2>3, <2>4, CompletionKeeps
<1>3. RunTypeOK'
  BY DEF RunTypeOK
<1>4. ControlInv'
  <2>1. prep.at # "swap"
    BY <1>b DEF ControlInv, NoReaders, SendTypeOK
  <2>2. ReplacementWaits'
    BY <1>b, <1>c DEF ControlInv, ReplacementWaits, SendTypeOK
  <2> QED  BY <2>1, <2>2 DEF ControlInv
<1>5. ProposalInv'
  BY DEF ProposalInv, ProposalFrozen, Starting, NextIndex
<1>6. PublishedInv'
  <2> SUFFICES ASSUME NEW a \in published PROVE publishable' /\ Sends(a) = CurrentAnswer'
    BY DEF PublishedInv
  <2>1. publishable /\ Sends(a) = CurrentAnswer
    BY DEF PublishedInv
  <2>2. publishable'
    BY <2>1, Completion DEF publishable, SlotTypeOK
  <2>3. CASE phase = "failed"
    BY <2>1, <2>2, <2>3 DEF CurrentAnswer
  <2>4. CASE phase # "failed"
    <3>1. token # "token"
      <4>1. phase = "completed"
        BY <2>1, <2>4 DEF publishable
      <4>2. ASSUME token = "token" PROVE FALSE
        <5>1. Traced => finalized[s]
          BY <1>c, <2>1, <2>4 DEF publishable
        <5>2. terminal[s] = scheduled[s] \/ scheduled[s] = 0
          BY <5>1 DEF SendsInv
        <5>3. terminal[s] + queued[s]["token"] + flying[s]["token"] = scheduled[s]
          BY DEF SendsInv
        <5>4. /\ terminal[s] \in Nat /\ scheduled[s] \in Nat
              /\ queued[s]["token"] \in Nat /\ flying[s]["token"] \in Nat
          BY Counters
        <5>5. flying[s]["token"] > 0
          BY <4>2
        <5> QED  BY <5>2, <5>3, <5>4, <5>5
      <4> QED  BY <4>2
    <3>2. terminal'[id] = terminal[id] /\ scheduled'[id] = scheduled[id]
      BY <1>c, <3>1, Completion DEF completeMessageOutbound
    <3> QED  BY <2>1, <2>2, <2>4, <3>2 DEF CurrentAnswer
  <2> QED  BY <2>2, <2>3, <2>4
<1> QED  BY <1>1, <1>2, <1>3, <1>4, <1>5, <1>6

LEMMA SubmitBeginKeeps ==
    ASSUME IInv, NEW u \in Submitter, submitBegin(u)
    PROVE  IInv'
<1> USE DEF submitBegin, Goto, MayRead, InputFree
<1>1. SlotTypeOK'
  BY DEF SlotTypeOK
<1>2. SendTypeOK' /\ SendsInv'
  BY DEF SendTypeOK, SendsInv
<1>3. RunTypeOK'
  <2>1. NextIndex \in 0 .. BMax - 1
    BY DEF SlotTypeOK, NextIndex
  <2>2. index' \in [Submitter -> 0 .. BMax - 1]
    BY <2>1 DEF RunTypeOK
  <2> QED  BY <2>2 DEF SlotTypeOK, RunTypeOK, Place
<1>4. ControlInv'
  BY DEF SlotTypeOK, RunTypeOK, ControlInv, NoReaders, ReplacementWaits
<1>5. ProposalInv'
  BY DEF SlotTypeOK, RunTypeOK, ProposalInv, ProposalFrozen, Starting, NextIndex
<1>6. PublishedInv'
  BY DEF PublishedInv, publishable, CurrentAnswer
<1> QED  BY <1>1, <1>2, <1>3, <1>4, <1>5, <1>6

LEMMA SubmitAcceptKeeps ==
    ASSUME IInv, NEW u \in Submitter, submitAccept(u)
    PROVE  IInv'
<1> USE DEF submitAccept, Goto
<1>a. /\ pending \in Seq(0 .. BMax - 1)
      /\ index[u] \in 0 .. BMax - 1
      /\ Len(pending) \in Nat
      /\ ~once /\ proposal = None
      /\ \A v \in Submitter : pc[v] = "encrypt" => v = u
  BY DEF SlotTypeOK, RunTypeOK, ProposalInv
<1>b. index[u] = Len(pending)
  <2>1. index[u] = Len(pending) % BMax
    BY DEF ProposalInv, NextIndex
  <2> QED  BY <1>a, <2>1, SmallMod
<1>c. /\ pending' \in Seq(0 .. BMax - 1)
      /\ Len(pending') = Len(pending) + 1
      /\ \A i \in 1 .. Len(pending) : pending'[i] = pending[i]
      /\ pending'[Len(pending) + 1] = index[u]
  BY <1>a
<1>1. SlotTypeOK'
  BY <1>c DEF SlotTypeOK
<1>2. SendTypeOK' /\ SendsInv'
  BY DEF SendTypeOK, SendsInv
<1>3. RunTypeOK'
  BY DEF SlotTypeOK, RunTypeOK, Place
<1>4. ControlInv'
  BY DEF SlotTypeOK, RunTypeOK, ControlInv, NoReaders, ReplacementWaits
<1>5. ProposalInv'
  <2>1. \A v \in Submitter : pc'[v] # "encrypt"
    BY <1>a DEF RunTypeOK
  <2>2. Len(pending') <= BMax
    BY <1>a, <1>c
  <2>3. \A i \in 1 .. Len(pending') : pending'[i] = i - 1
    BY <1>a, <1>b, <1>c DEF ProposalInv
  <2>4. ProposalFrozen' /\ proposal' = None
    BY <1>a DEF ProposalFrozen
  <2>5. \A c \in Starter : Starting(c)' => once'
    BY DEF ProposalInv, Starting, RunTypeOK
  <2> QED  BY <1>a, <2>1, <2>2, <2>3, <2>4, <2>5 DEF ProposalInv
<1>6. PublishedInv'
  BY DEF PublishedInv, publishable, CurrentAnswer
<1> QED  BY <1>1, <1>2, <1>3, <1>4, <1>5, <1>6

LEMMA SubmitRejectKeeps ==
    ASSUME IInv, NEW u \in Submitter, submitReject(u)
    PROVE  IInv'
<1> USE DEF submitReject, Goto
<1>1. SlotTypeOK'
  BY DEF SlotTypeOK, SendTypeOK, Answer
<1>2. SendTypeOK' /\ SendsInv'
  BY DEF SlotTypeOK, SendTypeOK, SendsInv
<1>3. RunTypeOK'
  BY DEF SlotTypeOK, RunTypeOK, Place
<1>4. ControlInv'
  BY DEF SlotTypeOK, SendTypeOK, RunTypeOK, ControlInv, NoReaders, ReplacementWaits
<1>5. ProposalInv'
  BY DEF SlotTypeOK, RunTypeOK, ProposalInv, ProposalFrozen, Starting, NextIndex
<1>6. PublishedInv'
  BY DEF SlotTypeOK, SendTypeOK, SendsInv, ControlInv, PublishedInv, publishable,
         CurrentAnswer
<1> QED  BY <1>1, <1>2, <1>3, <1>4, <1>5, <1>6

LEMMA OutputFailsKeeps ==
    ASSUME IInv, NEW g \in Starter \union Inbound, outputFails(g)
    PROVE  IInv'
<1> USE DEF outputFails, markSlotFailed, Goto
<1>1. SlotTypeOK'
  BY DEF SlotTypeOK, SendTypeOK, Answer
<1>2. SendTypeOK' /\ SendsInv'
  BY DEF SlotTypeOK, SendTypeOK, SendsInv
<1>3. RunTypeOK'
  BY DEF SlotTypeOK, RunTypeOK, Place
<1>4. ControlInv'
  BY DEF SlotTypeOK, SendTypeOK, RunTypeOK, ControlInv, NoReaders, ReplacementWaits
<1>5. ProposalInv'
  BY DEF SlotTypeOK, RunTypeOK, ProposalInv, ProposalFrozen, Starting, NextIndex
<1>6. PublishedInv'
  BY DEF SlotTypeOK, SendTypeOK, SendsInv, ControlInv, PublishedInv, publishable,
         CurrentAnswer
<1> QED  BY <1>1, <1>2, <1>3, <1>4, <1>5, <1>6

LEMMA FinishEmptyKeeps ==
    ASSUME IInv, NEW g \in Starter \union Inbound, finishEmptyMaterializedSet(g)
    PROVE  IInv'
<1> USE DEF finishEmptyMaterializedSet, Goto
<1>1. SlotTypeOK'
  BY DEF SlotTypeOK, SendTypeOK, Answer
<1>2. SendTypeOK' /\ SendsInv'
  BY DEF SlotTypeOK, SendTypeOK, SendsInv
<1>3. RunTypeOK'
  BY DEF SlotTypeOK, RunTypeOK, Place
<1>4. ControlInv'
  BY DEF SlotTypeOK, SendTypeOK, RunTypeOK, ControlInv, NoReaders, ReplacementWaits
<1>5. ProposalInv'
  BY DEF SlotTypeOK, RunTypeOK, ProposalInv, ProposalFrozen, Starting, NextIndex
<1>6. PublishedInv'
  BY DEF SlotTypeOK, SendTypeOK, SendsInv, ControlInv, PublishedInv, publishable,
         CurrentAnswer
<1> QED  BY <1>1, <1>2, <1>3, <1>4, <1>5, <1>6

LEMMA StorePlanKeeps ==
    ASSUME IInv, NEW g \in Starter \union Inbound, storePlan(g)
    PROVE  IInv'
<1> USE DEF storePlan, Goto, Advance
<1>1. SlotTypeOK'
  BY DEF SlotTypeOK, SendTypeOK, Answer
<1>2. SendTypeOK' /\ SendsInv'
  BY DEF SlotTypeOK, SendTypeOK, SendsInv
<1>3. RunTypeOK'
  BY DEF SlotTypeOK, RunTypeOK, Place
<1>4. ControlInv'
  BY DEF SlotTypeOK, SendTypeOK, RunTypeOK, ControlInv, NoReaders, ReplacementWaits
<1>5. ProposalInv'
  BY DEF SlotTypeOK, RunTypeOK, ProposalInv, ProposalFrozen, Starting, NextIndex
<1>6. PublishedInv'
  BY DEF SlotTypeOK, SendTypeOK, SendsInv, ControlInv, PublishedInv, publishable,
         CurrentAnswer
<1> QED  BY <1>1, <1>2, <1>3, <1>4, <1>5, <1>6

LEMMA MakeShareKeeps ==
    ASSUME IInv, NEW g \in Starter \union Inbound, NEW count \in 1 .. MaxUntraced,
           makeShare(g, count)
    PROVE  IInv'
<1>a. id \in Slot /\ count \in Nat
  BY DEF SlotTypeOK
<1>b. /\ queued' \in [Slot -> [Token -> Nat]]
      /\ queued'[id]["nil"] = queued[id]["nil"] + count
      /\ \A r \in Slot, u \in Token : (r # id \/ u # "nil") => queued'[r][u] = queued[r][u]
  BY <1>a, MakeShareAdds
<1>c. "token" \in Token /\ "nil" \in Token
  BY DEF Token
<1> USE DEF makeShare
<1>1. SlotTypeOK'
  BY DEF SlotTypeOK
<1>2. SendTypeOK'
  BY <1>b DEF SendTypeOK
<1>3. SendsInv'
  <2>1. /\ UNCHANGED <<scheduled, terminal, sealed, finalized, flying, id, output>>
        /\ queued[id]["nil"] + flying[id]["nil"] + count <= MaxUntraced
    BY DEF Waiting
  <2> HIDE DEF makeShare
  <2>2. ASSUME NEW r \in Slot
        PROVE  /\ terminal'[r] + queued'[r]["token"] + flying'[r]["token"] = scheduled'[r]
               /\ queued'[r]["nil"] + flying'[r]["nil"] <= MaxUntraced
    <3>1. /\ terminal[r] + queued[r]["token"] + flying[r]["token"] = scheduled[r]
          /\ queued[r]["nil"] + flying[r]["nil"] <= MaxUntraced
      BY DEF SendsInv
    <3>2. CASE r # id
      BY <1>b, <1>c, <2>1, <3>1, <3>2
    <3>3. CASE r = id
      <4>1. /\ terminal[r] \in Nat /\ scheduled[r] \in Nat
            /\ queued[r]["token"] \in Nat /\ flying[r]["token"] \in Nat
            /\ queued[r]["nil"] \in Nat /\ flying[r]["nil"] \in Nat
        BY Counters
      <4>2. /\ queued'[r]["nil"] = queued[r]["nil"] + count
            /\ flying'[r]["nil"] = flying[r]["nil"] /\ flying'[r]["token"] = flying[r]["token"]
            /\ queued'[r]["token"] = queued[r]["token"]
            /\ terminal'[r] = terminal[r] /\ scheduled'[r] = scheduled[r]
        BY <1>a, <1>b, <1>c, <2>1, <3>3
      <4>3. queued[r]["nil"] + flying[r]["nil"] + count <= MaxUntraced
        BY <2>1, <3>3
      <4> QED  BY <1>a, <3>1, <4>1, <4>2, <4>3
    <3> QED  BY <3>2, <3>3
  <2> QED  BY <2>1, <2>2 DEF SendsInv
<1>4. RunTypeOK'
  BY DEF RunTypeOK, Place
<1>5. ControlInv'
  BY DEF SlotTypeOK, RunTypeOK, ControlInv, NoReaders, ReplacementWaits
<1>6. ProposalInv'
  BY DEF SlotTypeOK, RunTypeOK, ProposalInv, ProposalFrozen, Starting, NextIndex
<1>7. PublishedInv'
  BY DEF PublishedInv, publishable, CurrentAnswer
<1> QED  BY <1>1, <1>2, <1>3, <1>4, <1>5, <1>6, <1>7

LEMMA SharesDoneKeeps ==
    ASSUME IInv, NEW g \in Starter \union Inbound, sharesDone(g)
    PROVE  IInv'
<1> USE DEF sharesDone, Advance
<1>1. SlotTypeOK'
  BY DEF SlotTypeOK
<1>2. SendTypeOK' /\ SendsInv'
  BY DEF SendTypeOK, SendsInv
<1>3. RunTypeOK'
  BY DEF RunTypeOK, Place
<1>4. ControlInv'
  BY DEF SlotTypeOK, RunTypeOK, ControlInv, NoReaders, ReplacementWaits
<1>5. ProposalInv'
  BY DEF SlotTypeOK, RunTypeOK, ProposalInv, ProposalFrozen, Starting, NextIndex
<1>6. PublishedInv'
  BY DEF PublishedInv, publishable, CurrentAnswer
<1> QED  BY <1>1, <1>2, <1>3, <1>4, <1>5, <1>6

LEMMA SharesFailKeeps ==
    ASSUME IInv, NEW g \in Starter \union Inbound, sharesFail(g)
    PROVE  IInv'
<1> USE DEF sharesFail, markSlotFailed, Goto
<1>1. SlotTypeOK'
  BY DEF SlotTypeOK, SendTypeOK, Answer
<1>2. SendTypeOK' /\ SendsInv'
  BY DEF SlotTypeOK, SendTypeOK, SendsInv
<1>3. RunTypeOK'
  BY DEF SlotTypeOK, RunTypeOK, Place
<1>4. ControlInv'
  BY DEF SlotTypeOK, SendTypeOK, RunTypeOK, ControlInv, NoReaders, ReplacementWaits
<1>5. ProposalInv'
  BY DEF SlotTypeOK, RunTypeOK, ProposalInv, ProposalFrozen, Starting, NextIndex
<1>6. PublishedInv'
  BY DEF SlotTypeOK, SendTypeOK, SendsInv, ControlInv, PublishedInv, publishable,
         CurrentAnswer
<1> QED  BY <1>1, <1>2, <1>3, <1>4, <1>5, <1>6

LEMMA TryCombineKeeps ==
    ASSUME IInv, NEW g \in Starter \union Inbound, tryCombine(g)
    PROVE  IInv'
<1> USE DEF tryCombine, Goto
<1>1. SlotTypeOK'
  BY DEF SlotTypeOK, SendTypeOK, Answer
<1>2. SendTypeOK' /\ SendsInv'
  BY DEF SlotTypeOK, SendTypeOK, SendsInv
<1>3. RunTypeOK'
  BY DEF SlotTypeOK, RunTypeOK, Place
<1>4. ControlInv'
  BY DEF SlotTypeOK, SendTypeOK, RunTypeOK, ControlInv, NoReaders, ReplacementWaits
<1>5. ProposalInv'
  BY DEF SlotTypeOK, RunTypeOK, ProposalInv, ProposalFrozen, Starting, NextIndex
<1>6. PublishedInv'
  BY DEF SlotTypeOK, SendTypeOK, SendsInv, ControlInv, PublishedInv, publishable,
         CurrentAnswer
<1> QED  BY <1>1, <1>2, <1>3, <1>4, <1>5, <1>6

LEMMA HandleEnvelopeKeeps ==
    ASSUME IInv, NEW h \in Inbound, handleEnvelope(h)
    PROVE  IInv'
<1> USE DEF handleEnvelope, Goto, MayRead
<1>1. SlotTypeOK'
  <2>1. observed' \in 0 .. MaxObserved
    BY Observes
  <2> QED  BY <2>1 DEF SlotTypeOK
<1>2. SendTypeOK' /\ SendsInv'
  BY DEF SlotTypeOK, SendTypeOK, SendsInv
<1>3. RunTypeOK'
  <2>1. PICK place \in {"acs", "combine"} :
            /\ pc' = [pc EXCEPT ![h] = place]
            /\ mine' = [mine EXCEPT ![h] = id]
    BY DEF ReadPlace
  <2>2. h \in Goroutine /\ id \in Slot /\ place \in Place
    BY DEF SlotTypeOK, Place, ReadPlace
  <2>3. pc' \in [Goroutine -> Place] /\ mine' \in [Goroutine -> Slot \union {None}]
    BY <2>1, <2>2 DEF RunTypeOK
  <2> QED  BY <2>3 DEF RunTypeOK
<1>4. ControlInv'
  BY DEF SlotTypeOK, SendTypeOK, RunTypeOK, ControlInv, NoReaders, ReplacementWaits
<1>5. ProposalInv'
  BY DEF SlotTypeOK, RunTypeOK, ProposalInv, ProposalFrozen, Starting, NextIndex
<1>6. PublishedInv'
  BY DEF SlotTypeOK, SendTypeOK, SendsInv, ControlInv, PublishedInv, publishable,
         CurrentAnswer
<1> QED  BY <1>1, <1>2, <1>3, <1>4, <1>5, <1>6

\* One transition of the slot's ACS, by an inbound handler or by the start.
LEMMA StepACSKeeps ==
    ASSUME IInv, NEW g \in Starter \union Inbound, pc[g] \in {"acs", "input"},
           g \in Starter => pc[g] = "input",
           NEW count \in 0 .. MaxTraced + MaxUntraced, NEW hasOutput \in BOOLEAN,
           stepACS(count, hasOutput),
           IF hasOutput THEN Advance(g, "output") ELSE Goto(g, "idle"),
           observed' \in 0 .. MaxObserved,
           UNCHANGED <<id, phase, once, pending, limit, proposal, planned, mu, published, index,
                       prep, up>>
    PROVE  IInv'
<1> DEFINE token == beginMessageOutbound(id)
<1>a. id \in Slot /\ count \in Nat
  BY DEF SlotTypeOK
<1>b. /\ token \in Token
      /\ queued' \in [Slot -> [Token -> Nat]]
      /\ queued'[id][token] = queued[id][token] + count
      /\ \A r \in Slot, u \in Token : (r # id \/ u # token) => queued'[r][u] = queued[r][u]
  <2>1. SendTypeOK /\ token = beginMessageOutbound(id)
    OBVIOUS
  <2> HIDE DEF token
  <2> QED  BY ONLY <1>a, <2>1, stepACS(count, hasOutput), StepACSAdds
<1>c. /\ scheduled' \in [Slot -> 0 .. MaxTraced]
      /\ scheduled'[id] = IF token = "token" THEN scheduled[id] + count ELSE scheduled[id]
      /\ \A r \in Slot : r # id => scheduled'[r] = scheduled[r]
  <2>1. /\ scheduled' = [scheduled EXCEPT ![id] =
                              IF token = "token" THEN scheduled[id] + count ELSE scheduled[id]]
        /\ token = "token" => scheduled[id] + count <= MaxTraced
    BY DEF stepACS
  <2>2. scheduled \in [Slot -> 0 .. MaxTraced] /\ scheduled[id] \in 0 .. MaxTraced
    BY <1>a DEF SendTypeOK
  <2> HIDE DEF token
  <2>3. (IF token = "token" THEN scheduled[id] + count ELSE scheduled[id]) \in 0 .. MaxTraced
    BY <2>1, <2>2
  <2> QED  BY <1>a, <2>1, <2>2, <2>3
<1>d. token # "token" => queued[id]["nil"] + flying[id]["nil"] + count <= MaxUntraced
  BY DEF stepACS, Waiting
<1>e. hasOutput => ~output /\ output'
  BY DEF stepACS
<1>f. output => output'
  BY DEF stepACS
<1>g. UNCHANGED <<terminal, flying>>
  BY DEF stepACS
<1>h. token = "token" <=> Traced /\ ~sealed[id]
  BY DEF beginMessageOutbound
<1>i. /\ sealed' \in [Slot -> BOOLEAN] /\ finalized' \in [Slot -> BOOLEAN]
      /\ \A r \in Slot : r # id => sealed'[r] = sealed[r] /\ finalized'[r] = finalized[r]
  BY <1>a DEF stepACS, sealMessageOutbound, SendTypeOK
<1>j. hasOutput => /\ sealed'[id] = Traced
                   /\ finalized'[id] <=> Traced /\ terminal[id] = scheduled'[id]
  BY <1>a DEF stepACS, sealMessageOutbound, SendTypeOK
<1>k. ~hasOutput => sealed' = sealed /\ finalized' = finalized /\ output' = output
  BY DEF stepACS, SlotTypeOK
<1> HIDE DEF token
<1>1. SlotTypeOK'
  BY DEF SlotTypeOK, stepACS
<1>2. SendTypeOK'
  BY <1>b, <1>c, <1>g, <1>i DEF SendTypeOK
<1>3. SendsInv'
  <2>1. ASSUME NEW s \in Slot
        PROVE  /\ terminal'[s] + queued'[s]["token"] + flying'[s]["token"] = scheduled'[s]
               /\ queued'[s]["nil"] + flying'[s]["nil"] <= MaxUntraced
    <3>1. /\ terminal[s] + queued[s]["token"] + flying[s]["token"] = scheduled[s]
          /\ queued[s]["nil"] + flying[s]["nil"] <= MaxUntraced
      BY DEF SendsInv
    <3>2. "token" \in Token /\ "nil" \in Token /\ (token = "token" \/ token = "nil")
      BY <1>b DEF Token
    <3>3. CASE s # id
      BY <1>b, <1>c, <1>g, <3>1, <3>2, <3>3
    <3>a. /\ terminal[s] \in Nat /\ scheduled[s] \in Nat
          /\ queued[s]["token"] \in Nat /\ flying[s]["token"] \in Nat
          /\ queued[s]["nil"] \in Nat /\ flying[s]["nil"] \in Nat
      BY Counters
    <3>4. CASE s = id /\ token = "token"
      <4>1. /\ queued'[s]["token"] = queued[s]["token"] + count
            /\ queued'[s]["nil"] = queued[s]["nil"]
            /\ flying'[s]["nil"] = flying[s]["nil"] /\ flying'[s]["token"] = flying[s]["token"]
            /\ terminal'[s] = terminal[s] /\ scheduled'[s] = scheduled[s] + count
        BY <1>b, <1>c, <1>g, <3>2, <3>4
      <4>2. terminal[s] + (queued[s]["token"] + count) + flying[s]["token"] = scheduled[s] + count
        BY <1>a, <3>a, <3>1
      <4> QED  BY <3>1, <4>1, <4>2, Zenon
    <3>5. CASE s = id /\ token = "nil"
      <4>1. /\ queued'[s]["nil"] = queued[s]["nil"] + count
            /\ queued'[s]["token"] = queued[s]["token"]
            /\ flying'[s]["nil"] = flying[s]["nil"] /\ flying'[s]["token"] = flying[s]["token"]
            /\ terminal'[s] = terminal[s] /\ scheduled'[s] = scheduled[s]
        BY <1>b, <1>c, <1>g, <3>2, <3>5
      <4>2. queued[s]["nil"] + flying[s]["nil"] + count <= MaxUntraced
        BY <1>d, <3>5
      <4> QED  BY <1>a, <3>a, <3>1, <4>1, <4>2
    <3> QED  BY <3>2, <3>3, <3>4, <3>5
  <2>2. ASSUME NEW s \in Slot
        PROVE  /\ sealed'[s] => Traced
               /\ finalized'[s] => sealed'[s] /\ terminal'[s] = scheduled'[s]
               /\ ~Traced => scheduled'[s] = 0
               /\ s > id' => ~sealed'[s]
    <3>1. CASE s # id
      BY <1>c, <1>g, <1>i, <3>1 DEF SendsInv
    <3>2. CASE s = id /\ hasOutput
      BY <1>c, <1>g, <1>h, <1>j, <3>2 DEF SendsInv, SlotTypeOK
    <3>3. CASE s = id /\ ~hasOutput
      BY <1>c, <1>g, <1>h, <1>k, <3>3 DEF SendsInv, SlotTypeOK
    <3> QED  BY <3>1, <3>2, <3>3
  <2>3. ~output' => ~sealed'[id']
    BY <1>e, <1>k DEF SendsInv
  <2> QED  BY <2>1, <2>2, <2>3 DEF SendsInv
<1>4. RunTypeOK'
  <2>1. Advance(g, "output") \/ Goto(g, "idle")
    OBVIOUS
  <2>2. pc' \in [Goroutine -> Place] /\ mine' \in [Goroutine -> Slot \union {None}]
    BY <2>1 DEF Advance, Goto, RunTypeOK, Place
  <2> QED  BY <2>2 DEF RunTypeOK
<1>5. ControlInv'
  <2>1. prep.at # "swap"
    BY DEF ControlInv, NoReaders
  <2>2. ReplacementWaits'
    <3>1. CASE hasOutput
      BY <1>g, <3>1 DEF ControlInv, ReplacementWaits, Advance, RunTypeOK
    <3>2. CASE ~hasOutput
      BY <1>g, <3>2 DEF ControlInv, ReplacementWaits, Goto, RunTypeOK
    <3> QED  BY <3>1, <3>2
  <2>3. \A h \in Goroutine : pc'[h] \in {"output", "shares"} => output'
    BY <1>e, <1>f DEF ControlInv, Advance, Goto, RunTypeOK
  <2> QED  BY <1>f, <2>1, <2>2, <2>3 DEF ControlInv
<1>6. ProposalInv'
  <2>1. \A h \in Goroutine : h # g => pc'[h] = pc[h]
    BY DEF Advance, Goto, RunTypeOK
  <2>2. g \in Goroutine /\ g \notin Submitter /\ pc'[g] \in {"output", "idle"}
    BY DEF Advance, Goto, RunTypeOK
  <2>3. g \in Starter => once
    BY DEF ProposalInv, Starting
  <2> QED  BY <2>1, <2>2, <2>3 DEF ProposalInv, ProposalFrozen, Starting, NextIndex
<1>7. PublishedInv'
  <2> SUFFICES ASSUME NEW a \in published PROVE publishable' /\ Sends(a) = CurrentAnswer'
    BY DEF PublishedInv
  <2>1. publishable /\ Sends(a) = CurrentAnswer
    BY DEF PublishedInv
  <2>2. CASE phase = "failed"
    BY <2>1, <2>2 DEF publishable, CurrentAnswer
  <2>3. CASE phase # "failed"
    <3>1. ~hasOutput
      BY <1>e, <2>1, <2>3 DEF publishable, ControlInv
    <3>2. token # "token"
      BY <1>h, <2>1, <2>3 DEF publishable, SendsInv, SlotTypeOK
    <3> QED  BY <1>c, <1>g, <1>k, <2>1, <2>3, <3>1, <3>2 DEF publishable, CurrentAnswer
  <2> QED  BY <2>2, <2>3
<1> QED  BY <1>1, <1>2, <1>3, <1>4, <1>5, <1>6, <1>7

LEMMA StartValidateKeeps ==
    ASSUME IInv, NEW c \in Starter, startValidate(c)
    PROVE  IInv'
<1> USE DEF startValidate, Goto, MayRead
<1>1. SlotTypeOK'
  BY DEF SlotTypeOK, SendTypeOK, Answer
<1>2. SendTypeOK' /\ SendsInv'
  BY DEF SlotTypeOK, SendTypeOK, SendsInv
<1>3. RunTypeOK'
  BY DEF SlotTypeOK, RunTypeOK, Place
<1>4. ControlInv'
  BY DEF SlotTypeOK, SendTypeOK, RunTypeOK, ControlInv, NoReaders, ReplacementWaits
<1>5. ProposalInv'
  BY DEF SlotTypeOK, RunTypeOK, ProposalInv, ProposalFrozen, Starting, NextIndex
<1>6. PublishedInv'
  BY DEF SlotTypeOK, SendTypeOK, SendsInv, ControlInv, PublishedInv, publishable,
         CurrentAnswer
<1> QED  BY <1>1, <1>2, <1>3, <1>4, <1>5, <1>6

LEMMA StartAgainKeeps ==
    ASSUME IInv, NEW c \in Starter, startAgain(c)
    PROVE  IInv'
<1> USE DEF startAgain, Goto, MayRead
<1>1. SlotTypeOK'
  BY DEF SlotTypeOK, SendTypeOK, Answer
<1>2. SendTypeOK' /\ SendsInv'
  BY DEF SlotTypeOK, SendTypeOK, SendsInv
<1>3. RunTypeOK'
  BY DEF SlotTypeOK, RunTypeOK, Place
<1>4. ControlInv'
  BY DEF SlotTypeOK, SendTypeOK, RunTypeOK, ControlInv, NoReaders, ReplacementWaits
<1>5. ProposalInv'
  BY DEF SlotTypeOK, RunTypeOK, ProposalInv, ProposalFrozen, Starting, NextIndex
<1>6. PublishedInv'
  BY DEF SlotTypeOK, SendTypeOK, SendsInv, ControlInv, PublishedInv, publishable,
         CurrentAnswer
<1> QED  BY <1>1, <1>2, <1>3, <1>4, <1>5, <1>6

LEMMA StartOnceKeeps ==
    ASSUME IInv, NEW c \in Starter, startOnce(c)
    PROVE  IInv'
<1> USE DEF startOnce, InputFree, Goto, MayRead
<1>1. SlotTypeOK'
  BY DEF SlotTypeOK
<1>2. SendTypeOK' /\ SendsInv'
  BY DEF SendTypeOK, SendsInv
<1>3. RunTypeOK'
  <2>1. Goto(c, "error") \/ Goto(c, "build")
    OBVIOUS
  <2>2. pc' \in [Goroutine -> Place]
    BY <2>1 DEF RunTypeOK, Place
  <2>3. mine' \in [Goroutine -> Slot \union {None}]
    BY <2>1 DEF SlotTypeOK, RunTypeOK
  <2> QED  BY <2>2, <2>3 DEF RunTypeOK
<1>4. ControlInv'
  BY DEF SlotTypeOK, RunTypeOK, ControlInv, NoReaders, ReplacementWaits
<1>5. ProposalInv'
  BY DEF SlotTypeOK, RunTypeOK, ProposalInv, ProposalFrozen, Starting, NextIndex
<1>6. PublishedInv'
  BY DEF SlotTypeOK, PublishedInv, publishable, CurrentAnswer
<1> QED  BY <1>1, <1>2, <1>3, <1>4, <1>5, <1>6

LEMMA BuildInclusionListKeeps ==
    ASSUME IInv, NEW c \in Starter, buildInclusionList(c)
    PROVE  IInv'
<1> USE DEF buildInclusionList, Advance
<1>1. SlotTypeOK'
  BY DEF SlotTypeOK, SendTypeOK, Answer
<1>2. SendTypeOK' /\ SendsInv'
  BY DEF SlotTypeOK, SendTypeOK, SendsInv
<1>3. RunTypeOK'
  BY DEF SlotTypeOK, RunTypeOK, Place
<1>4. ControlInv'
  BY DEF SlotTypeOK, SendTypeOK, RunTypeOK, ControlInv, NoReaders, ReplacementWaits
<1>5. ProposalInv'
  BY DEF SlotTypeOK, RunTypeOK, ProposalInv, ProposalFrozen, Starting, NextIndex
<1>6. PublishedInv'
  BY DEF SlotTypeOK, SendTypeOK, SendsInv, ControlInv, PublishedInv, publishable,
         CurrentAnswer
<1> QED  BY <1>1, <1>2, <1>3, <1>4, <1>5, <1>6

LEMMA StartFailsKeeps ==
    ASSUME IInv, NEW c \in Starter, startFails(c)
    PROVE  IInv'
<1> USE DEF startFails, markSlotFailed, Goto
<1>1. SlotTypeOK'
  BY DEF SlotTypeOK, SendTypeOK, Answer
<1>2. SendTypeOK' /\ SendsInv'
  BY DEF SlotTypeOK, SendTypeOK, SendsInv
<1>3. RunTypeOK'
  BY DEF SlotTypeOK, RunTypeOK, Place
<1>4. ControlInv'
  BY DEF SlotTypeOK, SendTypeOK, RunTypeOK, ControlInv, NoReaders, ReplacementWaits
<1>5. ProposalInv'
  BY DEF SlotTypeOK, RunTypeOK, ProposalInv, ProposalFrozen, Starting, NextIndex
<1>6. PublishedInv'
  BY DEF SlotTypeOK, SendTypeOK, SendsInv, ControlInv, PublishedInv, publishable,
         CurrentAnswer
<1> QED  BY <1>1, <1>2, <1>3, <1>4, <1>5, <1>6

LEMMA ErrorLockKeeps ==
    ASSUME IInv, NEW c \in Starter, errorLock(c)
    PROVE  IInv'
<1> USE DEF errorLock, Goto
<1>1. SlotTypeOK'
  BY DEF SlotTypeOK, SendTypeOK, Answer
<1>2. SendTypeOK' /\ SendsInv'
  BY DEF SlotTypeOK, SendTypeOK, SendsInv
<1>3. RunTypeOK'
  BY DEF SlotTypeOK, RunTypeOK, Place
<1>4. ControlInv'
  BY DEF SlotTypeOK, SendTypeOK, RunTypeOK, ControlInv, NoReaders, ReplacementWaits
<1>5. ProposalInv'
  BY DEF SlotTypeOK, RunTypeOK, ProposalInv, ProposalFrozen, Starting, NextIndex
<1>6. PublishedInv'
  BY DEF SlotTypeOK, SendTypeOK, SendsInv, ControlInv, PublishedInv, publishable,
         CurrentAnswer
<1> QED  BY <1>1, <1>2, <1>3, <1>4, <1>5, <1>6

LEMMA ErrorUnlockKeeps ==
    ASSUME IInv, NEW c \in Starter, errorUnlock(c)
    PROVE  IInv'
<1> USE DEF errorUnlock, Goto
<1>1. SlotTypeOK'
  BY DEF SlotTypeOK, SendTypeOK, Answer
<1>2. SendTypeOK' /\ SendsInv'
  BY DEF SlotTypeOK, SendTypeOK, SendsInv
<1>3. RunTypeOK'
  BY DEF SlotTypeOK, RunTypeOK, Place
<1>4. ControlInv'
  BY DEF SlotTypeOK, SendTypeOK, RunTypeOK, ControlInv, NoReaders, ReplacementWaits
<1>5. ProposalInv'
  BY DEF SlotTypeOK, RunTypeOK, ProposalInv, ProposalFrozen, Starting, NextIndex
<1>6. PublishedInv'
  BY DEF SlotTypeOK, SendTypeOK, SendsInv, ControlInv, PublishedInv, publishable,
         CurrentAnswer
<1> QED  BY <1>1, <1>2, <1>3, <1>4, <1>5, <1>6

LEMMA HandleResultKeeps ==
    ASSUME IInv, handleResult
    PROVE  IInv'
<1>a. PICK new \in Answer : published' = published \union {new} /\ Sends(new) = CurrentAnswer
  <2>1. scheduled[id] \in 0 .. MaxTraced /\ terminal[id] \in 0 .. MaxTraced
        /\ observed \in 0 .. MaxObserved
    BY DEF SlotTypeOK, SendTypeOK
  <2>2. CASE phase = "failed"
    <3> DEFINE new == [outcome |-> "failed", scheduled |-> 0, terminal |-> 0, observed |-> 0]
    <3>1. new \in Answer
      BY SizeAssumption DEF Answer, Terminal
    <3> QED  BY <2>2, <3>1 DEF handleResult, CurrentAnswer, Sends
  <2>3. CASE phase # "failed"
    <3> DEFINE new == [outcome |-> "completed", scheduled |-> scheduled[id],
                       terminal |-> terminal[id], observed |-> observed]
    <3>1. new \in Answer
      BY <2>1 DEF Answer, Terminal
    <3> QED  BY <2>3, <3>1 DEF handleResult, CurrentAnswer, Sends
  <2> QED  BY <2>2, <2>3
<1>b. publishable /\ UNCHANGED <<id, slotVars, mu, traceVars, sendVars, observed, pc, mine, index, prep, up>>
  BY DEF handleResult
<1>1. SlotTypeOK'
  BY <1>a, <1>b DEF SlotTypeOK
<1>2. SendTypeOK' /\ SendsInv' /\ RunTypeOK'
  BY <1>b DEF SendTypeOK, SendsInv, RunTypeOK
<1>3. ControlInv' /\ ProposalInv'
  BY <1>b DEF ControlInv, NoReaders, ReplacementWaits, ProposalInv, ProposalFrozen, Starting,
              NextIndex
<1>4. PublishedInv'
  BY <1>a, <1>b DEF PublishedInv, publishable, CurrentAnswer
<1> QED  BY <1>1, <1>2, <1>3, <1>4

LEMMA PrepareRequestKeeps ==
    ASSUME IInv, prepareRequest
    PROVE  IInv'
<1> USE DEF prepareRequest
<1>1. SlotTypeOK'
  BY DEF SlotTypeOK, SendTypeOK, Answer
<1>2. SendTypeOK' /\ SendsInv'
  BY DEF SlotTypeOK, SendTypeOK, SendsInv
<1>3. RunTypeOK'
  BY DEF SlotTypeOK, RunTypeOK, Place
<1>4. ControlInv'
  BY DEF SlotTypeOK, SendTypeOK, RunTypeOK, ControlInv, NoReaders, ReplacementWaits
<1>5. ProposalInv'
  BY DEF SlotTypeOK, RunTypeOK, ProposalInv, ProposalFrozen, Starting, NextIndex
<1>6. PublishedInv'
  BY DEF SlotTypeOK, SendTypeOK, SendsInv, ControlInv, PublishedInv, publishable,
         CurrentAnswer
<1> QED  BY <1>1, <1>2, <1>3, <1>4, <1>5, <1>6

LEMMA PrepareLimitKeeps ==
    ASSUME IInv, NEW slotID \in Slot, NEW proposalLimit \in Limit, prepareLimit(slotID, proposalLimit)
    PROVE  IInv'
<1> USE DEF prepareLimit, SetsLimit, WriteLocked, NotPreparing
<1>1. SlotTypeOK'
  BY DEF SlotTypeOK, SendTypeOK, Answer
<1>2. SendTypeOK' /\ SendsInv'
  BY DEF SlotTypeOK, SendTypeOK, SendsInv
<1>3. RunTypeOK'
  BY DEF SlotTypeOK, RunTypeOK, Place
<1>4. ControlInv'
  BY DEF SlotTypeOK, SendTypeOK, RunTypeOK, ControlInv, NoReaders, ReplacementWaits
<1>5. ProposalInv'
  BY DEF SlotTypeOK, RunTypeOK, ProposalInv, ProposalFrozen, Starting, NextIndex
<1>6. PublishedInv'
  BY DEF SlotTypeOK, SendTypeOK, SendsInv, ControlInv, PublishedInv, publishable,
         CurrentAnswer
<1> QED  BY <1>1, <1>2, <1>3, <1>4, <1>5, <1>6

LEMMA PrepareCheckKeeps ==
    ASSUME IInv, NEW slotID \in Slot, NEW proposalLimit \in Limit,
           prepareCheck(slotID, proposalLimit)
    PROVE  IInv'
<1> USE DEF prepareCheck
<1>1. SlotTypeOK'
  BY DEF SlotTypeOK
<1>2. SendTypeOK' /\ SendsInv'
  BY DEF SendTypeOK, SendsInv
<1>3. RunTypeOK'
  <2>0. proposalLimit \in 0 .. BMax
    BY SizeAssumption DEF SizeAssumption
  <2>1. slotID \in Slot /\ 0 \in 0 .. BMax /\ FirstSlot \in Slot
    BY SizeAssumption, SlotAssumption DEF SizeAssumption, SlotAssumption
  <2>2. prep' \in [at : {"idle", "waiting", "swap"}, slot : Slot, limit : 0 .. BMax]
    BY <2>0, <2>1 DEF NotPreparing
  <2> QED  BY <2>2 DEF RunTypeOK
<1>4. ControlInv'
  BY DEF SlotTypeOK, ControlInv, Replaceable, WriteLocked, NoReaders, ReplacementWaits,
         NotPreparing
<1>5. ProposalInv' /\ PublishedInv'
  BY DEF ProposalInv, ProposalFrozen, Starting, NextIndex, PublishedInv, publishable,
         CurrentAnswer
<1> QED  BY <1>1, <1>2, <1>3, <1>4, <1>5

LEMMA PrepareSwapKeeps ==
    ASSUME IInv, prepareSwap
    PROVE  IInv'
<1> USE DEF prepareSwap, newSlotState, NotPreparing
<1>a. NoReaders /\ prep.slot > id /\ prep.slot \in Slot /\ prep.limit \in 0 .. BMax
  BY DEF ControlInv, RunTypeOK
<1>b. pending' \in Seq(0 .. BMax - 1) /\ Len(pending') = 0
  OBVIOUS
<1>c. observed' \in 0 .. MaxObserved
  BY SizeAssumption
<1>1. SlotTypeOK'
  BY <1>a, <1>b, <1>c DEF SlotTypeOK
<1>2. SendTypeOK'
  BY DEF SendTypeOK
<1>3. SendsInv'
  <2>1. \A s \in Slot : s > prep.slot => s > id
    <3>1. id \in Nat /\ prep.slot \in Nat /\ \A s \in Slot : s \in Nat
      BY <1>a DEF SlotTypeOK
    <3> QED  BY <1>a, <3>1
  <2> QED  BY <1>a, <2>1 DEF SendsInv
<1>4. RunTypeOK'
  BY DEF RunTypeOK
<1>5. ControlInv'
  BY <1>a DEF ControlInv, NoReaders, ReplacementWaits, RunTypeOK, SendTypeOK
<1>6. ProposalInv'
  <2>1. \A u \in Submitter : pc'[u] # "encrypt"
    BY <1>a DEF NoReaders
  <2>2. \A c \in Starter : ~Starting(c)'
    BY <1>a DEF NoReaders, Starting
  <2> QED  BY <1>b, <2>1, <2>2 DEF ProposalInv, ProposalFrozen
<1>7. PublishedInv'
  BY DEF PublishedInv
<1> QED  BY <1>1, <1>2, <1>3, <1>4, <1>5, <1>6, <1>7

\* The invariant holds in the initial states and is kept by every step.
LEMMA StepIInv == IInv /\ [Next]_vars => IInv'
<1> SUFFICES ASSUME IInv, [Next]_vars PROVE IInv'
  OBVIOUS
<1>1. CASE UNCHANGED vars
  <2> USE <1>1 DEF vars
  <2>a. SlotTypeOK'
    BY DEF SlotTypeOK
  <2>b. SendTypeOK' /\ RunTypeOK'
    BY DEF SendTypeOK, RunTypeOK
  <2>1. SendsInv'
    BY DEF SendsInv
  <2>2. ControlInv'
    BY DEF ControlInv, NoReaders, ReplacementWaits
  <2>3. ProposalInv'
    BY DEF ProposalInv, ProposalFrozen, Starting, NextIndex
  <2>4. PublishedInv'
    BY DEF PublishedInv, publishable, CurrentAnswer
  <2> QED  BY <2>a, <2>b, <2>1, <2>2, <2>3, <2>4
<1>2. ASSUME NEW s \in Slot, NEW token \in Token, sendStart(s, token) \/ sendEnd(s, token)
      PROVE  IInv'
  BY <1>2, SendStartKeeps, SendEndKeeps
<1>3. ASSUME NEW u \in Submitter, Submit(u) PROVE IInv'
  BY <1>3, SubmitBeginKeeps, SubmitAcceptKeeps, SubmitRejectKeeps DEF Submit
<1>4. ASSUME NEW g \in Starter \union Inbound, Output(g) PROVE IInv'
  BY <1>4, OutputFailsKeeps, FinishEmptyKeeps, StorePlanKeeps, MakeShareKeeps, SharesDoneKeeps,
     SharesFailKeeps, TryCombineKeeps DEF Output
<1>5. ASSUME NEW h \in Inbound, handleEnvelope(h) \/ handleACS(h) PROVE IInv'
  <2>1. CASE handleEnvelope(h)
    BY <2>1, HandleEnvelopeKeeps
  <2>2. CASE handleACS(h)
    <3>1. h \notin Starter
      BY GoroutineAssumption
    <3> QED  BY <2>2, <3>1, Observes, StepACSKeeps DEF handleACS
  <2> QED  BY <1>5, <2>1, <2>2
<1>6. ASSUME NEW c \in Starter, startValidate(c) \/ Start(c) PROVE IInv'
  <2>1. CASE inputBatch(c)
    BY <2>1, Observes, StepACSKeeps DEF inputBatch
  <2> QED
    BY <1>6, <2>1, StartValidateKeeps, StartAgainKeeps, StartOnceKeeps, BuildInclusionListKeeps,
       StartFailsKeeps, ErrorLockKeeps, ErrorUnlockKeeps DEF Start
<1>7. CASE handleResult \/ prepareRequest
  BY <1>7, HandleResultKeeps, PrepareRequestKeeps
<1>8. CASE Prepare
  BY <1>8, PrepareLimitKeeps, PrepareCheckKeeps, PrepareSwapKeeps DEF Prepare
<1> QED  BY <1>1, <1>2, <1>3, <1>4, <1>5, <1>6, <1>7, <1>8 DEF Next

\* IInv is an invariant: what prepareSlot, the HTTP handlers, the envelopes and
\* the send goroutines do together keeps it, for any number of each.
THEOREM Invariance == Spec => []IInv
<1>1. Init => IInv
  BY InitIInv
<1>2. IInv /\ [Next]_vars => IInv'
  BY StepIInv
<1> QED  BY <1>1, <1>2, PTL DEF Spec

\* The state of node.go and trace_outbound.go keeps its types.
THEOREM TypeCorrectness == Spec => []TypeOK
<1>1. IInv => TypeOK
  OBVIOUS
<1> QED  BY <1>1, Invariance, PTL

\* prepareSlot replaces no slot that a handler or a send uses under lifecycleMu's
\* read lock (node.go:274-323).
THEOREM ReplacementWaitsTheorem == Spec => []ReplacementWaits
<1>1. IInv => ReplacementWaits
  BY DEF ControlInv
<1> QED  BY <1>1, Invariance, PTL

\* handleSubmitTx gives no puncture index twice in a slot: inputMu keeps the
\* length of pending from the choice of the index to the append (node.go:374-475).
THEOREM DistinctIndexesTheorem == Spec => []DistinctIndexes
<1>1. IInv => DistinctIndexes
  <2> SUFFICES ASSUME IInv, NEW i \in 1 .. Len(pending), NEW j \in 1 .. Len(pending), i # j
               PROVE  pending[i] # pending[j]
    BY DEF DistinctIndexes
  <2>1. pending[i] = i - 1 /\ pending[j] = j - 1
    BY DEF ProposalInv
  <2>2. i \in Int /\ j \in Int
    OBVIOUS
  <2> QED  BY <2>1, <2>2
<1> QED  BY <1>1, Invariance, PTL

\* Nothing is accepted into a slot, and its limit does not change, once
\* startConsensus has read them for the proposal (node.go:301, 374, 498-523).
THEOREM ProposalFrozenTheorem == Spec => []ProposalFrozen
<1>1. IInv => ProposalFrozen
  BY DEF ProposalInv
<1> QED  BY <1>1, Invariance, PTL

\* /result answers a slot in one way as to its end and its sends: a completed slot
\* is published when its trace is finalized, every send admitted to it has ended
\* then, and neither a send nor an output changes that (node.go:257-267,
\* trace_outbound.go:23-75).  Receptions still change what the trace observes.
THEOREM PublishedStableTheorem == Spec => []PublishedStable
<1>1. ASSUME IInv, NEW a \in published
      PROVE  Sends(a) = CurrentAnswer /\ a.terminal = a.scheduled
  <2>1. publishable /\ Sends(a) = CurrentAnswer
    BY <1>1 DEF PublishedInv
  <2>2. CASE phase = "failed"
    BY <2>1, <2>2 DEF CurrentAnswer, Sends
  <2>3. CASE phase # "failed"
    <3>1. id \in Slot /\ (Traced => finalized[id])
      BY <1>1, <2>1, <2>3 DEF publishable, SlotTypeOK
    <3>2. scheduled[id] \in Nat /\ terminal[id] \in Nat
          /\ queued[id]["token"] \in Nat /\ flying[id]["token"] \in Nat
      BY <1>1, <3>1, Counters
    <3>3. terminal[id] = scheduled[id]
      BY <1>1, <3>1, <3>2 DEF SendsInv
    <3> QED  BY <2>1, <2>3, <3>3 DEF CurrentAnswer, Sends
  <2> QED  BY <2>1, <2>2, <2>3
<1>2. IInv => PublishedStable
  BY <1>1 DEF PublishedStable
<1> QED  BY <1>2, Invariance, PTL

\* Only the replacement changes the active slot, and only it takes back an end.
LEMMA StepEnd ==
    ASSUME IInv, [Next]_vars
    PROVE  /\ id' # id => prep.at = "swap"
           /\ Ended => phase' = phase \/ id' # id
<1> DEFINE P == /\ id' # id => prep.at = "swap"
                /\ Ended => phase' = phase \/ id' # id
<1>1. CASE UNCHANGED vars
  BY <1>1 DEF vars
<1>2. ASSUME NEW s \in Slot, NEW token \in Token, sendStart(s, token) \/ sendEnd(s, token)
      PROVE  P
  BY <1>2 DEF sendStart, sendEnd
<1>3. ASSUME NEW u \in Submitter, Submit(u) PROVE P
  BY <1>3 DEF Submit, submitBegin, submitAccept, submitReject
<1>4. ASSUME NEW g \in Starter \union Inbound, Output(g) PROVE P
  BY <1>4 DEF Output, outputFails, finishEmptyMaterializedSet, storePlan, makeShare, sharesDone,
              sharesFail, tryCombine, markSlotFailed
<1>5. ASSUME NEW h \in Inbound, handleEnvelope(h) \/ handleACS(h) PROVE P
  BY <1>5 DEF handleEnvelope, handleACS
<1>6. ASSUME NEW c \in Starter, startValidate(c) \/ Start(c) PROVE P
  BY <1>6 DEF startValidate, Start, startAgain, startOnce, buildInclusionList, startFails,
              inputBatch, errorLock, errorUnlock, markSlotFailed
<1>7. CASE handleResult \/ prepareRequest
  BY <1>7 DEF handleResult, prepareRequest
<1>8. CASE Prepare
  <2>1. CASE prepareSwap
    <3>1. prep.slot > id /\ prep.slot \in Nat /\ id \in Nat /\ prep.at = "swap"
      BY <2>1 DEF prepareSwap, ControlInv, RunTypeOK, SlotTypeOK
    <3>2. id' # id
      BY <2>1, <3>1 DEF prepareSwap
    <3> QED  BY <3>1, <3>2
  <2>2. ASSUME NEW slotID \in Slot, NEW proposalLimit \in Limit,
               prepareLimit(slotID, proposalLimit) \/ prepareCheck(slotID, proposalLimit)
        PROVE  P
    BY <2>2 DEF prepareLimit, prepareCheck
  <2> QED  BY <1>8, <2>1, <2>2 DEF Prepare
<1> QED  BY <1>1, <1>2, <1>3, <1>4, <1>5, <1>6, <1>7, <1>8 DEF Next

\* A completed or failed slot stays so until it is replaced (node.go:498, 851,
\* 950, 1298-1314).
THEOREM EndStaysTheorem == Spec => EndStays
<1>1. IInv /\ [Next]_vars => [Ended => phase' = phase \/ id' # id]_vars
  BY StepEnd
<1> QED  BY <1>1, Invariance, PTL DEF Spec, EndStays

\* When a completed slot is replaced, all sends admitted to its trace have ended:
\* prepareSlot waits until it is finalized (node.go:307-318).
THEOREM CompletedDrainsTheorem == Spec => CompletedDrains
<1>1. ASSUME IInv, [Next]_vars, id' # id, phase = "completed"
      PROVE  Waiting(id, "token") = 0
  <2>1. prep.at = "swap" /\ id \in Slot
    BY <1>1, StepEnd DEF SlotTypeOK
  <2>2. Traced => finalized[id]
    BY <1>1, <2>1 DEF ControlInv
  <2>3. terminal[id] = scheduled[id] \/ scheduled[id] = 0
    BY <1>1, <2>1, <2>2 DEF SendsInv
  <2>4. terminal[id] + queued[id]["token"] + flying[id]["token"] = scheduled[id]
    BY <1>1, <2>1 DEF SendsInv
  <2>5. /\ terminal[id] \in Nat /\ scheduled[id] \in Nat
        /\ queued[id]["token"] \in Nat /\ flying[id]["token"] \in Nat
    BY <1>1, <2>1, Counters
  <2> QED  BY <2>3, <2>4, <2>5 DEF Waiting
<1>2. IInv /\ [Next]_vars => [id' # id /\ phase = "completed" => Waiting(id, "token") = 0]_vars
  BY <1>1
<1> QED  BY <1>2, Invariance, PTL DEF Spec, CompletedDrains

\* A sealed trace whose counters are equal is finalized.
SettledInv == \A s \in Slot : sealed[s] /\ terminal[s] = scheduled[s] => finalized[s]

\* A send that ends is the last one, and finalizes, or leaves the counters apart.
LEMMA CompletionSettles ==
    ASSUME SendTypeOK, SendsInv, SettledInv, NEW s \in Slot, NEW token \in Token,
           completeMessageOutbound(s, token)
    PROVE  SettledInv'
<1> SUFFICES ASSUME NEW r \in Slot, sealed'[r], terminal'[r] = scheduled'[r]
             PROVE  finalized'[r]
  BY DEF SettledInv
<1>0. sealed' = sealed /\ scheduled' = scheduled
  BY DEF completeMessageOutbound
<1>1. sealed[r] /\ scheduled' = scheduled
  BY <1>0, Zenon
<1>2. terminal[r] \in Nat /\ scheduled[r] \in Nat /\ terminal[s] \in Nat /\ scheduled[s] \in Nat
  BY Counters
<1>3. CASE terminal[r] = scheduled[r]
  BY <1>1, <1>3, Completion DEF SettledInv
<1>4. CASE terminal[r] # scheduled[r]
  <2>1. r = s
    BY <1>1, <1>4, Completion
  <2>2. token = "token" /\ terminal[s] < scheduled[s] /\ terminal[s] + 1 = scheduled[s]
    <3>1. terminal'[s] = IF token = "token" /\ terminal[s] < scheduled[s]
                           THEN terminal[s] + 1 ELSE terminal[s]
      BY Completion
    <3>2. terminal'[s] # terminal[s] /\ terminal'[s] = scheduled[s]
      BY <1>1, <1>4, <2>1
    <3> QED  BY <3>1, <3>2
  <2>3. finalized' = [finalized EXCEPT ![s] =
                        @ \/ ((token = "token" /\ terminal[s] < scheduled[s]) /\ sealed[s]
                              /\ terminal[s] + 1 = scheduled[s])]
    BY DEF completeMessageOutbound
  <2>4. finalized'[s]
    BY <1>1, <2>1, <2>2, <2>3 DEF SendTypeOK
  <2> QED  BY <2>1, <2>4
<1> QED  BY <1>3, <1>4

\* The seal looks at the counters; without it, what is admitted is not sealed.
LEMMA StepACSSettles ==
    ASSUME SendTypeOK, SlotTypeOK, SendsInv, SettledInv, NEW count \in Nat, NEW hasOutput \in BOOLEAN,
           stepACS(count, hasOutput)
    PROVE  SettledInv'
<1> SUFFICES ASSUME NEW r \in Slot, sealed'[r], terminal'[r] = scheduled'[r]
             PROVE  finalized'[r]
  BY DEF SettledInv
<1>1. id \in Slot /\ terminal' = terminal
  BY DEF SlotTypeOK, stepACS
<1>2. r # id => scheduled'[r] = scheduled[r] /\ sealed'[r] = sealed[r] /\ finalized'[r] = finalized[r]
  BY <1>1 DEF stepACS, sealMessageOutbound, SendTypeOK
<1>3. CASE r # id
  BY <1>1, <1>2, <1>3 DEF SettledInv
<1>4. CASE r = id /\ hasOutput
  <2>1. /\ sealed' = [sealed EXCEPT ![id] = Traced]
        /\ finalized' = [finalized EXCEPT ![id] = Traced /\ terminal[id] = scheduled'[id]]
    BY <1>4 DEF stepACS, sealMessageOutbound
  <2>2. Traced
    BY <1>1, <1>4, <2>1 DEF SendTypeOK
  <2>3. terminal[id] = scheduled'[id]
    BY <1>1, <1>4
  <2> QED  BY <1>1, <1>4, <2>1, <2>2, <2>3 DEF SendTypeOK
<1>5. CASE r = id /\ ~hasOutput
  <2>1. sealed' = sealed /\ finalized' = finalized
    BY <1>5 DEF stepACS
  <2>2. beginMessageOutbound(id) # "token"
    BY <1>5, <2>1 DEF beginMessageOutbound
  <2>3. scheduled'[id] = scheduled[id]
    BY <1>1, <2>2 DEF stepACS, SendTypeOK
  <2> QED  BY <1>1, <1>5, <2>1, <2>3 DEF SettledInv
<1> QED  BY <1>3, <1>4, <1>5

LEMMA StepSettles == IInv /\ SettledInv /\ [Next]_vars => SettledInv'
<1> SUFFICES ASSUME IInv, SettledInv, [Next]_vars PROVE SettledInv'
  OBVIOUS
<1>0. UNCHANGED traceVars => SettledInv'
  BY DEF traceVars, SettledInv
<1>1. CASE UNCHANGED vars
  BY <1>0, <1>1 DEF vars
<1>2. ASSUME NEW s \in Slot, NEW token \in Token, sendStart(s, token) \/ sendEnd(s, token)
      PROVE  SettledInv'
  BY <1>0, <1>2, CompletionSettles DEF sendStart, sendEnd
<1>3. ASSUME NEW u \in Submitter, Submit(u) PROVE UNCHANGED traceVars
  BY <1>3 DEF Submit, submitBegin, submitAccept, submitReject
<1>4. ASSUME NEW g \in Starter \union Inbound, Output(g) PROVE UNCHANGED traceVars
  BY <1>4 DEF Output, outputFails, finishEmptyMaterializedSet, storePlan, makeShare, sharesDone,
              sharesFail, tryCombine, markSlotFailed
<1>5. ASSUME NEW h \in Inbound, handleEnvelope(h) \/ handleACS(h) PROVE SettledInv'
  <2>1. CASE handleEnvelope(h)
    BY <1>0, <2>1 DEF handleEnvelope
  <2>2. CASE handleACS(h)
    BY <2>2, StepACSSettles DEF handleACS
  <2> QED  BY <1>5, <2>1, <2>2
<1>6. ASSUME NEW c \in Starter, startValidate(c) \/ Start(c) PROVE SettledInv'
  <2>1. CASE inputBatch(c)
    BY <2>1, StepACSSettles DEF inputBatch
  <2>2. CASE startValidate(c) \/ (Start(c) /\ ~inputBatch(c))
    <3>1. UNCHANGED traceVars
      BY <2>2 DEF startValidate, Start, startAgain, startOnce, buildInclusionList, startFails,
                  errorLock, errorUnlock, markSlotFailed
    <3> QED  BY <1>0, <3>1
  <2> QED  BY <1>6, <2>1, <2>2
<1>7. CASE handleResult \/ prepareRequest
  BY <1>0, <1>7 DEF handleResult, prepareRequest
<1>8. CASE Prepare
  BY <1>0, <1>8 DEF Prepare, prepareLimit, prepareCheck, prepareSwap, newSlotState
<1> QED  BY <1>0, <1>1, <1>2, <1>3, <1>4, <1>5, <1>6, <1>7, <1>8 DEF Next

\* The last of the sends admitted before the seal, or the seal itself, finalizes
\* the trace, in whatever order they come (trace_outbound.go:45-75).
THEOREM SealSettlesTheorem == Spec => []SealSettles
<1>1. Init => SettledInv
  BY DEF Init, SettledInv
<1>2. IInv /\ SettledInv => SealSettles
  <2> SUFFICES ASSUME IInv, SettledInv, NEW s \in Slot, sealed[s], Waiting(s, "token") = 0
               PROVE  finalized[s]
    BY DEF SealSettles
  <2>1. terminal[s] + queued[s]["token"] + flying[s]["token"] = scheduled[s]
    BY DEF SendsInv
  <2>2. /\ terminal[s] \in Nat /\ scheduled[s] \in Nat
        /\ queued[s]["token"] \in Nat /\ flying[s]["token"] \in Nat
    BY Counters
  <2>3. terminal[s] = scheduled[s]
    BY <2>1, <2>2 DEF Waiting
  <2> QED  BY <2>3 DEF SettledInv
<1> QED  BY <1>1, <1>2, StepSettles, Invariance, PTL DEF Spec

-----------------------------------------------------------------------------
\* One goroutine at most makes the shares of a slot, of its own plan, and a
\* slot that ended empty has none to make.
SharesInv ==
    /\ \A g \in Goroutine : pc[g] = "shares" => planned = "planned" /\ phase # "completed"
    /\ \A g, h \in Goroutine : pc[g] = "shares" /\ pc[h] = "shares" => g = h

\* Where the goroutines are after one of them has moved.
LEMMA Moved ==
    ASSUME IInv, NEW g \in Goroutine, NEW place, Goto(g, place) \/ Advance(g, place)
    PROVE  \A h \in Goroutine : pc'[h] = IF h = g THEN place ELSE pc[h]
  BY DEF RunTypeOK, Goto, Advance

\* A step that leaves the outcome alone and takes nobody to "shares".
LEMMA OutcomeUntouched ==
    ASSUME SharesInv, UNCHANGED <<id, phase, once, planned>>,
           \A h \in Goroutine : pc'[h] = "shares" => pc[h] = "shares"
    PROVE  SharesInv' /\ UNCHANGED Promise!vars
  BY DEF SharesInv, Promise!vars

\* The slot fails if it has not ended.
LEMMA SlotFails ==
    ASSUME IInv, SharesInv, markSlotFailed, UNCHANGED <<id, once, planned>>,
           \A h \in Goroutine : pc'[h] = "shares" => pc[h] = "shares"
    PROVE  SharesInv' /\ [Promise!Next]_(Promise!vars)
<1>1. CASE Ended
  BY <1>1, OutcomeUntouched DEF markSlotFailed
<1>2. CASE ~Ended
  <2>1. phase' = "failed"
    BY <1>2 DEF markSlotFailed
  <2>2. SharesInv'
    BY <2>1 DEF SharesInv
  <2>3. Promise!Fail
    BY <1>2, <2>1 DEF Promise!Fail, Promise!Ended
  <2> QED  BY <2>2, <2>3 DEF Promise!Next
<1> QED  BY <1>1, <1>2

LEMMA OutputOutcome ==
    ASSUME IInv, SharesInv, NEW g \in Starter \union Inbound, Output(g)
    PROVE  SharesInv' /\ [Promise!Next]_(Promise!vars)
<1>1. CASE outputFails(g) \/ sharesFail(g)
  <2>1. \A h \in Goroutine : pc'[h] = "shares" => pc[h] = "shares"
    BY <1>1, Moved DEF outputFails, sharesFail
  <2>2. CASE markSlotFailed
    BY <1>1, <2>1, <2>2, SlotFails DEF outputFails, sharesFail
  <2>3. CASE UNCHANGED phase
    BY <1>1, <2>1, <2>3, OutcomeUntouched DEF outputFails, sharesFail
  <2> QED  BY <1>1, <2>2, <2>3 DEF outputFails, sharesFail
<1>2. CASE finishEmptyMaterializedSet(g)
  <2>1. \A h \in Goroutine : pc'[h] = "shares" => pc[h] = "shares"
    BY <1>2, Moved DEF finishEmptyMaterializedSet
  <2>2. UNCHANGED <<id, once>>
    BY <1>2 DEF finishEmptyMaterializedSet
  <2>3. CASE UNCHANGED <<planned, phase>>
    BY <2>1, <2>2, <2>3, OutcomeUntouched
  <2>4. CASE ~Ended /\ planned = "no" /\ planned' = "planned" /\ phase' = "completed"
    <3>1. Promise!FinishEmpty
      BY <2>2, <2>4 DEF Promise!FinishEmpty, Promise!Ended
    <3>2. SharesInv'
      BY <2>1, <2>4 DEF SharesInv
    <3> QED  BY <3>1, <3>2 DEF Promise!Next
  <2> QED  BY <1>2, <2>3, <2>4 DEF finishEmptyMaterializedSet
<1>3. CASE storePlan(g)
  <2>1. UNCHANGED <<id, phase, once>>
    BY <1>3 DEF storePlan
  <2>2. CASE Goto(g, "idle") /\ UNCHANGED planned
    <3>1. \A h \in Goroutine : pc'[h] = "shares" => pc[h] = "shares"
      BY <2>2, Moved
    <3> QED  BY <2>1, <2>2, <3>1, OutcomeUntouched
  <2>3. CASE planned = "no" /\ phase # "failed" /\ planned' = "planned" /\ Advance(g, "shares")
    <3>1. \A h \in Goroutine : pc'[h] = "shares" => h = g
      BY <2>3, Moved DEF SharesInv
    <3>2. phase # "completed"
      BY <2>3 DEF ControlInv
    <3>3. SharesInv'
      BY <2>1, <2>3, <3>1, <3>2 DEF SharesInv
    <3>4. Promise!Plan
      BY <2>1, <2>3, <3>2 DEF Promise!Plan, Promise!Ended
    <3> QED  BY <3>3, <3>4 DEF Promise!Next
  <2> QED  BY <1>3, <2>2, <2>3 DEF storePlan
<1>4. ASSUME NEW count \in 1 .. MaxUntraced, makeShare(g, count)
      PROVE  SharesInv' /\ UNCHANGED Promise!vars
  BY <1>4, OutcomeUntouched DEF makeShare
<1>5. CASE sharesDone(g)
  <2>1. /\ pc[g] = "shares" /\ planned' = "shared"
        /\ UNCHANGED <<id, phase, once>>
    BY <1>5 DEF sharesDone
  <2>2. planned = "planned" /\ phase # "completed"
    BY <2>1 DEF SharesInv
  <2>3. \A h \in Goroutine : pc'[h] # "shares"
    BY <1>5, <2>1, Moved DEF sharesDone, SharesInv
  <2>4. Promise!Share
    BY <2>1, <2>2 DEF Promise!Share
  <2> QED  BY <2>3, <2>4 DEF SharesInv, Promise!Next
<1>6. CASE tryCombine(g)
  <2>1. /\ UNCHANGED <<id, once, planned>>
        /\ \A h \in Goroutine : pc'[h] = "shares" => pc[h] = "shares"
    BY <1>6, Moved DEF tryCombine
  <2>2. CASE UNCHANGED phase
    BY <2>1, <2>2, OutcomeUntouched
  <2>3. CASE planned = "shared" /\ ~Ended /\ phase' = "completed"
    <3>1. Promise!Complete
      BY <2>1, <2>3 DEF Promise!Complete, Promise!Ended
    <3>2. SharesInv'
      BY <2>1, <2>3 DEF SharesInv
    <3> QED  BY <3>1, <3>2 DEF Promise!Next
  <2> QED  BY <1>6, <2>2, <2>3 DEF tryCombine
<1> QED  BY <1>1, <1>2, <1>3, <1>4, <1>5, <1>6 DEF Output

LEMMA StartOutcome ==
    ASSUME IInv, SharesInv, NEW c \in Starter, startValidate(c) \/ Start(c)
    PROVE  SharesInv' /\ [Promise!Next]_(Promise!vars)
<1>0. c \in Goroutine
  OBVIOUS
<1>1. CASE startOnce(c)
  <2>1. /\ ~once /\ once' = TRUE
        /\ UNCHANGED <<id, planned>>
        /\ phase' = IF Ended THEN phase ELSE "running"
        /\ \A h \in Goroutine : pc'[h] = "shares" => pc[h] = "shares"
    BY <1>0, <1>1, Moved DEF startOnce
  <2>2. Promise!Start
    BY <2>1 DEF Promise!Start, Promise!Ended
  <2>3. SharesInv'
    BY <2>1 DEF SharesInv
  <2> QED  BY <2>2, <2>3 DEF Promise!Next
<1>2. CASE startFails(c)
  <2>1. \A h \in Goroutine : pc'[h] = "shares" => pc[h] = "shares"
    BY <1>0, <1>2, Moved DEF startFails
  <2> QED  BY <1>2, <2>1, SlotFails DEF startFails
<1>3. CASE inputBatch(c)
  <2>1. Goto(c, "idle") \/ Advance(c, "output")
    BY <1>3 DEF inputBatch
  <2>2. \A h \in Goroutine : pc'[h] = "shares" => pc[h] = "shares"
    BY <1>0, <2>1, Moved
  <2> QED  BY <1>3, <2>2, OutcomeUntouched DEF inputBatch
<1>4. CASE startValidate(c) \/ startAgain(c) \/ buildInclusionList(c)
  <2>1. \A h \in Goroutine : pc'[h] = "shares" => pc[h] = "shares"
    BY <1>0, <1>4, Moved DEF startValidate, startAgain, buildInclusionList
  <2> QED  BY <1>4, <2>1, OutcomeUntouched DEF startValidate, startAgain, buildInclusionList
<1>5. CASE errorLock(c) \/ errorUnlock(c)
  <2>1. \A h \in Goroutine : pc'[h] = "shares" => pc[h] = "shares"
    BY <1>0, <1>5, Moved DEF errorLock, errorUnlock
  <2> QED  BY <1>5, <2>1, OutcomeUntouched DEF errorLock, errorUnlock
<1> QED  BY <1>1, <1>2, <1>3, <1>4, <1>5 DEF Start

LEMMA OutcomeStep ==
    ASSUME IInv, SharesInv, [Next]_vars
    PROVE  SharesInv' /\ [Promise!Next]_(Promise!vars)
<1>1. CASE UNCHANGED vars
  BY <1>1, OutcomeUntouched DEF vars
<1>2. ASSUME NEW s \in Slot, NEW token \in Token, sendStart(s, token) \/ sendEnd(s, token)
      PROVE  SharesInv' /\ UNCHANGED Promise!vars
  BY <1>2, OutcomeUntouched DEF sendStart, sendEnd
<1>3. ASSUME NEW u \in Submitter, Submit(u) PROVE SharesInv' /\ UNCHANGED Promise!vars
  <2>1. u \in Goroutine
    OBVIOUS
  <2>2. \A h \in Goroutine : pc'[h] = "shares" => pc[h] = "shares"
    BY <1>3, <2>1, Moved DEF Submit, submitBegin, submitAccept, submitReject
  <2> QED  BY <1>3, <2>2, OutcomeUntouched DEF Submit, submitBegin, submitAccept, submitReject
<1>4. ASSUME NEW h \in Inbound, handleEnvelope(h) \/ handleACS(h)
      PROVE  SharesInv' /\ UNCHANGED Promise!vars
  <2>1. h \in Goroutine
    OBVIOUS
  <2>2. \E place \in {"acs", "combine", "output", "idle"} : Goto(h, place) \/ Advance(h, place)
    BY <1>4 DEF handleEnvelope, handleACS
  <2>3. \A g \in Goroutine : pc'[g] = "shares" => pc[g] = "shares"
    BY <2>1, <2>2, Moved
  <2> QED  BY <1>4, <2>3, OutcomeUntouched DEF handleEnvelope, handleACS
<1>5. CASE handleResult \/ prepareRequest
  BY <1>5, OutcomeUntouched DEF handleResult, prepareRequest
<1>6. ASSUME NEW slotID \in Slot, NEW proposalLimit \in Limit,
             prepareLimit(slotID, proposalLimit) \/ prepareCheck(slotID, proposalLimit)
      PROVE  SharesInv' /\ UNCHANGED Promise!vars
  BY <1>6, OutcomeUntouched DEF prepareLimit, prepareCheck
<1>7. CASE prepareSwap
  <2>1. NoReaders /\ prep.slot > id /\ Ended /\ prep.slot \in Slot
    BY <1>7 DEF prepareSwap, ControlInv, RunTypeOK
  <2>2. Promise!Replace(prep.slot)
    BY <1>7, <2>1 DEF prepareSwap, newSlotState, Promise!Replace, Promise!Ended
  <2>3. SharesInv'
    BY <1>7, <2>1 DEF prepareSwap, NoReaders, SharesInv
  <2> QED  BY <2>1, <2>2, <2>3 DEF Promise!Next
<1> QED
  BY <1>1, <1>2, <1>3, <1>4, <1>5, <1>6, <1>7, OutputOutcome, StartOutcome DEF Next, Prepare

(***************************************************************************)
(* The slots of a node, with all their goroutines, are slots of            *)
(* SlotOutcome: they end once, with a result only of their own plan and    *)
(* shares, and give way to a later slot only when they have ended          *)
(* (node.go:293-323, 488-499, 725-804, 840-868, 950-978, 1298-1314).       *)
(***************************************************************************)
THEOREM Refinement == Spec => KeepsPromise
<1>1. Init => Promise!Init /\ SharesInv
  BY DEF Init, Promise!Init, SharesInv
<1>2. IInv /\ SharesInv /\ [Next]_vars => SharesInv' /\ [Promise!Next]_(Promise!vars)
  BY OutcomeStep
<1> QED
  BY Invariance, <1>1, <1>2, PTL DEF Spec, KeepsPromise, Promise!Spec
=============================================================================
