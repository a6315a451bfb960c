------------------------------ MODULE BBAProof ------------------------------
(***************************************************************************)
(* Agreement and Validity of binary agreement, that no handler leaves      *)
(* anything undone and that a node which stops is needed by nobody, for    *)
(* every N > 3F, every set of at most F faulty nodes, whatever they send,  *)
(* every order of delivery and every bound on the epochs.                  *)
(*                                                                         *)
(* The argument needs no induction over epochs: Justified below records    *)
(* for every BVAL of a correct node what stood behind its value in each    *)
(* earlier epoch, and a step only ever adds one epoch to such a record.    *)
(***************************************************************************)
EXTENDS BBA, FiniteSetTheorems, TLAPS

-----------------------------------------------------------------------------
(* Counting: N > 3F nodes, at most F of them faulty.                       *)

(***************************************************************************)
(* More than F nodes include a correct one: what a node relies on when it  *)
(* relays a BVAL on F + 1 messages (bba.go:295).                           *)
(***************************************************************************)
LEMMA SomeCorrect ==
    ASSUME NEW Nodes, IsFiniteSet(Nodes),
           NEW Bad \in SUBSET Nodes, NEW f \in Nat, Cardinality(Bad) <= f,
           NEW S \in SUBSET Nodes, Cardinality(S) > f
    PROVE  \E n \in S : n \notin Bad
<1>1. IsFiniteSet(S) /\ IsFiniteSet(Bad)
  BY FS_Subset
<1>2. Cardinality(S) \in Nat /\ Cardinality(Bad) \in Nat
  BY <1>1, FS_CardinalityType
<1>3. SUFFICES ASSUME S \subseteq Bad PROVE FALSE
  OBVIOUS
<1>4. Cardinality(S) <= Cardinality(Bad)
  BY <1>1, <1>3, FS_Subset
<1> QED
  BY <1>2, <1>4

(***************************************************************************)
(* Two sets of N - F nodes share a correct one: the AUX quorum of BBA      *)
(* (bba.go:323).                                                           *)
(***************************************************************************)
LEMMA QuorumsMeet ==
    ASSUME NEW Nodes, IsFiniteSet(Nodes),
           NEW Bad \in SUBSET Nodes, NEW f \in Nat, Cardinality(Bad) <= f,
           Cardinality(Nodes) > 3 * f,
           NEW Q \in SUBSET Nodes, Cardinality(Q) >= Cardinality(Nodes) - f,
           NEW R \in SUBSET Nodes, Cardinality(R) >= Cardinality(Nodes) - f
    PROVE  \E n \in Q \cap R : n \notin Bad
<1>1. IsFiniteSet(Q) /\ IsFiniteSet(R) /\ IsFiniteSet(Q \cup R)
  BY FS_Subset, FS_Union
<1>2. /\ Cardinality(Q \cup R)
             = Cardinality(Q) + Cardinality(R) - Cardinality(Q \cap R)
      /\ Cardinality(Q \cup R) <= Cardinality(Nodes)
  <2>1. Q \cup R \in SUBSET Nodes
    OBVIOUS
  <2> QED
    BY <1>1, <2>1, FS_Union, FS_Subset
<1>3. IsFiniteSet(Q \cap R) /\ Q \cap R \in SUBSET Nodes
  BY <1>1, FS_Subset
<1>4. /\ Cardinality(Q) \in Nat /\ Cardinality(R) \in Nat
      /\ Cardinality(Q \cup R) \in Nat /\ Cardinality(Q \cap R) \in Nat
      /\ Cardinality(Nodes) \in Nat
  BY <1>1, <1>3, FS_CardinalityType
<1>5. Cardinality(Q \cap R) > f
  BY <1>2, <1>4
<1> QED
  BY <1>3, <1>5, SomeCorrect

-----------------------------------------------------------------------------

Said(kind, m, e, v) == Msg(kind, m, e, v) \in sent

\* Some correct node has sent BVAL(v) in epoch e.
Voted(e, v) == \E m \in Correct : Said("bval", m, e, v)

\* The correct ones of some N - F nodes have sent AUX(v) in epoch e.
AuxBacked(e, v) ==
    \E Q \in SUBSET Node :
        /\ Cardinality(Q) >= N - F
        /\ \A m \in Q \cap Correct : Said("aux", m, e, v)

\* What makes v the estimate after epoch e: an AUX quorum, or the coin.
Settled(e, v) == v = coin(e) \/ AuxBacked(e, v)

\* Correct nodes send for epochs they reached, and AUX once per epoch.
SentOnce ==
    \A m \in Correct, e \in Epoch :
        /\ \A v \in BOOLEAN, kind \in {"bval", "aux"} :
              Said(kind, m, e, v) => e <= epoch[m]
        /\ \A v \in BOOLEAN :
              Said("aux", m, epoch[m], v) => binValues[m] # {}
        /\ \A u, v \in BOOLEAN :
              Said("aux", m, e, u) /\ Said("aux", m, e, v) => u = v

\* What a node counts of correct peers in its epoch, they have sent.
RecvOrigin ==
    \A n, m \in Correct, v \in BOOLEAN :
        /\ m \in recvBval[n][v] => Said("bval", m, epoch[n], v)
        /\ recvAux[n][m] = v => Said("aux", m, epoch[n], v)

BinOrigin == \A n \in Correct : \A v \in binValues[n] : Voted(epoch[n], v)

\* Queued messages were sent, and so was what the current call is about.
QueueOrigin ==
    /\ \A n \in Correct : delayed[n] \subseteq sent
    /\ \A i \in 1 .. Len(loops) : loops[i] # None => loops[i] \subseteq sent

CallOrigin ==
    call # None =>
        /\ call.op = "message" => call.msg \in sent
        /\ call.op \in {"bval", "aux"} /\ call.from \in Correct =>
              Said(call.op, call.from, epoch[call.node], call.val)
        /\ call.op = "loop" => loops # <<>>

Justified ==
    \A m \in Correct, e \in Epoch, v \in BOOLEAN :
        Said("bval", m, e, v) =>
            /\ \A d \in 0 .. e : Voted(d, v)
            /\ \A d \in 0 .. e : d < e => Settled(d, v)

InputOrigin ==
    /\ \A v \in BOOLEAN : Voted(0, v) => \E m \in Correct : input[m] = v
    /\ \A n \in Correct : input[n] # None => estimated[n] # None

DecisionBacked ==
    \A n \in Correct :
        decision[n] # None =>
            \E e \in Epoch : /\ decision[n] = coin(e)
                             /\ AuxBacked(e, decision[n])
                             /\ Voted(e, decision[n])

IInv ==
    /\ TypeOK
    /\ SentOnce
    /\ RecvOrigin
    /\ BinOrigin
    /\ QueueOrigin
    /\ CallOrigin
    /\ Justified
    /\ InputOrigin
    /\ DecisionBacked

-----------------------------------------------------------------------------
LEMMA NType == N \in Nat /\ F \in Nat /\ N > 3 * F
  BY NodeAssumption, FaultAssumption, FS_CardinalityType DEF N

LEMMA EpochType == MaxEpoch \in Nat /\ Epoch \subseteq Nat /\ 0 \in Epoch
  BY MaxEpochAssumption DEF Epoch

\* Two AUX quorums of one epoch are for the same value.
LEMMA BackedOnce ==
    ASSUME SentOnce, NEW e \in Epoch, NEW u \in BOOLEAN, NEW v \in BOOLEAN,
           AuxBacked(e, u), AuxBacked(e, v)
    PROVE  u = v
<1>1. PICK Q \in SUBSET Node :
          /\ Cardinality(Q) >= N - F
          /\ \A m \in Q \cap Correct : Said("aux", m, e, u)
  BY DEF AuxBacked
<1>2. PICK R \in SUBSET Node :
          /\ Cardinality(R) >= N - F
          /\ \A m \in R \cap Correct : Said("aux", m, e, v)
  BY DEF AuxBacked
<1>3. PICK m \in Q \cap R : m \notin Faulty
  BY <1>1, <1>2, NodeAssumption, FaultAssumption, QuorumsMeet DEF N
<1>4. m \in Correct /\ Said("aux", m, e, u) /\ Said("aux", m, e, v)
  BY <1>1, <1>2, <1>3 DEF Correct
<1> QED
  BY <1>4 DEF SentOnce

(***************************************************************************)
(* A value decided in epoch e is the only one voted for after it.          *)
(***************************************************************************)
LEMMA DecidedStays ==
    ASSUME IInv, NEW d \in Epoch, NEW e \in Epoch, d <= e,
           NEW u \in BOOLEAN, u = coin(d), AuxBacked(d, u),
           NEW v \in BOOLEAN, AuxBacked(e, v), Voted(e, v)
    PROVE  u = v
<1>1. SentOnce /\ Justified
  BY DEF IInv
<1>2. CASE d = e
  BY <1>1, <1>2, BackedOnce
<1>3. CASE d # e
  <2>1. d \in Nat /\ e \in Nat
    BY EpochType
  <2>2. d \in 0 .. e /\ d < e
    BY <1>3, <2>1
  <2>3. Settled(d, v)
    BY <1>1, <2>2 DEF Justified, Voted
  <2> QED
    BY <1>1, <2>3, BackedOnce DEF Settled
<1> QED
  BY <1>2, <1>3

LEMMA InvAgreement == IInv => Agreement
<1> SUFFICES ASSUME IInv, NEW n \in Correct, NEW m \in Correct,
                    decision[n] # None, decision[m] # None
             PROVE  decision[n] = decision[m]
  BY DEF Agreement
<1>1. decision[n] \in BOOLEAN /\ decision[m] \in BOOLEAN
  BY DEF IInv, TypeOK
<1>2. PICK d \in Epoch : /\ decision[n] = coin(d)
                         /\ AuxBacked(d, decision[n])
                         /\ Voted(d, decision[n])
  BY DEF IInv, DecisionBacked
<1>3. PICK e \in Epoch : /\ decision[m] = coin(e)
                         /\ AuxBacked(e, decision[m])
                         /\ Voted(e, decision[m])
  BY DEF IInv, DecisionBacked
<1>4. d <= e \/ e <= d
  BY EpochType
<1> QED
  BY <1>1, <1>2, <1>3, <1>4, DecidedStays

LEMMA InvValidity == IInv => Validity
<1> SUFFICES ASSUME IInv, NEW n \in Correct, decision[n] # None
             PROVE  \E m \in Correct : input[m] = decision[n]
  BY DEF Validity
<1>1. decision[n] \in BOOLEAN
  BY DEF IInv, TypeOK
<1>2. PICK e \in Epoch : Voted(e, decision[n])
  BY DEF IInv, DecisionBacked
<1>3. 0 \in 0 .. e
  BY EpochType
<1>4. Voted(0, decision[n])
  BY <1>1, <1>2, <1>3 DEF IInv, Justified, Voted
<1> QED
  BY <1>1, <1>4 DEF IInv, InputOrigin

-----------------------------------------------------------------------------
\* What was said stays said.
LEMMA Grows ==
    ASSUME sent \subseteq sent'
    PROVE  /\ \A kind, m, e, v : Said(kind, m, e, v) => Said(kind, m, e, v)'
           /\ \A e, v : Voted(e, v) => Voted(e, v)'
           /\ \A e, v : AuxBacked(e, v) => AuxBacked(e, v)'
           /\ \A e, v : Settled(e, v) => Settled(e, v)'
<1>1. \A kind, m, e, v : Said(kind, m, e, v) => Said(kind, m, e, v)'
  BY DEF Said
<1>2. \A e, v : Voted(e, v) => Voted(e, v)'
  BY <1>1 DEF Voted
<1>3. \A e, v : AuxBacked(e, v) => AuxBacked(e, v)'
  BY <1>1 DEF AuxBacked
<1> QED
  BY <1>1, <1>2, <1>3 DEF Settled

\* Steps that send nothing and stay in the epoch keep most of the invariant.
Quiet ==
    /\ sent' = sent /\ input' = input
    /\ epoch' = epoch /\ estimated' = estimated
    /\ sentBvals' = sentBvals /\ binValues' = binValues /\ recvBval' = recvBval
    /\ decision' = decision

LEMMA QuietKeeps ==
    ASSUME IInv, Quiet
    PROVE  SentOnce' /\ BinOrigin' /\ Justified' /\ InputOrigin' /\ DecisionBacked'
  BY DEF IInv, Quiet, SentOnce, BinOrigin, Justified, InputOrigin,
         DecisionBacked, Said, Voted, AuxBacked, Settled

LEMMA QuietRecv ==
    ASSUME IInv, Quiet, recvAux' = recvAux
    PROVE  RecvOrigin'
  BY DEF IInv, Quiet, RecvOrigin, Said

\* Calls of the right shape.
LEMMA CallType ==
    ASSUME NEW n \in Correct, NEW m \in Node, NEW v \in BOOLEAN
    PROVE  /\ Bval(n, m, v) \in Call /\ Aux(n, m, v) \in Call /\ Try(n) \in Call
           /\ \A msg \in Message : Handle(n, msg) \in Call
           /\ \A rest : Return(n, rest) \in Call \union {None}
  BY DEF Bval, Aux, Try, Handle, Return, Call

\* A call that returns, or tries, is about no message.
LEMMA ReturnOrigin ==
    ASSUME NEW n \in Correct,
           call' = Return(n, loops') \/ call' = Try(n)
    PROVE  CallOrigin'
<1>1. CASE call' = Return(n, loops')
  BY <1>1 DEF Return, CallOrigin
<1>2. CASE call' = Try(n)
  BY <1>2 DEF Try, CallOrigin
<1> QED
  BY <1>1, <1>2

LEMMA receiveStep ==
    ASSUME IInv, NEW n \in Correct, NEW msg \in sent, receive(n, msg)
    PROVE  IInv'
<1>1. Quiet /\ recvAux' = recvAux
  BY DEF receive, Quiet, round
<1>2. TypeOK /\ msg \in Message
  BY DEF IInv, TypeOK
<1>3. call' = Handle(n, msg) /\ Handle(n, msg) \in Call
  BY <1>2 DEF receive, Handle, Call
<1>4. TypeOK'
  BY <1>1, <1>2, <1>3 DEF TypeOK, receive, Quiet, round
<1>5. QueueOrigin'
  BY DEF IInv, QueueOrigin, receive
<1>6. CallOrigin'
  BY <1>1, <1>3 DEF CallOrigin, Handle, Quiet
<1> QED
  BY <1>1, <1>4, <1>5, <1>6, QuietKeeps, QuietRecv DEF IInv

LEMMA handleMessageStep ==
    ASSUME IInv, handleMessage
    PROVE  IInv'
<1> DEFINE n == call.node
           msg == call.msg
<1>1. Quiet /\ recvAux' = recvAux /\ loops' = loops
  BY DEF handleMessage, Quiet, history, round
<1>2. /\ TypeOK /\ CallOrigin /\ call # None
      /\ n \in Correct /\ msg \in Message /\ msg \in sent
  BY DEF IInv, TypeOK, handleMessage, Call, CallOrigin
<1>3. \/ call' = Return(n, loops)
      \/ /\ msg.epoch = epoch[n] /\ msg.kind = "bval"
         /\ call' = Bval(n, msg.from, msg.val)
      \/ /\ msg.epoch = epoch[n] /\ msg.kind = "aux"
         /\ call' = Aux(n, msg.from, msg.val)
  BY <1>2 DEF handleMessage, Message
<1>4. /\ msg.from \in Node /\ msg.val \in BOOLEAN /\ msg.epoch \in Epoch
      /\ msg = Msg(msg.kind, msg.from, msg.epoch, msg.val)
  BY <1>2 DEF Message, Msg
<1>5. call' \in Call \union {None}
  BY <1>2, <1>3, <1>4, CallType
<1>6. delayed' \in [Correct -> SUBSET Message]
      /\ \A k \in Correct : delayed'[k] \subseteq delayed[k] \union {msg}
  BY <1>2 DEF handleMessage, TypeOK
<1>7. TypeOK'
  BY <1>1, <1>2, <1>5, <1>6 DEF TypeOK, handleMessage, Quiet, history
<1>8. QueueOrigin'
  BY <1>1, <1>2, <1>6 DEF IInv, QueueOrigin, Quiet
<1>9. CallOrigin'
  <2>1. CASE call' = Return(n, loops)
    BY <1>1, <1>2, <2>1, ReturnOrigin
  <2>2. CASE msg.epoch = epoch[n] /\ msg.kind = "bval" /\ call' = Bval(n, msg.from, msg.val)
    BY <1>1, <1>2, <1>4, <2>2 DEF CallOrigin, Bval, Said, Quiet
  <2>3. CASE msg.epoch = epoch[n] /\ msg.kind = "aux" /\ call' = Aux(n, msg.from, msg.val)
    BY <1>1, <1>2, <1>4, <2>3 DEF CallOrigin, Aux, Said, Quiet
  <2> QED
    BY <1>3, <2>1, <2>2, <2>3
<1> QED
  BY <1>1, <1>7, <1>8, <1>9, QuietKeeps, QuietRecv DEF IInv

LEMMA handleAuxStep ==
    ASSUME IInv, handleAuxRequest
    PROVE  IInv'
<1> DEFINE n == call.node
           m == call.from
           v == call.val
<1>1. Quiet /\ loops' = loops /\ delayed' = delayed /\ seen' = seen
  BY DEF handleAuxRequest, Quiet, history
<1>2. /\ TypeOK /\ CallOrigin /\ call # None
      /\ n \in Correct /\ m \in Node /\ v \in BOOLEAN
      /\ m \in Correct => Said("aux", m, epoch[n], v)
  BY DEF IInv, TypeOK, handleAuxRequest, Call, CallOrigin
<1>3. /\ call' = Try(n)
      /\ recvAux' = [recvAux EXCEPT ![n][m] = v]
      /\ done' = done
  BY DEF handleAuxRequest
<1>4. TypeOK'
  BY <1>1, <1>2, <1>3, CallType DEF TypeOK, Quiet
<1>5. RecvOrigin'
  BY <1>1, <1>2, <1>3 DEF IInv, RecvOrigin, Quiet, Said, TypeOK
<1>6. QueueOrigin'
  BY <1>1 DEF IInv, QueueOrigin, Quiet
<1>7. CallOrigin'
  BY <1>2, <1>3, ReturnOrigin
<1> QED
  BY <1>1, <1>4, <1>5, <1>6, <1>7, QuietKeeps DEF IInv

LEMMA tryStep ==
    ASSUME IInv, tryWait \/ tryDone
    PROVE  IInv'
<1> DEFINE n == call.node
<1>1. /\ Quiet /\ recvAux' = recvAux
      /\ loops' = loops /\ delayed' = delayed /\ seen' = seen
  BY DEF tryWait, tryDone, Quiet, history, round
<1>2. TypeOK /\ call # None /\ n \in Correct
  BY DEF IInv, TypeOK, tryWait, tryDone, Call
<1>3. call' = Return(n, loops) /\ (done' = done \/ done' = [done EXCEPT ![n] = TRUE])
  BY DEF tryWait, tryDone
<1>4. call' \in Call \union {None}
  BY <1>2, <1>3 DEF Return, Call
<1>5. TypeOK'
  BY <1>1, <1>2, <1>3, <1>4 DEF TypeOK, Quiet
<1>6. QueueOrigin'
  BY <1>1 DEF IInv, QueueOrigin, Quiet
<1>7. CallOrigin'
  BY <1>1, <1>2, <1>3, ReturnOrigin
<1> QED
  BY <1>1, <1>5, <1>6, <1>7, QuietKeeps, QuietRecv DEF IInv

\* A loop pushed on the stack leaves the others as they were.
LEMMA Push ==
    ASSUME NEW T, NEW x \in T, NEW s \in Seq(T)
    PROVE  /\ <<x>> \o s \in Seq(T)
           /\ Len(<<x>> \o s) = Len(s) + 1
           /\ (<<x>> \o s)[1] = x
           /\ \A i \in 2 .. Len(s) + 1 : (<<x>> \o s)[i] = s[i - 1] /\ i - 1 \in 1 .. Len(s)
<1>1. <<x>> \in Seq(T) /\ Len(<<x>>) = 1 /\ Len(s) \in Nat
  OBVIOUS
<1>2. <<x>> \o s \in Seq(T) /\ Len(<<x>> \o s) = Len(s) + 1
  BY <1>1
<1> QED
  BY <1>1, <1>2

LEMMA loopStep ==
    ASSUME IInv, loopStart \/ loopNext \/ loopEnd
    PROVE  IInv'
<1> DEFINE n == call.node
<1>1. /\ Quiet /\ recvAux' = recvAux /\ seen' = seen /\ done' = done
  BY DEF loopStart, loopNext, loopEnd, Quiet, history, round
<1>2. /\ TypeOK /\ QueueOrigin /\ call \in Call /\ n \in Correct
      /\ loops \in Seq((SUBSET Message) \union {None}) /\ loops # <<>>
  BY DEF IInv, TypeOK, CallOrigin, loopStart, loopNext, loopEnd, Call
<1>3. /\ Head(loops) \in (SUBSET Message) \union {None}
      /\ Head(loops) # None => Head(loops) \subseteq sent
      /\ Tail(loops) \in Seq((SUBSET Message) \union {None})
      /\ \A i \in 1 .. Len(Tail(loops)) :
            Tail(loops)[i] # None => Tail(loops)[i] \subseteq sent
  BY <1>2 DEF QueueOrigin
<1>a. ASSUME NEW S \in SUBSET Message, S \subseteq sent,
             loops' = <<S>> \o Tail(loops)
      PROVE  /\ loops' \in Seq((SUBSET Message) \union {None})
             /\ loops' # <<>>
             /\ \A i \in 1 .. Len(loops') :
                   loops'[i] # None => loops'[i] \subseteq sent
  <2>1. S \in (SUBSET Message) \union {None}
    BY <1>a
  <2>2. /\ loops' \in Seq((SUBSET Message) \union {None})
        /\ Len(loops') = Len(Tail(loops)) + 1
        /\ loops'[1] = S
        /\ \A i \in 2 .. Len(Tail(loops)) + 1 :
              loops'[i] = Tail(loops)[i - 1] /\ i - 1 \in 1 .. Len(Tail(loops))
    BY <1>3, <1>a, <2>1, Push
  <2>3. Len(Tail(loops)) \in Nat
    BY <1>3
  <2>4. \A i \in 1 .. Len(loops') : loops'[i] # None => loops'[i] \subseteq sent
    BY <1>3, <1>a, <2>2, <2>3
  <2>5. loops' # <<>>
    BY <2>2, <2>3
  <2> QED
    BY <2>2, <2>4, <2>5
<1>4. CASE loopStart
  <2>1. /\ loops' = <<delayed[n]>> \o Tail(loops)
        /\ delayed' = delayed /\ call' = call /\ delayed[n] \in SUBSET Message
        /\ delayed[n] \subseteq sent
    BY <1>2, <1>4 DEF loopStart, TypeOK, QueueOrigin
  <2>2. TypeOK'
    BY <1>1, <1>2, <1>a, <2>1 DEF TypeOK, Quiet
  <2>3. QueueOrigin'
    BY <1>1, <1>2, <1>a, <2>1 DEF QueueOrigin, Quiet
  <2>4. CallOrigin'
    BY <1>1, <1>a, <1>4, <2>1 DEF CallOrigin, loopStart
  <2> QED
    BY <1>1, <2>2, <2>3, <2>4, QuietKeeps, QuietRecv DEF IInv
<1>5. CASE loopNext
  <2>1. PICK msg \in Head(loops) :
            /\ loops' = <<Head(loops) \ {msg}>> \o Tail(loops)
            /\ call' = Handle(n, msg)
    BY <1>5 DEF loopNext
  <2>2. delayed' = delayed /\ Head(loops) # None
    BY <1>5 DEF loopNext
  <2>a. Head(loops) \subseteq Message /\ Head(loops) \subseteq sent
    BY <1>3, <2>2
  <2>3. msg \in Message /\ msg \in sent
    BY <2>a
  <2>4. call' \in Call
    BY <1>2, <2>1, <2>3 DEF Handle, Call
  <2>5. Head(loops) \ {msg} \in SUBSET Message /\ Head(loops) \ {msg} \subseteq sent
    BY <2>a
  <2>6. TypeOK'
    BY <1>1, <1>2, <1>a, <2>1, <2>2, <2>4, <2>5 DEF TypeOK, Quiet
  <2>7. QueueOrigin'
    BY <1>1, <1>2, <1>a, <2>1, <2>2, <2>5 DEF QueueOrigin, Quiet
  <2>8. CallOrigin'
    BY <1>1, <2>1, <2>3 DEF CallOrigin, Handle, Quiet
  <2> QED
    BY <1>1, <2>6, <2>7, <2>8, QuietKeeps, QuietRecv DEF IInv
<1>6. CASE loopEnd
  <2>1. /\ loops' = Tail(loops) /\ call' = Return(n, loops')
        /\ delayed' = [delayed EXCEPT ![n] = {}]
    BY <1>6 DEF loopEnd
  <2>2. call' \in Call \union {None}
    BY <1>2, <2>1 DEF Return, Call
  <2>3. TypeOK'
    BY <1>1, <1>2, <1>3, <2>1, <2>2 DEF TypeOK, Quiet
  <2>4. QueueOrigin'
    BY <1>1, <1>2, <1>3, <2>1 DEF QueueOrigin, Quiet, TypeOK
  <2>5. CallOrigin'
    BY <1>2, <2>1, ReturnOrigin
  <2> QED
    BY <1>1, <2>3, <2>4, <2>5, QuietKeeps, QuietRecv DEF IInv
<1> QED
  BY <1>4, <1>5, <1>6

-----------------------------------------------------------------------------
\* A new BVAL, of the current epoch, that is voted for or settled already.
LEMMA VoteKeeps ==
    ASSUME IInv, NEW n \in Correct, NEW e \in Epoch, NEW v \in BOOLEAN,
           sent' = sent \union {Msg("bval", n, e, v)},
           \A d \in 0 .. e : d < e => Voted(d, v) /\ Settled(d, v)
    PROVE  Justified'
<1> SUFFICES ASSUME NEW m \in Correct, NEW f \in Epoch, NEW u \in BOOLEAN,
                    Said("bval", m, f, u)', NEW d \in 0 .. f
             PROVE  Voted(d, u)' /\ (d < f => Settled(d, u)')
  BY DEF Justified
<1>1. sent \subseteq sent'
  OBVIOUS
<1>2. CASE Said("bval", m, f, u)
  BY <1>1, <1>2, Grows DEF IInv, Justified
<1>3. CASE ~Said("bval", m, f, u)
  <2>1. m = n /\ f = e /\ u = v
    BY <1>3 DEF Said, Msg
  <2>2. CASE d < e
    BY <1>1, <2>1, <2>2, Grows
  <2>3. CASE ~(d < e)
    <3>1. d = f
      BY <2>1, <2>3, EpochType
    <3> QED
      BY <2>1, <2>3, <3>1 DEF Voted
  <2> QED
    BY <2>2, <2>3
<1> QED
  BY <1>2, <1>3

LEMMA inputStep ==
    ASSUME IInv, NEW n \in Correct, NEW v \in BOOLEAN, inputValue(n, v)
    PROVE  IInv'
<1>n. n \in Node /\ 0 \in Epoch /\ Epoch \subseteq Nat
  BY EpochType DEF Correct
<1>t. /\ TypeOK /\ SentOnce /\ RecvOrigin /\ BinOrigin /\ QueueOrigin
      /\ Justified /\ InputOrigin /\ DecisionBacked
  BY DEF IInv
<1>1. /\ sent' = sent \union {Msg("bval", n, 0, v)}
      /\ sent \subseteq sent'
      /\ epoch[n] = 0 /\ estimated[n] = None
      /\ input' = [input EXCEPT ![n] = v]
      /\ estimated' = [estimated EXCEPT ![n] = v]
      /\ call' = Bval(n, n, v)
      /\ seen' = seen /\ epoch' = epoch /\ binValues' = binValues
      /\ recvBval' = recvBval /\ recvAux' = recvAux
      /\ delayed' = delayed /\ decision' = decision /\ done' = done /\ loops' = loops
  BY DEF inputValue
<1>2. /\ Msg("bval", n, 0, v) \in Message /\ call' \in Call
      /\ sentBvals' \in [Correct -> SUBSET BOOLEAN]
  BY <1>n, <1>t, <1>1, CallType DEF Msg, Message, inputValue, TypeOK
<1>3. TypeOK'
  BY <1>t, <1>1, <1>2 DEF TypeOK
<1>4. SentOnce'
  BY <1>n, <1>t, <1>1 DEF SentOnce, Said, Msg, TypeOK
<1>5. RecvOrigin' /\ BinOrigin'
  BY <1>t, <1>1, Grows DEF RecvOrigin, BinOrigin
<1>6. QueueOrigin'
  BY <1>t, <1>1 DEF QueueOrigin
<1>7. CallOrigin'
  BY <1>1 DEF CallOrigin, Bval, Said
<1>8. Justified'
  <2>1. \A d \in 0 .. 0 : ~(d < 0)
    OBVIOUS
  <2> QED
    BY <1>n, <1>1, <2>1, VoteKeeps
<1>9. InputOrigin'
  <2>1. ASSUME NEW u \in BOOLEAN, Voted(0, u)'
        PROVE  \E m \in Correct : input'[m] = u
    <3>1. CASE Voted(0, u)
      <4>1. PICK m \in Correct : input[m] = u
        BY <1>t, <3>1 DEF InputOrigin
      <4>2. u # None /\ m # n
        BY <1>t, <1>1, <4>1, NodeAssumption DEF InputOrigin
      <4> QED
        BY <1>t, <1>1, <4>1, <4>2 DEF TypeOK
    <3>2. CASE ~Voted(0, u)
      <4>1. PICK m \in Correct : Said("bval", m, 0, u)'
        BY <2>1 DEF Voted
      <4>2. ~Said("bval", m, 0, u)
        BY <3>2 DEF Voted
      <4>3. m = n /\ u = v
        BY <1>1, <4>1, <4>2 DEF Said, Msg
      <4> QED
        BY <1>t, <1>1, <4>3 DEF TypeOK
    <3> QED
      BY <3>1, <3>2
  <2>2. \A k \in Correct : input'[k] # None => estimated'[k] # None
    BY <1>t, <1>1, NodeAssumption DEF InputOrigin, TypeOK
  <2> QED
    BY <2>1, <2>2 DEF InputOrigin
<1>10. DecisionBacked'
  BY <1>t, <1>1, Grows DEF DecisionBacked
<1> QED
  BY <1>3, <1>4, <1>5, <1>6, <1>7, <1>8, <1>9, <1>10 DEF IInv

-----------------------------------------------------------------------------
LEMMA handleBvalStep ==
    ASSUME IInv, handleBvalRequest
    PROVE  IInv'
<1> DEFINE n == call.node
           v == call.val
           from == call.from
           S == recvBval[n][v] \union {from}
           admit == Admits(S)
           first == admit /\ binValues[n] = {}
           relay == ~admit /\ Relays(n, v, S)
<1>t. /\ TypeOK /\ SentOnce /\ RecvOrigin /\ BinOrigin /\ QueueOrigin /\ CallOrigin
      /\ Justified /\ InputOrigin /\ DecisionBacked
  BY DEF IInv
<1>n. /\ call # None /\ n \in Correct /\ n \in Node /\ from \in Node /\ v \in BOOLEAN
      /\ from \in Correct => Said("bval", from, epoch[n], v)
      /\ epoch[n] \in Epoch
  BY <1>t DEF TypeOK, CallOrigin, handleBvalRequest, Call, Correct
<1>1. /\ recvBval' = [recvBval EXCEPT ![n][v] = S]
      /\ binValues' = [binValues EXCEPT ![n] = IF admit THEN @ \union {v} ELSE @]
      /\ sentBvals' = [sentBvals EXCEPT ![n] = IF relay THEN @ \union {v} ELSE @]
      /\ sent' = sent \union
            (IF first THEN {Msg("aux", n, epoch[n], v)}
             ELSE IF relay THEN {Msg("bval", n, epoch[n], v)} ELSE {})
      /\ call' = IF first THEN Aux(n, n, v)
                 ELSE IF admit THEN Try(n)
                 ELSE IF relay THEN Bval(n, n, v)
                 ELSE Return(n, loops)
      /\ sent \subseteq sent'
      /\ seen' = seen /\ input' = input /\ epoch' = epoch /\ estimated' = estimated
      /\ recvAux' = recvAux /\ delayed' = delayed /\ decision' = decision
      /\ done' = done /\ loops' = loops
  BY DEF handleBvalRequest, AfterAdmit
<1>2. S \in SUBSET Node /\ \A m \in S \cap Correct : Said("bval", m, epoch[n], v)
  BY <1>t, <1>n DEF TypeOK, RecvOrigin
\* More than F senders: a correct node voted for the value.
<1>3. admit \/ relay => Voted(epoch[n], v)
  <2> SUFFICES ASSUME admit \/ relay PROVE Voted(epoch[n], v)
    OBVIOUS
  <2>1. Cardinality(S) > F
    BY NType DEF Admits, Relays
  <2>2. PICK m \in S : m \notin Faulty
    BY <1>2, <2>1, NodeAssumption, FaultAssumption, SomeCorrect
  <2>3. m \in Correct /\ Said("bval", m, epoch[n], v)
    BY <1>2, <2>2 DEF Correct
  <2> QED
    BY <2>3 DEF Voted
<1>4. /\ Msg("aux", n, epoch[n], v) \in Message
      /\ Msg("bval", n, epoch[n], v) \in Message
  BY <1>n DEF Msg, Message
<1>5. call' \in Call \union {None}
  BY <1>n, <1>1, CallType
<1> HIDE DEF admit, first, relay, S, n, v, from
<1>6. TypeOK'
  <2>1. /\ recvBval' \in [Correct -> [BOOLEAN -> SUBSET Node]]
        /\ binValues' \in [Correct -> SUBSET BOOLEAN]
        /\ sentBvals' \in [Correct -> SUBSET BOOLEAN]
    BY <1>t, <1>n, <1>1, <1>2 DEF TypeOK
  <2>2. sent' \subseteq Message
    BY <1>t, <1>1, <1>4 DEF TypeOK
  <2> QED
    BY <1>t, <1>1, <1>5, <2>1, <2>2 DEF TypeOK
<1>7. SentOnce'
  <2>1. ASSUME NEW m \in Correct, NEW e \in Epoch, NEW u \in BOOLEAN,
               NEW kind \in {"bval", "aux"}, Said(kind, m, e, u)'
        PROVE  \/ Said(kind, m, e, u)
               \/ m = n /\ e = epoch[n] /\ u = v /\ (kind = "aux" => first)
    BY <1>1, <2>1 DEF Said, Msg
  <2>2. \A m \in Correct : binValues[m] \subseteq binValues'[m]
    BY <1>t, <1>1 DEF TypeOK
  <2>3. first => binValues[n] = {} /\ binValues'[n] # {}
    BY <1>t, <1>n, <1>1 DEF TypeOK, first
  <2>4. ASSUME NEW m \in Correct, NEW e \in Epoch,
               NEW u \in BOOLEAN, NEW kind \in {"bval", "aux"}, Said(kind, m, e, u)'
        PROVE  e <= epoch'[m]
    BY <1>t, <1>n, <1>1, <2>1, <2>4, EpochType DEF SentOnce
  <2>5. ASSUME NEW m \in Correct, NEW u \in BOOLEAN, Said("aux", m, epoch[m], u)'
        PROVE  binValues'[m] # {}
    <3>1. epoch[m] \in Epoch /\ epoch'[m] = epoch[m]
      BY <1>t, <1>1 DEF TypeOK
    <3>2. Said("aux", m, epoch[m], u) \/ (m = n /\ first)
      BY <2>1, <2>5, <3>1
    <3>3. Said("aux", m, epoch[m], u) => binValues[m] # {}
      BY <1>t, <3>1 DEF SentOnce
    <3> QED
      BY <2>2, <2>3, <3>2, <3>3
  <2>6. ASSUME NEW m \in Correct, NEW e \in Epoch,
               NEW u \in BOOLEAN, NEW w \in BOOLEAN,
               Said("aux", m, e, u)', Said("aux", m, e, w)'
        PROVE  u = w
    <3>1. Said("aux", m, e, u) \/ (m = n /\ e = epoch[n] /\ u = v /\ first)
      BY <2>1, <2>6
    <3>2. Said("aux", m, e, w) \/ (m = n /\ e = epoch[n] /\ w = v /\ first)
      BY <2>1, <2>6
    <3>3. first => ~Said("aux", n, epoch[n], u) /\ ~Said("aux", n, epoch[n], w)
      BY <1>t, <1>n, <2>3 DEF SentOnce
    <3>4. Said("aux", m, e, u) /\ Said("aux", m, e, w) => u = w
      BY <1>t DEF SentOnce
    <3> QED
      BY <3>1, <3>2, <3>3, <3>4
  <2> QED
    BY <1>1, <2>4, <2>5, <2>6 DEF SentOnce
<1>8. RecvOrigin'
  <2> SUFFICES ASSUME NEW k \in Correct, NEW m \in Correct, NEW u \in BOOLEAN
               PROVE  /\ m \in recvBval'[k][u] => Said("bval", m, epoch[k], u)'
                      /\ recvAux'[k][m] = u => Said("aux", m, epoch[k], u)'
    BY <1>1 DEF RecvOrigin
  <2>1. m \in recvBval'[k][u] => m \in recvBval[k][u] \/ (k = n /\ u = v /\ m \in S)
    BY <1>t, <1>n, <1>1 DEF TypeOK
  <2>2. m \in recvBval'[k][u] => Said("bval", m, epoch[k], u)
    BY <1>t, <1>2, <2>1 DEF RecvOrigin
  <2> QED
    BY <1>t, <1>1, <2>2, Grows DEF RecvOrigin
<1>9. BinOrigin'
  <2> SUFFICES ASSUME NEW k \in Correct, NEW u \in binValues'[k]
               PROVE  Voted(epoch[k], u)'
    BY <1>1 DEF BinOrigin
  <2>1. u \in binValues[k] \/ (k = n /\ u = v /\ admit)
    BY <1>t, <1>n, <1>1 DEF TypeOK
  <2>2. Voted(epoch[k], u)
    BY <1>t, <1>3, <2>1 DEF BinOrigin
  <2> QED
    BY <1>1, <2>2, Grows
<1>10. QueueOrigin'
  BY <1>t, <1>1 DEF QueueOrigin
<1>11. CallOrigin'
  <2>1. CASE first
    BY <1>1, <2>1 DEF CallOrigin, Aux, Said
  <2>2. CASE ~first /\ relay /\ ~admit
    BY <1>1, <2>2 DEF CallOrigin, Bval, Said
  <2>3. CASE ~first /\ (admit \/ ~relay)
    <3>1. call' = Return(n, loops') \/ call' = Try(n)
      BY <1>1, <2>3
    <3> QED
      BY <1>n, <3>1, ReturnOrigin
  <2> QED
    BY <2>1, <2>2, <2>3
<1>12. Justified'
  <2>1. CASE ~first /\ relay
    <3>1. PICK m \in Correct : Said("bval", m, epoch[n], v)
      BY <1>3, <2>1 DEF Voted
    <3>2. \A d \in 0 .. epoch[n] : d < epoch[n] => Voted(d, v) /\ Settled(d, v)
      BY <1>t, <1>n, <3>1 DEF Justified
    <3>3. sent' = sent \union {Msg("bval", n, epoch[n], v)}
      BY <1>1, <2>1
    <3> QED
      BY <1>n, <3>2, <3>3, VoteKeeps
  <2>2. CASE first \/ ~relay
    <3>1. \A m \in Correct, e \in Epoch, u \in BOOLEAN :
              Said("bval", m, e, u)' => Said("bval", m, e, u)
      BY <1>1, <2>2 DEF Said, Msg
    <3> QED
      BY <1>t, <1>1, <3>1, Grows DEF Justified
  <2> QED
    BY <2>1, <2>2
<1>13. InputOrigin'
  <2>1. ASSUME NEW u \in BOOLEAN, Voted(0, u)'
        PROVE  Voted(0, u)
    <3>1. PICK m \in Correct : Said("bval", m, 0, u)'
      BY <2>1 DEF Voted
    <3>2. Said("bval", m, 0, u) \/ (u = v /\ epoch[n] = 0 /\ relay)
      BY <1>1, <3>1 DEF Said, Msg
    <3> QED
      BY <1>3, <3>2 DEF Voted
  <2> QED
    BY <1>t, <1>1, <2>1 DEF InputOrigin
<1>14. DecisionBacked'
  BY <1>t, <1>1, Grows DEF DecisionBacked
<1> QED
  BY <1>6, <1>7, <1>8, <1>9, <1>10, <1>11, <1>12, <1>13, <1>14 DEF IInv

-----------------------------------------------------------------------------
(***************************************************************************)
(* What a node has when it leaves an epoch: its new estimate was voted for *)
(* and is settled, and a decision has an AUX quorum behind it.             *)
(***************************************************************************)
LEMMA QuorumSettles ==
    ASSUME IInv, NEW n \in Correct, AuxQuorum(n)
    PROVE  LET c == coin(epoch[n])
               est == Estimate(n)
           IN  /\ est \in BOOLEAN
               /\ Voted(epoch[n], est) /\ Settled(epoch[n], est)
               /\ AuxValues(n) = {c} => AuxBacked(epoch[n], c) /\ Voted(epoch[n], c)
<1> DEFINE c == coin(epoch[n])
           est == Estimate(n)
           Q == ValidAux(n)
<1>t. TypeOK /\ RecvOrigin /\ BinOrigin
  BY DEF IInv
<1>c. c \in BOOLEAN /\ est \in BOOLEAN
  BY DEF coin, Estimate
<1>1. Q \in SUBSET Node /\ Cardinality(Q) >= N - F
  BY DEF AuxQuorum, ValidAux
<1>2. Q # {}
  <2> SUFFICES ASSUME Q = {} PROVE FALSE
    OBVIOUS
  <2>1. Cardinality(Q) = 0
    BY FS_EmptySet, Zenon
  <2> HIDE DEF Q
  <2> QED
    BY <1>1, <2>1, NType
<1>3. /\ AuxValues(n) # {}
      /\ AuxValues(n) \subseteq binValues[n]
      /\ AuxValues(n) \subseteq BOOLEAN
  <2>1. AuxValues(n) # {}
    BY <1>2 DEF AuxValues
  <2>2. AuxValues(n) \subseteq binValues[n]
    BY DEF AuxValues, ValidAux
  <2>3. binValues[n] \subseteq BOOLEAN
    BY <1>t DEF TypeOK
  <2> QED
    BY <2>1, <2>2, <2>3
\* A singleton of values is an AUX quorum.
<1>4. ASSUME NEW u \in BOOLEAN, AuxValues(n) = {u}
      PROVE  AuxBacked(epoch[n], u) /\ Voted(epoch[n], u)
  <2>1. \A m \in Q : recvAux[n][m] = u
    BY <1>4 DEF AuxValues
  <2>2. \A m \in Q \cap Correct : Said("aux", m, epoch[n], u)
    BY <1>t, <2>1 DEF RecvOrigin
  <2>3. AuxBacked(epoch[n], u)
    BY <1>1, <2>2 DEF AuxBacked
  <2>4. u \in binValues[n]
    BY <1>3, <1>4
  <2> QED
    BY <1>t, <2>3, <2>4 DEF BinOrigin
<1>5. CASE AuxValues(n) = {~c}
  <2>1. est = ~c /\ (~c) \in BOOLEAN
    BY <1>5 DEF Estimate
  <2>2. AuxBacked(epoch[n], est) /\ Voted(epoch[n], est)
    BY <1>4, <1>5, <2>1
  <2>3. AuxValues(n) = {c} => AuxBacked(epoch[n], c) /\ Voted(epoch[n], c)
    BY <1>4, <1>c
  <2> QED
    BY <1>c, <2>2, <2>3 DEF Settled
<1>6. CASE AuxValues(n) # {~c}
  <2>1. est = c
    BY <1>6 DEF Estimate
  <2>2. c \in AuxValues(n)
    <3>1. PICK u \in AuxValues(n) : u # ~c
      <4>1. PICK w \in AuxValues(n) : TRUE
        BY <1>3
      <4> QED
        BY <1>6, <4>1
    <3>2. u = c
      BY <1>3, <1>c, <3>1
    <3> QED
      BY <3>1, <3>2
  <2>3. Voted(epoch[n], c)
    BY <1>t, <1>3, <2>2 DEF BinOrigin
  <2>4. AuxValues(n) = {c} => AuxBacked(epoch[n], c) /\ Voted(epoch[n], c)
    BY <1>4, <1>c
  <2> QED
    BY <1>c, <2>1, <2>3, <2>4 DEF Settled
<1> QED
  BY <1>5, <1>6

LEMMA tryAdvanceStep ==
    ASSUME IInv, tryAdvance
    PROVE  IInv'
<1> DEFINE n == call.node
           e == epoch[n]
           c == coin(e)
           est == Estimate(n)
           decide == decision[n] = None /\ AuxValues(n) = {c}
<1>t. /\ TypeOK /\ SentOnce /\ RecvOrigin /\ BinOrigin /\ QueueOrigin /\ CallOrigin
      /\ Justified /\ InputOrigin /\ DecisionBacked
  BY DEF IInv
<1>n. /\ call # None /\ n \in Correct /\ n \in Node
      /\ AuxQuorum(n) /\ e \in Epoch /\ e < MaxEpoch
  BY <1>t DEF TypeOK, tryAdvance, Call, Correct
<1>1. /\ epoch' = [epoch EXCEPT ![n] = e + 1]
      /\ estimated' = [estimated EXCEPT ![n] = est]
      /\ decision' = [decision EXCEPT ![n] = IF decide THEN c ELSE @]
      /\ sentBvals' = [sentBvals EXCEPT ![n] = {est}]
      /\ binValues' = [binValues EXCEPT ![n] = {}]
      /\ recvBval' = [recvBval EXCEPT ![n] = [v \in BOOLEAN |-> {}]]
      /\ recvAux' = [recvAux EXCEPT ![n] = [m \in Node |-> None]]
      /\ sent' = sent \union {Msg("bval", n, e + 1, est)}
      /\ seen' = [seen EXCEPT ![n] = {msg \in @ : msg.epoch > e}]
      /\ call' = Bval(n, n, est)
      /\ loops' = <<None>> \o loops
      /\ sent \subseteq sent'
      /\ input' = input /\ delayed' = delayed /\ done' = done
  BY DEF tryAdvance, Decision
<1>2. /\ est \in BOOLEAN /\ c \in BOOLEAN
      /\ Voted(e, est) /\ Settled(e, est)
      /\ decide => AuxBacked(e, c) /\ Voted(e, c)
  BY <1>n, QuorumSettles DEF coin
<1>3. e + 1 \in Epoch /\ e \in Nat /\ Epoch \subseteq Nat
  BY <1>n, EpochType DEF Epoch
<1>4. Msg("bval", n, e + 1, est) \in Message /\ call' \in Call
  BY <1>n, <1>1, <1>2, <1>3, CallType DEF Msg, Message
<1>5. /\ loops' \in Seq((SUBSET Message) \union {None})
      /\ \A i \in 1 .. Len(loops') : loops'[i] # None => loops'[i] \subseteq sent
  <2>1. None \in (SUBSET Message) \union {None}
    OBVIOUS
  <2>2. loops \in Seq((SUBSET Message) \union {None}) /\ Len(loops) \in Nat
    BY <1>t DEF TypeOK
  <2>3. /\ loops' \in Seq((SUBSET Message) \union {None})
        /\ Len(loops') = Len(loops) + 1
        /\ loops'[1] = None
        /\ \A i \in 2 .. Len(loops) + 1 :
              loops'[i] = loops[i - 1] /\ i - 1 \in 1 .. Len(loops)
    BY <1>1, <2>1, <2>2, Push
  <2> QED
    BY <1>t, <2>2, <2>3 DEF QueueOrigin
<1> HIDE DEF est, decide, c
<1>6. TypeOK'
  <2>1. /\ epoch' \in [Correct -> Epoch]
        /\ estimated' \in [Correct -> BOOLEAN \union {None}]
        /\ decision' \in [Correct -> BOOLEAN \union {None}]
        /\ sentBvals' \in [Correct -> SUBSET BOOLEAN]
        /\ binValues' \in [Correct -> SUBSET BOOLEAN]
    BY <1>t, <1>n, <1>1, <1>2, <1>3 DEF TypeOK
  <2>2. /\ recvBval' \in [Correct -> [BOOLEAN -> SUBSET Node]]
        /\ recvAux' \in [Correct -> [Node -> BOOLEAN \union {None}]]
        /\ seen' \in [Correct -> SUBSET Message]
        /\ sent' \subseteq Message
    BY <1>t, <1>n, <1>1, <1>4 DEF TypeOK
  <2> QED
    BY <1>t, <1>1, <1>4, <1>5, <2>1, <2>2 DEF TypeOK
<1>7. SentOnce'
  <2>1. ASSUME NEW m \in Correct, NEW f \in Epoch, NEW u \in BOOLEAN,
               NEW kind \in {"bval", "aux"}, Said(kind, m, f, u)'
        PROVE  \/ Said(kind, m, f, u)
               \/ m = n /\ f = e + 1 /\ kind = "bval"
    BY <1>1, <2>1 DEF Said, Msg
  <2>2. /\ epoch'[n] = e + 1
        /\ \A m \in Correct \ {n} : /\ epoch'[m] = epoch[m]
                                    /\ binValues'[m] = binValues[m]
    BY <1>t, <1>n, <1>1 DEF TypeOK
  <2>3. \A m \in Correct : epoch[m] \in Epoch /\ epoch'[m] \in Epoch
    BY <1>t, <1>6 DEF TypeOK
  <2>4. ASSUME NEW m \in Correct, NEW f \in Epoch, NEW u \in BOOLEAN,
               NEW kind \in {"bval", "aux"}, Said(kind, m, f, u)'
        PROVE  f <= epoch'[m]
    <3>1. Said(kind, m, f, u) => f <= epoch[m]
      BY <1>t DEF SentOnce
    <3>2. epoch[m] <= epoch'[m]
      <4>1. epoch[m] \in Nat
        BY <1>3, <2>3
      <4>2. CASE m = n
        BY <2>2, <4>1, <4>2
      <4>3. CASE m # n
        BY <2>2, <4>1, <4>3
      <4> QED
        BY <4>2, <4>3
    <3> QED
      BY <1>3, <2>1, <2>2, <2>3, <2>4, <3>1, <3>2
  <2>5. ASSUME NEW m \in Correct, NEW u \in BOOLEAN, Said("aux", m, epoch[m], u)'
        PROVE  binValues'[m] # {}
    <3>1. Said("aux", m, epoch'[m], u)
      BY <2>1, <2>3, <2>5
    <3>2. m # n
      <4>1. ~(epoch'[n] <= e)
        BY <1>3, <2>2
      <4> QED
        BY <1>t, <2>3, <3>1, <4>1 DEF SentOnce
    <3>3. /\ epoch'[m] = epoch[m] /\ binValues'[m] = binValues[m]
          /\ epoch[m] \in Epoch
      BY <2>2, <2>3, <3>2
    <3>4. Said("aux", m, epoch[m], u)
      BY <3>1, <3>3
    <3> QED
      BY <1>t, <3>3, <3>4 DEF SentOnce
  <2>6. ASSUME NEW m \in Correct, NEW f \in Epoch,
               NEW u \in BOOLEAN, NEW w \in BOOLEAN,
               Said("aux", m, f, u)', Said("aux", m, f, w)'
        PROVE  u = w
    <3>1. Said("aux", m, f, u) /\ Said("aux", m, f, w)
      BY <2>1, <2>6
    <3> QED
      BY <1>t, <3>1 DEF SentOnce
  <2> QED
    BY <2>4, <2>5, <2>6 DEF SentOnce
<1>8. RecvOrigin'
  <2> SUFFICES ASSUME NEW k \in Correct, NEW m \in Correct, NEW u \in BOOLEAN
               PROVE  /\ m \in recvBval'[k][u] => Said("bval", m, epoch[k], u)'
                      /\ recvAux'[k][m] = u => Said("aux", m, epoch[k], u)'
    BY DEF RecvOrigin
  <2>1. CASE k = n
    <3>1. m \in Node
      BY DEF Correct
    <3>2. recvBval'[k][u] = {} /\ recvAux'[k][m] = None
      BY <1>t, <1>n, <1>1, <2>1, <3>1 DEF TypeOK
    <3> QED
      BY <3>2, NodeAssumption
  <2>2. CASE k # n
    <3>1. recvBval'[k] = recvBval[k] /\ recvAux'[k] = recvAux[k] /\ epoch'[k] = epoch[k]
      BY <1>t, <1>1, <2>2 DEF TypeOK
    <3> QED
      BY <1>t, <1>1, <3>1, Grows DEF RecvOrigin
  <2> QED
    BY <2>1, <2>2
<1>9. BinOrigin'
  <2> SUFFICES ASSUME NEW k \in Correct, NEW u \in binValues'[k]
               PROVE  Voted(epoch[k], u)'
    BY DEF BinOrigin
  <2>1. k # n /\ u \in binValues[k] /\ epoch'[k] = epoch[k]
    BY <1>t, <1>n, <1>1 DEF TypeOK
  <2> QED
    BY <1>t, <1>1, <2>1, Grows DEF BinOrigin
<1>10. QueueOrigin'
  BY <1>t, <1>1, <1>5 DEF QueueOrigin
<1>11. CallOrigin'
  <2>1. epoch'[n] = e + 1
    BY <1>t, <1>n, <1>1 DEF TypeOK
  <2> QED
    BY <1>1, <2>1 DEF CallOrigin, Bval, Said
<1>12. Justified'
  <2>1. PICK m \in Correct : Said("bval", m, e, est)
    BY <1>2 DEF Voted
  <2>2. \A d \in 0 .. e + 1 : d < e + 1 => Voted(d, est) /\ Settled(d, est)
    <3> SUFFICES ASSUME NEW d \in 0 .. e + 1, d < e + 1
                 PROVE  Voted(d, est) /\ Settled(d, est)
      OBVIOUS
    <3>1. CASE d = e
      BY <1>2, <3>1
    <3>2. CASE d # e
      <4>1. d \in 0 .. e /\ d < e
        BY <1>3, <3>2
      <4> QED
        BY <1>t, <1>n, <1>2, <2>1, <4>1 DEF Justified
    <3> QED
      BY <3>1, <3>2
  <2> QED
    BY <1>n, <1>1, <1>2, <1>3, <2>2, VoteKeeps
<1>13. InputOrigin'
  <2>1. ASSUME NEW u \in BOOLEAN, Voted(0, u)'
        PROVE  Voted(0, u)
    <3>1. PICK m \in Correct : Said("bval", m, 0, u)'
      BY <2>1 DEF Voted
    <3>2. e + 1 # 0
      BY <1>3
    <3>3. Said("bval", m, 0, u)
      BY <1>1, <3>1, <3>2 DEF Said, Msg
    <3> QED
      BY <3>3 DEF Voted
  <2>2. \A k \in Correct : input'[k] # None => estimated'[k] # None
    BY <1>t, <1>n, <1>1, <1>2, NodeAssumption DEF InputOrigin, TypeOK
  <2> QED
    BY <1>t, <1>1, <2>1, <2>2 DEF InputOrigin
<1>14. DecisionBacked'
  <2> SUFFICES ASSUME NEW k \in Correct, decision'[k] # None
               PROVE  \E f \in Epoch : /\ decision'[k] = coin(f)
                                       /\ AuxBacked(f, decision[k])'
                                       /\ Voted(f, decision[k])'
    BY DEF DecisionBacked
  <2>1. CASE decision'[k] = decision[k]
    <3>1. PICK f \in Epoch : /\ decision[k] = coin(f)
                             /\ AuxBacked(f, decision[k])
                             /\ Voted(f, decision[k])
      BY <1>t, <2>1 DEF DecisionBacked
    <3> QED
      BY <1>1, <2>1, <3>1, Grows
  <2>2. CASE decision'[k] # decision[k]
    <3>1. k = n /\ decide /\ decision'[k] = c
      BY <1>t, <1>1, <2>2 DEF TypeOK
    <3>2. PICK f \in Epoch, b \in BOOLEAN : f = e /\ b = c
      BY <1>n, <1>2
    <3>3. AuxBacked(f, b) /\ Voted(f, b)
      BY <1>2, <3>1, <3>2
    <3>4. AuxBacked(f, b)' /\ Voted(f, b)'
      BY <1>1, <3>3, Grows
    <3>5. b = coin(f) /\ decision'[k] = b
      BY <3>1, <3>2 DEF c
    <3> QED
      BY <3>4, <3>5
  <2> QED
    BY <2>1, <2>2
<1> QED
  BY <1>6, <1>7, <1>8, <1>9, <1>10, <1>11, <1>12, <1>13, <1>14 DEF IInv

-----------------------------------------------------------------------------
(* Nothing is stepped over.                                                *)

\* Each call counts one more sender at most, so that the thresholds are met one by
\* one; this holds between the calls of a handler too.
Thresholds ==
    \A n \in Correct, v \in BOOLEAN :
        /\ F > 0 /\ Cardinality(recvBval[n][v]) > F => v \in sentBvals[n]
        /\ Cardinality(recvBval[n][v]) > 2 * F => v \in binValues[n]

\* An AUX quorum of a live node is about to be tried.
QuorumTried ==
    \A n \in Correct :
        ~done[n] /\ epoch[n] < MaxEpoch /\ AuxQuorum(n) =>
            call # None /\ call.node = n /\ call.op \in {"aux", "try"}

MissedInv == Thresholds /\ QuorumTried

\* A step that counts and admits nothing and leaves no quorum untried.
LEMMA UncountedKeeps ==
    ASSUME MissedInv, UNCHANGED <<recvBval, binValues, recvAux, epoch>>,
           \A n \in Correct : sentBvals[n] \subseteq sentBvals'[n],
           \A n \in Correct : ~done'[n] => ~done[n],
           \A n \in Correct :
               call # None /\ call.node = n /\ call.op \in {"aux", "try"} =>
                   \/ call' # None /\ call'.node = n /\ call'.op \in {"aux", "try"}
                   \/ done'[n] \/ ~(epoch[n] < MaxEpoch) \/ ~AuxQuorum(n)
    PROVE  MissedInv'
<1>1. Thresholds'
  BY DEF MissedInv, Thresholds
<1>2. \A n : AuxQuorum(n)' = AuxQuorum(n)
  BY DEF AuxQuorum, ValidAux
<1>3. QuorumTried'
  BY <1>2 DEF MissedInv, QuorumTried
<1> QED
  BY <1>1, <1>3 DEF MissedInv

\* One sender more is at most one more in number.
LEMMA OneMore ==
    ASSUME NEW S \in SUBSET Node, NEW m \in Node
    PROVE  /\ Cardinality(S) \in Nat /\ Cardinality(S \union {m}) \in Nat
           /\ Cardinality(S \union {m}) <= Cardinality(S) + 1
<1>1. IsFiniteSet(S)
  BY NodeAssumption, FS_Subset
<1>2. /\ IsFiniteSet(S \union {m})
      /\ Cardinality(S \union {m}) =
            IF m \in S THEN Cardinality(S) ELSE Cardinality(S) + 1
  BY <1>1, FS_AddElement
<1>3. Cardinality(S) \in Nat /\ Cardinality(S \union {m}) \in Nat
  BY <1>1, <1>2, FS_CardinalityType
<1> QED
  BY <1>2, <1>3

LEMMA BvalMissed ==
    ASSUME IInv, MissedInv, handleBvalRequest
    PROVE  MissedInv'
<1> DEFINE n == call.node
           v == call.val
           R == recvBval[n][v]
           S == R \union {call.from}
           admit == Admits(S)
           relay == ~admit /\ Relays(n, v, S)
<1>t. TypeOK /\ Thresholds /\ QuorumTried
  BY DEF IInv, MissedInv
<1>n. /\ call # None /\ call.op = "bval" /\ n \in Correct /\ call.from \in Node
      /\ v \in BOOLEAN
  BY <1>t DEF TypeOK, handleBvalRequest, Call
<1>1. /\ recvBval' = [recvBval EXCEPT ![n][v] = S]
      /\ binValues' = [binValues EXCEPT ![n] = IF admit THEN @ \union {v} ELSE @]
      /\ sentBvals' = [sentBvals EXCEPT ![n] = IF relay THEN @ \union {v} ELSE @]
      /\ admit => call' = Aux(n, n, v) \/ call' = Try(n)
      /\ epoch' = epoch /\ recvAux' = recvAux /\ done' = done
  BY DEF handleBvalRequest, AfterAdmit
<1>2. R \in SUBSET Node
  BY <1>t, <1>n DEF TypeOK
<1>3. /\ Cardinality(R) \in Nat /\ Cardinality(S) \in Nat
      /\ Cardinality(S) <= Cardinality(R) + 1
  BY <1>n, <1>2, OneMore
<1>4. /\ Cardinality(S) > 2 * F => v \in binValues[n] \/ admit
      /\ F > 0 /\ Cardinality(S) > F => v \in sentBvals[n] \/ relay
  <2>1. /\ F > 0 /\ Cardinality(R) > F => v \in sentBvals[n]
        /\ Cardinality(R) > 2 * F => v \in binValues[n]
    BY <1>t, <1>n DEF Thresholds
  <2>2. PICK r, s \in Nat : r = Cardinality(R) /\ s = Cardinality(S)
    BY <1>3
  <2>3. s <= r + 1 /\ F \in Nat
    BY <1>3, <2>2, NType
  <2>4. s > 2 * F => r > 2 * F \/ s = 2 * F + 1
    BY <2>3
  <2>5. F > 0 /\ s > F => r > F \/ (s = F + 1 /\ s # 2 * F + 1)
    BY <2>3
  <2> QED
    BY <2>1, <2>2, <2>4, <2>5 DEF Admits, Relays
<1> HIDE DEF S, R, admit, relay
<1>5. Thresholds'
  <2> SUFFICES ASSUME NEW k \in Correct, NEW u \in BOOLEAN
               PROVE  /\ F > 0 /\ Cardinality(recvBval'[k][u]) > F => u \in sentBvals'[k]
                      /\ Cardinality(recvBval'[k][u]) > 2 * F => u \in binValues'[k]
    BY DEF Thresholds
  <2>1. sentBvals[k] \subseteq sentBvals'[k] /\ binValues[k] \subseteq binValues'[k]
    BY <1>t, <1>n, <1>1 DEF TypeOK
  <2>2. CASE k = n /\ u = v
    <3>1. /\ recvBval'[k][u] = S
          /\ admit => v \in binValues'[n]
          /\ relay => v \in sentBvals'[n]
      BY <1>t, <1>n, <1>1, <2>2 DEF TypeOK
    <3> QED
      BY <1>4, <2>1, <2>2, <3>1
  <2>3. CASE ~(k = n /\ u = v)
    <3>1. recvBval'[k][u] = recvBval[k][u]
      BY <1>t, <1>n, <1>1, <2>3 DEF TypeOK
    <3> QED
      BY <1>t, <2>1, <3>1 DEF Thresholds
  <2> QED
    BY <2>2, <2>3
<1>6. QuorumTried'
  <2> SUFFICES ASSUME NEW k \in Correct, ~done'[k], epoch'[k] < MaxEpoch, AuxQuorum(k)'
               PROVE  call' # None /\ call'.node = k /\ call'.op \in {"aux", "try"}
    BY DEF QuorumTried
  <2>1. ~AuxQuorum(k)
    BY <1>t, <1>n, <1>1 DEF QuorumTried
  <2>2. binValues'[k] # binValues[k]
    BY <1>1, <2>1 DEF AuxQuorum, ValidAux
  <2>3. k = n /\ admit
    BY <1>t, <1>n, <1>1, <2>2 DEF TypeOK
  <2>4. call' = Aux(n, n, v) \/ call' = Try(n)
    BY <1>1, <2>3
  <2>5. Aux(n, n, v) # None /\ Try(n) # None
    <3>1. n \in Node
      BY <1>n DEF Correct
    <3> QED
      BY <1>n, <3>1, CallType, NoneAssumption
  <2> QED
    BY <2>3, <2>4, <2>5 DEF Aux, Try
<1> QED
  BY <1>5, <1>6 DEF MissedInv

LEMMA MissedStep ==
    IInv /\ MissedInv /\ [Next]_vars => MissedInv'
<1> SUFFICES ASSUME IInv, MissedInv, [Next]_vars PROVE MissedInv'
  OBVIOUS
<1>t. TypeOK /\ Thresholds /\ QuorumTried
  BY DEF IInv, MissedInv
<1>1. ASSUME NEW n \in Correct, NEW v \in BOOLEAN, inputValue(n, v) PROVE MissedInv'
  <2>1. \A k \in Correct : sentBvals[k] \subseteq sentBvals'[k]
    BY <1>t, <1>1 DEF inputValue, TypeOK
  <2> QED
    BY <1>1, <2>1, UncountedKeeps DEF inputValue
<1>2. ASSUME NEW n \in Correct, NEW msg \in sent, receive(n, msg) PROVE MissedInv'
  BY <1>2, UncountedKeeps DEF receive, round
<1>3. CASE handleMessage
  BY <1>3, UncountedKeeps DEF handleMessage, round
<1>4. CASE handleBvalRequest
  BY <1>4, BvalMissed
<1>5. CASE handleAuxRequest
  <2> DEFINE n == call.node
  <2>1. /\ call # None /\ n \in Correct /\ call.from \in Node
    BY <1>t, <1>5 DEF TypeOK, handleAuxRequest, Call
  <2>2. /\ recvAux' = [recvAux EXCEPT ![n][call.from] = call.val]
        /\ call' = Try(n)
        /\ UNCHANGED <<recvBval, sentBvals, binValues, epoch, done>>
    BY <1>5 DEF handleAuxRequest
  <2>3. Thresholds'
    BY <1>t, <2>2 DEF Thresholds
  <2>4. QuorumTried'
    <3> SUFFICES ASSUME NEW k \in Correct, ~done'[k], epoch'[k] < MaxEpoch, AuxQuorum(k)'
                 PROVE  call' # None /\ call'.node = k /\ call'.op \in {"aux", "try"}
      BY DEF QuorumTried
    <3>1. k = n
      <4> SUFFICES ASSUME k # n PROVE FALSE
        OBVIOUS
      <4>1. recvAux'[k] = recvAux[k]
        BY <1>t, <2>2 DEF TypeOK
      <4>2. AuxQuorum(k)
        BY <2>2, <4>1 DEF AuxQuorum, ValidAux
      <4> QED
        BY <1>t, <2>2, <4>2 DEF QuorumTried
    <3>2. Try(n) # None
      BY <2>1, CallType, NoneAssumption
    <3> QED
      BY <2>2, <3>1, <3>2 DEF Try
  <2> QED
    BY <2>3, <2>4 DEF MissedInv
<1>6. CASE tryWait
  <2>1. ~AuxQuorum(call.node) \/ epoch[call.node] = MaxEpoch
    BY <1>6 DEF tryWait
  <2>2. \A n \in Correct : epoch[n] = MaxEpoch => ~(epoch[n] < MaxEpoch)
    BY EpochType
  <2> QED
    BY <1>6, <2>1, <2>2, UncountedKeeps DEF tryWait, round
<1>7. CASE tryDone
  <2>1. call.node \in Correct /\ done' = [done EXCEPT ![call.node] = TRUE]
    BY <1>t, <1>7 DEF TypeOK, tryDone, Call
  <2>2. done'[call.node] /\ \A n \in Correct : ~done'[n] => ~done[n]
    BY <1>t, <2>1 DEF TypeOK
  <2> QED
    BY <1>7, <2>2, UncountedKeeps DEF tryDone, round
<1>8. CASE tryAdvance
  <2> DEFINE n == call.node
  <2>1. n \in Correct
    BY <1>t, <1>8 DEF TypeOK, tryAdvance, Call
  <2>2. /\ epoch' = [epoch EXCEPT ![n] = epoch[n] + 1]
        /\ sentBvals' = [sentBvals EXCEPT ![n] = {Estimate(n)}]
        /\ binValues' = [binValues EXCEPT ![n] = {}]
        /\ recvBval' = [recvBval EXCEPT ![n] = [v \in BOOLEAN |-> {}]]
        /\ recvAux' = [recvAux EXCEPT ![n] = [m \in Node |-> None]]
        /\ done' = done
    BY <1>8 DEF tryAdvance
  <2>3. /\ binValues'[n] = {} /\ \A v \in BOOLEAN : recvBval'[n][v] = {}
        /\ \A k \in Correct \ {n} :
              /\ epoch'[k] = epoch[k] /\ sentBvals'[k] = sentBvals[k]
              /\ binValues'[k] = binValues[k] /\ recvBval'[k] = recvBval[k]
              /\ recvAux'[k] = recvAux[k]
    BY <1>t, <2>1, <2>2 DEF TypeOK
  <2>4. Cardinality({}) = 0
    BY FS_EmptySet
  <2>5. Thresholds'
    <3> SUFFICES ASSUME NEW k \in Correct, NEW u \in BOOLEAN
                 PROVE  /\ F > 0 /\ Cardinality(recvBval'[k][u]) > F => u \in sentBvals'[k]
                        /\ Cardinality(recvBval'[k][u]) > 2 * F => u \in binValues'[k]
      BY DEF Thresholds
    <3>1. CASE k = n
      <4>1. Cardinality(recvBval'[k][u]) = 0
        BY <2>3, <2>4, <3>1
      <4>2. ~(0 > F) /\ ~(0 > 2 * F)
        BY NType
      <4> QED
        BY <4>1, <4>2
    <3>2. CASE k # n
      BY <1>t, <2>3, <3>2 DEF Thresholds
    <3> QED
      BY <3>1, <3>2
  <2>6. QuorumTried'
    <3> SUFFICES ASSUME NEW k \in Correct, ~done'[k], epoch'[k] < MaxEpoch, AuxQuorum(k)'
                 PROVE  FALSE
      BY DEF QuorumTried
    <3>1. k # n
      BY <2>3 DEF AuxQuorum
    <3>2. AuxQuorum(k)
      BY <2>3, <3>1 DEF AuxQuorum, ValidAux
    <3> QED
      BY <1>t, <2>2, <2>3, <3>1, <3>2 DEF QuorumTried
  <2> QED
    BY <2>5, <2>6 DEF MissedInv
<1>9. CASE loopStart \/ loopNext \/ loopEnd
  BY <1>9, UncountedKeeps DEF loopStart, loopNext, loopEnd, round
<1>10. CASE UNCHANGED vars
  BY <1>10, UncountedKeeps DEF vars, round, control
<1> QED
  BY <1>1, <1>2, <1>3, <1>4, <1>5, <1>6, <1>7, <1>8, <1>9, <1>10 DEF Next, Compute

LEMMA MissedInitial == Init => MissedInv
<1> SUFFICES ASSUME Init PROVE MissedInv
  OBVIOUS
<1>1. Cardinality({}) = 0 /\ ~(0 > F) /\ ~(0 > 2 * F)
  BY FS_EmptySet, NType
<1>2. Thresholds
  BY <1>1 DEF Init, Thresholds
<1>3. QuorumTried
  BY DEF Init, QuorumTried, AuxQuorum
<1> QED
  BY <1>2, <1>3 DEF MissedInv

-----------------------------------------------------------------------------
(* Nobody is left behind.                                                  *)

\* A decision was made in an epoch that the node has left.
DecidedEarlier ==
    \A n \in Correct :
        decision[n] # None =>
            \E d \in Epoch : /\ d < epoch[n] /\ decision[n] = coin(d)
                             /\ AuxBacked(d, decision[n])

\* A node stops in an epoch whose coin is its decision.
StoppedAtCoin == \A n \in Correct : done[n] => decision[n] = coin(epoch[n])

\* A node leaves an epoch undecided only if the value that is not the coin's was
\* voted for in it.
LeftUndecided ==
    \A m \in Correct, e \in Epoch :
        e < epoch[m] => decision[m] # None \/ Voted(e, ~coin(e))

BehindInv == DecidedEarlier /\ StoppedAtCoin /\ LeftUndecided

LEMMA BehindFollows == IInv /\ BehindInv => NobodyLeftBehind
<1> SUFFICES ASSUME IInv, BehindInv, NEW n \in Correct, NEW m \in Correct,
                    done[n], epoch[m] > epoch[n], decision[m] = None
             PROVE  FALSE
  BY DEF NobodyLeftBehind
<1>1. PICK e \in Epoch : e = epoch[n]
  BY DEF IInv, TypeOK
<1>2. PICK u \in BOOLEAN : u = coin(e)
  BY DEF coin
<1>3. decision[n] = u /\ u # None
  BY <1>1, <1>2, NodeAssumption DEF BehindInv, StoppedAtCoin
<1>4. PICK d \in Epoch : d < e /\ u = coin(d) /\ AuxBacked(d, u)
  BY <1>1, <1>3 DEF BehindInv, DecidedEarlier
<1>5. e < epoch[m]
  BY <1>1, EpochType DEF IInv, TypeOK
<1>6. PICK w \in BOOLEAN : w = ~u
  OBVIOUS
<1>7. Voted(e, w)
  BY <1>2, <1>5, <1>6 DEF BehindInv, LeftUndecided
<1>8. d \in 0 .. e
  BY <1>4, EpochType
<1>9. Settled(d, w)
  BY <1>4, <1>7, <1>8 DEF IInv, Justified, Voted
<1>10. AuxBacked(d, w)
  BY <1>4, <1>6, <1>9 DEF Settled
<1> QED
  BY <1>4, <1>6, <1>10, BackedOnce DEF IInv

\* Steps that leave epochs and decisions as they are.
LEMMA StayingKeeps ==
    ASSUME BehindInv, sent \subseteq sent', UNCHANGED <<epoch, decision, done>>
    PROVE  BehindInv'
<1>1. DecidedEarlier'
  <2> SUFFICES ASSUME NEW n \in Correct, decision'[n] # None
               PROVE  \E d \in Epoch : /\ d < epoch'[n] /\ decision'[n] = coin(d)
                                       /\ AuxBacked(d, decision[n])'
    BY DEF DecidedEarlier
  <2>1. PICK d \in Epoch : /\ d < epoch[n] /\ decision[n] = coin(d)
                           /\ AuxBacked(d, decision[n])
    BY DEF BehindInv, DecidedEarlier
  <2>2. PICK b : b = decision[n]
    OBVIOUS
  <2>3. AuxBacked(d, b)'
    BY <2>1, <2>2, Grows
  <2>4. AuxBacked(d, decision[n])'
    BY <2>2, <2>3
  <2> QED
    BY <2>1, <2>4
<1>2. StoppedAtCoin'
  BY DEF BehindInv, StoppedAtCoin
<1>3. LeftUndecided'
  BY Grows DEF BehindInv, LeftUndecided
<1> QED
  BY <1>1, <1>2, <1>3 DEF BehindInv

LEMMA AdvanceBehind ==
    ASSUME IInv, BehindInv, tryAdvance
    PROVE  BehindInv'
<1>t. TypeOK /\ RecvOrigin /\ BinOrigin
  BY DEF IInv
<1>1. PICK n \in Correct : n = call.node
  BY <1>t DEF TypeOK, tryAdvance, Call
<1>2. PICK e \in Epoch : e = epoch[n]
  BY <1>t DEF TypeOK
<1>3. PICK c \in BOOLEAN : c = coin(e)
  BY DEF coin
<1>4. PICK b \in BOOLEAN \union {None} : b = Decision(n)
  BY <1>t DEF Decision, coin, TypeOK
<1>5. /\ AuxQuorum(n) /\ ~Confirmed(n)
      /\ epoch' = [epoch EXCEPT ![n] = e + 1]
      /\ decision' = [decision EXCEPT ![n] = b]
      /\ done' = done /\ sent \subseteq sent'
      /\ b = IF decision[n] = None /\ AuxValues(n) = {c} THEN c ELSE decision[n]
  BY <1>1, <1>2, <1>3, <1>4 DEF tryAdvance, Decision
<1>6. /\ epoch'[n] = e + 1 /\ decision'[n] = b
      /\ \A k \in Correct \ {n} : epoch'[k] = epoch[k] /\ decision'[k] = decision[k]
  BY <1>t, <1>5 DEF TypeOK
<1>7. /\ \A k \in Correct : epoch[k] \in Nat
      /\ e \in Nat /\ Epoch \subseteq Nat
  BY <1>t, EpochType DEF TypeOK
<1>8. DecidedEarlier'
  <2> SUFFICES ASSUME NEW k \in Correct, NEW w, w = decision'[k], w # None
               PROVE  \E d \in Epoch : d < epoch'[k] /\ w = coin(d) /\ AuxBacked(d, w)'
    BY DEF DecidedEarlier
  <2>1. CASE w = decision[k]
    <3>1. PICK d \in Epoch : d < epoch[k] /\ w = coin(d) /\ AuxBacked(d, w)
      BY <2>1 DEF BehindInv, DecidedEarlier
    <3>2. d < epoch'[k]
      BY <1>2, <1>6, <1>7, <3>1
    <3> QED
      BY <1>5, <3>1, <3>2, Grows
  <2>2. CASE w # decision[k]
    <3>1. k = n /\ w = c /\ AuxValues(n) = {c}
      BY <1>5, <1>6, <2>2
    <3>2. AuxBacked(e, c)
      BY <1>2, <1>3, <1>5, <3>1, QuorumSettles
    <3>3. e < epoch'[k]
      BY <1>6, <1>7, <3>1
    <3> QED
      BY <1>3, <1>5, <3>1, <3>2, <3>3, Grows
  <2> QED
    BY <2>1, <2>2
<1>9. StoppedAtCoin'
  <2> SUFFICES ASSUME NEW k \in Correct, done'[k]
               PROVE  decision'[k] = coin(epoch'[k])
    BY DEF StoppedAtCoin
  <2>1. k # n
    BY <1>5 DEF Confirmed
  <2> QED
    BY <1>5, <1>6, <2>1 DEF BehindInv, StoppedAtCoin
<1>10. LeftUndecided'
  <2> SUFFICES ASSUME NEW k \in Correct, NEW f \in Epoch, f < epoch'[k],
                      decision'[k] = None
               PROVE  Voted(f, ~coin(f))'
    BY DEF LeftUndecided
  <2>1. decision[k] = None
    BY <1>3, <1>5, <1>6, NodeAssumption
  <2>2. CASE f < epoch[k]
    BY <1>5, <2>1, <2>2, Grows DEF BehindInv, LeftUndecided
  <2>3. CASE ~(f < epoch[k])
    <3>1. k = n
      BY <1>6, <2>3
    <3>2. f = e
      BY <1>2, <1>6, <1>7, <2>3, <3>1
    <3>3. AuxValues(n) # {c}
      BY <1>3, <1>5, <1>6, <2>1, <3>1, NodeAssumption
    <3>4. AuxValues(n) # {}
      <4>1. ValidAux(n) # {}
        <5> SUFFICES ASSUME ValidAux(n) = {} PROVE FALSE
          OBVIOUS
        <5>1. Cardinality(ValidAux(n)) = 0
          BY FS_EmptySet, Zenon
        <5>2. Cardinality(ValidAux(n)) >= N - F
          BY <1>5 DEF AuxQuorum
        <5> QED
          BY <5>1, <5>2, NType
      <4> QED
        BY <4>1 DEF AuxValues
    <3>5. AuxValues(n) \subseteq binValues[n] /\ binValues[n] \subseteq BOOLEAN
      BY <1>t DEF AuxValues, ValidAux, TypeOK
    <3>6. (~c) \in binValues[n]
      <4>1. PICK x \in AuxValues(n) : x # c
        BY <3>3, <3>4
      <4>2. x \in BOOLEAN /\ x \in binValues[n]
        BY <3>5
      <4>3. x = ~c
        BY <1>3, <4>1, <4>2
      <4> QED
        BY <4>2, <4>3
    <3>7. Voted(e, ~c)
      BY <1>t, <1>2, <3>6 DEF BinOrigin
    <3> QED
      BY <1>3, <1>5, <3>2, <3>7, Grows
  <2> QED
    BY <2>2, <2>3
<1> QED
  BY <1>8, <1>9, <1>10 DEF BehindInv

LEMMA DoneBehind ==
    ASSUME IInv, BehindInv, tryDone
    PROVE  BehindInv'
<1>t. TypeOK
  BY DEF IInv
<1>1. PICK n \in Correct : n = call.node
  BY <1>t DEF TypeOK, tryDone, Call
<1>2. /\ Confirmed(n) /\ done' = [done EXCEPT ![n] = TRUE]
      /\ UNCHANGED <<sent, epoch, decision>>
  BY <1>1 DEF tryDone, history, round
<1>3. decision[n] = coin(epoch[n])
  BY <1>2 DEF Confirmed, BehindInv, StoppedAtCoin
<1>4. StoppedAtCoin'
  BY <1>t, <1>2, <1>3 DEF BehindInv, StoppedAtCoin, TypeOK
<1>5. DecidedEarlier' /\ LeftUndecided'
  BY <1>2 DEF BehindInv, DecidedEarlier, LeftUndecided, AuxBacked, Voted, Said
<1> QED
  BY <1>4, <1>5 DEF BehindInv

LEMMA BehindStep ==
    IInv /\ BehindInv /\ [Next]_vars => BehindInv'
<1> SUFFICES ASSUME IInv, BehindInv, [Next]_vars PROVE BehindInv'
  OBVIOUS
<1>1. ASSUME NEW n \in Correct, NEW v \in BOOLEAN, inputValue(n, v) PROVE BehindInv'
  BY <1>1, StayingKeeps DEF inputValue
<1>2. ASSUME NEW n \in Correct, NEW msg \in sent, receive(n, msg) PROVE BehindInv'
  BY <1>2, StayingKeeps DEF receive, round
<1>3. CASE handleMessage \/ tryWait
  BY <1>3, StayingKeeps DEF handleMessage, tryWait, round, history
<1>4. CASE handleBvalRequest \/ handleAuxRequest
  BY <1>4, StayingKeeps DEF handleBvalRequest, handleAuxRequest, history
<1>5. CASE loopStart \/ loopNext \/ loopEnd
  BY <1>5, StayingKeeps DEF loopStart, loopNext, loopEnd, round, history
<1>6. CASE UNCHANGED vars
  BY <1>6, StayingKeeps DEF vars, round, history
<1> QED
  BY <1>1, <1>2, <1>3, <1>4, <1>5, <1>6, AdvanceBehind, DoneBehind DEF Next, Compute

LEMMA BehindInitial == Init => BehindInv
<1> SUFFICES ASSUME Init PROVE BehindInv
  OBVIOUS
<1>1. \A m \in Correct, e \in Epoch : ~(e < epoch[m])
  BY EpochType DEF Init
<1> QED
  BY <1>1 DEF Init, BehindInv, DecidedEarlier, StoppedAtCoin, LeftUndecided

-----------------------------------------------------------------------------
LEMMA InitInv == Init => IInv
<1> SUFFICES ASSUME Init PROVE IInv
  OBVIOUS
<1>1. \A kind, e, v : \A m \in Correct : ~Said(kind, m, e, v)
  BY FaultyMessageAssumption DEF Init, Said, Msg, Correct
<1>2. TypeOK
  BY FaultyMessageAssumption, EpochType DEF Init, TypeOK
<1>3. SentOnce /\ Justified
  BY <1>1 DEF SentOnce, Justified
<1>4. RecvOrigin /\ BinOrigin
  BY NodeAssumption DEF Init, RecvOrigin, BinOrigin, Correct
<1>5. QueueOrigin /\ CallOrigin
  BY DEF Init, QueueOrigin, CallOrigin
<1>6. InputOrigin /\ DecisionBacked
  BY <1>1 DEF Init, InputOrigin, DecisionBacked, Voted
<1> QED
  BY <1>2, <1>3, <1>4, <1>5, <1>6 DEF IInv

LEMMA NextInv == IInv /\ [Next]_vars => IInv'
<1> SUFFICES ASSUME IInv, [Next]_vars PROVE IInv'
  OBVIOUS
<1>1. ASSUME NEW n \in Correct, NEW v \in BOOLEAN, inputValue(n, v) PROVE IInv'
  BY <1>1, inputStep
<1>2. ASSUME NEW n \in Correct, NEW msg \in sent, receive(n, msg) PROVE IInv'
  BY <1>2, receiveStep
<1>3. CASE Compute
  BY <1>3, handleMessageStep, handleBvalStep, handleAuxStep, tryStep,
     tryAdvanceStep, loopStep DEF Compute
<1>4. CASE UNCHANGED vars
  <2>1. Quiet /\ recvAux' = recvAux
    BY <1>4 DEF vars, history, round, control, Quiet
  <2>2. TypeOK' /\ QueueOrigin' /\ CallOrigin'
    BY <1>4 DEF vars, history, round, control, IInv, TypeOK, QueueOrigin,
                CallOrigin, Said
  <2> QED
    BY <2>1, <2>2, QuietKeeps, QuietRecv DEF IInv
<1> QED
  BY <1>1, <1>2, <1>3, <1>4 DEF Next

\* The inductive invariant holds in every reachable state.
THEOREM Invariance == Spec => []IInv
  BY InitInv, NextInv, PTL DEF Spec

\* The fields of a BBA keep their types through every nested handler call.
THEOREM TypeCorrectness == Spec => []TypeOK
<1>1. IInv => TypeOK
  BY DEF IInv
<1> QED
  BY <1>1, Invariance, PTL

(***************************************************************************)
(* No two correct nodes decide differently (bba.go:315-376): a decision in *)
(* epoch d has an AUX quorum for coin(d) behind it, any estimate that      *)
(* leaves epoch d is coin(d) or has such a quorum too, and quorums meet.   *)
(***************************************************************************)
THEOREM AgreementTheorem == Spec => []Agreement
  BY Invariance, InvAgreement, PTL

(***************************************************************************)
(* Only a value that some correct node put in is decided: every value      *)
(* admitted to binValues has a correct sender (bba.go:276), back to the    *)
(* first epoch.                                                            *)
(***************************************************************************)
THEOREM ValidityTheorem == Spec => []Validity
  BY Invariance, InvValidity, PTL

(***************************************************************************)
(* When a handler has returned nothing is left undone at a live node: no   *)
(* threshold was stepped over and no AUX quorum waits, however BVAL and    *)
(* AUX messages were ordered and whatever was replayed (bba.go:270-376).   *)
(***************************************************************************)
THEOREM NothingMissedTheorem == Spec => []NothingMissed
<1>1. MissedInv => NothingMissed
  BY DEF MissedInv, Thresholds, QuorumTried, NothingMissed
<1> QED
  BY <1>1, Invariance, MissedInitial, MissedStep, PTL DEF Spec

(***************************************************************************)
(* A node that stopped is needed by nobody: every correct node beyond its  *)
(* epoch has decided (bba.go:334), since all that was voted for in that    *)
(* epoch is the value decided before.                                      *)
(***************************************************************************)
THEOREM NobodyLeftBehindTheorem == Spec => []NobodyLeftBehind
  BY Invariance, BehindInitial, BehindStep, BehindFollows, PTL DEF Spec

-----------------------------------------------------------------------------
(* The service ACS uses: what its three variables are here, and which      *)
(* steps of the code change them.                                          *)

Given == {v \in BOOLEAN : \E n \in Correct : input[n] = v}

Open == {n \in Correct : epoch[n] = 0 /\ estimated[n] = None}

\* Only an input and an advance touch what the service shows.
LEMMA ServiceUnseen ==
    ASSUME Next,
           \A n \in Correct, v \in BOOLEAN : ~inputValue(n, v),
           ~tryAdvance
    PROVE  UNCHANGED <<input, epoch, estimated, decision>>
<1>1. ASSUME NEW n \in Correct, NEW msg \in sent, receive(n, msg)
      PROVE  UNCHANGED <<input, epoch, estimated, decision>>
  BY <1>1 DEF receive, round
<1>2. CASE handleMessage \/ handleBvalRequest \/ handleAuxRequest
  BY <1>2 DEF handleMessage, handleBvalRequest, handleAuxRequest, history, round
<1>3. CASE tryWait \/ tryDone
  BY <1>3 DEF tryWait, tryDone, history, round
<1>4. CASE loopStart \/ loopNext \/ loopEnd
  BY <1>4 DEF loopStart, loopNext, loopEnd, history, round
<1> QED
  BY <1>1, <1>2, <1>3, <1>4 DEF Next, Compute

LEMMA ServiceInput ==
    ASSUME IInv, NEW n \in Correct, NEW v \in BOOLEAN, inputValue(n, v)
    PROVE  Promise!Next
<1>1. /\ epoch[n] = 0 /\ estimated[n] = None /\ input[n] = None
      /\ input' = [input EXCEPT ![n] = v]
      /\ estimated' = [estimated EXCEPT ![n] = v]
      /\ epoch' = epoch /\ decision' = decision
      /\ v # None
  BY NodeAssumption DEF inputValue, IInv, InputOrigin
<1>2. /\ \A m \in Correct : input'[m] = IF m = n THEN v ELSE input[m]
      /\ \A m \in Correct : estimated'[m] = IF m = n THEN v ELSE estimated[m]
  BY <1>1 DEF IInv, TypeOK
<1>3. n \in Open /\ Open' = Open \ {n}
  BY <1>1, <1>2 DEF Open
<1>4. Given' = Given \union {v}
  <2>1. ASSUME NEW w \in BOOLEAN PROVE w \in Given' <=> w \in Given \union {v}
    BY <1>1, <1>2, NodeAssumption DEF Given
  <2> QED
    BY <2>1 DEF Given
<1>5. Promise!Close(n)
  BY <1>3, <1>4 DEF Promise!Close, Given, Open
<1> QED
  BY <1>1, <1>5 DEF Promise!Next, Promise!Step

LEMMA ServiceAdvance ==
    ASSUME IInv, Agreement', Validity', tryAdvance
    PROVE  Promise!Next
<1>0. PICK n \in Correct : n = call.node
  BY DEF tryAdvance, IInv, TypeOK, Call
<1>1. /\ AuxQuorum(n)
      /\ epoch' = [epoch EXCEPT ![n] = epoch[n] + 1]
      /\ estimated' = [estimated EXCEPT ![n] = Estimate(n)]
      /\ decision' = [decision EXCEPT ![n] = Decision(n)]
      /\ input' = input
  BY <1>0 DEF tryAdvance
<1>2. /\ \A m \in Correct \ {n} : epoch'[m] = epoch[m] /\ estimated'[m] = estimated[m]
      /\ epoch'[n] # 0
  <2>1. /\ epoch \in [Correct -> Nat]
        /\ estimated \in [Correct -> BOOLEAN \union {None}]
    BY EpochType DEF IInv, TypeOK
  <2>2. epoch[n] \in Nat /\ epoch'[n] = epoch[n] + 1
    BY <1>1, <2>1
  <2>3. \A m \in Correct \ {n} : epoch'[m] = epoch[m] /\ estimated'[m] = estimated[m]
    BY <1>1, <2>1
  <2> QED
    BY <2>2, <2>3
<1>3. n \notin Open' /\ Open' = Open \ {n} /\ Given' = Given
  BY <1>1, <1>2 DEF Open, Given
<1>4. n \in Open => Given # {}
  <2> SUFFICES ASSUME epoch[n] = 0 PROVE Given # {}
    BY DEF Open
  <2>1. PICK v \in BOOLEAN : v \in binValues[n]
    BY <1>1 DEF AuxQuorum, IInv, TypeOK
  <2>2. Voted(0, v)
    BY <1>1, <2>1 DEF IInv, BinOrigin
  <2>3. \E m \in Correct : input[m] = v
    BY <2>2 DEF IInv, InputOrigin
  <2> QED
    BY <2>3 DEF Given
<1>5. Promise!Close(n) \/ (Given' = Given /\ Open' = Open)
  <2>1. CASE n \in Open
    BY <2>1, <1>3, <1>4 DEF Promise!Close, Given, Open
  <2>2. CASE n \notin Open
    BY <2>2, <1>3
  <2> QED
    BY <2>1, <2>2
<1>6. decision' = decision \/ \E v \in BOOLEAN : Promise!Yield(n, v)
  <2>1. CASE decision' = decision
    BY <2>1
  <2>2. CASE decision' # decision
    <3>1. /\ decision[n] = None /\ Decision(n) \in BOOLEAN
          /\ decision \in [Correct -> BOOLEAN \union {None}]
      <4>1. decision \in [Correct -> BOOLEAN \union {None}]
        BY DEF IInv, TypeOK
      <4>2. Decision(n) # decision[n]
        BY <1>1, <2>2, <4>1
      <4>3. decision[n] = None /\ Decision(n) = coin(epoch[n])
        BY <4>2 DEF Decision
      <4>4. coin(epoch[n]) \in BOOLEAN
        BY DEF coin
      <4> QED
        BY <4>1, <4>3, <4>4
    <3>2. PICK v \in BOOLEAN : decision' = [decision EXCEPT ![n] = v]
      BY <1>1, <3>1
    <3>3. decision'[n] = v /\ v # None
      BY <1>1, <3>1, <3>2, NodeAssumption
    <3>4. v \in Given'
      BY <1>1, <3>3 DEF Validity, Given
    <3>5. \A m \in Correct : decision[m] \in {None, v}
      <4> SUFFICES ASSUME NEW m \in Correct, decision[m] # None
                   PROVE  decision[m] = v
        OBVIOUS
      <4>1. decision'[m] = decision[m]
        BY <3>1, <3>2
      <4> QED
        BY <1>1, <3>3, <4>1 DEF Agreement
    <3>6. Promise!MayYield(n, v, Given')
      BY <3>1, <3>4, <3>5 DEF Promise!MayYield
    <3>7. Promise!Yield(n, v)
      BY <3>2, <3>6, <1>3 DEF Promise!Yield, Given, Open
    <3> QED
      BY <3>7
  <2> QED
    BY <2>1, <2>2
<1>7. Promise!Step(n)
  BY <1>5, <1>6 DEF Promise!Step, Given, Open
<1> QED
  BY <1>7 DEF Promise!Next

(***************************************************************************)
(* One agreement implements the service ACS uses: it yields one value,     *)
(* once at a node and to nobody that could still put one in, and turns no  *)
(* input down before a correct node has put one in (bba.go:149-153,        *)
(* 321-364).                                                               *)
(***************************************************************************)
THEOREM Refinement == Spec => KeepsPromise
<1>1. Init => Promise!Init
  <2> SUFFICES ASSUME Init PROVE Promise!Init
    OBVIOUS
  <2>1. \A n \in Correct : input[n] = None /\ epoch[n] = 0 /\ estimated[n] = None
    BY DEF Init
  <2>2. {v \in BOOLEAN : \E n \in Correct : input[n] = v} = {}
    BY <2>1, NodeAssumption
  <2>3. {n \in Correct : epoch[n] = 0 /\ estimated[n] = None} = Correct
    BY <2>1
  <2> QED
    BY <2>2, <2>3 DEF Init, Promise!Init
<1>2. ASSUME IInv, Agreement', Validity', [Next]_vars
      PROVE  [Promise!Next]_Promise!vars
  <2>1. CASE UNCHANGED <<input, epoch, estimated, decision>>
    BY <2>1 DEF Promise!vars
  <2>2. ASSUME NEW n \in Correct, NEW v \in BOOLEAN, inputValue(n, v)
        PROVE  Promise!Next
    BY <1>2, <2>2, ServiceInput
  <2>3. CASE tryAdvance
    BY <1>2, <2>3, ServiceAdvance
  <2>4. CASE UNCHANGED vars
    BY <2>1, <2>4 DEF vars, history, round
  <2> QED
    BY <1>2, <2>1, <2>2, <2>3, <2>4, ServiceUnseen
<1>3. IInv /\ Agreement' /\ Validity' /\ [Next]_vars => [Promise!Next]_Promise!vars
  BY <1>2
<1> QED
  BY Invariance, InvAgreement, InvValidity, <1>1, <1>3, PTL
     DEF Spec, KeepsPromise, Promise!Spec
=============================================================================
