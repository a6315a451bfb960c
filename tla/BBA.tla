-------------------------------- MODULE BBA --------------------------------
(***************************************************************************)
(* One binary-agreement instance (sbc/hbbft/bba.go) at every node, with    *)
(* the network between them.                                               *)
(*                                                                         *)
(* The handlers of bba.go call each other, and replaying the delayed       *)
(* messages re-enters them, nested once per epoch entered.  The calls are  *)
(* tail calls except for the replay loop of tryOutputAgreement, so a run   *)
(* of a handler is a current call and a stack of unfinished loops.  A node *)
(* publishes its messages when the handler has returned (acs.go:386), so   *)
(* no other node takes a step while a handler runs.                        *)
(***************************************************************************)
EXTENDS Integers, FiniteSets, Sequences

CONSTANTS
    Node,           \* every participant
    Faulty,         \* the participants that need not follow the protocol
    FaultyMessage,  \* what they may send, in any order and any number of times
    F,              \* Config.F
    MaxEpoch,       \* bound: the model does not leave this epoch
    None            \* nil

N == Cardinality(Node)

Correct == Node \ Faulty

Epoch == 0 .. MaxEpoch

Message == [kind : {"bval", "aux"}, from : Node, epoch : Epoch, val : BOOLEAN]

ASSUME NodeAssumption ==
    /\ IsFiniteSet(Node)
    /\ Faulty \subseteq Node
    /\ None \notin BOOLEAN

ASSUME FaultAssumption ==
    /\ F \in Nat
    /\ N > 3 * F
    /\ Cardinality(Faulty) <= F

ASSUME FaultyMessageAssumption ==
    \A msg \in FaultyMessage : msg \in Message /\ msg.from \in Faulty

ASSUME MaxEpochAssumption == MaxEpoch \in Nat

VARIABLES
    sent,       \* every message broadcast so far
    seen,       \* seen[n]: messages of n's epoch or later that reached n
    input,      \* input[n]: the value given to inputValue, or None
    epoch,
    estimated,
    sentBvals,  \* as a set: only membership is tested
    binValues,  \* as a set: only membership and emptiness are tested
    recvBval,   \* recvBval[n][v]: the senders of BVAL(v) in this epoch
    recvAux,    \* recvAux[n][m]: m's AUX value in this epoch, or None
    delayed,    \* delayedMessages, as a set: they may have come in any order
    decision,
    done,
    call,       \* the handler call being executed, or None
    loops       \* unfinished replay loops, innermost first: what is left of
                \* each, or None for one whose range is not yet evaluated

history == <<sent, seen, input>>
round == <<epoch, estimated, sentBvals, binValues, recvBval, recvAux>>
control == <<call, loops>>
vars == <<history, round, delayed, decision, done, control>>

Call ==
    [op : {"message"}, node : Correct, msg : Message]
        \union [op : {"bval", "aux"}, node : Correct, from : Node, val : BOOLEAN]
        \union [op : {"try", "loop"}, node : Correct]

ASSUME NoneAssumption == None \notin Call

TypeOK ==
    /\ sent \subseteq Message
    /\ seen \in [Correct -> SUBSET Message]
    /\ input \in [Correct -> BOOLEAN \union {None}]
    /\ epoch \in [Correct -> Epoch]
    /\ estimated \in [Correct -> BOOLEAN \union {None}]
    /\ sentBvals \in [Correct -> SUBSET BOOLEAN]
    /\ binValues \in [Correct -> SUBSET BOOLEAN]
    /\ recvBval \in [Correct -> [BOOLEAN -> SUBSET Node]]
    /\ recvAux \in [Correct -> [Node -> BOOLEAN \union {None}]]
    /\ delayed \in [Correct -> SUBSET Message]
    /\ decision \in [Correct -> BOOLEAN \union {None}]
    /\ done \in [Correct -> BOOLEAN]
    /\ call \in Call \union {None}
    /\ loops \in Seq((SUBSET Message) \union {None})

-----------------------------------------------------------------------------
\* The stand-in for a common coin (bba.go:328).
coin(e) == e % 2 = 0

Msg(kind, n, e, v) == [kind |-> kind, from |-> n, epoch |-> e, val |-> v]

\* Calls by name; a finished call returns to the innermost replay loop.
Bval(n, m, v) == [op |-> "bval", node |-> n, from |-> m, val |-> v]

Aux(n, m, v) == [op |-> "aux", node |-> n, from |-> m, val |-> v]
Try(n) == [op |-> "try", node |-> n]
Handle(n, msg) == [op |-> "message", node |-> n, msg |-> msg]
Return(n, rest) == IF rest = <<>> THEN None ELSE [op |-> "loop", node |-> n]

\* countOutputs: the AUX messages whose value was admitted, and their values.
ValidAux(n) == {m \in Node : recvAux[n][m] \in binValues[n]}
AuxValues(n) == {recvAux[n][m] : m \in ValidAux(n)}

-----------------------------------------------------------------------------
(***************************************************************************)
(* inputValue.  ACS gives TRUE for a proposer whose broadcast came out and *)
(* FALSE to the rest once N - F instances decided TRUE, in any order.      *)
(***************************************************************************)
inputValue(n, v) ==
    /\ call = None
    /\ epoch[n] = 0 /\ estimated[n] = None
    /\ input' = [input EXCEPT ![n] = v]
    /\ estimated' = [estimated EXCEPT ![n] = v]
    /\ sentBvals' = [sentBvals EXCEPT ![n] = @ \union {v}]
    /\ sent' = sent \union {Msg("bval", n, 0, v)}
    /\ call' = Bval(n, n, v)
    /\ UNCHANGED <<seen, epoch, binValues, recvBval, recvAux,
                   delayed, decision, done, loops>>

(***************************************************************************)
(* The transport hands n a message, once if its sender is correct.         *)
(* Messages of older epochs, and those for a node that is done, are        *)
(* ignored by handleMessage: the model does not deliver them.              *)
(***************************************************************************)
receive(n, msg) ==
    /\ call = None
    /\ msg \notin seen[n] \/ msg.from \in Faulty
    /\ msg.from # n
    /\ ~done[n] /\ msg.epoch >= epoch[n]
    /\ seen' = [seen EXCEPT ![n] = @ \union {msg}]
    /\ call' = Handle(n, msg)
    /\ UNCHANGED <<sent, input, round, delayed, decision, done, loops>>

\* Ignore, queue or dispatch.
handleMessage ==
    /\ call # None /\ call.op = "message"
    /\ LET n == call.node
           msg == call.msg
           later == ~done[n] /\ msg.epoch > epoch[n]
           now == ~done[n] /\ msg.epoch = epoch[n]
       IN  /\ delayed' = [delayed EXCEPT ![n] =
                             IF later THEN @ \union {msg} ELSE @]
           /\ call' = IF ~now THEN Return(n, loops)
                      ELSE IF msg.kind = "bval" THEN Bval(n, msg.from, msg.val)
                      ELSE Aux(n, msg.from, msg.val)
    /\ UNCHANGED <<history, round, decision, done, loops>>

\* 2F + 1 senders admit a value, ...
Admits(S) == Cardinality(S) = 2 * F + 1

\* Variant for mutation: F + 1 BVALs are not relayed.
NeverRelays(n, v, S) == FALSE

\* ... F + 1 make the node send it itself, unless it did.
Relays(n, v, S) == Cardinality(S) = F + 1 /\ v \notin sentBvals[n]

(***************************************************************************)
(* The first value admitted in an epoch is broadcast as AUX; a second one  *)
(* may complete AUX messages that came before it.                          *)
(***************************************************************************)
AfterAdmit(n, v, first) == IF first THEN Aux(n, n, v) ELSE Try(n)

handleBvalRequest ==
    /\ call # None /\ call.op = "bval"
    /\ LET n == call.node
           v == call.val
           senders == recvBval[n][v] \union {call.from}
           admit == Admits(senders)
           first == admit /\ binValues[n] = {}
           relay == ~admit /\ Relays(n, v, senders)
       IN  /\ recvBval' = [recvBval EXCEPT ![n][v] = senders]
           /\ binValues' = [binValues EXCEPT ![n] =
                               IF admit THEN @ \union {v} ELSE @]
           /\ sentBvals' = [sentBvals EXCEPT ![n] =
                               IF relay THEN @ \union {v} ELSE @]
           /\ sent' = sent \union
                 (IF first THEN {Msg("aux", n, epoch[n], v)}
                  ELSE IF relay THEN {Msg("bval", n, epoch[n], v)} ELSE {})
           /\ call' = IF admit THEN AfterAdmit(n, v, first)
                      ELSE IF relay THEN Bval(n, n, v)
                      ELSE Return(n, loops)
    /\ UNCHANGED <<seen, input, epoch, estimated, recvAux,
                   delayed, decision, done, loops>>

handleAuxRequest ==
    /\ call # None /\ call.op = "aux"
    /\ recvAux' = [recvAux EXCEPT ![call.node][call.from] = call.val]
    /\ call' = Try(call.node)
    /\ UNCHANGED <<history, epoch, estimated, sentBvals, binValues, recvBval,
                   delayed, decision, done, loops>>

\* Enough AUX messages with admitted values.
AuxQuorum(n) == binValues[n] # {} /\ Cardinality(ValidAux(n)) >= N - F

\* Variant for mutation: a node stops at its first AUX quorum after deciding.
DecidedIsDone(n) == done[n] \/ decision[n] # None

\* A later coin confirmed the decision: this instance may stop.
Confirmed(n) == done[n] \/ decision[n] = coin(epoch[n])

\* The next estimate: the value all AUX messages agree on, or else the coin.
Estimate(n) ==
    LET c == coin(epoch[n])
    IN  IF AuxValues(n) = {~c} THEN ~c ELSE c

\* Variant for mutation: an agreed value is decided whatever the coin.
DecisionWithoutCoin(n) ==
    IF decision[n] = None /\ Cardinality(AuxValues(n)) = 1
    THEN CHOOSE v \in AuxValues(n) : TRUE ELSE decision[n]

\* Decided once: the value all AUX messages agree on, if it is the coin's.
Decision(n) ==
    LET c == coin(epoch[n])
    IN  IF decision[n] = None /\ AuxValues(n) = {c} THEN c ELSE decision[n]

\* The three ways out of tryOutputAgreement: wait, stop, or the next epoch.
tryWait ==
    /\ call # None /\ call.op = "try"
    /\ LET n == call.node
       IN  /\ ~AuxQuorum(n) \/ (~Confirmed(n) /\ epoch[n] = MaxEpoch)
           /\ call' = Return(n, loops)
    /\ UNCHANGED <<history, round, delayed, decision, done, loops>>

tryDone ==
    /\ call # None /\ call.op = "try"
    /\ LET n == call.node
       IN  /\ AuxQuorum(n) /\ Confirmed(n)
           /\ done' = [done EXCEPT ![n] = TRUE]
           /\ call' = Return(n, loops)
    /\ UNCHANGED <<history, round, delayed, decision, loops>>

(***************************************************************************)
(* advanceEpoch and what follows it: the estimate, the decision if there   *)
(* is none yet, the BVAL of the new epoch, and the replay loop to come.    *)
(***************************************************************************)
tryAdvance ==
    /\ call # None /\ call.op = "try"
    /\ LET n == call.node
           e == epoch[n]
           est == Estimate(n)
       IN  /\ AuxQuorum(n) /\ ~Confirmed(n) /\ e < MaxEpoch
           /\ epoch' = [epoch EXCEPT ![n] = e + 1]
           /\ estimated' = [estimated EXCEPT ![n] = est]
           /\ decision' = [decision EXCEPT ![n] = Decision(n)]
           /\ sentBvals' = [sentBvals EXCEPT ![n] = {est}]
           /\ binValues' = [binValues EXCEPT ![n] = {}]
           /\ recvBval' = [recvBval EXCEPT ![n] = [v \in BOOLEAN |-> {}]]
           /\ recvAux' = [recvAux EXCEPT ![n] = [m \in Node |-> None]]
           /\ sent' = sent \union {Msg("bval", n, e + 1, est)}
           /\ seen' = [seen EXCEPT ![n] = {msg \in @ : msg.epoch > e}]
           /\ call' = Bval(n, n, est)
           /\ loops' = <<None>> \o loops
    /\ UNCHANGED <<input, delayed, done>>

(***************************************************************************)
(* The replay loop: its range is evaluated after the BVAL call returned;   *)
(* handleMessage may queue a message again while the loop runs; the end of *)
(* the loop empties the queue.                                             *)
(***************************************************************************)
loopStart ==
    /\ call # None /\ call.op = "loop" /\ Head(loops) = None
    /\ loops' = <<delayed[call.node]>> \o Tail(loops)
    /\ UNCHANGED <<history, round, delayed, decision, done, call>>

loopNext ==
    /\ call # None /\ call.op = "loop" /\ Head(loops) # None
    /\ \E msg \in Head(loops) :
          /\ loops' = <<Head(loops) \ {msg}>> \o Tail(loops)
          /\ call' = Handle(call.node, msg)
    /\ UNCHANGED <<history, round, delayed, decision, done>>

loopEnd ==
    /\ call # None /\ call.op = "loop" /\ Head(loops) = {}
    /\ delayed' = [delayed EXCEPT ![call.node] = {}]
    /\ loops' = Tail(loops)
    /\ call' = Return(call.node, Tail(loops))
    /\ UNCHANGED <<history, round, decision, done>>

-----------------------------------------------------------------------------
Init ==
    /\ sent = FaultyMessage
    /\ seen = [n \in Correct |-> {}]
    /\ input = [n \in Correct |-> None]
    /\ epoch = [n \in Correct |-> 0]
    /\ estimated = [n \in Correct |-> None]
    /\ sentBvals = [n \in Correct |-> {}]
    /\ binValues = [n \in Correct |-> {}]
    /\ recvBval = [n \in Correct |-> [v \in BOOLEAN |-> {}]]
    /\ recvAux = [n \in Correct |-> [m \in Node |-> None]]
    /\ delayed = [n \in Correct |-> {}]
    /\ decision = [n \in Correct |-> None]
    /\ done = [n \in Correct |-> FALSE]
    /\ call = None
    /\ loops = <<>>

Compute ==
    \/ handleMessage
    \/ handleBvalRequest
    \/ handleAuxRequest
    \/ tryWait
    \/ tryDone
    \/ tryAdvance
    \/ loopStart
    \/ loopNext
    \/ loopEnd

Next ==
    \/ \E n \in Correct, v \in BOOLEAN : inputValue(n, v)
    \/ \E n \in Correct, msg \in sent : receive(n, msg)
    \/ Compute

Spec == Init /\ [][Next]_vars

(***************************************************************************)
(* A handler runs to its end, ACS gives every instance an input, and what  *)
(* a correct node broadcast reaches every other correct node.              *)
(***************************************************************************)
Fairness ==
    /\ WF_vars(Compute)
    /\ \A n \in Correct :
          /\ WF_vars(\E v \in BOOLEAN : inputValue(n, v))
          /\ \A m \in Correct \ {n} :
                WF_vars(\E msg \in sent : msg.from = m /\ receive(n, msg))

FairSpec == Spec /\ Fairness

-----------------------------------------------------------------------------
(***************************************************************************)
(* An agreement keeps the promise ACS relies on: a node decides once and   *)
(* as the others do, a value that a correct node put in before, and none   *)
(* leaves the epoch in which it accepts an input (bba.go:149-153) before     *)
(* some correct node has put in a value.                                   *)
(***************************************************************************)
Promise == INSTANCE BinaryAgreement WITH
    given <- {v \in BOOLEAN : \E n \in Correct : input[n] = v},
    open <- {n \in Correct : epoch[n] = 0 /\ estimated[n] = None},
    result <- decision

KeepsPromise == Promise!Spec

(***************************************************************************)
(* No two correct nodes decide differently, however their messages are     *)
(* delayed and reordered and whatever faulty nodes send (bba.go:315-376).  *)
(***************************************************************************)
Agreement ==
    \A n, m \in Correct :
        decision[n] # None /\ decision[m] # None => decision[n] = decision[m]

\* A decision is a value some correct node put in (bba.go:225-235).
Validity ==
    \A n \in Correct :
        decision[n] # None => \E m \in Correct : input[m] = decision[n]

(***************************************************************************)
(* The counters trigger on "== 2F + 1" and "== F + 1" (bba.go:276, 295)    *)
(* and AUX messages may come before their value is admitted; still, when a *)
(* handler has returned nothing is left undone at a live node.  (With F =  *)
(* 0 both counts are one: the value is admitted, and nobody relays it.)    *)
(***************************************************************************)
NothingMissed ==
    call = None =>
        \A n \in Correct :
            ~done[n] =>
                /\ \A v \in BOOLEAN :
                      /\ F > 0 /\ Cardinality(recvBval[n][v]) > F => v \in sentBvals[n]
                      /\ Cardinality(recvBval[n][v]) > 2 * F => v \in binValues[n]
                /\ epoch[n] < MaxEpoch => ~AuxQuorum(n)

(***************************************************************************)
(* A node stops at the second coin that matches its decision (bba.go:334); *)
(* nobody needs it any more: a correct node beyond that epoch has decided. *)
(***************************************************************************)
NobodyLeftBehind ==
    \A n, m \in Correct :
        done[n] /\ epoch[m] > epoch[n] => decision[m] # None

(***************************************************************************)
(* Every correct node decides ("every good node outputs a value",          *)
(* bba_test.go), if the faulty nodes are merely down.                      *)
(***************************************************************************)
Termination == <>(\A n \in Correct : decision[n] # None)

(***************************************************************************)
(* "If all good nodes receive input, then every good node outputs a value" *)
(* (bba_test.go:54): once all that was sent has arrived and nothing is     *)
(* left to do below the bound, everyone has decided.                       *)
(***************************************************************************)
Pending(n) == {msg \in sent \ seen[n] : msg.from # n /\ msg.epoch >= epoch[n]}

EveryNodeOutputs ==
    /\ call = None
    /\ \A n \in Correct : input[n] # None
    /\ \A n \in Correct : done[n] \/ (epoch[n] < MaxEpoch /\ Pending(n) = {})
    => \A n \in Correct : decision[n] # None
=============================================================================
