-------------------------------- MODULE RBC --------------------------------
(***************************************************************************)
(* One reliable-broadcast instance (sbc/hbbft/rbc.go) at every node, with   *)
(* the part of ACS.processBroadcast that drains its queue and its output.   *)
(*                                                                         *)
(* A Merkle root stands for the whole batch it commits to: a root fixes    *)
(* its leaves, so a proof that verifies is the pair (root, leaf index) and *)
(* the value decoded for a root is named by the root.  Leaf indexes are    *)
(* named by the node the leaf is addressed to.                             *)
(***************************************************************************)
EXTENDS Integers, FiniteSets

CONSTANTS
    Node,         \* every participant
    Faulty,       \* the participants that need not follow the protocol
    FaultyMessage,\* what they may send, at any time and to anyone
    F,            \* Config.F
    Proposer,     \* RBC.proposerID
    Root,         \* Merkle roots that may be seen
    InputRoot,    \* the root of the batch a correct proposer inputs
    ValidProof,   \* (root, index) pairs that validateProof accepts
    Decodable,    \* root -> index sets from which Reconstruct rebuilds its tree
    None          \* nil, or a missing map entry

N == Cardinality(Node)

Correct == Node \ Faulty

Proof == [root : Root, index : Node]

Message ==
    [kind : {"proof"}, from : Node, to : Node, proof : Proof]
        \union [kind : {"echo"}, from : Node, proof : Proof]
        \union [kind : {"ready"}, from : Node, root : Root]

(***************************************************************************)
(* acs.go:23-26 states the protocol for f < N/3.  A proposer that encodes  *)
(* its batch gets a code word: any N - 2F of its shards rebuild it.        *)
(***************************************************************************)
ASSUME NodeAssumption ==
    /\ IsFiniteSet(Node)
    /\ Faulty \subseteq Node
    /\ Proposer \in Node

ASSUME FaultAssumption ==
    /\ F \in Nat
    /\ N > 3 * F
    /\ Cardinality(Faulty) <= F

ASSUME FaultyMessageAssumption ==
    \A msg \in FaultyMessage : msg \in Message /\ msg.from \in Faulty

ASSUME RootAssumption ==
    /\ InputRoot \in Root
    /\ None \notin Root
    /\ None \notin Proof

ASSUME ProofAssumption ==
    /\ ValidProof \subseteq Proof
    /\ \A n \in Node : [root |-> InputRoot, index |-> n] \in ValidProof

ASSUME DecodeAssumption ==
    /\ Decodable \in [Root -> SUBSET SUBSET Node]
    /\ \A r \in Root : \A S \in Decodable[r] : Cardinality(S) >= N - 2 * F
    /\ \A S \in SUBSET Node :
          Cardinality(S) >= N - 2 * F => S \in Decodable[InputRoot]

VARIABLES
    net,         \* messages correct nodes have handed to the transport
    recvEchos,   \* recvEchos[n][m]: the proof m echoed to n, or None
    recvReadys,  \* recvReadys[n][m]: the root of m's Ready at n, or None
    echoSent,
    readySent,
    output       \* the batch handed to ACS, or None; outputDecoded is output # None

vars == <<net, recvEchos, recvReadys, echoSent, readySent, output>>

TypeOK ==
    /\ net \subseteq Message
    /\ recvEchos \in [Correct -> [Node -> Proof \union {None}]]
    /\ recvReadys \in [Correct -> [Node -> Root \union {None}]]
    /\ echoSent \in [Correct -> BOOLEAN]
    /\ readySent \in [Correct -> BOOLEAN]
    /\ output \in [Correct -> Root \union {None}]

-----------------------------------------------------------------------------
validateProof(p) == p \in ValidProof

\* The senders whose echo, or Ready, is for the root.
EchosFor(echos, root) ==
    {m \in Node : echos[m] # None /\ echos[m].root = root}

\* Variant for mutation: Readys are counted without comparing the root.
ReadysOfAny(readys, root) == {m \in Node : readys[m] # None}

ReadysFor(readys, root) == {m \in Node : readys[m] = root}

countEchos(echos, root) == Cardinality(EchosFor(echos, root))

countReadys(readys, root) == Cardinality(ReadysFor(readys, root))

\* Two echoes with the same index fill the same shard.
Shards(echos, root) == {echos[m].index : m \in EchosFor(echos, root)}

CanDecode(echos, readys, root) ==
    /\ countReadys(readys, root) > 2 * F
    /\ countEchos(echos, root) > F
    /\ Shards(echos, root) \in Decodable[root]

(***************************************************************************)
(* tryDecodeValue: a second decode is refused by outputDecoded, and a      *)
(* failed reconstruction or a different recomputed root leaves no trace.   *)
(***************************************************************************)
tryDecodeValue(old, echos, readys, root) ==
    IF old = None /\ CanDecode(echos, readys, root) THEN root ELSE old

\* Variant for mutation: decoding is tried before the own Ready is recorded.
ProceedDecodesFirst(n, echos, readys, root, emit) ==
    LET own == IF emit THEN [readys EXCEPT ![n] = root] ELSE readys
    IN  /\ recvEchos' = [recvEchos EXCEPT ![n] = echos]
        /\ recvReadys' = [recvReadys EXCEPT ![n] = own]
        /\ readySent' = [readySent EXCEPT ![n] = @ \/ emit]
        /\ output' = [output EXCEPT ![n] = tryDecodeValue(@, echos, readys, root)]

(***************************************************************************)
(* The common tail of the Echo and Ready handlers: emitReady when the      *)
(* handler asked for it and no Ready was sent, then tryDecodeValue.  The   *)
(* errors for a second echo or Ready of its own are excluded by LocalOnce.  *)
(***************************************************************************)
Proceed(n, echos, readys, root, emit) ==
    LET own == IF emit THEN [readys EXCEPT ![n] = root] ELSE readys
    IN  /\ recvEchos' = [recvEchos EXCEPT ![n] = echos]
        /\ recvReadys' = [recvReadys EXCEPT ![n] = own]
        /\ readySent' = [readySent EXCEPT ![n] = @ \/ emit]
        /\ output' = [output EXCEPT ![n] = tryDecodeValue(@, echos, own, root)]

ReadyMessages(n, root, emit) ==
    IF emit THEN {[kind |-> "ready", from |-> n, root |-> root]} ELSE {}

\* Variant for mutation: ">" for ">=" in the echo quorum.
EchoQuorumStrict(n, echos, root) ==
    ~readySent[n] /\ countEchos(echos, root) > N - F

\* handleEchoRequest asks for a Ready on N - F echoes of one root ...
EchoQuorum(n, echos, root) ==
    ~readySent[n] /\ countEchos(echos, root) >= N - F

\* ... and handleReadyRequest when the (F + 1)-st Ready arrives.
ReadyRelay(n, readys, root) ==
    ~readySent[n] /\ countReadys(readys, root) = F + 1

\* The body of handleEchoRequest, shared with the echo a node gives itself.
AdmitEcho(n, m, p) ==
    LET echos == [recvEchos[n] EXCEPT ![m] = p]
    IN  Proceed(n, echos, recvReadys[n], p.root, EchoQuorum(n, echos, p.root))

EchoReadyMessages(n, m, p) ==
    LET echos == [recvEchos[n] EXCEPT ![m] = p]
    IN  ReadyMessages(n, p.root, EchoQuorum(n, echos, p.root))

\* handleProofRequest once its checks passed: echo to all, then to itself.
Echo(n, p, others) ==
    /\ echoSent' = [echoSent EXCEPT ![n] = TRUE]
    /\ AdmitEcho(n, n, p)
    /\ net' = net \union others
                  \union {[kind |-> "echo", from |-> n, proof |-> p]}
                  \union EchoReadyMessages(n, n, p)

-----------------------------------------------------------------------------
(***************************************************************************)
(* A correct proposer's batch: one proof to each other node, its own       *)
(* handled at once.  A second input fails in handleProofRequest.           *)
(***************************************************************************)
InputValue(n) ==
    /\ n = Proposer
    /\ ~echoSent[n]
    /\ Echo(n, [root |-> InputRoot, index |-> n],
            {[kind |-> "proof", from |-> n, to |-> m,
              proof |-> [root |-> InputRoot, index |-> m]] : m \in Node \ {n}})

\* Variant for mutation: the sender of a proof is not checked.
handleProofOfAnyone(n, m, p) ==
    /\ ~echoSent[n]
    /\ validateProof(p)
    /\ Echo(n, p, {})

handleProofRequest(n, m, p) ==
    /\ m = Proposer
    /\ ~echoSent[n]
    /\ validateProof(p)
    /\ Echo(n, p, {})

handleEchoRequest(n, m, p) ==
    /\ recvEchos[n][m] = None
    /\ validateProof(p)
    /\ AdmitEcho(n, m, p)
    /\ net' = net \union EchoReadyMessages(n, m, p)
    /\ UNCHANGED echoSent

handleReadyRequest(n, m, r) ==
    /\ recvReadys[n][m] = None
    /\ LET readys == [recvReadys[n] EXCEPT ![m] = r]
           emit == ReadyRelay(n, readys, r)
       IN  /\ Proceed(n, recvEchos[n], readys, r, emit)
           /\ net' = net \union ReadyMessages(n, r, emit)
    /\ UNCHANGED echoSent

(***************************************************************************)
(* The dispatch of handleMessage.  A handler that refuses a message leaves *)
(* the node as it was.                                                     *)
(***************************************************************************)
handleMessage(n, msg) ==
    /\ msg.from # n
    /\ \/ /\ msg.kind = "proof"
          /\ msg.to = n
          /\ handleProofRequest(n, msg.from, msg.proof)
       \/ /\ msg.kind = "echo"
          /\ handleEchoRequest(n, msg.from, msg.proof)
       \/ /\ msg.kind = "ready"
          /\ handleReadyRequest(n, msg.from, msg.root)

(***************************************************************************)
(* What may arrive.  The network is never emptied, so messages come late,  *)
(* reordered, repeated, or never.                                          *)
(***************************************************************************)
InFlight == net \union FaultyMessage

-----------------------------------------------------------------------------
Init ==
    /\ net = {}
    /\ recvEchos = [n \in Correct |-> [m \in Node |-> None]]
    /\ recvReadys = [n \in Correct |-> [m \in Node |-> None]]
    /\ echoSent = [n \in Correct |-> FALSE]
    /\ readySent = [n \in Correct |-> FALSE]
    /\ output = [n \in Correct |-> None]

Next ==
    \E n \in Correct :
        \/ InputValue(n)
        \/ \E msg \in InFlight : handleMessage(n, msg)

Spec == Init /\ [][Next]_vars

(***************************************************************************)
(* The transport delivers what one correct node sends another, and the     *)
(* application inputs a correct proposer's batch.  Nothing is assumed of   *)
(* the messages of faulty nodes.                                           *)
(***************************************************************************)
Deliver(n, m, kind) ==
    \E msg \in net : msg.from = m /\ msg.kind = kind /\ handleMessage(n, msg)

Fairness ==
    \A n \in Correct :
        /\ WF_vars(InputValue(n))
        /\ \A m \in Correct \ {n}, kind \in {"proof", "echo", "ready"} :
              WF_vars(Deliver(n, m, kind))

FairSpec == Spec /\ Fairness

-----------------------------------------------------------------------------
(***************************************************************************)
(* A broadcast keeps the promise ACS relies on: whatever proofs were       *)
(* handed out, one batch comes out, once at a node, and of a correct       *)
(* proposer only what it has input before (rbc.go:252-271, 337-379).       *)
(***************************************************************************)
Offered ==
    IF Proposer \in Faulty THEN Root
    ELSE IF echoSent[Proposer] THEN {InputRoot} ELSE {}

Promise == INSTANCE ReliableBroadcast WITH Batch <- Root, offered <- Offered

KeepsPromise == Promise!Spec

(***************************************************************************)
(* Two correct nodes never hand ACS different batches of one proposer,     *)
(* whatever proofs the proposer handed out (rbc.go:273-303).               *)
(***************************************************************************)
Agreement ==
    \A n, m \in Correct :
        output[n] # None /\ output[m] # None => output[n] = output[m]

(***************************************************************************)
(* Correct nodes never vouch for two roots: the echo quorum and the relay  *)
(* of F + 1 Readys (rbc.go:291, 310) admit a single root.                  *)
(***************************************************************************)
ReadyAgreement ==
    \A n, m \in Correct :
        readySent[n] /\ readySent[m] => recvReadys[n][n] = recvReadys[m][m]

\* What a correct proposer input is all that can come out.
Validity ==
    Proposer \in Correct =>
        \A n \in Correct : output[n] \in {None, InputRoot}

(***************************************************************************)
(* The errors for an echo or a Ready of one's own admitted twice           *)
(* (rbc.go:281, 320) are unreachable: a node holds its own exactly when it *)
(* sent it, and vouches for no root it cannot account for.                 *)
(***************************************************************************)
LocalOnce ==
    \A n \in Correct :
        /\ echoSent[n] <=> recvEchos[n][n] # None
        /\ readySent[n] <=> recvReadys[n][n] # None

(***************************************************************************)
(* No threshold is stepped over.  Every handler ends in tryDecodeValue for *)
(* the root it touched only, and a relay fires on "== F + 1" (rbc.go:310); *)
(* still, whoever holds what a Ready or an output needs has produced it.   *)
(***************************************************************************)
NothingMissed ==
    \A n \in Correct, r \in Root :
        /\ countEchos(recvEchos[n], r) >= N - F => readySent[n]
        /\ countReadys(recvReadys[n], r) > F => readySent[n]
        /\ CanDecode(recvEchos[n], recvReadys[n], r) => output[n] # None

(***************************************************************************)
(* A correct proposer's batch comes out at every correct node (the end of  *)
(* the comment at rbc.go:298-303).                                         *)
(***************************************************************************)
Totality == Proposer \in Correct => <>(\A n \in Correct : output[n] = InputRoot)
=============================================================================
