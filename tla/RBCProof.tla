------------------------------ MODULE RBCProof ------------------------------
(***************************************************************************)
(* Agreement and Validity of reliable broadcast, and that no threshold is  *)
(* stepped over, for every N > 3F, every set of at most F faulty nodes and *)
(* whatever they send.                                                     *)
(***************************************************************************)
EXTENDS RBC, FiniteSetTheorems, TLAPS

-----------------------------------------------------------------------------
(* Counting: N > 3F nodes, at most F of them faulty.                       *)

(***************************************************************************)
(* More than F nodes include a correct one: what a node relies on when it  *)
(* relays on F + 1 Readys (rbc.go:310).                                    *)
(***************************************************************************)
LEMMA SomeCorrect ==
    ASSUME NEW Nodes, IsFiniteSet(Nodes),
           NEW Bad \in SUBSET Nodes, NEW f \in Nat, Cardinality(Bad) <= f,
           NEW S \in SUBSET Nodes, Cardinality(S) > f
    PROVE  \E n \in S : n \notin Bad
<1>1. IsFiniteSet(S) /\ IsFiniteSet(Bad)
  BY FS_Subset
<1>2. Cardinality(S) \in Nat /\ Cardinality(Bad) \in Nat
  BY <1>1, FS_CardinalityType
<1>3. SUFFICES ASSUME S \subseteq Bad PROVE FALSE
  OBVIOUS
<1>4. Cardinality(S) <= Cardinality(Bad)
  BY <1>1, <1>3, FS_Subset
<1> QED
  BY <1>2, <1>4

(***************************************************************************)
(* Two sets of N - F nodes share a correct one: the echo quorum of RBC     *)
(* (rbc.go:291).                                                           *)
(***************************************************************************)
LEMMA QuorumsMeet ==
    ASSUME NEW Nodes, IsFiniteSet(Nodes),
           NEW Bad \in SUBSET Nodes, NEW f \in Nat, Cardinality(Bad) <= f,
           Cardinality(Nodes) > 3 * f,
           NEW Q \in SUBSET Nodes, Cardinality(Q) >= Cardinality(Nodes) - f,
           NEW R \in SUBSET Nodes, Cardinality(R) >= Cardinality(Nodes) - f
    PROVE  \E n \in Q \cap R : n \notin Bad
<1>1. IsFiniteSet(Q) /\ IsFiniteSet(R) /\ IsFiniteSet(Q \cup R)
  BY FS_Subset, FS_Union
<1>2. /\ Cardinality(Q \cup R)
             = Cardinality(Q) + Cardinality(R) - Cardinality(Q \cap R)
      /\ Cardinality(Q \cup R) <= Cardinality(Nodes)
  <2>1. Q \cup R \in SUBSET Nodes
    OBVIOUS
  <2> QED
    BY <1>1, <2>1, FS_Union, FS_Subset
<1>3. IsFiniteSet(Q \cap R) /\ Q \cap R \in SUBSET Nodes
  BY <1>1, FS_Subset
<1>4. /\ Cardinality(Q) \in Nat /\ Cardinality(R) \in Nat
      /\ Cardinality(Q \cup R) \in Nat /\ Cardinality(Q \cap R) \in Nat
      /\ Cardinality(Nodes) \in Nat
  BY <1>1, <1>3, FS_CardinalityType
<1>5. Cardinality(Q \cap R) > f
  BY <1>2, <1>4
<1> QED
  BY <1>3, <1>5, SomeCorrect

-----------------------------------------------------------------------------

\* Own(n, root): node n broadcast an echo for the root.
OwnEcho(n, root) == recvEchos[n][n] # None /\ recvEchos[n][n].root = root

\* The network holds only what its correct senders recorded as their own.
NetOrigin ==
    \A msg \in net :
        /\ msg.from \in Correct
        /\ msg.kind = "proof" =>
              msg.from = Proposer /\ msg.proof.root = InputRoot
        /\ msg.kind = "echo" => recvEchos[msg.from][msg.from] = msg.proof
        /\ msg.kind = "ready" => recvReadys[msg.from][msg.from] = msg.root

\* What a node recorded of a correct peer is what that peer broadcast.
PeerOrigin ==
    \A n, m \in Correct :
        /\ recvEchos[n][m] # None => recvEchos[m][m] = recvEchos[n][m]
        /\ recvReadys[n][m] # None => recvReadys[m][m] = recvReadys[n][m]

\* A correct proposer is echoed faithfully.
EchoOrigin ==
    Proposer \in Correct =>
        \A n \in Correct : recvEchos[n][n] # None => OwnEcho(n, InputRoot)

\* N - F nodes stand behind a root, the correct ones by an echo of their own.
EchoBacked(root) ==
    \E Q \in SUBSET Node :
        /\ Cardinality(Q) >= N - F
        /\ \A m \in Q \cap Correct : OwnEcho(m, root)

\* Behind every Ready of a correct node stands an echo quorum ...
ReadyBacked ==
    \A n \in Correct :
        recvReadys[n][n] # None => EchoBacked(recvReadys[n][n])

\* ... and behind every output a correct node's Ready.
OutputBacked ==
    \A n \in Correct :
        output[n] # None => \E m \in Correct : recvReadys[m][m] = output[n]

IInv ==
    /\ TypeOK
    /\ LocalOnce
    /\ NetOrigin
    /\ PeerOrigin
    /\ EchoOrigin
    /\ ReadyBacked
    /\ OutputBacked

-----------------------------------------------------------------------------
\* N is a natural number and N - F, F + 1 and 2F + 1 are positive.
LEMMA NType == N \in Nat /\ F \in Nat /\ N > 3 * F
  BY NodeAssumption, FaultAssumption, FS_CardinalityType DEF N

\* Two echo quorums are for the same root.
LEMMA BackedOnce ==
    ASSUME NEW r, NEW s, EchoBacked(r), EchoBacked(s)
    PROVE  r = s
<1>1. PICK Q \in SUBSET Node :
          /\ Cardinality(Q) >= N - F
          /\ \A m \in Q \cap Correct : OwnEcho(m, r)
  BY DEF EchoBacked
<1>2. PICK R \in SUBSET Node :
          /\ Cardinality(R) >= N - F
          /\ \A m \in R \cap Correct : OwnEcho(m, s)
  BY DEF EchoBacked
<1>3. \E n \in Q \cap R : n \notin Faulty
  BY <1>1, <1>2, NodeAssumption, FaultAssumption, QuorumsMeet DEF N
<1> QED
  BY <1>1, <1>2, <1>3 DEF Correct, OwnEcho

\* An echo quorum for any root contains a correct node's echo.
LEMMA BackedByCorrect ==
    ASSUME NEW r, EchoBacked(r)
    PROVE  \E n \in Correct : OwnEcho(n, r)
<1>1. PICK Q \in SUBSET Node :
          /\ Cardinality(Q) >= N - F
          /\ \A m \in Q \cap Correct : OwnEcho(m, r)
  BY DEF EchoBacked
<1>2. Cardinality(Q) \in Nat
  BY NodeAssumption, FS_Subset, FS_CardinalityType
<1>3. Cardinality(Q) > F
  BY <1>1, <1>2, NType
<1>4. \E n \in Q : n \notin Faulty
  BY <1>3, NodeAssumption, FaultAssumption, SomeCorrect
<1> QED
  BY <1>1, <1>4 DEF Correct

\* The inductive invariant implies the properties the runs check.
LEMMA InvReadyAgreement == IInv => ReadyAgreement
  BY BackedOnce DEF IInv, LocalOnce, ReadyBacked, ReadyAgreement

LEMMA InvAgreement == IInv => Agreement
<1> SUFFICES ASSUME IInv, NEW n \in Correct, NEW m \in Correct,
                    output[n] # None, output[m] # None
             PROVE  output[n] = output[m]
  BY DEF Agreement
<1>1. PICK i \in Correct : recvReadys[i][i] = output[n]
  BY DEF IInv, OutputBacked
<1>2. PICK j \in Correct : recvReadys[j][j] = output[m]
  BY DEF IInv, OutputBacked
<1> QED
  BY <1>1, <1>2, BackedOnce DEF IInv, ReadyBacked

LEMMA InvValidity == IInv => Validity
<1> SUFFICES ASSUME IInv, Proposer \in Correct,
                    NEW n \in Correct, output[n] # None
             PROVE  output[n] = InputRoot
  BY DEF Validity
<1>1. PICK i \in Correct : recvReadys[i][i] = output[n]
  BY DEF IInv, OutputBacked
<1>2. PICK j \in Correct : OwnEcho(j, output[n])
  BY <1>1, BackedByCorrect DEF IInv, ReadyBacked
<1> QED
  BY <1>2 DEF IInv, EchoOrigin, OwnEcho

-----------------------------------------------------------------------------
\* What a node broadcast it never takes back, so a quorum stays a quorum.
OwnKept ==
    \A k \in Correct :
        /\ recvEchos[k][k] # None => recvEchos'[k][k] = recvEchos[k][k]
        /\ recvReadys[k][k] # None => recvReadys'[k][k] = recvReadys[k][k]

LEMMA BackedKept ==
    ASSUME NEW r, EchoBacked(r), OwnKept
    PROVE  EchoBacked(r)'
  BY DEF EchoBacked, OwnEcho, OwnKept

(***************************************************************************)
(* The parts of the invariant a handler's tail can disturb, once its maps  *)
(* are known to agree with what correct peers broadcast: Proceed with      *)
(* either an echo quorum or a relayed Ready.                               *)
(***************************************************************************)
LEMMA ProceedStep ==
    ASSUME IInv,
           NEW n \in Correct, NEW root \in Root, NEW emit \in BOOLEAN,
           NEW echos \in [Node -> Proof \union {None}],
           NEW readys \in [Node -> Root \union {None}],
           Proceed(n, echos, readys, root, emit),
           recvEchos[n][n] # None => echos[n] = recvEchos[n][n],
           readys[n] = recvReadys[n][n],
           emit => readys[n] = None,
           \A m \in Correct \ {n} :
               /\ echos[m] # None => recvEchos[m][m] = echos[m]
               /\ readys[m] # None => recvReadys[m][m] = readys[m],
           emit => \/ countEchos(echos, root) >= N - F
                   \/ countReadys(readys, root) = F + 1
    PROVE  /\ recvEchos' \in [Correct -> [Node -> Proof \union {None}]]
           /\ recvReadys' \in [Correct -> [Node -> Root \union {None}]]
           /\ readySent' \in [Correct -> BOOLEAN]
           /\ output' \in [Correct -> Root \union {None}]
           /\ \A k \in Correct : readySent'[k] <=> recvReadys'[k][k] # None
           /\ emit => recvReadys'[n][n] = root
           /\ OwnKept
           /\ PeerOrigin'
           /\ ReadyBacked'
           /\ OutputBacked'
<1> DEFINE own == IF emit THEN [readys EXCEPT ![n] = root] ELSE readys
<1>n. n \in Node /\ Correct \subseteq Node
  BY DEF Correct
<1>t. TypeOK /\ LocalOnce /\ PeerOrigin /\ ReadyBacked /\ OutputBacked
  BY DEF IInv
<1>o. own \in [Node -> Root \union {None}]
  BY <1>n
<1>1. /\ recvEchos' = [recvEchos EXCEPT ![n] = echos]
      /\ recvReadys' = [recvReadys EXCEPT ![n] = own]
      /\ readySent' = [readySent EXCEPT ![n] = @ \/ emit]
      /\ output' = [output EXCEPT ![n] = tryDecodeValue(@, echos, own, root)]
  BY DEF Proceed
<1>2. /\ recvEchos' \in [Correct -> [Node -> Proof \union {None}]]
      /\ recvReadys' \in [Correct -> [Node -> Root \union {None}]]
      /\ readySent' \in [Correct -> BOOLEAN]
  BY <1>t, <1>o, <1>1 DEF TypeOK
<1>3. output' \in [Correct -> Root \union {None}]
  BY <1>t, <1>1 DEF TypeOK, tryDecodeValue
<1>4. emit => recvReadys'[n][n] = root
  BY <1>t, <1>n, <1>1 DEF TypeOK
<1>5. \A k \in Correct : readySent'[k] <=> recvReadys'[k][k] # None
  BY <1>t, <1>n, <1>1, RootAssumption DEF TypeOK, LocalOnce
<1>6. OwnKept
  BY <1>t, <1>n, <1>1 DEF OwnKept, TypeOK
<1>7. PeerOrigin'
  <2> SUFFICES ASSUME NEW i \in Correct, NEW j \in Correct
               PROVE /\ recvEchos'[i][j] # None => recvEchos'[j][j] = recvEchos'[i][j]
                     /\ recvReadys'[i][j] # None => recvReadys'[j][j] = recvReadys'[i][j]
    BY DEF PeerOrigin
  <2>1. CASE i # n
    BY <1>t, <1>n, <1>1, <1>6, <2>1 DEF OwnKept, PeerOrigin, TypeOK
  <2>2. CASE i = n /\ j = n
    BY <2>2
  <2>3. CASE i = n /\ j # n
    BY <1>t, <1>n, <1>1, <1>o, <2>3 DEF TypeOK
  <2> QED
    BY <2>1, <2>2, <2>3
<1>8. ReadyBacked'
  <2> SUFFICES ASSUME NEW k \in Correct, recvReadys'[k][k] # None
               PROVE  EchoBacked(recvReadys[k][k])'
    BY DEF ReadyBacked
  <2>1. CASE recvReadys[k][k] # None
    BY <1>t, <1>6, <2>1, BackedKept DEF OwnKept, ReadyBacked
  <2>2. CASE recvReadys[k][k] = None
    <3>1. k = n /\ emit /\ recvReadys'[k][k] = root
      BY <1>t, <1>n, <1>1, <2>2 DEF TypeOK
    <3>2. CASE countEchos(echos, root) >= N - F
      <4> DEFINE Q == EchosFor(echos, root)
      <4>1. Q \in SUBSET Node /\ Cardinality(Q) >= N - F
        BY <3>2 DEF EchosFor, countEchos
      <4>2. \A m \in Q \cap Correct : OwnEcho(m, root)'
        BY <1>t, <1>n, <1>1, <1>7 DEF EchosFor, OwnEcho, PeerOrigin, TypeOK
      <4> QED
        BY <3>1, <4>1, <4>2 DEF EchoBacked
    <3>3. CASE countReadys(readys, root) = F + 1
      <4>1. PICK j \in ReadysFor(readys, root) : j \notin Faulty
        <5>1. ReadysFor(readys, root) \in SUBSET Node
          BY DEF ReadysFor
        <5>2. Cardinality(ReadysFor(readys, root)) > F
          BY <3>3, NType DEF countReadys
        <5> QED
          BY <5>1, <5>2, NodeAssumption, FaultAssumption, SomeCorrect
      <4>2. j \in Correct /\ readys[j] = root
        BY <4>1 DEF ReadysFor, Correct
      <4>3. j # n
        BY <3>1, <4>2, RootAssumption
      <4>4. recvReadys[j][j] = root /\ root # None
        BY <4>2, <4>3, RootAssumption
      <4> QED
        BY <1>t, <1>6, <3>1, <4>2, <4>4, BackedKept DEF ReadyBacked
    <3> QED
      BY <3>1, <3>2, <3>3
  <2> QED
    BY <2>1, <2>2
<1>9. OutputBacked'
  <2> SUFFICES ASSUME NEW k \in Correct, output'[k] # None
               PROVE  \E m \in Correct : recvReadys'[m][m] = output'[k]
    BY DEF OutputBacked
  <2>1. CASE output'[k] = output[k]
    <3>1. PICK m \in Correct : recvReadys[m][m] = output[k]
      BY <1>t, <2>1 DEF OutputBacked
    <3> QED
      BY <1>6, <2>1, <3>1 DEF OwnKept
  <2>2. CASE output'[k] # output[k]
    <3>1. k = n /\ output'[k] = root /\ CanDecode(echos, own, root)
      BY <1>t, <1>1, <2>2 DEF TypeOK, tryDecodeValue
    <3>2. ReadysFor(own, root) \in SUBSET Node
      BY DEF ReadysFor
    <3>3. Cardinality(ReadysFor(own, root)) \in Nat
      BY <3>2, NodeAssumption, FS_Subset, FS_CardinalityType
    <3>4. Cardinality(ReadysFor(own, root)) > F
      BY <3>1, <3>3, NType DEF CanDecode, countReadys
    <3>5. PICK j \in ReadysFor(own, root) : j \notin Faulty
      BY <3>2, <3>4, NodeAssumption, FaultAssumption, SomeCorrect
    <3>6. j \in Correct /\ own[j] = root
      BY <3>5 DEF ReadysFor, Correct
    <3>7. recvReadys'[n][j] = root
      BY <1>t, <1>1, <3>6 DEF TypeOK
    <3> QED
      BY <1>7, <3>1, <3>6, <3>7, RootAssumption DEF PeerOrigin
  <2> QED
    BY <2>1, <2>2
<1> QED
  BY <1>2, <1>3, <1>4, <1>5, <1>6, <1>7, <1>8, <1>9

-----------------------------------------------------------------------------
\* An echo of its own: the tail of handleProofRequest and of inputValue.
LEMMA OwnEchoStep ==
    ASSUME IInv,
           NEW n \in Correct, NEW p \in Proof, NEW others \in SUBSET Message,
           ~echoSent[n],
           Proposer \in Correct => p.root = InputRoot,
           \A msg \in others : /\ msg.kind = "proof"
                               /\ msg.from = n /\ n = Proposer
                               /\ msg.proof.root = InputRoot,
           Echo(n, p, others)
    PROVE  IInv'
<1> DEFINE echos == [recvEchos[n] EXCEPT ![n] = p]
           emit == EchoQuorum(n, echos, p.root)
<1>n. n \in Node /\ Correct \subseteq Node /\ p.root \in Root
  BY DEF Correct, Proof
<1>t. TypeOK /\ LocalOnce /\ NetOrigin /\ PeerOrigin /\ EchoOrigin
  BY DEF IInv
<1>1. /\ Proceed(n, echos, recvReadys[n], p.root, emit)
      /\ echoSent' = [echoSent EXCEPT ![n] = TRUE]
      /\ net' = net \union others
                  \union {[kind |-> "echo", from |-> n, proof |-> p]}
                  \union ReadyMessages(n, p.root, emit)
  BY DEF Echo, AdmitEcho, EchoReadyMessages
<1>2. /\ emit \in BOOLEAN
      /\ echos \in [Node -> Proof \union {None}]
      /\ recvReadys[n] \in [Node -> Root \union {None}]
      /\ recvEchos[n][n] = None
      /\ emit => recvReadys[n][n] = None
      /\ emit => countEchos(echos, p.root) >= N - F
  BY <1>t, <1>n DEF EchoQuorum, TypeOK, LocalOnce
<1>3. \A m \in Correct \ {n} :
          /\ echos[m] # None => recvEchos[m][m] = echos[m]
          /\ recvReadys[n][m] # None => recvReadys[m][m] = recvReadys[n][m]
  BY <1>t, <1>n DEF PeerOrigin, TypeOK
<1> HIDE DEF echos, emit
<1>4. /\ recvEchos' \in [Correct -> [Node -> Proof \union {None}]]
      /\ recvReadys' \in [Correct -> [Node -> Root \union {None}]]
      /\ readySent' \in [Correct -> BOOLEAN]
      /\ output' \in [Correct -> Root \union {None}]
      /\ \A k \in Correct : readySent'[k] <=> recvReadys'[k][k] # None
      /\ emit => recvReadys'[n][n] = p.root
      /\ OwnKept /\ PeerOrigin' /\ ReadyBacked' /\ OutputBacked'
  BY <1>n, <1>1, <1>2, <1>3, ProceedStep
<1>5. /\ recvEchos'[n][n] = p
      /\ \A k \in Correct \ {n} : recvEchos'[k] = recvEchos[k]
  BY <1>t, <1>n, <1>1 DEF Proceed, TypeOK, echos
<1>6. net' \subseteq Message
  BY <1>t, <1>n, <1>1 DEF TypeOK, Message, ReadyMessages
<1>7. TypeOK'
  BY <1>t, <1>1, <1>4, <1>6 DEF TypeOK
<1>8. LocalOnce'
  BY <1>t, <1>1, <1>4, <1>5, RootAssumption DEF LocalOnce, TypeOK
<1>9. NetOrigin'
  <2> SUFFICES ASSUME NEW msg \in net'
               PROVE  /\ msg.from \in Correct
                      /\ msg.kind = "proof" =>
                            msg.from = Proposer /\ msg.proof.root = InputRoot
                      /\ msg.kind = "echo" =>
                            recvEchos'[msg.from][msg.from] = msg.proof
                      /\ msg.kind = "ready" =>
                            recvReadys'[msg.from][msg.from] = msg.root
    BY DEF NetOrigin
  <2>1. CASE msg \in net
    <3>1. /\ msg.kind = "echo" => msg.proof # None
          /\ msg.kind = "ready" => msg.root # None
      BY <1>t, <2>1, RootAssumption DEF TypeOK, Message
    <3> QED
      BY <1>t, <1>4, <2>1, <3>1 DEF NetOrigin, OwnKept
  <2>2. CASE msg \in others
    BY <2>2
  <2>3. CASE msg = [kind |-> "echo", from |-> n, proof |-> p]
    BY <1>5, <2>3
  <2>4. CASE msg \in ReadyMessages(n, p.root, emit)
    BY <1>4, <2>4 DEF ReadyMessages
  <2> QED
    BY <1>1, <2>1, <2>2, <2>3, <2>4
<1>10. EchoOrigin'
  BY <1>t, <1>5 DEF EchoOrigin, OwnEcho
<1> QED
  BY <1>4, <1>7, <1>8, <1>9, <1>10 DEF IInv

\* The rest of the invariant after a peer's message: only a Ready was sent.
LEMMA PeerTail ==
    ASSUME IInv,
           NEW n \in Correct, NEW root \in Root, NEW emit \in BOOLEAN,
           echoSent' = echoSent,
           net' = net \union ReadyMessages(n, root, emit),
           recvEchos' \in [Correct -> [Node -> Proof \union {None}]],
           recvReadys' \in [Correct -> [Node -> Root \union {None}]],
           readySent' \in [Correct -> BOOLEAN],
           output' \in [Correct -> Root \union {None}],
           \A k \in Correct : readySent'[k] <=> recvReadys'[k][k] # None,
           \A k \in Correct : recvEchos'[k][k] = recvEchos[k][k],
           emit => recvReadys'[n][n] = root,
           OwnKept, PeerOrigin', ReadyBacked', OutputBacked'
    PROVE  IInv'
<1>n. Correct \subseteq Node
  BY DEF Correct
<1>t. TypeOK /\ LocalOnce /\ NetOrigin /\ EchoOrigin
  BY DEF IInv
<1>1. TypeOK'
  BY <1>t, <1>n DEF TypeOK, Message, ReadyMessages
<1>2. LocalOnce'
  BY <1>t DEF LocalOnce
<1>3. NetOrigin'
  <2> SUFFICES ASSUME NEW msg \in net'
               PROVE  /\ msg.from \in Correct
                      /\ msg.kind = "proof" =>
                            msg.from = Proposer /\ msg.proof.root = InputRoot
                      /\ msg.kind = "echo" =>
                            recvEchos'[msg.from][msg.from] = msg.proof
                      /\ msg.kind = "ready" =>
                            recvReadys'[msg.from][msg.from] = msg.root
    BY DEF NetOrigin
  <2>1. CASE msg \in net
    <3>1. msg.kind = "ready" => msg.root # None
      BY <1>t, <2>1, RootAssumption DEF TypeOK, Message
    <3> QED
      BY <1>t, <2>1, <3>1 DEF NetOrigin, OwnKept
  <2>2. CASE msg \in ReadyMessages(n, root, emit)
    BY <2>2 DEF ReadyMessages
  <2> QED
    BY <2>1, <2>2
<1>4. EchoOrigin'
  BY <1>t DEF EchoOrigin, OwnEcho
<1> QED
  BY <1>1, <1>2, <1>3, <1>4 DEF IInv

\* An echo of a peer.
LEMMA PeerEchoStep ==
    ASSUME IInv,
           NEW n \in Correct, NEW m \in Node \ {n}, NEW p \in Proof,
           m \in Correct => recvEchos[m][m] = p,
           handleEchoRequest(n, m, p)
    PROVE  IInv'
<1> DEFINE echos == [recvEchos[n] EXCEPT ![m] = p]
           emit == EchoQuorum(n, echos, p.root)
<1>n. n \in Node /\ Correct \subseteq Node /\ p.root \in Root
  BY DEF Correct, Proof
<1>t. TypeOK /\ LocalOnce /\ NetOrigin /\ PeerOrigin /\ EchoOrigin
  BY DEF IInv
<1>1. /\ Proceed(n, echos, recvReadys[n], p.root, emit)
      /\ echoSent' = echoSent
      /\ net' = net \union ReadyMessages(n, p.root, emit)
  BY DEF handleEchoRequest, AdmitEcho, EchoReadyMessages
<1>2. /\ emit \in BOOLEAN
      /\ echos \in [Node -> Proof \union {None}]
      /\ recvReadys[n] \in [Node -> Root \union {None}]
      /\ echos[n] = recvEchos[n][n]
      /\ emit => recvReadys[n][n] = None
      /\ emit => countEchos(echos, p.root) >= N - F
  BY <1>t, <1>n DEF EchoQuorum, TypeOK, LocalOnce
<1>3. \A k \in Correct \ {n} :
          /\ echos[k] # None => recvEchos[k][k] = echos[k]
          /\ recvReadys[n][k] # None => recvReadys[k][k] = recvReadys[n][k]
  BY <1>t, <1>n DEF PeerOrigin, TypeOK
<1> HIDE DEF echos, emit
<1>4. /\ recvEchos' \in [Correct -> [Node -> Proof \union {None}]]
      /\ recvReadys' \in [Correct -> [Node -> Root \union {None}]]
      /\ readySent' \in [Correct -> BOOLEAN]
      /\ output' \in [Correct -> Root \union {None}]
      /\ \A k \in Correct : readySent'[k] <=> recvReadys'[k][k] # None
      /\ emit => recvReadys'[n][n] = p.root
      /\ OwnKept /\ PeerOrigin' /\ ReadyBacked' /\ OutputBacked'
  BY <1>n, <1>1, <1>2, <1>3, ProceedStep
<1>5. \A k \in Correct : recvEchos'[k][k] = recvEchos[k][k]
  BY <1>t, <1>n, <1>1, <1>2 DEF Proceed, TypeOK
<1> QED
  BY <1>n, <1>1, <1>2, <1>4, <1>5, PeerTail

\* A Ready of a peer.
LEMMA PeerReadyStep ==
    ASSUME IInv,
           NEW n \in Correct, NEW m \in Node \ {n}, NEW r \in Root,
           m \in Correct => recvReadys[m][m] = r,
           handleReadyRequest(n, m, r)
    PROVE  IInv'
<1> DEFINE readys == [recvReadys[n] EXCEPT ![m] = r]
           emit == ReadyRelay(n, readys, r)
<1>n. n \in Node /\ Correct \subseteq Node
  BY DEF Correct
<1>t. TypeOK /\ LocalOnce /\ NetOrigin /\ PeerOrigin /\ EchoOrigin
  BY DEF IInv
<1>1. /\ Proceed(n, recvEchos[n], readys, r, emit)
      /\ echoSent' = echoSent
      /\ net' = net \union ReadyMessages(n, r, emit)
  BY DEF handleReadyRequest
<1>2. /\ emit \in BOOLEAN
      /\ recvEchos[n] \in [Node -> Proof \union {None}]
      /\ readys \in [Node -> Root \union {None}]
      /\ readys[n] = recvReadys[n][n]
      /\ emit => recvReadys[n][n] = None
      /\ emit => countReadys(readys, r) = F + 1
  BY <1>t, <1>n DEF ReadyRelay, TypeOK, LocalOnce
<1>3. \A k \in Correct \ {n} :
          /\ recvEchos[n][k] # None => recvEchos[k][k] = recvEchos[n][k]
          /\ readys[k] # None => recvReadys[k][k] = readys[k]
  BY <1>t, <1>n DEF PeerOrigin, TypeOK
<1> HIDE DEF readys, emit
<1>4. /\ recvEchos' \in [Correct -> [Node -> Proof \union {None}]]
      /\ recvReadys' \in [Correct -> [Node -> Root \union {None}]]
      /\ readySent' \in [Correct -> BOOLEAN]
      /\ output' \in [Correct -> Root \union {None}]
      /\ \A k \in Correct : readySent'[k] <=> recvReadys'[k][k] # None
      /\ emit => recvReadys'[n][n] = r
      /\ OwnKept /\ PeerOrigin' /\ ReadyBacked' /\ OutputBacked'
  BY <1>n, <1>1, <1>2, <1>3, ProceedStep
<1>5. \A k \in Correct : recvEchos'[k][k] = recvEchos[k][k]
  BY <1>t, <1>n, <1>1 DEF Proceed, TypeOK
<1> QED
  BY <1>n, <1>1, <1>2, <1>4, <1>5, PeerTail

-----------------------------------------------------------------------------
\* The initial state, and a message from the network or a faulty node.
LEMMA InitInv == Init => IInv
<1> SUFFICES ASSUME Init PROVE IInv
  OBVIOUS
<1>1. /\ net = {}
      /\ \A n \in Correct :
            /\ ~echoSent[n] /\ ~readySent[n] /\ output[n] = None
            /\ \A m \in Node : recvEchos[n][m] = None /\ recvReadys[n][m] = None
  BY DEF Init
<1>2. TypeOK
  BY DEF Init, TypeOK
<1>3. Correct \subseteq Node
  BY DEF Correct
<1>4. LocalOnce /\ NetOrigin /\ PeerOrigin
  BY <1>1, <1>3 DEF LocalOnce, NetOrigin, PeerOrigin
<1>5. EchoOrigin /\ ReadyBacked /\ OutputBacked
  BY <1>1, <1>3 DEF EchoOrigin, ReadyBacked, OutputBacked
<1> QED
  BY <1>2, <1>4, <1>5 DEF IInv

LEMMA MessageStep ==
    ASSUME IInv, NEW n \in Correct, NEW msg \in InFlight, handleMessage(n, msg)
    PROVE  IInv'
<1>1. msg \in Message /\ msg.from \in Node \ {n}
  BY FaultyMessageAssumption DEF IInv, TypeOK, InFlight, Message, handleMessage
<1>2. msg \in net \/ msg.from \notin Correct
  BY FaultyMessageAssumption DEF InFlight, Correct
<1>3. CASE msg.kind = "proof"
  <2>1. msg.proof \in Proof /\ handleProofRequest(n, msg.from, msg.proof)
    BY <1>1, <1>3 DEF Message, handleMessage
  <2>2. ~echoSent[n] /\ Echo(n, msg.proof, {})
    BY <2>1 DEF handleProofRequest
  <2>3. Proposer \in Correct => msg.proof.root = InputRoot
    BY <1>2, <1>3, <2>1 DEF handleProofRequest, IInv, NetOrigin
  <2> QED
    BY <2>1, <2>2, <2>3, OwnEchoStep
<1>4. CASE msg.kind = "echo"
  <2>1. msg.proof \in Proof /\ handleEchoRequest(n, msg.from, msg.proof)
    BY <1>1, <1>4 DEF Message, handleMessage
  <2>2. msg.from \in Correct => recvEchos[msg.from][msg.from] = msg.proof
    BY <1>2, <1>4 DEF IInv, NetOrigin
  <2> QED
    BY <1>1, <2>1, <2>2, PeerEchoStep
<1>5. CASE msg.kind = "ready"
  <2>1. msg.root \in Root /\ handleReadyRequest(n, msg.from, msg.root)
    BY <1>1, <1>5 DEF Message, handleMessage
  <2>2. msg.from \in Correct => recvReadys[msg.from][msg.from] = msg.root
    BY <1>2, <1>5 DEF IInv, NetOrigin
  <2> QED
    BY <1>1, <2>1, <2>2, PeerReadyStep
<1> QED
  BY <1>3, <1>4, <1>5 DEF handleMessage

LEMMA InputStep ==
    ASSUME IInv, NEW n \in Correct, InputValue(n)
    PROVE  IInv'
<1> DEFINE p == [root |-> InputRoot, index |-> n]
           others == {[kind |-> "proof", from |-> n, to |-> m,
                       proof |-> [root |-> InputRoot, index |-> m]] :
                          m \in Node \ {n}}
<1>1. n \in Node /\ p \in Proof /\ p.root = InputRoot
  BY RootAssumption DEF Correct, Proof
<1>2. others \in SUBSET Message
  BY <1>1, RootAssumption DEF Message, Proof
<1>3. n = Proposer /\ ~echoSent[n] /\ Echo(n, p, others)
  BY DEF InputValue
<1>4. \A msg \in others : /\ msg.kind = "proof"
                          /\ msg.from = n /\ n = Proposer
                          /\ msg.proof.root = InputRoot
  BY <1>3
<1> HIDE DEF p, others
<1> QED
  BY <1>1, <1>2, <1>3, <1>4, OwnEchoStep

LEMMA NextInv == IInv /\ [Next]_vars => IInv'
<1> SUFFICES ASSUME IInv, [Next]_vars PROVE IInv'
  OBVIOUS
<1>1. ASSUME NEW n \in Correct, InputValue(n) PROVE IInv'
  BY <1>1, InputStep
<1>2. ASSUME NEW n \in Correct, NEW msg \in InFlight, handleMessage(n, msg)
      PROVE IInv'
  BY <1>2, MessageStep
<1>3. CASE UNCHANGED vars
  BY <1>3 DEF vars, IInv, TypeOK, LocalOnce, NetOrigin, PeerOrigin, EchoOrigin,
              OwnEcho, ReadyBacked, EchoBacked, OutputBacked
<1> QED
  BY <1>1, <1>2, <1>3 DEF Next

-----------------------------------------------------------------------------
\* The inductive invariant holds in every reachable state.
THEOREM Invariance == Spec => []IInv
  BY InitInv, NextInv, PTL DEF Spec

\* The maps and flags of rbc.go keep their types at every correct node.
THEOREM TypeCorrectness == Spec => []TypeOK
<1>1. IInv => TypeOK
  BY DEF IInv
<1> QED
  BY <1>1, Invariance, PTL

(***************************************************************************)
(* No two correct nodes hand ACS different batches of one proposer: every  *)
(* output rests on a correct node's Ready, every Ready on N - F echoes     *)
(* (rbc.go:291), and two such sets share a correct node, which echoes once *)
(* (rbc.go:259).                                                           *)
(***************************************************************************)
THEOREM AgreementTheorem == Spec => []Agreement
  BY Invariance, InvAgreement, PTL

\* Correct nodes send Readys for one root only (rbc.go:291, 310).
THEOREM ReadyAgreementTheorem == Spec => []ReadyAgreement
  BY Invariance, InvReadyAgreement, PTL

\* Only the batch of a correct proposer comes out (rbc.go:252-271, 337-379).
THEOREM ValidityTheorem == Spec => []Validity
  BY Invariance, InvValidity, PTL

\* The errors for an echo or Ready of one's own cannot occur (rbc.go:281, 320).
THEOREM LocalOnceTheorem == Spec => []LocalOnce
<1>1. IInv => LocalOnce
  BY DEF IInv
<1> QED
  BY <1>1, Invariance, PTL

-----------------------------------------------------------------------------
\* The counters of a node are natural numbers.
LEMMA CountType ==
    ASSUME NEW echos, NEW readys, NEW r
    PROVE  /\ IsFiniteSet(EchosFor(echos, r)) /\ countEchos(echos, r) \in Nat
           /\ IsFiniteSet(ReadysFor(readys, r)) /\ countReadys(readys, r) \in Nat
<1>1. EchosFor(echos, r) \in SUBSET Node /\ ReadysFor(readys, r) \in SUBSET Node
  BY DEF EchosFor, ReadysFor
<1> QED
  BY <1>1, NodeAssumption, FS_Subset, FS_CardinalityType
     DEF countEchos, countReadys

(***************************************************************************)
(* A handler that touches one root, and sends a Ready whenever that root   *)
(* crosses a threshold, leaves nothing undone for any root.                *)
(***************************************************************************)
LEMMA ProceedMissed ==
    ASSUME IInv, NothingMissed,
           NEW n \in Correct, NEW root \in Root, NEW emit \in BOOLEAN,
           NEW echos \in [Node -> Proof \union {None}],
           NEW readys \in [Node -> Root \union {None}],
           Proceed(n, echos, readys, root, emit),
           readys[n] = recvReadys[n][n],
           emit => ~readySent[n],
           \A r \in Root \ {root} :
               /\ EchosFor(echos, r) = EchosFor(recvEchos[n], r)
               /\ Shards(echos, r) = Shards(recvEchos[n], r)
               /\ ReadysFor(readys, r) = ReadysFor(recvReadys[n], r),
           ~readySent[n] /\ ~emit =>
               countEchos(echos, root) < N - F /\ countReadys(readys, root) <= F
    PROVE  NothingMissed'
<1> DEFINE own == IF emit THEN [readys EXCEPT ![n] = root] ELSE readys
<1>n. n \in Node
  BY DEF Correct
<1>t. TypeOK /\ LocalOnce
  BY DEF IInv
<1>1. /\ recvEchos' = [recvEchos EXCEPT ![n] = echos]
      /\ recvReadys' = [recvReadys EXCEPT ![n] = own]
      /\ readySent' = [readySent EXCEPT ![n] = @ \/ emit]
      /\ output' = [output EXCEPT ![n] = tryDecodeValue(@, echos, own, root)]
  BY DEF Proceed
<1> SUFFICES ASSUME NEW k \in Correct, NEW r \in Root
             PROVE  /\ countEchos(recvEchos'[k], r) >= N - F => readySent'[k]
                    /\ countReadys(recvReadys'[k], r) > F => readySent'[k]
                    /\ CanDecode(recvEchos'[k], recvReadys'[k], r) => output'[k] # None
  BY DEF NothingMissed
<1>2. CASE k # n
  BY <1>t, <1>1, <1>2 DEF NothingMissed, TypeOK
<1>3. CASE k = n
  <2>1. /\ recvEchos'[k] = echos /\ recvReadys'[k] = own
        /\ readySent'[k] <=> readySent[n] \/ emit
        /\ output'[k] = tryDecodeValue(output[n], echos, own, root)
    BY <1>t, <1>1, <1>3 DEF TypeOK
  <2>2. output[n] # None => output'[k] # None
    BY <2>1 DEF tryDecodeValue
  <2>3. CASE r = root
    <3>1. CanDecode(echos, own, r) => output'[k] # None
      BY <2>1, <2>3, RootAssumption DEF tryDecodeValue
    <3>2. CASE readySent[n] \/ emit
      BY <2>1, <3>1, <3>2
    <3>3. CASE ~readySent[n] /\ ~emit
      BY <2>1, <2>3, <3>1, <3>3, NType, CountType
    <3> QED
      BY <3>2, <3>3
  <2>4. CASE r # root
    <3>1. ReadysFor(own, r) = ReadysFor(recvReadys[n], r)
      BY <1>t, <1>n, <2>4, RootAssumption DEF ReadysFor, LocalOnce
    <3>2. /\ countEchos(echos, r) = countEchos(recvEchos[n], r)
          /\ countReadys(own, r) = countReadys(recvReadys[n], r)
          /\ Shards(echos, r) = Shards(recvEchos[n], r)
      BY <2>4, <3>1 DEF countEchos, countReadys
    <3> QED
      BY <2>1, <2>2, <3>2 DEF NothingMissed, CanDecode
  <2> QED
    BY <2>3, <2>4
<1> QED
  BY <1>2, <1>3

LEMMA EchoMissed ==
    ASSUME IInv, NothingMissed,
           NEW n \in Correct, NEW m \in Node, NEW p \in Proof,
           recvEchos[n][m] = None, AdmitEcho(n, m, p)
    PROVE  NothingMissed'
<1> DEFINE echos == [recvEchos[n] EXCEPT ![m] = p]
           emit == EchoQuorum(n, echos, p.root)
<1>t. TypeOK
  BY DEF IInv
<1>1. Proceed(n, echos, recvReadys[n], p.root, emit)
  BY DEF AdmitEcho
<1>2. /\ p.root \in Root /\ emit \in BOOLEAN
      /\ echos \in [Node -> Proof \union {None}]
      /\ recvReadys[n] \in [Node -> Root \union {None}]
  BY <1>t DEF EchoQuorum, TypeOK, Proof
<1>3. \A r \in Root \ {p.root} :
          EchosFor(echos, r) = EchosFor(recvEchos[n], r)
  BY <1>t DEF EchosFor, TypeOK
<1>4. \A r \in Root \ {p.root} :
          Shards(echos, r) = Shards(recvEchos[n], r)
  <2> SUFFICES ASSUME NEW r \in Root \ {p.root}
               PROVE  Shards(echos, r) = Shards(recvEchos[n], r)
    OBVIOUS
  <2>1. EchosFor(echos, r) = EchosFor(recvEchos[n], r)
    BY <1>3
  <2>2. \A k \in EchosFor(recvEchos[n], r) : echos[k] = recvEchos[n][k]
    BY <1>t DEF EchosFor, TypeOK
  <2> QED
    BY <2>1, <2>2 DEF Shards
<1>5. ~readySent[n] /\ ~emit =>
          /\ countEchos(echos, p.root) < N - F
          /\ countReadys(recvReadys[n], p.root) <= F
  <2>1. /\ countEchos(echos, p.root) \in Nat
        /\ countReadys(recvReadys[n], p.root) \in Nat
    BY CountType
  <2> QED
    BY <1>2, <2>1, NType DEF NothingMissed, EchoQuorum
<1>6. emit => ~readySent[n]
  BY DEF EchoQuorum
<1> HIDE DEF echos, emit
<1> QED
  BY <1>1, <1>2, <1>3, <1>4, <1>5, <1>6, ProceedMissed

LEMMA ReadyMissed ==
    ASSUME IInv, NothingMissed,
           NEW n \in Correct, NEW m \in Node \ {n}, NEW r \in Root,
           handleReadyRequest(n, m, r)
    PROVE  NothingMissed'
<1> DEFINE readys == [recvReadys[n] EXCEPT ![m] = r]
           emit == ReadyRelay(n, readys, r)
<1>n. n \in Node
  BY DEF Correct
<1>t. TypeOK
  BY DEF IInv
<1>1. Proceed(n, recvEchos[n], readys, r, emit) /\ recvReadys[n][m] = None
  BY DEF handleReadyRequest
<1>2. /\ emit \in BOOLEAN
      /\ recvEchos[n] \in [Node -> Proof \union {None}]
      /\ readys \in [Node -> Root \union {None}]
      /\ readys[n] = recvReadys[n][n]
  BY <1>t, <1>n DEF ReadyRelay, TypeOK
<1>3. \A s \in Root \ {r} :
          ReadysFor(readys, s) = ReadysFor(recvReadys[n], s)
  BY <1>t, <1>1, RootAssumption DEF ReadysFor, TypeOK
<1>4. ~readySent[n] /\ ~emit =>
          /\ countEchos(recvEchos[n], r) < N - F
          /\ countReadys(readys, r) <= F
  <2> SUFFICES ASSUME ~readySent[n], ~emit
               PROVE  /\ countEchos(recvEchos[n], r) < N - F
                      /\ countReadys(readys, r) <= F
    OBVIOUS
  <2>1. /\ countEchos(recvEchos[n], r) \in Nat
        /\ IsFiniteSet(ReadysFor(recvReadys[n], r))
        /\ countReadys(recvReadys[n], r) \in Nat
        /\ countReadys(readys, r) \in Nat
    BY CountType
  <2>2. ReadysFor(readys, r) = ReadysFor(recvReadys[n], r) \cup {m}
    BY <1>t DEF ReadysFor, TypeOK
  <2>3. countReadys(readys, r) <= countReadys(recvReadys[n], r) + 1
    BY <2>1, <2>2, FS_AddElement DEF countReadys
  <2>4. countReadys(readys, r) # F + 1
    BY DEF ReadyRelay
  <2> QED
    BY <2>1, <2>3, <2>4, NType DEF NothingMissed
<1>5. emit => ~readySent[n]
  BY DEF ReadyRelay
<1> HIDE DEF readys, emit
<1> QED
  BY <1>1, <1>2, <1>3, <1>4, <1>5, ProceedMissed

LEMMA NextMissed == IInv /\ NothingMissed /\ [Next]_vars => NothingMissed'
<1> SUFFICES ASSUME IInv, NothingMissed, [Next]_vars PROVE NothingMissed'
  OBVIOUS
<1>c. Correct \subseteq Node
  BY DEF Correct
<1>1. ASSUME NEW n \in Correct, InputValue(n) PROVE NothingMissed'
  <2>1. [root |-> InputRoot, index |-> n] \in Proof
    BY <1>c, RootAssumption DEF Proof
  <2>2. /\ AdmitEcho(n, n, [root |-> InputRoot, index |-> n])
        /\ recvEchos[n][n] = None
    BY <1>1 DEF InputValue, Echo, IInv, LocalOnce
  <2> QED
    BY <1>c, <2>1, <2>2, EchoMissed
<1>2. ASSUME NEW n \in Correct, NEW msg \in InFlight, handleMessage(n, msg)
      PROVE NothingMissed'
  <2>1. msg \in Message /\ msg.from \in Node \ {n}
    BY <1>2, FaultyMessageAssumption
       DEF IInv, TypeOK, InFlight, Message, handleMessage
  <2>2. CASE msg.kind = "proof"
    <3>1. msg.proof \in Proof /\ handleProofRequest(n, msg.from, msg.proof)
      BY <1>2, <2>1, <2>2 DEF Message, handleMessage
    <3>2. AdmitEcho(n, n, msg.proof) /\ recvEchos[n][n] = None
      BY <3>1 DEF handleProofRequest, Echo, IInv, LocalOnce
    <3> QED
      BY <1>c, <3>1, <3>2, EchoMissed
  <2>3. CASE msg.kind = "echo"
    <3>1. msg.proof \in Proof /\ handleEchoRequest(n, msg.from, msg.proof)
      BY <1>2, <2>1, <2>3 DEF Message, handleMessage
    <3>2. AdmitEcho(n, msg.from, msg.proof) /\ recvEchos[n][msg.from] = None
      BY <3>1 DEF handleEchoRequest
    <3> QED
      BY <2>1, <3>1, <3>2, EchoMissed
  <2>4. CASE msg.kind = "ready"
    <3>1. msg.root \in Root /\ handleReadyRequest(n, msg.from, msg.root)
      BY <1>2, <2>1, <2>4 DEF Message, handleMessage
    <3> QED
      BY <2>1, <3>1, ReadyMissed
  <2> QED
    BY <1>2, <2>2, <2>3, <2>4 DEF handleMessage
<1>3. CASE UNCHANGED vars
  BY <1>3 DEF vars, NothingMissed
<1> QED
  BY <1>1, <1>2, <1>3 DEF Next

LEMMA InitMissed == Init => NothingMissed
<1> SUFFICES ASSUME Init, NEW n \in Correct, NEW r \in Root
             PROVE  /\ ~(countEchos(recvEchos[n], r) >= N - F)
                    /\ ~(countReadys(recvReadys[n], r) > F)
                    /\ ~CanDecode(recvEchos[n], recvReadys[n], r)
  BY DEF NothingMissed
<1>1. EchosFor(recvEchos[n], r) = {} /\ ReadysFor(recvReadys[n], r) = {}
  BY RootAssumption DEF Init, EchosFor, ReadysFor
<1>2. countEchos(recvEchos[n], r) = 0 /\ countReadys(recvReadys[n], r) = 0
  BY <1>1, FS_EmptySet DEF countEchos, countReadys
<1> QED
  BY <1>2, NType DEF CanDecode

(***************************************************************************)
(* No threshold is stepped over: a node that holds N - F echoes or more    *)
(* than F Readys of a root has sent its Ready, and one that can decode a   *)
(* root has an output (rbc.go:291, 310, 337-346).                          *)
(***************************************************************************)
THEOREM NothingMissedTheorem == Spec => []NothingMissed
  BY Invariance, InitMissed, NextMissed, PTL DEF Spec

-----------------------------------------------------------------------------
\* Before a correct proposer's input there is no proof and nothing to echo.
InputFirst ==
    Proposer \in Correct /\ ~echoSent[Proposer] =>
        /\ \A msg \in net : msg.kind # "proof"
        /\ \A n \in Correct : ~echoSent[n]

\* A batch came out somewhere only if a correct proposer has put it in.
InputSeen ==
    Proposer \in Correct =>
        \A n \in Correct : output[n] # None => output[n] = InputRoot /\ echoSent[Proposer]

LEMMA InvInputSeen == IInv /\ InputFirst => InputSeen
<1> SUFFICES ASSUME IInv, InputFirst, Proposer \in Correct,
                    NEW n \in Correct, output[n] # None
             PROVE  output[n] = InputRoot /\ echoSent[Proposer]
  BY DEF InputSeen
<1>1. PICK i \in Correct : recvReadys[i][i] = output[n]
  BY DEF IInv, OutputBacked
<1>2. PICK j \in Correct : OwnEcho(j, output[n])
  BY <1>1, BackedByCorrect DEF IInv, ReadyBacked
<1>3. echoSent[j]
  BY <1>2 DEF OwnEcho, IInv, LocalOnce
<1> QED
  BY <1>2, <1>3 DEF IInv, EchoOrigin, OwnEcho, InputFirst

\* A batch comes out at n, or n's output is what it was.
OutputAt(n) ==
    \/ output' = output
    \/ /\ output[n] = None
       /\ \E r \in Root : output' = [output EXCEPT ![n] = r]

LEMMA OutputStep ==
    ASSUME TypeOK, NEW n \in Correct, NEW echos, NEW readys,
           NEW root \in Root, NEW emit, Proceed(n, echos, readys, root, emit)
    PROVE  OutputAt(n)
<1>1. \E b \in {root, output[n]} :
         /\ output' = [output EXCEPT ![n] = b]
         /\ b = output[n] \/ output[n] = None
  BY DEF Proceed, tryDecodeValue
<1> QED
  BY <1>1 DEF TypeOK, OutputAt

\* What a step does to the state the promise speaks of.
LEMMA ServiceStep ==
    ASSUME IInv, InputFirst, Next
    PROVE  /\ InputFirst'
           /\ \A k \in Correct : echoSent[k] => echoSent'[k]
           /\ \E n \in Correct : OutputAt(n)
<1>t. TypeOK
  BY DEF IInv
<1>1. ASSUME NEW n \in Correct, InputValue(n)
      PROVE  /\ InputFirst'
             /\ \A k \in Correct : echoSent[k] => echoSent'[k]
             /\ OutputAt(n)
  <2> DEFINE p == [root |-> InputRoot, index |-> n]
             others == {[kind |-> "proof", from |-> n, to |-> m,
                         proof |-> [root |-> InputRoot, index |-> m]] :
                            m \in Node \ {n}}
  <2>1. n = Proposer /\ Echo(n, p, others) /\ p.root = InputRoot /\ InputRoot \in Root
    BY <1>1, RootAssumption DEF InputValue
  <2> HIDE DEF p, others
  <2>2. /\ echoSent' = [echoSent EXCEPT ![n] = TRUE]
        /\ AdmitEcho(n, n, p)
    BY <2>1 DEF Echo
  <2>3. OutputAt(n)
    BY <2>1, <2>2, <1>t, OutputStep DEF AdmitEcho
  <2> QED
    BY <2>1, <2>2, <2>3, <1>t DEF TypeOK, InputFirst
<1>2. ASSUME NEW n \in Correct, NEW msg \in InFlight, handleMessage(n, msg)
      PROVE  /\ InputFirst'
             /\ \A k \in Correct : echoSent[k] => echoSent'[k]
             /\ OutputAt(n)
  <2>1. msg \in Message
    BY <1>t, FaultyMessageAssumption DEF TypeOK, InFlight
  <2>2. msg \in net \/ msg.from \notin Correct
    BY FaultyMessageAssumption DEF InFlight, Correct
  <2>3. CASE msg.kind = "proof"
    <3>1. /\ msg.proof.root \in Root
          /\ handleProofRequest(n, msg.from, msg.proof)
      BY <1>2, <2>1, <2>3 DEF Message, Proof, handleMessage
    <3>2. /\ msg.from = Proposer
          /\ echoSent' = [echoSent EXCEPT ![n] = TRUE]
          /\ AdmitEcho(n, n, msg.proof)
      BY <3>1 DEF handleProofRequest, Echo
    <3>3. OutputAt(n)
      BY <3>1, <3>2, <1>t, OutputStep DEF AdmitEcho
    <3>4. Proposer \in Correct => echoSent[Proposer]
      BY <3>2, <2>2, <2>3 DEF InputFirst
    <3>5. \A k \in Correct : echoSent[k] => echoSent'[k]
      BY <3>2, <1>t DEF TypeOK
    <3> QED
      BY <3>3, <3>4, <3>5 DEF InputFirst
  <2>4. CASE msg.kind = "echo"
    <3>1. /\ msg.proof.root \in Root
          /\ handleEchoRequest(n, msg.from, msg.proof)
      BY <1>2, <2>1, <2>4 DEF Message, Proof, handleMessage
    <3>2. /\ AdmitEcho(n, msg.from, msg.proof)
          /\ net' = net \union EchoReadyMessages(n, msg.from, msg.proof)
          /\ echoSent' = echoSent
      BY <3>1 DEF handleEchoRequest
    <3>3. OutputAt(n)
      BY <3>1, <3>2, <1>t, OutputStep DEF AdmitEcho
    <3>4. \A x \in EchoReadyMessages(n, msg.from, msg.proof) : x.kind # "proof"
      BY DEF EchoReadyMessages, ReadyMessages
    <3> QED
      BY <3>2, <3>3, <3>4 DEF InputFirst
  <2>5. CASE msg.kind = "ready"
    <3> DEFINE readys == [recvReadys[n] EXCEPT ![msg.from] = msg.root]
               emit == ReadyRelay(n, readys, msg.root)
    <3>1. /\ msg.root \in Root
          /\ handleReadyRequest(n, msg.from, msg.root)
      BY <1>2, <2>1, <2>5 DEF Message, Proof, handleMessage
    <3>2. /\ Proceed(n, recvEchos[n], readys, msg.root, emit)
          /\ net' = net \union ReadyMessages(n, msg.root, emit)
          /\ echoSent' = echoSent
      BY <3>1 DEF handleReadyRequest
    <3> HIDE DEF readys, emit
    <3>3. OutputAt(n)
      BY <3>1, <3>2, <1>t, OutputStep
    <3>4. \A x \in ReadyMessages(n, msg.root, emit) : x.kind # "proof"
      BY DEF ReadyMessages
    <3> QED
      BY <3>2, <3>3, <3>4 DEF InputFirst
  <2> QED
    BY <1>2, <2>3, <2>4, <2>5 DEF handleMessage
<1> QED
  BY <1>1, <1>2 DEF Next

(***************************************************************************)
(* One broadcast implements the service ACS uses: one batch for all, once  *)
(* at each node, and of a correct proposer only what it has put in         *)
(* (rbc.go:252-271, 337-379).                                              *)
(***************************************************************************)
THEOREM Refinement == Spec => KeepsPromise
<1>1. Init => Promise!Init /\ InputFirst
  BY RootAssumption DEF Init, Promise!Init, Offered, InputFirst
<1>2. IInv /\ InputFirst /\ [Next]_vars => InputFirst'
  BY ServiceStep DEF vars, InputFirst
<1>3. ASSUME IInv, IInv', InputFirst, InputSeen', Agreement', [Next]_vars
      PROVE  [Promise!Next]_Promise!vars
  <2>1. CASE UNCHANGED vars
    BY <1>3, <2>1 DEF vars, Offered, Promise!vars
  <2>2. CASE Next
    <3>1. /\ \A k \in Correct : echoSent[k] => echoSent'[k]
          /\ \E n \in Correct : OutputAt(n)
      BY <1>3, <2>2, ServiceStep
    <3>2. Promise!Offer
      BY <3>1, RootAssumption, NodeAssumption DEF Promise!Offer, Offered, Correct
    <3>3. PICK n \in Correct : OutputAt(n)
      BY <3>1
    <3>4. CASE output' = output
      BY <3>2, <3>4 DEF Promise!Next
    <3>5. ASSUME NEW r \in Root, output[n] = None,
                 output' = [output EXCEPT ![n] = r]
          PROVE  Promise!Next
      <4>1. /\ output \in [Correct -> Root \union {None}]
            /\ output'[n] = r /\ r # None
        BY <1>3, <3>5, RootAssumption DEF IInv, TypeOK
      <4>2. r \in Offered'
        BY <4>1, <1>3, NodeAssumption DEF InputSeen, Offered, Correct
      <4>3. \A m \in Correct : output[m] \in {None, r}
        <5> SUFFICES ASSUME NEW m \in Correct, output[m] # None PROVE output[m] = r
          OBVIOUS
        <5>1. output'[m] = output[m]
          BY <3>5, <4>1
        <5> QED
          BY <5>1, <4>1, <1>3 DEF Agreement
      <4>4. Promise!ComesOut(n, r)
        BY <3>5, <4>2, <4>3 DEF Promise!ComesOut, Promise!MayComeOut
      <4> QED
        BY <3>2, <4>4 DEF Promise!Next
    <3> QED
      BY <3>3, <3>4, <3>5 DEF OutputAt
  <2> QED
    BY <1>3, <2>1, <2>2
<1>4. IInv /\ IInv' /\ InputFirst /\ InputSeen' /\ Agreement' /\ [Next]_vars =>
        [Promise!Next]_Promise!vars
  BY <1>3
<1> QED
  BY Invariance, InvInputSeen, InvAgreement, <1>1, <1>2, <1>4, PTL
     DEF Spec, KeepsPromise, Promise!Spec
=============================================================================
