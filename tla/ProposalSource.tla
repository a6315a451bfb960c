---------------------------- MODULE ProposalSource ----------------------------
(***************************************************************************)
(* How a node gets the inclusion list it proposes: from the sidecar's view *)
(* of the mempool (MempoolView) or from an immutable encrypted corpus that *)
(* a tool has generated, through the sidecar's /inclusion-list handler     *)
(* (mempool-il/internal/api, internal/inclusion) and the checks of the     *)
(* node's provider (bloc-node/internal/app/provider.go).                   *)
(*                                                                         *)
(* A hash is modelled by what is hashed.  The identity of a set of corpus  *)
(* candidates covers their placeholder transactions, indexes and order,    *)
(* and not the gas noted beside a transaction in the file.                 *)
(***************************************************************************)
EXTENDS MempoolView

CONSTANTS
    MaxTransactions,  \* the service's -max-items
    MaxGas,           \* the service's -max-gas
    Target,           \* the plaintext corpus, as its placeholder transactions
    PrefixSize,       \* sizes whose prefixes a manifest names
    OtherFile,        \* other manifests that may lie at the corpus path
    MaxProposalItems, \* cfg.Limits.MaxProposalBytes, in items
    Limit             \* proposal limits asked for by /slot/prepare

ASSUME BuilderAssumption ==
    MaxTransactions \in Nat \ {0} /\ MaxGas \in Nat

\* A candidate of an encrypted corpus.
Candidate == [tx : Hash, index : Nat, gas : Nat]

ASSUME CorpusAssumption ==
    /\ Target \in Seq(Hash)
    /\ \A m \in OtherFile : m.candidates \in Seq(Candidate)
    /\ Limit \subseteq Nat

VARIABLES
    file,     \* the manifest at the corpus path, None: no file
    serving,  \* the manifest that the service has loaded
    proposal  \* what buildInclusionList returned for the slot, and for whom

sourceVars == <<file, serving, proposal>>

-----------------------------------------------------------------------------
(* The encrypted corpus.                                                   *)

encryptedCandidateSetID(cands) ==
    [i \in DOMAIN cands |-> <<cands[i].tx, cands[i].index>>]

Prefix(s, n) == SubSeq(s, 1, n)

PrefixIDs(cands, sizes) ==
    [n \in {k \in sizes : k <= Len(cands)} |-> encryptedCandidateSetID(Prefix(cands, n))]

\* The target at position i, counted from 0, is encrypted at index i % BMax.
buildMockPlaceholder(i) ==
    [tx |-> Target[i + 1], index |-> i % BMax, gas |-> Gas(Target[i + 1])]

\* The manifest made of the first limit targets.
GenerateEncryptedCorpus(limit) ==
    LET cands == [i \in 1 .. limit |-> buildMockPlaceholder(i - 1)]
    IN  [wire |-> "v1", config |-> "setup", plain |-> Target, bmax |-> BMax,
         available |-> limit,
         id |-> encryptedCandidateSetID(cands),
         prefixes |-> PrefixIDs(cands, PrefixSize),
         candidates |-> cands]

validateEncryptedCorpusManifest(m) ==
    /\ m.wire = "v1"
    /\ m.config # "" /\ m.plain # <<>>
    /\ m.available \in 1 .. m.bmax
    /\ Len(m.candidates) = m.available
    /\ \A i \in DOMAIN m.candidates : m.candidates[i].index = (i - 1) % m.bmax
    /\ m.id = encryptedCandidateSetID(m.candidates)
    /\ \A n \in DOMAIN m.prefixes :
         /\ n \in 1 .. Len(m.candidates)
         /\ m.prefixes[n] = encryptedCandidateSetID(Prefix(m.candidates, n))

\* The page of a slot: the candidates, and the identity of the page.
FetchSlot(m, limit) ==
    LET returned == IF limit > Len(m.candidates) THEN Len(m.candidates) ELSE limit
    IN  Prefix(m.candidates, returned)

-----------------------------------------------------------------------------
(* The builder.                                                            *)

\* Each transaction once, at most MaxTransactions, and only those whose gas
\* still fits.
Take(list, c) ==
    IF \/ Len(list.items) >= MaxTransactions
       \/ c.gas = 0
       \/ c.tx \in list.seen
    THEN list
    ELSE IF c.gas > MaxGas - list.gas
    THEN [list EXCEPT !.seen = @ \union {c.tx}]
    ELSE [items |-> Append(list.items, c), gas |-> list.gas + c.gas,
          seen |-> list.seen \union {c.tx}]

\* The loop over the candidates.
Build(cands) ==
    LET Loop[k \in 0 .. Len(cands)] ==
          IF k = 0 THEN [items |-> <<>>, gas |-> 0, seen |-> {}]
          ELSE Take(Loop[k - 1], cands[k])
    IN  Loop[Len(cands)].items

\* Higher fees first, then by sender, nonce and hash.
Precedes(g, h) ==
    \/ Info[g].fee > Info[h].fee
    \/ /\ Info[g].fee = Info[h].fee
       /\ \/ Info[g].from < Info[h].from
          \/ /\ Info[g].from = Info[h].from
             /\ \/ Info[g].nonce < Info[h].nonce
                \/ Info[g].nonce = Info[h].nonce /\ g < h

\* The transactions of /inclusion-list without a slot source, which the builder
\* has sorted.
Snapshots ==
    LET S == {h \in store : Gas(h) > 0}
    IN  Orders(S, {p \in S \X S : Precedes(p[1], p[2])})

BuildList(snapshot) ==
    Build([i \in 1 .. Len(snapshot) |->
             [tx |-> snapshot[i], index |-> 0, gas |-> Gas(snapshot[i])]])

-----------------------------------------------------------------------------
(* The configuration of a node, which bind-encrypted-corpus holds to one   *)
(* corpus.  The tool reads the manifest's identities and does not compute  *)
(* them again.                                                             *)

\* Plaintext prefixes are named for the sizes of the encrypted ones.
readCorpusProvenance(m) ==
    [wire |-> m.wire, config |-> m.config, plain |-> m.plain, bmax |-> m.bmax,
     available |-> m.available, id |-> m.id, prefixes |-> m.prefixes]

validateCorpusProvenance(p, count) ==
    /\ p.wire = "v1"
    /\ p.bmax = BMax
    /\ count \in 1 .. p.available
    /\ p.config # "" /\ p.plain # <<>> /\ p.id # <<>>
    /\ count \in DOMAIN p.prefixes

\* The identities it is bound to, None if the tool refuses the manifest or was
\* not used.
bindEncryptedCorpus(m) ==
    LET p == readCorpusProvenance(m)
    IN  IF validateCorpusProvenance(p, p.available) /\ p.config = "setup" THEN p ELSE None

Configs ==
    LET generated == {GenerateEncryptedCorpus(k) : k \in 1 .. Len(Target)}
    IN  {None} \union {bindEncryptedCorpus(m) : m \in OtherFile \union generated}

\* A node: what it is bound to, and the proposal limit of its slot, 0: none.
Client == [config : Configs, limit : Limit]

-----------------------------------------------------------------------------
(* The provider.                                                           *)

\* A placeholder is added to the items; its hash is computed from its payload.
Decode(items, c) ==
    LET t == Info[c.tx]
    IN  IF t.ct = None THEN items
        ELSE Append(items, [hash |-> t.ct, ct |-> t.ct, gas |-> c.gas, fee |-> t.fee,
                            from |-> t.from, nonce |-> t.nonce])

\* The placeholders of a list.
Placeholders(list) ==
    LET Loop[k \in 0 .. Len(list)] ==
          IF k = 0 THEN <<>> ELSE Decode(Loop[k - 1], list[k])
    IN  Loop[Len(list)]

\* validateProposalBounds
InBounds(items) == Len(items) <= BMax /\ Len(items) <= MaxProposalItems

\* Variant for mutation: a node bound to a corpus takes fewer items too.
CountsAgreeAtMost(c, items) == c.limit > 0 => Len(items) <= c.limit

CountsAgree(c, items) ==
    c.limit > 0 => IF c.config # None THEN Len(items) = c.limit ELSE Len(items) <= c.limit

\* The setup the node has loaded, and the identities it is bound to.
Provenance(c, m, page) ==
    /\ m.wire = "v1"
    /\ m.config = "setup"
    /\ c.config # None =>
         /\ m.config = c.config.config
         /\ m.plain = c.config.plain
         /\ m.id = c.config.id
         /\ c.limit \in DOMAIN c.config.prefixes =>
              encryptedCandidateSetID(page) = c.config.prefixes[c.limit]

buildInclusionList(c, items, served) ==
    /\ proposal' = [client |-> c, items |-> items,
                    ok |-> served /\ CountsAgree(c, items) /\ InBounds(items)]
    /\ UNCHANGED <<viewVars, file, serving>>

\* The list of a view of the mempool, which has no provenance.
ProposeFromStore ==
    /\ proposal = None
    /\ source # "corpus"
    /\ \E snapshot \in Snapshots, c \in Client :
         buildInclusionList(c, Placeholders(BuildList(snapshot)), c.config = None)

\* The list of a corpus.  The handler refuses a request without a limit and
\* FetchSlot one above the corpus's BMax.
ProposeFromCorpus(c) ==
    LET page == FetchSlot(serving, c.limit)
        list == Build(page)
        items == Placeholders(list)
    IN  /\ proposal = None
        /\ serving # None
        /\ buildInclusionList(c, items,
                              /\ c.limit \in 1 .. serving.bmax
                              /\ Provenance(c, serving, page)
                              /\ Len(list) = Len(items))

\* The service cannot be reached, or it has ended when it read its corpus.
ProposeUnreachable(c) ==
    /\ proposal = None
    /\ buildInclusionList(c, <<>>, FALSE)

-----------------------------------------------------------------------------
(* The tool and the service's start.                                       *)

\* The manifest is written to a temporary file and renamed; an existing file
\* is never overwritten.
EncryptCorpus(size) ==
    /\ source = "corpus"
    /\ file = None
    /\ size \in 1 .. BMax
    /\ size <= Len(Target)
    /\ file' = GenerateEncryptedCorpus(size)
    /\ UNCHANGED <<viewVars, serving, proposal>>

\* LoadEncryptedCorpus; the service does not start on a file it refuses.
LoadEncryptedCorpus ==
    /\ source = "corpus"
    /\ serving = None
    /\ file # None
    /\ validateEncryptedCorpusManifest(file)
    /\ serving' = file
    /\ UNCHANGED <<viewVars, file, proposal>>

\* replay-placeholder-dev: a poll returns the placeholders of the first poll,
\* which are cached, since encrypting again would give other ciphertexts.
replayFetch ==
    /\ source = "replay"
    /\ StoreReplaceAll(ToSet(Target))
    /\ UNCHANGED <<source, now, filter, filterID, reader, retried, fetchedAt, todo,
                   byHash, bySenderNonce, sourceVars>>

SourceInit ==
    /\ ViewInit
    /\ file \in {None} \union (IF source = "corpus" THEN OtherFile ELSE {})
    /\ serving = None
    /\ proposal = None

\* Bound: the sidecar is followed until the slot's proposal exists.
SourceNext ==
    \/ proposal = None /\ ViewNext /\ UNCHANGED sourceVars
    \/ proposal = None /\ (replayFetch \/ LoadEncryptedCorpus)
    \/ proposal = None /\ \E size \in 1 .. BMax : EncryptCorpus(size)
    \/ ProposeFromStore
    \/ \E c \in Client : ProposeFromCorpus(c) \/ ProposeUnreachable(c)

-----------------------------------------------------------------------------
(* Properties.                                                             *)

(* A node that is bound to a corpus and has a proposal limit proposes      *)
(* either nothing or exactly the ciphertexts of that prefix of that        *)
(* corpus, in order, whatever its sidecar serves: another corpus, a        *)
(* shorter one, one with other gas, or a view of the mempool               *)
(* (fetchMempoolInclusionListContext).                                     *)
CorpusPrefix ==
    proposal # None /\ proposal.ok =>
      LET c == proposal.client
      IN  c.config # None /\ c.limit > 0 =>
            /\ Len(proposal.items) = c.limit
            /\ \A i \in 1 .. c.limit : proposal.items[i].ct = Info[c.config.id[i][1]].ct
=============================================================================
