----------------------------- MODULE MempoolView -----------------------------
(***************************************************************************)
(* How the sidecar mempool-il follows the pending transactions of an       *)
(* Ethereum endpoint (mempool-il/internal/mempool).                        *)
(*                                                                         *)
(* One goroutine, Reader.Run, polls the source and replaces the contents   *)
(* of the store, which the HTTP handlers read.  The source alchemy-pending *)
(* ("filter") holds a filter at the endpoint, reads the hashes announced   *)
(* since the last poll, looks each of them up and keeps what it found in a *)
(* cache of its own; txpool and public-pending read everything there is in *)
(* one call.  A step is one call to the endpoint and what the client does  *)
(* with its answer.  Reading the hashes empties the filter, whether or not *)
(* the answer arrives.                                                     *)
(***************************************************************************)
EXTENDS Placeholder

CONSTANTS
    Hash,       \* transaction hashes, ordered as Go orders the strings
    Info,       \* the transaction of a hash: sender, nonce, fee, gas; for a
                \* placeholder the encrypted payload and the gas it asks for
    Malformed,  \* hashes of transactions that normalizeTx refuses
    TTL,        \* AlchemyPendingClient.ttl
    MaxTime,    \* bound: the clock stops here
    Source      \* the sources that are studied

ASSUME HashAssumption ==
    /\ Hash \subseteq Nat /\ IsFiniteSet(Hash)
    /\ Malformed \subseteq Hash
    /\ Info \in [Hash -> [from : Nat, nonce : Nat, fee : Nat, gas : Nat, requested : Nat,
                         ct : Ciphertext \union {None}]]

ASSUME TimeAssumption == TTL \in Nat /\ MaxTime \in Nat

Time == 0 .. MaxTime

\* The key of bySenderNonce.
NonceKey(h) == <<Info[h].from, Info[h].nonce>>

Key == {NonceKey(h) : h \in Hash}

\* ClassifyAndParse: a placeholder stands for the gas it asks for, unless that
\* is 0; its calldata are no bound on it.
Gas(h) ==
    IF Info[h].ct # None /\ Info[h].requested > 0 THEN Info[h].requested ELSE Info[h].gas

ASSUME NoneAssumption == None \notin Hash /\ None \notin Nat

VARIABLES
    source,         \* the source that main chose
    now,            \* the wall clock
    filter,         \* at the endpoint: hashes not read yet, None: no filter
    filterID,       \* c.filterID: "unset", "void" (the text "0x") or "set"
    reader,         \* where the reader's poll is
    retried,        \* the poll has seen "filter not found"
    fetchedAt,      \* now of Fetch
    todo,           \* hashes that Fetch still looks up
    byHash,         \* updatedAt of the cached transactions
    bySenderNonce,  \* the cached hash of a sender and nonce
    store           \* Store.byID

viewVars ==
    <<source, now, filter, filterID, reader, retried, fetchedAt, todo, byHash,
      bySenderNonce, store>>

ViewTypeOK ==
    /\ source \in Source
    /\ now \in Time
    /\ filter \in (SUBSET Hash) \union {None}
    /\ filterID \in {"unset", "void", "set"}
    /\ reader \in {"idle", "ensure", "changes", "lookup"}
    /\ retried \in BOOLEAN
    /\ fetchedAt \in Time
    /\ todo \subseteq Hash
    /\ byHash \in [Hash -> Time \union {None}]
    /\ bySenderNonce \in [Key -> Hash \union {None}]
    /\ store \subseteq Hash

ViewInit ==
    /\ source \in Source
    /\ now = 0
    /\ filter = None
    /\ filterID = "unset"
    /\ reader = "idle"
    /\ retried = FALSE
    /\ fetchedAt = 0
    /\ todo = {}
    /\ byHash = [h \in Hash |-> None]
    /\ bySenderNonce = [k \in Key |-> None]
    /\ store = {}

StoreReplaceAll(txs) == store' = txs

-----------------------------------------------------------------------------
(* The endpoint and the clock.                                             *)

\* A pending transaction, for the first time or again, is announced.
Announce(h) ==
    /\ filter # None
    /\ h \notin filter
    /\ filter' = filter \union {h}
    /\ UNCHANGED <<source, now, filterID, reader, retried, fetchedAt, todo, byHash,
                   bySenderNonce, store>>

\* The endpoint forgets a filter that was not read for a while.
FilterExpires ==
    /\ filter # None
    /\ filter' = None
    /\ UNCHANGED <<source, now, filterID, reader, retried, fetchedAt, todo, byHash,
                   bySenderNonce, store>>

Tick ==
    /\ source = "filter"
    /\ now < MaxTime
    /\ now' = now + 1
    /\ UNCHANGED <<source, filter, filterID, reader, retried, fetchedAt, todo, byHash,
                   bySenderNonce, store>>

-----------------------------------------------------------------------------
(* The cache of AlchemyPendingClient.                                      *)

\* Variant for mutation: the larger fee is ignored.
OutbidsInverted(old, h) ==
    \/ Info[h].fee > Info[old].fee
    \/ Info[h].fee = Info[old].fee /\ h > old

\* The cached transaction old makes upsert ignore h.
Outbids(old, h) ==
    \/ Info[h].fee < Info[old].fee
    \/ Info[h].fee = Info[old].fee /\ h > old

\* Of the transactions of one sender and nonce the cache keeps one.  An equal
\* hash replaces itself, which renews its updatedAt.
upsert(h) ==
    LET old == bySenderNonce[NonceKey(h)]
    IN  IF old # None /\ byHash[old] # None /\ Outbids(old, h)
        THEN UNCHANGED <<byHash, bySenderNonce>>
        ELSE /\ byHash' = [g \in Hash |-> IF g = h THEN fetchedAt
                                          ELSE IF g = old THEN None
                                          ELSE byHash[g]]
             /\ bySenderNonce' = [bySenderNonce EXCEPT ![NonceKey(h)] = h]

Expired(h) == byHash[h] # None /\ fetchedAt - byHash[h] > TTL

\* Fetch drops what was not announced again for longer than the retention.
expire ==
    /\ byHash' = [h \in Hash |-> IF Expired(h) THEN None ELSE byHash[h]]
    /\ bySenderNonce' =
         [k \in Key |->
            IF \E h \in Hash : Expired(h) /\ NonceKey(h) = k /\ bySenderNonce[k] = h
            THEN None ELSE bySenderNonce[k]]

-----------------------------------------------------------------------------
(* One poll of the filter.                                                 *)

\* PollOnce, Fetch: a filter id that is set, usable or not, is not renewed.
PollBegins ==
    /\ source = "filter"
    /\ reader = "idle"
    /\ reader' = IF filterID = "unset" THEN "ensure" ELSE "changes"
    /\ retried' = FALSE
    /\ UNCHANGED <<source, now, filter, filterID, fetchedAt, todo, byHash, bySenderNonce,
                   store>>

\* eth_newPendingTransactionFilter answers with an id.
ensureFilter ==
    /\ reader = "ensure"
    /\ filter' = {}
    /\ filterID' = "set"
    /\ reader' = "changes"
    /\ UNCHANGED <<source, now, retried, fetchedAt, todo, byHash, bySenderNonce, store>>

\* It answers with an empty id, which Fetch reports and yet keeps if it reads
\* "0x", or the call fails, although the filter may exist by then.
ensureFilterFails ==
    /\ reader = "ensure"
    /\ reader' = "idle"
    /\ filterID' \in {"unset", "void"}
    /\ filter' \in {filter, {}}
    /\ UNCHANGED <<source, now, retried, fetchedAt, todo, byHash, bySenderNonce, store>>

getFilterChanges ==
    /\ reader = "changes"
    /\ filterID = "set"
    /\ filter # None
    /\ todo' = filter
    /\ filter' = {}
    /\ fetchedAt' = now
    /\ reader' = "lookup"
    /\ UNCHANGED <<source, now, filterID, retried, byHash, bySenderNonce, store>>

\* isFilterNotFound: the filter is created again, once per poll.
filterNotFound ==
    /\ reader = "changes"
    /\ filterID = "void" \/ filter = None
    /\ IF retried
       THEN reader' = "idle" /\ UNCHANGED <<filterID, retried>>
       ELSE reader' = "ensure" /\ filterID' = "unset" /\ retried' = TRUE
    /\ UNCHANGED <<source, now, filter, fetchedAt, todo, byHash, bySenderNonce, store>>

\* Any other error ends the poll; the hashes of an answer that is lost are lost.
getFilterChangesFails ==
    /\ reader = "changes"
    /\ reader' = "idle"
    /\ filter' \in {filter} \union (IF filter = None THEN {} ELSE {{}})
    /\ UNCHANGED <<source, now, filterID, retried, fetchedAt, todo, byHash,
                   bySenderNonce, store>>

\* eth_getTransactionByHash finds h and normalizeTx accepts it.
lookupFound(h) ==
    /\ reader = "lookup"
    /\ h \in todo \ Malformed
    /\ upsert(h)
    /\ todo' = todo \ {h}
    /\ UNCHANGED <<source, now, filter, filterID, reader, retried, fetchedAt, store>>

\* The call fails, finds nothing, or what it finds is malformed: Fetch goes on
\* with the next hash and never asks for h again.
lookupSkips(h) ==
    /\ reader = "lookup"
    /\ h \in todo
    /\ todo' = todo \ {h}
    /\ UNCHANGED <<source, now, filter, filterID, reader, retried, fetchedAt, byHash,
                   bySenderNonce, store>>

\* Variant for mutation: the store keeps what the cache has dropped.
FetchEndsAddsOnly ==
    /\ reader = "lookup"
    /\ todo = {}
    /\ expire
    /\ store' = store \union {h \in Hash : byHash'[h] # None}
    /\ reader' = "idle"
    /\ UNCHANGED <<source, now, filter, filterID, retried, fetchedAt, todo>>

\* The end of Fetch and of PollOnce: expire, then Store.ReplaceAll.
FetchEnds ==
    /\ reader = "lookup"
    /\ todo = {}
    /\ expire
    /\ StoreReplaceAll({h \in Hash : byHash[h] # None /\ ~Expired(h)})
    /\ reader' = "idle"
    /\ UNCHANGED <<source, now, filter, filterID, retried, fetchedAt, todo>>

\* A poll of txpool: what is pending and what is queued, which the list does not
\* tell apart.  One malformed transaction fails all.
TxpoolContent(pending, queued) ==
    /\ source = "txpool"
    /\ (pending \union queued) \intersect Malformed = {}
    /\ StoreReplaceAll(pending \union queued)
    /\ UNCHANGED <<source, now, filter, filterID, reader, retried, fetchedAt, todo,
                   byHash, bySenderNonce>>

\* A poll of public-pending: the transactions of the pending block.
publicFetch(pending) ==
    /\ source = "public-pending"
    /\ pending \intersect Malformed = {}
    /\ StoreReplaceAll(pending)
    /\ UNCHANGED <<source, now, filter, filterID, reader, retried, fetchedAt, todo,
                   byHash, bySenderNonce>>

ViewNext ==
    \/ FilterExpires \/ Tick \/ PollBegins \/ ensureFilter \/ ensureFilterFails
    \/ getFilterChanges \/ filterNotFound \/ getFilterChangesFails \/ FetchEnds
    \/ \E h \in Hash : Announce(h) \/ lookupFound(h) \/ lookupSkips(h)
    \/ \E S \in SUBSET Hash :
         publicFetch(S) \/ \E T \in SUBSET Hash : TxpoolContent(S, T)

-----------------------------------------------------------------------------
(* Properties.                                                             *)

(* byHash and bySenderNonce, which upsert and expire change one after the  *)
(* other, always describe the same cache: a transaction is cached exactly  *)
(* when it is the one of its sender and nonce.                             *)
CacheConsistent ==
    \A h \in Hash : byHash[h] # None <=> bySenderNonce[NonceKey(h)] = h

\* A transaction leaves the cache because its time is over, or for one of the
\* same sender and nonce that pays more, or the same with a smaller hash.
LeavesForBetter ==
    \A h \in Hash :
        byHash[h] # None /\ byHash'[h] = None =>
            \/ fetchedAt - byHash[h] > TTL
            \/ \E g \in Hash : /\ NonceKey(g) = NonceKey(h)
                               /\ byHash'[g] # None
                               /\ \/ Info[g].fee > Info[h].fee
                                  \/ Info[g].fee = Info[h].fee /\ g < h

(* What the cache has dropped was outbid or too old (upsert, expire).      *)
OnlyForBetter == [][LeavesForBetter]_viewVars

(* What the handlers see between two polls: with the filter source at most *)
(* one transaction of a sender and nonce, and none that was not announced  *)
(* again for longer than the retention before the last successful poll     *)
(* (Fetch, Store.ReplaceAll).  A poll that fails leaves the store as it    *)
(* was.                                                                    *)
StoreFresh ==
    source = "filter" =>
        /\ \A g, h \in store : NonceKey(g) = NonceKey(h) => g = h
        /\ reader # "lookup" =>
             store = {h \in Hash : byHash[h] # None /\ ~Expired(h)}
=============================================================================
