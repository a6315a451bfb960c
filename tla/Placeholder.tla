----------------------------- MODULE Placeholder -----------------------------
(***************************************************************************)
(* Encrypted placeholders: what the sidecar, the provider and the merge    *)
(* exchange (bloc-node/internal/app/inclusion/types.go).                   *)
(*                                                                         *)
(* A ciphertext stands for its hash too; None is the empty string.         *)
(* Writing a hash or a sender in capitals changes nothing, and is left     *)
(* out.                                                                    *)
(***************************************************************************)
EXTENDS Integers, SequencesExt

CONSTANTS
    Ciphertext,  \* ciphertexts, as numbers ordered like their hashes
    Index,       \* the index in a ciphertext's capsule, None: it does not decode
    BMax,        \* cfg.BMax, and BMax of the cluster's setup
    None

ASSUME BMaxAssumption == BMax \in Nat \ {0}

ASSUME IndexAssumption ==
    /\ Ciphertext \subseteq Nat
    /\ Index \in [Ciphertext -> 0 .. BMax - 1 \union {None}]

\* An item of an inclusion list.
Item ==
    [hash : Ciphertext \union {None}, ct : Ciphertext \union {None},
     gas : Nat, fee : Int, from : Nat, nonce : Nat]

\* normalizePlaceholder: a fee that is no number is below 0 here.
Normal(item) ==
    /\ item.ct # None
    /\ item.gas > 0
    /\ item.fee >= 0
    /\ item.hash \in {None, item.ct}

\* The elements that no other one has to precede.
First(T, less) == {c \in T : \A d \in T : <<d, c>> \notin less}

\* The orders so far, with one more element of S.
Extended(orders, S, less) ==
    UNION {{Append(s, c) : c \in First(S \ ToSet(s), less)} : s \in orders}

\* The sequences of S that sort.Slice may return, for a relation of pairs of S: it
\* is not stable, and what it is given comes out of a map in any order.
Orders(S, less) ==
    LET Loop[k \in 0 .. Cardinality(S)] ==
          IF k = 0 THEN {<<>>} ELSE Extended(Loop[k - 1], S, less)
    IN  Loop[Cardinality(S)]
=============================================================================
