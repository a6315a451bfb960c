----------------------------- MODULE MCInclusion -----------------------------
(***************************************************************************)
(* One operator's way to a list, and four operators' lists in a batch of   *)
(* at most six.                                                            *)
(***************************************************************************)
EXTENDS Inclusion

Tx(from, nonce, fee, gas, ct, requested) ==
    [from |-> from, nonce |-> nonce, fee |-> fee, gas |-> gas, ct |-> ct,
     requested |-> requested]

\* Three transactions of one sender and nonce, two of them with the same fee, and
\* one that is malformed in the endpoint's answers.
MCInfo ==
    <<Tx(1, 0, 1, 3, 1, 1), Tx(1, 0, 1, 2, 2, 0), Tx(1, 0, 2, 1, 3, 1), Tx(2, 0, 1, 1, 4, 1)>>

\* Indexes of the ciphertexts; the last does not decode.
MCIndex == <<0, 1, 2, 2, 1, 0, 3, None>>

MCTarget == <<1, 2, 3, 4>>

Manifest(cands, prefixes) ==
    [wire |-> "v1", config |-> "setup", plain |-> MCTarget, bmax |-> BMax,
     available |-> Len(cands),
     id |-> encryptedCandidateSetID(cands), prefixes |-> prefixes, candidates |-> cands]

Cand(i, h, gas) == [tx |-> h, index |-> i, gas |-> gas]

\* Another corpus with the same first candidates, the same corpus with a
\* transaction noted with no gas, and a file that names a wrong identity.
MCOtherFile ==
    LET c1 == <<Cand(0, 1, 1), Cand(1, 2, 2), Cand(2, 4, 1)>>
        c2 == <<Cand(0, 1, 0), Cand(1, 2, 2), Cand(2, 3, 1), Cand(3, 4, 1)>>
    IN  {Manifest(c1, PrefixIDs(c1, PrefixSize)),
         Manifest(c2, PrefixIDs(c2, PrefixSize)),
         [GenerateEncryptedCorpus(4) EXCEPT !.candidates = c1]}

Offer(ct, gas, fee, from) ==
    [hash |-> ct, ct |-> ct, gas |-> gas, fee |-> fee, from |-> from, nonce |-> 0]

List(o, items) == [slot |-> Slot, operator |-> o, items |-> items]

\* Six ciphertexts whose indexes collide in round robin; two that others offer
\* with another fee or gas, malformed ones; a list in another's name.
MCOtherList ==
    (1 :> {List(1, <<Offer(1, 1, 9, 1), Offer(2, 1, 8, 1), Offer(3, 1, 7, 1),
                     Offer(4, 1, 6, 1), Offer(5, 1, 5, 1), Offer(6, 1, 5, 1)>>),
           List(1, <<Offer(2, 4, 3, 1), [Offer(3, 1, 3, 1) EXCEPT !.hash = None]>>),
           List(1, <<Offer(8, 1, 3, 1)>>)}) @@
    (3 :> {List(3, <<Offer(2, 1, 9, 3), Offer(7, 5, 4, 3), [Offer(3, 1, 9, 3) EXCEPT !.hash = 2],
                     Offer(4, 1, 4, 3), Offer(5, 1, 4, 3), Offer(4, 2, 9, 3)>>),
           List(3, <<>>),
           List(1, <<Offer(6, 1, 3, 3)>>)}) @@
    (4 :> {List(4, <<Offer(7, 2, -1, 4), Offer(6, 0, 2, 4), Offer(2, 1, 5, 1)>>),
           List(4, <<Offer(2, 1, 5, 1), Offer(None, 1, 5, 1)>>)})
=============================================================================
