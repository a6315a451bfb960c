---------------------------- MODULE SlotLifecycle ----------------------------
(***************************************************************************)
(* The slots of one node (bloc-node/internal/app/node.go) and the          *)
(* accounting of their ACS sends (sbc/hbbft/trace_outbound.go).            *)
(*                                                                         *)
(* HTTP handlers, inbound envelopes and send goroutines use the active     *)
(* slotState under lifecycleMu's read lock; prepareSlot replaces it under  *)
(* the write lock.  A step is what a goroutine does between two points     *)
(* where another one can matter: sections under slotState.mu and acsMu are *)
(* one step, and so is taking the read lock together with inputMu or       *)
(* startOnce, whose holder never waits for lifecycleMu.  A request that is *)
(* turned away without an effect is no step.  What ACS decides and how     *)
(* shares combine is the subject of ACS and ShareCombine; here they choose *)
(* freely.                                                                 *)
(***************************************************************************)
EXTENDS Integers, Sequences

CONSTANTS
    Slot,        \* slot numbers
    FirstSlot,   \* cfg.Slot at the start of the process
    Starter,     \* goroutines that serve /start
    Submitter,   \* goroutines that serve /tx
    Inbound,     \* goroutines that deliver envelopes
    BMax,        \* cfg.BMax
    Limit,       \* proposal limits that callers of /slot/prepare ask for
    Traced,      \* cfg.Diagnostics.ACSTrace
    MaxTraced,   \* bound: sends admitted to a slot's trace
    MaxUntraced, \* bound: other sends of a slot at a time
    MaxObserved, \* bound: what a trace records of receptions and milestones
    None

\* Whether a send has an ACSSendToken.
Token == {"token", "nil"}

Goroutine == Starter \union Submitter \union Inbound

ASSUME SlotAssumption == Slot \subseteq Nat /\ FirstSlot \in Slot

ASSUME SizeAssumption ==
    /\ BMax \in Nat \ {0}
    /\ Limit \subseteq 0 .. BMax
    /\ MaxTraced \in Nat
    /\ MaxUntraced \in Nat
    /\ MaxObserved \in Nat
    /\ Traced \in BOOLEAN

ASSUME GoroutineAssumption ==
    /\ Starter \intersect Submitter = {}
    /\ Starter \intersect Inbound = {}
    /\ Submitter \intersect Inbound = {}

ASSUME NoneAssumption ==
    None \notin Slot \union [items : Seq(0 .. BMax - 1), limit : 0 .. BMax]

VARIABLES
    id,         \* slotState.id, which is also lastSlot
    phase,      \* slotState.phase; completed and failed stand for result and failure
    once,       \* startOnce was used
    mu,         \* slotState.mu is locked over more than one step
    pending,    \* the puncture indexes of slotState.pending
    limit,      \* slotState.proposalLimit
    proposal,   \* what startConsensus read for the proposal, or None
    planned,    \* "no", "planned", or "shared" once shareGenerationDone
    output,     \* SlotACS.Output has handed out the slot's result
    observed,   \* how much the trace of the active slot has recorded of messages
                \* received and of RBC and BBA milestones
    published,  \* the answers of /result for the slot, other than "pending"
    scheduled,  \* of each slot's trace, which outlives the slot in its tokens:
                \* ScheduledCount over all ACS message subtypes
    terminal,   \* TerminalCount over all of them
    sealed,     \* Transport.Sealed
    finalized,  \* Transport.Finalized
    queued,     \* send goroutines of each slot that have not run yet, by whether
                \* they hold a token
    flying,     \* those in transport.Send, under the read lock
    pc,         \* where each goroutine is
    mine,       \* the slot whose state it began to use
    index,      \* the puncture index a submitter encrypts for
    prep,       \* the call of prepareSlot: at, slot, limit
    up          \* the process has not died of a fatal error

slotVars == <<phase, once, pending, limit, proposal, planned, output>>
traceVars == <<scheduled, terminal, sealed, finalized>>
sendVars == <<queued, flying>>
vars == <<id, slotVars, mu, traceVars, sendVars, observed, published, pc, mine, index, prep, up>>

Terminal == {"completed", "failed"}

\* Inside startOnce.Do, and so under inputMu.
Starting(c) == pc[c] \in {"build", "input", "output", "shares", "combine"}

\* The goroutines that hold the read lock are those at one of these places.
ReadPlace == {"encrypt", "build", "input", "acs", "output", "shares", "combine"}

\* Variant for mutation: submissions do not exclude each other.
InputFreeOfStarters == \A c \in Starter : ~Starting(c)

InputFree ==
    /\ \A u \in Submitter : pc[u] # "encrypt"
    /\ \A c \in Starter : ~Starting(c)

\* A waiting writer keeps new readers out.
MayRead == prep.at = "idle"

\* Variant for mutation: sends do not hold the read lock.
NoHandlers == \A g \in Goroutine : pc[g] \notin ReadPlace

NoReaders ==
    /\ \A g \in Goroutine : pc[g] \notin ReadPlace
    /\ \A s \in Slot : \A token \in Token : flying[s][token] = 0

Goto(g, place) ==
    /\ pc' = [pc EXCEPT ![g] = place]
    /\ mine' = [mine EXCEPT ![g] = IF place \in ReadPlace \union {"locked"} THEN id ELSE None]

Advance(g, place) == pc' = [pc EXCEPT ![g] = place] /\ UNCHANGED mine

NotPreparing == [at |-> "idle", slot |-> FirstSlot, limit |-> 0]

Init ==
    /\ id = FirstSlot
    /\ phase = "prepared"
    /\ once = FALSE
    /\ mu = FALSE
    /\ pending = <<>>
    /\ proposal = None
    /\ planned = "no"
    /\ output = FALSE
    /\ observed = 0
    /\ published = {}
    /\ limit = 0
    /\ scheduled = [s \in Slot |-> 0]
    /\ terminal = [s \in Slot |-> 0]
    /\ sealed = [s \in Slot |-> FALSE]
    /\ finalized = [s \in Slot |-> FALSE]
    /\ queued = [s \in Slot |-> [token \in Token |-> 0]]
    /\ flying = [s \in Slot |-> [token \in Token |-> 0]]
    /\ pc = [g \in Goroutine |-> "idle"]
    /\ mine = [g \in Goroutine |-> None]
    /\ index = [u \in Submitter |-> 0]
    /\ prep = NotPreparing
    /\ up = TRUE

-----------------------------------------------------------------------------
(***************************************************************************)
(* The trace's send accounting                                             *)
(***************************************************************************)

\* Variant for mutation: tokens are given out after the seal.
beginAlsoSealed(s) == IF Traced THEN "token" ELSE "nil"

\* A token is given out only before the trace is sealed.
beginMessageOutbound(s) == IF Traced /\ ~sealed[s] THEN "token" ELSE "nil"

\* token.Complete(): a send without a token leaves the trace alone.  All
\* subtypes are terminal when the sums are equal.
completeMessageOutbound(s, token) ==
    LET counts == token = "token" /\ terminal[s] < scheduled[s]
    IN  /\ terminal' = [terminal EXCEPT ![s] = IF counts THEN @ + 1 ELSE @]
        /\ finalized' = [finalized EXCEPT ![s] =
                             @ \/ (counts /\ sealed[s] /\ terminal[s] + 1 = scheduled[s])]
        /\ UNCHANGED <<scheduled, sealed>>

\* Variant for mutation: the seal does not look whether all sends have ended.
sealLeavesFinalized(s) ==
    /\ sealed' = [sealed EXCEPT ![s] = Traced]
    /\ UNCHANGED finalized

\* The first output seals the trace; nothing more is admitted to it.
sealMessageOutbound(s) ==
    /\ sealed' = [sealed EXCEPT ![s] = Traced]
    /\ finalized' = [finalized EXCEPT ![s] = Traced /\ terminal[s] = scheduled'[s]]

\* recordMessageInbound, recordRBC, recordBBA: a trace that has begun records what
\* is received, and what comes of it, sealed and finalized or not.
Observe ==
    observed' = IF Traced /\ proposal # None /\ observed < MaxObserved
                  THEN observed + 1 ELSE observed

\* Sends that have not ended.
Waiting(s, token) == queued[s][token] + flying[s][token]

(***************************************************************************)
(* One transition of the slot's ACS under acsMu: it emits count messages,  *)
(* each with a token, is sealed if it has an output, and its messages      *)
(* become send goroutines.                                                 *)
(***************************************************************************)
stepACS(count, hasOutput) ==
    LET token == beginMessageOutbound(id)
    IN  /\ IF token = "token" THEN scheduled[id] + count <= MaxTraced
                              ELSE Waiting(id, "nil") + count <= MaxUntraced
        /\ hasOutput => ~output
        /\ scheduled' = [scheduled EXCEPT ![id] = IF token = "token" THEN @ + count ELSE @]
        /\ queued' = [queued EXCEPT ![id][token] = @ + count]
        /\ output' = (output \/ hasOutput)
        /\ IF hasOutput THEN sealMessageOutbound(id) ELSE UNCHANGED <<sealed, finalized>>
        /\ UNCHANGED <<terminal, flying>>

\* The goroutine of one message.  A stale message is not sent.
sendStart(s, token) ==
    /\ MayRead
    /\ queued[s][token] > 0
    /\ queued' = [queued EXCEPT ![s][token] = @ - 1]
    /\ \/ /\ s = id
          /\ flying' = [flying EXCEPT ![s][token] = @ + 1]
          /\ UNCHANGED traceVars
       \/ /\ s # id
          /\ completeMessageOutbound(s, token)
          /\ UNCHANGED flying
    /\ UNCHANGED <<id, slotVars, mu, observed, published, pc, mine, index, prep, up>>

\* Send returned, with or without an error; the read lock is released last.
sendEnd(s, token) ==
    /\ flying[s][token] > 0
    /\ flying' = [flying EXCEPT ![s][token] = @ - 1]
    /\ completeMessageOutbound(s, token)
    /\ UNCHANGED <<id, slotVars, mu, queued, observed, published, pc, mine, index, prep, up>>

-----------------------------------------------------------------------------
(***************************************************************************)
(* /tx                                                                     *)
(***************************************************************************)

NextIndex == Len(pending) % BMax

\* From the locks to the encryption for the next puncture index.
submitBegin(u) ==
    /\ MayRead
    /\ pc[u] = "idle"
    /\ InputFree
    /\ ~mu
    /\ phase = "prepared"
    /\ index' = [index EXCEPT ![u] = NextIndex]
    /\ Goto(u, "encrypt")
    /\ UNCHANGED <<id, slotVars, mu, traceVars, sendVars, observed, published, prep, up>>

\* Ciphertexts are randomized, so the hash was not seen before.
submitAccept(u) ==
    /\ pc[u] = "encrypt"
    /\ ~mu
    /\ Len(pending) < BMax
    /\ pending' = Append(pending, index[u])
    /\ index' = [index EXCEPT ![u] = 0]
    /\ Goto(u, "idle")
    /\ UNCHANGED <<id, phase, once, limit, proposal, planned, output, mu, traceVars,
                   sendVars, observed, published, prep, up>>

\* BMax items, too many bytes, or a transaction that cannot be encrypted.
submitReject(u) ==
    /\ pc[u] = "encrypt"
    /\ index' = [index EXCEPT ![u] = 0]
    /\ Goto(u, "idle")
    /\ UNCHANGED <<id, slotVars, mu, traceVars, sendVars, observed, published, prep, up>>

-----------------------------------------------------------------------------
(***************************************************************************)
(* The ends of a slot                                                      *)
(***************************************************************************)
Ended == phase \in Terminal

\* Variant for mutation: a late failure overwrites the end.
markFailedAlways == phase' = "failed"

markSlotFailed == phase' = IF Ended THEN phase ELSE "failed"

(***************************************************************************)
(* handleACSOutput, by whoever received the output                         *)
(***************************************************************************)
outputFails(g) ==
    /\ pc[g] = "output"
    /\ ~mu
    /\ markSlotFailed
    /\ Goto(g, "idle")
    /\ UNCHANGED <<id, once, pending, limit, proposal, planned, output, mu, traceVars,
                   sendVars, observed, published, index, prep, up>>

finishEmptyMaterializedSet(g) ==
    /\ pc[g] = "output"
    /\ ~mu
    /\ \/ /\ ~Ended /\ planned = "no"
          /\ planned' = "planned"
          /\ phase' = "completed"
       \/ /\ Ended \/ planned # "no"
          /\ UNCHANGED <<planned, phase>>
    /\ Goto(g, "idle")
    /\ UNCHANGED <<id, once, pending, limit, proposal, output, mu, traceVars, sendVars,
                   observed, published, index, prep, up>>

storePlan(g) ==
    /\ pc[g] = "output"
    /\ ~mu
    /\ \/ /\ planned = "no" /\ phase # "failed"
          /\ planned' = "planned"
          /\ Advance(g, "shares")
       \/ /\ planned # "no" \/ phase = "failed"
          /\ Goto(g, "idle")
          /\ UNCHANGED planned
    /\ UNCHANGED <<id, phase, once, pending, limit, proposal, output, mu, traceVars,
                   sendVars, observed, published, index, prep, up>>

\* The own share of a sub-batch goes out, without tokens.
makeShare(g, count) ==
    /\ pc[g] = "shares"
    /\ ~mu
    /\ Waiting(id, "nil") + count <= MaxUntraced
    /\ queued' = [queued EXCEPT ![id]["nil"] = @ + count]
    /\ UNCHANGED <<id, slotVars, mu, traceVars, flying, observed, published, pc, mine, index, prep, up>>

\* shareGenerationDone is set; a faulty node may have withheld its shares.
sharesDone(g) ==
    /\ pc[g] = "shares"
    /\ ~mu
    /\ planned' = "shared"
    /\ Advance(g, "combine")
    /\ UNCHANGED <<id, phase, once, pending, limit, proposal, output, mu, traceVars, sendVars,
                   observed, published, index, prep, up>>

\* MakeShare or marshalShare fails the slot; an own share refused does not.
sharesFail(g) ==
    /\ pc[g] = "shares"
    /\ ~mu
    /\ markSlotFailed \/ UNCHANGED phase
    /\ Goto(g, "idle")
    /\ UNCHANGED <<id, once, pending, limit, proposal, planned, output, mu, traceVars,
                   sendVars, observed, published, index, prep, up>>

\* tryCombine succeeds, or there is nothing to claim or the attempt fails.
tryCombine(g) ==
    /\ pc[g] = "combine"
    /\ ~mu
    /\ \/ /\ planned = "shared" /\ ~Ended
          /\ phase' = "completed"
       \/ UNCHANGED phase
    /\ Goto(g, "idle")
    /\ UNCHANGED <<id, once, pending, limit, proposal, planned, output, mu, traceVars,
                   sendVars, observed, published, index, prep, up>>

-----------------------------------------------------------------------------
(***************************************************************************)
(* handleEnvelope, for an envelope of the active slot                      *)
(***************************************************************************)
handleEnvelope(h) ==
    /\ MayRead
    /\ pc[h] = "idle"
    /\ ~mu
    /\ \/ Goto(h, "acs") /\ Observe
       \/ Goto(h, "combine") /\ UNCHANGED observed
    /\ UNCHANGED <<id, slotVars, mu, traceVars, sendVars, published, index, prep, up>>

handleACS(h) ==
    /\ pc[h] = "acs"
    /\ \E count \in 0 .. MaxTraced + MaxUntraced, hasOutput \in BOOLEAN :
           /\ stepACS(count, hasOutput)
           /\ IF hasOutput THEN Advance(h, "output") ELSE Goto(h, "idle")
    /\ Observe \/ UNCHANGED observed
    /\ UNCHANGED <<id, phase, once, pending, limit, proposal, planned, mu, published, index,
                   prep, up>>

-----------------------------------------------------------------------------
(***************************************************************************)
(* /start                                                                  *)
(***************************************************************************)

\* validateRequestedSlot takes the read lock and releases it again.
startValidate(c) ==
    /\ MayRead
    /\ pc[c] = "idle"
    /\ Goto(c, "validated")
    /\ UNCHANGED <<id, slotVars, mu, traceVars, sendVars, observed, published, index, prep, up>>

\* startOnce was used: Do waits for its first call and then returns no error.
startAgain(c) ==
    /\ MayRead
    /\ pc[c] = "validated"
    /\ once
    /\ \A d \in Starter : ~Starting(d)
    /\ Goto(c, "idle")
    /\ UNCHANGED <<id, slotVars, mu, traceVars, sendVars, observed, published, index, prep, up>>

\* The first call; the slot may have ended without this node's proposal.
startOnce(c) ==
    /\ MayRead
    /\ pc[c] = "validated"
    /\ ~once
    /\ InputFree
    /\ ~mu
    /\ once' = TRUE
    /\ \/ /\ Ended
          /\ Goto(c, "error")
          /\ UNCHANGED phase
       \/ /\ ~Ended
          /\ phase' = "running"
          /\ Goto(c, "build")
    /\ UNCHANGED <<id, pending, limit, proposal, planned, output, mu, traceVars, sendVars,
                   observed, published, index, prep, up>>

\* The list is built, and with it ready the trace begins.
buildInclusionList(c) ==
    /\ pc[c] = "build"
    /\ ~mu
    /\ proposal' = [items |-> pending, limit |-> limit]
    /\ Advance(c, "input")
    /\ UNCHANGED <<id, phase, once, pending, limit, planned, output, mu, traceVars, sendVars,
                   observed, published, index, prep, up>>

\* No valid list, or ACS refuses it.
startFails(c) ==
    /\ pc[c] \in {"build", "input"}
    /\ ~mu
    /\ markSlotFailed
    /\ Goto(c, "error")
    /\ UNCHANGED <<id, once, pending, limit, proposal, planned, output, mu, traceVars,
                   sendVars, observed, published, index, prep, up>>

inputBatch(c) ==
    /\ pc[c] = "input"
    /\ \E count \in 0 .. MaxTraced + MaxUntraced, hasOutput \in BOOLEAN :
           /\ stepACS(count, hasOutput)
           /\ IF hasOutput THEN Advance(c, "output") ELSE Goto(c, "idle")
    /\ Observe \/ UNCHANGED observed
    /\ UNCHANGED <<id, phase, once, pending, limit, proposal, planned, mu, published, index,
                   prep, up>>

\* handleStart reads failure and result under n.mu, without lifecycleMu.
errorLock(c) ==
    /\ pc[c] = "error"
    /\ ~mu
    /\ mu' = TRUE
    /\ Goto(c, "locked")
    /\ UNCHANGED <<id, slotVars, traceVars, sendVars, observed, published, index, prep, up>>

\* n.mu is the mutex of the state installed by now; to unlock it when it is
\* not locked is a fatal error of the process.
errorUnlock(c) ==
    /\ pc[c] = "locked"
    /\ mu' = FALSE
    /\ up' = mu
    /\ Goto(c, "idle")
    /\ UNCHANGED <<id, slotVars, traceVars, sendVars, observed, published, index, prep>>

-----------------------------------------------------------------------------
(***************************************************************************)
(* /result and writeResultWhenReady                                        *)
(***************************************************************************)
publishable ==
    \/ phase = "failed"
    \/ phase = "completed" /\ (Traced => finalized[id])

\* A failure is answered without a trace, a result with the trace as it is now.
handleResult ==
    /\ MayRead
    /\ ~mu
    /\ publishable
    /\ published' = published \union
           {IF phase = "failed"
            THEN [outcome |-> "failed", scheduled |-> 0, terminal |-> 0, observed |-> 0]
            ELSE [outcome |-> "completed", scheduled |-> scheduled[id],
                  terminal |-> terminal[id], observed |-> observed]}
    /\ UNCHANGED <<id, slotVars, mu, traceVars, sendVars, observed, pc, mine, index, prep, up>>

-----------------------------------------------------------------------------
(***************************************************************************)
(* /slot/prepare                                                           *)
(***************************************************************************)
\* A call waits for the write lock; its arguments matter when it has it.
prepareRequest ==
    /\ prep.at = "idle"
    /\ prep' = [prep EXCEPT !.at = "waiting"]
    /\ UNCHANGED <<id, slotVars, mu, traceVars, sendVars, observed, published, pc, mine, index, up>>

WriteLocked == prep.at = "waiting" /\ NoReaders /\ ~mu

\* Variant for mutation: the phase is not checked.
SetsLimitLate(slotID, proposalLimit) == slotID = id /\ limit = 0 /\ proposalLimit > 0

SetsLimit(slotID, proposalLimit) ==
    slotID = id /\ phase = "prepared" /\ limit = 0 /\ proposalLimit > 0

\* Variant for mutation: the trace may be incomplete.
ReplaceableUnfinalized(slotID) == slotID > id /\ Ended

Replaceable(slotID) ==
    /\ slotID > id
    /\ Ended
    /\ phase = "completed" /\ Traced => finalized[id]

prepareLimit(slotID, proposalLimit) ==
    /\ WriteLocked
    /\ SetsLimit(slotID, proposalLimit)
    /\ limit' = proposalLimit
    /\ prep' = NotPreparing
    /\ UNCHANGED <<id, phase, once, pending, proposal, planned, output, mu, traceVars,
                   sendVars, observed, published, pc, mine, index, up>>

\* The checks; a call that passes them goes on without n.mu.
prepareCheck(slotID, proposalLimit) ==
    /\ WriteLocked
    /\ ~SetsLimit(slotID, proposalLimit)
    /\ prep' = IF Replaceable(slotID)
                 THEN [at |-> "swap", slot |-> slotID, limit |-> proposalLimit]
                 ELSE NotPreparing
    /\ UNCHANGED <<id, slotVars, mu, traceVars, sendVars, observed, published, pc, mine, index, up>>

newSlotState(proposalLimit) ==
    /\ phase' = "prepared"
    /\ once' = FALSE
    /\ mu' = FALSE
    /\ pending' = <<>>
    /\ proposal' = None
    /\ planned' = "no"
    /\ output' = FALSE
    /\ observed' = 0
    /\ published' = {}
    /\ limit' = proposalLimit

\* A fresh slotState takes the place of the old one.
prepareSwap ==
    /\ prep.at = "swap"
    /\ id' = prep.slot
    /\ newSlotState(prep.limit)
    /\ prep' = NotPreparing
    /\ UNCHANGED <<traceVars, sendVars, pc, mine, index, up>>

-----------------------------------------------------------------------------
Submit(u) == submitBegin(u) \/ submitAccept(u) \/ submitReject(u)

Output(g) ==
    \/ outputFails(g)
    \/ finishEmptyMaterializedSet(g)
    \/ storePlan(g)
    \/ \E count \in 1 .. MaxUntraced : makeShare(g, count)
    \/ sharesDone(g)
    \/ sharesFail(g)
    \/ tryCombine(g)

Start(c) ==
    \/ startAgain(c)
    \/ startOnce(c)
    \/ buildInclusionList(c)
    \/ startFails(c)
    \/ inputBatch(c)
    \/ errorLock(c)
    \/ errorUnlock(c)

Prepare ==
    \/ \E slotID \in Slot, proposalLimit \in Limit :
           prepareLimit(slotID, proposalLimit) \/ prepareCheck(slotID, proposalLimit)
    \/ prepareSwap

Next ==
    /\ up
    /\ \/ \E s \in Slot, token \in Token : sendStart(s, token) \/ sendEnd(s, token)
       \/ \E u \in Submitter : Submit(u)
       \/ \E g \in Starter \union Inbound : Output(g)
       \/ \E h \in Inbound : handleEnvelope(h) \/ handleACS(h)
       \/ \E c \in Starter : startValidate(c) \/ Start(c)
       \/ handleResult
       \/ prepareRequest
       \/ Prepare

Spec == Init /\ [][Next]_vars

-----------------------------------------------------------------------------
(***************************************************************************)
(* Properties                                                              *)
(***************************************************************************)
Place == ReadPlace \union {"idle", "validated", "error", "locked"}

Answer ==
    [outcome : Terminal, scheduled : 0 .. MaxTraced, terminal : 0 .. MaxTraced,
     observed : 0 .. MaxObserved]

SlotTypeOK ==
    /\ id \in Slot
    /\ phase \in {"prepared", "running"} \union Terminal
    /\ once \in BOOLEAN /\ mu \in BOOLEAN /\ output \in BOOLEAN
    /\ pending \in Seq(0 .. BMax - 1)
    /\ limit \in 0 .. BMax
    /\ proposal \in [items : Seq(0 .. BMax - 1), limit : 0 .. BMax] \union {None}
    /\ planned \in {"no", "planned", "shared"}
    /\ observed \in 0 .. MaxObserved
    /\ published \subseteq Answer

SendTypeOK ==
    /\ scheduled \in [Slot -> 0 .. MaxTraced]
    /\ terminal \in [Slot -> 0 .. MaxTraced]
    /\ sealed \in [Slot -> BOOLEAN]
    /\ finalized \in [Slot -> BOOLEAN]
    /\ queued \in [Slot -> [Token -> Nat]]
    /\ flying \in [Slot -> [Token -> Nat]]

RunTypeOK ==
    /\ pc \in [Goroutine -> Place]
    /\ mine \in [Goroutine -> Slot \union {None}]
    /\ index \in [Submitter -> 0 .. BMax - 1]
    /\ prep \in [at : {"idle", "waiting", "swap"}, slot : Slot, limit : 0 .. BMax]
    /\ up \in BOOLEAN

\* The values the state of node.go and trace_outbound.go can have; puncture
\* indexes stay below BMax and no more sends end than were admitted.
TypeOK == SlotTypeOK /\ SendTypeOK /\ RunTypeOK

\* The slot is not replaced under a handler or a send that holds lifecycleMu's
\* read lock: all it does in several steps is done to one slotState.
ReplacementWaits ==
    /\ \A g \in Goroutine : pc[g] \in ReadPlace => mine[g] = id
    /\ \A s \in Slot, token \in Token : flying[s][token] > 0 => s = id

\* No two transactions that handleSubmitTx accepted for a slot were encrypted
\* for the same puncture index, however requests overlap.
DistinctIndexes ==
    \A i, j \in 1 .. Len(pending) : i # j => pending[i] # pending[j]

\* What startConsensus read for the proposal is all that was ever accepted
\* for the slot, and the limit it was prepared with: nothing is accepted into
\* a slot whose proposal is already fixed.
ProposalFrozen ==
    proposal # None => proposal = [items |-> pending, limit |-> limit]

\* When a completed slot is replaced, every send admitted to its trace has
\* been made: none of them is left to be dropped as stale.
CompletedDrains ==
    [][id' # id /\ phase = "completed" => Waiting(id, "token") = 0]_vars

\* What an answer says of the end of the slot and of the sends of its trace.
Sends(a) == <<a.outcome, a.scheduled, a.terminal>>

\* The answers of /result for a slot agree on how it ended and on the sends of
\* its trace, all of which have ended: nothing that is still sent or output
\* changes them.  What the trace says of receptions and of milestones does
\* change, with every ACS envelope that comes after the answer.
PublishedStable ==
    \A a, b \in published : Sends(a) = Sends(b) /\ a.terminal = a.scheduled

\* A slot that has completed or failed stays as it ended, whichever of start,
\* ACS output and combination comes late.
EndStays == [][Ended => phase' = phase \/ id' # id]_vars

(***************************************************************************)
(* The slots of a node are those of SlotOutcome: whichever goroutine comes *)
(* late, a plan is stored once and not in a slot that has failed, a result *)
(* follows the shares of its own plan, an empty slot makes none, and the   *)
(* next slot takes over from an ended one only (node.go:293-330, 488-499,  *)
(* 731-804, 840-868, 950, 1298-1314).                                      *)
(***************************************************************************)
Promise == INSTANCE SlotOutcome WITH slot <- id, started <- once

KeepsPromise == Promise!Spec

\* A sealed trace is finalized as soon as none of the sends admitted to it is
\* left, whether the last of them ended before the seal or after: nothing else
\* would ever finalize it, and its slot could be neither published nor replaced.
SealSettles ==
    \A s \in Slot : sealed[s] /\ Waiting(s, "token") = 0 => finalized[s]

\* The slotState whose mutex handleStart has locked is still the active one,
\* as it would be if lifecycleMu kept it from being replaced.
LockedSlotStays == \A c \in Starter : pc[c] = "locked" => mine[c] = id
=============================================================================
