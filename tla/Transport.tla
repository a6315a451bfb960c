------------------------------ MODULE Transport ------------------------------
(***************************************************************************)
(* Node-to-node transport (bloc-node/internal/app/transport_libp2p*.go):   *)
(* Send, the writer goroutine of every peer and lane, the prewarm and dial *)
(* loops, the handler of every inbound stream with its dispatcher, and     *)
(* Close; of the node around it, the lock that sends, handlers and         *)
(* /slot/prepare share (Node.lifecycleMu).                                 *)
(*                                                                         *)
(* A step is what a goroutine does between two operations on a channel, a  *)
(* stream or a lock that another goroutine can see.  Where a Go select     *)
(* finds several cases ready, the model may take any.  The context of a    *)
(* send is done from the moment its caller returns (defer cancel); that    *)
(* its deadline has passed a moment earlier is seen by nobody else.        *)
(* Durations, logging and metrics are left out.  libp2p itself is external:*)
(* a stream is a sequence of frames that can be reset at any time, after   *)
(* which its reader may still find frames it has buffered, or not.         *)
(***************************************************************************)
EXTENDS Naturals, Sequences, FiniteSets

CONSTANTS
    Node,            \* operator IDs
    Link,            \* ordered pairs of nodes: who may send to whom
    Mode,            \* values of Network.StreamMode to consider
    Call,            \* calls of LibP2PTransport.Send
    Kind,            \* what callers and a faulty node send: "share", an ACS
                     \* subtype, "bad" (a payload the codec does not know) or
                     \* "mismatch" (a payload other than the kind says)
    MaxStreams,      \* bound: streams opened
    QueueCapacity,   \* persistentQueueCapacity
    InboundCapacity, \* persistentInboundQueueCapacity
    Window,          \* frames a stream holds before a write blocks
    MaxDrops,        \* bound: connections lost
    Rogue,           \* calls at which a faulty node may send something else
    Forged,          \* what it may send
    LaneInUse,       \* bound: the lanes considered in mode "persistent-lanes"
    MaxAttempts,     \* bound: calls of prewarmStream
    MaxClosed,       \* bound: nodes that are closed
    Preparing,       \* bound: nodes at which /slot/prepare is called
    None

ASSUME NodeAssumption ==
    Node \subseteq Nat /\ Link \subseteq Node \X Node /\ Preparing \subseteq Node

ASSUME ModeAssumption == Mode \subseteq {"fresh", "persistent", "persistent-lanes"}

ASSUME FrameAssumption ==
    /\ Rogue \subseteq Call
    /\ Forged \subseteq [from : Node, to : Node, kind : Kind]
    /\ LaneInUse \subseteq {"control", "data"}

ASSUME BoundAssumption ==
    /\ MaxStreams \in Nat
    /\ QueueCapacity \in Nat \ {0}
    /\ InboundCapacity \in Nat \ {0}
    /\ Window \in Nat \ {0}
    /\ MaxDrops \in Nat
    /\ MaxAttempts \in Nat
    /\ MaxClosed \in Nat

Stream == 1 .. MaxStreams

\* The lanes of a stream mode; with "fresh" they have no writer.
Lanes(m) ==
    CASE m = "persistent" -> {"single"}
      [] m = "persistent-lanes" -> LaneInUse
      [] OTHER -> {"fresh"}

\* A peer's lane: who writes, who reads, and the protocol of the streams.
Chan == {<<l[1], l[2], lane>> : l \in Link, lane \in UNION {Lanes(m) : m \in Mode}}

ASSUME NoneAssumption == None \notin Call /\ None \notin Chan

\* A WireEnvelope, with the call of Send that it comes from.
Frame == [call : Call, from : Node, to : Node, kind : Kind]

\* The payloads that have a form in the protocol buffers.
AgreementKind == {"bval", "aux"}
BroadcastKind == {"proof", "echo", "ready"}
ACSKind == AgreementKind \union BroadcastKind

\* What Encode gives a form, and what Decode makes an envelope of: it goes by
\* the payload alone.
Encodes(kind) == kind \in ACSKind \union {"share"}

Decodes(kind) == Encodes(kind) \/ kind = "mismatch"

validateEnvelopePayload(kind) == kind \in ACSKind \union {"share"}

classifyEnvelopeLane(kind) ==
    IF kind \in AgreementKind \union {"ready"} THEN "control" ELSE "data"

VARIABLES
    mode,       \* cfg.Network.StreamMode of the cluster
    env,        \* the envelope of each call of Send, None before it
    via,        \* the channel it takes, None before
    spc,        \* where the call is; "ok" and "failed" once it has returned
    fstream,    \* the stream a call opened in fresh mode, or 0
    queue,      \* peerStreamWriter.queue
    wpc,        \* where peerStreamWriter.run is
    cur,        \* the call whose request it serves
    stream,     \* its stream, 0 for nil
    ready,      \* peerStreamWriter.ready
    ppc,        \* where prewarmPersistentWriter is
    prewarm,    \* peerStreamWriter.prewarm: "empty", or a request that is
                \* "live", or "stale" once its caller has given up
    pcur,       \* the prewarm request that run serves, alike
    attempts,   \* calls of prewarmStream
    chan,       \* the channel each stream belongs to, None before it is opened
    state,      \* "unused", "open", "eof" after CloseWrite, "reset"
    wire,       \* frames written and not yet read
    written,    \* all frames written to the stream
    ipc,        \* where the stream's inbound handler is
    held,       \* the frame it is about to put into deliveries
    deliveries, \* the channel of that name
    handling,   \* the frame whose t.handler call has not returned
    handled,    \* the frames whose t.handler call has returned
    conn,       \* links with a libp2p connection
    dialing,    \* links on which connectPeerWithRetry is running
    drops,      \* connections lost
    phase,      \* of Close: "up", "closing", "down" (host closed), "closed"
    prepare     \* a /slot/prepare of the node waits for the write lock of
                \* Node.lifecycleMu, or has it

sendVars == <<env, via, spc, fstream>>
writerVars == <<queue, wpc, cur, stream, ready>>
prewarmVars == <<ppc, prewarm, pcur, attempts>>
streamVars == <<chan, state, wire, written>>
inboundVars == <<ipc, held, deliveries, handling, handled>>
netVars == <<conn, dialing, drops>>

vars == <<mode, env, via, spc, fstream, queue, wpc, cur, stream, ready, ppc,
          prewarm, pcur, attempts, chan, state, wire, written, ipc, held,
          deliveries, handling, handled, conn, dialing, drops, phase, prepare>>

-----------------------------------------------------------------------------
From(c) == c[1]
To(c) == c[2]

\* persistentStop is closed and the lifecycle context cancelled.
Stopped(n) == phase[n] # "up"

HostUp(n) == phase[n] \in {"up", "closing"}

Returned(s) == spc[s] \in {"ok", "failed"}

\* The call was made at node n and has not returned: the read lock of the node's
\* lifecycleMu is held (sendEnvelopeTracked).
UnderWay(s, n) == spc[s] # "idle" /\ ~Returned(s) /\ From(via[s]) = n

\* The channel has a writer: its lane is one of the stream mode's.
HasWriter(c) == mode # "fresh" /\ c[3] \in Lanes(mode)

\* The lane on which an envelope of some kind travels.
LaneOf(kind) ==
    CASE mode = "persistent" -> "single"
      [] mode = "persistent-lanes" -> classifyEnvelopeLane(kind)
      [] OTHER -> "fresh"

authenticatedOutboundEnvelope(s, l, kind) ==
    [call |-> s, from |-> l[1], to |-> l[2], kind |-> kind]

\* The sender is the operator whose key the connection was made with.
validateAuthenticatedEnvelope(f, c) == f.from = From(c) /\ f.to = To(c)

\* The checks a receiver makes on a frame before it hands it over.
Valid(f, c) ==
    /\ Decodes(f.kind)
    /\ validateEnvelopePayload(f.kind)
    /\ validateAuthenticatedEnvelope(f, c)
    /\ mode = "persistent-lanes" => classifyEnvelopeLane(f.kind) = c[3]

Init ==
    /\ mode \in Mode
    /\ env = [s \in Call |-> None]
    /\ via = [s \in Call |-> None]
    /\ spc = [s \in Call |-> "idle"]
    /\ fstream = [s \in Call |-> 0]
    /\ queue = [c \in Chan |-> <<>>]
    /\ wpc = [c \in Chan |-> IF HasWriter(c) THEN "select" ELSE "done"]
    /\ cur = [c \in Chan |-> None]
    /\ stream = [c \in Chan |-> 0]
    /\ ready = [c \in Chan |-> FALSE]
    /\ ppc = [c \in Chan |-> IF HasWriter(c) THEN "check" ELSE "done"]
    /\ prewarm = [c \in Chan |-> "empty"]
    /\ pcur = [c \in Chan |-> "empty"]
    /\ attempts = 0
    /\ chan = [k \in Stream |-> None]
    /\ state = [k \in Stream |-> "unused"]
    /\ wire = [k \in Stream |-> <<>>]
    /\ written = [k \in Stream |-> <<>>]
    /\ ipc = [k \in Stream |-> "none"]
    /\ held = [k \in Stream |-> <<>>]
    /\ deliveries = [k \in Stream |-> <<>>]
    /\ handling = [k \in Stream |-> <<>>]
    /\ handled = [k \in Stream |-> <<>>]
    /\ conn = {}
    /\ dialing = {l \in Link : l[1] < l[2]}
    /\ drops = 0
    /\ phase = [n \in Node |-> "up"]
    /\ prepare = [n \in Node |-> FALSE]

-----------------------------------------------------------------------------
(* Streams (libp2p). *)

\* host.NewStream: stream k becomes c's; its far end has a handler to start.
NewStream(k, c, st) ==
    /\ state[k] = "unused"
    /\ \A j \in 1 .. k - 1 : state[j] # "unused"
    /\ HostUp(From(c)) /\ HostUp(To(c))
    /\ chan' = [chan EXCEPT ![k] = c]
    /\ state' = [state EXCEPT ![k] = st]
    /\ ipc' = [ipc EXCEPT ![k] = "pending"]
    /\ UNCHANGED <<wire, written, held, deliveries, handling, handled>>

\* stream.Reset, where k may be 0 for nil.
Reset(k) == state' = [j \in Stream |-> IF j = k THEN "reset" ELSE state[j]]

\* A frame goes out on stream k.
Put(k, f) ==
    /\ state[k] = "open"
    /\ Len(wire[k]) < Window
    /\ wire' = [wire EXCEPT ![k] = Append(@, f)]
    /\ written' = [written EXCEPT ![k] = Append(@, f)]

\* An existing connection, whichever side dialed it.
Connected(c) == <<From(c), To(c)>> \in conn \/ <<To(c), From(c)>> \in conn

\* Streams of the peer's protocol, or of the lane's; a send dials if need be,
\* a prewarm does not.
openPersistentOutboundStream(c, k, st) ==
    NewStream(k, c, st) /\ conn' = conn \union {<<From(c), To(c)>>}

openPersistentOutboundStreamWithoutDial(c, k, st) ==
    Connected(c) /\ NewStream(k, c, st)

-----------------------------------------------------------------------------
(* Send, up to the writer's queue, and peerStreamWriter.send. *)

\* Send(ctx, l[2], env) at node l[1], under the read lock, for which a waiting
\* /slot/prepare goes first: an envelope that cannot be classified or encoded, or
\* is too large, is refused at once.
Send(s, l, kind) ==
    /\ spc[s] = "idle"
    /\ ~prepare[l[1]]
    /\ LaneOf(kind) \in Lanes(mode)
    /\ env' = [env EXCEPT ![s] = authenticatedOutboundEnvelope(s, l, kind)]
    /\ via' = [via EXCEPT ![s] = <<l[1], l[2], LaneOf(kind)>>]
    /\ spc' = [spc EXCEPT ![s] = IF ~Encodes(kind) THEN "failed"
                                 ELSE IF mode = "fresh" THEN "open" ELSE "enqueue"]
    /\ UNCHANGED <<mode, fstream, writerVars, prewarmVars, streamVars, inboundVars,
                   netVars, phase, prepare>>

\* A faulty node sends what it likes on any of its streams.
Missend(s, c, f) ==
    /\ spc[s] = "idle"
    /\ s \in Rogue
    /\ c[3] \in Lanes(mode)
    /\ env' = [env EXCEPT ![s] =
                 [call |-> s, from |-> f.from, to |-> f.to, kind |-> f.kind]]
    /\ via' = [via EXCEPT ![s] = c]
    /\ spc' = [spc EXCEPT ![s] = IF mode = "fresh" THEN "open" ELSE "enqueue"]
    /\ UNCHANGED <<mode, fstream, writerVars, prewarmVars, streamVars, inboundVars,
                   netVars, phase, prepare>>

Enqueue(s) ==
    /\ spc[s] = "enqueue"
    /\ Len(queue[via[s]]) < QueueCapacity
    /\ queue' = [queue EXCEPT ![via[s]] = Append(@, s)]
    /\ spc' = [spc EXCEPT ![s] = "wait"]
    /\ UNCHANGED <<mode, env, via, fstream, wpc, cur, stream, ready, prewarmVars,
                   streamVars, inboundVars, netVars, phase, prepare>>

\* The caller leaves one of its two selects.
Return(s, at, outcome) ==
    /\ spc[s] \in at
    /\ spc' = [spc EXCEPT ![s] = outcome]
    /\ UNCHANGED <<mode, env, via, fstream, writerVars, prewarmVars, streamVars,
                   inboundVars, netVars, phase, prepare>>

\* The deadline of the context, ten seconds or the caller's.
SendExpires(s) == Return(s, {"enqueue", "wait"}, "failed")

\* Variant for mutation: a request that is queued waits for its result only.
SendStoppedEarly(s) == Return(s, {"enqueue"}, "failed") /\ Stopped(From(via[s]))

SendStopped(s) == Return(s, {"enqueue", "wait"}, "failed") /\ Stopped(From(via[s]))

-----------------------------------------------------------------------------
(* sendStream: a stream of its own for one envelope. *)

FreshOpen(s, k) ==
    /\ spc[s] = "open"
    /\ NewStream(k, via[s], "open")
    /\ conn' = conn \union {<<From(via[s]), To(via[s])>>}
    /\ fstream' = [fstream EXCEPT ![s] = k]
    /\ spc' = [spc EXCEPT ![s] = "write"]
    /\ UNCHANGED <<mode, env, via, writerVars, prewarmVars, dialing, drops,
                   phase, prepare>>

FreshWrite(s) ==
    /\ spc[s] = "write"
    /\ Put(fstream[s], env[s])
    /\ spc' = [spc EXCEPT ![s] = "finish"]
    /\ UNCHANGED <<mode, env, via, fstream, writerVars, prewarmVars, chan, state,
                   inboundVars, netVars, phase, prepare>>

FreshFinish(s) ==
    /\ spc[s] = "finish"
    /\ state[fstream[s]] = "open"
    /\ state' = [state EXCEPT ![fstream[s]] = "eof"]
    /\ spc' = [spc EXCEPT ![s] = "ok"]
    /\ UNCHANGED <<mode, env, via, fstream, writerVars, prewarmVars, chan, wire,
                   written, inboundVars, netVars, phase, prepare>>

FreshFails(s) ==
    /\ spc[s] \in {"open", "write", "finish"}
    /\ Reset(fstream[s])
    /\ spc' = [spc EXCEPT ![s] = "failed"]
    /\ UNCHANGED <<mode, env, via, fstream, writerVars, prewarmVars, chan, wire,
                   written, inboundVars, netVars, phase, prepare>>

-----------------------------------------------------------------------------
(* peerStreamWriter.run. *)

\* resetStream, and the writer goes on at the given place.
Drop(c, at) ==
    /\ Reset(stream[c])
    /\ stream' = [stream EXCEPT ![c] = 0]
    /\ ready' = [ready EXCEPT ![c] = FALSE]
    /\ wpc' = [wpc EXCEPT ![c] = at]
    /\ cur' = [cur EXCEPT ![c] = None]
    /\ UNCHANGED <<chan, wire, written>>

\* request.result <- outcome.  A caller that still waits returns with it; the
\* channel has room for the answer to one that does not.
Answer(s, outcome) == spc' = [spc EXCEPT ![s] = IF @ = "wait" THEN outcome ELSE @]

StopWriter(c) ==
    /\ wpc[c] = "select"
    /\ Stopped(From(c))
    /\ Drop(c, "drain")
    /\ UNCHANGED <<mode, sendVars, queue, prewarmVars, inboundVars, netVars, phase, prepare>>

\* A request is received; a stopped writer turns it away and ends, and one
\* whose context is done is answered without being written.
TakeRequest(c) ==
    /\ wpc[c] = "select"
    /\ queue[c] # <<>>
    /\ queue' = [queue EXCEPT ![c] = Tail(@)]
    /\ \/ /\ Stopped(From(c))
          /\ Answer(Head(queue[c]), "failed")
          /\ Drop(c, "drain")
       \/ /\ ~Stopped(From(c))
          /\ Returned(Head(queue[c]))
          /\ Answer(Head(queue[c]), "failed")
          /\ UNCHANGED <<wpc, cur, stream, ready, streamVars>>
       \/ /\ ~Stopped(From(c))
          /\ ~Returned(Head(queue[c]))
          /\ cur' = [cur EXCEPT ![c] = Head(queue[c])]
          /\ wpc' = [wpc EXCEPT ![c] = IF stream[c] = 0 THEN "open" ELSE "write"]
          /\ UNCHANGED <<spc, stream, ready, streamVars>>
    /\ UNCHANGED <<mode, env, via, fstream, prewarmVars, inboundVars, netVars, phase, prepare>>

\* writeRequest opens a stream, dialing if need be, and looks at the context
\* again.
OpenStream(c, k) ==
    /\ wpc[c] = "open"
    /\ \/ /\ Returned(cur[c])
          /\ openPersistentOutboundStream(c, k, "reset")
          /\ Answer(cur[c], "failed")
          /\ wpc' = [wpc EXCEPT ![c] = "select"]
          /\ cur' = [cur EXCEPT ![c] = None]
          /\ ready' = [ready EXCEPT ![c] = FALSE]
          /\ UNCHANGED stream
       \/ /\ ~Returned(cur[c])
          /\ openPersistentOutboundStream(c, k, "open")
          /\ stream' = [stream EXCEPT ![c] = k]
          /\ ready' = [ready EXCEPT ![c] = TRUE]
          /\ wpc' = [wpc EXCEPT ![c] = "write"]
          /\ UNCHANGED <<spc, cur>>
    /\ UNCHANGED <<mode, env, via, fstream, queue, prewarmVars, dialing, drops,
                   phase, prepare>>

WriteFrame(c) ==
    /\ wpc[c] = "write"
    /\ Put(stream[c], env[cur[c]])
    /\ wpc' = [wpc EXCEPT ![c] = "sent"]
    /\ UNCHANGED <<mode, sendVars, queue, cur, stream, ready, prewarmVars, chan, state,
                   inboundVars, netVars, phase, prepare>>

\* Variant for mutation: a request whose write is cut short goes back to the
\* queue.
RequestFailsRequeued(c) ==
    /\ wpc[c] \in {"open", "write", "sent"}
    /\ queue' = [queue EXCEPT ![c] = Append(@, cur[c])]
    /\ Drop(c, "select")
    /\ UNCHANGED <<mode, sendVars, prewarmVars, inboundVars, netVars, phase, prepare>>

\* Opening or writing fails: the stream is broken, the deadline passes.
RequestFails(c) ==
    /\ wpc[c] \in {"open", "write"}
    /\ Answer(cur[c], "failed")
    /\ Drop(c, "select")
    /\ UNCHANGED <<mode, env, via, fstream, queue, prewarmVars, inboundVars, netVars,
                   phase, prepare>>

\* The frame is out: success, unless the writer was stopped meanwhile.
FinishRequest(c) ==
    /\ wpc[c] = "sent"
    /\ \/ /\ Stopped(From(c))
          /\ Answer(cur[c], "failed")
          /\ Drop(c, "select")
       \/ /\ ~Stopped(From(c))
          /\ Answer(cur[c], "ok")
          /\ wpc' = [wpc EXCEPT ![c] = "select"]
          /\ cur' = [cur EXCEPT ![c] = None]
          /\ UNCHANGED <<stream, ready, streamVars>>
    /\ UNCHANGED <<mode, env, via, fstream, queue, prewarmVars, inboundVars, netVars,
                   phase, prepare>>

\* A prewarm request is answered.  Its caller, if it still waits, ends its
\* loop on success and else tries again; the answer to a stale request goes
\* to a channel that nobody reads.
AnswerPrewarm(c, request, at) ==
    ppc' = [ppc EXCEPT ![c] = IF request = "live" THEN at ELSE @]

FailQueued(c) ==
    /\ wpc[c] = "drain"
    /\ \/ /\ queue[c] # <<>>
          /\ queue' = [queue EXCEPT ![c] = Tail(@)]
          /\ Answer(Head(queue[c]), "failed")
          /\ UNCHANGED <<wpc, ppc, prewarm>>
       \/ /\ queue[c] = <<>>
          /\ prewarm' = [prewarm EXCEPT ![c] = "empty"]
          /\ AnswerPrewarm(c, prewarm[c], "check")
          /\ wpc' = [wpc EXCEPT ![c] = "done"]
          /\ UNCHANGED <<queue, spc>>
    /\ UNCHANGED <<mode, env, via, fstream, cur, stream, ready, pcur, attempts, streamVars,
                   inboundVars, netVars, phase, prepare>>

TakePrewarm(c) ==
    /\ wpc[c] = "select"
    /\ prewarm[c] # "empty"
    /\ prewarm' = [prewarm EXCEPT ![c] = "empty"]
    /\ \/ /\ Stopped(From(c))
          /\ AnswerPrewarm(c, prewarm[c], "check")
          /\ Drop(c, "drain")
          /\ UNCHANGED pcur
       \/ /\ ~Stopped(From(c))
          /\ prewarm[c] = "stale" \/ stream[c] # 0
          /\ AnswerPrewarm(c, prewarm[c], "done")
          /\ UNCHANGED <<pcur, wpc, cur, stream, ready, streamVars>>
       \/ /\ ~Stopped(From(c))
          /\ prewarm[c] = "live" /\ stream[c] = 0
          /\ pcur' = [pcur EXCEPT ![c] = "live"]
          /\ wpc' = [wpc EXCEPT ![c] = "prewarm"]
          /\ UNCHANGED <<ppc, cur, stream, ready, streamVars>>
    /\ UNCHANGED <<mode, sendVars, queue, attempts, inboundVars, netVars, phase, prepare>>

\* openPrewarmedStream opens a stream on an existing connection; it is kept
\* when the writer is not stopped and the protocol negotiation completes.
PrewarmOpen(c, k) ==
    /\ wpc[c] = "prewarm"
    /\ wpc' = [wpc EXCEPT ![c] = "select"]
    /\ pcur' = [pcur EXCEPT ![c] = "empty"]
    /\ \/ /\ openPersistentOutboundStreamWithoutDial(c, k, "reset")
          /\ AnswerPrewarm(c, pcur[c], "check")
          /\ UNCHANGED <<stream, ready>>
       \/ /\ ~Stopped(From(c))
          /\ openPersistentOutboundStreamWithoutDial(c, k, "open")
          /\ stream' = [stream EXCEPT ![c] = k]
          /\ ready' = [ready EXCEPT ![c] = TRUE]
          /\ AnswerPrewarm(c, pcur[c], "done")
    /\ UNCHANGED <<mode, sendVars, queue, cur, prewarm, attempts, netVars, phase, prepare>>

PrewarmFails(c) ==
    /\ wpc[c] = "prewarm"
    /\ wpc' = [wpc EXCEPT ![c] = "select"]
    /\ pcur' = [pcur EXCEPT ![c] = "empty"]
    /\ AnswerPrewarm(c, pcur[c], "check")
    /\ UNCHANGED <<mode, sendVars, queue, cur, stream, ready, prewarm, attempts, streamVars,
                   inboundVars, netVars, phase, prepare>>

-----------------------------------------------------------------------------
(* prewarmPersistentWriter and prewarmStream; the pause between attempts is *)
(* spent at "check".                                                        *)

PrewarmQuits(c) ==
    /\ ppc[c] = "check"
    /\ Stopped(From(c))
    /\ ppc' = [ppc EXCEPT ![c] = "done"]
    /\ UNCHANGED <<mode, sendVars, writerVars, prewarm, pcur, attempts, streamVars,
                   inboundVars, netVars, phase, prepare>>

PrewarmCalls(c) ==
    /\ ppc[c] = "check"
    /\ ~Stopped(From(c))
    /\ Connected(c)
    /\ prewarm[c] = "empty"
    /\ attempts < MaxAttempts
    /\ attempts' = attempts + 1
    /\ prewarm' = [prewarm EXCEPT ![c] = "live"]
    /\ ppc' = [ppc EXCEPT ![c] = "wait"]
    /\ UNCHANGED <<mode, sendVars, writerVars, pcur, streamVars, inboundVars,
                   netVars, phase, prepare>>

\* After two seconds, or because the transport stops, the request is
\* abandoned wherever it is.
PrewarmExpires(c) ==
    /\ ppc[c] = "wait"
    /\ ppc' = [ppc EXCEPT ![c] = "check"]
    /\ prewarm' = [prewarm EXCEPT ![c] = IF @ = "live" THEN "stale" ELSE @]
    /\ pcur' = [pcur EXCEPT ![c] = IF @ = "live" THEN "stale" ELSE @]
    /\ UNCHANGED <<mode, sendVars, writerVars, attempts, streamVars, inboundVars, netVars,
                   phase, prepare>>

-----------------------------------------------------------------------------
(* handleFreshStream and handlePersistentStreamForLane. *)

\* Variant for mutation: the handler starts whether or not Close was called.
AcceptAlways(k) ==
    /\ ipc[k] = "pending"
    /\ ipc' = [ipc EXCEPT ![k] = "read"]
    /\ UNCHANGED <<mode, sendVars, writerVars, prewarmVars, streamVars, held,
                   deliveries, handling, handled, netVars, phase, prepare>>

\* beginInboundHandler.
Accept(k) ==
    /\ ipc[k] = "pending"
    /\ \/ /\ Stopped(To(chan[k]))
          /\ ipc' = [ipc EXCEPT ![k] = "done"]
          /\ Reset(k)
       \/ /\ ~Stopped(To(chan[k]))
          /\ ipc' = [ipc EXCEPT ![k] = "read"]
          /\ UNCHANGED state
    /\ UNCHANGED <<mode, sendVars, writerVars, prewarmVars, chan, wire, written, held,
                   deliveries, handling, handled, netVars, phase, prepare>>

\* A whole frame is read.  A persistent stream with a frame that is not valid
\* is reset; the one frame of a fresh stream is handled by the reader itself.
ReadFrame(k) ==
    /\ ipc[k] = "read"
    /\ wire[k] # <<>>
    /\ wire' = [wire EXCEPT ![k] = Tail(@)]
    /\ \/ /\ ~Valid(Head(wire[k]), chan[k])
          /\ ipc' = [ipc EXCEPT ![k] = "drain"]
          /\ IF mode = "fresh" THEN state[k] = "eof" /\ UNCHANGED state ELSE Reset(k)
          /\ UNCHANGED <<held, handling>>
       \/ /\ Valid(Head(wire[k]), chan[k])
          /\ mode # "fresh"
          /\ ipc' = [ipc EXCEPT ![k] = "offer"]
          /\ held' = [held EXCEPT ![k] = <<Head(wire[k])>>]
          /\ UNCHANGED <<state, handling>>
       \/ /\ Valid(Head(wire[k]), chan[k])
          /\ mode = "fresh"
          /\ state[k] = "eof"
          /\ ipc' = [ipc EXCEPT ![k] = "drain"]
          /\ handling' = [handling EXCEPT ![k] = <<Head(wire[k])>>]
          /\ UNCHANGED <<state, held>>
    /\ UNCHANGED <<mode, sendVars, writerVars, prewarmVars, chan, written, deliveries,
                   handled, netVars, phase, prepare>>

\* The stream was reset or has ended.
ReadEnds(k) ==
    /\ ipc[k] = "read"
    /\ state[k] = "reset" \/ (state[k] = "eof" /\ wire[k] = <<>>)
    /\ ipc' = [ipc EXCEPT ![k] = "drain"]
    /\ UNCHANGED <<mode, sendVars, writerVars, prewarmVars, streamVars, held,
                   deliveries, handling, handled, netVars, phase, prepare>>

\* The frame goes into deliveries; that waits for room.
Offer(k) ==
    /\ ipc[k] = "offer"
    /\ Len(deliveries[k]) < InboundCapacity
    /\ deliveries' = [deliveries EXCEPT ![k] = @ \o held[k]]
    /\ held' = [held EXCEPT ![k] = <<>>]
    /\ ipc' = [ipc EXCEPT ![k] = "read"]
    /\ UNCHANGED <<mode, sendVars, writerVars, prewarmVars, streamVars, handling,
                   handled, netVars, phase, prepare>>

\* Variant for mutation: the reader drops the frame and goes on.
OfferStoppedContinues(k) ==
    /\ ipc[k] = "offer"
    /\ Stopped(To(chan[k]))
    /\ held' = [held EXCEPT ![k] = <<>>]
    /\ ipc' = [ipc EXCEPT ![k] = "read"]
    /\ UNCHANGED <<mode, sendVars, writerVars, prewarmVars, streamVars, deliveries,
                   handling, handled, netVars, phase, prepare>>

OfferStopped(k) ==
    /\ ipc[k] = "offer"
    /\ Stopped(To(chan[k]))
    /\ held' = [held EXCEPT ![k] = <<>>]
    /\ ipc' = [ipc EXCEPT ![k] = "drain"]
    /\ UNCHANGED <<mode, sendVars, writerVars, prewarmVars, streamVars, deliveries,
                   handling, handled, netVars, phase, prepare>>

\* The dispatcher takes the next delivery; the handler runs.
Dispatch(k) ==
    /\ handling[k] = <<>>
    /\ deliveries[k] # <<>>
    /\ handling' = [handling EXCEPT ![k] = <<Head(deliveries[k])>>]
    /\ deliveries' = [deliveries EXCEPT ![k] = Tail(@)]
    /\ UNCHANGED <<mode, sendVars, writerVars, prewarmVars, streamVars, ipc, held,
                   handled, netVars, phase, prepare>>

\* The handler returns: Node.handleEnvelope takes the read lock of lifecycleMu,
\* for which a waiting /slot/prepare goes first, and waits for nothing else.
Handle(k) ==
    /\ handling[k] # <<>>
    /\ ~prepare[To(chan[k])]
    /\ handled' = [handled EXCEPT ![k] = @ \o handling[k]]
    /\ handling' = [handling EXCEPT ![k] = <<>>]
    /\ UNCHANGED <<mode, sendVars, writerVars, prewarmVars, streamVars, ipc, held,
                   deliveries, netVars, phase, prepare>>

\* deliveries is closed and the dispatcher has ended; the stream is closed,
\* and inboundWG counts the handler no more.
InboundDone(k) ==
    /\ ipc[k] = "drain"
    /\ deliveries[k] = <<>> /\ handling[k] = <<>>
    /\ ipc' = [ipc EXCEPT ![k] = "done"]
    /\ Reset(k)
    /\ UNCHANGED <<mode, sendVars, writerVars, prewarmVars, chan, wire, written, held,
                   deliveries, handling, handled, netVars, phase, prepare>>

-----------------------------------------------------------------------------
(* Connections and faults. *)

\* connectPeerWithRetry succeeds, once.
Connect(l) ==
    /\ l \in dialing
    /\ ~Stopped(l[1])
    /\ HostUp(l[2])
    /\ dialing' = dialing \ {l}
    /\ conn' = conn \union {l}
    /\ UNCHANGED <<mode, sendVars, writerVars, prewarmVars, streamVars, inboundVars,
                   drops, phase, prepare>>

\* The streams among a set of channels break.
Break(C) ==
    state' = [k \in Stream |->
                IF chan[k] \in C /\ state[k] # "unused" THEN "reset" ELSE state[k]]

\* The connections of a link are lost, and its streams with them.
Disconnect(l) ==
    /\ drops < MaxDrops
    /\ conn \intersect {l, <<l[2], l[1]>>} # {}
    /\ drops' = drops + 1
    /\ conn' = conn \ {l, <<l[2], l[1]>>}
    /\ Break({c \in Chan : {From(c), To(c)} = {l[1], l[2]}})
    /\ UNCHANGED <<mode, sendVars, writerVars, prewarmVars, chan, wire, written,
                   inboundVars, dialing, phase, prepare>>

-----------------------------------------------------------------------------
(* Close. *)

\* closing is set, the context cancelled and persistentStop closed, under
\* lifecycleMu.
CloseBegins(n) ==
    /\ phase[n] = "up"
    /\ Cardinality({m \in Node : Stopped(m)}) < MaxClosed
    /\ phase' = [phase EXCEPT ![n] = "closing"]
    /\ UNCHANGED <<mode, sendVars, writerVars, prewarmVars, streamVars, inboundVars,
                   netVars, prepare>>

\* host.Close.
CloseHost(n) ==
    /\ phase[n] = "closing"
    /\ phase' = [phase EXCEPT ![n] = "down"]
    /\ conn' = {l \in conn : l[1] # n /\ l[2] # n}
    /\ Break({c \in Chan : n \in {From(c), To(c)}})
    /\ UNCHANGED <<mode, sendVars, writerVars, prewarmVars, chan, wire, written,
                   inboundVars, dialing, drops, prepare>>

\* Everything Close waits for has ended: the writers, the prewarm loops and
\* the inbound handlers that began.
Idle(n) ==
    /\ \A c \in Chan : From(c) = n => wpc[c] = "done" /\ ppc[c] = "done"
    /\ \A k \in Stream : chan[k] # None /\ To(chan[k]) = n =>
                             ipc[k] \in {"pending", "done"}

CloseReturns(n) ==
    /\ phase[n] = "down"
    /\ Idle(n)
    /\ phase' = [phase EXCEPT ![n] = "closed"]
    /\ UNCHANGED <<mode, sendVars, writerVars, prewarmVars, streamVars, inboundVars,
                   netVars, prepare>>

-----------------------------------------------------------------------------
(* /slot/prepare (prepareSlotWithLimit; SlotLifecycle has what it does). *)

\* The write lock of lifecycleMu is asked for, and new readers wait.
PrepareSlot(n) ==
    /\ n \in Preparing
    /\ ~prepare[n]
    /\ prepare' = [prepare EXCEPT ![n] = TRUE]
    /\ UNCHANGED <<mode, sendVars, writerVars, prewarmVars, streamVars, inboundVars,
                   netVars, phase>>

\* It is had once no send of the node is under way, and released.
PrepareSlotDone(n) ==
    /\ prepare[n]
    /\ \A s \in Call : ~UnderWay(s, n)
    /\ prepare' = [prepare EXCEPT ![n] = FALSE]
    /\ UNCHANGED <<mode, sendVars, writerVars, prewarmVars, streamVars, inboundVars,
                   netVars, phase>>

-----------------------------------------------------------------------------
\* What a call does but for its deadline in the queue.
Progress(s) ==
    \/ Enqueue(s) \/ SendStopped(s)
    \/ (\E k \in Stream : FreshOpen(s, k))
    \/ FreshWrite(s) \/ FreshFinish(s) \/ FreshFails(s)

Caller(s) ==
    \/ \E l \in Link, kind \in Kind : Send(s, l, kind)
    \/ \E c \in Chan, f \in Forged : Missend(s, c, f)
    \/ Progress(s) \/ SendExpires(s)

Writer(c) ==
    \/ StopWriter(c) \/ TakeRequest(c) \/ FailQueued(c)
    \/ (\E k \in Stream : OpenStream(c, k))
    \/ WriteFrame(c) \/ RequestFails(c) \/ FinishRequest(c)
    \/ TakePrewarm(c)
    \/ (\E k \in Stream : PrewarmOpen(c, k))
    \/ PrewarmFails(c)

Prewarmer(c) ==
    PrewarmQuits(c) \/ PrewarmCalls(c) \/ PrewarmExpires(c)

Reader(k) ==
    \/ Accept(k) \/ ReadFrame(k) \/ ReadEnds(k) \/ Offer(k) \/ OfferStopped(k)
    \/ InboundDone(k)

Dispatcher(k) == Dispatch(k) \/ Handle(k)

Lifecycle(n) ==
    \/ CloseBegins(n) \/ CloseHost(n) \/ CloseReturns(n)
    \/ PrepareSlot(n) \/ PrepareSlotDone(n)

Next ==
    \/ \E s \in Call : Caller(s)
    \/ \E c \in Chan : Writer(c) \/ Prewarmer(c)
    \/ \E k \in Stream : Reader(k) \/ Dispatcher(k)
    \/ \E l \in Link : Connect(l) \/ Disconnect(l)
    \/ \E n \in Node : Lifecycle(n)

Spec == Init /\ [][Next]_vars

-----------------------------------------------------------------------------
(* Properties. *)

Request == {"empty", "live", "stale"}

\* The types, and the capacities of the channels.
TypeOK ==
    /\ mode \in Mode
    /\ env \in [Call -> Frame \union {None}]
    /\ via \in [Call -> Chan \union {None}]
    /\ spc \in [Call -> {"idle", "enqueue", "wait", "open", "write", "finish",
                         "ok", "failed"}]
    /\ fstream \in [Call -> 0 .. MaxStreams]
    /\ queue \in [Chan -> Seq(Call)]
    /\ wpc \in [Chan -> {"select", "open", "write", "sent", "prewarm", "drain", "done"}]
    /\ cur \in [Chan -> Call \union {None}]
    /\ stream \in [Chan -> 0 .. MaxStreams]
    /\ ready \in [Chan -> BOOLEAN]
    /\ ppc \in [Chan -> {"check", "wait", "done"}]
    /\ prewarm \in [Chan -> Request]
    /\ pcur \in [Chan -> Request]
    /\ attempts \in 0 .. MaxAttempts
    /\ chan \in [Stream -> Chan \union {None}]
    /\ state \in [Stream -> {"unused", "open", "eof", "reset"}]
    /\ wire \in [Stream -> Seq(Frame)]
    /\ written \in [Stream -> Seq(Frame)]
    /\ ipc \in [Stream -> {"none", "pending", "read", "offer", "drain", "done"}]
    /\ held \in [Stream -> Seq(Frame)]
    /\ deliveries \in [Stream -> Seq(Frame)]
    /\ handling \in [Stream -> Seq(Frame)]
    /\ handled \in [Stream -> Seq(Frame)]
    /\ conn \subseteq Node \X Node
    /\ dialing \subseteq Link
    /\ drops \in 0 .. MaxDrops
    /\ phase \in [Node -> {"up", "closing", "down", "closed"}]
    /\ prepare \in [Node -> BOOLEAN]
    /\ \A c \in Chan : Len(queue[c]) <= QueueCapacity
    /\ \A k \in Stream : Len(deliveries[k]) <= InboundCapacity

\* What a stream hands to the node is, frame for frame, what was written to it so
\* far: nothing is lost, repeated or overtaken on the way through the inbound
\* queue, however slow the handler is and whenever Close comes; and each of these
\* frames names the operator at the other end, is addressed to this node and, in
\* lane mode, belongs to the lane (handlePersistentStreamForLane,
\* handleFreshStream, validateAuthenticatedEnvelope).
FaithfulDelivery ==
    \A k \in Stream :
        /\ Len(handled[k]) <= Len(written[k])
        /\ \A i \in DOMAIN handled[k] :
             /\ handled[k][i] = written[k][i]
             /\ handled[k][i].from = From(chan[k])
             /\ handled[k][i].to = To(chan[k])
             /\ mode = "persistent-lanes" =>
                    classifyEnvelopeLane(handled[k][i].kind) = chan[k][3]

\* A send that reported success has put its frame on a stream, and no call's
\* frame is ever written twice, on one stream or on two: a request whose caller
\* gave up, whose stream broke or which a stopping writer turned away is not
\* tried again (peerStreamWriter.send, run, writeRequest, failQueued).
ExactlyOnce ==
    /\ \A s \in Call : spc[s] = "ok" =>
         \E k \in Stream : \E i \in DOMAIN written[k] : written[k][i] = env[s]
    /\ \A j, k \in Stream :
         \A x \in DOMAIN written[j], y \in DOMAIN written[k] :
             written[j][x].call = written[k][y].call => j = k /\ x = y

\* Once Close has returned, the node's writers and prewarm loops are gone with
\* their streams, and no handler runs or will run.
QuietAfterClose ==
    \A n \in Node : phase[n] = "closed" =>
        /\ Idle(n)
        /\ \A c \in Chan : From(c) = n => stream[c] = 0 /\ ~ready[c]
        /\ \A k \in Stream : chan[k] # None /\ To(chan[k]) = n =>
                                 deliveries[k] = <<>> /\ handling[k] = <<>>

\* A write to stream k returns without its deadline: there is room, or the stream
\* is broken.
Writable(k) == state[k] # "open" \/ Len(wire[k]) < Window

\* What goroutines do by themselves: nobody has to send, to call Close or
\* /slot/prepare, to connect or to break a connection, and nobody is saved by the
\* deadline of a send or of a prewarm.
Step ==
    \/ \E s \in Call : Progress(s) /\ (spc[s] = "write" => Writable(fstream[s]))
    \/ \E c \in Chan : Writer(c) /\ (wpc[c] = "write" => Writable(stream[c]))
    \/ \E c \in Chan : Prewarmer(c) /\ (ppc[c] = "wait" => Stopped(From(c)))
    \/ \E k \in Stream : Reader(k) \/ Dispatcher(k)
    \/ \E n \in Node : CloseHost(n) \/ CloseReturns(n) \/ PrepareSlotDone(n)

\* Where each of them is when it has something to do.
CallerReady(s) ==
    \/ spc[s] = "enqueue" /\ Len(queue[via[s]]) < QueueCapacity
    \/ spc[s] \in {"enqueue", "wait"} /\ Stopped(From(via[s]))
    \/ spc[s] \in {"open", "finish"}
    \/ spc[s] = "write" /\ Writable(fstream[s])

WriterReady(c) ==
    \/ wpc[c] \in {"open", "sent", "prewarm", "drain"}
    \/ wpc[c] = "write" /\ Writable(stream[c])
    \/ wpc[c] = "select" /\ (Stopped(From(c)) \/ queue[c] # <<>> \/ prewarm[c] # "empty")

PrewarmerReady(c) ==
    \/ ppc[c] \in {"check", "wait"} /\ Stopped(From(c))
    \/ ppc[c] = "check" /\ Connected(c) /\ prewarm[c] = "empty" /\ attempts < MaxAttempts

ReaderReady(k) ==
    \/ ipc[k] = "pending"
    \/ /\ ipc[k] = "read"
       /\ state[k] \in {"reset", "eof"} \/ (mode # "fresh" /\ wire[k] # <<>>)
    \/ /\ ipc[k] = "offer"
       /\ Len(deliveries[k]) < InboundCapacity \/ Stopped(To(chan[k]))
    \/ ipc[k] = "drain" /\ deliveries[k] = <<>> /\ handling[k] = <<>>

DispatcherReady(k) ==
    \/ handling[k] = <<>> /\ deliveries[k] # <<>>
    \/ handling[k] # <<>> /\ ~prepare[To(chan[k])]

NodeReady(n) ==
    \/ phase[n] = "closing"
    \/ phase[n] = "down" /\ Idle(n)
    \/ prepare[n] /\ \A s \in Call : ~UnderWay(s, n)

SomebodyReady ==
    \/ \E s \in Call : CallerReady(s)
    \/ \E c \in Chan : WriterReady(c) \/ PrewarmerReady(c)
    \/ \E k \in Stream : ReaderReady(k) \/ DispatcherReady(k)
    \/ \E n \in Node : NodeReady(n)

\* Nobody waits for ever: every Close and /slot/prepare that was called has
\* returned, and so has every send, also one that reached the queue after a
\* stopping writer had drained it; and whatever was written to a stream that
\* nobody broke has been handled.
Settled ==
    /\ \A n \in Node : phase[n] \in {"up", "closed"} /\ ~prepare[n]
    /\ \A s \in Call : spc[s] = "idle" \/ Returned(s)
    /\ \A k \in Stream : state[k] \in {"open", "eof"} => handled[k] = written[k]

\* The call waits for its lane's writer.
Waits(s) == spc[s] \in {"enqueue", "wait"}

\* The one way in which everybody waits for everybody: there are calls that wait,
\* and the node to which each of them leads handles nothing, because a
\* /slot/prepare there waits for a send that waits itself.
Circle ==
    /\ \E s \in Call : Waits(s)
    /\ \A s \in Call : Waits(s) =>
         /\ prepare[To(via[s])]
         /\ \E r \in Call : Waits(r) /\ From(via[r]) = To(via[s])

\* Whoever waits in Close, in /slot/prepare, in Send or for a frame to be handled,
\* there is a goroutine that has something to do, other than to let a deadline
\* pass; the deadline of a send is needed in a circle of nodes alone, each of
\* which has a /slot/prepare waiting for its own sends (Send, run, failQueued, the
\* inbound handlers, handleEnvelope, prepareSlotWithLimit, Close).
SomebodyMoves == SomebodyReady \/ Settled \/ Circle

\* And it can do it: one of the steps above is possible wherever somebody is ready.
NothingStuck == SomebodyMoves /\ (SomebodyReady => ENABLED Step)
=============================================================================
