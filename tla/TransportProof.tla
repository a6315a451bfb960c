---------------------------- MODULE TransportProof ----------------------------
(***************************************************************************)
(* The transport, for any nodes, links, lanes, calls and capacities, and   *)
(* however its goroutines, lost connections, /slot/prepare and Close are   *)
(* interleaved.                                                            *)
(***************************************************************************)
EXTENDS Transport, TLAPS

(***************************************************************************)
(* The types, by the goroutines that the variables belong to.              *)
(***************************************************************************)
CallType ==
    /\ mode \in Mode
    /\ env \in [Call -> Frame \union {None}]
    /\ via \in [Call -> Chan \union {None}]
    /\ spc \in [Call -> {"idle", "enqueue", "wait", "open", "write", "finish",
                         "ok", "failed"}]
    /\ fstream \in [Call -> 0 .. MaxStreams]

WriterType ==
    /\ queue \in [Chan -> Seq(Call)]
    /\ wpc \in [Chan -> {"select", "open", "write", "sent", "prewarm", "drain", "done"}]
    /\ cur \in [Chan -> Call \union {None}]
    /\ stream \in [Chan -> 0 .. MaxStreams]
    /\ ready \in [Chan -> BOOLEAN]
    /\ \A c \in Chan : Len(queue[c]) <= QueueCapacity

PrewarmType ==
    /\ ppc \in [Chan -> {"check", "wait", "done"}]
    /\ prewarm \in [Chan -> Request]
    /\ pcur \in [Chan -> Request]
    /\ attempts \in 0 .. MaxAttempts

StreamType ==
    /\ chan \in [Stream -> Chan \union {None}]
    /\ state \in [Stream -> {"unused", "open", "eof", "reset"}]
    /\ wire \in [Stream -> Seq(Frame)]
    /\ written \in [Stream -> Seq(Frame)]

InboundType ==
    /\ ipc \in [Stream -> {"none", "pending", "read", "offer", "drain", "done"}]
    /\ held \in [Stream -> Seq(Frame)]
    /\ deliveries \in [Stream -> Seq(Frame)]
    /\ handling \in [Stream -> Seq(Frame)]
    /\ handled \in [Stream -> Seq(Frame)]
    /\ \A k \in Stream : Len(deliveries[k]) <= InboundCapacity

NetType ==
    /\ conn \subseteq Node \X Node
    /\ dialing \subseteq Link
    /\ drops \in 0 .. MaxDrops
    /\ phase \in [Node -> {"up", "closing", "down", "closed"}]
    /\ prepare \in [Node -> BOOLEAN]

LEMMA TypeParts ==
    TypeOK <=> /\ CallType /\ WriterType /\ PrewarmType
               /\ StreamType /\ InboundType /\ NetType
BY DEF TypeOK, CallType, WriterType, PrewarmType, StreamType, InboundType, NetType

(***************************************************************************)
(* A call and its frame.                                                   *)
(***************************************************************************)

\* The frame of a call is on some stream.
Written(s) == \E k \in Stream : \E i \in DOMAIN written[k] : written[k][i].call = s

\* A call that has begun has its envelope, and its channel.
CallBegun ==
    /\ \A s \in Call : spc[s] # "idle" =>
         env[s] \in Frame /\ env[s].call = s /\ via[s] \in Chan
    /\ \A s \in Call : mode = "fresh" => spc[s] \notin {"enqueue", "wait"}
    /\ \A s \in Call : mode # "fresh" => spc[s] \notin {"open", "write", "finish"}
    /\ \A s \in Call : spc[s] \in {"write", "finish"} => fstream[s] \in Stream

\* Where a call is tells whether its frame was written.
CallWrites ==
    \A s \in Call : /\ spc[s] \in {"idle", "enqueue", "open", "write"} => ~Written(s)
                    /\ spc[s] \in {"finish", "ok"} => Written(s)

\* What was written is the envelope of a call, once.
FramesOnce ==
    /\ \A k \in Stream : \A i \in DOMAIN written[k] :
         written[k][i] = env[written[k][i].call]
    /\ \A j, k \in Stream :
         \A x \in DOMAIN written[j], y \in DOMAIN written[k] :
             written[j][x].call = written[k][y].call => j = k /\ x = y

CallInv == CallBegun /\ CallWrites /\ FramesOnce

\* What the writer of channel c has of calls: requests in its queue, and the one
\* it serves.
RequestsAt(c) ==
    /\ \A i \in DOMAIN queue[c] :
         /\ spc[queue[c][i]] \in {"wait", "failed"}
         /\ via[queue[c][i]] = c
         /\ ~Written(queue[c][i])
    /\ \A i, j \in DOMAIN queue[c] : queue[c][i] = queue[c][j] => i = j

ServedAt(c) ==
    /\ wpc[c] \in {"open", "write", "sent"} =>
         /\ cur[c] \in Call
         /\ spc[cur[c]] \in {"wait", "failed"}
         /\ via[cur[c]] = c
         /\ \A i \in DOMAIN queue[c] : queue[c][i] # cur[c]
    /\ wpc[c] \in {"open", "write"} => ~Written(cur[c])
    /\ wpc[c] = "sent" => Written(cur[c])
    /\ wpc[c] \in {"write", "sent"} => stream[c] \in Stream

QueueInv == \A c \in Chan : RequestsAt(c) /\ ServedAt(c)

(***************************************************************************)
(* A stream and its reader.                                                *)
(***************************************************************************)

\* A stream that was not opened has nothing and nobody.
StreamAt(k) ==
    /\ state[k] = "unused" => chan[k] = None
    /\ state[k] \in {"open", "eof"} => chan[k] # None
    /\ chan[k] = None => /\ ipc[k] = "none"
                         /\ wire[k] = <<>> /\ written[k] = <<>>
                         /\ held[k] = <<>> /\ deliveries[k] = <<>>
                         /\ handling[k] = <<>> /\ handled[k] = <<>>

StreamInv == \A k \in Stream : StreamAt(k)

\* s is the part of t that follows its first n elements, as far as s goes.
Follows(s, t, n) ==
    /\ n + Len(s) <= Len(t)
    /\ \A i \in 1 .. Len(s) : s[i] = t[n + i]

AllValid(s, c) == \A i \in 1 .. Len(s) : Valid(s[i], c)

\* What was handled (hd), is being handled (hg), waits in the queue (dl) and in the
\* reader's hand (he) and, until the reader ends, on the wire (wi) is what was
\* written (wr) to a stream of channel c whose reader is at p.
PipeOf(p, hd, hg, dl, he, wi, wr, c) ==
    /\ Follows(hd, wr, 0)
    /\ Follows(hg, wr, Len(hd))
    /\ Follows(dl, wr, Len(hd) + Len(hg))
    /\ Follows(he, wr, Len(hd) + Len(hg) + Len(dl))
    /\ p \notin {"drain", "done"} =>
         /\ Follows(wi, wr, Len(hd) + Len(hg) + Len(dl) + Len(he))
         /\ Len(hd) + Len(hg) + Len(dl) + Len(he) + Len(wi) = Len(wr)
    /\ AllValid(hd, c) /\ AllValid(hg, c) /\ AllValid(dl, c) /\ AllValid(he, c)
    /\ p # "offer" => he = <<>>
    /\ p = "offer" => Len(he) = 1 /\ mode # "fresh"
    /\ p \in {"none", "pending", "done"} => dl = <<>> /\ hg = <<>>
    /\ mode = "fresh" /\ p = "read" => dl = <<>> /\ hg = <<>>

PipeAt(k) == PipeOf(ipc[k], handled[k], handling[k], deliveries[k], held[k], wire[k],
                    written[k], chan[k])

PipeInv == \A k \in Stream : PipeAt(k)

(***************************************************************************)
(* Prewarming and Close.                                                   *)
(***************************************************************************)

\* A request that is live is the one its caller waits for.
PrewarmInv ==
    \A c \in Chan :
        /\ prewarm[c] = "live" \/ pcur[c] = "live" => ppc[c] = "wait"
        /\ ~(prewarm[c] = "live" /\ pcur[c] = "live")
        /\ wpc[c] # "prewarm" => pcur[c] = "empty"

\* A writer that stops has no stream, and what Close waited for stays away.
CloseInv ==
    /\ \A c \in Chan : wpc[c] \in {"drain", "done"} => stream[c] = 0 /\ ~ready[c]
    /\ \A n \in Node : phase[n] = "closed" => Idle(n)

(***************************************************************************)
(* Who waits, and for whom.                                                *)
(***************************************************************************)

\* A writer ends only when the transport is stopped.
WriterLives(c) ==
    /\ ~HasWriter(c) => wpc[c] = "done"
    /\ HasWriter(c) /\ wpc[c] \in {"drain", "done"} => Stopped(From(c))

\* A writer serves the call.
Serves(c, s) == cur[c] = s /\ wpc[c] \in {"open", "write", "sent"}

Queued(c, s) == \E i \in DOMAIN queue[c] : queue[c][i] = s

\* A call that waits is known to a writer, unless the transport is stopped.
CallServed(s) ==
    /\ spc[s] \in {"enqueue", "wait"} => HasWriter(via[s])
    /\ spc[s] = "wait" =>
         Stopped(From(via[s])) \/ Queued(via[s], s) \/ Serves(via[s], s)

\* Some call has the stream for itself.
Owned(k) == \E s \in Call : fstream[s] = k /\ spc[s] \in {"write", "finish"}

\* A stream that is not broken has both hosts, a reader, and in fresh mode,
\* until it is closed, a call that writes to it.
StreamLives(k) ==
    /\ state[k] \in {"open", "eof"} => HostUp(From(chan[k])) /\ HostUp(To(chan[k]))
    /\ ipc[k] = "done" => state[k] = "reset"
    /\ chan[k] # None => ipc[k] # "none"
    /\ mode = "fresh" /\ state[k] = "open" => Owned(k)

\* A writer's stream is one of its channel.
StreamOf(c) == stream[c] \in Stream => chan[stream[c]] = c

\* In fresh mode no two calls share a stream, and the one a call is about to write
\* to is empty.
FreshInv ==
    /\ \A s \in Call : fstream[s] \in Stream => chan[fstream[s]] # None
    /\ \A s, t \in Call : fstream[s] \in Stream /\ fstream[s] = fstream[t] => s = t
    /\ \A s \in Call : spc[s] = "write" => wire[fstream[s]] = <<>>

WaitInv ==
    /\ \A c \in Chan : WriterLives(c)
    /\ \A s \in Call : CallServed(s)
    /\ \A k \in Stream : StreamLives(k)
    /\ \A c \in Chan : StreamOf(c)
    /\ FreshInv

IInv ==
    /\ TypeOK /\ CallInv /\ QueueInv /\ StreamInv /\ PipeInv /\ PrewarmInv /\ CloseInv

(***************************************************************************)
(* Facts about sequences and channels.                                     *)
(***************************************************************************)
LEMMA HeadTail ==
    ASSUME NEW S, NEW q \in Seq(S), q # <<>>
    PROVE  /\ Len(q) \in Nat /\ Len(q) >= 1
           /\ Head(q) = q[1] /\ Head(q) \in S
           /\ Tail(q) \in Seq(S) /\ Len(Tail(q)) = Len(q) - 1
           /\ \A i \in 1 .. Len(q) - 1 : Tail(q)[i] = q[i + 1]
OBVIOUS

LEMMA AppendFacts ==
    ASSUME NEW S, NEW q \in Seq(S), NEW x \in S
    PROVE  /\ Append(q, x) \in Seq(S)
           /\ Len(q) \in Nat /\ Len(Append(q, x)) = Len(q) + 1
           /\ \A i \in 1 .. Len(q) : Append(q, x)[i] = q[i]
           /\ Append(q, x)[Len(q) + 1] = x
OBVIOUS

LEMMA ConcatFacts ==
    ASSUME NEW S, NEW q \in Seq(S), NEW r \in Seq(S)
    PROVE  /\ q \o r \in Seq(S)
           /\ Len(q) \in Nat /\ Len(r) \in Nat /\ Len(q \o r) = Len(q) + Len(r)
           /\ \A i \in 1 .. Len(q) : (q \o r)[i] = q[i]
           /\ \A i \in 1 .. Len(r) : (q \o r)[Len(q) + i] = r[i]
OBVIOUS

LEMMA SingleFacts ==
    ASSUME NEW S, NEW x \in S
    PROVE  <<x>> \in Seq(S) /\ Len(<<x>>) = 1 /\ <<x>>[1] = x /\ <<x>> # <<>>
OBVIOUS

LEMMA ChanFacts ==
    /\ \A c \in Chan : c # None
    /\ \A l \in Link, m \in Mode : \A lane \in Lanes(m) : <<l[1], l[2], lane>> \in Chan
    /\ \A c \in Chan : <<From(c), To(c)>> \in Node \X Node
<1>1. \A c \in Chan : c # None
  BY NoneAssumption
<1>2. \A l \in Link, m \in Mode : \A lane \in Lanes(m) : <<l[1], l[2], lane>> \in Chan
  BY DEF Chan
<1>3. ASSUME NEW c \in Chan PROVE <<From(c), To(c)>> \in Node \X Node
  <2>1. PICK l \in Link, lane \in UNION {Lanes(m) : m \in Mode} : c = <<l[1], l[2], lane>>
    BY DEF Chan
  <2> QED  BY <2>1, NodeAssumption DEF From, To
<1> QED  BY <1>1, <1>2, <1>3

LEMMA StreamNumbers ==
    MaxStreams \in Nat /\ Stream \subseteq 0 .. MaxStreams /\ 0 \in 0 .. MaxStreams /\ 0 \notin Stream
BY BoundAssumption DEF Stream

(***************************************************************************)
(* The types are kept, part by part.                                       *)
(***************************************************************************)

\* An answer moves a call that waits.
LEMMA AnswerType ==
    ASSUME CallType, NEW s, NEW outcome \in {"ok", "failed"}, Answer(s, outcome)
    PROVE  spc' \in [Call -> {"idle", "enqueue", "wait", "open", "write", "finish",
                              "ok", "failed"}]
BY DEF CallType, Answer

LEMMA CallTypeStep ==
    ASSUME TypeOK, Next
    PROVE  CallType'
<1>1. CallType
  BY TypeParts
<1>2. ASSUME NEW s \in Call, NEW l \in Link, NEW kind \in Kind, Send(s, l, kind)
      PROVE  CallType'
  <2>1. <<l[1], l[2], LaneOf(kind)>> \in Chan
    BY <1>1, <1>2, ChanFacts DEF Send, CallType
  <2>2. authenticatedOutboundEnvelope(s, l, kind) \in Frame
    BY NodeAssumption DEF authenticatedOutboundEnvelope, Frame
  <2>3. env' \in [Call -> Frame \union {None}]
    BY <1>1, <1>2, <2>2 DEF CallType, Send
  <2>4. via' \in [Call -> Chan \union {None}]
    BY <1>1, <1>2, <2>1 DEF CallType, Send
  <2> QED  BY <1>1, <1>2, <2>3, <2>4 DEF CallType, Send
<1>3. ASSUME NEW s \in Call, NEW c \in Chan, NEW f \in Forged, Missend(s, c, f)
      PROVE  CallType'
  <2>1. [call |-> s, from |-> f.from, to |-> f.to, kind |-> f.kind] \in Frame
    BY FrameAssumption DEF Frame
  <2>2. env' \in [Call -> Frame \union {None}]
    BY <1>1, <1>3, <2>1 DEF CallType, Missend
  <2>3. via' \in [Call -> Chan \union {None}]
    BY <1>1, <1>3 DEF CallType, Missend
  <2> QED  BY <1>1, <1>3, <2>2, <2>3 DEF CallType, Missend
<1>4. ASSUME NEW s \in Call, Progress(s) \/ SendExpires(s)
      PROVE  CallType'
  <2>1. CASE Enqueue(s)
    BY <1>1, <2>1 DEF CallType, Enqueue
  <2>2. CASE SendStopped(s) \/ SendExpires(s)
    BY <1>1, <2>2 DEF CallType, SendStopped, SendExpires, Return
  <2>3. ASSUME NEW k \in Stream, FreshOpen(s, k) PROVE CallType'
    BY <1>1, <2>3, StreamNumbers DEF CallType, FreshOpen
  <2>4. CASE FreshWrite(s) \/ FreshFinish(s) \/ FreshFails(s)
    BY <1>1, <2>4 DEF CallType, FreshWrite, FreshFinish, FreshFails
  <2> QED  BY <1>4, <2>1, <2>2, <2>3, <2>4 DEF Progress
<1>5. ASSUME NEW c \in Chan, Writer(c)
      PROVE  CallType'
  <2>1. UNCHANGED <<mode, env, via, fstream>>
    BY <1>5 DEF Writer, StopWriter, TakeRequest, FailQueued, OpenStream, WriteFrame,
                RequestFails, FinishRequest, TakePrewarm, PrewarmOpen, PrewarmFails, sendVars
  <2>2. \/ UNCHANGED spc
        \/ \E s : \E outcome \in {"ok", "failed"} : Answer(s, outcome)
    <3>1. CASE StopWriter(c) \/ WriteFrame(c) \/ TakePrewarm(c) \/ PrewarmFails(c)
               \/ \E k \in Stream : PrewarmOpen(c, k)
      BY <3>1 DEF StopWriter, WriteFrame, TakePrewarm, PrewarmOpen, PrewarmFails, sendVars
    <3>2. CASE TakeRequest(c) \/ FailQueued(c)
      BY <3>2 DEF TakeRequest, FailQueued
    <3>3. CASE RequestFails(c) \/ FinishRequest(c) \/ \E k \in Stream : OpenStream(c, k)
      BY <3>3 DEF OpenStream, RequestFails, FinishRequest
    <3> QED  BY <1>5, <3>1, <3>2, <3>3 DEF Writer
  <2>3. spc' \in [Call -> {"idle", "enqueue", "wait", "open", "write", "finish",
                           "ok", "failed"}]
    BY <1>1, <2>2, AnswerType DEF CallType
  <2> QED  BY <1>1, <2>1, <2>3 DEF CallType
<1>6. ASSUME NEW c \in Chan, Prewarmer(c)
      PROVE  CallType'
  BY <1>1, <1>6 DEF CallType, Prewarmer, PrewarmQuits, PrewarmCalls, PrewarmExpires, sendVars
<1>7. ASSUME NEW k \in Stream, Reader(k) \/ Dispatcher(k)
      PROVE  CallType'
  BY <1>1, <1>7 DEF CallType, Reader, Dispatcher, Accept, ReadFrame, ReadEnds, Offer,
                    OfferStopped, InboundDone, Dispatch, Handle, sendVars
<1>8. ASSUME NEW l \in Link, Connect(l) \/ Disconnect(l)
      PROVE  CallType'
  BY <1>1, <1>8 DEF CallType, Connect, Disconnect, sendVars
<1>9. ASSUME NEW n \in Node, Lifecycle(n)
      PROVE  CallType'
  BY <1>1, <1>9 DEF CallType, Lifecycle, CloseBegins, CloseHost, CloseReturns, PrepareSlot,
     PrepareSlotDone, sendVars
<1> QED
  BY <1>2, <1>3, <1>4, <1>5, <1>6, <1>7, <1>8, <1>9 DEF Next, Caller

LEMMA WriterTypeStep ==
    ASSUME TypeOK, CallInv, Next
    PROVE  WriterType'
<1>1. CallType /\ WriterType
  BY TypeParts
<1>2. ASSUME NEW s \in Call, Caller(s)
      PROVE  WriterType'
  <2>1. CASE Enqueue(s)
    <3>1. via[s] \in Chan
      BY <2>1 DEF Enqueue, CallInv, CallBegun
    <3>2. /\ queue' = [queue EXCEPT ![via[s]] = Append(queue[via[s]], s)]
          /\ Len(queue[via[s]]) < QueueCapacity
          /\ UNCHANGED <<wpc, cur, stream, ready>>
      BY <2>1 DEF Enqueue
    <3>3. /\ Append(queue[via[s]], s) \in Seq(Call)
          /\ Len(Append(queue[via[s]], s)) <= QueueCapacity
      BY <1>1, <3>1, <3>2, AppendFacts, BoundAssumption DEF WriterType
    <3>4. \A c \in Chan : queue'[c] = IF c = via[s] THEN Append(queue[via[s]], s) ELSE queue[c]
      BY <1>1, <3>1, <3>2 DEF WriterType
    <3>5. queue' \in [Chan -> Seq(Call)]
      BY <1>1, <3>2, <3>3 DEF WriterType
    <3>6. \A c \in Chan : Len(queue'[c]) <= QueueCapacity
      BY <1>1, <3>3, <3>4 DEF WriterType
    <3> QED  BY <1>1, <3>2, <3>5, <3>6 DEF WriterType
  <2>2. CASE ~Enqueue(s)
    BY <1>1, <1>2, <2>2 DEF WriterType, writerVars, Caller, Progress, Send, Missend,
       SendStopped,
       SendExpires, Return, FreshOpen, FreshWrite, FreshFinish, FreshFails
  <2> QED  BY <2>1, <2>2
<1>3. ASSUME NEW c \in Chan, Writer(c)
      PROVE  WriterType'
  <2>1. /\ queue' \in [Chan -> Seq(Call)]
        /\ \A d \in Chan : Len(queue'[d]) <= QueueCapacity
    <3>1. CASE queue' = queue
      BY <1>1, <3>1 DEF WriterType
    <3>2. CASE queue[c] # <<>> /\ queue' = [queue EXCEPT ![c] = Tail(queue[c])]
      <4>1. /\ Tail(queue[c]) \in Seq(Call)
            /\ Len(Tail(queue[c])) <= QueueCapacity
        BY <1>1, <3>2, HeadTail, BoundAssumption DEF WriterType
      <4>2. \A d \in Chan : queue'[d] = IF d = c THEN Tail(queue[c]) ELSE queue[d]
        BY <1>1, <3>2 DEF WriterType
      <4>3. queue' \in [Chan -> Seq(Call)]
        BY <1>1, <3>2, <4>1 DEF WriterType
      <4> QED  BY <1>1, <4>1, <4>2, <4>3 DEF WriterType
    <3>3. queue' = queue \/ (queue[c] # <<>> /\ queue' = [queue EXCEPT ![c] = Tail(queue[c])])
      BY <1>3 DEF Writer, StopWriter, TakeRequest, FailQueued, OpenStream, WriteFrame,
                  RequestFails, FinishRequest, TakePrewarm, PrewarmOpen, PrewarmFails
    <3> QED  BY <3>1, <3>2, <3>3
  <2>2. UNCHANGED <<wpc, cur, stream, ready>> =>
          /\ wpc' \in [Chan -> {"select", "open", "write", "sent", "prewarm", "drain", "done"}]
          /\ cur' \in [Chan -> Call \union {None}]
          /\ stream' \in [Chan -> 0 .. MaxStreams]
          /\ ready' \in [Chan -> BOOLEAN]
    BY <1>1 DEF WriterType
  <2>3. ASSUME NEW at \in {"select", "drain"}, Drop(c, at)
        PROVE  /\ wpc' \in [Chan -> {"select", "open", "write", "sent", "prewarm", "drain", "done"}]
               /\ cur' \in [Chan -> Call \union {None}]
               /\ stream' \in [Chan -> 0 .. MaxStreams]
               /\ ready' \in [Chan -> BOOLEAN]
    BY <1>1, <2>3, StreamNumbers DEF WriterType, Drop
  <2>4. CASE StopWriter(c)
    BY <2>1, <2>3, <2>4 DEF StopWriter, WriterType
  <2>5. CASE TakeRequest(c)
    <3>1. queue[c] # <<>> /\ Head(queue[c]) \in Call
      BY <1>1, <2>5, HeadTail DEF TakeRequest, WriterType
    <3>2. CASE Drop(c, "drain") \/ UNCHANGED <<wpc, cur, stream, ready>>
      BY <2>1, <2>2, <2>3, <3>2 DEF WriterType
    <3>3. CASE /\ cur' = [cur EXCEPT ![c] = Head(queue[c])]
               /\ wpc' = [wpc EXCEPT ![c] = IF stream[c] = 0 THEN "open" ELSE "write"]
               /\ UNCHANGED <<stream, ready>>
      BY <1>1, <2>1, <3>1, <3>3 DEF WriterType
    <3> QED  BY <2>5, <3>2, <3>3 DEF TakeRequest
  <2>6. CASE FailQueued(c)
    BY <1>1, <2>1, <2>6 DEF FailQueued, WriterType
  <2>7. ASSUME NEW k \in Stream, OpenStream(c, k) \/ PrewarmOpen(c, k) PROVE WriterType'
    BY <1>1, <2>1, <2>7, StreamNumbers DEF OpenStream, PrewarmOpen, WriterType
  <2>8. CASE WriteFrame(c) \/ PrewarmFails(c)
    BY <1>1, <2>1, <2>8 DEF WriteFrame, PrewarmFails, WriterType
  <2>9. CASE RequestFails(c)
    BY <2>1, <2>3, <2>9 DEF RequestFails, WriterType
  <2>10. CASE FinishRequest(c)
    <3>1. CASE Drop(c, "select")
      BY <2>1, <2>3, <3>1 DEF WriterType
    <3>2. CASE /\ wpc' = [wpc EXCEPT ![c] = "select"] /\ cur' = [cur EXCEPT ![c] = None]
               /\ UNCHANGED <<stream, ready>>
      BY <1>1, <2>1, <3>2 DEF WriterType
    <3> QED  BY <2>10, <3>1, <3>2 DEF FinishRequest
  <2>11. CASE TakePrewarm(c)
    <3>1. CASE Drop(c, "drain") \/ UNCHANGED <<wpc, cur, stream, ready>>
      BY <2>1, <2>2, <2>3, <3>1 DEF WriterType
    <3>2. CASE wpc' = [wpc EXCEPT ![c] = "prewarm"] /\ UNCHANGED <<cur, stream, ready>>
      BY <1>1, <2>1, <3>2 DEF WriterType
    <3> QED  BY <2>11, <3>1, <3>2 DEF TakePrewarm
  <2> QED  BY <1>3, <2>4, <2>5, <2>6, <2>7, <2>8, <2>9, <2>10, <2>11 DEF Writer
<1>4. ASSUME NEW c \in Chan, Prewarmer(c)
      PROVE  WriterType'
  BY <1>1, <1>4 DEF WriterType, Prewarmer, PrewarmQuits, PrewarmCalls, PrewarmExpires,
     writerVars
<1>5. ASSUME NEW k \in Stream, Reader(k) \/ Dispatcher(k)
      PROVE  WriterType'
  BY <1>1, <1>5 DEF WriterType, Reader, Dispatcher, Accept, ReadFrame, ReadEnds, Offer,
                    OfferStopped, InboundDone, Dispatch, Handle, writerVars
<1>6. ASSUME NEW l \in Link, Connect(l) \/ Disconnect(l)
      PROVE  WriterType'
  BY <1>1, <1>6 DEF WriterType, Connect, Disconnect, writerVars
<1>7. ASSUME NEW n \in Node, Lifecycle(n)
      PROVE  WriterType'
  BY <1>1, <1>7 DEF WriterType, Lifecycle, CloseBegins, CloseHost, CloseReturns, PrepareSlot,
     PrepareSlotDone, writerVars
<1> QED
  BY <1>2, <1>3, <1>4, <1>5, <1>6, <1>7 DEF Next

LEMMA PrewarmTypeStep ==
    ASSUME TypeOK, Next
    PROVE  PrewarmType'
<1>1. PrewarmType
  BY TypeParts
<1>2. ASSUME NEW s \in Call, Caller(s)
      PROVE  PrewarmType'
  BY <1>1, <1>2 DEF PrewarmType, prewarmVars, Caller, Progress, Send, Missend, Enqueue,
     SendStopped, SendExpires, Return, FreshOpen, FreshWrite, FreshFinish, FreshFails
<1>3. ASSUME NEW c \in Chan, Writer(c)
      PROVE  PrewarmType'
  <2>1. CASE \/ StopWriter(c) \/ TakeRequest(c) \/ WriteFrame(c)
             \/ RequestFails(c) \/ FinishRequest(c) \/ \E k \in Stream : OpenStream(c, k)
    BY <1>1, <2>1 DEF PrewarmType, prewarmVars, StopWriter, TakeRequest, OpenStream, WriteFrame,
                      RequestFails, FinishRequest
  <2>2. CASE FailQueued(c) \/ TakePrewarm(c)
    BY <1>1, <2>2 DEF PrewarmType, FailQueued, TakePrewarm, AnswerPrewarm, Request
  <2>3. CASE PrewarmFails(c) \/ \E k \in Stream : PrewarmOpen(c, k)
    BY <1>1, <2>3 DEF PrewarmType, PrewarmFails, PrewarmOpen, AnswerPrewarm, Request
  <2> QED  BY <1>3, <2>1, <2>2, <2>3 DEF Writer
<1>4. ASSUME NEW c \in Chan, Prewarmer(c)
      PROVE  PrewarmType'
  BY <1>1, <1>4, BoundAssumption DEF PrewarmType, Prewarmer, PrewarmQuits, PrewarmCalls,
                                     PrewarmExpires, Request
<1>5. ASSUME NEW k \in Stream, Reader(k) \/ Dispatcher(k)
      PROVE  PrewarmType'
  BY <1>1, <1>5 DEF PrewarmType, Reader, Dispatcher, Accept, ReadFrame, ReadEnds, Offer,
                    OfferStopped, InboundDone, Dispatch, Handle, prewarmVars
<1>6. ASSUME NEW l \in Link, Connect(l) \/ Disconnect(l)
      PROVE  PrewarmType'
  BY <1>1, <1>6 DEF PrewarmType, Connect, Disconnect, prewarmVars
<1>7. ASSUME NEW n \in Node, Lifecycle(n)
      PROVE  PrewarmType'
  BY <1>1, <1>7 DEF PrewarmType, Lifecycle, CloseBegins, CloseHost, CloseReturns,
     PrepareSlot, PrepareSlotDone, prewarmVars
<1> QED
  BY <1>2, <1>3, <1>4, <1>5, <1>6, <1>7 DEF Next

(***************************************************************************)
(* What can happen to the streams: they are reset, closed or broken, one   *)
(* is opened, a frame is written, or a reader or a dispatcher moves.       *)
(***************************************************************************)
StateMoves ==
    /\ state' \in [Stream -> {"unused", "open", "eof", "reset"}]
    /\ \A j \in Stream : \/ state'[j] \in {state[j], "reset"}
                         \/ state[j] = "open" /\ state'[j] = "eof"
    /\ UNCHANGED <<chan, wire, written, inboundVars>>

Opens == \E k \in Stream, c \in Chan, st \in {"open", "reset"} : NewStream(k, c, st)

Puts == \E k \in Stream, f \in Frame : Put(k, f) /\ UNCHANGED <<chan, state, inboundVars>>

LEMMA StateStays ==
    ASSUME StreamType, UNCHANGED <<streamVars, inboundVars>>
    PROVE  StateMoves
BY DEF StreamType, StateMoves, streamVars, inboundVars

LEMMA ResetMoves ==
    ASSUME StreamType, NEW k, Reset(k), UNCHANGED <<chan, wire, written, inboundVars>>
    PROVE  StateMoves
BY DEF StreamType, StateMoves, Reset

LEMMA BreakMoves ==
    ASSUME StreamType, NEW C, Break(C), UNCHANGED <<chan, wire, written, inboundVars>>
    PROVE  StateMoves
BY DEF StreamType, StateMoves, Break

LEMMA DropMoves ==
    ASSUME StreamType, NEW c, NEW at, Drop(c, at), UNCHANGED inboundVars
    PROVE  StateMoves
<1>1. Reset(stream[c]) /\ UNCHANGED <<chan, wire, written>>
  BY DEF Drop
<1> QED  BY <1>1, ResetMoves

LEMMA StreamCases ==
    ASSUME TypeOK, CallInv, QueueInv, Next
    PROVE  /\ mode' = mode
           /\ \/ StateMoves \/ Opens \/ Puts
              \/ \E k \in Stream : Reader(k) \/ Dispatcher(k)
<1>1. CallType /\ WriterType /\ StreamType
  BY TypeParts
<1>2. ASSUME NEW s \in Call, Caller(s)
      PROVE  mode' = mode /\ (StateMoves \/ Opens \/ Puts)
  <2>1. CASE \/ \E l \in Link, kind \in Kind : Send(s, l, kind)
             \/ \E c \in Chan, f \in Forged : Missend(s, c, f)
             \/ Enqueue(s) \/ SendStopped(s) \/ SendExpires(s)
    <3>1. mode' = mode /\ UNCHANGED <<streamVars, inboundVars>>
      BY <2>1 DEF Send, Missend, Enqueue, SendStopped, SendExpires, Return
    <3> QED  BY <1>1, <3>1, StateStays
  <2>2. ASSUME NEW k \in Stream, FreshOpen(s, k)
        PROVE  mode' = mode /\ Opens
    BY <2>2 DEF FreshOpen, CallInv, CallBegun, Opens
  <2>3. CASE FreshWrite(s)
    <3>1. env[s] \in Frame /\ fstream[s] \in Stream
      BY <2>3 DEF FreshWrite, CallInv, CallBegun
    <3> QED  BY <2>3, <3>1 DEF FreshWrite, Puts
  <2>4. CASE FreshFinish(s)
    BY <1>1, <2>4 DEF FreshFinish, StreamType, StateMoves
  <2>5. CASE FreshFails(s)
    <3>1. mode' = mode /\ Reset(fstream[s]) /\ UNCHANGED <<chan, wire, written, inboundVars>>
      BY <2>5 DEF FreshFails
    <3> QED  BY <1>1, <3>1, ResetMoves
  <2> QED  BY <1>2, <2>1, <2>2, <2>3, <2>4, <2>5 DEF Caller, Progress
<1>3. ASSUME NEW c \in Chan, Writer(c)
      PROVE  mode' = mode /\ (StateMoves \/ Opens \/ Puts)
  <2>1. CASE StopWriter(c) \/ RequestFails(c)
    <3>1. mode' = mode /\ UNCHANGED inboundVars /\ \E at : Drop(c, at)
      BY <2>1 DEF StopWriter, RequestFails
    <3> QED  BY <1>1, <3>1, DropMoves
  <2>2. CASE TakeRequest(c) \/ FinishRequest(c) \/ TakePrewarm(c)
    <3>1. /\ mode' = mode /\ UNCHANGED inboundVars
          /\ UNCHANGED streamVars \/ \E at : Drop(c, at)
      BY <2>2 DEF TakeRequest, FinishRequest, TakePrewarm
    <3> QED  BY <1>1, <3>1, DropMoves, StateStays
  <2>3. CASE FailQueued(c) \/ PrewarmFails(c)
    <3>1. mode' = mode /\ UNCHANGED <<streamVars, inboundVars>>
      BY <2>3 DEF FailQueued, PrewarmFails
    <3> QED  BY <1>1, <3>1, StateStays
  <2>4. ASSUME NEW k \in Stream, OpenStream(c, k)
        PROVE  mode' = mode /\ Opens
    BY <2>4 DEF OpenStream, openPersistentOutboundStream, Opens
  <2>5. ASSUME NEW k \in Stream, PrewarmOpen(c, k)
        PROVE  mode' = mode /\ Opens
    BY <2>5 DEF PrewarmOpen, openPersistentOutboundStreamWithoutDial, Opens
  <2>6. CASE WriteFrame(c)
    <3>1. cur[c] \in Call /\ spc[cur[c]] # "idle" /\ stream[c] \in Stream
      BY <2>6 DEF WriteFrame, QueueInv, ServedAt
    <3>2. env[cur[c]] \in Frame
      BY <3>1 DEF CallInv, CallBegun
    <3> QED  BY <2>6, <3>1, <3>2 DEF WriteFrame, Puts
  <2> QED  BY <1>3, <2>1, <2>2, <2>3, <2>4, <2>5, <2>6 DEF Writer
<1>4. ASSUME NEW c \in Chan, Prewarmer(c)
      PROVE  mode' = mode /\ StateMoves
  <2>1. mode' = mode /\ UNCHANGED <<streamVars, inboundVars>>
    BY <1>4 DEF Prewarmer, PrewarmQuits, PrewarmCalls, PrewarmExpires
  <2> QED  BY <1>1, <2>1, StateStays
<1>5. ASSUME NEW k \in Stream, Reader(k) \/ Dispatcher(k)
      PROVE  mode' = mode
  BY <1>5 DEF Reader, Dispatcher, Accept, ReadFrame, ReadEnds, Offer,
              OfferStopped, InboundDone, Dispatch, Handle
<1>6. ASSUME NEW l \in Link, Connect(l) \/ Disconnect(l)
      PROVE  mode' = mode /\ StateMoves
  <2>1. CASE Connect(l)
    BY <1>1, <2>1, StateStays DEF Connect
  <2>2. CASE Disconnect(l)
    BY <1>1, <2>2, BreakMoves DEF Disconnect
  <2> QED  BY <1>6, <2>1, <2>2
<1>7. ASSUME NEW n \in Node, Lifecycle(n)
      PROVE  mode' = mode /\ StateMoves
  <2>1. CASE CloseBegins(n) \/ CloseReturns(n) \/ PrepareSlot(n) \/ PrepareSlotDone(n)
    BY <1>1, <2>1, StateStays DEF CloseBegins, CloseReturns, PrepareSlot, PrepareSlotDone
  <2>2. CASE CloseHost(n)
    BY <1>1, <2>2, BreakMoves DEF CloseHost
  <2> QED  BY <1>7, <2>1, <2>2 DEF Lifecycle
<1> QED
  BY <1>2, <1>3, <1>4, <1>5, <1>6, <1>7 DEF Next

\* Reading, queueing and handling move frames from one part to the next.
LEMMA FollowsFacts ==
    ASSUME NEW S, NEW s \in Seq(S), NEW t \in Seq(S), NEW n \in Nat
    PROVE  /\ n <= Len(t) => Follows(<<>>, t, n)
           /\ \A x \in S : Follows(s, t, n) => Follows(s, Append(t, x), n)
           /\ \A x \in S : Follows(s, t, n) /\ n + Len(s) = Len(t)
                             => Follows(Append(s, x), Append(t, x), n)
           /\ Follows(s, t, n) /\ s # <<>>
                => Follows(Tail(s), t, n + 1) /\ Follows(<<Head(s)>>, t, n)
           /\ \A r \in Seq(S) : Follows(s, t, n) /\ Follows(r, t, n + Len(s))
                                  => Follows(s \o r, t, n)
<1>1. n <= Len(t) => Follows(<<>>, t, n)
  BY DEF Follows
<1>2. ASSUME NEW x \in S, Follows(s, t, n) PROVE Follows(s, Append(t, x), n)
  BY <1>2, AppendFacts DEF Follows
<1>3. ASSUME NEW x \in S, Follows(s, t, n), n + Len(s) = Len(t)
      PROVE  Follows(Append(s, x), Append(t, x), n)
  <2>1. /\ Len(s) \in Nat /\ Len(t) \in Nat
        /\ Len(Append(s, x)) = Len(s) + 1 /\ Len(Append(t, x)) = Len(t) + 1
    BY AppendFacts
  <2>2. ASSUME NEW i \in 1 .. Len(s) + 1
        PROVE  Append(s, x)[i] = Append(t, x)[n + i]
    <3>1. CASE i = Len(s) + 1
      BY <1>3, <2>1, <3>1, AppendFacts
    <3>2. CASE i \in 1 .. Len(s)
      BY <1>3, <2>1, <3>2, AppendFacts DEF Follows
    <3>3. i = Len(s) + 1 \/ i \in 1 .. Len(s)
      BY <2>1
    <3> QED  BY <3>1, <3>2, <3>3
  <2>3. n + Len(Append(s, x)) <= Len(Append(t, x))
    BY <1>3, <2>1
  <2>4. \A i \in 1 .. Len(Append(s, x)) : Append(s, x)[i] = Append(t, x)[n + i]
    BY <2>1, <2>2
  <2> QED  BY <2>3, <2>4 DEF Follows
<1>4. ASSUME Follows(s, t, n), s # <<>>
      PROVE  Follows(Tail(s), t, n + 1) /\ Follows(<<Head(s)>>, t, n)
  <2>1. /\ Len(s) \in Nat /\ Len(s) >= 1 /\ Head(s) = s[1]
        /\ Len(Tail(s)) = Len(s) - 1
        /\ \A i \in 1 .. Len(s) - 1 : Tail(s)[i] = s[i + 1]
    BY <1>4, HeadTail
  <2>2. Len(t) \in Nat /\ n + Len(s) <= Len(t) /\ \A i \in 1 .. Len(s) : s[i] = t[n + i]
    BY <1>4 DEF Follows
  <2>3. Follows(Tail(s), t, n + 1)
    <3>1. ASSUME NEW i \in 1 .. Len(Tail(s)) PROVE Tail(s)[i] = t[(n + 1) + i]
      <4>1. i \in 1 .. Len(s) - 1 /\ i + 1 \in 1 .. Len(s) /\ n + (i + 1) = (n + 1) + i
        BY <2>1
      <4> QED  BY <2>1, <2>2, <4>1
    <3>2. (n + 1) + (Len(s) - 1) <= Len(t)
      BY <2>1, <2>2
    <3>3. (n + 1) + Len(Tail(s)) <= Len(t)
      BY <2>1, <3>2
    <3> QED  BY <3>1, <3>3 DEF Follows
  <2>4. Follows(<<Head(s)>>, t, n)
    <3>1. Len(<<Head(s)>>) = 1 /\ <<Head(s)>>[1] = s[1] /\ 1 \in 1 .. Len(s)
      BY <2>1
    <3>2. \A i \in 1 .. 1 : i = 1
      OBVIOUS
    <3> QED  BY <2>1, <2>2, <3>1, <3>2 DEF Follows
  <2> QED  BY <2>3, <2>4
<1>5. ASSUME NEW r \in Seq(S), Follows(s, t, n), Follows(r, t, n + Len(s))
      PROVE  Follows(s \o r, t, n)
  <2>1. Len(s) \in Nat /\ Len(r) \in Nat /\ Len(t) \in Nat /\ Len(s \o r) = Len(s) + Len(r)
    BY ConcatFacts
  <2>2. ASSUME NEW i \in 1 .. Len(s) + Len(r)
        PROVE  (s \o r)[i] = t[n + i]
    <3>1. CASE i \in 1 .. Len(s)
      BY <1>5, <3>1, ConcatFacts DEF Follows
    <3>2. CASE i \notin 1 .. Len(s)
      <4> DEFINE j == i - Len(s)
      <4>1. j \in 1 .. Len(r) /\ i = Len(s) + j /\ n + i = (n + Len(s)) + j
        BY <2>1, <3>2
      <4>2. (s \o r)[i] = r[j]
        BY <4>1, ConcatFacts
      <4>3. r[j] = t[(n + Len(s)) + j]
        BY <1>5, <4>1 DEF Follows
      <4> QED  BY <4>1, <4>2, <4>3
    <3> QED  BY <3>1, <3>2
  <2> QED  BY <1>5, <2>1, <2>2 DEF Follows
<1> QED  BY <1>1, <1>2, <1>3, <1>4, <1>5

LEMMA ValidFacts ==
    ASSUME NEW S, NEW s \in Seq(S), NEW c
    PROVE  /\ AllValid(<<>>, c)
           /\ \A x \in S : Valid(x, c) => AllValid(<<x>>, c)
           /\ s # <<>> /\ AllValid(s, c) => AllValid(Tail(s), c) /\ AllValid(<<Head(s)>>, c)
           /\ \A r \in Seq(S) : AllValid(s, c) /\ AllValid(r, c) => AllValid(s \o r, c)
<1>1. AllValid(<<>>, c)
  BY DEF AllValid
<1>2. ASSUME NEW x \in S, Valid(x, c) PROVE AllValid(<<x>>, c)
  BY <1>2 DEF AllValid
<1>3. ASSUME s # <<>>, AllValid(s, c) PROVE AllValid(Tail(s), c) /\ AllValid(<<Head(s)>>, c)
  <2>1. /\ Len(s) \in Nat /\ Len(s) >= 1 /\ Head(s) = s[1]
        /\ Len(Tail(s)) = Len(s) - 1
        /\ \A i \in 1 .. Len(s) - 1 : Tail(s)[i] = s[i + 1]
    BY <1>3, HeadTail
  <2> QED  BY <1>3, <2>1 DEF AllValid
<1>4. ASSUME NEW r \in Seq(S), AllValid(s, c), AllValid(r, c) PROVE AllValid(s \o r, c)
  <2>1. Len(s) \in Nat /\ Len(r) \in Nat /\ Len(s \o r) = Len(s) + Len(r)
    BY ConcatFacts
  <2>2. ASSUME NEW i \in 1 .. Len(s) + Len(r)
        PROVE  Valid((s \o r)[i], c)
    <3>1. CASE i \in 1 .. Len(s)
      BY <1>4, <3>1, ConcatFacts DEF AllValid
    <3>2. CASE i \notin 1 .. Len(s)
      <4> DEFINE j == i - Len(s)
      <4>1. j \in 1 .. Len(r) /\ i = Len(s) + j
        BY <2>1, <3>2
      <4>2. (s \o r)[i] = r[j]
        BY <4>1, ConcatFacts
      <4> QED  BY <1>4, <4>1, <4>2 DEF AllValid
    <3> QED  BY <3>1, <3>2
  <2> QED  BY <2>1, <2>2 DEF AllValid
<1> QED  BY <1>1, <1>2, <1>3, <1>4

(***************************************************************************)
(* Streams and their readers.                                              *)
(***************************************************************************)

\* Nothing happens to stream j.
Rests(j) ==
    /\ mode' = mode /\ chan'[j] = chan[j] /\ wire'[j] = wire[j] /\ written'[j] = written[j]
    /\ ipc'[j] = ipc[j] /\ held'[j] = held[j] /\ deliveries'[j] = deliveries[j]
    /\ handling'[j] = handling[j] /\ handled'[j] = handled[j]

\* The state of a stream's pipe after a step, in terms of the state before it.
LEMMA PipeNext ==
    ASSUME NEW j \in Stream, mode' = mode,
           PipeOf(ipc'[j], handled'[j], handling'[j], deliveries'[j], held'[j], wire'[j],
                  written'[j], chan'[j])
    PROVE  PipeAt(j)'
BY DEF PipeAt, PipeOf, Follows, AllValid, Valid

LEMMA PipeRests ==
    ASSUME NEW j \in Stream, PipeAt(j), Rests(j)
    PROVE  PipeAt(j)'
<1>1. PipeOf(ipc'[j], handled'[j], handling'[j], deliveries'[j], held'[j], wire'[j],
             written'[j], chan'[j])
  BY DEF PipeAt, Rests
<1> QED  BY <1>1, PipeNext DEF Rests

\* The sequences of a stream.
LEMMA SeqTypes ==
    ASSUME StreamType, InboundType, NEW k \in Stream
    PROVE  /\ wire[k] \in Seq(Frame) /\ written[k] \in Seq(Frame)
           /\ held[k] \in Seq(Frame) /\ deliveries[k] \in Seq(Frame)
           /\ handling[k] \in Seq(Frame) /\ handled[k] \in Seq(Frame)
BY DEF StreamType, InboundType

LEMMA LenFacts ==
    ASSUME NEW S, NEW q \in Seq(S)
    PROVE  Len(q) \in Nat /\ (q = <<>> => Len(q) = 0) /\ (Len(q) = 0 => q = <<>>)
OBVIOUS

LEMMA NilFacts == ASSUME NEW S PROVE <<>> \in Seq(S) /\ Len(<<>>) = 0
OBVIOUS

\* A pipe of any frames, and the ways in which it moves.
LEMMA PipeEmpty ==
    ASSUME NEW c
    PROVE  PipeOf("pending", <<>>, <<>>, <<>>, <<>>, <<>>, <<>>, c)
<1>1. Follows(<<>>, <<>>, 0)
  BY DEF Follows
<1>2. AllValid(<<>>, c)
  BY DEF AllValid
<1> QED  BY <1>1, <1>2, NilFacts DEF PipeOf

LEMMA PipeWritten ==
    ASSUME NEW p, NEW c, NEW f \in Frame,
           NEW hd \in Seq(Frame), NEW hg \in Seq(Frame), NEW dl \in Seq(Frame),
           NEW he \in Seq(Frame), NEW wi \in Seq(Frame), NEW wr \in Seq(Frame),
           PipeOf(p, hd, hg, dl, he, wi, wr, c)
    PROVE  PipeOf(p, hd, hg, dl, he, Append(wi, f), Append(wr, f), c)
<1> DEFINE n == Len(hd) + Len(hg) + Len(dl) + Len(he)
<1>1. /\ Len(hd) \in Nat /\ Len(hg) \in Nat /\ Len(dl) \in Nat /\ Len(he) \in Nat
      /\ Len(wi) \in Nat /\ Len(wr) \in Nat
  BY LenFacts
<1>2. /\ Len(hd) + Len(hg) \in Nat /\ Len(hd) + Len(hg) + Len(dl) \in Nat /\ n \in Nat
  BY <1>1
<1>3. /\ Follows(hd, wr, 0) /\ Follows(hg, wr, Len(hd))
      /\ Follows(dl, wr, Len(hd) + Len(hg))
      /\ Follows(he, wr, Len(hd) + Len(hg) + Len(dl))
  BY DEF PipeOf
<1>4. /\ Follows(hd, Append(wr, f), 0) /\ Follows(hg, Append(wr, f), Len(hd))
  BY <1>1, <1>3, FollowsFacts
<1>5. /\ Follows(dl, Append(wr, f), Len(hd) + Len(hg))
      /\ Follows(he, Append(wr, f), Len(hd) + Len(hg) + Len(dl))
  BY <1>2, <1>3, FollowsFacts
<1>6. ASSUME p \notin {"drain", "done"}
      PROVE  Follows(Append(wi, f), Append(wr, f), n) /\ n + Len(Append(wi, f)) = Len(Append(wr, f))
  <2>1. Follows(wi, wr, n) /\ n + Len(wi) = Len(wr)
    BY <1>6 DEF PipeOf
  <2>2. Follows(Append(wi, f), Append(wr, f), n)
    BY <1>2, <2>1, FollowsFacts
  <2>3. Len(Append(wi, f)) = Len(wi) + 1 /\ Len(Append(wr, f)) = Len(wr) + 1
    BY AppendFacts
  <2> HIDE DEF n
  <2> QED  BY <1>1, <1>2, <2>1, <2>2, <2>3
<1> QED  BY <1>4, <1>5, <1>6 DEF PipeOf

\* The reader takes the first frame of the wire, which it holds, ...
LEMMA PipeHeld ==
    ASSUME NEW c, mode # "fresh",
           NEW hd \in Seq(Frame), NEW hg \in Seq(Frame), NEW dl \in Seq(Frame),
           NEW he \in Seq(Frame), NEW wi \in Seq(Frame), NEW wr \in Seq(Frame),
           PipeOf("read", hd, hg, dl, he, wi, wr, c), wi # <<>>, Valid(Head(wi), c)
    PROVE  PipeOf("offer", hd, hg, dl, <<Head(wi)>>, Tail(wi), wr, c)
<1> DEFINE n == Len(hd) + Len(hg) + Len(dl)
<1>1. /\ Len(hd) \in Nat /\ Len(hg) \in Nat /\ Len(dl) \in Nat
      /\ Len(wi) \in Nat /\ Len(wr) \in Nat /\ n \in Nat
  BY LenFacts
<1>2. /\ Head(wi) \in Frame /\ Tail(wi) \in Seq(Frame) /\ Len(Tail(wi)) = Len(wi) - 1
      /\ Len(<<Head(wi)>>) = 1
  BY HeadTail, SingleFacts
<1>3. /\ Follows(hd, wr, 0) /\ Follows(hg, wr, Len(hd)) /\ Follows(dl, wr, Len(hd) + Len(hg))
      /\ AllValid(hd, c) /\ AllValid(hg, c) /\ AllValid(dl, c) /\ he = <<>>
      /\ Follows(wi, wr, n + Len(he)) /\ n + Len(he) + Len(wi) = Len(wr)
  BY DEF PipeOf
<1>4. Follows(wi, wr, n) /\ n + Len(wi) = Len(wr)
  <2>1. n + Len(he) = n
    BY <1>1, <1>3, NilFacts
  <2> QED  BY <1>3, <2>1
<1>5. Follows(<<Head(wi)>>, wr, n) /\ Follows(Tail(wi), wr, n + 1)
  BY <1>1, <1>4, FollowsFacts
<1>6. AllValid(<<Head(wi)>>, c)
  BY <1>2, ValidFacts
<1>7. n + 1 + Len(Tail(wi)) = Len(wr)
  <2> HIDE DEF n
  <2> QED  BY <1>1, <1>2, <1>4
<1> QED  BY <1>2, <1>3, <1>5, <1>6, <1>7 DEF PipeOf

\* ... or, of a fresh stream, hands to the handler.
LEMMA PipeFresh ==
    ASSUME NEW c, mode = "fresh",
           NEW hd \in Seq(Frame), NEW hg \in Seq(Frame), NEW dl \in Seq(Frame),
           NEW he \in Seq(Frame), NEW wi \in Seq(Frame), NEW wr \in Seq(Frame),
           PipeOf("read", hd, hg, dl, he, wi, wr, c), wi # <<>>, Valid(Head(wi), c)
    PROVE  PipeOf("drain", hd, <<Head(wi)>>, dl, he, Tail(wi), wr, c)
<1>1. /\ Len(hd) \in Nat /\ Len(wi) \in Nat /\ Len(wr) \in Nat /\ Len(wi) >= 1
      /\ Head(wi) \in Frame /\ Len(<<Head(wi)>>) = 1 /\ Len(<<>>) = 0
  BY LenFacts, HeadTail, SingleFacts, NilFacts
<1>2. /\ Follows(hd, wr, 0) /\ AllValid(hd, c)
      /\ hg = <<>> /\ dl = <<>> /\ he = <<>>
      /\ Follows(wi, wr, Len(hd) + 0 + 0 + 0) /\ Len(hd) + 0 + 0 + 0 + Len(wi) = Len(wr)
  BY <1>1 DEF PipeOf
<1>3. Follows(wi, wr, Len(hd)) /\ Len(hd) + Len(wi) = Len(wr)
  BY <1>1, <1>2
<1>4. Follows(<<Head(wi)>>, wr, Len(hd)) /\ AllValid(<<Head(wi)>>, c)
  BY <1>1, <1>3, FollowsFacts, ValidFacts
<1>5. Len(hd) + 1 <= Len(wr) /\ Len(hd) + 1 \in Nat /\ Len(hd) + 1 + 0 = Len(hd) + 1
  BY <1>1, <1>3
<1>6. Follows(<<>>, wr, Len(hd) + 1) /\ AllValid(<<>>, c)
  BY <1>5, NilFacts, FollowsFacts, ValidFacts
<1> QED  BY <1>1, <1>2, <1>4, <1>5, <1>6 DEF PipeOf

\* The reader ends with what it has handed over, or goes on without a frame.
LEMMA PipeEnds ==
    ASSUME NEW p, NEW q \in {"drain", "done"}, NEW c,
           NEW hd \in Seq(Frame), NEW hg \in Seq(Frame), NEW dl \in Seq(Frame),
           NEW he \in Seq(Frame), NEW wi, NEW wx, NEW wr \in Seq(Frame),
           PipeOf(p, hd, hg, dl, he, wi, wr, c),
           q = "done" => dl = <<>> /\ hg = <<>>
    PROVE  PipeOf(q, hd, hg, dl, <<>>, wx, wr, c)
<1> DEFINE n == Len(hd) + Len(hg) + Len(dl)
<1>1. /\ Len(hd) \in Nat /\ Len(hg) \in Nat /\ Len(dl) \in Nat /\ Len(he) \in Nat
      /\ Len(wr) \in Nat /\ n \in Nat
  BY LenFacts
<1>2. n + Len(he) <= Len(wr)
  BY DEF PipeOf, Follows
<1>3. n <= Len(wr)
  <2> HIDE DEF n
  <2> QED  BY <1>1, <1>2
<1>4. AllValid(<<>>, c)
  BY NilFacts, ValidFacts
<1>5. Follows(<<>>, wr, n)
  <2> HIDE DEF n
  <2> QED  BY <1>1, <1>3, NilFacts, FollowsFacts
<1> QED  BY <1>4, <1>5 DEF PipeOf

LEMMA PipeStarts ==
    ASSUME NEW c, NEW hd, NEW hg, NEW dl, NEW he, NEW wi, NEW wr,
           PipeOf("pending", hd, hg, dl, he, wi, wr, c)
    PROVE  PipeOf("read", hd, hg, dl, he, wi, wr, c)
BY DEF PipeOf

\* The frame in the reader's hand joins the queue, ...
LEMMA PipeOffered ==
    ASSUME NEW c,
           NEW hd \in Seq(Frame), NEW hg \in Seq(Frame), NEW dl \in Seq(Frame),
           NEW he \in Seq(Frame), NEW wi \in Seq(Frame), NEW wr \in Seq(Frame),
           PipeOf("offer", hd, hg, dl, he, wi, wr, c)
    PROVE  PipeOf("read", hd, hg, dl \o he, <<>>, wi, wr, c) /\ Len(he) = 1
<1> DEFINE m == Len(hd) + Len(hg)
<1>1. /\ Len(hd) \in Nat /\ Len(hg) \in Nat /\ Len(dl) \in Nat /\ Len(he) \in Nat
      /\ Len(wi) \in Nat /\ Len(wr) \in Nat /\ m \in Nat /\ Len(<<>>) = 0
  BY LenFacts, NilFacts
<1>2. /\ Follows(hd, wr, 0) /\ Follows(hg, wr, Len(hd))
      /\ Follows(dl, wr, m) /\ Follows(he, wr, m + Len(dl))
      /\ AllValid(hd, c) /\ AllValid(hg, c) /\ AllValid(dl, c) /\ AllValid(he, c)
      /\ Follows(wi, wr, m + Len(dl) + Len(he))
      /\ m + Len(dl) + Len(he) + Len(wi) = Len(wr)
      /\ Len(he) = 1 /\ mode # "fresh"
  BY DEF PipeOf
<1>3. Follows(dl \o he, wr, m)
  BY <1>1, <1>2, FollowsFacts
<1>4. AllValid(dl \o he, c) /\ AllValid(<<>>, c)
  BY <1>2, ValidFacts
<1>5. Len(dl \o he) = Len(dl) + Len(he)
  BY ConcatFacts
<1> HIDE DEF m
<1>6. /\ m + Len(dl \o he) = m + Len(dl) + Len(he)
      /\ m + Len(dl) + Len(he) + 0 = m + Len(dl) + Len(he)
      /\ m + Len(dl) + Len(he) \in Nat /\ m + Len(dl) + Len(he) <= Len(wr)
  BY <1>1, <1>2, <1>5
<1>7. Follows(<<>>, wr, m + Len(dl) + Len(he))
  BY <1>1, <1>6, NilFacts, FollowsFacts
<1>8. /\ Follows(<<>>, wr, m + Len(dl \o he))
      /\ Follows(wi, wr, m + Len(dl \o he) + Len(<<>>))
      /\ m + Len(dl \o he) + Len(<<>>) + Len(wi) = Len(wr)
  BY <1>1, <1>2, <1>6, <1>7
<1> QED  BY <1>2, <1>3, <1>4, <1>8 DEF PipeOf, m

\* ... the first of the queue goes to the handler, ...
LEMMA PipeDispatched ==
    ASSUME NEW p, NEW c,
           NEW hd \in Seq(Frame), NEW hg \in Seq(Frame), NEW dl \in Seq(Frame),
           NEW he \in Seq(Frame), NEW wi \in Seq(Frame), NEW wr \in Seq(Frame),
           PipeOf(p, hd, hg, dl, he, wi, wr, c), hg = <<>>, dl # <<>>
    PROVE  PipeOf(p, hd, <<Head(dl)>>, Tail(dl), he, wi, wr, c)
<1>1. /\ Len(hd) \in Nat /\ Len(hg) = 0 /\ Len(dl) \in Nat /\ Len(he) \in Nat
      /\ Len(wi) \in Nat /\ Len(wr) \in Nat
      /\ Tail(dl) \in Seq(Frame) /\ Len(Tail(dl)) = Len(dl) - 1 /\ Len(<<Head(dl)>>) = 1
  BY LenFacts, HeadTail, SingleFacts
<1> DEFINE n == Len(hd) + Len(hg) + Len(dl)
           m == Len(hd) + Len(<<Head(dl)>>) + Len(Tail(dl))
<1>2. n = m /\ Len(hd) + Len(hg) = Len(hd) /\ Len(hd) + Len(<<Head(dl)>>) = Len(hd) + 1
  BY <1>1
<1>3. /\ Follows(hd, wr, 0) /\ Follows(dl, wr, Len(hd) + Len(hg)) /\ Follows(he, wr, n)
      /\ AllValid(hd, c) /\ AllValid(dl, c) /\ AllValid(he, c)
      /\ p \notin {"drain", "done"} =>
            Follows(wi, wr, n + Len(he)) /\ n + Len(he) + Len(wi) = Len(wr)
      /\ p # "offer" => he = <<>>
      /\ p = "offer" => Len(he) = 1 /\ mode # "fresh"
      /\ p \notin {"none", "pending", "done"}
      /\ ~(mode = "fresh" /\ p = "read")
  BY DEF PipeOf
<1>4. Follows(<<Head(dl)>>, wr, Len(hd)) /\ Follows(Tail(dl), wr, Len(hd) + 1)
  BY <1>1, <1>2, <1>3, FollowsFacts
<1>5. AllValid(<<Head(dl)>>, c) /\ AllValid(Tail(dl), c)
  BY <1>3, ValidFacts
<1> HIDE DEF n
<1>6. /\ Follows(he, wr, m)
      /\ p \notin {"drain", "done"} =>
            Follows(wi, wr, m + Len(he)) /\ m + Len(he) + Len(wi) = Len(wr)
  BY <1>2, <1>3
<1> QED  BY <1>2, <1>3, <1>4, <1>5, <1>6 DEF PipeOf

\* ... and the handler returns.
LEMMA PipeHandled ==
    ASSUME NEW p, NEW c,
           NEW hd \in Seq(Frame), NEW hg \in Seq(Frame), NEW dl \in Seq(Frame),
           NEW he \in Seq(Frame), NEW wi \in Seq(Frame), NEW wr \in Seq(Frame),
           PipeOf(p, hd, hg, dl, he, wi, wr, c)
    PROVE  PipeOf(p, hd \o hg, <<>>, dl, he, wi, wr, c)
<1>1. /\ Len(hd) \in Nat /\ Len(hg) \in Nat /\ Len(dl) \in Nat /\ Len(he) \in Nat
      /\ Len(wi) \in Nat /\ Len(wr) \in Nat /\ Len(<<>>) = 0
      /\ Len(hd \o hg) = Len(hd) + Len(hg)
  BY LenFacts, NilFacts, ConcatFacts
<1>2. Len(hd \o hg) + Len(<<>>) = Len(hd) + Len(hg) /\ Len(hd \o hg) \in Nat
  BY <1>1
<1>3. /\ Follows(hd, wr, 0) /\ Follows(hg, wr, Len(hd))
      /\ AllValid(hd, c) /\ AllValid(hg, c) /\ Follows(dl, wr, Len(hd) + Len(hg))
  BY DEF PipeOf
<1>4. 0 + Len(hd) = Len(hd)
  BY <1>1
<1>5. Follows(hd \o hg, wr, 0)
  BY <1>3, <1>4, FollowsFacts
<1>6. AllValid(hd \o hg, c) /\ AllValid(<<>>, c)
  BY <1>3, ValidFacts
<1>7. Len(hd \o hg) <= Len(wr)
  BY <1>1, <1>3 DEF Follows
<1>8. Follows(<<>>, wr, Len(hd \o hg))
  BY <1>2, <1>7, NilFacts, FollowsFacts
<1> QED  BY <1>2, <1>5, <1>6, <1>8 DEF PipeOf

\* A new stream is empty.
LEMMA OpensKeeps ==
    ASSUME StreamType, InboundType, StreamInv, PipeInv, Opens, mode' = mode
    PROVE  StreamType' /\ InboundType' /\ StreamInv' /\ PipeInv'
<1>1. PICK k \in Stream, c \in Chan, st \in {"open", "reset"} : NewStream(k, c, st)
  BY DEF Opens
<1>2. /\ state[k] = "unused"
      /\ chan' = [chan EXCEPT ![k] = c] /\ state' = [state EXCEPT ![k] = st]
      /\ ipc' = [ipc EXCEPT ![k] = "pending"]
      /\ UNCHANGED <<wire, written, held, deliveries, handling, handled>>
  BY <1>1 DEF NewStream
<1>3. StreamType' /\ InboundType'
  BY <1>2 DEF StreamType, InboundType
<1>4. /\ chan'[k] = c /\ c # None /\ state'[k] = st /\ ipc'[k] = "pending"
      /\ \A j \in Stream \ {k} : Rests(j) /\ state'[j] = state[j]
  BY <1>2, ChanFacts DEF StreamType, InboundType, Rests
<1>5. /\ wire[k] = <<>> /\ written[k] = <<>> /\ held[k] = <<>>
      /\ deliveries[k] = <<>> /\ handling[k] = <<>> /\ handled[k] = <<>>
  BY <1>2 DEF StreamInv, StreamAt
<1>6. StreamInv'
  BY <1>4 DEF StreamInv, StreamAt, Rests
<1>7. PipeAt(k)'
  BY <1>2, <1>4, <1>5, PipeEmpty, PipeNext
<1>8. PipeInv'
  BY <1>4, <1>7, PipeRests DEF PipeInv
<1> QED  BY <1>3, <1>6, <1>8

\* A frame that is written is the last on the wire.
LEMMA PutsKeeps ==
    ASSUME StreamType, InboundType, StreamInv, PipeInv, Puts, mode' = mode
    PROVE  StreamType' /\ InboundType' /\ StreamInv' /\ PipeInv'
<1>1. PICK k \in Stream, f \in Frame : Put(k, f) /\ UNCHANGED <<chan, state, inboundVars>>
  BY DEF Puts
<1>2. /\ state[k] = "open"
      /\ wire' = [wire EXCEPT ![k] = Append(wire[k], f)]
      /\ written' = [written EXCEPT ![k] = Append(written[k], f)]
      /\ UNCHANGED <<chan, state, ipc, held, deliveries, handling, handled>>
  BY <1>1 DEF Put, inboundVars
<1>3. Append(wire[k], f) \in Seq(Frame) /\ Append(written[k], f) \in Seq(Frame)
  BY SeqTypes, AppendFacts
<1>4. StreamType' /\ InboundType'
  BY <1>2, <1>3 DEF StreamType, InboundType
<1>5. /\ wire'[k] = Append(wire[k], f) /\ written'[k] = Append(written[k], f)
      /\ \A j \in Stream \ {k} : Rests(j)
  BY <1>2 DEF StreamType, Rests
<1>6. chan[k] # None
  BY <1>2 DEF StreamInv, StreamAt
<1>7. StreamInv'
  <2> SUFFICES ASSUME NEW j \in Stream PROVE StreamAt(j)'
    BY DEF StreamInv
  <2>1. CASE j = k
    BY <1>2, <1>6, <2>1 DEF StreamInv, StreamAt
  <2>2. CASE j # k
    BY <1>2, <1>5, <2>2 DEF StreamInv, StreamAt, Rests
  <2> QED  BY <2>1, <2>2
<1>8. PipeAt(k)'
  <2>1. PipeOf(ipc[k], handled[k], handling[k], deliveries[k], held[k], Append(wire[k], f),
               Append(written[k], f), chan[k])
    BY SeqTypes, PipeWritten DEF PipeInv, PipeAt
  <2> QED  BY <1>2, <1>5, <2>1, PipeNext
<1>9. PipeInv'
  BY <1>5, <1>8, PipeRests DEF PipeInv
<1> QED  BY <1>4, <1>7, <1>9

LEMMA StateMovesKeeps ==
    ASSUME StreamType, InboundType, StreamInv, PipeInv, StateMoves, mode' = mode
    PROVE  StreamType' /\ InboundType' /\ StreamInv' /\ PipeInv'
<1>1. UNCHANGED <<chan, wire, written, ipc, held, deliveries, handling, handled>>
  BY DEF StateMoves, inboundVars
<1>2. StreamType' /\ InboundType'
  BY <1>1 DEF StreamType, InboundType, StateMoves
<1>3. StreamInv'
  BY <1>1 DEF StreamInv, StreamAt, StateMoves
<1>4. \A j \in Stream : Rests(j)
  BY <1>1 DEF Rests
<1>5. PipeInv'
  BY <1>4, PipeRests DEF PipeInv
<1> QED  BY <1>2, <1>3, <1>5

\* A reader or a dispatcher moves the frames of its own stream.
LEMMA ReaderKeeps ==
    ASSUME StreamType, InboundType, StreamInv, PipeInv, mode' = mode,
           NEW k \in Stream, Reader(k) \/ Dispatcher(k)
    PROVE  StreamType' /\ InboundType' /\ StreamInv' /\ PipeInv' /\ UNCHANGED <<chan, written>>
<1>1. /\ wire[k] \in Seq(Frame) /\ written[k] \in Seq(Frame)
      /\ held[k] \in Seq(Frame) /\ deliveries[k] \in Seq(Frame)
      /\ handling[k] \in Seq(Frame) /\ handled[k] \in Seq(Frame)
      /\ <<>> \in Seq(Frame)
  BY SeqTypes, NilFacts
<1>2. PipeOf(ipc[k], handled[k], handling[k], deliveries[k], held[k], wire[k],
             written[k], chan[k])
  BY DEF PipeInv, PipeAt
<1>3. chan[k] # None
  <2>1. ipc[k] # "none" \/ deliveries[k] # <<>> \/ handling[k] # <<>>
    BY DEF Reader, Dispatcher, Accept, ReadFrame, ReadEnds, Offer, OfferStopped, InboundDone,
           Dispatch, Handle
  <2> QED  BY <2>1 DEF StreamInv, StreamAt
<1>4. ASSUME chan' = chan, written' = written, state' = state \/ Reset(k), PipeAt(k)',
             \A j \in Stream \ {k} : Rests(j), StreamType', InboundType'
      PROVE  StreamType' /\ InboundType' /\ StreamInv' /\ PipeInv' /\ UNCHANGED <<chan, written>>
  <2>1. \A j \in Stream : state'[j] = state[j] \/ (j = k /\ state'[j] = "reset")
    BY <1>4 DEF Reset, StreamType
  <2>2. StreamInv'
    <3> SUFFICES ASSUME NEW j \in Stream PROVE StreamAt(j)'
      BY DEF StreamInv
    <3>1. CASE j = k
      BY <1>3, <1>4, <2>1, <3>1 DEF StreamInv, StreamAt
    <3>2. CASE j # k
      BY <1>4, <2>1, <3>2 DEF StreamInv, StreamAt, Rests
    <3> QED  BY <3>1, <3>2
  <2>3. PipeInv'
    BY <1>4, PipeRests DEF PipeInv
  <2> QED  BY <1>4, <2>2, <2>3
<1>5. Reset(k) => state' \in [Stream -> {"unused", "open", "eof", "reset"}]
  BY DEF Reset, StreamType
<1>6. CASE Accept(k)
  <2>1. /\ ipc[k] = "pending" /\ \E q \in {"read", "done"} : ipc' = [ipc EXCEPT ![k] = q]
        /\ state' = state \/ Reset(k)
        /\ UNCHANGED <<chan, wire, written, held, deliveries, handling, handled>>
    BY <1>6 DEF Accept
  <2>2. /\ StreamType' /\ InboundType' /\ \A j \in Stream \ {k} : Rests(j)
        /\ ipc'[k] \in {"read", "done"}
    BY <1>5, <2>1 DEF StreamType, InboundType, Rests
  <2>3. PipeOf("read", handled[k], handling[k], deliveries[k], held[k], wire[k], written[k],
               chan[k])
    BY <1>2, <2>1, PipeStarts
  <2>4. /\ held[k] = <<>> /\ deliveries[k] = <<>> /\ handling[k] = <<>>
    BY <1>2, <2>1 DEF PipeOf
  <2>5. PipeOf("done", handled[k], handling[k], deliveries[k], <<>>, wire[k], written[k],
               chan[k])
    BY <1>1, <1>2, <2>4, PipeEnds
  <2>6. PipeAt(k)'
    BY <2>1, <2>2, <2>3, <2>4, <2>5, PipeNext
  <2> QED  BY <1>4, <2>1, <2>2, <2>6
<1>7. CASE ReadFrame(k)
  <2>1. /\ ipc[k] = "read" /\ wire[k] # <<>>
        /\ wire' = [wire EXCEPT ![k] = Tail(wire[k])]
        /\ UNCHANGED <<chan, written, deliveries, handled>>
    BY <1>7 DEF ReadFrame
  <2>2. Tail(wire[k]) \in Seq(Frame) /\ <<Head(wire[k])>> \in Seq(Frame)
    BY <1>1, <2>1, HeadTail, SingleFacts
  <2>3. CASE /\ ipc' = [ipc EXCEPT ![k] = "drain"]
             /\ state' = state \/ Reset(k)
             /\ UNCHANGED <<held, handling>>
    <3>1. StreamType' /\ InboundType' /\ \A j \in Stream \ {k} : Rests(j)
      BY <1>5, <2>1, <2>2, <2>3 DEF StreamType, InboundType, Rests
    <3>2. ipc'[k] = "drain" /\ wire'[k] = Tail(wire[k])
      BY <2>1, <2>3 DEF StreamType, InboundType
    <3>3. held[k] = <<>>
      BY <1>2, <2>1 DEF PipeOf
    <3>4. PipeOf("drain", handled[k], handling[k], deliveries[k], <<>>, Tail(wire[k]), written[k],
                 chan[k])
      BY <1>1, <1>2, PipeEnds
    <3>5. PipeAt(k)'
      BY <2>1, <2>3, <3>2, <3>3, <3>4, PipeNext
    <3> QED  BY <1>4, <2>1, <2>3, <3>1, <3>5
  <2>4. CASE /\ Valid(Head(wire[k]), chan[k]) /\ mode # "fresh"
             /\ ipc' = [ipc EXCEPT ![k] = "offer"]
             /\ held' = [held EXCEPT ![k] = <<Head(wire[k])>>]
             /\ UNCHANGED <<state, handling>>
    <3>1. StreamType' /\ InboundType' /\ \A j \in Stream \ {k} : Rests(j)
      BY <1>5, <2>1, <2>2, <2>4 DEF StreamType, InboundType, Rests
    <3>2. ipc'[k] = "offer" /\ wire'[k] = Tail(wire[k]) /\ held'[k] = <<Head(wire[k])>>
      BY <2>1, <2>4 DEF StreamType, InboundType
    <3>3. PipeOf("offer", handled[k], handling[k], deliveries[k], <<Head(wire[k])>>,
                 Tail(wire[k]), written[k], chan[k])
      BY <1>1, <1>2, <2>1, <2>4, PipeHeld
    <3>4. PipeAt(k)'
      BY <2>1, <2>4, <3>2, <3>3, PipeNext
    <3> QED  BY <1>4, <2>1, <2>4, <3>1, <3>4
  <2>5. CASE /\ Valid(Head(wire[k]), chan[k]) /\ mode = "fresh"
             /\ ipc' = [ipc EXCEPT ![k] = "drain"]
             /\ handling' = [handling EXCEPT ![k] = <<Head(wire[k])>>]
             /\ UNCHANGED <<state, held>>
    <3>1. StreamType' /\ InboundType' /\ \A j \in Stream \ {k} : Rests(j)
      BY <1>5, <2>1, <2>2, <2>5 DEF StreamType, InboundType, Rests
    <3>2. ipc'[k] = "drain" /\ wire'[k] = Tail(wire[k]) /\ handling'[k] = <<Head(wire[k])>>
      BY <2>1, <2>5 DEF StreamType, InboundType
    <3>3. PipeOf("drain", handled[k], <<Head(wire[k])>>, deliveries[k], held[k],
                 Tail(wire[k]), written[k], chan[k])
      BY <1>1, <1>2, <2>1, <2>5, PipeFresh
    <3>4. PipeAt(k)'
      BY <2>1, <2>5, <3>2, <3>3, PipeNext
    <3> QED  BY <1>4, <2>1, <2>5, <3>1, <3>4
  <2> QED  BY <1>7, <2>3, <2>4, <2>5 DEF ReadFrame
<1>8. CASE ReadEnds(k) \/ OfferStopped(k) \/ InboundDone(k)
  <2>1. \E q \in {"drain", "done"} :
          /\ ipc' = [ipc EXCEPT ![k] = q]
          /\ q = "done" => deliveries[k] = <<>> /\ handling[k] = <<>>
    BY <1>8 DEF ReadEnds, OfferStopped, InboundDone
  <2>2. /\ state' = state \/ Reset(k)
        /\ UNCHANGED <<chan, wire, written, deliveries, handling, handled>>
    BY <1>8 DEF ReadEnds, OfferStopped, InboundDone, streamVars
  <2>3. held' = [held EXCEPT ![k] = <<>>] \/ (held' = held /\ ipc[k] \in {"read", "drain"})
    BY <1>8 DEF ReadEnds, OfferStopped, InboundDone
  <2>4. held'[k] = <<>>
    BY <1>2, <2>3 DEF InboundType, PipeOf
  <2>5. StreamType' /\ InboundType' /\ \A j \in Stream \ {k} : Rests(j)
    <3>1. StreamType'
      BY <1>5, <2>2 DEF StreamType
    <3>2. held' \in [Stream -> Seq(Frame)] /\ \A j \in Stream \ {k} : held'[j] = held[j]
      BY <1>1, <2>3 DEF InboundType
    <3>3. /\ ipc' \in [Stream -> {"none", "pending", "read", "offer", "drain", "done"}]
          /\ \A j \in Stream \ {k} : ipc'[j] = ipc[j]
      BY <2>1 DEF InboundType
    <3>4. InboundType'
      BY <2>2, <3>2, <3>3 DEF InboundType
    <3>5. \A j \in Stream \ {k} : Rests(j)
      BY <2>2, <3>2, <3>3 DEF Rests
    <3> QED  BY <3>1, <3>4, <3>5
  <2>6. PICK q \in {"drain", "done"} :
          ipc'[k] = q /\ (q = "done" => deliveries[k] = <<>> /\ handling[k] = <<>>)
    BY <2>1 DEF InboundType
  <2>7. PipeOf(q, handled[k], handling[k], deliveries[k], <<>>, wire[k], written[k], chan[k])
    <3>1. CASE q = "drain"
      BY <1>1, <1>2, <3>1, PipeEnds
    <3>2. CASE q = "done"
      BY <1>1, <1>2, <2>6, <3>2, PipeEnds
    <3> QED  BY <3>1, <3>2
  <2>8. PipeAt(k)'
    BY <2>2, <2>4, <2>6, <2>7, PipeNext
  <2> QED  BY <1>4, <2>2, <2>5, <2>8
<1>9. CASE Offer(k)
  <2>1. /\ ipc[k] = "offer" /\ Len(deliveries[k]) < InboundCapacity
        /\ deliveries' = [deliveries EXCEPT ![k] = deliveries[k] \o held[k]]
        /\ held' = [held EXCEPT ![k] = <<>>]
        /\ ipc' = [ipc EXCEPT ![k] = "read"]
        /\ UNCHANGED <<chan, state, wire, written, handling, handled>>
    BY <1>9 DEF Offer, streamVars
  <2>2. /\ PipeOf("read", handled[k], handling[k], deliveries[k] \o held[k], <<>>, wire[k],
                  written[k], chan[k])
        /\ Len(held[k]) = 1
    BY <1>1, <1>2, <2>1, PipeOffered
  <2>3. /\ deliveries[k] \o held[k] \in Seq(Frame)
        /\ Len(deliveries[k] \o held[k]) <= InboundCapacity
    <3>1. /\ deliveries[k] \o held[k] \in Seq(Frame) /\ Len(deliveries[k]) \in Nat
          /\ Len(deliveries[k] \o held[k]) = Len(deliveries[k]) + Len(held[k])
      BY <1>1, ConcatFacts
    <3> QED  BY <2>1, <2>2, <3>1, BoundAssumption
  <2>4. /\ deliveries'[k] = deliveries[k] \o held[k] /\ held'[k] = <<>> /\ ipc'[k] = "read"
        /\ \A j \in Stream \ {k} : Rests(j)
    BY <2>1 DEF InboundType, Rests
  <2>5. StreamType'
    BY <2>1 DEF StreamType
  <2>6. \A j \in Stream : Len(deliveries'[j]) <= InboundCapacity
    BY <2>3, <2>4 DEF InboundType, Rests
  <2>7. deliveries' \in [Stream -> Seq(Frame)]
    BY <2>1, <2>3 DEF InboundType
  <2>8. InboundType'
    BY <1>1, <2>1, <2>6, <2>7 DEF InboundType
  <2>9. PipeAt(k)'
    BY <2>1, <2>2, <2>4, PipeNext
  <2> QED  BY <1>4, <2>1, <2>4, <2>5, <2>8, <2>9
<1>10. CASE Dispatch(k)
  <2>1. /\ handling[k] = <<>> /\ deliveries[k] # <<>>
        /\ handling' = [handling EXCEPT ![k] = <<Head(deliveries[k])>>]
        /\ deliveries' = [deliveries EXCEPT ![k] = Tail(deliveries[k])]
        /\ UNCHANGED <<chan, state, wire, written, ipc, held, handled>>
    BY <1>10 DEF Dispatch, streamVars
  <2>2. PipeOf(ipc[k], handled[k], <<Head(deliveries[k])>>, Tail(deliveries[k]), held[k], wire[k],
               written[k], chan[k])
    BY <1>1, <1>2, <2>1, PipeDispatched
  <2>3. /\ Tail(deliveries[k]) \in Seq(Frame) /\ <<Head(deliveries[k])>> \in Seq(Frame)
        /\ Len(Tail(deliveries[k])) <= Len(deliveries[k])
        /\ Len(deliveries[k]) \in Nat /\ Len(Tail(deliveries[k])) \in Nat
    BY <1>1, <2>1, HeadTail, SingleFacts
  <2>4. /\ handling'[k] = <<Head(deliveries[k])>> /\ deliveries'[k] = Tail(deliveries[k])
        /\ \A j \in Stream \ {k} : Rests(j)
    BY <2>1 DEF InboundType, Rests
  <2>5. StreamType'
    BY <2>1 DEF StreamType
  <2>6. \A j \in Stream : Len(deliveries'[j]) <= InboundCapacity
    <3>1. Len(deliveries'[k]) <= InboundCapacity
      <4>1. Len(deliveries[k]) <= InboundCapacity
        BY DEF InboundType
      <4> QED  BY <2>3, <2>4, <4>1, BoundAssumption
    <3>2. \A j \in Stream \ {k} : Len(deliveries'[j]) <= InboundCapacity
      BY <2>4 DEF InboundType, Rests
    <3> QED  BY <3>1, <3>2
  <2>7. deliveries' \in [Stream -> Seq(Frame)] /\ handling' \in [Stream -> Seq(Frame)]
    BY <2>1, <2>3 DEF InboundType
  <2>8. InboundType'
    BY <2>1, <2>6, <2>7 DEF InboundType
  <2>9. PipeAt(k)'
    BY <2>1, <2>2, <2>4, PipeNext
  <2> QED  BY <1>4, <2>1, <2>4, <2>5, <2>8, <2>9
<1>11. CASE Handle(k)
  <2>1. /\ handled' = [handled EXCEPT ![k] = handled[k] \o handling[k]]
        /\ handling' = [handling EXCEPT ![k] = <<>>]
        /\ UNCHANGED <<chan, state, wire, written, ipc, held, deliveries>>
    BY <1>11 DEF Handle, streamVars
  <2>2. PipeOf(ipc[k], handled[k] \o handling[k], <<>>, deliveries[k], held[k], wire[k],
               written[k], chan[k])
    BY <1>1, <1>2, PipeHandled
  <2>3. handled[k] \o handling[k] \in Seq(Frame)
    BY <1>1, ConcatFacts
  <2>4. /\ handling'[k] = <<>> /\ handled'[k] = handled[k] \o handling[k]
        /\ \A j \in Stream \ {k} : Rests(j)
    BY <2>1 DEF InboundType, Rests
  <2>5. StreamType' /\ InboundType'
    BY <1>1, <2>1, <2>3 DEF StreamType, InboundType
  <2>6. PipeAt(k)'
    BY <2>1, <2>2, <2>4, PipeNext
  <2> QED  BY <1>4, <2>1, <2>4, <2>5, <2>6
<1> QED
  BY <1>6, <1>7, <1>8, <1>9, <1>10, <1>11 DEF Reader, Dispatcher

\* So the streams and the queues of their readers are as they should be after
\* every step.
LEMMA StreamStep ==
    ASSUME TypeOK, CallInv, QueueInv, StreamInv, PipeInv, Next
    PROVE  StreamType' /\ InboundType' /\ StreamInv' /\ PipeInv'
<1>1. StreamType /\ InboundType
  BY TypeParts
<1> QED
  BY <1>1, StreamCases, StateMovesKeeps, OpensKeeps, PutsKeeps, ReaderKeeps

LEMMA NetTypeStep ==
    ASSUME TypeOK, CallInv, Next
    PROVE  NetType'
<1>1. NetType
  BY TypeParts
<1>2. ASSUME NEW s \in Call, Caller(s)
      PROVE  NetType'
  <2>1. ASSUME NEW k \in Stream, FreshOpen(s, k) PROVE NetType'
    <3>1. via[s] \in Chan
      BY <2>1 DEF FreshOpen, CallInv, CallBegun
    <3> QED  BY <1>1, <2>1, <3>1, ChanFacts DEF NetType, FreshOpen
  <2>2. CASE \/ \E l \in Link, kind \in Kind : Send(s, l, kind)
             \/ \E c \in Chan, f \in Forged : Missend(s, c, f)
             \/ Enqueue(s) \/ SendStopped(s) \/ SendExpires(s)
             \/ FreshWrite(s) \/ FreshFinish(s) \/ FreshFails(s)
    BY <1>1, <2>2 DEF NetType, netVars, Send, Missend, Enqueue, SendStopped, SendExpires,
       Return,
                      FreshWrite, FreshFinish, FreshFails
  <2> QED  BY <1>2, <2>1, <2>2 DEF Caller, Progress
<1>3. ASSUME NEW c \in Chan, Writer(c) \/ Prewarmer(c)
      PROVE  NetType'
  <2>1. ASSUME NEW k \in Stream, OpenStream(c, k) PROVE NetType'
    <3>1. conn' = conn \union {<<From(c), To(c)>>} /\ UNCHANGED <<dialing, drops, phase, prepare>>
      BY <2>1 DEF OpenStream, openPersistentOutboundStream
    <3> QED  BY <1>1, <3>1, ChanFacts DEF NetType
  <2>2. CASE ~\E k \in Stream : OpenStream(c, k)
    <3>1. UNCHANGED <<conn, dialing, drops, phase, prepare>>
      BY <1>3, <2>2 DEF netVars, Writer, Prewarmer, StopWriter, TakeRequest, FailQueued,
         WriteFrame,
         RequestFails, FinishRequest, TakePrewarm, PrewarmOpen, PrewarmFails, PrewarmQuits,
         PrewarmCalls, PrewarmExpires
    <3> QED  BY <1>1, <3>1 DEF NetType
  <2> QED  BY <2>1, <2>2
<1>4. ASSUME NEW k \in Stream, Reader(k) \/ Dispatcher(k)
      PROVE  NetType'
  BY <1>1, <1>4 DEF NetType, Reader, Dispatcher, Accept, ReadFrame, ReadEnds, Offer,
                    OfferStopped, InboundDone, Dispatch, Handle, netVars
<1>5. ASSUME NEW l \in Link, Connect(l) \/ Disconnect(l)
      PROVE  NetType'
  BY <1>1, <1>5, NodeAssumption, BoundAssumption DEF NetType, Connect, Disconnect
<1>6. ASSUME NEW n \in Node, Lifecycle(n)
      PROVE  NetType'
  BY <1>1, <1>6 DEF NetType, Lifecycle, CloseBegins, CloseHost, CloseReturns, PrepareSlot,
     PrepareSlotDone, netVars
<1> QED
  BY <1>2, <1>3, <1>4, <1>5, <1>6 DEF Next

(***************************************************************************)
(* Prewarming and Close.                                                   *)
(***************************************************************************)

\* Nothing happens to the writer and the prewarm loop of channel c.
WriterRests(c) ==
    /\ wpc'[c] = wpc[c] /\ ppc'[c] = ppc[c] /\ prewarm'[c] = prewarm[c] /\ pcur'[c] = pcur[c]
    /\ stream'[c] = stream[c] /\ ready'[c] = ready[c]

\* Only a channel's writer and prewarm loop move them.
LEMMA WriterCases ==
    ASSUME TypeOK, Next
    PROVE  \/ \A c \in Chan : WriterRests(c)
           \/ \E c \in Chan : /\ Writer(c) \/ Prewarmer(c)
                              /\ phase' = phase
                              /\ \A d \in Chan \ {c} : WriterRests(d)
<1>1. WriterType /\ PrewarmType
  BY TypeParts
<1>2. ASSUME NEW s \in Call, Caller(s)
      PROVE  \A c \in Chan : WriterRests(c)
  <2>1. UNCHANGED <<wpc, stream, ready, ppc, prewarm, pcur>>
    BY <1>2 DEF writerVars, prewarmVars, Caller, Progress, Send, Missend, Enqueue, SendStopped,
       SendExpires, Return, FreshOpen, FreshWrite, FreshFinish, FreshFails
  <2> QED  BY <2>1 DEF WriterRests
<1>3. ASSUME NEW c \in Chan, Writer(c)
      PROVE  phase' = phase /\ \A d \in Chan \ {c} : WriterRests(d)
  <2> SUFFICES ASSUME NEW d \in Chan, d # c PROVE phase' = phase /\ WriterRests(d)
    BY <1>3 DEF Writer, StopWriter, TakeRequest, FailQueued, WriteFrame, OpenStream,
         RequestFails, FinishRequest, TakePrewarm, PrewarmOpen, PrewarmFails
  <2>1. phase' = phase
    BY <1>3 DEF Writer, StopWriter, TakeRequest, FailQueued, WriteFrame, OpenStream,
         RequestFails, FinishRequest, TakePrewarm, PrewarmOpen, PrewarmFails
  <2>2. wpc'[d] = wpc[d]
    BY <1>1, <1>3 DEF WriterType, Writer, StopWriter, TakeRequest, FailQueued, WriteFrame,
       OpenStream, RequestFails, FinishRequest, TakePrewarm, PrewarmOpen, PrewarmFails, Drop
  <2>3. stream'[d] = stream[d] /\ ready'[d] = ready[d]
    BY <1>1, <1>3 DEF WriterType, Writer, StopWriter, TakeRequest, FailQueued, WriteFrame,
       OpenStream, RequestFails, FinishRequest, TakePrewarm, PrewarmOpen, PrewarmFails, Drop
  <2>4. ppc'[d] = ppc[d] /\ prewarm'[d] = prewarm[d] /\ pcur'[d] = pcur[d]
    BY <1>1, <1>3 DEF PrewarmType, Writer, StopWriter, TakeRequest, FailQueued, WriteFrame,
       OpenStream, RequestFails, FinishRequest, TakePrewarm, PrewarmOpen, PrewarmFails,
       AnswerPrewarm, prewarmVars
  <2> QED  BY <2>1, <2>2, <2>3, <2>4 DEF WriterRests
<1>4. ASSUME NEW c \in Chan, Prewarmer(c)
      PROVE  phase' = phase /\ \A d \in Chan \ {c} : WriterRests(d)
  BY <1>1, <1>4 DEF PrewarmType, Prewarmer, PrewarmQuits, PrewarmCalls, PrewarmExpires,
                    WriterRests, writerVars
<1>5. ASSUME NEW k \in Stream, Reader(k) \/ Dispatcher(k)
      PROVE  \A c \in Chan : WriterRests(c)
  BY <1>5 DEF WriterRests, Reader, Dispatcher, Accept, ReadFrame, ReadEnds, Offer,
              OfferStopped, InboundDone, Dispatch, Handle, writerVars, prewarmVars
<1>6. ASSUME NEW l \in Link, Connect(l) \/ Disconnect(l)
      PROVE  \A c \in Chan : WriterRests(c)
  BY <1>6 DEF WriterRests, Connect, Disconnect, writerVars, prewarmVars
<1>7. ASSUME NEW n \in Node, Lifecycle(n)
      PROVE  \A c \in Chan : WriterRests(c)
  BY <1>7 DEF WriterRests, Lifecycle, CloseBegins, CloseHost, CloseReturns, PrepareSlot,
     PrepareSlotDone, writerVars, prewarmVars
<1> QED
  BY <1>2, <1>3, <1>4, <1>5, <1>6, <1>7 DEF Next

\* A writer and its prewarm loop, together: a live request is waited for, a
\* writer that stops lets go of its stream, and what has ended stays ended.
LEMMA ChannelStep ==
    ASSUME TypeOK, PrewarmInv, CloseInv, NEW c \in Chan, Writer(c) \/ Prewarmer(c)
    PROVE  /\ prewarm'[c] = "live" \/ pcur'[c] = "live" => ppc'[c] = "wait"
           /\ ~(prewarm'[c] = "live" /\ pcur'[c] = "live")
           /\ wpc'[c] # "prewarm" => pcur'[c] = "empty"
           /\ wpc'[c] \in {"drain", "done"} => stream'[c] = 0 /\ ~ready'[c]
           /\ wpc[c] = "done" => wpc'[c] = "done"
           /\ ppc[c] = "done" => ppc'[c] = "done"
<1>1. /\ WriterType /\ PrewarmType
      /\ prewarm[c] = "live" \/ pcur[c] = "live" => ppc[c] = "wait"
      /\ ~(prewarm[c] = "live" /\ pcur[c] = "live")
      /\ wpc[c] # "prewarm" => pcur[c] = "empty"
      /\ wpc[c] \in {"drain", "done"} => stream[c] = 0 /\ ~ready[c]
  BY TypeParts DEF PrewarmInv, CloseInv
<1>2. ASSUME NEW at, Drop(c, at)
      PROVE  wpc'[c] = at /\ stream'[c] = 0 /\ ready'[c] = FALSE
  BY <1>1, <1>2 DEF Drop, WriterType
<1>3. CASE StopWriter(c)
  <2>1. /\ wpc[c] = "select" /\ wpc'[c] = "drain" /\ stream'[c] = 0 /\ ready'[c] = FALSE
        /\ UNCHANGED <<ppc, prewarm, pcur>>
    BY <1>2, <1>3 DEF StopWriter, prewarmVars
  <2> QED  BY <1>1, <2>1
<1>4. CASE TakeRequest(c)
  <2>1. /\ wpc[c] = "select" /\ UNCHANGED <<ppc, prewarm, pcur>>
        /\ \/ wpc'[c] = "drain" /\ stream'[c] = 0 /\ ready'[c] = FALSE
           \/ wpc'[c] \in {"select", "open", "write"}
    BY <1>1, <1>2, <1>4 DEF TakeRequest, prewarmVars, WriterType
  <2> QED  BY <1>1, <2>1
<1>5. CASE RequestFails(c) \/ FinishRequest(c)
  <2>1. /\ wpc[c] \in {"open", "write", "sent"} /\ UNCHANGED <<ppc, prewarm, pcur>>
        /\ wpc'[c] = "select"
    BY <1>1, <1>2, <1>5 DEF RequestFails, FinishRequest, prewarmVars, WriterType
  <2> QED  BY <1>1, <2>1
<1>6. CASE WriteFrame(c) \/ \E k \in Stream : OpenStream(c, k)
  <2>1. /\ wpc[c] \in {"open", "write"} /\ UNCHANGED <<ppc, prewarm, pcur>>
        /\ wpc'[c] \in {"select", "write", "sent"}
    BY <1>1, <1>6 DEF WriteFrame, OpenStream, prewarmVars, WriterType
  <2> QED  BY <1>1, <2>1
<1>7. CASE FailQueued(c)
  <2>1. /\ wpc[c] = "drain" /\ wpc'[c] \in {"drain", "done"}
        /\ UNCHANGED <<pcur, stream, ready>>
        /\ \/ ppc'[c] = ppc[c] /\ prewarm'[c] = prewarm[c]
           \/ /\ prewarm'[c] = "empty"
              /\ ppc'[c] = IF prewarm[c] = "live" THEN "check" ELSE ppc[c]
    BY <1>1, <1>7 DEF FailQueued, AnswerPrewarm, WriterType, PrewarmType
  <2> QED  BY <1>1, <2>1
<1>8. CASE TakePrewarm(c)
  <2>1. wpc[c] = "select" /\ prewarm'[c] = "empty"
    BY <1>1, <1>8 DEF TakePrewarm, PrewarmType
  <2>2. CASE AnswerPrewarm(c, prewarm[c], "check") /\ Drop(c, "drain") /\ UNCHANGED pcur
    <3>1. ppc'[c] = IF prewarm[c] = "live" THEN "check" ELSE ppc[c]
      BY <1>1, <2>2 DEF AnswerPrewarm, PrewarmType
    <3> QED  BY <1>1, <1>2, <2>1, <2>2, <3>1
  <2>3. CASE AnswerPrewarm(c, prewarm[c], "done") /\ UNCHANGED <<pcur, wpc>>
    <3>1. ppc'[c] = IF prewarm[c] = "live" THEN "done" ELSE ppc[c]
      BY <1>1, <2>3 DEF AnswerPrewarm, PrewarmType
    <3> QED  BY <1>1, <2>1, <2>3, <3>1
  <2>4. CASE /\ prewarm[c] = "live" /\ pcur' = [pcur EXCEPT ![c] = "live"]
             /\ wpc' = [wpc EXCEPT ![c] = "prewarm"] /\ UNCHANGED ppc
    <3>1. wpc'[c] = "prewarm" /\ pcur'[c] = "live"
      BY <1>1, <2>4 DEF WriterType, PrewarmType
    <3> QED  BY <1>1, <2>1, <2>4, <3>1
  <2> QED  BY <1>8, <2>2, <2>3, <2>4 DEF TakePrewarm
<1>9. CASE PrewarmFails(c) \/ \E k \in Stream : PrewarmOpen(c, k)
  <2>1. /\ wpc[c] = "prewarm" /\ wpc'[c] = "select" /\ pcur'[c] = "empty"
        /\ UNCHANGED prewarm
        /\ \E at : ppc'[c] = IF pcur[c] = "live" THEN at ELSE ppc[c]
    BY <1>1, <1>9 DEF PrewarmFails, PrewarmOpen, AnswerPrewarm, WriterType, PrewarmType
  <2> QED  BY <1>1, <2>1
<1>10. CASE Prewarmer(c)
  <2>1. CASE PrewarmQuits(c)
    BY <1>1, <2>1 DEF PrewarmQuits, PrewarmType, writerVars
  <2>2. CASE PrewarmCalls(c)
    BY <1>1, <2>2 DEF PrewarmCalls, PrewarmType, writerVars
  <2>3. CASE PrewarmExpires(c)
    BY <1>1, <2>3 DEF PrewarmExpires, PrewarmType, writerVars
  <2> QED  BY <1>10, <2>1, <2>2, <2>3 DEF Prewarmer
<1> QED
  BY <1>3, <1>4, <1>5, <1>6, <1>7, <1>8, <1>9, <1>10 DEF Writer

LEMMA PrewarmStep ==
    ASSUME TypeOK, PrewarmInv, CloseInv, Next
    PROVE  /\ PrewarmInv'
           /\ \A c \in Chan : wpc'[c] \in {"drain", "done"} => stream'[c] = 0 /\ ~ready'[c]
           /\ \A c \in Chan : (wpc[c] = "done" => wpc'[c] = "done")
                              /\ (ppc[c] = "done" => ppc'[c] = "done")
<1>1. ASSUME NEW c \in Chan, WriterRests(c) \/ Writer(c) \/ Prewarmer(c)
      PROVE  /\ prewarm'[c] = "live" \/ pcur'[c] = "live" => ppc'[c] = "wait"
             /\ ~(prewarm'[c] = "live" /\ pcur'[c] = "live")
             /\ wpc'[c] # "prewarm" => pcur'[c] = "empty"
             /\ wpc'[c] \in {"drain", "done"} => stream'[c] = 0 /\ ~ready'[c]
             /\ wpc[c] = "done" => wpc'[c] = "done"
             /\ ppc[c] = "done" => ppc'[c] = "done"
  <2>1. CASE WriterRests(c)
    BY <2>1 DEF WriterRests, PrewarmInv, CloseInv
  <2>2. CASE Writer(c) \/ Prewarmer(c)
    BY <2>2, ChannelStep
  <2> QED  BY <1>1, <2>1, <2>2
<1>2. \A c \in Chan : WriterRests(c) \/ Writer(c) \/ Prewarmer(c)
  BY WriterCases
<1> QED  BY <1>1, <1>2 DEF PrewarmInv

\* Close that has returned was waiting for nobody.
LEMMA PhaseCases ==
    ASSUME TypeOK, Next, NEW n \in Node, phase'[n] = "closed"
    PROVE  phase[n] = "closed" \/ (Idle(n) /\ UNCHANGED <<wpc, ppc, chan, ipc>>)
<1>1. NetType
  BY TypeParts
<1>2. ASSUME NEW s \in Call, Caller(s) PROVE phase' = phase
  BY <1>2 DEF Caller, Progress, Send, Missend, Enqueue, SendStopped, SendExpires, Return,
     FreshOpen, FreshWrite, FreshFinish, FreshFails
<1>3. ASSUME NEW c \in Chan, Writer(c) \/ Prewarmer(c) PROVE phase' = phase
  BY <1>3 DEF Writer, Prewarmer, StopWriter, TakeRequest, FailQueued, WriteFrame, OpenStream,
     RequestFails, FinishRequest, TakePrewarm, PrewarmOpen, PrewarmFails, PrewarmQuits,
     PrewarmCalls, PrewarmExpires
<1>4. ASSUME NEW k \in Stream, Reader(k) \/ Dispatcher(k) PROVE phase' = phase
  BY <1>4 DEF Reader, Dispatcher, Accept, ReadFrame, ReadEnds, Offer, OfferStopped, InboundDone,
              Dispatch, Handle
<1>5. ASSUME NEW l \in Link, Connect(l) \/ Disconnect(l) PROVE phase' = phase
  BY <1>5 DEF Connect, Disconnect
<1>6. ASSUME NEW m \in Node, Lifecycle(m)
      PROVE  phase[n] = "closed" \/ (Idle(n) /\ UNCHANGED <<wpc, ppc, chan, ipc>>)
  <2>1. CASE CloseBegins(m) \/ CloseHost(m) \/ PrepareSlot(m) \/ PrepareSlotDone(m)
    BY <1>1, <2>1 DEF CloseBegins, CloseHost, PrepareSlot, PrepareSlotDone, NetType
  <2>2. CASE CloseReturns(m)
    BY <1>1, <2>2 DEF CloseReturns, NetType, writerVars, prewarmVars, streamVars, inboundVars
  <2> QED  BY <1>6, <2>1, <2>2 DEF Lifecycle
<1> QED
  BY <1>2, <1>3, <1>4, <1>5, <1>6 DEF Next

\* No stream to a closed node is opened, and none that waits is accepted.
LEMMA InboundStaysQuiet ==
    ASSUME TypeOK, CallInv, QueueInv, StreamInv, CloseInv, Next,
           NEW n \in Node, phase[n] = "closed", NEW k \in Stream,
           chan'[k] # None, To(chan'[k]) = n
    PROVE  ipc'[k] \in {"pending", "done"}
<1>1. StreamType /\ InboundType
  BY TypeParts
<1>2. chan[k] # None /\ To(chan[k]) = n => ipc[k] \in {"pending", "done"}
  BY DEF CloseInv, Idle
<1>3. CASE StateMoves \/ Puts
  BY <1>2, <1>3 DEF StateMoves, Puts, inboundVars
<1>4. CASE Opens
  <2>1. PICK j \in Stream, c \in Chan, st \in {"open", "reset"} : NewStream(j, c, st)
    BY <1>4 DEF Opens
  <2>2. /\ HostUp(To(c)) /\ chan' = [chan EXCEPT ![j] = c]
        /\ ipc' = [ipc EXCEPT ![j] = "pending"]
    BY <2>1 DEF NewStream
  <2>3. CASE j = k
    BY <1>1, <2>2, <2>3 DEF InboundType
  <2>4. CASE j # k
    BY <1>1, <1>2, <2>2, <2>4 DEF StreamType, InboundType
  <2> QED  BY <2>3, <2>4
<1>5. ASSUME NEW j \in Stream, Reader(j) \/ Dispatcher(j)
      PROVE  ipc'[k] \in {"pending", "done"}
  <2>1. chan' = chan
    BY <1>5 DEF Reader, Dispatcher, Accept, ReadFrame, ReadEnds, Offer, OfferStopped,
                InboundDone, Dispatch, Handle, streamVars
  <2>2. ipc[k] \in {"pending", "done"} /\ Stopped(To(chan[k]))
    BY <1>2, <2>1 DEF Stopped
  <2>3. CASE j = k
    <3>1. CASE Accept(j)
      BY <1>1, <2>2, <2>3, <3>1 DEF Accept, InboundType
    <3>2. CASE Dispatcher(j)
      BY <2>2, <3>2 DEF Dispatcher, Dispatch, Handle
    <3>3. CASE ReadFrame(j) \/ ReadEnds(j) \/ Offer(j) \/ OfferStopped(j) \/ InboundDone(j)
      BY <2>2, <2>3, <3>3 DEF ReadFrame, ReadEnds, Offer, OfferStopped, InboundDone
    <3> QED  BY <1>5, <3>1, <3>2, <3>3 DEF Reader
  <2>4. CASE j # k
    BY <1>1, <1>5, <2>2, <2>4 DEF InboundType, Reader, Dispatcher, Accept, ReadFrame, ReadEnds,
       Offer, OfferStopped, InboundDone, Dispatch, Handle
  <2> QED  BY <2>3, <2>4
<1> QED
  BY <1>3, <1>4, <1>5, StreamCases

LEMMA CloseStep ==
    ASSUME TypeOK, CallInv, QueueInv, StreamInv, PrewarmInv, CloseInv, Next
    PROVE  CloseInv'
<1>1. ASSUME NEW n \in Node, phase'[n] = "closed"
      PROVE  Idle(n)'
  <2>1. CASE Idle(n) /\ UNCHANGED <<wpc, ppc, chan, ipc>>
    BY <2>1 DEF Idle
  <2>2. CASE phase[n] = "closed"
    <3>1. Idle(n)
      BY <2>2 DEF CloseInv
    <3>2. ASSUME NEW c \in Chan, From(c) = n PROVE wpc'[c] = "done" /\ ppc'[c] = "done"
      BY <3>1, <3>2, PrewarmStep DEF Idle
    <3>3. ASSUME NEW k \in Stream, chan'[k] # None, To(chan'[k]) = n
          PROVE  ipc'[k] \in {"pending", "done"}
      BY <2>2, <3>3, InboundStaysQuiet
    <3> QED  BY <3>2, <3>3 DEF Idle, From, To
  <2> QED  BY <1>1, <2>1, <2>2, PhaseCases
<1> QED  BY <1>1, PrewarmStep DEF CloseInv

(***************************************************************************)
(* A call and its frame.                                                   *)
(***************************************************************************)
LEMMA SeqDomain ==
    ASSUME NEW S, NEW q \in Seq(S)
    PROVE  DOMAIN q = 1 .. Len(q) /\ Len(q) \in Nat /\ \A i \in DOMAIN q : q[i] \in S
OBVIOUS

LEMMA WrittenSame ==
    ASSUME written' = written
    PROVE  \A s \in Call : Written(s)' <=> Written(s)
BY DEF Written

\* A frame that is put on a stream is the only new one.
LEMMA WrittenPut ==
    ASSUME StreamType, NEW k \in Stream, NEW f \in Frame, Put(k, f)
    PROVE  /\ \A j \in Stream \ {k} : written'[j] = written[j]
           /\ written'[k] = Append(written[k], f)
           /\ DOMAIN written[k] = 1 .. Len(written[k]) /\ Len(written[k]) \in Nat
           /\ DOMAIN written'[k] = 1 .. Len(written[k]) + 1
           /\ \A i \in DOMAIN written[k] : written'[k][i] = written[k][i]
           /\ written'[k][Len(written[k]) + 1] = f
           /\ \A s : Written(s)' <=> Written(s) \/ s = f.call
<1>1. written' = [written EXCEPT ![k] = Append(written[k], f)] /\ written[k] \in Seq(Frame)
  BY DEF Put, StreamType
<1>2. /\ \A j \in Stream \ {k} : written'[j] = written[j]
      /\ written'[k] = Append(written[k], f)
  BY <1>1 DEF StreamType
<1>3. /\ Append(written[k], f) \in Seq(Frame)
      /\ Len(Append(written[k], f)) = Len(written[k]) + 1
      /\ \A i \in 1 .. Len(written[k]) : Append(written[k], f)[i] = written[k][i]
      /\ Append(written[k], f)[Len(written[k]) + 1] = f
  BY <1>1, AppendFacts
<1>4. /\ DOMAIN written[k] = 1 .. Len(written[k]) /\ Len(written[k]) \in Nat
      /\ DOMAIN written'[k] = 1 .. Len(written[k]) + 1
  BY <1>1, <1>2, <1>3, SeqDomain
<1>5. \A i \in DOMAIN written[k] : written'[k][i] = written[k][i]
  BY <1>2, <1>3, <1>4
<1>6. \A i \in DOMAIN written'[k] : i \in DOMAIN written[k] \/ i = Len(written[k]) + 1
  BY <1>4
<1>7. /\ DOMAIN written[k] \subseteq DOMAIN written'[k]
      /\ Len(written[k]) + 1 \in DOMAIN written'[k]
  BY <1>4
<1>8. ASSUME NEW s PROVE Written(s)' <=> Written(s) \/ s = f.call
  <2>1. ASSUME Written(s) PROVE Written(s)'
    BY <1>2, <1>5, <1>7, <2>1 DEF Written
  <2>2. ASSUME s = f.call PROVE Written(s)'
    BY <1>2, <1>3, <1>7, <2>2 DEF Written
  <2>3. ASSUME Written(s)', s # f.call PROVE Written(s)
    <3>1. PICK j \in Stream : \E i \in DOMAIN written'[j] : written'[j][i].call = s
      BY <2>3 DEF Written
    <3>2. PICK i \in DOMAIN written'[j] : written'[j][i].call = s
      BY <3>1
    <3>3. CASE j # k
      BY <1>2, <3>2, <3>3 DEF Written
    <3>4. CASE j = k
      <4>1. i \in DOMAIN written[k]
        BY <1>2, <1>3, <1>6, <2>3, <3>2, <3>4
      <4> QED  BY <1>5, <3>2, <3>4, <4>1 DEF Written
    <3> QED  BY <3>3, <3>4
  <2> QED  BY <2>1, <2>2, <2>3
<1> QED  BY <1>2, <1>3, <1>4, <1>5, <1>8

LEMMA PutOnce ==
    ASSUME StreamType, FramesOnce, NEW k \in Stream, NEW f \in Frame, Put(k, f), env' = env,
           f = env[f.call], ~Written(f.call)
    PROVE  FramesOnce'
<1>1. /\ \A j \in Stream \ {k} : written'[j] = written[j]
      /\ DOMAIN written[k] = 1 .. Len(written[k]) /\ Len(written[k]) \in Nat
      /\ DOMAIN written'[k] = 1 .. Len(written[k]) + 1
      /\ \A i \in DOMAIN written[k] : written'[k][i] = written[k][i]
      /\ written'[k][Len(written[k]) + 1] = f
  BY WrittenPut
<1> DEFINE New(j, x) == j = k /\ x = Len(written[k]) + 1
<1>2. ASSUME NEW j \in Stream, NEW x \in DOMAIN written'[j]
      PROVE  \/ New(j, x) /\ written'[j][x] = f
             \/ ~New(j, x) /\ x \in DOMAIN written[j] /\ written'[j][x] = written[j][x]
  <2>1. CASE j = k
    <3>1. x \in 1 .. Len(written[k]) \/ x = Len(written[k]) + 1
      BY <1>1, <2>1
    <3> QED  BY <1>1, <2>1, <3>1
  <2>2. CASE j # k
    BY <1>1, <2>2
  <2> QED  BY <2>1, <2>2
<1>3. \A j \in Stream : \A x \in DOMAIN written[j] : written[j][x].call # f.call
  BY DEF Written
<1>4. ASSUME NEW j \in Stream, NEW x \in DOMAIN written'[j]
      PROVE  written'[j][x] = env'[written'[j][x].call]
  <2> HIDE DEF New
  <2> QED  BY <1>2 DEF FramesOnce
<1>5. ASSUME NEW j \in Stream, NEW l \in Stream, NEW x \in DOMAIN written'[j],
             NEW y \in DOMAIN written'[l], written'[j][x].call = written'[l][y].call
      PROVE  j = l /\ x = y
  <2>1. CASE New(j, x) /\ New(l, y)
    BY <2>1
  <2>2. CASE ~New(j, x) /\ ~New(l, y)
    <3> HIDE DEF New
    <3> QED  BY <1>2, <1>5, <2>2 DEF FramesOnce
  <2>3. ~(New(j, x) /\ ~New(l, y)) /\ ~(~New(j, x) /\ New(l, y))
    <3> HIDE DEF New
    <3> QED  BY <1>2, <1>3, <1>5
  <2> QED  BY <2>1, <2>2, <2>3
<1> QED  BY <1>4, <1>5 DEF FramesOnce

\* Steps that concern no call.
LEMMA CallRests ==
    ASSUME CallInv, UNCHANGED <<mode, env, via, spc, fstream, written>>
    PROVE  CallInv'
BY DEF CallInv, CallBegun, CallWrites, FramesOnce, Written

\* An answer: success means that the frame was written.
LEMMA AnswerKeeps ==
    ASSUME CallType, CallInv, NEW s \in Call, NEW outcome \in {"ok", "failed"}, Answer(s, outcome),
           outcome = "ok" => Written(s), UNCHANGED <<mode, env, via, fstream, written>>
    PROVE  CallInv'
<1>1. \A r \in Call : spc'[r] = IF r = s /\ spc[s] = "wait" THEN outcome ELSE spc[r]
  BY DEF Answer, CallType
<1>2. CallBegun'
  BY <1>1 DEF CallInv, CallBegun
<1>3. CallWrites'
  BY <1>1, WrittenSame DEF CallInv, CallWrites
<1>4. FramesOnce'
  BY DEF CallInv, FramesOnce
<1> QED  BY <1>2, <1>3, <1>4 DEF CallInv

\* A call that begins: nothing of it was written.
LEMMA BeginKeeps ==
    ASSUME CallType, StreamType, CallInv, NEW s \in Call, NEW e \in Frame, e.call = s, NEW c \in Chan,
           NEW p \in {"open", "enqueue", "failed"},
           mode = "fresh" => p # "enqueue", mode # "fresh" => p # "open",
           spc[s] = "idle", env' = [env EXCEPT ![s] = e], via' = [via EXCEPT ![s] = c],
           spc' = [spc EXCEPT ![s] = p], UNCHANGED <<mode, fstream, written>>
    PROVE  CallInv'
<1>1. ~Written(s)
  BY DEF CallInv, CallWrites
<1>2. /\ \A r \in Call \ {s} : spc'[r] = spc[r] /\ env'[r] = env[r] /\ via'[r] = via[r]
      /\ spc'[s] = p /\ env'[s] = e /\ via'[s] = c
  BY DEF CallType
<1>3. CallBegun'
  BY <1>2 DEF CallInv, CallBegun
<1>4. CallWrites'
  BY <1>1, <1>2, WrittenSame DEF CallInv, CallWrites
<1>5. \A k \in Stream : \A i \in DOMAIN written[k] :
        written[k][i].call \in Call /\ written[k][i].call # s
  <2>1. \A k \in Stream : \A i \in DOMAIN written[k] : written[k][i] \in Frame
    BY SeqDomain DEF StreamType
  <2> QED  BY <1>1, <2>1 DEF Frame, Written
<1>6. FramesOnce'
  BY <1>2, <1>5 DEF CallInv, FramesOnce
<1> QED  BY <1>3, <1>4, <1>6 DEF CallInv

\* A call that goes from one place to the next.
LEMMA MoveKeeps ==
    ASSUME CallType, CallInv, NEW s \in Call, NEW p, spc' = [spc EXCEPT ![s] = p], spc[s] # "idle",
           UNCHANGED <<mode, env, via, written>>,
           \A r \in Call \ {s} : fstream'[r] = fstream[r],
           mode = "fresh" => p \notin {"enqueue", "wait"},
           mode # "fresh" => p \notin {"open", "write", "finish"},
           p \in {"write", "finish"} => fstream'[s] \in Stream,
           p \in {"idle", "enqueue", "open", "write"} => ~Written(s),
           p \in {"finish", "ok"} => Written(s)
    PROVE  CallInv'
<1>1. \A r \in Call : spc'[r] = IF r = s THEN p ELSE spc[r]
  BY DEF CallType
<1>2. CallBegun'
  BY <1>1 DEF CallInv, CallBegun
<1>3. CallWrites'
  BY <1>1, WrittenSame DEF CallInv, CallWrites
<1>4. FramesOnce'
  BY DEF CallInv, FramesOnce
<1> QED  BY <1>2, <1>3, <1>4 DEF CallInv

LEMMA CallInvStep ==
    ASSUME TypeOK, CallInv, QueueInv, Next
    PROVE  CallInv'
<1>1. CallType /\ WriterType /\ StreamType
  BY TypeParts
<1>2. ASSUME NEW s \in Call, NEW l \in Link, NEW kind \in Kind, Send(s, l, kind)
      PROVE  CallInv'
  <2>1. <<l[1], l[2], LaneOf(kind)>> \in Chan
    BY <1>1, <1>2, ChanFacts DEF Send, CallType
  <2>2. /\ authenticatedOutboundEnvelope(s, l, kind) \in Frame
        /\ authenticatedOutboundEnvelope(s, l, kind).call = s
    BY NodeAssumption DEF authenticatedOutboundEnvelope, Frame
  <2>3. PICK p \in {"open", "enqueue", "failed"} :
          /\ spc' = [spc EXCEPT ![s] = p]
          /\ (mode = "fresh" => p # "enqueue") /\ (mode # "fresh" => p # "open")
    BY <1>2 DEF Send
  <2>5. /\ spc[s] = "idle" /\ env' = [env EXCEPT ![s] = authenticatedOutboundEnvelope(s, l, kind)]
        /\ via' = [via EXCEPT ![s] = <<l[1], l[2], LaneOf(kind)>>]
        /\ UNCHANGED <<mode, fstream, written>>
    BY <1>2 DEF Send, streamVars
  <2> QED  BY <1>1, <2>1, <2>2, <2>3, <2>5, BeginKeeps
<1>3. ASSUME NEW s \in Call, NEW c \in Chan, NEW f \in Forged, Missend(s, c, f)
      PROVE  CallInv'
  <2> DEFINE e == [call |-> s, from |-> f.from, to |-> f.to, kind |-> f.kind]
  <2>1. e \in Frame /\ e.call = s
    BY FrameAssumption DEF Frame
  <2>2. /\ spc[s] = "idle" /\ env' = [env EXCEPT ![s] = e] /\ via' = [via EXCEPT ![s] = c]
        /\ spc' = [spc EXCEPT ![s] = IF mode = "fresh" THEN "open" ELSE "enqueue"]
        /\ UNCHANGED <<mode, fstream, written>>
    BY <1>3 DEF Missend, streamVars
  <2> HIDE DEF e
  <2>3. CASE mode = "fresh"
    BY <1>1, <2>1, <2>2, <2>3, BeginKeeps
  <2>4. CASE mode # "fresh"
    BY <1>1, <2>1, <2>2, <2>4, BeginKeeps
  <2> QED  BY <2>3, <2>4
<1>4. ASSUME NEW s \in Call, Progress(s) \/ SendExpires(s)
      PROVE  CallInv'
  <2>1. CASE Enqueue(s)
    <3>1. /\ spc[s] = "enqueue" /\ spc' = [spc EXCEPT ![s] = "wait"]
          /\ UNCHANGED <<mode, env, via, fstream, written>> /\ mode # "fresh"
      BY <2>1 DEF Enqueue, streamVars, CallInv, CallBegun
    <3> QED  BY <1>1, <3>1, MoveKeeps
  <2>2. CASE SendStopped(s) \/ SendExpires(s)
    <3>1. /\ spc[s] \in {"enqueue", "wait"} /\ spc' = [spc EXCEPT ![s] = "failed"]
          /\ UNCHANGED <<mode, env, via, fstream, written>>
      BY <2>2 DEF SendStopped, SendExpires, Return, streamVars
    <3> QED  BY <1>1, <3>1, MoveKeeps
  <2>3. ASSUME NEW k \in Stream, FreshOpen(s, k) PROVE CallInv'
    <3>1. /\ spc[s] = "open" /\ spc' = [spc EXCEPT ![s] = "write"]
          /\ fstream' = [fstream EXCEPT ![s] = k]
          /\ UNCHANGED <<mode, env, via, written>>
      BY <2>3 DEF FreshOpen, NewStream
    <3>2. fstream'[s] = k /\ \A r \in Call \ {s} : fstream'[r] = fstream[r]
      BY <1>1, <3>1 DEF CallType
    <3>3. mode = "fresh" /\ ~Written(s)
      BY <3>1 DEF CallInv, CallBegun, CallWrites
    <3> QED  BY <1>1, <3>1, <3>2, <3>3, MoveKeeps
  <2>4. CASE FreshWrite(s)
    <3>1. /\ spc[s] = "write" /\ Put(fstream[s], env[s]) /\ spc' = [spc EXCEPT ![s] = "finish"]
          /\ UNCHANGED <<mode, env, via, fstream>>
      BY <2>4 DEF FreshWrite
    <3>2. /\ env[s] \in Frame /\ env[s].call = s /\ fstream[s] \in Stream /\ ~Written(s)
          /\ mode = "fresh"
      BY <3>1 DEF CallInv, CallBegun, CallWrites
    <3>3. FramesOnce'
      BY <1>1, <3>1, <3>2, PutOnce DEF CallInv
    <3>4. \A r : Written(r)' <=> Written(r) \/ r = s
      BY <1>1, <3>1, <3>2, WrittenPut
    <3>5. \A r \in Call : spc'[r] = IF r = s THEN "finish" ELSE spc[r]
      BY <1>1, <3>1 DEF CallType
    <3>6. CallBegun'
      BY <3>1, <3>2, <3>5 DEF CallInv, CallBegun
    <3>7. CallWrites'
      BY <3>4, <3>5 DEF CallInv, CallWrites
    <3> QED  BY <3>3, <3>6, <3>7 DEF CallInv
  <2>5. CASE FreshFinish(s)
    <3>1. /\ spc[s] = "finish" /\ spc' = [spc EXCEPT ![s] = "ok"]
          /\ UNCHANGED <<mode, env, via, fstream, written>>
      BY <2>5 DEF FreshFinish
    <3>2. Written(s)
      BY <3>1 DEF CallInv, CallWrites
    <3> QED  BY <1>1, <3>1, <3>2, MoveKeeps
  <2>6. CASE FreshFails(s)
    <3>1. /\ spc[s] # "idle" /\ spc' = [spc EXCEPT ![s] = "failed"]
          /\ UNCHANGED <<mode, env, via, fstream, written>>
      BY <2>6 DEF FreshFails
    <3> QED  BY <1>1, <3>1, MoveKeeps
  <2> QED  BY <1>4, <2>1, <2>2, <2>3, <2>4, <2>5, <2>6 DEF Progress
<1>5. ASSUME NEW c \in Chan, Writer(c)
      PROVE  CallInv'
  <2>1. CASE StopWriter(c) \/ TakePrewarm(c) \/ PrewarmFails(c)
             \/ \E k \in Stream : PrewarmOpen(c, k)
    <3>1. UNCHANGED <<mode, env, via, spc, fstream, written>>
      BY <2>1 DEF StopWriter, TakePrewarm, PrewarmFails, PrewarmOpen, Drop, sendVars,
         streamVars,
                  openPersistentOutboundStreamWithoutDial, NewStream
    <3> QED  BY <3>1, CallRests
  <2>2. CASE TakeRequest(c) \/ FailQueued(c)
    <3>1. /\ UNCHANGED <<mode, env, via, fstream, written>>
          /\ spc' = spc \/ (queue[c] # <<>> /\ Answer(Head(queue[c]), "failed"))
      BY <2>2 DEF TakeRequest, FailQueued, Drop, streamVars
    <3>2. CASE spc' = spc
      BY <3>1, <3>2, CallRests
    <3>3. CASE queue[c] # <<>> /\ Answer(Head(queue[c]), "failed")
      <4>1. Head(queue[c]) \in Call
        BY <1>1, <3>3, HeadTail DEF WriterType
      <4> QED  BY <1>1, <3>1, <3>3, <4>1, AnswerKeeps
    <3> QED  BY <3>1, <3>2, <3>3
  <2>3. CASE RequestFails(c) \/ FinishRequest(c) \/ \E k \in Stream : OpenStream(c, k)
    <3>1. /\ UNCHANGED <<mode, env, via, fstream, written>>
          /\ wpc[c] \in {"open", "write", "sent"}
          /\ spc' = spc \/ Answer(cur[c], "failed")
             \/ (wpc[c] = "sent" /\ Answer(cur[c], "ok"))
      BY <2>3 DEF RequestFails, FinishRequest, OpenStream, openPersistentOutboundStream,
         NewStream,
                  Drop, streamVars
    <3>2. cur[c] \in Call /\ (wpc[c] = "sent" => Written(cur[c]))
      BY <3>1 DEF QueueInv, ServedAt
    <3> QED  BY <1>1, <3>1, <3>2, CallRests, AnswerKeeps
  <2>4. CASE WriteFrame(c)
    <3>1. /\ wpc[c] = "write" /\ Put(stream[c], env[cur[c]])
          /\ UNCHANGED <<mode, env, via, spc, fstream>>
      BY <2>4 DEF WriteFrame, sendVars
    <3>2. /\ cur[c] \in Call /\ stream[c] \in Stream /\ ~Written(cur[c])
          /\ spc[cur[c]] \in {"wait", "failed"}
      BY <3>1 DEF QueueInv, ServedAt
    <3>3. env[cur[c]] \in Frame /\ env[cur[c]].call = cur[c]
      BY <3>2 DEF CallInv, CallBegun
    <3>4. FramesOnce'
      BY <1>1, <3>1, <3>2, <3>3, PutOnce DEF CallInv
    <3>5. \A r : Written(r)' <=> Written(r) \/ r = cur[c]
      BY <1>1, <3>1, <3>2, <3>3, WrittenPut
    <3>6. CallBegun'
      BY <3>1 DEF CallInv, CallBegun
    <3>7. CallWrites'
      BY <3>1, <3>2, <3>5 DEF CallInv, CallWrites
    <3> QED  BY <3>4, <3>6, <3>7 DEF CallInv
  <2> QED  BY <1>5, <2>1, <2>2, <2>3, <2>4 DEF Writer
<1>6. ASSUME NEW c \in Chan, Prewarmer(c)
      PROVE  CallInv'
  BY <1>6, CallRests DEF Prewarmer, PrewarmQuits, PrewarmCalls, PrewarmExpires, sendVars,
     streamVars
<1>7. ASSUME NEW k \in Stream, Reader(k) \/ Dispatcher(k)
      PROVE  CallInv'
  <2>1. UNCHANGED <<mode, env, via, spc, fstream, written>>
    BY <1>7 DEF Reader, Dispatcher, Accept, ReadFrame, ReadEnds, Offer,
                OfferStopped, InboundDone, Dispatch, Handle, sendVars, streamVars
  <2> QED  BY <2>1, CallRests
<1>8. ASSUME NEW l \in Link, Connect(l) \/ Disconnect(l)
      PROVE  CallInv'
  BY <1>8, CallRests DEF Connect, Disconnect, sendVars, streamVars
<1>9. ASSUME NEW n \in Node, Lifecycle(n)
      PROVE  CallInv'
  BY <1>9, CallRests DEF Lifecycle, CloseBegins, CloseHost, CloseReturns, PrepareSlot,
     PrepareSlotDone, sendVars, streamVars
<1> QED
  BY <1>2, <1>3, <1>4, <1>5, <1>6, <1>7, <1>8, <1>9 DEF Next, Caller

(***************************************************************************)
(* What a writer has of a call.                                            *)
(***************************************************************************)


\* What the step leaves to a call that a writer may know.
CallKept(r) ==
    spc'[r] \in {"wait", "failed"} /\ via'[r] = via[r] /\ (Written(r)' <=> Written(r))

QueuedKept(c) == \A i \in DOMAIN queue[c] : \A r \in Call : r = queue[c][i] => CallKept(r)

\* The queue loses its head, or nothing.
LEMMA QueueShrinks ==
    ASSUME WriterType, NEW c \in Chan, RequestsAt(c),
           queue'[c] = queue[c] \/ (queue[c] # <<>> /\ queue'[c] = Tail(queue[c])),
           QueuedKept(c)
    PROVE  RequestsAt(c)'
<1>1. /\ queue[c] \in Seq(Call) /\ DOMAIN queue[c] = 1 .. Len(queue[c]) /\ Len(queue[c]) \in Nat
      /\ \A i \in DOMAIN queue[c] : queue[c][i] \in Call
  BY SeqDomain DEF WriterType
<1>2. PICK e \in {0, 1} : \A i \in DOMAIN queue'[c] :
        i \in Nat /\ i + e \in DOMAIN queue[c] /\ queue'[c][i] = queue[c][i + e]
  <2>1. CASE queue'[c] = queue[c]
    BY <1>1, <2>1
  <2>2. CASE queue[c] # <<>> /\ queue'[c] = Tail(queue[c])
    <3>1. /\ Tail(queue[c]) \in Seq(Call) /\ Len(Tail(queue[c])) = Len(queue[c]) - 1
          /\ \A i \in 1 .. Len(queue[c]) - 1 : Tail(queue[c])[i] = queue[c][i + 1]
      BY <1>1, <2>2, HeadTail
    <3>2. DOMAIN queue'[c] = 1 .. Len(queue[c]) - 1
      BY <2>2, <3>1, SeqDomain
    <3>3. \A i \in 1 .. Len(queue[c]) - 1 :
            i \in Nat /\ i + 1 \in 1 .. Len(queue[c]) /\ Tail(queue[c])[i] = queue[c][i + 1]
      BY <1>1, <3>1
    <3> QED  BY <1>1, <2>2, <3>2, <3>3
  <2> QED  BY <2>1, <2>2
<1>3. ASSUME NEW i \in DOMAIN queue'[c]
      PROVE  /\ spc'[queue'[c][i]] \in {"wait", "failed"}
             /\ via'[queue'[c][i]] = c
             /\ ~Written(queue[c][i])'
  <2>1. PICK r \in Call : r = queue'[c][i] /\ r = queue[c][i + e]
    BY <1>1, <1>2
  <2>2. via[r] = c /\ ~Written(r)
    BY <1>2, <2>1 DEF RequestsAt
  <2>3. CallKept(r)
    BY <1>2, <2>1 DEF QueuedKept
  <2>4. spc'[r] \in {"wait", "failed"} /\ via'[r] = c /\ ~Written(r)'
    BY <2>2, <2>3 DEF CallKept
  <2> QED  BY <2>1, <2>4 DEF Written
<1>4. ASSUME NEW i \in DOMAIN queue'[c], NEW j \in DOMAIN queue'[c], queue'[c][i] = queue'[c][j]
      PROVE  i = j
  <2>1. i + e = j + e
    BY <1>2, <1>4 DEF RequestsAt
  <2> QED  BY <1>2, <2>1
<1> QED  BY <1>3, <1>4 DEF RequestsAt

\* The writer of another channel, or of a channel that rests.
LEMMA QueueRests ==
    ASSUME WriterType, NEW c \in Chan, RequestsAt(c), ServedAt(c),
           queue'[c] = queue[c], wpc'[c] = wpc[c], cur'[c] = cur[c], stream'[c] = stream[c],
           \A r \in Call : spc[r] \in {"wait", "failed"} /\ via[r] = c => CallKept(r)
    PROVE  RequestsAt(c)' /\ ServedAt(c)'
<1>1. \A i \in DOMAIN queue[c] : queue[c][i] \in Call
  BY SeqDomain DEF WriterType
<1>2. RequestsAt(c)'
  <2>1. QueuedKept(c)
    BY <1>1 DEF RequestsAt, QueuedKept
  <2> QED  BY <2>1, QueueShrinks
<1>3. ServedAt(c)'
  <2>1. CASE wpc[c] \in {"open", "write", "sent"}
    <3>1. PICK r \in Call : r = cur[c] /\ spc[r] \in {"wait", "failed"} /\ via[r] = c
      BY <2>1 DEF ServedAt
    <3>2. spc'[r] \in {"wait", "failed"} /\ via'[r] = c /\ (Written(r)' <=> Written(r))
      BY <3>1 DEF CallKept
    <3>3. Written(cur[c])' <=> Written(cur[c])
      BY <3>1, <3>2 DEF Written
    <3> QED  BY <2>1, <3>1, <3>2, <3>3 DEF ServedAt
  <2>2. CASE wpc[c] \notin {"open", "write", "sent"}
    BY <2>2 DEF ServedAt
  <2> QED  BY <2>1, <2>2
<1> QED  BY <1>2, <1>3

\* Calls move, and the writers do not.
LEMMA QueuesRest ==
    ASSUME WriterType, QueueInv, UNCHANGED <<queue, wpc, cur, stream>>,
           \A r \in Call : spc[r] \in {"wait", "failed"} => CallKept(r)
    PROVE  QueueInv'
BY QueueRests DEF QueueInv

\* An answer that is no success leaves a call where a writer may know of it.
LEMMA FailureKeeps ==
    ASSUME CallType, NEW s \in Call, Answer(s, "failed"), UNCHANGED <<via, written>>,
           NEW r \in Call, spc[r] \in {"wait", "failed"}
    PROVE  CallKept(r)
<1>1. spc'[r] \in {"wait", "failed"}
  BY DEF Answer, CallType
<1> QED  BY <1>1, WrittenSame DEF CallKept

LEMMA UnmovedKeeps ==
    ASSUME UNCHANGED <<spc, via, written>>, NEW r \in Call, spc[r] \in {"wait", "failed"}
    PROVE  CallKept(r)
BY WrittenSame DEF CallKept

\* The writer of channel c moves, and the others rest.
Others(c) ==
    \A d \in Chan \ {c} : /\ queue'[d] = queue[d] /\ wpc'[d] = wpc[d] /\ cur'[d] = cur[d]
                          /\ stream'[d] = stream[d]

\* A writer that leaves a request, or has none: its queue loses its head or
\* nothing, and no call but the one it served has succeeded.
LEMMA QueueLeaves ==
    ASSUME WriterType, QueueInv, NEW c \in Chan, Others(c),
           wpc'[c] \notin {"open", "write", "sent"},
           queue'[c] = queue[c] \/ (queue[c] # <<>> /\ queue'[c] = Tail(queue[c])),
           \A r \in Call : spc[r] \in {"wait", "failed"} /\ ~(wpc[c] = "sent" /\ r = cur[c])
                             => CallKept(r)
    PROVE  QueueInv'
<1>1. ASSUME NEW d \in Chan, d # c PROVE RequestsAt(d)' /\ ServedAt(d)'
  <2>1. \A r \in Call : spc[r] \in {"wait", "failed"} /\ via[r] = d => CallKept(r)
    BY <1>1 DEF QueueInv, ServedAt
  <2> QED  BY <1>1, <2>1, QueueRests DEF Others, QueueInv
<1>2. RequestsAt(c)'
  <2>1. /\ queue[c] \in Seq(Call) /\ DOMAIN queue[c] = 1 .. Len(queue[c])
        /\ \A i \in DOMAIN queue[c] : queue[c][i] \in Call
    BY SeqDomain DEF WriterType
  <2>2. QueuedKept(c)
    <3> SUFFICES ASSUME NEW i \in DOMAIN queue[c], NEW r \in Call, r = queue[c][i]
                 PROVE  CallKept(r)
      BY DEF QueuedKept
    <3>1. spc[r] \in {"wait", "failed"}
      BY DEF QueueInv, RequestsAt
    <3>2. wpc[c] = "sent" => r # cur[c]
      BY DEF QueueInv, ServedAt
    <3> QED  BY <3>1, <3>2
  <2> QED  BY <2>2, QueueShrinks DEF QueueInv
<1>3. ServedAt(c)'
  BY DEF ServedAt
<1> QED  BY <1>1, <1>2, <1>3 DEF QueueInv

LEMMA QueueInvStep ==
    ASSUME TypeOK, CallInv, QueueInv, Next
    PROVE  QueueInv'
<1>1. CallType /\ WriterType /\ StreamType
  BY TypeParts
<1>2. ASSUME NEW s \in Call, Caller(s), ~Enqueue(s)
      PROVE  QueueInv'
  <2>1. UNCHANGED <<queue, wpc, cur, stream>>
    BY <1>2 DEF Caller, Progress, Send, Missend, SendStopped, SendExpires, Return, FreshOpen,
       FreshWrite, FreshFinish, FreshFails, writerVars
  <2>2. \A r \in Call \ {s} : spc'[r] = spc[r] /\ via'[r] = via[r]
    BY <1>1, <1>2 DEF CallType, Caller, Progress, Send, Missend, SendStopped, SendExpires,
       Return,
       FreshOpen, FreshWrite, FreshFinish, FreshFails
  <2>3. \/ spc[s] \notin {"wait", "failed"}
        \/ spc'[s] \in {"wait", "failed"} /\ via'[s] = via[s] /\ written' = written
    BY <1>1, <1>2 DEF CallType, Caller, Progress, Send, Missend, SendStopped, SendExpires,
       Return,
       FreshOpen, FreshWrite, FreshFinish, FreshFails, streamVars
  <2>4. written' = written \/ FreshWrite(s)
    BY <1>2 DEF Caller, Progress, Send, Missend, SendStopped, SendExpires, Return, FreshOpen,
       NewStream, FreshFinish, FreshFails, streamVars
  <2>5. \A r \in Call \ {s} : Written(r)' <=> Written(r)
    <3>1. CASE written' = written
      BY <3>1, WrittenSame
    <3>2. CASE FreshWrite(s)
      <4>1. /\ Put(fstream[s], env[s]) /\ fstream[s] \in Stream
            /\ env[s] \in Frame /\ env[s].call = s
        BY <3>2 DEF FreshWrite, CallInv, CallBegun
      <4> QED  BY <1>1, <4>1, WrittenPut
    <3> QED  BY <2>4, <3>1, <3>2
  <2>6. ASSUME NEW r \in Call, spc[r] \in {"wait", "failed"} PROVE CallKept(r)
    <3>1. CASE r = s
      BY <2>3, <2>6, <3>1, WrittenSame DEF CallKept
    <3>2. CASE r # s
      BY <2>2, <2>5, <2>6, <3>2 DEF CallKept
    <3> QED  BY <3>1, <3>2
  <2> QED  BY <1>1, <2>1, <2>6, QueuesRest
<1>3. ASSUME NEW s \in Call, Enqueue(s)
      PROVE  QueueInv'
  <2>1. PICK c \in Chan : c = via[s]
    BY <1>3 DEF Enqueue, CallInv, CallBegun
  <2>2. /\ spc[s] = "enqueue" /\ queue' = [queue EXCEPT ![c] = Append(queue[c], s)]
        /\ spc' = [spc EXCEPT ![s] = "wait"]
        /\ UNCHANGED <<via, wpc, cur, stream, written>>
    BY <1>3, <2>1 DEF Enqueue, streamVars
  <2>3. ~Written(s) /\ ~Written(s)'
    BY <2>2, WrittenSame DEF CallInv, CallWrites
  <2>4. /\ spc'[s] = "wait" /\ \A r \in Call \ {s} : spc'[r] = spc[r]
        /\ queue'[c] = Append(queue[c], s) /\ \A d \in Chan \ {c} : queue'[d] = queue[d]
    BY <1>1, <2>2 DEF CallType, WriterType
  <2>5. ASSUME NEW r \in Call, spc[r] \in {"wait", "failed"} PROVE r # s /\ CallKept(r)
    BY <2>2, <2>4, <2>5, WrittenSame DEF CallKept
  <2>6. ASSUME NEW d \in Chan, d # c PROVE RequestsAt(d)' /\ ServedAt(d)'
    BY <1>1, <2>2, <2>4, <2>5, <2>6, QueueRests DEF QueueInv
  <2>7. /\ queue[c] \in Seq(Call) /\ DOMAIN queue[c] = 1 .. Len(queue[c]) /\ Len(queue[c]) \in Nat
        /\ \A i \in DOMAIN queue[c] : queue[c][i] \in Call
        /\ DOMAIN queue'[c] = 1 .. Len(queue[c]) + 1
        /\ \A i \in DOMAIN queue[c] : queue'[c][i] = queue[c][i]
        /\ queue'[c][Len(queue[c]) + 1] = s
    <3>1. queue[c] \in Seq(Call)
      BY <1>1 DEF WriterType
    <3>2. /\ Append(queue[c], s) \in Seq(Call) /\ Len(Append(queue[c], s)) = Len(queue[c]) + 1
          /\ \A i \in 1 .. Len(queue[c]) : Append(queue[c], s)[i] = queue[c][i]
          /\ Append(queue[c], s)[Len(queue[c]) + 1] = s
      BY <3>1, AppendFacts
    <3> QED  BY <2>4, <3>1, <3>2, SeqDomain
  <2>8. \A i \in DOMAIN queue'[c] : i \in DOMAIN queue[c] \/ i = Len(queue[c]) + 1
    BY <2>7
  <2>9. \A i \in DOMAIN queue[c] :
          /\ queue[c][i] \in Call /\ queue[c][i] # s
          /\ spc[queue[c][i]] \in {"wait", "failed"}
          /\ via[queue[c][i]] = c /\ ~Written(queue[c][i])
    <3>1. \A i \in DOMAIN queue[c] :
            /\ queue[c][i] \in Call /\ spc[queue[c][i]] \in {"wait", "failed"}
            /\ via[queue[c][i]] = c /\ ~Written(queue[c][i])
      BY <2>7 DEF QueueInv, RequestsAt
    <3> QED  BY <2>5, <3>1
  <2>10. RequestsAt(c)'
    <3>1. ASSUME NEW i \in DOMAIN queue'[c]
          PROVE  /\ spc'[queue'[c][i]] \in {"wait", "failed"} /\ via'[queue'[c][i]] = c
                 /\ ~Written(queue[c][i])'
      <4>1. PICK r \in Call : r = queue'[c][i]
        BY <2>7, <2>8
      <4>2. spc'[r] \in {"wait", "failed"} /\ via'[r] = c /\ ~Written(r)'
        <5>1. CASE i \in DOMAIN queue[c]
          <6>1. r = queue[c][i] /\ CallKept(r)
            BY <2>5, <2>7, <2>9, <4>1, <5>1
          <6> QED  BY <2>9, <5>1, <6>1 DEF CallKept
        <5>2. CASE i = Len(queue[c]) + 1
          BY <2>1, <2>2, <2>3, <2>4, <2>7, <4>1, <5>2
        <5> QED  BY <2>8, <5>1, <5>2
      <4> QED  BY <4>1, <4>2 DEF Written
    <3>2. ASSUME NEW i \in DOMAIN queue'[c], NEW j \in DOMAIN queue'[c],
                 queue'[c][i] = queue'[c][j]
          PROVE  i = j
      <4>1. \A x, y \in DOMAIN queue[c] : queue[c][x] = queue[c][y] => x = y
        BY DEF QueueInv, RequestsAt
      <4> QED  BY <2>7, <2>8, <2>9, <3>2, <4>1
    <3> QED  BY <3>1, <3>2 DEF RequestsAt
  <2>11. ServedAt(c)'
    <3>1. CASE wpc[c] \in {"open", "write", "sent"}
      <4>1. PICK r \in Call : r = cur[c] /\ spc[r] \in {"wait", "failed"} /\ via[r] = c
        BY <3>1 DEF QueueInv, ServedAt
      <4>2. r # s /\ spc'[r] \in {"wait", "failed"} /\ via'[r] = c
        BY <2>5, <4>1 DEF CallKept
      <4>3. \A i \in DOMAIN queue'[c] : queue'[c][i] # r
        <5>1. \A i \in DOMAIN queue[c] : queue[c][i] # r
          BY <3>1, <4>1 DEF QueueInv, ServedAt
        <5> QED  BY <2>7, <2>8, <4>2, <5>1
      <4>4. Written(cur[c])' <=> Written(cur[c])
        BY <2>2 DEF Written
      <4> QED  BY <2>2, <3>1, <4>1, <4>2, <4>3, <4>4 DEF QueueInv, ServedAt
    <3>2. CASE wpc[c] \notin {"open", "write", "sent"}
      BY <2>2, <3>2 DEF ServedAt
    <3> QED  BY <3>1, <3>2
  <2> QED  BY <2>6, <2>10, <2>11 DEF QueueInv
<1>4. ASSUME NEW c \in Chan, Writer(c)
      PROVE  Others(c)
  <2>1. ASSUME NEW d \in Chan, d # c PROVE queue'[d] = queue[d]
    BY <1>1, <1>4, <2>1 DEF WriterType, Writer, StopWriter, TakeRequest, FailQueued, WriteFrame,
       OpenStream, RequestFails, FinishRequest, TakePrewarm, PrewarmOpen, PrewarmFails
  <2>2. ASSUME NEW d \in Chan, d # c PROVE wpc'[d] = wpc[d]
    BY <1>1, <1>4, <2>2 DEF WriterType, Writer, StopWriter, TakeRequest, FailQueued, WriteFrame,
       OpenStream, RequestFails, FinishRequest, TakePrewarm, PrewarmOpen, PrewarmFails, Drop
  <2>3. ASSUME NEW d \in Chan, d # c PROVE cur'[d] = cur[d]
    BY <1>1, <1>4, <2>3 DEF WriterType, Writer, StopWriter, TakeRequest, FailQueued, WriteFrame,
       OpenStream, RequestFails, FinishRequest, TakePrewarm, PrewarmOpen, PrewarmFails, Drop
  <2>4. ASSUME NEW d \in Chan, d # c PROVE stream'[d] = stream[d]
    BY <1>1, <1>4, <2>4 DEF WriterType, Writer, StopWriter, TakeRequest, FailQueued, WriteFrame,
       OpenStream, RequestFails, FinishRequest, TakePrewarm, PrewarmOpen, PrewarmFails, Drop
  <2> QED  BY <2>1, <2>2, <2>3, <2>4 DEF Others
<1>5. ASSUME NEW c \in Chan, Writer(c)
      PROVE  QueueInv'
  <2>1. CASE StopWriter(c) \/ TakePrewarm(c) \/ PrewarmFails(c)
             \/ \E k \in Stream : PrewarmOpen(c, k)
    <3>1. UNCHANGED <<spc, via, written, queue>>
      BY <2>1 DEF StopWriter, TakePrewarm, PrewarmFails, PrewarmOpen, Drop, sendVars,
         streamVars,
                  openPersistentOutboundStreamWithoutDial, NewStream
    <3>2. wpc'[c] \notin {"open", "write", "sent"}
      BY <1>1, <2>1 DEF WriterType, StopWriter, TakePrewarm, PrewarmFails, PrewarmOpen, Drop
    <3> QED  BY <1>1, <1>4, <1>5, <3>1, <3>2, QueueLeaves, UnmovedKeeps
  <2>2. CASE FailQueued(c) \/ (TakeRequest(c) /\ wpc'[c] \notin {"open", "write", "sent"})
    <3>1. /\ UNCHANGED <<via, written>> /\ wpc'[c] \notin {"open", "write", "sent"}
          /\ \/ queue' = queue /\ spc' = spc
             \/ /\ queue[c] # <<>> /\ queue' = [queue EXCEPT ![c] = Tail(queue[c])]
                /\ Answer(Head(queue[c]), "failed") \/ spc' = spc
      BY <1>1, <2>2 DEF TakeRequest, FailQueued, Drop, streamVars, WriterType
    <3>2. queue'[c] = queue[c] \/ (queue[c] # <<>> /\ queue'[c] = Tail(queue[c]))
      BY <1>1, <3>1 DEF WriterType
    <3>3. ASSUME NEW r \in Call, spc[r] \in {"wait", "failed"} PROVE CallKept(r)
      <4>1. CASE spc' = spc
        BY <3>1, <3>3, <4>1, UnmovedKeeps
      <4>2. CASE queue[c] # <<>> /\ Answer(Head(queue[c]), "failed")
        <5>1. Head(queue[c]) \in Call
          BY <1>1, <4>2, HeadTail DEF WriterType
        <5> QED  BY <1>1, <3>1, <3>3, <4>2, <5>1, FailureKeeps
      <4> QED  BY <3>1, <4>1, <4>2
    <3> QED  BY <1>1, <1>4, <1>5, <3>1, <3>2, <3>3, QueueLeaves
  <2>3. CASE TakeRequest(c) /\ wpc'[c] \in {"open", "write", "sent"}
    <3>1. /\ queue[c] # <<>> /\ queue' = [queue EXCEPT ![c] = Tail(queue[c])]
          /\ cur' = [cur EXCEPT ![c] = Head(queue[c])]
          /\ wpc' = [wpc EXCEPT ![c] = IF stream[c] = 0 THEN "open" ELSE "write"]
          /\ UNCHANGED <<spc, via, stream, written>>
      BY <1>1, <2>3 DEF TakeRequest, Drop, streamVars, WriterType
    <3>2. /\ queue'[c] = Tail(queue[c]) /\ cur'[c] = Head(queue[c])
          /\ wpc'[c] = IF stream[c] = 0 THEN "open" ELSE "write"
      BY <1>1, <3>1 DEF WriterType
    <3>3. /\ queue[c] \in Seq(Call) /\ Len(queue[c]) \in Nat /\ Len(queue[c]) >= 1
          /\ Head(queue[c]) = queue[c][1] /\ Head(queue[c]) \in Call
          /\ Tail(queue[c]) \in Seq(Call) /\ Len(Tail(queue[c])) = Len(queue[c]) - 1
          /\ \A i \in 1 .. Len(queue[c]) - 1 : Tail(queue[c])[i] = queue[c][i + 1]
      BY <1>1, <3>1, HeadTail DEF WriterType
    <3>4. /\ DOMAIN queue[c] = 1 .. Len(queue[c]) /\ DOMAIN queue'[c] = 1 .. Len(queue[c]) - 1
          /\ \A i \in DOMAIN queue[c] : queue[c][i] \in Call
      BY <3>2, <3>3, SeqDomain
    <3>5. \A i \in DOMAIN queue'[c] :
            i + 1 \in DOMAIN queue[c] /\ i + 1 # 1 /\ queue'[c][i] = queue[c][i + 1]
      BY <3>2, <3>3, <3>4
    <3>6. 1 \in DOMAIN queue[c]
      BY <3>3, <3>4
    <3>7. ASSUME NEW d \in Chan, d # c PROVE RequestsAt(d)' /\ ServedAt(d)'
      BY <1>1, <1>4, <1>5, <3>1, <3>7, QueueRests, UnmovedKeeps DEF Others, QueueInv
    <3>8. RequestsAt(c)'
      <4>1. \A i \in DOMAIN queue[c] : spc[queue[c][i]] \in {"wait", "failed"}
        BY DEF QueueInv, RequestsAt
      <4>2. QueuedKept(c)
        BY <3>1, <4>1, UnmovedKeeps DEF QueuedKept
      <4> QED  BY <1>1, <3>1, <3>2, <4>2, QueueShrinks DEF QueueInv
    <3>9. ServedAt(c)'
      <4>1. PICK r \in Call : r = cur'[c] /\ r = queue[c][1]
        BY <3>2, <3>3
      <4>2. /\ spc[r] \in {"wait", "failed"} /\ via[r] = c /\ ~Written(r)
            /\ \A i \in DOMAIN queue[c] : queue[c][i] = r => i = 1
        BY <3>6, <4>1 DEF QueueInv, RequestsAt
      <4>3. \A i \in DOMAIN queue'[c] : queue'[c][i] # r
        BY <3>5, <4>2
      <4>4. ~Written(cur[c])'
        BY <3>1, <4>1, <4>2 DEF Written
      <4>5. wpc'[c] = "write" => stream'[c] \in Stream
        BY <1>1, <3>1, <3>2, StreamNumbers DEF WriterType, Stream
      <4> QED  BY <3>1, <3>2, <4>1, <4>2, <4>3, <4>4, <4>5 DEF ServedAt
    <3> QED  BY <3>7, <3>8, <3>9 DEF QueueInv
  <2>4. CASE RequestFails(c) \/ FinishRequest(c)
    <3>1. /\ wpc[c] \in {"open", "write", "sent"} /\ wpc'[c] = "select"
          /\ UNCHANGED <<via, written, queue>>
          /\ Answer(cur[c], "failed") \/ (wpc[c] = "sent" /\ Answer(cur[c], "ok"))
      BY <1>1, <2>4 DEF RequestFails, FinishRequest, Drop, streamVars, WriterType
    <3>2. cur[c] \in Call
      BY <3>1 DEF QueueInv, ServedAt
    <3>3. ASSUME NEW r \in Call, spc[r] \in {"wait", "failed"}, ~(wpc[c] = "sent" /\ r = cur[c])
          PROVE  CallKept(r)
      <4>1. CASE Answer(cur[c], "failed")
        BY <1>1, <3>1, <3>2, <3>3, <4>1, FailureKeeps
      <4>2. CASE wpc[c] = "sent" /\ Answer(cur[c], "ok")
        <5>1. spc'[r] = spc[r]
          BY <1>1, <3>2, <3>3, <4>2 DEF Answer, CallType
        <5> QED  BY <3>1, <3>3, <5>1, WrittenSame DEF CallKept
      <4> QED  BY <3>1, <4>1, <4>2
    <3> QED  BY <1>1, <1>4, <1>5, <3>1, <3>3, QueueLeaves
  <2>5. ASSUME NEW k \in Stream, OpenStream(c, k) PROVE QueueInv'
    <3>1. wpc[c] = "open" /\ UNCHANGED <<via, written, queue>>
      BY <2>5 DEF OpenStream, openPersistentOutboundStream, NewStream
    <3>2. CASE Answer(cur[c], "failed") /\ wpc' = [wpc EXCEPT ![c] = "select"]
      <4>1. cur[c] \in Call /\ wpc'[c] = "select"
        BY <1>1, <3>1, <3>2 DEF QueueInv, ServedAt, WriterType
      <4> QED  BY <1>1, <1>4, <1>5, <3>1, <3>2, <4>1, QueueLeaves, FailureKeeps
    <3>3. CASE /\ stream' = [stream EXCEPT ![c] = k] /\ wpc' = [wpc EXCEPT ![c] = "write"]
               /\ UNCHANGED <<spc, cur>>
      <4>1. wpc'[c] = "write" /\ stream'[c] = k
        BY <1>1, <3>3 DEF WriterType
      <4>2. ASSUME NEW d \in Chan, d # c PROVE RequestsAt(d)' /\ ServedAt(d)'
        BY <1>1, <1>4, <1>5, <3>1, <3>3, <4>2, QueueRests, UnmovedKeeps DEF Others, QueueInv
      <4>3. RequestsAt(c)'
        BY <3>1, <3>3 DEF QueueInv, RequestsAt, Written
      <4>4. ServedAt(c)'
        BY <3>1, <3>3, <4>1 DEF QueueInv, ServedAt, Written
      <4> QED  BY <4>2, <4>3, <4>4 DEF QueueInv
    <3> QED  BY <2>5, <3>2, <3>3 DEF OpenStream
  <2>6. CASE WriteFrame(c)
    <3>1. /\ wpc[c] = "write" /\ Put(stream[c], env[cur[c]]) /\ wpc' = [wpc EXCEPT ![c] = "sent"]
          /\ UNCHANGED <<spc, via, queue, cur, stream>>
      BY <2>6 DEF WriteFrame, sendVars
    <3>2. /\ cur[c] \in Call /\ stream[c] \in Stream /\ spc[cur[c]] \in {"wait", "failed"}
          /\ via[cur[c]] = c /\ \A i \in DOMAIN queue[c] : queue[c][i] # cur[c]
      BY <3>1 DEF QueueInv, ServedAt
    <3>3. env[cur[c]] \in Frame /\ env[cur[c]].call = cur[c]
      BY <3>2 DEF CallInv, CallBegun
    <3>4. \A r : Written(r)' <=> Written(r) \/ r = cur[c]
      BY <1>1, <3>1, <3>2, <3>3, WrittenPut
    <3>5. \A r \in Call : spc[r] \in {"wait", "failed"} /\ r # cur[c] => CallKept(r)
      BY <3>1, <3>4 DEF CallKept
    <3>6. ASSUME NEW d \in Chan, d # c PROVE RequestsAt(d)' /\ ServedAt(d)'
      BY <1>1, <1>4, <1>5, <3>2, <3>5, <3>6, QueueRests DEF Others, QueueInv
    <3>7. RequestsAt(c)'
      <4>1. \A i \in DOMAIN queue[c] : spc[queue[c][i]] \in {"wait", "failed"}
        BY DEF QueueInv, RequestsAt
      <4>2. QueuedKept(c)
        BY <3>2, <3>5, <4>1 DEF QueuedKept
      <4> QED  BY <1>1, <3>1, <4>2, QueueShrinks DEF QueueInv
    <3>8. ServedAt(c)'
      <4>1. Written(cur[c])'
        <5>1. PICK r : r = cur[c] /\ r = cur'[c]
          BY <3>1
        <5>2. Written(r)'
          BY <3>4, <5>1
        <5> QED  BY <5>1, <5>2 DEF Written
      <4>2. wpc'[c] = "sent"
        BY <1>1, <3>1 DEF WriterType
      <4> QED  BY <3>1, <3>2, <4>1, <4>2 DEF ServedAt
    <3> QED  BY <3>6, <3>7, <3>8 DEF QueueInv
  <2> QED  BY <1>5, <2>1, <2>2, <2>3, <2>4, <2>5, <2>6 DEF Writer
<1>6. ASSUME NEW c \in Chan, Prewarmer(c)
      PROVE  QueueInv'
  BY <1>1, <1>6, QueuesRest, UnmovedKeeps DEF Prewarmer, PrewarmQuits, PrewarmCalls,
     PrewarmExpires,
     sendVars, streamVars, writerVars
<1>7. ASSUME NEW k \in Stream, Reader(k) \/ Dispatcher(k)
      PROVE  QueueInv'
  <2>1. UNCHANGED <<via, spc, written, queue, wpc, cur, stream>>
    BY <1>7 DEF Reader, Dispatcher, Accept, ReadFrame, ReadEnds, Offer,
                OfferStopped, InboundDone, Dispatch, Handle, sendVars, streamVars, writerVars
  <2> QED  BY <1>1, <2>1, QueuesRest, UnmovedKeeps
<1>8. ASSUME NEW l \in Link, Connect(l) \/ Disconnect(l)
      PROVE  QueueInv'
  BY <1>1, <1>8, QueuesRest, UnmovedKeeps DEF Connect, Disconnect, sendVars, streamVars,
     writerVars
<1>9. ASSUME NEW n \in Node, Lifecycle(n)
      PROVE  QueueInv'
  BY <1>1, <1>9, QueuesRest, UnmovedKeeps DEF Lifecycle, CloseBegins, CloseHost,
     CloseReturns, PrepareSlot, PrepareSlotDone,
     sendVars, streamVars, writerVars
<1> QED
  BY <1>2, <1>3, <1>5, <1>6, <1>7, <1>8, <1>9 DEF Next

(***************************************************************************)
(* The invariant.                                                          *)
(***************************************************************************)
LEMMA InitIInv ==
    ASSUME Init
    PROVE  IInv
<1>1. TypeOK
  <2>1. CallType
    BY StreamNumbers DEF Init, CallType
  <2>2. WriterType
    <3>1. queue \in [Chan -> Seq(Call)] /\ \A c \in Chan : Len(queue[c]) = 0
      BY NilFacts DEF Init
    <3> QED  BY <3>1, StreamNumbers, BoundAssumption DEF Init, WriterType
  <2>3. PrewarmType
    BY BoundAssumption DEF Init, PrewarmType, Request
  <2>4. StreamType
    BY NilFacts DEF Init, StreamType
  <2>5. InboundType
    <3>1. deliveries \in [Stream -> Seq(Frame)] /\ \A k \in Stream : Len(deliveries[k]) = 0
      BY NilFacts DEF Init
    <3> QED  BY <3>1, NilFacts, BoundAssumption DEF Init, InboundType
  <2>6. NetType
    BY BoundAssumption DEF Init, NetType
  <2> QED  BY <2>1, <2>2, <2>3, <2>4, <2>5, <2>6, TypeParts
<1>2. /\ \A k \in Stream : /\ wire[k] = <<>> /\ written[k] = <<>> /\ held[k] = <<>>
                           /\ deliveries[k] = <<>> /\ handling[k] = <<>> /\ handled[k] = <<>>
                           /\ chan[k] = None /\ state[k] = "unused" /\ ipc[k] = "none"
      /\ \A c \in Chan : /\ queue[c] = <<>> /\ wpc[c] \in {"select", "done"} /\ stream[c] = 0
                         /\ ready[c] = FALSE /\ prewarm[c] = "empty" /\ pcur[c] = "empty"
      /\ \A s \in Call : spc[s] = "idle"
      /\ \A n \in Node : phase[n] = "up"
  BY DEF Init
<1>3. DOMAIN <<>> = {}
  OBVIOUS
<1>4. CallInv
  <2>1. \A s : ~Written(s)
    BY <1>2, <1>3 DEF Written
  <2> QED  BY <1>2, <1>3, <2>1 DEF CallInv, CallBegun, CallWrites, FramesOnce
<1>5. QueueInv
  BY <1>2, <1>3 DEF QueueInv, RequestsAt, ServedAt
<1>6. StreamInv
  BY <1>2 DEF StreamInv, StreamAt
<1>7. PipeInv
  <2> SUFFICES ASSUME NEW k \in Stream PROVE PipeAt(k)
    BY DEF PipeInv
  <2>1. PipeOf("pending", <<>>, <<>>, <<>>, <<>>, <<>>, <<>>, chan[k])
    BY PipeEmpty
  <2>2. PipeOf("none", <<>>, <<>>, <<>>, <<>>, <<>>, <<>>, chan[k])
    BY <2>1 DEF PipeOf
  <2> QED  BY <1>2, <2>2 DEF PipeAt
<1>8. PrewarmInv
  BY <1>2 DEF PrewarmInv
<1>9. CloseInv
  BY <1>2 DEF CloseInv
<1> QED  BY <1>1, <1>4, <1>5, <1>6, <1>7, <1>8, <1>9 DEF IInv

LEMMA StepIInv ==
    ASSUME IInv, [Next]_vars
    PROVE  IInv'
<1>1. CASE Next
  <2>1. TypeOK /\ CallInv /\ QueueInv /\ StreamInv /\ PipeInv /\ PrewarmInv /\ CloseInv
    BY DEF IInv
  <2>2. /\ CallType' /\ WriterType' /\ PrewarmType' /\ NetType'
    BY <1>1, <2>1, CallTypeStep, WriterTypeStep, PrewarmTypeStep, NetTypeStep
  <2>3. StreamType' /\ InboundType' /\ StreamInv' /\ PipeInv'
    BY <1>1, <2>1, StreamStep
  <2>4. TypeOK'
    BY <2>2, <2>3
       DEF TypeOK, CallType, WriterType, PrewarmType, StreamType, InboundType, NetType
  <2>5. CallInv' /\ QueueInv'
    BY <1>1, <2>1, CallInvStep, QueueInvStep
  <2>6. PrewarmInv' /\ CloseInv'
    BY <1>1, <2>1, PrewarmStep, CloseStep
  <2> QED  BY <2>3, <2>4, <2>5, <2>6 DEF IInv
<1>2. CASE UNCHANGED vars
  <2>1. TypeOK'
    BY <1>2 DEF IInv, TypeOK, vars
  <2>2. CallInv' /\ QueueInv'
    BY <1>2 DEF IInv, CallInv, CallBegun, CallWrites, FramesOnce, QueueInv, RequestsAt,
       ServedAt,
                Written, vars
  <2>3. StreamInv' /\ PrewarmInv' /\ CloseInv'
    BY <1>2 DEF IInv, StreamInv, StreamAt, PrewarmInv, CloseInv, Idle, vars
  <2>4. \A k \in Stream : Rests(k)
    BY <1>2 DEF Rests, vars
  <2>5. PipeInv'
    BY <2>4, PipeRests DEF IInv, PipeInv
  <2> QED  BY <2>1, <2>2, <2>3, <2>5 DEF IInv
<1> QED  BY <1>1, <1>2

\* The inductive invariant holds of every behaviour.
THEOREM Invariance == Spec => []IInv
BY InitIInv, StepIInv, PTL DEF Spec

\* The types hold, and neither persistentQueueCapacity nor
\* persistentInboundQueueCapacity is ever exceeded.
THEOREM TypeCorrectness == Spec => []TypeOK
<1>1. IInv => TypeOK
  BY DEF IInv
<1> QED  BY <1>1, Invariance, PTL

\* What a stream's handler gets is a prefix of what was written to the stream, and
\* each frame was sent by the authenticated peer, to this node and on its lane,
\* whatever faulty nodes write, whatever connections are lost and whenever Close
\* is called (handlePersistentStreamForLane, handleFreshStream,
\* validateAuthenticatedEnvelope).
THEOREM FaithfulDeliveryTheorem == Spec => []FaithfulDelivery
<1>1. ASSUME IInv PROVE FaithfulDelivery
  <2> SUFFICES ASSUME NEW k \in Stream
               PROVE  /\ Len(handled[k]) <= Len(written[k])
                      /\ \A i \in DOMAIN handled[k] :
                           /\ handled[k][i] = written[k][i]
                           /\ handled[k][i].from = From(chan[k])
                           /\ handled[k][i].to = To(chan[k])
                           /\ mode = "persistent-lanes" =>
                                classifyEnvelopeLane(handled[k][i].kind) = chan[k][3]
    BY DEF FaithfulDelivery
  <2>1. StreamType /\ InboundType /\ PipeAt(k)
    BY <1>1, TypeParts DEF IInv, PipeInv
  <2>2. /\ handled[k] \in Seq(Frame) /\ DOMAIN handled[k] = 1 .. Len(handled[k])
        /\ Len(handled[k]) \in Nat /\ Len(written[k]) \in Nat
    BY <2>1, SeqTypes, SeqDomain
  <2>3. Follows(handled[k], written[k], 0) /\ AllValid(handled[k], chan[k])
    BY <2>1 DEF PipeAt, PipeOf
  <2>4. Len(handled[k]) <= Len(written[k])
    BY <2>2, <2>3 DEF Follows
  <2>5. ASSUME NEW i \in DOMAIN handled[k]
        PROVE  handled[k][i] = written[k][i] /\ Valid(handled[k][i], chan[k])
    <3>1. handled[k][i] = written[k][0 + i] /\ Valid(handled[k][i], chan[k])
      BY <2>2, <2>3 DEF Follows, AllValid
    <3>2. 0 + i = i
      BY <2>2
    <3> QED  BY <3>1, <3>2
  <2> QED  BY <2>4, <2>5 DEF Valid, validateAuthenticatedEnvelope
<1> QED  BY <1>1, Invariance, PTL

\* A send that reported success has put its envelope on a stream, and no envelope
\* goes out twice: neither a caller that gives up, nor a stream that breaks, nor a
\* stopping writer makes run or sendStream write a request again.
THEOREM ExactlyOnceTheorem == Spec => []ExactlyOnce
<1>1. ASSUME IInv PROVE ExactlyOnce
  <2>1. CallInv
    BY <1>1 DEF IInv
  <2>2. ASSUME NEW s \in Call, spc[s] = "ok"
        PROVE  \E k \in Stream : \E i \in DOMAIN written[k] : written[k][i] = env[s]
    BY <2>1, <2>2 DEF CallInv, CallWrites, FramesOnce, Written
  <2> QED  BY <2>1, <2>2 DEF ExactlyOnce, CallInv, FramesOnce
<1> QED  BY <1>1, Invariance, PTL

\* When Close has returned, no writer, prewarm loop or inbound handler of the node
\* is left or starts again, and no writer holds a stream.
THEOREM QuietAfterCloseTheorem == Spec => []QuietAfterClose
<1>1. ASSUME IInv PROVE QuietAfterClose
  <2> SUFFICES ASSUME NEW n \in Node, phase[n] = "closed"
               PROVE  /\ Idle(n)
                      /\ \A c \in Chan : From(c) = n => stream[c] = 0 /\ ~ready[c]
                      /\ \A k \in Stream : chan[k] # None /\ To(chan[k]) = n =>
                            deliveries[k] = <<>> /\ handling[k] = <<>>
    BY DEF QuietAfterClose
  <2>1. CloseInv /\ PipeInv
    BY <1>1 DEF IInv
  <2>2. Idle(n)
    BY <2>1 DEF CloseInv
  <2>3. ASSUME NEW c \in Chan, From(c) = n PROVE stream[c] = 0 /\ ~ready[c]
    BY <2>1, <2>2, <2>3 DEF CloseInv, Idle
  <2>4. ASSUME NEW k \in Stream, chan[k] # None, To(chan[k]) = n
        PROVE  deliveries[k] = <<>> /\ handling[k] = <<>>
    <3>1. ipc[k] \in {"pending", "done"}
      BY <2>2, <2>4 DEF Idle
    <3> QED  BY <2>1, <3>1 DEF PipeInv, PipeAt, PipeOf
  <2> QED  BY <2>2, <2>3, <2>4
<1> QED  BY <1>1, Invariance, PTL

(***************************************************************************)
(* Nobody waits for somebody who will not move.                            *)
(***************************************************************************)

\* A transport that was stopped stays stopped, and a host that is down stays
\* down.
LEMMA PhaseStep ==
    ASSUME TypeOK, Next
    PROVE  \A n \in Node : (Stopped(n) => Stopped(n)') /\ (HostUp(n)' => HostUp(n))
<1>1. NetType
  BY TypeParts
<1>2. ASSUME NEW s \in Call, Caller(s) PROVE phase' = phase
  BY <1>2 DEF Caller, Progress, Send, Missend, Enqueue, SendStopped, SendExpires, Return,
     FreshOpen, FreshWrite, FreshFinish, FreshFails
<1>3. ASSUME NEW c \in Chan, Writer(c) \/ Prewarmer(c) PROVE phase' = phase
  BY <1>3 DEF Writer, Prewarmer, StopWriter, TakeRequest, FailQueued, WriteFrame, OpenStream,
     RequestFails, FinishRequest, TakePrewarm, PrewarmOpen, PrewarmFails, PrewarmQuits,
     PrewarmCalls, PrewarmExpires
<1>4. ASSUME NEW k \in Stream, Reader(k) \/ Dispatcher(k) PROVE phase' = phase
  BY <1>4 DEF Reader, Dispatcher, Accept, ReadFrame, ReadEnds, Offer, OfferStopped, InboundDone,
              Dispatch, Handle
<1>5. ASSUME NEW l \in Link, Connect(l) \/ Disconnect(l) PROVE phase' = phase
  BY <1>5 DEF Connect, Disconnect
<1>6. ASSUME NEW m \in Node, Lifecycle(m), NEW n \in Node
      PROVE  (Stopped(n) => Stopped(n)') /\ (HostUp(n)' => HostUp(n))
  BY <1>1, <1>6 DEF Lifecycle, CloseBegins, CloseHost, CloseReturns, PrepareSlot,
     PrepareSlotDone, NetType, Stopped, HostUp
<1> QED
  BY <1>2, <1>3, <1>4, <1>5, <1>6 DEF Next, Stopped, HostUp

\* A writer that ends was stopped.
LEMMA WriterLivesStep ==
    ASSUME TypeOK, CallInv, QueueInv, Next, NEW c \in Chan, WriterLives(c)
    PROVE  WriterLives(c)'
<1>1. WriterType /\ (HasWriter(c)' <=> HasWriter(c))
  BY TypeParts, StreamCases DEF HasWriter
<1>2. Stopped(From(c)) => Stopped(From(c))'
  BY PhaseStep, ChanFacts DEF From, Stopped
<1>3. CASE wpc'[c] = wpc[c]
  BY <1>1, <1>2, <1>3 DEF WriterLives
<1>4. CASE Writer(c) /\ wpc'[c] # wpc[c]
  <2>1. wpc[c] # "done"
    BY <1>4 DEF Writer, StopWriter, TakeRequest, FailQueued, WriteFrame, OpenStream,
       RequestFails, FinishRequest, TakePrewarm, PrewarmOpen, PrewarmFails
  <2>2. wpc'[c] \in {"drain", "done"} => Stopped(From(c)) \/ wpc[c] = "drain"
    <3>1. CASE StopWriter(c) \/ FailQueued(c)
      BY <3>1 DEF StopWriter, FailQueued
    <3>2. CASE TakeRequest(c) \/ TakePrewarm(c)
      BY <1>1, <1>4, <3>2 DEF TakeRequest, TakePrewarm, WriterType
    <3>3. CASE RequestFails(c) \/ FinishRequest(c)
      <4>1. wpc'[c] = "select"
        BY <1>1, <3>3 DEF RequestFails, FinishRequest, Drop, WriterType
      <4> QED  BY <4>1
    <3>4. CASE WriteFrame(c) \/ PrewarmFails(c)
      BY <1>1, <3>4 DEF WriteFrame, PrewarmFails, WriterType
    <3>5. CASE \E k \in Stream : OpenStream(c, k) \/ PrewarmOpen(c, k)
      BY <1>1, <3>5 DEF OpenStream, PrewarmOpen, WriterType
    <3> QED  BY <1>4, <3>1, <3>2, <3>3, <3>4, <3>5 DEF Writer
  <2> QED  BY <1>1, <1>2, <2>1, <2>2 DEF WriterLives
<1>5. CASE Prewarmer(c)
  <2>1. wpc'[c] = wpc[c]
    BY <1>5 DEF Prewarmer, PrewarmQuits, PrewarmCalls, PrewarmExpires, writerVars
  <2> QED  BY <1>3, <2>1
<1> QED  BY <1>3, <1>4, <1>5, WriterCases DEF WriterRests

\* Whoever waits in a queue whose head is taken is the head, or still waits.
LEMMA QueuedTail ==
    ASSUME WriterType, NEW c \in Chan, NEW s \in Call, Queued(c, s),
           queue'[c] = Tail(queue[c])
    PROVE  queue[c] # <<>> /\ (s = Head(queue[c]) \/ Queued(c, s)')
<1>1. PICK i \in DOMAIN queue[c] : queue[c][i] = s
  BY DEF Queued
<1>2. queue[c] \in Seq(Call) /\ DOMAIN queue[c] = 1 .. Len(queue[c]) /\ Len(queue[c]) \in Nat
  BY SeqDomain DEF WriterType
<1>3. queue[c] # <<>>
  BY <1>1, <1>2
<1>4. /\ Head(queue[c]) = queue[c][1]
      /\ Tail(queue[c]) \in Seq(Call) /\ Len(Tail(queue[c])) = Len(queue[c]) - 1
      /\ \A j \in 1 .. Len(queue[c]) - 1 : Tail(queue[c])[j] = queue[c][j + 1]
  BY <1>2, <1>3, HeadTail
<1>5. CASE i = 1
  BY <1>1, <1>3, <1>4, <1>5
<1>6. CASE i # 1
  <2>1. i - 1 \in 1 .. Len(queue[c]) - 1 /\ (i - 1) + 1 = i
    BY <1>1, <1>2, <1>6
  <2>2. i - 1 \in DOMAIN queue'[c] /\ queue'[c][i - 1] = s
    BY <1>1, <1>4, <2>1, SeqDomain
  <2> QED  BY <1>3, <2>2 DEF Queued
<1> QED  BY <1>5, <1>6

LEMMA AnswerEnds ==
    ASSUME CallType, NEW s \in Call, NEW outcome \in {"ok", "failed"}, Answer(s, outcome)
    PROVE  spc'[s] # "wait"
BY DEF Answer, CallType

\* A writer that is not stopped keeps a call that waits, or answers it.
LEMMA WriterServes ==
    ASSUME TypeOK, CallInv, QueueInv, NEW c \in Chan, Writer(c), NEW s \in Call,
           spc[s] = "wait", Queued(c, s) \/ Serves(c, s), ~Stopped(From(c))
    PROVE  spc'[s] # "wait" \/ Queued(c, s)' \/ Serves(c, s)'
<1>1. CallType /\ WriterType
  BY TypeParts
<1>2. CASE TakeRequest(c)
  <2>1. /\ wpc[c] = "select" /\ queue' = [queue EXCEPT ![c] = Tail(queue[c])]
        /\ \/ Returned(Head(queue[c]))
           \/ /\ cur' = [cur EXCEPT ![c] = Head(queue[c])]
              /\ \E p \in {"open", "write"} : wpc' = [wpc EXCEPT ![c] = p]
    BY <1>2 DEF TakeRequest
  <2>2. queue'[c] = Tail(queue[c]) /\ Queued(c, s)
    BY <1>1, <2>1 DEF WriterType, Serves
  <2>3. CASE s = Head(queue[c])
    <3>1. cur'[c] = s /\ wpc'[c] \in {"open", "write"}
      BY <1>1, <2>1, <2>3 DEF WriterType, Returned
    <3> QED  BY <3>1 DEF Serves
  <2> QED  BY <1>1, <2>2, <2>3, QueuedTail
<1>3. CASE FailQueued(c)
  <2>1. Queued(c, s) /\ queue[c] # <<>>
    BY <1>3 DEF FailQueued, Serves, Queued
  <2>2. queue' = [queue EXCEPT ![c] = Tail(queue[c])] /\ Answer(Head(queue[c]), "failed")
    BY <1>3, <2>1 DEF FailQueued
  <2>3. queue'[c] = Tail(queue[c])
    BY <1>1, <2>2 DEF WriterType
  <2>4. s = Head(queue[c]) => spc'[s] # "wait"
    BY <1>1, <2>2, AnswerEnds
  <2> QED  BY <1>1, <2>1, <2>3, <2>4, QueuedTail
<1>4. CASE RequestFails(c) \/ FinishRequest(c)
  <2>1. queue' = queue /\ \E outcome \in {"ok", "failed"} : Answer(cur[c], outcome)
    BY <1>4 DEF RequestFails, FinishRequest
  <2>2. Serves(c, s) => spc'[s] # "wait"
    BY <1>1, <2>1, AnswerEnds DEF Serves
  <2> QED  BY <2>1, <2>2 DEF Queued
<1>5. ASSUME NEW k \in Stream, OpenStream(c, k)
      PROVE  spc'[s] # "wait" \/ Queued(c, s)' \/ Serves(c, s)'
  <2>1. /\ queue' = queue
        /\ \/ Answer(cur[c], "failed")
           \/ cur' = cur /\ wpc' = [wpc EXCEPT ![c] = "write"]
    BY <1>5 DEF OpenStream
  <2>2. Serves(c, s) => spc'[s] # "wait" \/ Serves(c, s)'
    <3>1. CASE Answer(cur[c], "failed")
      BY <1>1, <3>1, AnswerEnds DEF Serves
    <3>2. CASE cur' = cur /\ wpc' = [wpc EXCEPT ![c] = "write"]
      BY <1>1, <3>2 DEF Serves, WriterType
    <3> QED  BY <2>1, <3>1, <3>2
  <2> QED  BY <2>1, <2>2 DEF Queued
<1>6. CASE WriteFrame(c)
  BY <1>1, <1>6 DEF WriteFrame, Serves, Queued, WriterType
<1>7. CASE StopWriter(c) \/ TakePrewarm(c) \/ PrewarmFails(c) \/ \E k \in Stream : PrewarmOpen(c, k)
  <2>1. wpc[c] \notin {"open", "write", "sent"} /\ queue' = queue
    BY <1>7 DEF StopWriter, TakePrewarm, PrewarmFails, PrewarmOpen
  <2> QED  BY <2>1 DEF Serves, Queued
<1> QED  BY <1>2, <1>3, <1>4, <1>5, <1>6, <1>7 DEF Writer

\* Nothing happens to the call, or to the writer of its channel.
LEMMA CallUnserved ==
    ASSUME NEW s \in Call, NEW c, via[s] = c, via'[s] = c, CallServed(s), spc'[s] = spc[s],
           HasWriter(c)' <=> HasWriter(c), Stopped(From(c)) => Stopped(From(c))',
           spc[s] = "wait" /\ Queued(c, s) => Queued(c, s)',
           cur'[c] = cur[c], wpc'[c] = wpc[c]
    PROVE  CallServed(s)'
<1>1. /\ spc'[s] \in {"enqueue", "wait"} => HasWriter(c)'
      /\ spc'[s] = "wait" => Stopped(From(c))' \/ Queued(c, s)' \/ Serves(c, s)'
  BY DEF CallServed, Serves
<1> QED  BY <1>1 DEF CallServed, HasWriter, Stopped, Queued, Serves, From

\* A call that waits is known to its writer after every step.
LEMMA CallServedStep ==
    ASSUME TypeOK, CallInv, QueueInv, Next, NEW s \in Call, CallServed(s)
    PROVE  CallServed(s)'
<1>1. /\ CallType /\ WriterType /\ mode' = mode
      /\ \A c : HasWriter(c)' <=> HasWriter(c)
  BY TypeParts, StreamCases DEF HasWriter
<1>2. \A c \in Chan : Stopped(From(c)) => Stopped(From(c))'
  BY PhaseStep, ChanFacts DEF From, Stopped
<1>3. CASE spc'[s] \notin {"enqueue", "wait"}
  BY <1>3 DEF CallServed
<1>4. ASSUME NEW r \in Call, \/ \E l \in Link, kind \in Kind : Send(r, l, kind)
                             \/ \E c \in Chan, f \in Forged : Missend(r, c, f)
      PROVE  CallServed(s)'
  <2>1. /\ spc'[r] \notin {"wait"} /\ \A q \in Call \ {r} : spc'[q] = spc[q] /\ via'[q] = via[q]
        /\ UNCHANGED <<queue, wpc, cur>>
    BY <1>1, <1>4 DEF Send, Missend, CallType, writerVars
  <2>2. spc'[r] = "enqueue" => HasWriter(via'[r])
    BY <1>1, <1>4 DEF Send, Missend, CallType, HasWriter
  <2>3. CASE s = r
    BY <1>1, <2>1, <2>2, <2>3 DEF CallServed, HasWriter
  <2>4. CASE s # r /\ spc[s] \in {"enqueue", "wait"}
    <3>1. via[s] \in Chan
      BY <2>4 DEF CallInv, CallBegun
    <3> QED  BY <1>1, <1>2, <2>1, <2>4, <3>1, CallUnserved DEF Queued
  <2> QED  BY <1>3, <2>1, <2>3, <2>4
<1>5. ASSUME NEW r \in Call, Enqueue(r)
      PROVE  CallServed(s)'
  <2>1. PICK c \in Chan : c = via[r]
    BY <1>5 DEF Enqueue, CallInv, CallBegun
  <2>2. /\ queue' = [queue EXCEPT ![c] = Append(queue[c], r)] /\ spc[r] = "enqueue"
        /\ spc' = [spc EXCEPT ![r] = "wait"] /\ UNCHANGED <<via, wpc, cur>>
    BY <1>5, <2>1 DEF Enqueue
  <2>3. queue[c] \in Seq(Call)
    BY <1>1 DEF WriterType
  <2>4. /\ Append(queue[c], r) \in Seq(Call)
        /\ Len(queue[c]) \in Nat /\ Len(Append(queue[c], r)) = Len(queue[c]) + 1
        /\ \A i \in 1 .. Len(queue[c]) : Append(queue[c], r)[i] = queue[c][i]
        /\ Append(queue[c], r)[Len(queue[c]) + 1] = r
    BY <2>3, AppendFacts
  <2>5. /\ queue'[c] = Append(queue[c], r) /\ \A d \in Chan \ {c} : queue'[d] = queue[d]
        /\ DOMAIN queue[c] = 1 .. Len(queue[c]) /\ DOMAIN queue'[c] = 1 .. Len(queue[c]) + 1
    BY <1>1, <2>2, <2>3, <2>4, SeqDomain DEF WriterType
  <2>6. Queued(c, r)' /\ \A d \in Chan : Queued(d, s) => Queued(d, s)'
    BY <2>4, <2>5 DEF Queued
  <2>7. CASE s = r
    <3>1. via'[s] = c /\ spc'[s] = "wait" /\ HasWriter(c)
      BY <1>1, <2>1, <2>2, <2>7 DEF CallServed, CallType
    <3>2. HasWriter(c)'
      BY <1>1, <3>1
    <3> QED  BY <2>6, <2>7, <3>1, <3>2 DEF CallServed, HasWriter, Queued
  <2>8. CASE s # r /\ spc[s] \in {"enqueue", "wait"}
    <3>1. via[s] \in Chan /\ spc'[s] = spc[s]
      BY <1>1, <2>2, <2>8 DEF CallInv, CallBegun, CallType
    <3> QED  BY <1>1, <1>2, <2>2, <2>6, <3>1, CallUnserved
  <2>9. CASE s # r /\ spc[s] \notin {"enqueue", "wait"}
    <3>1. spc'[s] = spc[s]
      BY <1>1, <2>2, <2>9 DEF CallType
    <3> QED  BY <1>3, <2>9, <3>1
  <2> QED  BY <2>7, <2>8, <2>9
<1>6. ASSUME NEW r \in Call, \/ SendStopped(r) \/ SendExpires(r) \/ FreshWrite(r)
                             \/ FreshFinish(r) \/ FreshFails(r) \/ \E k \in Stream : FreshOpen(r, k)
      PROVE  CallServed(s)'
  <2>1. /\ spc'[r] \notin {"enqueue", "wait"} /\ \A q \in Call \ {r} : spc'[q] = spc[q]
        /\ UNCHANGED <<via, queue, wpc, cur>>
    BY <1>1, <1>6 DEF SendStopped, SendExpires, Return, FreshWrite, FreshFinish, FreshFails,
                      FreshOpen, CallType, writerVars
  <2>2. CASE s # r /\ spc[s] \in {"enqueue", "wait"}
    <3>1. via[s] \in Chan
      BY <2>2 DEF CallInv, CallBegun
    <3> QED  BY <1>1, <1>2, <2>1, <2>2, <3>1, CallUnserved DEF Queued
  <2> QED  BY <1>3, <2>1, <2>2
<1>7. ASSUME NEW c \in Chan, Writer(c), spc'[s] \in {"enqueue", "wait"}
      PROVE  CallServed(s)'
  <2>1. via' = via
    BY <1>7 DEF Writer, StopWriter, TakeRequest, FailQueued, OpenStream, WriteFrame,
                RequestFails, FinishRequest, TakePrewarm, PrewarmOpen, PrewarmFails, sendVars
  <2>2. spc'[s] = spc[s]
    <3>1. \/ UNCHANGED spc
          \/ \E r : \E outcome \in {"ok", "failed"} : Answer(r, outcome)
      <4>1. CASE StopWriter(c) \/ WriteFrame(c) \/ TakePrewarm(c) \/ PrewarmFails(c)
                 \/ \E k \in Stream : PrewarmOpen(c, k)
        BY <4>1 DEF StopWriter, WriteFrame, TakePrewarm, PrewarmOpen, PrewarmFails, sendVars
      <4>2. CASE TakeRequest(c) \/ FailQueued(c)
        BY <4>2 DEF TakeRequest, FailQueued
      <4>3. CASE RequestFails(c) \/ FinishRequest(c) \/ \E k \in Stream : OpenStream(c, k)
        BY <4>3 DEF OpenStream, RequestFails, FinishRequest
      <4> QED  BY <1>7, <4>1, <4>2, <4>3 DEF Writer
    <3> QED  BY <1>1, <1>7, <3>1 DEF Answer, CallType
  <2>3. PICK d \in Chan : d = via[s]
    BY <1>7, <2>2 DEF CallInv, CallBegun
  <2>4. CASE d = c
    <3>1. HasWriter(d)'
      BY <1>1, <1>7, <2>2, <2>3 DEF CallServed
    <3>2. spc[s] = "wait" => Stopped(From(d))' \/ Queued(d, s)' \/ Serves(d, s)'
      BY <1>2, <1>7, <2>2, <2>3, <2>4, WriterServes DEF CallServed
    <3>3. d = via'[s]
      BY <2>1, <2>3
    <3> QED  BY <2>2, <3>1, <3>2, <3>3 DEF CallServed, HasWriter, Stopped, Queued, Serves, From
  <2>5. CASE d # c
    <3>1. queue'[d] = queue[d] /\ wpc'[d] = wpc[d] /\ cur'[d] = cur[d]
      BY <1>1, <1>7, <2>3, <2>5 DEF WriterType, Writer, StopWriter, TakeRequest, FailQueued,
         OpenStream, WriteFrame, RequestFails, FinishRequest, TakePrewarm, PrewarmOpen,
         PrewarmFails, Drop
    <3> QED  BY <1>1, <1>2, <2>1, <2>2, <2>3, <3>1, CallUnserved DEF Queued
  <2> QED  BY <2>4, <2>5
<1>8. ASSUME UNCHANGED <<sendVars, writerVars>>, spc[s] \in {"enqueue", "wait"}
      PROVE  CallServed(s)'
  <2>1. via[s] \in Chan
    BY <1>8 DEF CallInv, CallBegun
  <2> QED  BY <1>1, <1>2, <1>8, <2>1, CallUnserved DEF sendVars, writerVars, Queued
<1>9. ASSUME UNCHANGED <<sendVars, writerVars>>
      PROVE  CallServed(s)'
  BY <1>3, <1>8, <1>9 DEF sendVars
<1>10. ASSUME NEW c \in Chan, Prewarmer(c) PROVE CallServed(s)'
  BY <1>9, <1>10 DEF Prewarmer, PrewarmQuits, PrewarmCalls, PrewarmExpires
<1>11. ASSUME NEW k \in Stream, Reader(k) \/ Dispatcher(k) PROVE CallServed(s)'
  BY <1>9, <1>11 DEF Reader, Dispatcher, Accept, ReadFrame, ReadEnds, Offer, OfferStopped,
                     InboundDone, Dispatch, Handle
<1>12. ASSUME NEW l \in Link, Connect(l) \/ Disconnect(l) PROVE CallServed(s)'
  BY <1>9, <1>12 DEF Connect, Disconnect
<1>13. ASSUME NEW n \in Node, Lifecycle(n) PROVE CallServed(s)'
  BY <1>9, <1>13 DEF Lifecycle, CloseBegins, CloseHost, CloseReturns, PrepareSlot,
     PrepareSlotDone
<1> QED
  BY <1>3, <1>4, <1>5, <1>6, <1>7, <1>10, <1>11, <1>12, <1>13 DEF Next, Caller, Progress

\* A stream is open only if it was, or has just been opened.
LEMMA StillOpen ==
    ASSUME TypeOK, CallInv, QueueInv, Next, NEW k \in Stream, ~Opens,
           state'[k] \in {"open", "eof"}
    PROVE  /\ state[k] \in {"open", "eof"} /\ chan'[k] = chan[k]
           /\ state'[k] = "open" => state[k] = "open"
<1>1. StreamType
  BY TypeParts
<1>2. CASE StateMoves \/ Puts
  BY <1>2 DEF StateMoves, Puts
<1>3. ASSUME NEW j \in Stream, Reader(j) \/ Dispatcher(j)
      PROVE  chan' = chan /\ (state' = state \/ Reset(j))
  BY <1>3 DEF Reader, Dispatcher, Accept, ReadFrame, ReadEnds, Offer, OfferStopped, InboundDone,
              Dispatch, Handle, streamVars
<1>4. ASSUME NEW j \in Stream, Reader(j) \/ Dispatcher(j)
      PROVE  chan'[k] = chan[k] /\ state'[k] = state[k]
  BY <1>1, <1>3, <1>4 DEF Reset, StreamType
<1> QED  BY <1>2, <1>4, StreamCases

\* In fresh mode a call writes to every stream that is open.
LEMMA OwnedStep ==
    ASSUME TypeOK, CallInv, QueueInv, WaitInv, Next, NEW k \in Stream, mode = "fresh",
           state'[k] = "open"
    PROVE  Owned(k)'
<1>1. CallType /\ StreamType /\ WriterType
  BY TypeParts
<1>2. state[k] = "open" => Owned(k)
  BY DEF WaitInv, StreamLives
<1>3. ASSUME UNCHANGED sendVars, state[k] = "open" PROVE Owned(k)'
  BY <1>2, <1>3 DEF Owned, sendVars
<1>4. ASSUME NEW r \in Call, NEW j \in Stream, FreshOpen(r, j)
      PROVE  Owned(k)'
  <2>1. /\ spc[r] = "open" /\ state' = [state EXCEPT ![j] = "open"]
        /\ fstream' = [fstream EXCEPT ![r] = j] /\ spc' = [spc EXCEPT ![r] = "write"]
    BY <1>4 DEF FreshOpen, NewStream
  <2>2. CASE j = k
    BY <1>1, <2>1, <2>2, StreamNumbers DEF Owned, CallType
  <2>3. CASE j # k
    <3>1. PICK s \in Call : fstream[s] = k /\ spc[s] \in {"write", "finish"}
      BY <1>1, <1>2, <2>1, <2>3 DEF Owned, StreamType
    <3> QED  BY <1>1, <2>1, <3>1 DEF Owned, CallType
  <2> QED  BY <2>2, <2>3
<1>5. ASSUME NEW r \in Call, Caller(r), ~\E j \in Stream : FreshOpen(r, j)
      PROVE  Owned(k)'
  <2>1. CASE FreshFinish(r) \/ FreshFails(r)
    <3>1. /\ fstream' = fstream /\ \A s \in Call \ {r} : spc'[s] = spc[s]
          /\ state'[k] # "open" \/ (fstream[r] # k /\ state'[k] = state[k])
      BY <1>1, <2>1 DEF FreshFinish, FreshFails, Reset, CallType, StreamType
    <3> QED  BY <1>2, <3>1 DEF Owned
  <2>2. CASE FreshWrite(r)
    <3>1. fstream' = fstream /\ spc' = [spc EXCEPT ![r] = "finish"] /\ state' = state
      BY <2>2 DEF FreshWrite
    <3> QED  BY <1>1, <1>2, <3>1 DEF Owned, CallType
  <2>3. CASE \/ \E l \in Link, kind \in Kind : Send(r, l, kind)
             \/ \E c \in Chan, f \in Forged : Missend(r, c, f)
             \/ Enqueue(r) \/ SendStopped(r) \/ SendExpires(r)
    <3>1. /\ fstream' = fstream /\ state' = state /\ spc[r] \notin {"write", "finish"}
          /\ \A s \in Call \ {r} : spc'[s] = spc[s]
      BY <1>1, <2>3 DEF Send, Missend, Enqueue, SendStopped, SendExpires, Return, CallType,
                        streamVars
    <3> QED  BY <1>2, <3>1 DEF Owned
  <2> QED  BY <1>5, <2>1, <2>2, <2>3 DEF Caller, Progress
<1>6. ASSUME NEW c \in Chan, Writer(c) PROVE FALSE
  <2>1. wpc[c] = "done"
    BY DEF WaitInv, WriterLives, HasWriter
  <2> QED
    BY <1>6, <2>1 DEF Writer, StopWriter, TakeRequest, FailQueued, WriteFrame, OpenStream,
       RequestFails, FinishRequest, TakePrewarm, PrewarmOpen, PrewarmFails
<1>7. ASSUME NEW c \in Chan, Prewarmer(c) PROVE Owned(k)'
  BY <1>3, <1>7 DEF Prewarmer, PrewarmQuits, PrewarmCalls, PrewarmExpires, streamVars
<1>8. ASSUME NEW j \in Stream, Reader(j) \/ Dispatcher(j) PROVE Owned(k)'
  <2>1. UNCHANGED sendVars /\ (state' = state \/ Reset(j))
    BY <1>8 DEF Reader, Dispatcher, Accept, ReadFrame, ReadEnds, Offer, OfferStopped,
                InboundDone, Dispatch, Handle, streamVars
  <2> QED  BY <1>1, <1>3, <2>1 DEF Reset, StreamType
<1>9. ASSUME NEW l \in Link, Connect(l) \/ Disconnect(l) PROVE Owned(k)'
  BY <1>1, <1>3, <1>9 DEF Connect, Disconnect, Break, StreamType, streamVars
<1>10. ASSUME NEW n \in Node, Lifecycle(n) PROVE Owned(k)'
  BY <1>1, <1>3, <1>10 DEF Lifecycle, CloseBegins, CloseHost, CloseReturns, PrepareSlot,
     PrepareSlotDone, Break, StreamType, streamVars
<1> QED
  BY <1>4, <1>5, <1>6, <1>7, <1>8, <1>9, <1>10 DEF Next

\* A stream whose host goes down is broken.
LEMMA HostsStep ==
    ASSUME TypeOK, CallInv, QueueInv, StreamInv, WaitInv, Next, NEW k \in Stream,
           state'[k] \in {"open", "eof"}
    PROVE  (HostUp(From(chan[k])) /\ HostUp(To(chan[k])))'
<1>1. StreamType /\ NetType
  BY TypeParts
<1>2. CASE \E n \in Node : Lifecycle(n)
  <2>1. PICK n \in Node : Lifecycle(n)
    BY <1>2
  <2>2. ~Opens
    <3>1. chan' = chan
      BY <2>1 DEF Lifecycle, CloseBegins, CloseHost, CloseReturns, PrepareSlot,
         PrepareSlotDone, streamVars
    <3>2. ASSUME NEW j \in Stream, NEW c \in Chan, NEW st, NewStream(j, c, st) PROVE FALSE
      BY <1>1, <3>1, <3>2, ChanFacts DEF NewStream, StreamInv, StreamAt, StreamType
    <3> QED  BY <3>2 DEF Opens
  <2>3. PICK c \in Chan : c = chan[k] /\ c = chan'[k]
    BY <1>1, <2>2, StillOpen DEF StreamType, StreamInv, StreamAt
  <2>4. /\ HostUp(From(c)) /\ HostUp(To(c))
        /\ From(c) \in Node /\ To(c) \in Node
    BY <2>2, <2>3, StillOpen, ChanFacts DEF WaitInv, StreamLives
  <2>5. CASE CloseBegins(n) \/ CloseReturns(n) \/ PrepareSlot(n) \/ PrepareSlotDone(n)
    <3>1. \A m \in Node : HostUp(m) => HostUp(m)'
      BY <1>1, <2>5 DEF CloseBegins, CloseReturns, PrepareSlot, PrepareSlotDone, HostUp, NetType
    <3>2. phase'[From(c)] \in {"up", "closing"} /\ phase'[To(c)] \in {"up", "closing"}
      BY <2>4, <3>1 DEF HostUp
    <3> QED  BY <2>3, <3>2 DEF HostUp, From, To
  <2>6. CASE CloseHost(n)
    <3>1. From(c) # n /\ To(c) # n
      BY <1>1, <2>3, <2>6, StillOpen, <2>2 DEF CloseHost, Break, StreamType
    <3>2. phase'[From(c)] \in {"up", "closing"} /\ phase'[To(c)] \in {"up", "closing"}
      BY <1>1, <2>4, <2>6, <3>1 DEF CloseHost, HostUp, NetType
    <3> QED  BY <2>3, <3>2 DEF HostUp, From, To
  <2> QED  BY <2>1, <2>5, <2>6 DEF Lifecycle
<1>3. CASE ~\E n \in Node : Lifecycle(n)
  <2>1. phase' = phase
    BY <1>3 DEF Next, Caller, Progress, Send, Missend, Enqueue, SendStopped, SendExpires,
       Return,
       FreshOpen, FreshWrite, FreshFinish, FreshFails, Writer, Prewarmer, StopWriter, TakeRequest,
       FailQueued, WriteFrame, OpenStream, RequestFails, FinishRequest, TakePrewarm, PrewarmOpen,
       PrewarmFails, PrewarmQuits, PrewarmCalls, PrewarmExpires, Reader, Dispatcher, Accept,
       ReadFrame, ReadEnds, Offer, OfferStopped, InboundDone, Dispatch, Handle, Connect, Disconnect
  <2>2. HostUp(From(chan'[k])) /\ HostUp(To(chan'[k]))
    <3>1. CASE Opens
      <4>1. PICK j \in Stream, c \in Chan, st \in {"open", "reset"} : NewStream(j, c, st)
        BY <3>1 DEF Opens
      <4>2. CASE j = k
        <5>1. chan'[k] = c /\ HostUp(From(c)) /\ HostUp(To(c))
          BY <1>1, <4>1, <4>2 DEF NewStream, StreamType
        <5> QED  BY <5>1
      <4>3. CASE j # k
        <5>1. chan'[k] = chan[k] /\ state[k] \in {"open", "eof"}
          BY <1>1, <4>1, <4>3 DEF NewStream, StreamType
        <5> QED  BY <5>1 DEF WaitInv, StreamLives
      <4> QED  BY <4>2, <4>3
    <3>2. CASE ~Opens
      BY <3>2, StillOpen DEF WaitInv, StreamLives
    <3> QED  BY <3>1, <3>2
  <2> QED  BY <2>1, <2>2 DEF HostUp, From, To
<1> QED  BY <1>2, <1>3

LEMMA StreamLivesStep ==
    ASSUME IInv, WaitInv, Next, NEW k \in Stream
    PROVE  StreamLives(k)'
<1>1. TypeOK /\ CallInv /\ QueueInv /\ StreamInv /\ StreamType /\ InboundType /\ mode' = mode
  BY TypeParts, StreamCases DEF IInv
<1>2. /\ ipc[k] = "done" => state[k] = "reset"
      /\ chan[k] # None => ipc[k] # "none"
  BY DEF WaitInv, StreamLives
<1>3. /\ ipc'[k] = "done" => state'[k] = "reset"
      /\ chan'[k] # None => ipc'[k] # "none"
  <2>1. CASE StateMoves
    BY <1>2, <2>1 DEF StateMoves, inboundVars
  <2>2. CASE Puts
    BY <1>2, <2>2 DEF Puts, inboundVars
  <2>3. CASE Opens
    BY <1>1, <1>2, <2>3 DEF Opens, NewStream, StreamType, InboundType
  <2>4. ASSUME NEW j \in Stream, Reader(j) \/ Dispatcher(j)
        PROVE  /\ ipc'[k] = "done" => state'[k] = "reset"
               /\ chan'[k] # None => ipc'[k] # "none"
    <3>1. CASE Accept(j) \/ InboundDone(j)
      BY <1>1, <1>2, <3>1 DEF Accept, InboundDone, Reset, StreamType, InboundType
    <3>2. CASE ReadFrame(j)
      BY <1>1, <1>2, <3>2 DEF ReadFrame, Reset, StreamType, InboundType
    <3>3. CASE ReadEnds(j) \/ Offer(j) \/ OfferStopped(j) \/ Dispatcher(j)
      BY <1>1, <1>2, <3>3 DEF ReadEnds, Offer, OfferStopped, Dispatcher, Dispatch, Handle,
                              StreamType, InboundType, streamVars
    <3> QED  BY <2>4, <3>1, <3>2, <3>3 DEF Reader
  <2> QED  BY <1>1, <2>1, <2>2, <2>3, <2>4, StreamCases
<1>4. state'[k] \in {"open", "eof"} => (HostUp(From(chan[k])) /\ HostUp(To(chan[k])))'
  BY <1>1, HostsStep
<1>5. mode' = "fresh" /\ state'[k] = "open" => Owned(k)'
  BY <1>1, OwnedStep
<1> QED  BY <1>3, <1>4, <1>5 DEF StreamLives

\* A stream belongs to one channel for ever.
LEMMA ChanStays ==
    ASSUME TypeOK, CallInv, QueueInv, StreamInv, Next, NEW k \in Stream, chan[k] # None
    PROVE  chan'[k] = chan[k]
<1>1. StreamType
  BY TypeParts
<1>2. CASE StateMoves \/ Puts
  BY <1>2 DEF StateMoves, Puts
<1>3. CASE Opens
  <2>1. PICK j \in Stream, c \in Chan, st \in {"open", "reset"} : NewStream(j, c, st)
    BY <1>3 DEF Opens
  <2>2. j # k
    BY <2>1 DEF NewStream, StreamInv, StreamAt
  <2> QED  BY <1>1, <2>1, <2>2 DEF NewStream, StreamType
<1>4. ASSUME NEW j \in Stream, Reader(j) \/ Dispatcher(j)
      PROVE  chan' = chan
  BY <1>4 DEF Reader, Dispatcher, Accept, ReadFrame, ReadEnds, Offer, OfferStopped, InboundDone,
              Dispatch, Handle, streamVars
<1> QED  BY <1>2, <1>3, <1>4, StreamCases

LEMMA StreamOfStep ==
    ASSUME IInv, WaitInv, Next, NEW c \in Chan
    PROVE  StreamOf(c)'
<1>1. TypeOK /\ CallInv /\ QueueInv /\ StreamInv /\ WriterType /\ StreamType /\ StreamOf(c)
  BY TypeParts DEF IInv, WaitInv
<1>2. CASE stream'[c] = stream[c]
  BY <1>1, <1>2, ChanStays, ChanFacts DEF StreamOf
<1>3. CASE stream'[c] = 0
  BY <1>3, StreamNumbers DEF StreamOf
<1>4. CASE Writer(c)
  <2>1. CASE \/ StopWriter(c) \/ TakeRequest(c) \/ FailQueued(c) \/ WriteFrame(c)
             \/ RequestFails(c) \/ FinishRequest(c) \/ TakePrewarm(c) \/ PrewarmFails(c)
    <3>1. stream'[c] = stream[c] \/ stream'[c] = 0
      BY <1>1, <2>1 DEF StopWriter, TakeRequest, FailQueued, WriteFrame, RequestFails,
         FinishRequest, TakePrewarm, PrewarmFails, Drop, WriterType
    <3> QED  BY <1>2, <1>3, <3>1
  <2>2. ASSUME NEW k \in Stream, OpenStream(c, k) \/ PrewarmOpen(c, k)
        PROVE  StreamOf(c)'
    <3>1. \/ stream' = stream
          \/ stream' = [stream EXCEPT ![c] = k] /\ chan' = [chan EXCEPT ![k] = c]
      BY <2>2 DEF OpenStream, PrewarmOpen, openPersistentOutboundStream,
                  openPersistentOutboundStreamWithoutDial, NewStream
    <3>2. stream'[c] = stream[c] \/ (stream'[c] = k /\ chan'[k] = c)
      BY <1>1, <3>1 DEF WriterType, StreamType
    <3> QED  BY <1>2, <3>2 DEF StreamOf
  <2> QED  BY <1>4, <2>1, <2>2 DEF Writer
<1>5. CASE Prewarmer(c)
  <2>1. stream'[c] = stream[c]
    BY <1>5 DEF Prewarmer, PrewarmQuits, PrewarmCalls, PrewarmExpires, writerVars
  <2> QED  BY <1>2, <2>1
<1> QED  BY <1>1, <1>2, <1>4, <1>5, WriterCases DEF WriterRests

\* Nobody opens a stream for a call, or begins to write for it.
LEMMA FreshRests ==
    ASSUME TypeOK, CallInv, QueueInv, StreamInv, FreshInv, Next, fstream' = fstream,
           \A s \in Call : spc'[s] = "write" =>
               spc[s] = "write" /\ wire'[fstream[s]] = wire[fstream[s]]
    PROVE  FreshInv'
<1>1. \A s \in Call : fstream'[s] \in Stream => chan'[fstream'[s]] # None
  BY ChanStays DEF FreshInv
<1>2. \A s, t \in Call : fstream'[s] \in Stream /\ fstream'[s] = fstream'[t] => s = t
  BY DEF FreshInv
<1>3. \A s \in Call : spc'[s] = "write" => wire'[fstream'[s]] = <<>>
  BY DEF FreshInv
<1> QED  BY <1>1, <1>2, <1>3 DEF FreshInv

LEMMA FreshStep ==
    ASSUME IInv, WaitInv, Next
    PROVE  FreshInv'
<1>1. /\ TypeOK /\ CallInv /\ QueueInv /\ StreamInv /\ FreshInv
      /\ CallType /\ WriterType /\ StreamType
  BY TypeParts DEF IInv, WaitInv
<1>2. ASSUME NEW r \in Call, NEW j \in Stream, FreshOpen(r, j)
      PROVE  FreshInv'
  <2>1. /\ chan[j] = None /\ wire[j] = <<>> /\ via[r] \in Chan /\ via[r] # None
        /\ \A s \in Call : fstream[s] # j
    BY <1>1, <1>2, ChanFacts DEF FreshOpen, NewStream, StreamInv, StreamAt, CallInv, CallBegun,
                                 FreshInv
  <2>2. /\ fstream' = [fstream EXCEPT ![r] = j] /\ spc' = [spc EXCEPT ![r] = "write"]
        /\ chan' = [chan EXCEPT ![j] = via[r]] /\ wire' = wire
    BY <1>2 DEF FreshOpen, NewStream
  <2>3. /\ fstream'[r] = j /\ spc'[r] = "write" /\ chan'[j] = via[r]
        /\ \A s \in Call \ {r} : fstream'[s] = fstream[s] /\ spc'[s] = spc[s]
        /\ \A k \in Stream \ {j} : chan'[k] = chan[k]
    BY <1>1, <2>2 DEF CallType, StreamType
  <2>4. \A s \in Call : fstream'[s] \in Stream => chan'[fstream'[s]] # None
    BY <1>1, <2>1, <2>3 DEF FreshInv
  <2>5. \A s, t \in Call : fstream'[s] \in Stream /\ fstream'[s] = fstream'[t] => s = t
    BY <1>1, <2>1, <2>3 DEF FreshInv
  <2>6. \A s \in Call : spc'[s] = "write" => wire'[fstream'[s]] = <<>>
    BY <1>1, <2>1, <2>2, <2>3 DEF FreshInv
  <2> QED  BY <2>4, <2>5, <2>6 DEF FreshInv
<1>3. ASSUME NEW r \in Call, FreshWrite(r)
      PROVE  FreshInv'
  <2>1. /\ fstream' = fstream /\ fstream[r] \in Stream
        /\ wire' = [wire EXCEPT ![fstream[r]] = Append(@, env[r])]
        /\ spc' = [spc EXCEPT ![r] = "finish"]
    BY <1>1, <1>3 DEF FreshWrite, Put, CallInv, CallBegun
  <2>2. ASSUME NEW s \in Call, spc'[s] = "write"
        PROVE  spc[s] = "write" /\ wire'[fstream[s]] = wire[fstream[s]]
    <3>1. s # r /\ spc[s] = "write"
      BY <1>1, <2>1, <2>2 DEF CallType
    <3>2. fstream[s] \in Stream /\ fstream[s] # fstream[r]
      BY <1>1, <2>1, <3>1 DEF CallInv, CallBegun, FreshInv
    <3> QED  BY <1>1, <2>1, <3>1, <3>2 DEF StreamType
  <2> QED  BY <1>1, <2>1, <2>2, FreshRests
<1>4. ASSUME NEW r \in Call,
             \/ \E l \in Link, kind \in Kind : Send(r, l, kind)
             \/ \E c \in Chan, f \in Forged : Missend(r, c, f)
             \/ Enqueue(r) \/ SendStopped(r) \/ SendExpires(r) \/ FreshFinish(r) \/ FreshFails(r)
      PROVE  FreshInv'
  <2>1. /\ fstream' = fstream /\ wire' = wire
        /\ \A s \in Call : spc'[s] = "write" => spc[s] = "write"
    BY <1>1, <1>4 DEF Send, Missend, Enqueue, SendStopped, SendExpires, Return, FreshFinish,
                      FreshFails, CallType, streamVars
  <2> QED  BY <1>1, <2>1, FreshRests
<1>5. ASSUME NEW c \in Chan, Writer(c)
      PROVE  FreshInv'
  <2>1. mode # "fresh"
    <3>1. mode = "fresh" => wpc[c] = "done"
      BY DEF WaitInv, WriterLives, HasWriter
    <3> QED
      BY <1>5, <3>1 DEF Writer, StopWriter, TakeRequest, FailQueued, WriteFrame, OpenStream,
         RequestFails, FinishRequest, TakePrewarm, PrewarmOpen, PrewarmFails
  <2>2. fstream' = fstream
    BY <1>5 DEF Writer, StopWriter, TakeRequest, FailQueued, WriteFrame, OpenStream,
       RequestFails, FinishRequest, TakePrewarm, PrewarmOpen, PrewarmFails, sendVars
  <2>3. \A s \in Call : spc'[s] # "write"
    <3>1. \A s \in Call : spc[s] # "write"
      BY <1>1, <2>1 DEF CallInv, CallBegun
    <3>2. \/ UNCHANGED spc
          \/ \E r : \E outcome \in {"ok", "failed"} : Answer(r, outcome)
      <4>1. CASE StopWriter(c) \/ WriteFrame(c) \/ TakePrewarm(c) \/ PrewarmFails(c)
                 \/ \E k \in Stream : PrewarmOpen(c, k)
        BY <4>1 DEF StopWriter, WriteFrame, TakePrewarm, PrewarmOpen, PrewarmFails, sendVars
      <4>2. CASE TakeRequest(c) \/ FailQueued(c)
        BY <4>2 DEF TakeRequest, FailQueued
      <4>3. CASE RequestFails(c) \/ FinishRequest(c) \/ \E k \in Stream : OpenStream(c, k)
        BY <4>3 DEF OpenStream, RequestFails, FinishRequest
      <4> QED  BY <1>5, <4>1, <4>2, <4>3 DEF Writer
    <3> QED  BY <1>1, <3>1, <3>2 DEF Answer, CallType
  <2> QED  BY <1>1, <2>2, <2>3, FreshRests
<1>6. ASSUME NEW j \in Stream, Reader(j) \/ Dispatcher(j)
      PROVE  FreshInv'
  <2>1. UNCHANGED sendVars
    BY <1>6 DEF Reader, Dispatcher, Accept, ReadFrame, ReadEnds, Offer, OfferStopped,
                InboundDone, Dispatch, Handle
  <2>2. wire' = wire \/ (wire[j] # <<>> /\ wire' = [wire EXCEPT ![j] = Tail(@)])
    BY <1>6 DEF Reader, Dispatcher, Accept, ReadFrame, ReadEnds, Offer, OfferStopped,
                InboundDone, Dispatch, Handle, streamVars
  <2>3. ASSUME NEW s \in Call, spc'[s] = "write"
        PROVE  spc[s] = "write" /\ wire'[fstream[s]] = wire[fstream[s]]
    <3>1. spc[s] = "write" /\ fstream[s] \in Stream /\ wire[fstream[s]] = <<>>
      BY <1>1, <2>1, <2>3 DEF sendVars, CallInv, CallBegun, FreshInv
    <3> QED  BY <1>1, <2>2, <3>1 DEF StreamType
  <2> QED  BY <1>1, <2>1, <2>3, FreshRests DEF sendVars
<1>7. ASSUME UNCHANGED <<sendVars, wire>>
      PROVE  FreshInv'
  BY <1>1, <1>7, FreshRests DEF sendVars
<1>8. ASSUME NEW c \in Chan, Prewarmer(c) PROVE FreshInv'
  BY <1>7, <1>8 DEF Prewarmer, PrewarmQuits, PrewarmCalls, PrewarmExpires, streamVars
<1>9. ASSUME NEW l \in Link, Connect(l) \/ Disconnect(l) PROVE FreshInv'
  BY <1>7, <1>9 DEF Connect, Disconnect, streamVars
<1>10. ASSUME NEW n \in Node, Lifecycle(n) PROVE FreshInv'
  BY <1>7, <1>10 DEF Lifecycle, CloseBegins, CloseHost, CloseReturns, PrepareSlot,
                     PrepareSlotDone, streamVars
<1> QED
  BY <1>2, <1>3, <1>4, <1>5, <1>6, <1>8, <1>9, <1>10 DEF Next, Caller, Progress

LEMMA InitWait ==
    ASSUME Init
    PROVE  WaitInv
<1>1. \A c \in Chan : WriterLives(c)
  BY DEF Init, WriterLives, HasWriter
<1>2. \A s \in Call : CallServed(s)
  BY DEF Init, CallServed
<1>3. \A k \in Stream : StreamLives(k)
  BY DEF Init, StreamLives
<1>4. \A c \in Chan : StreamOf(c)
  BY StreamNumbers DEF Init, StreamOf
<1>5. FreshInv
  BY StreamNumbers DEF Init, FreshInv
<1> QED  BY <1>1, <1>2, <1>3, <1>4, <1>5 DEF WaitInv

LEMMA StepWait ==
    ASSUME IInv, WaitInv, [Next]_vars
    PROVE  WaitInv'
<1>1. CASE Next
  <2>1. \A c \in Chan : WriterLives(c)'
    BY <1>1, WriterLivesStep DEF IInv, WaitInv
  <2>2. \A s \in Call : CallServed(s)'
    BY <1>1, CallServedStep DEF IInv, WaitInv
  <2>3. \A k \in Stream : StreamLives(k)'
    BY <1>1, StreamLivesStep
  <2>4. \A c \in Chan : StreamOf(c)'
    BY <1>1, StreamOfStep
  <2>5. FreshInv'
    BY <1>1, FreshStep
  <2> QED  BY <2>1, <2>2, <2>3, <2>4, <2>5 DEF WaitInv
<1>2. CASE UNCHANGED vars
  <2>1. \A c \in Chan : WriterLives(c)'
    BY <1>2 DEF WaitInv, WriterLives, HasWriter, Stopped, From, vars
  <2>2. \A s \in Call : CallServed(s)'
    BY <1>2 DEF WaitInv, CallServed, HasWriter, Stopped, Queued, Serves, From, vars
  <2>3. \A k \in Stream : StreamLives(k)'
    BY <1>2 DEF WaitInv, StreamLives, HostUp, Owned, From, To, vars
  <2>4. \A c \in Chan : StreamOf(c)'
    BY <1>2 DEF WaitInv, StreamOf, vars
  <2>5. FreshInv'
    BY <1>2 DEF WaitInv, FreshInv, vars
  <2> QED  BY <2>1, <2>2, <2>3, <2>4, <2>5 DEF WaitInv
<1> QED  BY <1>1, <1>2

\* A call that has not returned, when nobody has anything to do, waits for its
\* lane's writer.
LEMMA CallWaits ==
    ASSUME IInv, WaitInv, ~SomebodyReady, NEW s \in Call, spc[s] # "idle", ~Returned(s)
    PROVE  Waits(s)
<1>1. CallType /\ CallInv /\ FreshInv /\ ~CallerReady(s)
  BY TypeParts DEF IInv, WaitInv, SomebodyReady
<1>2. spc[s] # "write"
  <2>1. spc[s] = "write" => wire[fstream[s]] = <<>>
    BY <1>1 DEF FreshInv
  <2>2. spc[s] = "write" => Len(wire[fstream[s]]) = 0
    BY <2>1, NilFacts
  <2> QED  BY <1>1, <2>2, BoundAssumption DEF CallerReady, Writable
<1> QED  BY <1>1, <1>2 DEF CallType, CallerReady, Returned, Waits

\* When nobody has anything to do, a writer of a node that goes on and has requests
\* is held up by its stream.
LEMMA WriterHeldUp ==
    ASSUME IInv, WaitInv, ~SomebodyReady, NEW s \in Call, Waits(s)
    PROVE  LET k == stream[via[s]]
           IN  /\ via[s] \in Chan /\ k \in Stream /\ chan[k] = via[s]
               /\ state[k] = "open" /\ wire[k] # <<>> /\ mode # "fresh"
<1>1. /\ WriterType /\ StreamType /\ CallInv /\ QueueInv
      /\ ~CallerReady(s) /\ CallServed(s)
  BY TypeParts DEF IInv, WaitInv, SomebodyReady
<1>2. PICK c \in Chan : c = via[s]
  BY <1>1 DEF Waits, CallInv, CallBegun
<1>3. /\ ~Stopped(From(c)) /\ HasWriter(c) /\ WriterLives(c) /\ StreamOf(c) /\ ~WriterReady(c)
  BY <1>1, <1>2 DEF Waits, CallerReady, CallServed, WaitInv, SomebodyReady
<1>4. wpc[c] = "write"
  <2>1. wpc[c] \in {"select", "write"}
    BY <1>1, <1>3 DEF WriterType, WriterReady, WriterLives
  <2>2. ASSUME wpc[c] = "select" PROVE FALSE
    <3>1. queue[c] = <<>> /\ Len(queue[c]) = 0
      BY <1>3, <2>2, NilFacts DEF WriterReady
    <3>2. spc[s] # "enqueue"
      BY <1>1, <1>2, <3>1, BoundAssumption DEF CallerReady
    <3>3. ~Queued(c, s) /\ ~Serves(c, s)
      BY <2>2, <3>1 DEF Queued, Serves
    <3> QED  BY <1>1, <1>2, <1>3, <3>2, <3>3 DEF CallServed, Waits
  <2> QED  BY <2>1, <2>2
<1>5. stream[c] \in Stream /\ chan[stream[c]] = c
  BY <1>1, <1>3, <1>4 DEF QueueInv, ServedAt, StreamOf
<1>6. state[stream[c]] = "open" /\ ~(Len(wire[stream[c]]) < Window)
  BY <1>3, <1>4 DEF WriterReady, Writable
<1>7. wire[stream[c]] # <<>>
  BY <1>6, NilFacts, BoundAssumption
<1> QED  BY <1>2, <1>3, <1>5, <1>6, <1>7 DEF HasWriter

\* Nobody has anything to do and some call waits: then a /slot/prepare keeps the
\* node it leads to from handling what it was sent, and waits for a call itself.
LEMMA CallsInCircle ==
    ASSUME IInv, WaitInv, ~SomebodyReady, NEW s \in Call, Waits(s)
    PROVE  /\ prepare[To(via[s])]
           /\ \E r \in Call : Waits(r) /\ From(via[r]) = To(via[s])
<1>1. StreamType /\ InboundType /\ NetType
  BY TypeParts DEF IInv
<1>2. PICK k \in Stream : /\ via[s] \in Chan /\ chan[k] = via[s]
                          /\ state[k] = "open" /\ wire[k] # <<>> /\ mode # "fresh"
  BY WriterHeldUp
<1>3. /\ ~ReaderReady(k) /\ ~DispatcherReady(k) /\ StreamAt(k) /\ StreamLives(k)
  BY DEF SomebodyReady, IInv, StreamInv, WaitInv
<1>4. ipc[k] \in {"offer", "drain"}
  <2>1. ipc[k] \notin {"none", "done", "pending", "read"}
    BY <1>2, <1>3, ChanFacts DEF StreamLives, ReaderReady
  <2> QED  BY <1>1, <2>1 DEF InboundType
<1>5. handling[k] # <<>>
  <2>1. ipc[k] = "offer" => ~(Len(deliveries[k]) < InboundCapacity)
    BY <1>3 DEF ReaderReady
  <2>2. ipc[k] = "offer" => deliveries[k] # <<>>
    BY <2>1, NilFacts, BoundAssumption
  <2> QED  BY <1>3, <1>4, <2>2 DEF ReaderReady, DispatcherReady
<1>6. prepare[To(chan[k])]
  BY <1>3, <1>5 DEF DispatcherReady
<1>7. To(via[s]) \in Node /\ ~NodeReady(To(via[s]))
  BY <1>2, ChanFacts DEF SomebodyReady
<1>8. PICK r \in Call : UnderWay(r, To(via[s]))
  BY <1>2, <1>6, <1>7 DEF NodeReady
<1>9. Waits(r) /\ From(via[r]) = To(via[s])
  BY <1>8, CallWaits DEF UnderWay
<1> QED  BY <1>2, <1>6, <1>9

\* A stream that nobody broke and about which nobody has anything to do is one
\* that a writer keeps open: all it was given has been handled.
LEMMA StreamSettles ==
    ASSUME IInv, WaitInv, ~SomebodyReady, \A n \in Node : ~prepare[n],
           NEW k \in Stream, state[k] \in {"open", "eof"}
    PROVE  handled[k] = written[k] /\ wire[k] = <<>>
<1>1. /\ StreamType /\ InboundType /\ StreamAt(k) /\ PipeAt(k) /\ StreamLives(k)
  BY TypeParts DEF IInv, StreamInv, PipeInv, WaitInv
<1>2. ~ReaderReady(k) /\ ~DispatcherReady(k) /\ \A s \in Call : ~CallerReady(s)
  BY DEF SomebodyReady
<1>3. handling[k] = <<>> /\ deliveries[k] = <<>>
  <2>1. To(chan[k]) \in Node
    BY <1>1, ChanFacts DEF StreamAt, StreamType
  <2> QED  BY <1>2, <2>1 DEF DispatcherReady
<1>4. Len(deliveries[k]) < InboundCapacity
  BY <1>3, NilFacts, BoundAssumption
<1>5. ipc[k] = "read"
  <2>1. ipc[k] \notin {"none", "done"}
    BY <1>1 DEF StreamAt, StreamLives
  <2>2. ipc[k] \notin {"pending", "offer", "drain"}
    BY <1>2, <1>3, <1>4 DEF ReaderReady
  <2> QED  BY <1>1, <2>1, <2>2 DEF InboundType
<1>6. state[k] = "open"
  BY <1>2, <1>5 DEF ReaderReady
<1>7. mode # "fresh"
  <2>1. ASSUME mode = "fresh" PROVE FALSE
    <3>1. PICK s \in Call : spc[s] \in {"write", "finish"}
      BY <1>1, <1>6, <2>1 DEF StreamLives, Owned
    <3> QED  BY <3>1, CallWaits DEF Waits, Returned
  <2> QED  BY <2>1
<1>8. wire[k] = <<>> /\ held[k] = <<>>
  BY <1>1, <1>2, <1>5, <1>7 DEF ReaderReady, PipeAt, PipeOf
<1>9. /\ handled[k] \in Seq(Frame) /\ written[k] \in Seq(Frame)
      /\ Len(handled[k]) \in Nat /\ Len(written[k]) \in Nat
      /\ DOMAIN handled[k] = 1 .. Len(handled[k]) /\ DOMAIN written[k] = 1 .. Len(written[k])
  BY <1>1, SeqTypes, SeqDomain
<1>10. /\ Follows(handled[k], written[k], 0)
       /\ Len(handled[k]) + Len(handling[k]) + Len(deliveries[k]) + Len(held[k]) + Len(wire[k])
            = Len(written[k])
  BY <1>1, <1>5 DEF PipeAt, PipeOf
<1>11. Len(handled[k]) = Len(written[k])
  <2>1. /\ Len(handling[k]) = 0 /\ Len(deliveries[k]) = 0 /\ Len(held[k]) = 0 /\ Len(wire[k]) = 0
    BY <1>3, <1>8, NilFacts
  <2> QED  BY <1>9, <1>10, <2>1
<1>12. \A i \in 1 .. Len(handled[k]) : handled[k][i] = written[k][i]
  <2>1. \A i \in 1 .. Len(handled[k]) : handled[k][i] = written[k][0 + i] /\ 0 + i = i
    BY <1>9, <1>10 DEF Follows
  <2> QED  BY <2>1
<1> QED  BY <1>8, <1>9, <1>11, <1>12

\* When nobody has anything to do, every writer of a stopped transport has ended.
LEMMA WriterSettles ==
    ASSUME IInv, WaitInv, ~SomebodyReady, \A n \in Node : ~prepare[n],
           NEW c \in Chan, Stopped(From(c))
    PROVE  wpc[c] = "done" /\ ppc[c] = "done"
<1>1. WriterType /\ PrewarmType /\ QueueInv /\ ~WriterReady(c) /\ ~PrewarmerReady(c)
  BY TypeParts DEF IInv, SomebodyReady
<1>2. ASSUME wpc[c] = "write" PROVE FALSE
  <2>1. stream[c] \in Stream
    BY <1>1, <1>2 DEF QueueInv, ServedAt
  <2>2. state[stream[c]] = "open" /\ ~(Len(wire[stream[c]]) < Window)
    BY <1>1, <1>2 DEF WriterReady, Writable
  <2>3. Len(wire[stream[c]]) = 0
    BY <2>1, <2>2, StreamSettles, NilFacts
  <2> QED  BY <2>2, <2>3, BoundAssumption
<1> QED  BY <1>1, <1>2 DEF WriterType, PrewarmType, WriterReady, PrewarmerReady

\* Whoever waits in Close, in /slot/prepare, in Send or for a frame to be handled,
\* some goroutine has something to do other than to let a deadline pass, unless
\* nodes wait for one another in a circle of /slot/prepare: no other order of
\* sends, stops, drained queues, lost connections and full channels leaves
\* everybody waiting (Send, run, failQueued, the inbound handlers, handleEnvelope,
\* prepareSlotWithLimit, Close).
THEOREM SomebodyMovesTheorem == Spec => []SomebodyMoves
<1>1. ASSUME IInv, WaitInv, ~SomebodyReady, \E s \in Call : Waits(s) PROVE Circle
  BY <1>1, CallsInCircle DEF Circle
<1>2. ASSUME IInv, WaitInv, ~SomebodyReady, \A s \in Call : ~Waits(s) PROVE Settled
  <2>1. StreamType /\ InboundType /\ NetType
    BY <1>2, TypeParts DEF IInv
  <2>2. \A s \in Call : spc[s] = "idle" \/ Returned(s)
    BY <1>2, CallWaits
  <2>3. ASSUME NEW n \in Node PROVE ~prepare[n]
    <3>1. ~NodeReady(n) /\ \A s \in Call : ~UnderWay(s, n)
      BY <1>2, <2>2 DEF SomebodyReady, UnderWay
    <3> QED  BY <3>1 DEF NodeReady
  <2>4. \A k \in Stream : state[k] \in {"open", "eof"} => handled[k] = written[k]
    BY <1>2, <2>3, StreamSettles
  <2>5. ASSUME NEW n \in Node PROVE phase[n] \in {"up", "closed"}
    <3>1. ~NodeReady(n)
      BY <1>2 DEF SomebodyReady
    <3>2. ASSUME phase[n] = "down" PROVE Idle(n)
      <4>1. \A c \in Chan : From(c) = n => wpc[c] = "done" /\ ppc[c] = "done"
        BY <1>2, <2>3, <3>2, WriterSettles DEF Stopped
      <4>2. ASSUME NEW k \in Stream, chan[k] # None, To(chan[k]) = n
            PROVE  ipc[k] \in {"pending", "done"}
        <5>1. StreamLives(k) /\ StreamAt(k) /\ ~ReaderReady(k) /\ ~DispatcherReady(k)
          BY <1>2 DEF WaitInv, IInv, StreamInv, SomebodyReady
        <5>2. state[k] \notin {"open", "eof"}
          BY <3>2, <4>2, <5>1 DEF StreamLives, HostUp
        <5>3. state[k] = "reset"
          BY <2>1, <4>2, <5>1, <5>2 DEF StreamAt, StreamType
        <5>4. ipc[k] \notin {"none", "read", "drain", "offer"}
          BY <2>3, <3>2, <4>2, <5>1, <5>3 DEF StreamLives, ReaderReady, DispatcherReady, Stopped
        <5> QED  BY <2>1, <5>4 DEF InboundType
      <4> QED  BY <4>1, <4>2 DEF Idle
    <3> QED  BY <2>1, <3>1, <3>2 DEF NodeReady, NetType
  <2> QED  BY <2>2, <2>3, <2>4, <2>5 DEF Settled
<1>3. IInv /\ WaitInv => SomebodyMoves
  BY <1>1, <1>2 DEF SomebodyMoves
<1>4. Spec => []WaitInv
  BY InitWait, StepWait, Invariance, PTL DEF Spec
<1> QED  BY <1>3, <1>4, Invariance, PTL
=============================================================================
