---------------------------- MODULE WSConnection ----------------------------
(***************************************************************************)
(* One WebSocket of the remote server with the program at its other end:   *)
(* wsConnection and byteQueue of src/internal/remote/server.go, Unary and  *)
(* Follow of src/internal/remote/client.go.                                *)
(*                                                                         *)
(* On the server's side run several goroutines: the read loop handles the  *)
(* requests, a goroutine per follow streams a shell's output, the write    *)
(* loop alone writes, and Shutdown or a change of credentials may signal   *)
(* the connection at any time.  The first two are Producers of messages;   *)
(* they share enqueue, whose steps are labels of pc.                       *)
(*                                                                         *)
(* A Go select that is parked takes what the next sender brings it; one    *)
(* that arrives takes any case that is ready.  So "parked" and "select"    *)
(* are two states of the writer, and a sender that finds it parked hands   *)
(* over.  closeOnce is spent exactly when done is closed.                  *)
(***************************************************************************)
EXTENDS Naturals, Sequences, FiniteSets, SequencesExt

CONSTANTS
    MaxRequests,    \* bound: the requests sent on the connection
    MaxChunks,      \* bound: chunks of output of the follows, together
    MaxBytes,       \* byteQueue.maxBytes; a chunk or a short message is 1
    ResponseSizes,  \* how long the response to a request may be
    WireCap,        \* bound: messages in transit to the client
    None

ASSUME WSBoundsOK ==
    /\ {MaxRequests, MaxChunks, MaxBytes, WireCap} \subseteq Nat \ {0}
    /\ ResponseSizes \subseteq Nat \ {0}
    /\ None \notin Nat

VARIABLES
    call,       \* the program at the client's end: any peer, Unary or Follow
    client,     \* "open", or how it returned
    started,    \* Follow's local of that name
    sent,       \* how many of its requests were read
    received,   \* history: the chunks of each follow that were read
    wire,       \* messages in transit to the client
    open,       \* neither end, nor the network, has closed the connection
    pc,         \* where each producer is
    holding,    \* the message each producer is enqueueing
    produced,   \* history: the chunks each follow has tried to write
    following,  \* wsConnection.following
    queue, bytes, notify,       \* byteQueue
    closeReq, done,             \* wsConnection
    writer,     \* where writeLoop is
    writing,    \* the message it is writing
    owed        \* history: it was asked to close, and cannot miss it

clientVars == <<call, client, started, sent, received>>
producerVars == <<pc, holding, produced, following>>
queueVars == <<queue, bytes>>
closeVars == <<closeReq, done, owed>>
writerVars == <<writer, writing>>
vars == <<clientVars, wire, open, producerVars, queueVars, notify,
          closeVars, writerVars>>

Requests == 1..MaxRequests      \* by ID
Reader == 0
Producers == Requests \cup {Reader}

Message(kind, id, size) == [kind |-> kind, id |-> id, size |-> size, n |-> 0]
Response(id, size) == Message("response", id, size)
Data(id, n) == [Message("data", id, 1) EXCEPT !.n = n]

Init ==
    /\ call \in {"peer", "unary", "follow"}
    /\ client = "open"
    /\ started = FALSE
    /\ sent = 0
    /\ received = [r \in Requests |-> 0]
    /\ wire = <<>>
    /\ open = TRUE
    /\ pc = [p \in Producers |-> IF p = Reader THEN "read" ELSE "none"]
    /\ holding = [p \in Producers |-> None]
    /\ produced = [r \in Requests |-> 0]
    /\ following = FALSE
    /\ queue = <<>> /\ bytes = 0 /\ notify = FALSE
    /\ closeReq = FALSE /\ done = FALSE /\ owed = FALSE
    /\ writer = "top" /\ writing = None

Goto(p, label) == pc' = [pc EXCEPT ![p] = label]
Close == open' = FALSE

-----------------------------------------------------------------------------
(* The client's end                                                        *)

\* What becomes of Unary when it reads message m, and of Follow, whose loop goes
\* on after data and the acknowledgement.
UnaryReads(m) ==
    CASE m.kind = "close" -> "stopped"
      [] m.kind = "response" /\ m.id = sent -> "answered"
      [] OTHER -> "confused"

FollowReads(m) ==
    CASE m.kind = "close" -> "stopped"
      [] m.kind = "data" -> IF started THEN "open" ELSE "confused"
      [] m.kind = "response" ->
           IF m.id = sent THEN "answered" ELSE "confused"
      [] m.kind = "started" ->
           IF m.id = sent /\ ~started THEN "open" ELSE "confused"
      [] m.kind = "ended" ->
           IF m.id = sent /\ started THEN "ended" ELSE "confused"

\* The client's end is closed, and nothing in transit will be read.
Leave(how) ==
    /\ client' = how
    /\ IF how = "open" THEN UNCHANGED open ELSE Close

\* ReadMessage returns a message.  What arrived before the server closed can
\* still be read.  Unary and Follow close the connection when they return.
ClientReads ==
    /\ client = "open"
    /\ wire # <<>>
    /\ LET m == Head(wire) IN
       /\ Leave(CASE call = "peer" -> "open"
                  [] call = "unary" -> UnaryReads(m)
                  [] call = "follow" -> FollowReads(m))
       /\ started' = (started \/ (call = "follow" /\ m.kind = "started"))
       /\ received' = IF m.kind = "data"
                        THEN [received EXCEPT ![m.id] = @ + 1] ELSE received
    /\ wire' = IF client' = "open" THEN Tail(wire) ELSE <<>>
    /\ UNCHANGED <<call, sent, producerVars, queueVars, notify, closeVars,
                   writerVars>>

\* The network loses the connection; or ReadMessage or WriteJSON fails, because
\* the connection has ended or the context has, whose goroutine closes it.
ClientStops ==
    /\ client = "open"
    /\ Leave("stopped")
    /\ wire' = <<>>
    /\ received' = [r \in Requests |-> 0]
    /\ UNCHANGED <<call, started, sent, producerVars, queueVars, notify,
                   closeVars, writerVars>>

-----------------------------------------------------------------------------
(* enqueue, signalClose and stop                                           *)

\* The first half of enqueue: isDone, before anything is locked.
Send(p, m) ==
    /\ holding' = [holding EXCEPT ![p] = m]
    /\ Goto(p, IF done THEN "refused" ELSE "push")

\* tryPush, under byteQueue.mu.
TryPush(p) ==
    /\ pc[p] = "push"
    /\ IF holding[p].size > MaxBytes - bytes
         THEN Goto(p, "refused") /\ UNCHANGED queueVars
         ELSE /\ queue' = Append(queue, holding[p])
              /\ bytes' = bytes + holding[p].size
              /\ Goto(p, "notify")
    /\ UNCHANGED <<clientVars, wire, open, holding, produced, following,
                   notify, closeVars, writerVars>>

\* Where producer p goes on after it enqueued its message, or failed to: having
\* acknowledged a follow, the read loop starts its goroutine.
Return(p, ok) ==
    /\ pc' = CASE holding[p].kind = "started" ->
                     [pc EXCEPT ![p] = "read", ![holding[p].id] = "stream"]
               [] holding[p].kind = "data" ->
                     [pc EXCEPT ![p] = IF ok THEN "stream" ELSE "failed"]
               [] holding[p].kind = "ended" -> [pc EXCEPT ![p] = "none"]
               [] holding[p].kind = "response" -> [pc EXCEPT ![p] = "read"]
    /\ holding' = [holding EXCEPT ![p] = None]
    /\ UNCHANGED <<produced, following>>

\* Gives the writer a token; if it is parked the token wakes it at once.
Wake ==
    IF writer = "parked"
      THEN writer' = "top" /\ UNCHANGED notify
      ELSE notify' = TRUE /\ UNCHANGED writer

\* Variant: only the message that ends an empty queue is worth a token.
NotifyFirst(p) ==
    /\ pc[p] = "notify"
    /\ IF Len(queue) = 1 THEN Wake ELSE UNCHANGED <<notify, writer>>
    /\ Return(p, TRUE)
    /\ UNCHANGED <<clientVars, wire, open, queueVars, closeVars, writing>>

\* The end of tryPush, after the lock is released.
Notify(p) ==
    /\ pc[p] = "notify"
    /\ Wake
    /\ Return(p, TRUE)
    /\ UNCHANGED <<clientVars, wire, open, queueVars, closeVars, writing>>

\* Variant: done is closed before the close request is there.
SignalCloseLate ==
    IF done
      THEN UNCHANGED <<closeVars, notify, writer>>
      ELSE /\ done' = TRUE
           /\ owed' = (writer \in {"top", "write", "parked"})
           /\ notify' = TRUE
           /\ closeReq' = TRUE
           /\ writer' = IF writer = "parked" THEN "ended" ELSE writer

\* signalClose: once, and the request comes before done and the token.
SignalClose ==
    IF done
      THEN UNCHANGED <<closeVars, notify, writer>>
      ELSE /\ done' = TRUE
           /\ owed' = (writer \in {"top", "write", "parked"})
           /\ notify' = TRUE
           /\ IF writer = "parked"
                THEN writer' = "close" /\ UNCHANGED closeReq
                ELSE closeReq' = TRUE /\ UNCHANGED writer

\* Variant: a message that does not fit is dropped.
DropRefused(p) ==
    /\ pc[p] = "refused"
    /\ Return(p, TRUE)
    /\ UNCHANGED <<clientVars, wire, open, queueVars, notify, closeVars,
                   writerVars>>

\* The connection is slow or is being closed.
Refused(p) ==
    /\ pc[p] = "refused"
    /\ SignalClose
    /\ Return(p, FALSE)
    /\ UNCHANGED <<clientVars, wire, open, queueVars, writing>>

\* closeOwnerConnections or Shutdown signal the connection.
ServerSignals ==
    /\ ~done
    /\ SignalClose
    /\ UNCHANGED <<clientVars, wire, open, producerVars, queueVars, writing>>

\* forceClose, by Shutdown, after it signalled.
ForceClose ==
    /\ done /\ open
    /\ Close
    /\ UNCHANGED <<clientVars, wire, producerVars, queueVars, notify,
                   closeVars, writerVars>>

-----------------------------------------------------------------------------
(* readLoop, handleRequest and run                                         *)

\* Variant: the goroutine runs before the follow is acknowledged.
StartFollowEarly(r) ==
    IF following
      THEN Send(Reader, Response(r, 1)) /\ UNCHANGED following
      ELSE \/ Send(Reader, Response(r, 1)) /\ UNCHANGED following
           \/ /\ holding' = [holding EXCEPT ![Reader] = Message("started", r, 1)]
              /\ pc' = [pc EXCEPT ![Reader] = IF done THEN "refused" ELSE "push",
                                ![r] = "stream"]
              /\ following' = TRUE

\* startFollow, under lifecycleMu and followMu: no follow is active, and the
\* server and the target are there; or the request is answered with an error.
StartFollow(r) ==
    IF following
      THEN Send(Reader, Response(r, 1)) /\ UNCHANGED following
      ELSE \/ Send(Reader, Response(r, 1)) /\ UNCHANGED following
           \/ Send(Reader, Message("started", r, 1)) /\ following' = TRUE

\* ReadMessage returns a request: of a peer whatever it likes, of Unary and Follow
\* the one that they send.  It may have arrived before the connection ended.  A
\* follow is started; the service works on any other, or it is found not valid, and
\* the response is of any length.  Nothing of this is seen before enqueue: while the
\* service works, be it on a send that the shell does not take, the request counts as
\* not read yet.
ReadRequest(r, kind) ==
    /\ pc[Reader] = "read"
    /\ r = sent + 1
    /\ call # "peer" => sent = 0 /\ kind = call
    /\ sent' = r
    /\ CASE kind = "follow" -> StartFollow(r)
         [] kind = "unary" ->
              /\ \E size \in ResponseSizes : Send(Reader, Response(r, size))
              /\ UNCHANGED following
    /\ UNCHANGED <<call, client, started, received, wire, open, produced,
                   queueVars, notify, closeVars, writerVars>>

\* ReadMessage fails, and run calls stop, which wakes a writer that is parked.
StopReading ==
    /\ pc[Reader] = "read"
    /\ done' = TRUE
    /\ writer' = IF writer = "parked" THEN "ended" ELSE writer
    /\ Goto(Reader, "wait")
    /\ UNCHANGED <<clientVars, wire, open, holding, produced, following,
                   queueVars, notify, closeReq, owed, writing>>

\* It fails because the connection has ended,
ReadFails == ~open /\ StopReading

\* or at the read deadline, since no pong came back in time.
ReadTimesOut == open /\ StopReading

\* run waits for the writer and closes the connection.
RunReturns ==
    /\ pc[Reader] = "wait"
    /\ writer \in {"gone", "failed"}
    /\ Close
    /\ Goto(Reader, "returned")
    /\ UNCHANGED <<clientVars, wire, holding, produced, following,
                   queueVars, notify, closeVars, writerVars>>

-----------------------------------------------------------------------------
(* The goroutine of a follow                                               *)

\* Stream writes a chunk with followWriter; that the connection is done does not
\* keep its select from taking one more.
WriteChunk(r) ==
    /\ pc[r] = "stream"
    /\ SumFunction(produced) < MaxChunks
    /\ produced' = [produced EXCEPT ![r] = @ + 1]
    /\ Send(r, Data(r, produced[r] + 1))
    /\ UNCHANGED <<clientVars, wire, open, following, queueVars, notify,
                   closeVars, writerVars>>

\* Stream returns, and following is cleared before the end is announced.
EndStream(r) ==
    /\ following' = FALSE
    /\ Send(r, Message("ended", r, 1))
    /\ UNCHANGED <<clientVars, wire, open, produced, queueVars, notify,
                   closeVars, writerVars>>

\* It returns because its Write failed or the connection is done,
StreamStops(r) ==
    /\ pc[r] = "failed" \/ (pc[r] = "stream" /\ done)
    /\ EndStream(r)

\* or because the shell has exited or dropped the subscriber.
TargetEnds(r) ==
    /\ pc[r] = "stream" /\ ~done
    /\ EndStream(r)

-----------------------------------------------------------------------------
(* writeLoop                                                               *)

\* The select that does not wait, then pop.
WriterTop ==
    /\ writer = "top"
    /\ IF closeReq
         THEN /\ closeReq' = FALSE
              /\ writer' = "close"
              /\ UNCHANGED <<queueVars, writing>>
         ELSE IF queue = <<>>
         THEN writer' = "select" /\ UNCHANGED <<closeReq, queueVars, writing>>
         ELSE /\ queue' = Tail(queue)
              /\ bytes' = bytes - Head(queue).size
              /\ writing' = Head(queue)
              /\ writer' = "write"
              /\ UNCHANGED closeReq
    /\ UNCHANGED <<clientVars, wire, open, producerVars, notify, done, owed>>

\* The select that waits: any case that is ready, or park.
WriterSelect ==
    /\ writer = "select"
    /\ \/ closeReq /\ closeReq' = FALSE /\ writer' = "close" /\ UNCHANGED notify
       \/ done /\ writer' = "ended" /\ UNCHANGED <<closeReq, notify>>
       \/ notify /\ notify' = FALSE /\ writer' = "top" /\ UNCHANGED closeReq
       \/ /\ ~closeReq /\ ~done /\ ~notify
          /\ writer' = "parked" /\ UNCHANGED <<closeReq, notify>>
    /\ UNCHANGED <<clientVars, wire, open, producerVars, queueVars, done,
                   owed, writing>>

\* The ticker: a ping, which fails on a connection that has ended.
Ping ==
    /\ writer \in {"select", "parked"}
    /\ IF open
         THEN writer' = "top" /\ UNCHANGED open
         ELSE writer' = "failed" /\ Close
    /\ UNCHANGED <<clientVars, wire, producerVars, queueVars, notify,
                   closeVars, writing>>

\* writeMessage and writeClose.  What is written when the other end has gone may
\* be lost without an error.
Write ==
    /\ Len(wire) < WireCap
    /\ \/ /\ writer = "write"
          /\ wire' = IF open THEN Append(wire, writing) ELSE wire
          /\ writer' = "top"
          /\ UNCHANGED owed
       \/ /\ writer = "close"
          /\ wire' = IF open THEN Append(wire, Message("close", None, 0)) ELSE wire
          /\ writer' = "ended"
          /\ owed' = FALSE
    /\ writing' = None
    /\ UNCHANGED <<clientVars, open, producerVars, queueVars, notify,
                   closeReq, done>>

\* They fail at the write deadline, when the client does not read, or because
\* the connection has ended.
WriteFails ==
    /\ writer \in {"write", "close"}
    /\ ~open \/ Len(wire) = WireCap
    /\ writer' = "failed"
    /\ writing' = None
    /\ Close
    /\ owed' = FALSE
    /\ UNCHANGED <<clientVars, wire, producerVars, queueVars, notify,
                   closeReq, done>>

\* Variant: the connection is left open.
WriterEndsOpen ==
    /\ writer = "ended"
    /\ writer' = "gone"
    /\ UNCHANGED <<clientVars, wire, open, producerVars, queueVars, notify,
                   closeVars, writing>>

\* The deferred Close of the connection.
WriterEnds ==
    /\ writer = "ended"
    /\ writer' = "gone"
    /\ Close
    /\ UNCHANGED <<clientVars, wire, producerVars, queueVars, notify,
                   closeVars, writing>>

-----------------------------------------------------------------------------
EnqueueStep(p) == TryPush(p) \/ Notify(p) \/ Refused(p)
ReaderStep == EnqueueStep(Reader) \/ ReadFails \/ RunReturns
FollowerStep(r) == EnqueueStep(r) \/ StreamStops(r)
WriterStep == WriterTop \/ WriterSelect \/ Write \/ WriteFails \/ WriterEnds

Next ==
    \/ \E r \in Requests :
          \/ \E kind \in {"unary", "follow"} : ReadRequest(r, kind)
          \/ FollowerStep(r) \/ WriteChunk(r) \/ TargetEnds(r)
    \/ ClientReads \/ ClientStops
    \/ ReaderStep \/ ReadTimesOut
    \/ WriterStep \/ Ping
    \/ ServerSignals \/ ForceClose

Spec == Init /\ [][Next]_vars

\* Goroutines run, and the service answers the requests it is given.  Neither the
\* client, the shell, the network, the ticker nor the read deadline are counted
\* on: the write deadline alone sees to it that a write ends.  A select takes one
\* of its ready cases at random, so that the ticker does not win for ever.
Fairness ==
    /\ WF_vars(ReaderStep)
    /\ \A r \in Requests : WF_vars(FollowerStep(r))
    /\ WF_vars(WriterStep)
    /\ SF_vars(WriterSelect)

FairSpec == Spec /\ Fairness

-----------------------------------------------------------------------------
(* Properties                                                              *)

\* Every follow on the connection reaches the client as the chunks 1, 2, 3, ... in
\* order, whatever was refused because the queue was full, and when the client
\* reads that the follow has ended it has read every chunk that the shell's
\* stream tried to write: a connection that loses output ends without saying so
\* (server.go:711-727, 942-977, 1028-1038; client.go:196-243).
FollowsHaveNoGaps ==
    wire # <<>> =>
        LET m == Head(wire) IN
        /\ m.kind = "data" => m.n = received[m.id] + 1
        /\ m.kind = "ended" => received[m.id] = produced[m.id]

\* Unary and Follow never meet an answer that their protocol has no place for:
\* data before the acknowledgement, a second one, an end before it, another
\* request's ID (client.go:139-160, 196-243 against server.go:845-940).
ClientNeverConfused == client # "confused"

\* A connection that was asked to close tells the client why, unless a write
\* failed, and unless the request came just between pop and the select, which may
\* then take done instead (server.go:813-843, 988-1000).
CloseIsSaid ==
    writer = "gone" => ~owed

\* A request that was read is answered, and a follow that ends is announced as
\* ended, or the connection ends: no message stays in the queue for want of a
\* token, though producers push and notify in two steps and the channel holds one
\* token (server.go:709-723, 826-842).  Not even the ticker is needed.
RequestsAreAnswered ==
    \A r \in Requests :
        \A kinds \in {{"response", "started"}, {"ended"}} :
            LET IsReply(m) == m # None /\ m.id = r /\ m.kind \in kinds IN
            (\E p \in Producers : pc[p] = "push" /\ IsReply(holding[p])) ~>
                ~open \/ \E i \in DOMAIN wire : IsReply(wire[i])

\* A connection that was told to close, or whose client has gone, ends: run
\* returns, so that removeConnection is called, and no goroutine of a follow is
\* left (server.go:769-779, 901-940, 979-1010).  RemoteServer relies on it.
ToldToCloseGoes ==
    done ~> pc[Reader] = "returned" /\ \A r \in Requests : pc[r] = "none"

=============================================================================
