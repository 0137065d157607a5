------------------------------- MODULE Daemon -------------------------------
(***************************************************************************)
(* The local daemon, src/internal/server/daemon.go: the accept loop, the   *)
(* connection handlers, the cleanup goroutine and the stop handshake       *)
(* between them.                                                           *)
(*                                                                         *)
(* The service under it is reduced to what ServiceContract says of it,     *)
(* which Service implements: whether it admits operations, whether it has  *)
(* targets, and the operations under way.  A connection is used for one    *)
(* request, and its handler goroutine bears its name.                      *)
(***************************************************************************)
EXTENDS Naturals, FiniteSets

CONSTANTS
    Conns,              \* bound: the connections clients make
    StopConns,          \* those whose client sends "stop"
    MaxConnections,     \* DaemonOptions.MaxConnections
    IdleStop,           \* does AutoRelease have a DaemonIdleTimeout?
    AcceptErrors        \* may Accept fail while the listener is open?

ASSUME StopConnsAreConns == StopConns \subseteq Conns
ASSUME ConnsFinite == IsFiniteSet(Conns)
ASSUME ConnsAreNoOtherRequester == "serve" \notin Conns /\ "cleanup" \notin Conns
ASSUME MaxConnectionsPositive == MaxConnections \in Nat \ {0}
ASSUME SwitchesAreBoolean == IdleStop \in BOOLEAN /\ AcceptErrors \in BOOLEAN

VARIABLES
    handler,        \* where each connection, then its handler goroutine, is
    isOpen,         \* the daemon has not closed the connection
    answered,       \* the client got its response
    connections,    \* Daemon.connections: is it tracked, and marked active?
    stopping,       \* Daemon.stopping
    listening,      \* the listener is open
    stopAck,        \* Daemon.stopAck: nil, open or closed
    holdsAck,       \* the handlers that requestStop gave a non-nil ack
    requester,      \* where each goroutine is inside requestStop
    serve,          \* where Serve is
    reading,        \* the snapshot of closeReadingConnections
    cleanup,        \* where the cleanup goroutine is
    admitting,      \* the service admits operations
    empty,          \* the service has no target
    recent          \* lastActivity is less than DaemonIdleTimeout ago

connVars == <<handler, isOpen, answered, connections>>
stopVars == <<stopping, listening, stopAck, holdsAck, requester>>
loopVars == <<serve, reading, cleanup>>
serviceVars == <<admitting, empty, recent>>
vars == <<connVars, stopVars, loopVars, serviceVars>>

\* Who may call requestStop.
Requesters == Conns \cup {"serve", "cleanup"}

HandlerStates == {"none", "dialed", "accepted", "refused", "reading", "decoded",
    "active", "noted", "operating", "responding", "acking", "leaving", "gone"}

ServeStates == {"accept", "draining", "closing", "awaitAck", "closeAccepted",
    "closeAll", "waitHandlers", "returned"}

TypeOK ==
    /\ handler \in [Conns -> HandlerStates]
    /\ isOpen \in [Conns -> BOOLEAN]
    /\ answered \in [Conns -> BOOLEAN]
    /\ connections \in [Conns -> {"absent", "reading", "active"}]
    /\ stopping \in BOOLEAN
    /\ listening \in BOOLEAN
    /\ stopAck \in {"nil", "open", "closed"}
    /\ holdsAck \in SUBSET Conns
    /\ requester \in [Requesters -> {"out", "admission", "mark", "close", "back"}]
    /\ serve \in ServeStates
    /\ reading \in SUBSET Conns
    /\ cleanup \in {"wait", "empty", "idle"}
    /\ admitting \in BOOLEAN
    /\ empty \in BOOLEAN
    /\ recent \in BOOLEAN

Init ==
    /\ handler = [h \in Conns |-> "none"]
    /\ isOpen = [h \in Conns |-> FALSE]
    /\ answered = [h \in Conns |-> FALSE]
    /\ connections = [h \in Conns |-> "absent"]
    /\ stopping = FALSE
    /\ listening = TRUE
    /\ stopAck = "nil"
    /\ holdsAck = {}
    /\ requester = [x \in Requesters |-> "out"]
    /\ serve = "accept"
    /\ reading = {}
    /\ cleanup = "wait"
    /\ admitting = TRUE
    /\ empty = TRUE
    /\ recent = TRUE

Tracked == {h \in Conns : connections[h] # "absent"}

To(h, s) == handler' = [handler EXCEPT ![h] = s]

\* The handlers inside HandleWithDone or Stream.
Operating == {h \in Conns : handler[h] = "operating"}

Contract == INSTANCE ServiceContract WITH Operations <- Conns, operating <- Operating

-----------------------------------------------------------------------------
(* requestStop, by a handler, by Serve or by the cleanup goroutine         *)

RequestStop(x) == requester' = [requester EXCEPT ![x] = "admission"]

\* service.StopAdmission
StopAdmission(x) ==
    /\ requester[x] = "admission"
    /\ admitting' = FALSE
    /\ requester' = [requester EXCEPT ![x] = "mark"]
    /\ UNCHANGED <<connVars, stopping, listening, stopAck, holdsAck, loopVars,
                   empty, recent>>

\* Variant: the ack is made whoever asks, also when nobody will close it.
MarkStoppingAlwaysAcks(x) ==
    /\ requester[x] = "mark"
    /\ stopping' = TRUE
    /\ stopAck' = IF ~stopping THEN "open" ELSE stopAck
    /\ holdsAck' = IF x \in Conns THEN holdsAck \cup {x} ELSE holdsAck
    /\ requester' = [requester EXCEPT ![x] = "close"]
    /\ UNCHANGED <<connVars, listening, loopVars, serviceVars>>

\* The section under lifecycleMu: only the first request makes the ack, and
\* only if it is a handler's; later handlers share it.
MarkStopping(x) ==
    /\ requester[x] = "mark"
    /\ stopping' = TRUE
    /\ stopAck' = IF ~stopping /\ x \in Conns THEN "open" ELSE stopAck
    /\ holdsAck' = IF stopAck' # "nil" /\ x \in Conns THEN holdsAck \cup {x}
                                                      ELSE holdsAck
    /\ requester' = [requester EXCEPT ![x] = "close"]
    /\ UNCHANGED <<connVars, listening, loopVars, serviceVars>>

\* close(d.stopped) and listener.Close: Serve's Accept fails.
CloseListener(x) ==
    /\ requester[x] = "close"
    /\ listening' = FALSE
    /\ requester' = [requester EXCEPT ![x] = "back"]
    /\ UNCHANGED <<connVars, stopping, stopAck, holdsAck, loopVars, serviceVars>>

RequestStopStep(x) == StopAdmission(x) \/ MarkStopping(x) \/ CloseListener(x)

-----------------------------------------------------------------------------
(* Clients and handlers                                                    *)

\* A client connects; the kernel queues it until Accept.
Dial(h) ==
    /\ handler[h] = "none"
    /\ listening
    /\ To(h, "dialed")
    /\ isOpen' = [isOpen EXCEPT ![h] = TRUE]
    /\ UNCHANGED <<answered, connections, stopVars, loopVars, serviceVars>>

\* DecodeLocalRequest: a request arrives, or it is malformed, times out or
\* finds the connection closed, and an error is written.
ReadRequest(h) ==
    /\ handler[h] = "reading"
    /\ \/ isOpen[h] /\ To(h, "decoded")
       \/ To(h, "responding")
    /\ UNCHANGED <<isOpen, answered, connections, stopVars, loopVars, serviceVars>>

\* Variant: the connection is not marked active.
MarkConnectionActiveNot(h) ==
    /\ handler[h] = "decoded"
    /\ To(h, "active")
    /\ UNCHANGED <<isOpen, answered, connections, stopVars, loopVars, serviceVars>>

\* SetReadDeadline fails on a closed connection; else markConnectionActive.
MarkConnectionActive(h) ==
    /\ handler[h] = "decoded"
    /\ IF isOpen[h]
         THEN /\ connections' = [connections EXCEPT ![h] = "active"]
              /\ To(h, "active")
         ELSE /\ To(h, "responding")
              /\ UNCHANGED connections
    /\ UNCHANGED <<isOpen, answered, stopVars, loopVars, serviceVars>>

\* "stop": ack := requestStop(true).
HandleStop(h) ==
    /\ handler[h] = "active"
    /\ h \in StopConns
    /\ \/ requester[h] = "out" /\ RequestStop(h) /\ UNCHANGED handler
       \/ requester[h] = "back" /\ To(h, "responding") /\ UNCHANGED requester
    /\ UNCHANGED <<isOpen, answered, connections, stopping, listening, stopAck,
                   holdsAck, loopVars, serviceVars>>

\* Any other request: markActivity.
MarkActivity(h) ==
    /\ handler[h] = "active"
    /\ h \notin StopConns
    /\ recent' = TRUE
    /\ To(h, "noted")
    /\ UNCHANGED <<isOpen, answered, connections, stopVars, loopVars,
                   admitting, empty>>

\* beginOperation, in HandleWithDone or Stream.
BeginOperation(h) ==
    /\ handler[h] = "noted"
    /\ To(h, IF admitting THEN "operating" ELSE "responding")
    /\ UNCHANGED <<isOpen, answered, connections, stopVars, loopVars, serviceVars>>

\* What happens in the store meanwhile: an operation starts a target, or the
\* last one goes, which may also happen when its shell exits.
StoreChanges ==
    /\ UNCHANGED <<connVars, stopVars, loopVars, recent>>
    /\ Contract!Populate \/ Contract!Vacate

EndOperation(h) ==
    /\ handler[h] = "operating"
    /\ To(h, "responding")
    /\ UNCHANGED <<isOpen, answered, connections, stopVars, loopVars, serviceVars>>

\* writeResponse, which a closed connection drops.
WriteResponse(h) ==
    /\ handler[h] = "responding"
    /\ answered' = [answered EXCEPT ![h] = isOpen[h]]
    /\ To(h, IF h \in holdsAck THEN "acking" ELSE "leaving")
    /\ UNCHANGED <<isOpen, connections, stopVars, loopVars, serviceVars>>

\* stopAckOnce.Do(close(ack))
CloseAck(h) ==
    /\ handler[h] = "acking"
    /\ stopAck' = "closed"
    /\ To(h, "leaving")
    /\ UNCHANGED <<isOpen, answered, connections, stopping, listening, holdsAck,
                   requester, loopVars, serviceVars>>

\* The deferred conn.Close, removeConnection and handlers.Done.
Leave(h) ==
    /\ handler[h] = "leaving"
    /\ isOpen' = [isOpen EXCEPT ![h] = FALSE]
    /\ connections' = [connections EXCEPT ![h] = "absent"]
    /\ To(h, "gone")
    /\ UNCHANGED <<answered, stopVars, loopVars, serviceVars>>

-----------------------------------------------------------------------------
(* Serve                                                                   *)

Goto(s) == serve' = s

Accept(h) ==
    /\ serve = "accept"
    /\ requester["serve"] = "out"
    /\ listening
    /\ \A g \in Conns : handler[g] # "accepted"
    /\ handler[h] = "dialed"
    /\ To(h, "accepted")
    /\ UNCHANGED <<isOpen, answered, connections, stopVars, loopVars, serviceVars>>

\* Variant: the limit is exceeded by one.
RegisterConnectionPastLimit(h) ==
    /\ handler[h] = "accepted"
    /\ IF stopping \/ Cardinality(Tracked) > MaxConnections
         THEN /\ To(h, "refused")
              /\ isOpen' = [isOpen EXCEPT ![h] = FALSE]
              /\ UNCHANGED connections
         ELSE /\ To(h, "reading")
              /\ connections' = [connections EXCEPT ![h] = "reading"]
              /\ UNCHANGED isOpen
    /\ UNCHANGED <<answered, stopVars, loopVars, serviceVars>>

\* registerConnection, then conn.Close or a handler goroutine.
RegisterConnection(h) ==
    /\ handler[h] = "accepted"
    /\ IF stopping \/ Cardinality(Tracked) >= MaxConnections
         THEN /\ To(h, "refused")
              /\ isOpen' = [isOpen EXCEPT ![h] = FALSE]
              /\ UNCHANGED connections
         ELSE /\ To(h, "reading")
              /\ connections' = [connections EXCEPT ![h] = "reading"]
              /\ UNCHANGED isOpen
    /\ UNCHANGED <<answered, stopVars, loopVars, serviceVars>>

\* Accept fails because a stop request closed the listener.
AcceptStopped ==
    /\ serve = "accept"
    /\ requester["serve"] = "out"
    /\ ~listening
    /\ \A g \in Conns : handler[g] # "accepted"
    /\ Goto("draining")
    /\ UNCHANGED <<connVars, stopVars, reading, cleanup, serviceVars>>

\* Accept fails for another reason: Serve requests the stop itself.
AcceptFails ==
    /\ serve = "accept"
    /\ \A g \in Conns : handler[g] # "accepted"
    /\ \/ /\ AcceptErrors
          /\ requester["serve"] = "out" /\ listening
          /\ RequestStop("serve")
          /\ UNCHANGED serve
       \/ /\ requester["serve"] = "back"
          /\ Goto("draining")
          /\ UNCHANGED requester
    /\ UNCHANGED <<connVars, stopping, listening, stopAck, holdsAck, reading,
                   cleanup, serviceVars>>

\* closeReadingConnections collects under the lock...
CollectReading ==
    /\ serve = "draining"
    /\ admitting' = FALSE
    /\ reading' = {h \in Conns : connections[h] = "reading"}
    /\ Goto("closing")
    /\ UNCHANGED <<connVars, stopVars, cleanup, empty, recent>>

\* ... and closes after it.
CloseReading ==
    /\ serve = "closing"
    /\ isOpen' = [h \in Conns |-> isOpen[h] /\ h \notin reading]
    /\ reading' = {}
    /\ Goto("awaitAck")
    /\ UNCHANGED <<handler, answered, connections, stopVars, cleanup, serviceVars>>

\* Variant: the ack is not waited for.
WaitForStopAckNot ==
    /\ serve = "awaitAck"
    /\ Goto("closeAccepted")
    /\ UNCHANGED <<connVars, stopVars, reading, cleanup, serviceVars>>

WaitForStopAck ==
    /\ serve = "awaitAck"
    /\ stopAck # "open"
    /\ Goto("closeAccepted")
    /\ UNCHANGED <<connVars, stopVars, reading, cleanup, serviceVars>>

CloseAcceptedConnections ==
    /\ serve = "closeAccepted"
    /\ isOpen' = [h \in Conns |-> isOpen[h] /\ h \notin Tracked]
    /\ Goto("closeAll")
    /\ UNCHANGED <<handler, answered, connections, stopVars, reading, cleanup,
                   serviceVars>>

\* service.CloseAll
ServiceCloseAll ==
    /\ serve = "closeAll"
    /\ empty' = TRUE
    /\ Goto("waitHandlers")
    /\ UNCHANGED <<connVars, stopVars, reading, cleanup, admitting, recent>>

\* Variant: only the operations are waited for.
WaitOperationsOnly ==
    /\ serve = "waitHandlers"
    /\ \A h \in Conns : handler[h] # "operating"
    /\ Goto("returned")
    /\ UNCHANGED <<connVars, stopVars, reading, cleanup, serviceVars>>

HandlerAlive(h) == handler[h] \notin {"none", "dialed", "refused", "gone"}

\* service.WaitOperations and handlers.Wait
WaitHandlers ==
    /\ serve = "waitHandlers"
    /\ \A h \in Conns : ~HandlerAlive(h)
    /\ Goto("returned")
    /\ UNCHANGED <<connVars, stopVars, reading, cleanup, serviceVars>>

-----------------------------------------------------------------------------
(* The cleanup goroutine                                                   *)

\* cleanupIdle: the sweep may empty the store; then Empty() is read.
CleanupReadsEmpty ==
    /\ IdleStop
    /\ cleanup = "wait"
    /\ requester["cleanup"] = "out"
    /\ listening
    /\ empty' \in {empty, TRUE}
    /\ cleanup' = IF empty' THEN "empty" ELSE "wait"
    /\ UNCHANGED <<connVars, stopVars, serve, reading, admitting, recent>>

\* lastActivity is read under activityMu.
CleanupReadsActivity ==
    /\ cleanup = "empty"
    /\ cleanup' = IF recent THEN "wait" ELSE "idle"
    /\ UNCHANGED <<connVars, stopVars, serve, reading, serviceVars>>

CleanupRequestsStop ==
    /\ cleanup = "idle"
    /\ requester["cleanup"] = "out"
    /\ RequestStop("cleanup")
    /\ UNCHANGED <<connVars, stopping, listening, stopAck, holdsAck, loopVars,
                   serviceVars>>

\* DaemonIdleTimeout passes without a request.
TimePasses ==
    /\ recent' = FALSE
    /\ UNCHANGED <<connVars, stopVars, loopVars, admitting, empty>>

-----------------------------------------------------------------------------
HandlerStep(h) ==
    \/ RegisterConnection(h) \/ ReadRequest(h) \/ MarkConnectionActive(h)
    \/ HandleStop(h) \/ MarkActivity(h) \/ BeginOperation(h)
    \/ WriteResponse(h) \/ CloseAck(h) \/ Leave(h)

ServeStep ==
    \/ AcceptStopped \/ CollectReading \/ CloseReading \/ WaitForStopAck
    \/ CloseAcceptedConnections \/ ServiceCloseAll \/ WaitHandlers

CleanupStep == CleanupReadsEmpty \/ CleanupReadsActivity \/ CleanupRequestsStop

Next ==
    \/ \E h \in Conns : Dial(h) \/ Accept(h) \/ HandlerStep(h) \/ EndOperation(h)
    \/ \E x \in Requesters : RequestStopStep(x)
    \/ ServeStep \/ AcceptFails \/ CleanupStep \/ StoreChanges \/ TimePasses

Spec == Init /\ [][Next]_vars

\* Goroutines run.  An operation is only sure to end once CloseAll has closed
\* its shell; a client may connect or not, and time may pass or not.
Fairness ==
    /\ \A h \in Conns :
          /\ WF_vars(HandlerStep(h))
          /\ WF_vars(EndOperation(h) /\ serve = "waitHandlers")
    /\ \A x \in Requesters : WF_vars(RequestStopStep(x))
    /\ WF_vars(ServeStep)
    /\ WF_vars(AcceptFails /\ requester["serve"] = "back")

FairSpec == Spec /\ Fairness

-----------------------------------------------------------------------------
(* Properties                                                              *)

\* The connection limit holds, and exactly the live handlers are counted, so
\* that capacity comes back (daemon.go:141-168).
CapacityIsExact ==
    /\ Cardinality(Tracked) <= MaxConnections
    /\ \A h \in Conns : h \in Tracked <=> HandlerAlive(h) /\ handler[h] # "accepted"

\* Draining does not take the answer from the client that stops the daemon: the
\* one holder of the ack is answered before its connection is closed
\* (TestDaemonStopRespondsAndClosesIdleConnections).  Two stops that share the
\* ack are not promised this: it is closed by the first of them to leave.
StopIsAnswered ==
    \A h \in StopConns :
        holdsAck = {h} /\ handler[h] \in {"acking", "leaving", "gone"} => answered[h]

\* Draining closes the connections that still read a request, never one whose
\* operation was admitted: those keep their clients until the stop has been
\* acknowledged (daemon.go:125-128, 383-395).
OperatingSurvivesDraining ==
    \A h \in Conns : handler[h] = "operating" /\ ~isOpen[h] =>
        serve \in {"closeAll", "waitHandlers", "returned"}

\* When Serve returns no handler and no target is left, and no client can
\* connect (daemon.go:125-139).
ServeLeavesNothing ==
    serve = "returned" =>
        /\ ~listening /\ empty /\ ~admitting
        /\ \A h \in Conns : ~HandlerAlive(h)

\* A stop that was requested comes to its end: Serve returns, however many
\* requests, refusals and errors meet it.
StopCompletes == stopping ~> serve = "returned"

\* The daemon's calls leave the service in the states its contract allows: what
\* Serve, the handlers and the cleanup goroutine do to it in any order is a run
\* of the contract (daemon.go:106-139, 279-332).
KeepsToContract == Contract!Spec

=============================================================================
