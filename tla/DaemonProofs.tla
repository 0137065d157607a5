---------------------------- MODULE DaemonProofs ----------------------------
(***************************************************************************)
(* Proofs about Daemon, for any finite number of connections, any set of   *)
(* them that stop the daemon, any connection limit, and with or without    *)
(* idle stops and accept errors.                                           *)
(***************************************************************************)
EXTENDS Daemon, FiniteSetTheorems, TLAPS

\* Serve has left the accept loop.
Left == serve # "accept"

\* Once Serve drains, the service admits nothing; once CloseAll has run it has
\* no target, and Serve returns when the handlers have.
ServeOK ==
    /\ serve \notin {"accept", "draining"} => ~admitting
    /\ serve \in {"waitHandlers", "returned"} => empty
    /\ serve = "returned" => \A h \in Conns : ~HandlerAlive(h)
    /\ \A h \in Conns : handler[h] = "accepted" => ~Left

\* The listener is closed by a request that marked the daemon, and Serve leaves
\* the loop only when it is.
ListenerOK ==
    /\ ~listening => stopping
    /\ Left => ~listening
    /\ \A x \in Requesters :
          /\ requester[x] = "back" => ~listening
          /\ requester[x] \in {"close", "back"} => stopping

\* Until the snapshot of reading connections is closed, every connection in
\* service is open; the snapshot has none whose request was read by then, and
\* what it catches later is not admitted.
OpenOK ==
    /\ \A h \in Conns : serve \in {"accept", "draining", "closing"}
          /\ handler[h] \notin {"none", "refused", "gone"} => isOpen[h]
    /\ OperatingSurvivesDraining
    /\ \A h \in Conns : connections[h] = "reading" =>
          handler[h] \notin {"active", "noted", "operating"}
    /\ \A h \in reading : serve = "closing" /\ handler[h] # "operating"

\* Where the handlers stand that were given the ack, and what it then is.
AckOK ==
    /\ ~stopping => stopAck = "nil"
    /\ stopAck = "nil" <=> holdsAck = {}
    /\ stopAck = "closed" => \E g \in holdsAck : handler[g] \in {"leaving", "gone"}
    /\ serve \in {"closeAccepted", "closeAll", "waitHandlers", "returned"} =>
          stopAck # "open"
    /\ \A h \in Conns :
          /\ requester[h] \in {"admission", "mark", "close"} => handler[h] = "active"
          /\ requester[h] # "out" => h \in StopConns
          /\ handler[h] = "acking" => h \in holdsAck
    /\ \A h \in holdsAck :
          /\ requester[h] \in {"close", "back"}
          /\ handler[h] \in {"active", "responding", "acking", "leaving", "gone"}

\* A handler that alone holds the ack made it before Serve drained: its
\* connection is not in the snapshot, and stays open until it has answered.
SoleHolderOK ==
    \A h \in Conns : holdsAck = {h} =>
        /\ h \notin reading
        /\ connections[h] # "reading"
        /\ handler[h] \in {"active", "responding"} => isOpen[h]
        /\ handler[h] \in {"acking", "leaving", "gone"} => answered[h]

IInv ==
    /\ TypeOK
    /\ CapacityIsExact
    /\ ServeOK
    /\ ListenerOK
    /\ OpenOK
    /\ AckOK
    /\ SoleHolderOK

-----------------------------------------------------------------------------
(* Each action keeps IInv.  USE expands the action; a step lists the parts of *)
(* IInv that its goal takes.                                               *)

\* Tracking one connection more or less changes the count by at most one
\* (daemon.go:147, 162).
LEMMA TrackedFinite == IsFiniteSet(Tracked) /\ Cardinality(Tracked) \in Nat
<1>1. Tracked \in SUBSET Conns
  BY DEF Tracked
<1>2. IsFiniteSet(Tracked)
  BY <1>1, ConnsFinite, FS_Subset
<1> QED
  BY <1>2, FS_CardinalityType

\* An action that tracks the same connections and lets no handler be born or
\* gone keeps the count.
LEMMA SameTracked ==
    ASSUME CapacityIsExact,
           \A h \in Conns : connections'[h] = "absent" <=> connections[h] = "absent",
           \A h \in Conns : (HandlerAlive(h) /\ handler[h] # "accepted")' <=>
                             HandlerAlive(h) /\ handler[h] # "accepted"
    PROVE  CapacityIsExact'
<1>1. Tracked' = Tracked
  BY DEF Tracked
<1> QED
  BY <1>1 DEF CapacityIsExact

\* requestStop stops admission first (daemon.go:356).
LEMMA StopAdmissionKeeps ==
    ASSUME IInv, NEW x \in Requesters, StopAdmission(x)
    PROVE  IInv'
<1> USE DEF IInv, TypeOK, StopAdmission, connVars, loopVars
<1>1. TypeOK'
  BY DEF TypeOK, HandlerStates, ServeStates
<1>2. CapacityIsExact'
  BY SameTracked DEF HandlerAlive
<1>3. ServeOK'
  BY DEF ServeOK, HandlerAlive, Left
<1>4. ListenerOK'
  BY DEF ListenerOK, Left, Requesters
<1>5. OpenOK'
  BY DEF OpenOK, OperatingSurvivesDraining
<1>6. AckOK'
  BY DEF AckOK, ListenerOK
<1>7. SoleHolderOK'
  BY DEF SoleHolderOK
<1> QED
  BY <1>1, <1>2, <1>3, <1>4, <1>5, <1>6, <1>7

\* The section of requestStop under lifecycleMu makes or shares the ack
\* (daemon.go:357-366).
LEMMA MarkStoppingKeeps ==
    ASSUME IInv, NEW x \in Requesters, MarkStopping(x)
    PROVE  IInv'
<1> USE DEF IInv, TypeOK, MarkStopping, connVars, loopVars, serviceVars
<1>1. TypeOK'
  BY DEF TypeOK, HandlerStates, ServeStates
<1>2. CapacityIsExact'
  BY SameTracked DEF HandlerAlive
<1>3. ServeOK'
  BY DEF ServeOK, HandlerAlive, Left
<1>4. ListenerOK'
  BY DEF ListenerOK, Left, Requesters
<1>5. OpenOK'
  BY DEF OpenOK, OperatingSurvivesDraining
<1>6. AckOK'
  BY ConnsAreNoOtherRequester DEF AckOK, ListenerOK, Left
<1>7. SoleHolderOK'
  BY DEF SoleHolderOK, AckOK, ListenerOK, OpenOK, Left
<1> QED
  BY <1>1, <1>2, <1>3, <1>4, <1>5, <1>6, <1>7

\* requestStop closes the listener (daemon.go:368-371).
LEMMA CloseListenerKeeps ==
    ASSUME IInv, NEW x \in Requesters, CloseListener(x)
    PROVE  IInv'
<1> USE DEF IInv, TypeOK, CloseListener, connVars, loopVars, serviceVars
<1>1. TypeOK'
  BY DEF TypeOK, HandlerStates, ServeStates
<1>2. CapacityIsExact'
  BY SameTracked DEF HandlerAlive
<1>3. ServeOK'
  BY DEF ServeOK, HandlerAlive, Left
<1>4. ListenerOK'
  BY DEF ListenerOK, Left, Requesters
<1>5. OpenOK'
  BY DEF OpenOK, OperatingSurvivesDraining
<1>6. AckOK'
  BY DEF AckOK
<1>7. SoleHolderOK'
  BY DEF SoleHolderOK
<1> QED
  BY <1>1, <1>2, <1>3, <1>4, <1>5, <1>6, <1>7

\* A client connects while the listener is open.
LEMMA DialKeeps ==
    ASSUME IInv, NEW h \in Conns, Dial(h)
    PROVE  IInv'
<1> USE DEF IInv, TypeOK, Dial, To, stopVars, loopVars, serviceVars
<1>1. TypeOK'
  BY DEF TypeOK, HandlerStates, ServeStates
<1>2. CapacityIsExact'
  BY SameTracked DEF HandlerAlive
<1>3. ServeOK'
  BY DEF ServeOK, HandlerAlive, Left
<1>4. ListenerOK'
  BY DEF ListenerOK, Left, Requesters
<1>5. OpenOK'
  BY DEF OpenOK, OperatingSurvivesDraining
<1>6. AckOK'
  BY DEF AckOK
<1>7. SoleHolderOK'
  BY DEF SoleHolderOK
<1> QED
  BY <1>1, <1>2, <1>3, <1>4, <1>5, <1>6, <1>7

\* Serve accepts a connection (daemon.go:107).
LEMMA AcceptKeeps ==
    ASSUME IInv, NEW h \in Conns, Accept(h)
    PROVE  IInv'
<1> USE DEF IInv, TypeOK, Accept, To, stopVars, loopVars, serviceVars
<1>1. TypeOK'
  BY DEF TypeOK, HandlerStates, ServeStates
<1>2. CapacityIsExact'
  BY SameTracked DEF HandlerAlive
<1>3. ServeOK'
  BY DEF ServeOK, HandlerAlive, Left
<1>4. ListenerOK'
  BY DEF ListenerOK, Left, Requesters
<1>5. OpenOK'
  BY DEF OpenOK, OperatingSurvivesDraining
<1>6. AckOK'
  BY DEF AckOK
<1>7. SoleHolderOK'
  BY DEF SoleHolderOK
<1> QED
  BY <1>1, <1>2, <1>3, <1>4, <1>5, <1>6, <1>7

\* Serve registers or refuses what it accepted (daemon.go:116-121, 141-149).
LEMMA RegisterConnectionKeeps ==
    ASSUME IInv, NEW h \in Conns, RegisterConnection(h)
    PROVE  IInv'
<1> USE DEF IInv, TypeOK, RegisterConnection, To, stopVars, loopVars, serviceVars
<1>1. TypeOK'
  <2>1. /\ handler' \in [Conns -> HandlerStates]
        /\ isOpen' \in [Conns -> BOOLEAN]
        /\ connections' \in [Conns -> {"absent", "reading", "active"}]
    BY DEF HandlerStates
  <2> QED
    BY <2>1
<1>2. CapacityIsExact'
  <2>1. CASE handler'[h] = "refused"
    BY <2>1, SameTracked DEF HandlerAlive
  <2>2. CASE handler'[h] = "reading"
    <3>1. h \notin Tracked /\ Tracked' = Tracked \cup {h}
      BY <2>2 DEF CapacityIsExact, Tracked
    <3>2. Cardinality(Tracked) < MaxConnections
      BY <2>2, TrackedFinite, MaxConnectionsPositive
    <3>3. Cardinality(Tracked') = Cardinality(Tracked) + 1
      BY <3>1, TrackedFinite, FS_AddElement, Zenon
    <3>4. \A g \in Conns : (g \in Tracked <=> HandlerAlive(g) /\ handler[g] # "accepted")'
      BY <2>2, <3>1 DEF CapacityIsExact, HandlerAlive
    <3> QED
      BY <3>2, <3>3, <3>4, TrackedFinite, MaxConnectionsPositive DEF CapacityIsExact
  <2> QED
    BY <2>1, <2>2
<1>3. ServeOK'
  BY DEF ServeOK, HandlerAlive, Left
<1>4. ListenerOK'
  BY DEF ListenerOK, Left, Requesters
<1>5. OpenOK'
  BY DEF OpenOK, OperatingSurvivesDraining
<1>6. AckOK'
  BY DEF AckOK
<1>7. SoleHolderOK'
  BY DEF SoleHolderOK, AckOK
<1> QED
  BY <1>1, <1>2, <1>3, <1>4, <1>5, <1>6, <1>7

\* A request, or an error, is read (daemon.go:178-186).
LEMMA ReadRequestKeeps ==
    ASSUME IInv, NEW h \in Conns, ReadRequest(h)
    PROVE  IInv'
<1> USE DEF IInv, TypeOK, ReadRequest, To, stopVars, loopVars, serviceVars
<1>1. TypeOK'
  BY DEF TypeOK, HandlerStates, ServeStates
<1>2. CapacityIsExact'
  BY SameTracked DEF HandlerAlive
<1>3. ServeOK'
  BY DEF ServeOK, HandlerAlive, Left
<1>4. ListenerOK'
  BY DEF ListenerOK, Left, Requesters
<1>5. OpenOK'
  BY DEF OpenOK, OperatingSurvivesDraining
<1>6. AckOK'
  BY DEF AckOK
<1>7. SoleHolderOK'
  BY DEF SoleHolderOK, AckOK
<1> QED
  BY <1>1, <1>2, <1>3, <1>4, <1>5, <1>6, <1>7

\* The connection becomes active (daemon.go:151-157, 187-191).
LEMMA MarkConnectionActiveKeeps ==
    ASSUME IInv, NEW h \in Conns, MarkConnectionActive(h)
    PROVE  IInv'
<1> USE DEF IInv, TypeOK, MarkConnectionActive, To, stopVars, loopVars, serviceVars
<1>1. TypeOK'
  BY DEF TypeOK, HandlerStates, ServeStates
<1>2. CapacityIsExact'
  BY SameTracked DEF HandlerAlive, CapacityIsExact, Tracked
<1>3. ServeOK'
  BY DEF ServeOK, HandlerAlive, Left
<1>4. ListenerOK'
  BY DEF ListenerOK, Left, Requesters
<1>5. OpenOK'
  BY DEF OpenOK, OperatingSurvivesDraining
<1>6. AckOK'
  BY DEF AckOK
<1>7. SoleHolderOK'
  BY DEF SoleHolderOK, AckOK
<1> QED
  BY <1>1, <1>2, <1>3, <1>4, <1>5, <1>6, <1>7

\* A handler enters requestStop, and returns from it (daemon.go:192-193).
LEMMA HandleStopKeeps ==
    ASSUME IInv, NEW h \in Conns, HandleStop(h)
    PROVE  IInv'
<1> USE DEF IInv, TypeOK, HandleStop, RequestStop, To, loopVars, serviceVars
<1>1. TypeOK'
  BY DEF TypeOK, HandlerStates, ServeStates
<1>2. CapacityIsExact'
  BY SameTracked DEF HandlerAlive
<1>3. ServeOK'
  BY DEF ServeOK, HandlerAlive, Left
<1>4. ListenerOK'
  BY DEF ListenerOK, Left, Requesters
<1>5. OpenOK'
  BY DEF OpenOK, OperatingSurvivesDraining
<1>6. AckOK'
  BY DEF AckOK, Requesters
<1>7. SoleHolderOK'
  BY DEF SoleHolderOK
<1> QED
  BY <1>1, <1>2, <1>3, <1>4, <1>5, <1>6, <1>7

\* A request other than stop notes the activity (daemon.go:200-217, 335-339).
LEMMA MarkActivityKeeps ==
    ASSUME IInv, NEW h \in Conns, MarkActivity(h)
    PROVE  IInv'
<1> USE DEF IInv, TypeOK, MarkActivity, To, stopVars, loopVars
<1>1. TypeOK'
  BY DEF TypeOK, HandlerStates, ServeStates
<1>2. CapacityIsExact'
  BY SameTracked DEF HandlerAlive
<1>3. ServeOK'
  BY DEF ServeOK, HandlerAlive, Left
<1>4. ListenerOK'
  BY DEF ListenerOK, Left, Requesters
<1>5. OpenOK'
  BY DEF OpenOK, OperatingSurvivesDraining
<1>6. AckOK'
  BY DEF AckOK
<1>7. SoleHolderOK'
  BY DEF SoleHolderOK, AckOK
<1> QED
  BY <1>1, <1>2, <1>3, <1>4, <1>5, <1>6, <1>7

\* An operation is admitted or refused (daemon.go:210-217).
LEMMA BeginOperationKeeps ==
    ASSUME IInv, NEW h \in Conns, BeginOperation(h)
    PROVE  IInv'
<1> USE DEF IInv, TypeOK, BeginOperation, To, stopVars, loopVars, serviceVars
<1>1. TypeOK'
  BY DEF TypeOK, HandlerStates, ServeStates
<1>2. CapacityIsExact'
  BY SameTracked DEF HandlerAlive
<1>3. ServeOK'
  BY DEF ServeOK, HandlerAlive, Left
<1>4. ListenerOK'
  BY DEF ListenerOK, Left, Requesters
<1>5. OpenOK'
  BY DEF OpenOK, OperatingSurvivesDraining, ServeOK, ServeStates
<1>6. AckOK'
  BY DEF AckOK
<1>7. SoleHolderOK'
  BY DEF SoleHolderOK, AckOK
<1> QED
  BY <1>1, <1>2, <1>3, <1>4, <1>5, <1>6, <1>7

\* An operation ends (daemon.go:241-277).
LEMMA EndOperationKeeps ==
    ASSUME IInv, NEW h \in Conns, EndOperation(h)
    PROVE  IInv'
<1> USE DEF IInv, TypeOK, EndOperation, To, stopVars, loopVars, serviceVars
<1>1. TypeOK'
  BY DEF TypeOK, HandlerStates, ServeStates
<1>2. CapacityIsExact'
  BY SameTracked DEF HandlerAlive
<1>3. ServeOK'
  BY DEF ServeOK, HandlerAlive, Left
<1>4. ListenerOK'
  BY DEF ListenerOK, Left, Requesters
<1>5. OpenOK'
  BY DEF OpenOK, OperatingSurvivesDraining
<1>6. AckOK'
  BY DEF AckOK
<1>7. SoleHolderOK'
  BY DEF SoleHolderOK, AckOK
<1> QED
  BY <1>1, <1>2, <1>3, <1>4, <1>5, <1>6, <1>7

\* The response is written (daemon.go:194, 217, 241-244).
LEMMA WriteResponseKeeps ==
    ASSUME IInv, NEW h \in Conns, WriteResponse(h)
    PROVE  IInv'
<1> USE DEF IInv, TypeOK, WriteResponse, To, stopVars, loopVars, serviceVars
<1>1. TypeOK'
  BY DEF TypeOK, HandlerStates, ServeStates
<1>2. CapacityIsExact'
  BY SameTracked DEF HandlerAlive
<1>3. ServeOK'
  BY DEF ServeOK, HandlerAlive, Left
<1>4. ListenerOK'
  BY DEF ListenerOK, Left, Requesters
<1>5. OpenOK'
  BY DEF OpenOK, OperatingSurvivesDraining
<1>6. AckOK'
  BY DEF AckOK
<1>7. SoleHolderOK'
  BY DEF SoleHolderOK, AckOK
<1> QED
  BY <1>1, <1>2, <1>3, <1>4, <1>5, <1>6, <1>7

\* The holders of the ack close it once (daemon.go:195-197).
LEMMA CloseAckKeeps ==
    ASSUME IInv, NEW h \in Conns, CloseAck(h)
    PROVE  IInv'
<1> USE DEF IInv, TypeOK, CloseAck, To, loopVars, serviceVars
<1>1. TypeOK'
  BY DEF TypeOK, HandlerStates, ServeStates
<1>2. CapacityIsExact'
  BY SameTracked DEF HandlerAlive
<1>3. ServeOK'
  BY DEF ServeOK, HandlerAlive, Left
<1>4. ListenerOK'
  BY DEF ListenerOK, Left, Requesters
<1>5. OpenOK'
  BY DEF OpenOK, OperatingSurvivesDraining
<1>6. AckOK'
  BY DEF AckOK
<1>7. SoleHolderOK'
  BY DEF SoleHolderOK
<1> QED
  BY <1>1, <1>2, <1>3, <1>4, <1>5, <1>6, <1>7

\* A handler closes and forgets its connection (daemon.go:159-163, 171-172).
LEMMA LeaveKeeps ==
    ASSUME IInv, NEW h \in Conns, Leave(h)
    PROVE  IInv'
<1> USE DEF IInv, TypeOK, Leave, To, stopVars, loopVars, serviceVars
<1>1. TypeOK'
  BY DEF TypeOK, HandlerStates, ServeStates
<1>2. CapacityIsExact'
  <2>1. Tracked' = Tracked \ {h}
    BY DEF Tracked
  <2>2. Cardinality(Tracked') <= Cardinality(Tracked) /\ Cardinality(Tracked') \in Nat
    BY <2>1, TrackedFinite, FS_Subset, FS_CardinalityType
  <2>3. \A g \in Conns : (g \in Tracked <=> HandlerAlive(g) /\ handler[g] # "accepted")'
    BY <2>1 DEF CapacityIsExact, HandlerAlive
  <2> QED
    BY <2>2, <2>3, TrackedFinite, MaxConnectionsPositive DEF CapacityIsExact
<1>3. ServeOK'
  BY DEF ServeOK, HandlerAlive, Left
<1>4. ListenerOK'
  BY DEF ListenerOK, Left, Requesters
<1>5. OpenOK'
  BY DEF OpenOK, OperatingSurvivesDraining
<1>6. AckOK'
  BY DEF AckOK
<1>7. SoleHolderOK'
  BY DEF SoleHolderOK
<1> QED
  BY <1>1, <1>2, <1>3, <1>4, <1>5, <1>6, <1>7

\* Accept fails because a stop closed the listener (daemon.go:108-111).
LEMMA AcceptStoppedKeeps ==
    ASSUME IInv, AcceptStopped
    PROVE  IInv'
<1> USE DEF IInv, TypeOK, AcceptStopped, Goto, connVars, stopVars, serviceVars
<1>1. TypeOK'
  BY DEF TypeOK, HandlerStates, ServeStates
<1>2. CapacityIsExact'
  BY SameTracked DEF HandlerAlive
<1>3. ServeOK'
  BY DEF ServeOK, HandlerAlive, Left
<1>4. ListenerOK'
  BY DEF ListenerOK, Left, Requesters
<1>5. OpenOK'
  BY DEF OpenOK, OperatingSurvivesDraining
<1>6. AckOK'
  BY DEF AckOK
<1>7. SoleHolderOK'
  BY DEF SoleHolderOK
<1> QED
  BY <1>1, <1>2, <1>3, <1>4, <1>5, <1>6, <1>7

\* Accept fails of itself, and Serve requests the stop (daemon.go:112-114).
LEMMA AcceptFailsKeeps ==
    ASSUME IInv, AcceptFails
    PROVE  IInv'
<1> USE DEF IInv, TypeOK, AcceptFails, Goto, RequestStop, connVars, serviceVars
<1>1. TypeOK'
  BY DEF TypeOK, HandlerStates, ServeStates
<1>2. CapacityIsExact'
  BY SameTracked DEF HandlerAlive
<1>3. ServeOK'
  BY DEF ServeOK, HandlerAlive, Left
<1>4. ListenerOK'
  BY DEF ListenerOK, Left, Requesters
<1>5. OpenOK'
  BY DEF OpenOK, OperatingSurvivesDraining
<1>6. AckOK'
  BY ConnsAreNoOtherRequester DEF AckOK, Requesters
<1>7. SoleHolderOK'
  BY DEF SoleHolderOK
<1> QED
  BY <1>1, <1>2, <1>3, <1>4, <1>5, <1>6, <1>7

\* The reading connections are collected (daemon.go:124-125, 383-391).
LEMMA CollectReadingKeeps ==
    ASSUME IInv, CollectReading
    PROVE  IInv'
<1> USE DEF IInv, TypeOK, CollectReading, Goto, connVars, stopVars
<1>1. TypeOK'
  BY DEF TypeOK, HandlerStates, ServeStates
<1>2. CapacityIsExact'
  BY SameTracked DEF HandlerAlive
<1>3. ServeOK'
  BY DEF ServeOK, HandlerAlive, Left
<1>4. ListenerOK'
  BY DEF ListenerOK, Left, Requesters
<1>5. OpenOK'
  BY DEF OpenOK, OperatingSurvivesDraining
<1>6. AckOK'
  BY DEF AckOK
<1>7. SoleHolderOK'
  BY DEF SoleHolderOK
<1> QED
  BY <1>1, <1>2, <1>3, <1>4, <1>5, <1>6, <1>7

\* The collected connections are closed (daemon.go:392-394).
LEMMA CloseReadingKeeps ==
    ASSUME IInv, CloseReading
    PROVE  IInv'
<1> USE DEF IInv, TypeOK, CloseReading, Goto, stopVars, serviceVars
<1>1. TypeOK'
  BY DEF TypeOK, HandlerStates, ServeStates
<1>2. CapacityIsExact'
  BY SameTracked DEF HandlerAlive
<1>3. ServeOK'
  BY DEF ServeOK, HandlerAlive, Left
<1>4. ListenerOK'
  BY DEF ListenerOK, Left, Requesters
<1>5. OpenOK'
  BY DEF OpenOK, OperatingSurvivesDraining
<1>6. AckOK'
  BY DEF AckOK
<1>7. SoleHolderOK'
  BY DEF SoleHolderOK
<1> QED
  BY <1>1, <1>2, <1>3, <1>4, <1>5, <1>6, <1>7

\* Serve waits for the ack, if there is one (daemon.go:374-381).
LEMMA WaitForStopAckKeeps ==
    ASSUME IInv, WaitForStopAck
    PROVE  IInv'
<1> USE DEF IInv, TypeOK, WaitForStopAck, Goto, connVars, stopVars, serviceVars
<1>1. TypeOK'
  BY DEF TypeOK, HandlerStates, ServeStates
<1>2. CapacityIsExact'
  BY SameTracked DEF HandlerAlive
<1>3. ServeOK'
  BY DEF ServeOK, HandlerAlive, Left
<1>4. ListenerOK'
  BY DEF ListenerOK, Left, Requesters
<1>5. OpenOK'
  BY DEF OpenOK, OperatingSurvivesDraining
<1>6. AckOK'
  BY DEF AckOK
<1>7. SoleHolderOK'
  BY DEF SoleHolderOK
<1> QED
  BY <1>1, <1>2, <1>3, <1>4, <1>5, <1>6, <1>7

\* The tracked connections are closed (daemon.go:397-407).
LEMMA CloseAcceptedConnectionsKeeps ==
    ASSUME IInv, CloseAcceptedConnections
    PROVE  IInv'
<1> USE DEF IInv, TypeOK, CloseAcceptedConnections, Goto, stopVars, serviceVars
<1>1. TypeOK'
  BY DEF TypeOK, HandlerStates, ServeStates
<1>2. CapacityIsExact'
  BY SameTracked DEF HandlerAlive
<1>3. ServeOK'
  BY DEF ServeOK, HandlerAlive, Left
<1>4. ListenerOK'
  BY DEF ListenerOK, Left, Requesters
<1>5. OpenOK'
  BY DEF OpenOK, OperatingSurvivesDraining
<1>6. AckOK'
  BY DEF AckOK
<1>7. SoleHolderOK'
  BY DEF SoleHolderOK, AckOK
<1> QED
  BY <1>1, <1>2, <1>3, <1>4, <1>5, <1>6, <1>7

\* The service closes its targets (daemon.go:128-130).
LEMMA ServiceCloseAllKeeps ==
    ASSUME IInv, ServiceCloseAll
    PROVE  IInv'
<1> USE DEF IInv, TypeOK, ServiceCloseAll, Goto, connVars, stopVars
<1>1. TypeOK'
  BY DEF TypeOK, HandlerStates, ServeStates
<1>2. CapacityIsExact'
  BY SameTracked DEF HandlerAlive
<1>3. ServeOK'
  BY DEF ServeOK, HandlerAlive, Left
<1>4. ListenerOK'
  BY DEF ListenerOK, Left, Requesters
<1>5. OpenOK'
  BY DEF OpenOK, OperatingSurvivesDraining
<1>6. AckOK'
  BY DEF AckOK
<1>7. SoleHolderOK'
  BY DEF SoleHolderOK
<1> QED
  BY <1>1, <1>2, <1>3, <1>4, <1>5, <1>6, <1>7

\* Serve waits for operations and handlers (daemon.go:131-132).
LEMMA WaitHandlersKeeps ==
    ASSUME IInv, WaitHandlers
    PROVE  IInv'
<1> USE DEF IInv, TypeOK, WaitHandlers, Goto, connVars, stopVars, serviceVars
<1>1. TypeOK'
  BY DEF TypeOK, HandlerStates, ServeStates
<1>2. CapacityIsExact'
  BY SameTracked DEF HandlerAlive
<1>3. ServeOK'
  BY DEF ServeOK, HandlerAlive, Left
<1>4. ListenerOK'
  BY DEF ListenerOK, Left, Requesters
<1>5. OpenOK'
  BY DEF OpenOK, OperatingSurvivesDraining
<1>6. AckOK'
  BY DEF AckOK
<1>7. SoleHolderOK'
  BY DEF SoleHolderOK
<1> QED
  BY <1>1, <1>2, <1>3, <1>4, <1>5, <1>6, <1>7

\* A target is started while the service admits, or the last one goes
\* (service.go:355-362).
LEMMA StoreChangesKeeps ==
    ASSUME IInv, StoreChanges
    PROVE  IInv'
<1>0. /\ UNCHANGED <<connVars, stopVars, loopVars, recent, admitting>>
      /\ empty' \in BOOLEAN
      /\ empty' = FALSE => admitting
  BY DEF StoreChanges, Contract!Populate, Contract!Vacate
<1> USE <1>0 DEF IInv, TypeOK, connVars, stopVars, loopVars
<1>1. TypeOK'
  BY DEF TypeOK
<1>2. CapacityIsExact'
  BY SameTracked DEF HandlerAlive
<1>3. ServeOK'
  BY DEF ServeOK, HandlerAlive, Left
<1>4. ListenerOK'
  BY DEF ListenerOK, Left, Requesters
<1>5. OpenOK'
  BY DEF OpenOK, OperatingSurvivesDraining
<1>6. AckOK'
  BY DEF AckOK
<1>7. SoleHolderOK'
  BY DEF SoleHolderOK
<1> QED
  BY <1>1, <1>2, <1>3, <1>4, <1>5, <1>6, <1>7

\* The cleanup goroutine sweeps and asks for targets (daemon.go:322-327).
LEMMA CleanupReadsEmptyKeeps ==
    ASSUME IInv, CleanupReadsEmpty
    PROVE  IInv'
<1> USE DEF IInv, TypeOK, CleanupReadsEmpty, Goto, connVars, stopVars
<1>1. TypeOK'
  BY DEF TypeOK, HandlerStates, ServeStates
<1>2. CapacityIsExact'
  BY SameTracked DEF HandlerAlive
<1>3. ServeOK'
  BY DEF ServeOK, HandlerAlive, Left, ListenerOK
<1>4. ListenerOK'
  BY DEF ListenerOK, Left, Requesters
<1>5. OpenOK'
  BY DEF OpenOK, OperatingSurvivesDraining
<1>6. AckOK'
  BY DEF AckOK
<1>7. SoleHolderOK'
  BY DEF SoleHolderOK
<1> QED
  BY <1>1, <1>2, <1>3, <1>4, <1>5, <1>6, <1>7

\* It reads the last activity (daemon.go:329-331).
LEMMA CleanupReadsActivityKeeps ==
    ASSUME IInv, CleanupReadsActivity
    PROVE  IInv'
<1> USE DEF IInv, TypeOK, CleanupReadsActivity, Goto, connVars, stopVars, serviceVars
<1>1. TypeOK'
  BY DEF TypeOK, HandlerStates, ServeStates
<1>2. CapacityIsExact'
  BY SameTracked DEF HandlerAlive
<1>3. ServeOK'
  BY DEF ServeOK, HandlerAlive, Left
<1>4. ListenerOK'
  BY DEF ListenerOK, Left, Requesters
<1>5. OpenOK'
  BY DEF OpenOK, OperatingSurvivesDraining
<1>6. AckOK'
  BY DEF AckOK
<1>7. SoleHolderOK'
  BY DEF SoleHolderOK
<1> QED
  BY <1>1, <1>2, <1>3, <1>4, <1>5, <1>6, <1>7

\* It requests the stop (daemon.go:332).
LEMMA CleanupRequestsStopKeeps ==
    ASSUME IInv, CleanupRequestsStop
    PROVE  IInv'
<1> USE DEF IInv, TypeOK, CleanupRequestsStop, Goto, RequestStop, connVars, loopVars, serviceVars
<1>1. TypeOK'
  BY DEF TypeOK, HandlerStates, ServeStates
<1>2. CapacityIsExact'
  BY SameTracked DEF HandlerAlive
<1>3. ServeOK'
  BY DEF ServeOK, HandlerAlive, Left
<1>4. ListenerOK'
  BY DEF ListenerOK, Left, Requesters
<1>5. OpenOK'
  BY DEF OpenOK, OperatingSurvivesDraining
<1>6. AckOK'
  BY ConnsAreNoOtherRequester DEF AckOK, Requesters
<1>7. SoleHolderOK'
  BY DEF SoleHolderOK
<1> QED
  BY <1>1, <1>2, <1>3, <1>4, <1>5, <1>6, <1>7

\* Time passes (daemon.go:339-343).
LEMMA TimePassesKeeps ==
    ASSUME IInv, TimePasses
    PROVE  IInv'
<1> USE DEF IInv, TypeOK, TimePasses, Goto, connVars, stopVars, loopVars
<1>1. TypeOK'
  BY DEF TypeOK, HandlerStates, ServeStates
<1>2. CapacityIsExact'
  BY SameTracked DEF HandlerAlive
<1>3. ServeOK'
  BY DEF ServeOK, HandlerAlive, Left
<1>4. ListenerOK'
  BY DEF ListenerOK, Left, Requesters
<1>5. OpenOK'
  BY DEF OpenOK, OperatingSurvivesDraining
<1>6. AckOK'
  BY DEF AckOK
<1>7. SoleHolderOK'
  BY DEF SoleHolderOK
<1> QED
  BY <1>1, <1>2, <1>3, <1>4, <1>5, <1>6, <1>7

-----------------------------------------------------------------------------
(* The theorems                                                            *)

\* A new daemon satisfies the invariant (daemon.go:53-82).
LEMMA InitIInv == Init => IInv
<1> SUFFICES ASSUME Init PROVE IInv
  OBVIOUS
<1>1. TypeOK
  BY DEF Init, TypeOK, HandlerStates, ServeStates
<1>2. CapacityIsExact
  <2>1. Tracked = {}
    BY DEF Init, Tracked
  <2> QED
    BY <2>1, FS_EmptySet, MaxConnectionsPositive
       DEF Init, CapacityIsExact, HandlerAlive
<1>3. ServeOK /\ ListenerOK
  BY DEF Init, ServeOK, ListenerOK, Left
<1>4. OpenOK
  BY DEF Init, OpenOK, OperatingSurvivesDraining
<1>5. AckOK
  BY ConnsAreNoOtherRequester DEF Init, AckOK, Requesters
<1>6. SoleHolderOK
  BY DEF Init, SoleHolderOK
<1> QED
  BY <1>1, <1>2, <1>3, <1>4, <1>5, <1>6 DEF IInv

\* Every step of handlers, Serve, the cleanup goroutine and clients keeps the
\* invariant (daemon.go:106-407).
LEMMA NextIInv == IInv /\ [Next]_vars => IInv'
<1> SUFFICES ASSUME IInv, [Next]_vars PROVE IInv'
  OBVIOUS
<1>1. ASSUME NEW h \in Conns, Dial(h) \/ Accept(h) \/ HandlerStep(h) \/ EndOperation(h)
      PROVE  IInv'
  BY <1>1, DialKeeps, AcceptKeeps, RegisterConnectionKeeps, ReadRequestKeeps,
     MarkConnectionActiveKeeps, HandleStopKeeps, MarkActivityKeeps,
     BeginOperationKeeps, EndOperationKeeps, WriteResponseKeeps, CloseAckKeeps,
     LeaveKeeps
     DEF HandlerStep
<1>2. ASSUME NEW x \in Requesters, RequestStopStep(x) PROVE IInv'
  BY <1>2, StopAdmissionKeeps, MarkStoppingKeeps, CloseListenerKeeps
     DEF RequestStopStep
<1>3. CASE ServeStep \/ AcceptFails
  BY <1>3, AcceptStoppedKeeps, AcceptFailsKeeps, CollectReadingKeeps,
     CloseReadingKeeps, WaitForStopAckKeeps, CloseAcceptedConnectionsKeeps,
     ServiceCloseAllKeeps, WaitHandlersKeeps
     DEF ServeStep
<1>4. CASE CleanupStep \/ StoreChanges \/ TimePasses
  BY <1>4, StoreChangesKeeps, CleanupReadsEmptyKeeps, CleanupReadsActivityKeeps,
     CleanupRequestsStopKeeps, TimePassesKeeps
     DEF CleanupStep
<1>5. CASE UNCHANGED vars
  <2> USE <1>5 DEF vars, connVars, stopVars, loopVars, serviceVars, IInv
  <2>1. TypeOK' /\ CapacityIsExact'
    BY DEF TypeOK, CapacityIsExact, Tracked, HandlerAlive
  <2>2. ServeOK' /\ ListenerOK' /\ OpenOK' /\ AckOK' /\ SoleHolderOK'
    BY DEF ServeOK, ListenerOK, OpenOK, OperatingSurvivesDraining, AckOK,
           SoleHolderOK, HandlerAlive, Left
  <2> QED
    BY <2>1, <2>2
<1> QED
  BY <1>1, <1>2, <1>3, <1>4, <1>5 DEF Next

\* The inductive invariant holds of every execution of the daemon (daemon.go).
THEOREM Invariance == Spec => []IInv
BY InitIInv, NextIInv, PTL DEF Spec

\* Every variable keeps its type (daemon.go:14-31).
THEOREM TypeCorrect == Spec => []TypeOK
<1>1. IInv => TypeOK
  BY DEF IInv
<1> QED
  BY <1>1, Invariance, PTL

\* The connection limit holds, and exactly the connections with a live handler
\* are counted (daemon.go:141-168).
THEOREM CapacityIsExactHolds == Spec => []CapacityIsExact
<1>1. IInv => CapacityIsExact
  BY DEF IInv
<1> QED
  BY <1>1, Invariance, PTL

\* An admitted operation keeps its connection until the stop was acknowledged
\* (daemon.go:124-128, 383-395).
THEOREM OperatingSurvivesDrainingHolds == Spec => []OperatingSurvivesDraining
<1>1. IInv => OperatingSurvivesDraining
  BY DEF IInv, OpenOK
<1> QED
  BY <1>1, Invariance, PTL

\* When Serve returns nothing is left (daemon.go:124-139).
THEOREM ServeLeavesNothingHolds == Spec => []ServeLeavesNothing
<1>1. IInv => ServeLeavesNothing
  BY DEF IInv, ServeOK, ListenerOK, Left, ServeLeavesNothing
<1> QED
  BY <1>1, Invariance, PTL

\* The one client that stops the daemon is answered (daemon.go:192-199, 374-381).
THEOREM StopIsAnsweredHolds == Spec => []StopIsAnswered
<1>1. IInv => StopIsAnswered
  BY StopConnsAreConns DEF IInv, SoleHolderOK, StopIsAnswered
<1> QED
  BY <1>1, Invariance, PTL

\* The daemon keeps to the contract of its service: what Serve, the handlers and
\* the cleanup goroutine see and do of it, in any order, is a run of the contract
\* (daemon.go:106-139, 279-332).
THEOREM KeepsToContractHolds == Spec => KeepsToContract
<1>1. Init => Contract!Init
  BY DEF Init, Contract!Init, Operating
<1>2. ASSUME IInv, [Next]_vars PROVE [Contract!Next]_Contract!vars
  <2> USE DEF IInv, TypeOK
  <2>1. ASSUME NEW h \in Conns, BeginOperation(h) PROVE [Contract!Next]_Contract!vars
    <3>1. Operating' = IF admitting THEN Operating \cup {h} ELSE Operating
      BY <1>2, <2>1 DEF BeginOperation, To, Operating
    <3> QED
      BY <2>1, <3>1 DEF BeginOperation, serviceVars, Contract!Next, Contract!Admit,
         Contract!vars
  <2>2. ASSUME NEW h \in Conns, EndOperation(h) PROVE [Contract!Next]_Contract!vars
    <3>1. Operating' = Operating \ {h}
      BY <1>2, <2>2 DEF EndOperation, To, Operating
    <3> QED
      BY <2>2, <3>1 DEF EndOperation, serviceVars, Contract!Next, Contract!Finish
  <2>3. CASE (\E x \in Requesters : StopAdmission(x)) \/ CollectReading
    BY <2>3 DEF StopAdmission, CollectReading, connVars, Operating, Contract!Next,
       Contract!Stop
  <2>4. CASE StoreChanges
    BY <2>4 DEF StoreChanges, Contract!Next
  <2>5. CASE ServiceCloseAll \/ CleanupReadsEmpty
    BY <2>5 DEF ServiceCloseAll, CleanupReadsEmpty, connVars, Operating, Contract!Next,
       Contract!Vacate, Contract!vars
  <2>6. CASE UNCHANGED <<admitting, Operating, empty>>
    BY <2>6 DEF Contract!vars
  <2>7. ASSUME NEW h \in Conns, Dial(h) \/ Accept(h) \/ RegisterConnection(h)
                 \/ ReadRequest(h) \/ MarkConnectionActive(h) \/ HandleStop(h)
                 \/ MarkActivity(h) \/ WriteResponse(h) \/ CloseAck(h) \/ Leave(h)
        PROVE  UNCHANGED <<admitting, Operating, empty>>
    BY <1>2, <2>7 DEF Dial, Accept, RegisterConnection, ReadRequest, MarkConnectionActive,
       HandleStop, MarkActivity, WriteResponse, CloseAck, Leave, To, serviceVars, Operating
  <2>8. ASSUME (\E x \in Requesters : MarkStopping(x) \/ CloseListener(x))
                 \/ AcceptStopped \/ AcceptFails \/ CloseReading \/ WaitForStopAck
                 \/ CloseAcceptedConnections \/ WaitHandlers \/ CleanupReadsActivity
                 \/ CleanupRequestsStop \/ TimePasses \/ UNCHANGED vars
        PROVE  UNCHANGED <<admitting, Operating, empty>>
    BY <2>8 DEF MarkStopping, CloseListener, AcceptStopped, AcceptFails, CloseReading,
       WaitForStopAck, CloseAcceptedConnections, WaitHandlers, CleanupReadsActivity,
       CleanupRequestsStop, TimePasses, vars, connVars, serviceVars, Operating
  <2>9. CASE \E h \in Conns : Dial(h) \/ Accept(h) \/ HandlerStep(h) \/ EndOperation(h)
    BY <2>1, <2>2, <2>6, <2>7, <2>9 DEF HandlerStep
  <2>10. CASE \E x \in Requesters : RequestStopStep(x)
    BY <2>3, <2>6, <2>8, <2>10 DEF RequestStopStep
  <2> QED
    BY <1>2, <2>3, <2>4, <2>5, <2>6, <2>8, <2>9, <2>10 DEF Next, ServeStep, CleanupStep
<1> QED
  BY <1>1, <1>2, Invariance, PTL DEF Spec, KeepsToContract, Contract!Spec

=============================================================================
