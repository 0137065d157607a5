---------------------------- MODULE RemoteServer ----------------------------
(***************************************************************************)
(* The remote server, src/internal/remote/server.go: WebSocket connections *)
(* from authentication to removal, the requests that rotate and revoke     *)
(* credentials, the services of the owners with their targets, and         *)
(* Shutdown.                                                               *)
(*                                                                         *)
(* Of the registry (Registry has the detail) the server sees each owner's  *)
(* credential generation, which stands for the password, and whether it is *)
(* revoked.  Every section under the write lock of lifecycleMu is one      *)
(* action, enabled when nobody holds a read lock.                          *)
(***************************************************************************)
EXTENDS Naturals, FiniteSets

CONSTANTS
    Owners,         \* the registered clients
    Conns,          \* bound: the requests to /v1/ws
    Managers,       \* bound: the requests to rotate or revoke
    Targets,        \* complete target paths
    MaxGeneration,  \* bound: credential generations of one owner
    MaxConnections, MaxConnectionsPerClient, MaxTargetsPerClient,
    None

ASSUME LimitsArePositive ==
    {MaxConnections, MaxConnectionsPerClient, MaxTargetsPerClient, MaxGeneration}
        \subseteq Nat \ {0}
ASSUME ConnsFinite == IsFiniteSet(Conns)

VARIABLES
    generation,     \* each owner's credential generation in the registry
    revoked,        \* is its credential revoked?
    conn,           \* where each connection's goroutine is
    principal,      \* wsConnection.principal
    done,           \* wsConnection.done is closed
    connections,    \* Server.connections
    pending,        \* Server.pendingConnections
    pendingTotal,   \* Server.pendingTotal
    connChanged,    \* Server.connChanged holds a token
    services,       \* Server.services: the incarnation of each owner's, or 0
    made,           \* service incarnations made for each owner
    createLock,     \* the holder of each owner's createLock, or None
    shells,         \* the running shells: [owner, service, target]
    manager,        \* where each management request is
    closing,        \* Server.closing
    shutdown,       \* where Shutdown is
    timedOut,       \* the wait for connections ended because of ctx
    taken           \* the services Shutdown took, as <<owner, service>>

registryVars == <<generation, revoked>>
connVars == <<conn, principal, done, connections, pending, pendingTotal, connChanged>>
serviceVars == <<services, made, createLock, shells>>
shutdownVars == <<closing, shutdown, timedOut, taken>>
vars == <<registryVars, connVars, serviceVars, manager, shutdownVars>>

Principals == [owner : Owners, generation : 1 .. MaxGeneration]
ASSUME NoneIsNil == None \notin Conns /\ None \notin Principals

Pending == {"reserved", "upgraded", "validated"}
ReadLocked == {"validated", "wantsCreate", "creating"}

RemoteTypeOK ==
    /\ generation \in [Owners -> 1 .. MaxGeneration]
    /\ revoked \in [Owners -> BOOLEAN]
    /\ conn \in [Conns -> {"new", "authenticated", "live", "sending", "gone"}
                          \cup Pending
                          \cup ReadLocked]
    /\ principal \in [Conns -> Principals \cup {None}]
    /\ done \in [Conns -> BOOLEAN]
    /\ connections \subseteq Conns
    /\ pending \in [Owners -> Nat]
    /\ pendingTotal \in Nat
    /\ connChanged \in BOOLEAN
    /\ services \in [Owners -> 0 .. Cardinality(Conns)]
    /\ made \in [Owners -> 0 .. Cardinality(Conns)]
    /\ createLock \in [Owners -> Conns \cup {None}]
    /\ shells \subseteq [owner : Owners, service : 1 .. Cardinality(Conns),
                         target : Targets]
    /\ manager \in [Managers ->
          [pc : {"new", "authenticated", "committed", "closing", "replied", "failed"},
           does : {"rotate", "revoke"}, principal : Principals \cup {None},
           service : 0 .. Cardinality(Conns)]]
    /\ closing \in BOOLEAN
    /\ shutdown \in {"no", "lock", "count", "wait", "take", "close", "ok", "timeout"}
    /\ timedOut \in BOOLEAN
    /\ taken \subseteq Owners \X (1 .. Cardinality(Conns))

Init ==
    /\ generation = [o \in Owners |-> 1]
    /\ revoked = [o \in Owners |-> FALSE]
    /\ conn = [c \in Conns |-> "new"]
    /\ principal = [c \in Conns |-> None]
    /\ done = [c \in Conns |-> FALSE]
    /\ connections = {}
    /\ pending = [o \in Owners |-> 0]
    /\ pendingTotal = 0
    /\ connChanged = FALSE
    /\ services = [o \in Owners |-> 0]
    /\ made = [o \in Owners |-> 0]
    /\ createLock = [o \in Owners |-> None]
    /\ shells = {}
    /\ manager \in [Managers -> [pc : {"new"}, does : {"rotate", "revoke"},
                                 principal : {None}, service : {0}]]
    /\ closing = FALSE
    /\ shutdown = "no"
    /\ timedOut = FALSE
    /\ taken = {}

\* The principal that the registry authenticates now.
Current(o) == [owner |-> o, generation |-> generation[o]]

Goto(c, pc) == conn' = [conn EXCEPT ![c] = pc]
OwnerOf(c) == principal[c].owner
Of(o) == {c \in connections : OwnerOf(c) = o}

\* May the write lock of lifecycleMu be taken?
LifecycleFree == \A c \in Conns : conn[c] \notin ReadLocked

-----------------------------------------------------------------------------
(* handleWebSocket                                                         *)

AuthenticateRequest(c, o) ==
    /\ conn[c] = "new"
    /\ ~revoked[o]
    /\ principal' = [principal EXCEPT ![c] = Current(o)]
    /\ Goto(c, "authenticated")
    /\ UNCHANGED <<registryVars, done, connections, pending, pendingTotal,
                   connChanged, serviceVars, manager, shutdownVars>>

\* Variant: reservations are not counted against the limit.
ReserveConnectionActiveOnly(c) ==
    /\ conn[c] = "authenticated"
    /\ IF \/ closing
          \/ Cardinality(connections) >= MaxConnections
          \/ Cardinality(Of(OwnerOf(c))) >= MaxConnectionsPerClient
         THEN Goto(c, "gone") /\ UNCHANGED <<pending, pendingTotal>>
         ELSE /\ Goto(c, "reserved")
              /\ pending' = [pending EXCEPT ![OwnerOf(c)] = @ + 1]
              /\ pendingTotal' = pendingTotal + 1
    /\ UNCHANGED <<registryVars, principal, done, connections, connChanged,
                   serviceVars, manager, shutdownVars>>

ReserveConnection(c) ==
    /\ conn[c] = "authenticated"
    /\ IF \/ closing
          \/ Cardinality(connections) + pendingTotal >= MaxConnections
          \/ Cardinality(Of(OwnerOf(c))) + pending[OwnerOf(c)]
                >= MaxConnectionsPerClient
         THEN Goto(c, "gone") /\ UNCHANGED <<pending, pendingTotal>>
         ELSE /\ Goto(c, "reserved")
              /\ pending' = [pending EXCEPT ![OwnerOf(c)] = @ + 1]
              /\ pendingTotal' = pendingTotal + 1
    /\ UNCHANGED <<registryVars, principal, done, connections, connChanged,
                   serviceVars, manager, shutdownVars>>

\* releaseConnectionReservation, which clamps at zero.
Release(o) ==
    /\ pending' = [pending EXCEPT ![o] = IF @ <= 1 THEN 0 ELSE @ - 1]
    /\ pendingTotal' = IF pendingTotal > 0 THEN pendingTotal - 1 ELSE 0

Upgrade(c) ==
    /\ conn[c] = "reserved"
    /\ \/ Goto(c, "upgraded") /\ UNCHANGED <<pending, pendingTotal>>
       \/ Goto(c, "gone") /\ Release(OwnerOf(c))
    /\ UNCHANGED <<registryVars, principal, done, connections, connChanged,
                   serviceVars, manager, shutdownVars>>

\* Variant: the credential is not looked at again.
RevalidateNot(c) ==
    /\ conn[c] = "upgraded"
    /\ Goto(c, "validated")
    /\ UNCHANGED <<registryVars, principal, done, connections, pending,
                   pendingTotal, connChanged, serviceVars, manager, shutdownVars>>

\* The read lock, and Authenticate again.
Revalidate(c) ==
    /\ conn[c] = "upgraded"
    /\ IF ~revoked[OwnerOf(c)] /\ principal[c] = Current(OwnerOf(c))
         THEN Goto(c, "validated") /\ UNCHANGED <<pending, pendingTotal>>
         ELSE Goto(c, "gone") /\ Release(OwnerOf(c))
    /\ UNCHANGED <<registryVars, principal, done, connections, connChanged,
                   serviceVars, manager, shutdownVars>>

\* activateConnection, then the read lock is released.
ActivateConnection(c) ==
    /\ conn[c] = "validated"
    /\ Release(OwnerOf(c))
    /\ IF closing
         THEN Goto(c, "gone") /\ UNCHANGED connections
         ELSE Goto(c, "live") /\ connections' = connections \cup {c}
    /\ UNCHANGED <<registryVars, principal, done, connChanged, serviceVars,
                   manager, shutdownVars>>

\* Variant: Shutdown is not told.
RemoveConnectionSilently(c) ==
    /\ conn[c] = "live"
    /\ done' = [done EXCEPT ![c] = TRUE]
    /\ connections' = connections \ {c}
    /\ Goto(c, "gone")
    /\ UNCHANGED <<registryVars, principal, pending, pendingTotal, connChanged,
                   serviceVars, manager, shutdownVars>>

\* run ends, because the client disconnects or the writer closed the
\* connection; removeConnection.
RemoveConnection(c) ==
    /\ conn[c] = "live"
    /\ done' = [done EXCEPT ![c] = TRUE]
    /\ connections' = connections \ {c}
    /\ connChanged' = TRUE
    /\ Goto(c, "gone")
    /\ UNCHANGED <<registryVars, principal, pending, pendingTotal, serviceVars,
                   manager, shutdownVars>>

-----------------------------------------------------------------------------
(* handleRequest                                                           *)

Shell(c, t) ==
    [owner |-> OwnerOf(c), service |-> services[OwnerOf(c)], target |-> t]

\* OperationCreate takes the read lock; a refused request changes nothing.
BeginCreate(c) ==
    /\ conn[c] = "live"
    /\ ~closing /\ ~done[c]
    /\ Goto(c, "wantsCreate")
    /\ UNCHANGED <<registryVars, principal, done, connections, pending,
                   pendingTotal, connChanged, serviceVars, manager, shutdownVars>>

Running(c) == {s \in shells : s.owner = OwnerOf(c) /\ s.service = services[OwnerOf(c)]}

\* Variant: the create lock is not taken.
CheckLimitUnlocked(c) ==
    /\ conn[c] = "wantsCreate"
    /\ LET o == OwnerOf(c) IN
       IF services[o] = 0 /\ ~closing
         THEN /\ made' = [made EXCEPT ![o] = @ + 1]
              /\ services' = [services EXCEPT ![o] = made'[o]]
              /\ Goto(c, "creating")
         ELSE /\ Goto(c, IF services[o] = 0 \/ Cardinality(Running(c)) >= MaxTargetsPerClient
                           THEN "live" ELSE "creating")
              /\ UNCHANGED <<services, made>>
    /\ UNCHANGED <<registryVars, principal, done, connections, pending,
                   pendingTotal, connChanged, createLock, shells, manager,
                   shutdownVars>>

\* createLock, serviceFor and the limit, for a target that does not exist.  One
\* that exists passes the limit (TargetExists) and is only looked up, which changes
\* nothing and is left out.
CheckLimit(c) ==
    /\ conn[c] = "wantsCreate"
    /\ createLock[OwnerOf(c)] = None
    /\ LET o == OwnerOf(c) IN
       /\ IF services[o] = 0 /\ ~closing
            THEN /\ made' = [made EXCEPT ![o] = @ + 1]
                 /\ services' = [services EXCEPT ![o] = made'[o]]
            ELSE UNCHANGED <<services, made>>
       /\ IF services'[o] = 0 \/ Cardinality(Running(c)) >= MaxTargetsPerClient
            THEN Goto(c, "live") /\ UNCHANGED createLock
            ELSE Goto(c, "creating") /\ createLock' = [createLock EXCEPT ![o] = c]
    /\ UNCHANGED <<registryVars, principal, done, connections, pending,
                   pendingTotal, connChanged, shells, manager, shutdownVars>>

\* service.Create starts the shell or fails; both locks are released.
Create(c, t) ==
    /\ conn[c] = "creating"
    /\ Shell(c, t) \notin shells
    /\ shells' \in {shells, shells \cup {Shell(c, t)}}
    /\ createLock' = [createLock EXCEPT ![OwnerOf(c)] =
                        IF createLock[OwnerOf(c)] = c THEN None ELSE @]
    /\ Goto(c, "live")
    /\ UNCHANGED <<registryVars, principal, done, connections, pending,
                   pendingTotal, connChanged, services, made, manager,
                   shutdownVars>>

\* OperationClose: CloseExisting takes no lock of the server.
CloseTarget(c, t) ==
    /\ conn[c] = "live"
    /\ Shell(c, t) \in shells
    /\ shells' = shells \ {Shell(c, t)}
    /\ UNCHANGED <<registryVars, connVars, services, made, createLock, manager,
                   shutdownVars>>

\* OperationSend, Text or Keys: the read loop itself writes to a shell of the
\* owner, which may not take it for as long as it likes.  A request read after
\* the signal and before the writer closes the connection is left out: it is
\* like one read just before the signal.
BeginSend(c, t) ==
    /\ conn[c] = "live" /\ ~done[c]
    /\ Shell(c, t) \in shells
    /\ Goto(c, "sending")
    /\ UNCHANGED <<registryVars, principal, done, connections, pending,
                   pendingTotal, connChanged, serviceVars, manager, shutdownVars>>

EndSend(c) ==
    /\ conn[c] = "sending"
    /\ Goto(c, "live")
    /\ UNCHANGED <<registryVars, principal, done, connections, pending,
                   pendingTotal, connChanged, serviceVars, manager, shutdownVars>>

\* A shell exits on its own and leaves its service.
ShellExits ==
    /\ \E s \in shells : shells' = shells \ {s}
    /\ UNCHANGED <<registryVars, connVars, services, made, createLock, manager,
                   shutdownVars>>

-----------------------------------------------------------------------------
(* handleRotate and handleRevoke                                           *)

ManagerGoto(m, pc) == manager' = [manager EXCEPT ![m].pc = pc]

ManagerAuthenticates(m, o) ==
    /\ manager[m].pc = "new"
    /\ ~revoked[o]
    /\ manager' = [manager EXCEPT ![m].pc = "authenticated",
                                  ![m].principal = Current(o)]
    /\ UNCHANGED <<registryVars, connVars, serviceVars, shutdownVars>>

\* registry.Rotate or Revoke authenticates again with the same password; it
\* may also fail without a change.
Commit(m) ==
    /\ manager[m].pc = "authenticated"
    /\ LET o == manager[m].principal.owner IN
       \/ /\ ~revoked[o] /\ manager[m].principal = Current(o)
          /\ IF manager[m].does = "rotate"
               THEN /\ generation[o] < MaxGeneration
                    /\ generation' = [generation EXCEPT ![o] = @ + 1]
                    /\ UNCHANGED revoked
               ELSE /\ revoked' = [revoked EXCEPT ![o] = TRUE]
                    /\ UNCHANGED generation
          /\ ManagerGoto(m, "committed")
       \/ ManagerGoto(m, "failed") /\ UNCHANGED registryVars
    /\ UNCHANGED <<connVars, serviceVars, shutdownVars>>

\* The connections that the change cuts off.
CutOff(m) ==
    {c \in Of(manager[m].principal.owner) :
        manager[m].does = "rotate" =>
            principal[c].generation < manager[m].principal.generation + 1}

\* Under the write lock: signalClose, and for a revocation removeService.
CloseOwner(m) ==
    /\ manager[m].pc = "committed"
    /\ LifecycleFree
    /\ done' = [c \in Conns |-> done[c] \/ c \in CutOff(m)]
    /\ LET o == manager[m].principal.owner IN
       IF manager[m].does = "rotate"
         THEN ManagerGoto(m, "replied") /\ UNCHANGED <<services, createLock>>
         ELSE /\ services' = [services EXCEPT ![o] = 0]
              /\ createLock' = [createLock EXCEPT ![o] = None]
              /\ manager' = [manager EXCEPT ![m].pc = "closing",
                                            ![m].service = services[o]]
    /\ UNCHANGED <<registryVars, conn, principal, connections, pending,
                   pendingTotal, connChanged, made, shells, shutdownVars>>

\* service.CloseAll outside of the lock, then the reply.
CloseRevoked(m) ==
    /\ manager[m].pc = "closing"
    /\ shells' = {s \in shells : ~(/\ s.owner = manager[m].principal.owner
                                   /\ s.service = manager[m].service)}
    /\ ManagerGoto(m, "replied")
    /\ UNCHANGED <<registryVars, connVars, services, made, createLock,
                   shutdownVars>>

-----------------------------------------------------------------------------
(* Shutdown                                                                *)

SetClosing ==
    /\ shutdown = "no"
    /\ closing' = TRUE
    /\ shutdown' = "lock"
    /\ UNCHANGED <<registryVars, connVars, serviceVars, manager, timedOut, taken>>

\* Variant: the write lock is not waited for.
SignalConnectionsUnlocked ==
    /\ shutdown = "lock"
    /\ done' = [c \in Conns |-> done[c] \/ c \in connections]
    /\ shutdown' = "count"
    /\ UNCHANGED <<registryVars, conn, principal, connections, pending,
                   pendingTotal, connChanged, serviceVars, manager, closing,
                   timedOut, taken>>

\* Under the write lock: every connection is asked to disconnect.
SignalConnections ==
    /\ shutdown = "lock"
    /\ LifecycleFree
    /\ done' = [c \in Conns |-> done[c] \/ c \in connections]
    /\ shutdown' = "count"
    /\ UNCHANGED <<registryVars, conn, principal, connections, pending,
                   pendingTotal, connChanged, serviceVars, manager, closing,
                   timedOut, taken>>

CountConnections ==
    /\ shutdown = "count"
    /\ shutdown' = IF connections = {} THEN "take" ELSE "wait"
    /\ UNCHANGED <<registryVars, connVars, serviceVars, manager, closing,
                   timedOut, taken>>

ConnectionChanged ==
    /\ shutdown = "wait"
    /\ connChanged
    /\ connChanged' = FALSE
    /\ shutdown' = "count"
    /\ UNCHANGED <<registryVars, conn, principal, done, connections, pending,
                   pendingTotal, serviceVars, manager, closing, timedOut, taken>>

\* ctx expires first; forceClose only hastens what the signal began.
WaitExpires ==
    /\ shutdown = "wait"
    /\ timedOut' = TRUE
    /\ shutdown' = "take"
    /\ UNCHANGED <<registryVars, connVars, serviceVars, manager, closing, taken>>

TakeServices ==
    /\ shutdown = "take"
    /\ taken' = {<<o, services[o]>> : o \in {o \in Owners : services[o] # 0}}
    /\ services' = [o \in Owners |-> 0]
    /\ shutdown' = "close"
    /\ UNCHANGED <<registryVars, connVars, made, createLock, shells, manager,
                   closing, timedOut>>

CloseTaken ==
    /\ shells' = {s \in shells : <<s.owner, s.service>> \notin taken}
    /\ taken' = {}
    /\ UNCHANGED <<registryVars, connVars, services, made, createLock, manager,
                   closing, timedOut>>

\* The goroutine that closes the services is done in time.
CloseServices ==
    /\ shutdown = "close"
    /\ CloseTaken
    /\ shutdown' = IF timedOut THEN "timeout" ELSE "ok"

\* It is done after Shutdown returned.
CloseServicesLate ==
    /\ shutdown = "timeout"
    /\ taken # {}
    /\ CloseTaken
    /\ UNCHANGED shutdown

CloseExpires ==
    /\ shutdown = "close"
    /\ shutdown' = "timeout"
    /\ UNCHANGED <<registryVars, connVars, serviceVars, manager, closing,
                   timedOut, taken>>

-----------------------------------------------------------------------------
ConnStep(c) ==
    \/ ReserveConnection(c) \/ Upgrade(c) \/ Revalidate(c) \/ ActivateConnection(c)
    \/ CheckLimit(c)
    \/ \E t \in Targets : Create(c, t)

ManagerStep(m) == Commit(m) \/ CloseOwner(m) \/ CloseRevoked(m)

ShutdownStep ==
    \/ SignalConnections \/ CountConnections \/ ConnectionChanged
    \/ TakeServices \/ CloseServices \/ CloseServicesLate

Next ==
    \/ \E c \in Conns :
          \/ \E o \in Owners : AuthenticateRequest(c, o)
          \/ ConnStep(c) \/ RemoveConnection(c) \/ BeginCreate(c) \/ EndSend(c)
          \/ \E t \in Targets : CloseTarget(c, t) \/ BeginSend(c, t)
    \/ \E m \in Managers :
          ManagerStep(m) \/ \E o \in Owners : ManagerAuthenticates(m, o)
    \/ ShellExits
    \/ SetClosing \/ ShutdownStep \/ WaitExpires \/ CloseExpires

Spec == Init /\ [][Next]_vars

\* Goroutines run; a connection that was told to close is closed by its writer
\* and its read loop ends, once what it was sending is taken: that the shell takes
\* it is assumed, because otherwise only ctx, which all callers let expire, ends
\* the wait of Shutdown.  RWMutex lets no reader overtake a waiting writer.  That
\* ctx expires is not assumed.
Fairness ==
    /\ \A c \in Conns :
          WF_vars(ConnStep(c)) /\ WF_vars((RemoveConnection(c) \/ EndSend(c)) /\ done[c])
    /\ \A m \in Managers : SF_vars(ManagerStep(m))
    /\ SF_vars(ShutdownStep)

FairSpec == Spec /\ Fairness

-----------------------------------------------------------------------------
(* Properties                                                              *)

\* Connections and reservations together keep to both limits, and no
\* reservation is lost or given back twice (server.go:520-583).
ConnectionsWithinLimits ==
    LET Reserved(o) == {c \in Conns : conn[c] \in Pending /\ OwnerOf(c) = o} IN
    /\ pendingTotal = Cardinality({c \in Conns : conn[c] \in Pending})
    /\ pendingTotal + Cardinality(connections) <= MaxConnections
    /\ \A o \in Owners :
          /\ pending[o] = Cardinality(Reserved(o))
          /\ pending[o] + Cardinality(Of(o)) <= MaxConnectionsPerClient

\* An owner never has more targets than its limit, though the limit is checked
\* before the target is created and on several connections (server.go:846-872).
TargetsWithinLimit ==
    \A o \in Owners :
        Cardinality({s \in shells : s.owner = o}) <= MaxTargetsPerClient

\* When a rotation has been answered, connections of the old generation are
\* told to close; when a revocation has, all of the owner's are, and it has
\* neither service nor shell, now or later, whatever connected or created
\* meanwhile (server.go:314-370; README.md:552-553).  Only shells of a service
\* that Shutdown took first may still be closing.
OldCredentialsAreCutOff ==
    \A m \in Managers : manager[m].pc = "replied" =>
        /\ \A c \in CutOff(m) : done[c]
        /\ manager[m].does = "revoke" =>
              /\ services[manager[m].principal.owner] = 0
              /\ \A s \in shells : s.owner = manager[m].principal.owner =>
                    <<s.owner, s.service>> \in taken

\* From the step in which Shutdown takes the services, timed out or not, every
\* shell is one it closes or one that a revocation is closing, so none starts
\* behind its back; and it returns without an error only when no connection is
\* left (server.go:616-678).
ShutdownLeavesNothing ==
    shutdown \in {"close", "ok", "timeout"} =>
        /\ shutdown = "ok" => connections = {}
        /\ \A s \in shells :
              \/ <<s.owner, s.service>> \in taken
              \/ \E m \in Managers :
                    /\ manager[m].pc = "closing"
                    /\ manager[m].principal.owner = s.owner
                    /\ manager[m].service = s.service

\* Shutdown returns, also if ctx never expires, provided no shell leaves a
\* request waiting for ever: no token of connChanged is missed and no lock is
\* held for ever (server.go:619-678).
ShutdownReturns ==
    shutdown # "no" ~> shutdown \in {"ok", "timeout"}

=============================================================================
