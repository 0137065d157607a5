------------------------- MODULE RemoteServerProofs -------------------------
(***************************************************************************)
(* Proofs about RemoteServer, for any sets of owners, managers and targets,*)
(* any finite set of connections and any limits.                           *)
(***************************************************************************)
EXTENDS RemoteServer, FiniteSetTheorems, TLAPS

InUse == {"live", "sending", "wantsCreate", "creating"}
Changed == {"committed", "closing", "replied"}

Reserved(o) == {c \in Conns : conn[c] \in Pending /\ OwnerOf(c) = o}
AllReserved == {c \in Conns : conn[c] \in Pending}
ShellsOf(o) == {s \in shells : s.owner = o}

\* Manager m changes the credential of owner o, or has done so.
ManagerOf(m) == manager[m].principal.owner
Revokes(m, o) == manager[m].does = "revoke" /\ ManagerOf(m) = o

\* The server's connections are those in use, and have authenticated.
ConnOK ==
    \A c \in Conns :
        /\ conn[c] # "new" => principal[c] \in Principals
        /\ c \in connections <=> conn[c] \in InUse

\* A committed change is in the registry, and an owner is revoked once.
ManagerOK ==
    /\ \A m \in Managers :
          /\ manager[m].pc # "new" => manager[m].principal \in Principals
          /\ manager[m].pc = "closing" => manager[m].does = "revoke"
          /\ manager[m].pc \in Changed =>
                IF manager[m].does = "rotate"
                  THEN generation[ManagerOf(m)] > manager[m].principal.generation
                  ELSE revoked[ManagerOf(m)]
    /\ \A m, n \in Managers :
          /\ manager[m].pc \in Changed /\ manager[n].pc \in Changed
          /\ manager[m].does = "revoke" /\ Revokes(n, ManagerOf(m))
          => m = n

\* Does the change of m cut off connection c?
Hit(m, c) ==
    /\ OwnerOf(c) = ManagerOf(m)
    /\ manager[m].does = "rotate" =>
          principal[c].generation < manager[m].principal.generation + 1

\* Once the owner's connections were signalled, those that the change cuts off
\* are told to close, and none is between its last check of the credential and
\* its activation, nor creating a target.
CutOK ==
    \A m \in Managers, c \in Conns :
        /\ manager[m].pc \in {"closing", "replied"}
        /\ conn[c] # "new" /\ Hit(m, c)
        => conn[c] \notin ReadLocked /\ (c \in connections => done[c])

\* An owner has one service in the life of the server, and has lost it only to
\* a revocation or to Shutdown.
ServiceOK ==
    /\ \A o \in Owners :
          /\ made[o] \in {0, 1}
          /\ services[o] \in {0, made[o]}
          /\ made[o] # services[o] =>
                \/ closing
                \/ \E m \in Managers :
                      manager[m].pc \in {"closing", "replied"} /\ Revokes(m, o)
    /\ \A m \in Managers :
          manager[m].does = "revoke" /\ manager[m].pc \in {"closing", "replied"} =>
             services[ManagerOf(m)] = 0

\* A shell is of its owner's service, which serves, or is taken by Shutdown, or
\* is being closed by a revocation.
ShellOK ==
    \A s \in shells :
        /\ s.service = made[s.owner]
        /\ \/ s.service = services[s.owner]
           \/ <<s.owner, s.service>> \in taken
           \/ \E m \in Managers :
                 /\ manager[m].pc = "closing" /\ ManagerOf(m) = s.owner
                 /\ manager[m].service = s.service

\* Who creates holds the owner's lock, and the owner has room for a target.
CreateOK ==
    /\ IsFiniteSet(shells)
    /\ \A c \in Conns : conn[c] = "creating" =>
          /\ createLock[OwnerOf(c)] = c
          /\ services[OwnerOf(c)] # 0
          /\ Cardinality(ShellsOf(OwnerOf(c))) < MaxTargetsPerClient

\* How far Shutdown has come.
ShutdownOK ==
    /\ shutdown # "no" => closing
    /\ shutdown \notin {"no", "lock"} =>
          \A c \in Conns : conn[c] \notin {"wantsCreate", "creating"}
    /\ shutdown \notin {"close", "timeout"} => taken = {}
    /\ shutdown \in {"close", "ok", "timeout"} => \A o \in Owners : services[o] = 0
    /\ shutdown \in {"take", "close", "ok"} /\ ~timedOut => connections = {}
    /\ shutdown = "ok" => ~timedOut

IInv ==
    /\ RemoteTypeOK
    /\ ConnOK
    /\ ManagerOK
    /\ CutOK
    /\ ServiceOK
    /\ ShellOK
    /\ CreateOK
    /\ ShutdownOK
    /\ ConnectionsWithinLimits
    /\ TargetsWithinLimit

-----------------------------------------------------------------------------
(* Counting connections and shells                                         *)

\* The reservations, of all owners and of one, are finitely many
\* (server.go:520-548).
LEMMA ReservedFinite ==
    /\ IsFiniteSet(AllReserved) /\ Cardinality(AllReserved) \in Nat
    /\ \A o : IsFiniteSet(Reserved(o)) /\ Cardinality(Reserved(o)) \in Nat
<1>1. \A S : S \in SUBSET Conns => IsFiniteSet(S) /\ Cardinality(S) \in Nat
  BY ConnsFinite, FS_Subset, FS_CardinalityType
<1>2. AllReserved \in SUBSET Conns /\ \A o : Reserved(o) \in SUBSET Conns
  BY DEF AllReserved, Reserved
<1> QED
  BY <1>1, <1>2

\* So are the connections (server.go:558-604).
LEMMA ConnectionsFinite ==
    ASSUME RemoteTypeOK
    PROVE  /\ IsFiniteSet(connections) /\ Cardinality(connections) \in Nat
           /\ \A o : IsFiniteSet(Of(o)) /\ Cardinality(Of(o)) \in Nat
<1>1. \A S : S \in SUBSET Conns => IsFiniteSet(S) /\ Cardinality(S) \in Nat
  BY ConnsFinite, FS_Subset, FS_CardinalityType
<1>2. connections \in SUBSET Conns /\ \A o : Of(o) \in SUBSET Conns
  BY DEF RemoteTypeOK, Of
<1> QED
  BY <1>1, <1>2

\* The limits, as the sets above state them (server.go:520-539).
LEMMA LimitsUnfolded ==
    ConnectionsWithinLimits <=>
        /\ pendingTotal = Cardinality(AllReserved)
        /\ pendingTotal + Cardinality(connections) <= MaxConnections
        /\ \A o \in Owners :
              /\ pending[o] = Cardinality(Reserved(o))
              /\ pending[o] + Cardinality(Of(o)) <= MaxConnectionsPerClient
BY DEF ConnectionsWithinLimits, AllReserved, Reserved

\* The limits hold on as long as the reservations stay and no connection is new
\* (server.go:520-583).
LEMMA LimitsKept ==
    ASSUME RemoteTypeOK, ConnectionsWithinLimits,
           AllReserved' = AllReserved, connections' \subseteq connections,
           \A o \in Owners : Reserved(o)' = Reserved(o) /\ Of(o)' \subseteq Of(o),
           pending' = pending, pendingTotal' = pendingTotal
    PROVE  ConnectionsWithinLimits'
<1>1. \A S, T : IsFiniteSet(T) /\ S \in SUBSET T =>
         Cardinality(S) \in Nat /\ Cardinality(S) <= Cardinality(T)
  BY FS_Subset, FS_CardinalityType
<1>2. /\ Cardinality(connections') \in Nat /\ Cardinality(connections) \in Nat
      /\ Cardinality(connections') <= Cardinality(connections)
  BY <1>1, ConnectionsFinite
<1>3. \A o \in Owners : /\ Cardinality(Of(o)') \in Nat /\ Cardinality(Of(o)) \in Nat
                        /\ Cardinality(Of(o)') <= Cardinality(Of(o))
  BY <1>1, ConnectionsFinite
<1>4. /\ pendingTotal' \in Nat /\ MaxConnections \in Nat /\ MaxConnectionsPerClient \in Nat
      /\ \A o \in Owners : pending[o] \in Nat
  BY LimitsArePositive DEF RemoteTypeOK
<1>5. /\ pendingTotal = Cardinality(AllReserved)
      /\ pendingTotal + Cardinality(connections) <= MaxConnections
      /\ \A o \in Owners :
            /\ pending[o] = Cardinality(Reserved(o))
            /\ pending[o] + Cardinality(Of(o)) <= MaxConnectionsPerClient
  BY LimitsUnfolded
<1>6. /\ pendingTotal' = Cardinality(AllReserved')
      /\ pendingTotal' + Cardinality(connections') <= MaxConnections
  BY <1>2, <1>4, <1>5
<1>7. ASSUME NEW o \in Owners
      PROVE  /\ pending'[o] = Cardinality(Reserved(o)')
             /\ pending'[o] + Cardinality(Of(o)') <= MaxConnectionsPerClient
  BY <1>3, <1>4, <1>5
<1> QED
  BY <1>6, <1>7 DEF ConnectionsWithinLimits, AllReserved, Reserved

\* Giving a reservation back, clamped or not, takes one from both counts.
LEMMA Released ==
    ASSUME RemoteTypeOK, ConnectionsWithinLimits, NEW c \in Conns, conn[c] \in Pending,
           OwnerOf(c) \in Owners, Release(OwnerOf(c)), principal' = principal,
           NEW pc, pc \notin Pending, conn' = [conn EXCEPT ![c] = pc]
    PROVE  /\ pendingTotal' = pendingTotal - 1 /\ pendingTotal' = Cardinality(AllReserved')
           /\ \A o \in Owners :
                 /\ pending'[o] = IF o = OwnerOf(c) THEN pending[o] - 1 ELSE pending[o]
                 /\ pending'[o] = Cardinality(Reserved(o)')
<1>1. /\ pendingTotal = Cardinality(AllReserved)
      /\ \A o \in Owners : pending[o] = Cardinality(Reserved(o))
  BY LimitsUnfolded
<1>2. AllReserved' = AllReserved \ {c} /\ c \in AllReserved
  BY DEF AllReserved, RemoteTypeOK
<1>3. \A o \in Owners :
         Reserved(o)' = IF o = OwnerOf(c) THEN Reserved(o) \ {c} ELSE Reserved(o)
  BY DEF Reserved, RemoteTypeOK, OwnerOf
<1>4. c \in Reserved(OwnerOf(c))
  BY DEF Reserved
<1>5. \A S : IsFiniteSet(S) /\ c \in S =>
         Cardinality(S \ {c}) = Cardinality(S) - 1 /\ Cardinality(S \ {c}) \in Nat
  BY FS_RemoveElement, FS_CardinalityType
<1>6. /\ Cardinality(AllReserved') = Cardinality(AllReserved) - 1
      /\ Cardinality(AllReserved') \in Nat /\ Cardinality(AllReserved) \in Nat
  BY <1>2, <1>5, ReservedFinite
<1>7. pendingTotal' = pendingTotal - 1 /\ pendingTotal' = Cardinality(AllReserved')
  BY <1>1, <1>6 DEF Release
<1>8. ASSUME NEW o \in Owners
      PROVE  /\ pending'[o] = IF o = OwnerOf(c) THEN pending[o] - 1 ELSE pending[o]
             /\ pending'[o] = Cardinality(Reserved(o)')
  <2>1. CASE o = OwnerOf(c)
    <3>1. /\ Cardinality(Reserved(o)') = Cardinality(Reserved(o)) - 1
          /\ Cardinality(Reserved(o)') \in Nat /\ Cardinality(Reserved(o)) \in Nat
      BY <1>3, <1>4, <1>5, <2>1, ReservedFinite
    <3>2. pending'[o] = IF pending[o] <= 1 THEN 0 ELSE pending[o] - 1
      BY <2>1 DEF Release, RemoteTypeOK
    <3> QED
      BY <1>1, <2>1, <3>1, <3>2
  <2>2. CASE o # OwnerOf(c)
    BY <1>1, <1>3, <2>2 DEF Release, RemoteTypeOK
  <2> QED
    BY <2>1, <2>2
<1> QED
  BY <1>7, <1>8

\* So the limits hold on when the connection is given up (server.go:541-556).
LEMMA ReleaseKeepsLimits ==
    ASSUME RemoteTypeOK, ConnectionsWithinLimits, NEW c \in Conns, conn[c] \in Pending,
           OwnerOf(c) \in Owners, Release(OwnerOf(c)), principal' = principal,
           conn' = [conn EXCEPT ![c] = "gone"], connections' = connections
    PROVE  ConnectionsWithinLimits'
<1> "gone" \notin Pending
  BY DEF Pending
<1>1. /\ pendingTotal' = pendingTotal - 1 /\ pendingTotal' = Cardinality(AllReserved')
      /\ \A o \in Owners :
            /\ pending'[o] = IF o = OwnerOf(c) THEN pending[o] - 1 ELSE pending[o]
            /\ pending'[o] = Cardinality(Reserved(o)')
  BY Released
<1>2. \A o \in Owners : Of(o)' = Of(o)
  BY DEF Of, OwnerOf
<1>3. /\ pendingTotal + Cardinality(connections) <= MaxConnections
      /\ \A o \in Owners : pending[o] + Cardinality(Of(o)) <= MaxConnectionsPerClient
  BY LimitsUnfolded
<1>4. /\ pendingTotal \in Nat /\ MaxConnections \in Nat /\ MaxConnectionsPerClient \in Nat
      /\ \A o \in Owners : pending[o] \in Nat
  BY LimitsArePositive DEF RemoteTypeOK
<1>5. pendingTotal' + Cardinality(connections') <= MaxConnections
  BY <1>1, <1>3, <1>4, ConnectionsFinite
<1>6. ASSUME NEW o \in Owners
      PROVE  pending'[o] + Cardinality(Of(o)') <= MaxConnectionsPerClient
  BY <1>1, <1>2, <1>3, <1>4, ConnectionsFinite
<1> QED
  BY <1>1, <1>5, <1>6 DEF ConnectionsWithinLimits, AllReserved, Reserved

\* And when it becomes active, counted once before and once after
\* (server.go:558-572).
LEMMA ActivateKeepsLimits ==
    ASSUME RemoteTypeOK, ConnectionsWithinLimits, NEW c \in Conns, conn[c] \in Pending,
           OwnerOf(c) \in Owners, Release(OwnerOf(c)), principal' = principal,
           conn' = [conn EXCEPT ![c] = "live"], connections' = connections \cup {c},
           c \notin connections
    PROVE  ConnectionsWithinLimits'
<1> "live" \notin Pending
  BY DEF Pending
<1>1. /\ pendingTotal' = pendingTotal - 1 /\ pendingTotal' = Cardinality(AllReserved')
      /\ \A o \in Owners :
            /\ pending'[o] = IF o = OwnerOf(c) THEN pending[o] - 1 ELSE pending[o]
            /\ pending'[o] = Cardinality(Reserved(o)')
  BY Released
<1>2. \A S : IsFiniteSet(S) /\ c \notin S => Cardinality(S \cup {c}) = Cardinality(S) + 1
  BY FS_AddElement
<1>3. Cardinality(connections') = Cardinality(connections) + 1
  BY <1>2, ConnectionsFinite
<1>4. \A o \in Owners :
         /\ c \notin Of(o)
         /\ Of(o)' = IF o = OwnerOf(c) THEN Of(o) \cup {c} ELSE Of(o)
  BY DEF Of, OwnerOf
<1>5. \A o \in Owners : Cardinality(Of(o)') =
         IF o = OwnerOf(c) THEN Cardinality(Of(o)) + 1 ELSE Cardinality(Of(o))
  BY <1>2, <1>4, ConnectionsFinite
<1>6. /\ pendingTotal + Cardinality(connections) <= MaxConnections
      /\ \A o \in Owners : pending[o] + Cardinality(Of(o)) <= MaxConnectionsPerClient
  BY LimitsUnfolded
<1>7. /\ pendingTotal \in Nat /\ MaxConnections \in Nat /\ MaxConnectionsPerClient \in Nat
      /\ \A o \in Owners : pending[o] \in Nat
  BY LimitsArePositive DEF RemoteTypeOK
<1>8. pendingTotal' + Cardinality(connections') <= MaxConnections
  BY <1>1, <1>3, <1>6, <1>7, ConnectionsFinite
<1>9. ASSUME NEW o \in Owners
      PROVE  pending'[o] + Cardinality(Of(o)') <= MaxConnectionsPerClient
  BY <1>1, <1>5, <1>6, <1>7, ConnectionsFinite
<1> QED
  BY <1>1, <1>8, <1>9 DEF ConnectionsWithinLimits, AllReserved, Reserved

\* And when there was room for the reservation (server.go:520-539).
LEMMA ReserveKeepsLimits ==
    ASSUME RemoteTypeOK, ConnectionsWithinLimits, NEW c \in Conns, conn[c] \notin Pending,
           OwnerOf(c) \in Owners, principal' = principal,
           conn' = [conn EXCEPT ![c] = "reserved"], connections' = connections,
           pending' = [pending EXCEPT ![OwnerOf(c)] = @ + 1],
           pendingTotal' = pendingTotal + 1,
           ~(Cardinality(connections) + pendingTotal >= MaxConnections),
           ~(Cardinality(Of(OwnerOf(c))) + pending[OwnerOf(c)] >= MaxConnectionsPerClient)
    PROVE  ConnectionsWithinLimits'
<1>1. \A S : IsFiniteSet(S) /\ c \notin S => Cardinality(S \cup {c}) = Cardinality(S) + 1
  BY FS_AddElement
<1>2. AllReserved' = AllReserved \cup {c} /\ c \notin AllReserved
  BY DEF AllReserved, RemoteTypeOK, Pending
<1>3. \A o \in Owners :
         /\ c \notin Reserved(o)
         /\ Reserved(o)' = IF o = OwnerOf(c) THEN Reserved(o) \cup {c} ELSE Reserved(o)
  BY DEF Reserved, RemoteTypeOK, OwnerOf, Pending
<1>4. Cardinality(AllReserved') = Cardinality(AllReserved) + 1
  BY <1>1, <1>2, ReservedFinite
<1>5. \A o \in Owners : Cardinality(Reserved(o)') =
         IF o = OwnerOf(c) THEN Cardinality(Reserved(o)) + 1 ELSE Cardinality(Reserved(o))
  BY <1>1, <1>3, ReservedFinite
<1>6. /\ pendingTotal = Cardinality(AllReserved)
      /\ \A o \in Owners :
            /\ pending[o] = Cardinality(Reserved(o))
            /\ pending[o] + Cardinality(Of(o)) <= MaxConnectionsPerClient
  BY LimitsUnfolded
<1>7. /\ pendingTotal \in Nat /\ MaxConnections \in Nat /\ MaxConnectionsPerClient \in Nat
      /\ pending \in [Owners -> Nat]
  BY LimitsArePositive DEF RemoteTypeOK
<1>8. /\ pendingTotal' = Cardinality(AllReserved')
      /\ pendingTotal' + Cardinality(connections') <= MaxConnections
  BY <1>4, <1>6, <1>7, ConnectionsFinite
<1>9. ASSUME NEW o \in Owners
      PROVE  /\ pending'[o] = Cardinality(Reserved(o)')
             /\ pending'[o] + Cardinality(Of(o)') <= MaxConnectionsPerClient
  <2>1. Of(o)' = Of(o)
    BY DEF Of, OwnerOf
  <2>2. pending'[o] = IF o = OwnerOf(c) THEN pending[o] + 1 ELSE pending[o]
    BY <1>7
  <2>3. Cardinality(Of(o)) \in Nat
    BY ConnectionsFinite
  <2>4. o = OwnerOf(c) => pending[o] + 1 + Cardinality(Of(o)) <= MaxConnectionsPerClient
    BY <1>7, <2>3
  <2> QED
    BY <1>5, <1>6, <1>7, <2>1, <2>2, <2>3, <2>4
<1> QED
  BY <1>8, <1>9 DEF ConnectionsWithinLimits, AllReserved, Reserved

\* With no new shell the shells of an owner do not get more (server.go:866-868).
LEMMA FewerShells ==
    ASSUME IsFiniteSet(shells), shells' \subseteq shells
    PROVE  /\ IsFiniteSet(shells')
           /\ \A o : /\ Cardinality(ShellsOf(o)) \in Nat /\ Cardinality(ShellsOf(o)') \in Nat
                     /\ Cardinality(ShellsOf(o)') <= Cardinality(ShellsOf(o))
<1>1. \A S, T : IsFiniteSet(T) /\ S \in SUBSET T =>
         /\ IsFiniteSet(S) /\ Cardinality(S) <= Cardinality(T)
         /\ Cardinality(S) \in Nat /\ Cardinality(T) \in Nat
  BY FS_Subset, FS_CardinalityType
<1>2. \A o : ShellsOf(o) \in SUBSET shells /\ ShellsOf(o)' \in SUBSET ShellsOf(o)
  BY DEF ShellsOf
<1> QED
  BY <1>1, <1>2

\* Every shell is some owner's, of a service that was made (server.go:481-496).
LEMMA ShellsTyped ==
    ASSUME RemoteTypeOK
    PROVE  \A s \in shells : s.owner \in Owners /\ s.service # 0
<1>1. Cardinality(Conns) \in Nat
  BY ConnsFinite, FS_CardinalityType
<1> QED
  BY <1>1 DEF RemoteTypeOK

\* ShellOK holds on as long as no shell starts, no service comes back, and what
\* closes a service goes on closing it (server.go:481-496).
LEMMA ShellsKept ==
    ASSUME RemoteTypeOK, ShellOK, shells' \subseteq shells, taken' = taken,
           \A s \in shells : made'[s.owner] = made[s.owner],
           \A m \in Managers : manager[m].pc = "closing" => manager'[m] = manager[m],
           \A s \in shells : s.service = services[s.owner] =>
              \/ s.service = services'[s.owner]
              \/ \E m \in Managers :
                    /\ manager'[m].pc = "closing" /\ manager'[m].principal.owner = s.owner
                    /\ manager'[m].service = s.service
    PROVE  ShellOK'
<1> SUFFICES ASSUME NEW s \in shells'
             PROVE  /\ s.service = made'[s.owner]
                    /\ \/ s.service = services'[s.owner]
                       \/ <<s.owner, s.service>> \in taken'
                       \/ \E m \in Managers :
                             /\ manager'[m].pc = "closing"
                             /\ manager'[m].principal.owner = s.owner
                             /\ manager'[m].service = s.service
  BY DEF ShellOK, ManagerOf
<1>1. s \in shells /\ s.service = made'[s.owner]
  BY DEF ShellOK
<1>2. CASE s.service = services[s.owner]
  BY <1>1, <1>2
<1>3. CASE <<s.owner, s.service>> \in taken
  BY <1>1, <1>3
<1>4. CASE \E m \in Managers :
              /\ manager[m].pc = "closing" /\ ManagerOf(m) = s.owner
              /\ manager[m].service = s.service
  BY <1>1, <1>4 DEF ManagerOf
<1> QED
  BY <1>1, <1>2, <1>3, <1>4 DEF ShellOK

\* ShellOK holds on when the new shells are of the service that serves
\* (server.go:854-872).
LEMMA ShellsAdded ==
    ASSUME ShellOK, taken' = taken, made' = made, services' = services,
           manager' = manager,
           \A s \in shells' :
              s \in shells \/ (s.service = made[s.owner] /\ s.service = services[s.owner])
    PROVE  ShellOK'
<1> SUFFICES ASSUME NEW s \in shells'
             PROVE  /\ s.service = made'[s.owner]
                    /\ \/ s.service = services'[s.owner]
                       \/ <<s.owner, s.service>> \in taken'
                       \/ \E m \in Managers :
                             /\ manager'[m].pc = "closing"
                             /\ manager'[m].principal.owner = s.owner
                             /\ manager'[m].service = s.service
  BY DEF ShellOK, ManagerOf
<1>1. CASE s \in shells
  BY <1>1 DEF ShellOK, ManagerOf
<1>2. CASE s.service = made[s.owner] /\ s.service = services[s.owner]
  BY <1>2
<1> QED
  BY <1>1, <1>2

\* Releasing a reservation leaves counts (server.go:541-556).
LEMMA ReleaseTyped ==
    ASSUME RemoteTypeOK, NEW o, Release(o)
    PROVE  pending' \in [Owners -> Nat] /\ pendingTotal' \in Nat
<1>1. \A k \in Nat : (IF k <= 1 THEN 0 ELSE k - 1) \in Nat
  OBVIOUS
<1>2. pending \in [Owners -> Nat] /\ pendingTotal \in Nat
  BY DEF RemoteTypeOK
<1>3. pending' = [q \in Owners |-> IF q = o THEN IF pending[q] <= 1 THEN 0 ELSE pending[q] - 1
                                            ELSE pending[q]]
  BY <1>2 DEF Release
<1>4. pending' \in [Owners -> Nat]
  BY <1>1, <1>2, <1>3
<1>5. pendingTotal' \in Nat
  BY <1>2 DEF Release
<1> QED
  BY <1>4, <1>5

-----------------------------------------------------------------------------
(* Each action keeps IInv.  USE expands the action; a step lists the parts of *)
(* IInv that its goal takes.                                               *)

\* A request authenticates (server.go:372-389).
LEMMA AuthenticateRequestKeeps ==
    ASSUME IInv, NEW c \in Conns, NEW o \in Owners, AuthenticateRequest(c, o)
    PROVE  IInv'
<1> USE DEF IInv, RemoteTypeOK, AuthenticateRequest, Current, Goto,
   ManagerGoto, registryVars, connVars, serviceVars, shutdownVars
<1>1. RemoteTypeOK'
  BY DEF RemoteTypeOK, Pending, ReadLocked, Principals
<1>2. ConnOK'
  BY LimitsArePositive DEF ConnOK, InUse, Pending, ReadLocked, Principals
<1>3. ManagerOK'
  BY DEF ManagerOK, Changed, Revokes, ManagerOf
<1>4. CutOK'
  BY DEF CutOK, Hit, ManagerOf, ReadLocked, OwnerOf, ConnOK, InUse
<1>5. ServiceOK'
  BY DEF ServiceOK, Revokes, ManagerOf
<1>6. ShellOK'
  BY DEF ShellOK, ManagerOf
<1>7. CreateOK'
  BY DEF CreateOK, ShellsOf, OwnerOf
<1>8. ShutdownOK'
  BY DEF ShutdownOK
<1>9. ConnectionsWithinLimits'
  BY LimitsKept DEF Of, OwnerOf, Pending, AllReserved, Reserved, ConnOK, InUse
<1>10. TargetsWithinLimit'
  BY DEF TargetsWithinLimit
<1> QED
  BY <1>1, <1>2, <1>3, <1>4, <1>5, <1>6, <1>7, <1>8, <1>9, <1>10

\* A connection is reserved within the limits (server.go:520-539).
LEMMA ReserveConnectionKeeps ==
    ASSUME IInv, NEW c \in Conns, ReserveConnection(c)
    PROVE  IInv'
<1> USE DEF IInv, RemoteTypeOK, ReserveConnection, Goto, ManagerGoto,
   registryVars, connVars, serviceVars, shutdownVars
<1>1. RemoteTypeOK'
  BY DEF RemoteTypeOK, Pending, ReadLocked, Principals
<1>2. ConnOK'
  BY DEF ConnOK, InUse, Pending, ReadLocked
<1>3. ManagerOK'
  BY DEF ManagerOK, Changed, Revokes, ManagerOf
<1>4. CutOK'
  BY DEF CutOK, Hit, ManagerOf, ReadLocked, OwnerOf
<1>5. ServiceOK'
  BY DEF ServiceOK, Revokes, ManagerOf
<1>6. ShellOK'
  BY DEF ShellOK, ManagerOf
<1>7. CreateOK'
  BY DEF CreateOK, ShellsOf, OwnerOf
<1>8. ShutdownOK'
  BY DEF ShutdownOK
<1>9. ConnectionsWithinLimits'
  <2>1. OwnerOf(c) \in Owners /\ conn[c] \notin Pending
    BY DEF ConnOK, OwnerOf, Principals, Pending
  <2>2. CASE conn'[c] = "reserved"
    BY <2>1, <2>2, ReserveKeepsLimits
  <2>3. CASE conn'[c] # "reserved"
    BY <2>3, LimitsKept DEF Of, OwnerOf, Pending, AllReserved, Reserved
  <2> QED
    BY <2>2, <2>3
<1>10. TargetsWithinLimit'
  BY DEF TargetsWithinLimit
<1> QED
  BY <1>1, <1>2, <1>3, <1>4, <1>5, <1>6, <1>7, <1>8, <1>9, <1>10

\* The connection is upgraded, or the reservation released (server.go:390-402).
LEMMA UpgradeKeeps ==
    ASSUME IInv, NEW c \in Conns, Upgrade(c)
    PROVE  IInv'
<1> USE DEF IInv, RemoteTypeOK, Upgrade, Release, Goto, ManagerGoto,
   registryVars, connVars, serviceVars, shutdownVars
<1>1. RemoteTypeOK'
  BY DEF RemoteTypeOK, Pending, ReadLocked, Principals
<1>2. ConnOK'
  BY DEF ConnOK, InUse, Pending, ReadLocked
<1>3. ManagerOK'
  BY DEF ManagerOK, Changed, Revokes, ManagerOf
<1>4. CutOK'
  BY DEF CutOK, Hit, ManagerOf, ReadLocked, OwnerOf
<1>5. ServiceOK'
  BY DEF ServiceOK, Revokes, ManagerOf
<1>6. ShellOK'
  BY DEF ShellOK, ManagerOf
<1>7. CreateOK'
  BY DEF CreateOK, ShellsOf, OwnerOf
<1>8. ShutdownOK'
  BY DEF ShutdownOK
<1>9. ConnectionsWithinLimits'
  <2>1. OwnerOf(c) \in Owners /\ conn[c] \in Pending
    BY DEF ConnOK, OwnerOf, Principals, Pending
  <2>2. CASE conn'[c] = "gone"
    BY <2>1, <2>2, ReleaseKeepsLimits
  <2>3. CASE conn'[c] # "gone"
    BY <2>3, LimitsKept DEF Of, OwnerOf, Pending, AllReserved, Reserved
  <2> QED
    BY <2>2, <2>3
<1>10. TargetsWithinLimit'
  BY DEF TargetsWithinLimit
<1> QED
  BY <1>1, <1>2, <1>3, <1>4, <1>5, <1>6, <1>7, <1>8, <1>9, <1>10

\* The credential is checked again under the read lock (server.go:404-413).
LEMMA RevalidateKeeps ==
    ASSUME IInv, NEW c \in Conns, Revalidate(c)
    PROVE  IInv'
<1> USE DEF IInv, RemoteTypeOK, Revalidate, Release, Current, Goto,
   ManagerGoto, registryVars, connVars, serviceVars, shutdownVars
<1>1. RemoteTypeOK'
  BY DEF RemoteTypeOK, Pending, ReadLocked, Principals
<1>2. ConnOK'
  BY DEF ConnOK, InUse, Pending, ReadLocked
<1>3. ManagerOK'
  BY DEF ManagerOK, Changed, Revokes, ManagerOf
<1>4. CutOK'
  BY LimitsArePositive DEF CutOK, Hit, ManagerOf, ReadLocked, OwnerOf, ConnOK, ManagerOK, InUse,
     Changed, Principals
<1>5. ServiceOK'
  BY DEF ServiceOK, Revokes, ManagerOf
<1>6. ShellOK'
  BY DEF ShellOK, ManagerOf
<1>7. CreateOK'
  BY DEF CreateOK, ShellsOf, OwnerOf
<1>8. ShutdownOK'
  BY DEF ShutdownOK
<1>9. ConnectionsWithinLimits'
  <2>1. OwnerOf(c) \in Owners /\ conn[c] \in Pending
    BY DEF ConnOK, OwnerOf, Principals, Pending
  <2>2. CASE conn'[c] = "gone"
    BY <2>1, <2>2, ReleaseKeepsLimits
  <2>3. CASE conn'[c] # "gone"
    BY <2>3, LimitsKept DEF Of, OwnerOf, Pending, AllReserved, Reserved
  <2> QED
    BY <2>2, <2>3
<1>10. TargetsWithinLimit'
  BY DEF TargetsWithinLimit
<1> QED
  BY <1>1, <1>2, <1>3, <1>4, <1>5, <1>6, <1>7, <1>8, <1>9, <1>10

\* The reservation becomes a connection (server.go:558-572).
LEMMA ActivateConnectionKeeps ==
    ASSUME IInv, NEW c \in Conns, ActivateConnection(c)
    PROVE  IInv'
<1> USE DEF IInv, RemoteTypeOK, ActivateConnection, Release, Goto, ManagerGoto,
   registryVars, connVars, serviceVars, shutdownVars
<1>1. RemoteTypeOK'
  <2>1. pending' \in [Owners -> Nat] /\ pendingTotal' \in Nat
    BY ReleaseTyped
  <2>2. conn' \in [Conns -> {"new", "authenticated", "live", "sending", "gone"}
                            \cup Pending \cup ReadLocked]
    BY DEF Pending, ReadLocked
  <2> QED
    BY <2>1, <2>2 DEF RemoteTypeOK
<1>2. ConnOK'
  BY DEF ConnOK, InUse, Pending, ReadLocked
<1>3. ManagerOK'
  BY DEF ManagerOK, Changed, Revokes, ManagerOf
<1>4. CutOK'
  BY DEF CutOK, Hit, ManagerOf, ReadLocked, OwnerOf
<1>5. ServiceOK'
  BY DEF ServiceOK, Revokes, ManagerOf
<1>6. ShellOK'
  BY DEF ShellOK, ManagerOf
<1>7. CreateOK'
  BY DEF CreateOK, ShellsOf, OwnerOf
<1>8. ShutdownOK'
  BY DEF ShutdownOK
<1>9. ConnectionsWithinLimits'
  <2>1. OwnerOf(c) \in Owners /\ conn[c] \in Pending
    BY DEF ConnOK, OwnerOf, Principals, Pending
  <2>2. CASE closing
    BY <2>1, <2>2, ReleaseKeepsLimits
  <2>3. CASE ~closing
    <3>1. c \notin connections
      BY DEF ConnOK, InUse
    <3> QED
      BY <2>1, <2>3, <3>1, ActivateKeepsLimits
  <2> QED
    BY <2>2, <2>3
<1>10. TargetsWithinLimit'
  BY DEF TargetsWithinLimit
<1> QED
  BY <1>1, <1>2, <1>3, <1>4, <1>5, <1>6, <1>7, <1>8, <1>9, <1>10

\* A connection ends (server.go:574-604).
LEMMA RemoveConnectionKeeps ==
    ASSUME IInv, NEW c \in Conns, RemoveConnection(c)
    PROVE  IInv'
<1> USE DEF IInv, RemoteTypeOK, RemoveConnection, Goto, ManagerGoto,
   registryVars, connVars, serviceVars, shutdownVars
<1>1. RemoteTypeOK'
  BY DEF RemoteTypeOK, Pending, ReadLocked, Principals
<1>2. ConnOK'
  BY DEF ConnOK, InUse, Pending, ReadLocked
<1>3. ManagerOK'
  BY DEF ManagerOK, Changed, Revokes, ManagerOf
<1>4. CutOK'
  BY DEF CutOK, Hit, ManagerOf, ReadLocked, OwnerOf
<1>5. ServiceOK'
  BY DEF ServiceOK, Revokes, ManagerOf
<1>6. ShellOK'
  BY DEF ShellOK, ManagerOf
<1>7. CreateOK'
  BY DEF CreateOK, ShellsOf, OwnerOf
<1>8. ShutdownOK'
  BY DEF ShutdownOK
<1>9. ConnectionsWithinLimits'
  BY LimitsKept DEF Of, OwnerOf, Pending, AllReserved, Reserved
<1>10. TargetsWithinLimit'
  BY DEF TargetsWithinLimit
<1> QED
  BY <1>1, <1>2, <1>3, <1>4, <1>5, <1>6, <1>7, <1>8, <1>9, <1>10

\* A request to create a target takes the read lock (server.go:845-853).
LEMMA BeginCreateKeeps ==
    ASSUME IInv, NEW c \in Conns, BeginCreate(c)
    PROVE  IInv'
<1> USE DEF IInv, RemoteTypeOK, BeginCreate, Goto, ManagerGoto, registryVars,
   connVars, serviceVars, shutdownVars
<1>1. RemoteTypeOK'
  BY DEF RemoteTypeOK, Pending, ReadLocked, Principals
<1>2. ConnOK'
  BY DEF ConnOK, InUse, Pending, ReadLocked
<1>3. ManagerOK'
  BY DEF ManagerOK, Changed, Revokes, ManagerOf
<1>4. CutOK'
  BY DEF CutOK, Hit, ManagerOf, ReadLocked, OwnerOf, ConnOK, InUse
<1>5. ServiceOK'
  BY DEF ServiceOK, Revokes, ManagerOf
<1>6. ShellOK'
  BY DEF ShellOK, ManagerOf
<1>7. CreateOK'
  BY DEF CreateOK, ShellsOf, OwnerOf
<1>8. ShutdownOK'
  BY DEF ShutdownOK
<1>9. ConnectionsWithinLimits'
  BY LimitsKept DEF Of, OwnerOf, Pending, AllReserved, Reserved
<1>10. TargetsWithinLimit'
  BY DEF TargetsWithinLimit
<1> QED
  BY <1>1, <1>2, <1>3, <1>4, <1>5, <1>6, <1>7, <1>8, <1>9, <1>10

\* It takes the create lock and checks the limit (server.go:854-868).
LEMMA CheckLimitKeeps ==
    ASSUME IInv, NEW c \in Conns, CheckLimit(c)
    PROVE  IInv'
<1> USE DEF IInv, RemoteTypeOK, CheckLimit, Goto, ManagerGoto, registryVars,
   connVars, serviceVars, shutdownVars
<1> DEFINE o == OwnerOf(c)
<1>a. o \in Owners /\ principal[c] \in Principals /\ c \in connections
  BY DEF ConnOK, InUse, OwnerOf, Principals
<1>b. \A m \in Managers : manager[m].pc \in {"closing", "replied"} => ~Revokes(m, o)
  BY DEF CutOK, Hit, Revokes, ManagerOf, ReadLocked
<1>c. services[o] = 0 /\ ~closing => made[o] = 0
  BY <1>a, <1>b DEF ServiceOK
<1>d. 1 \in 0 .. Cardinality(Conns) /\ 0 \in 0 .. Cardinality(Conns)
  <2>1. Cardinality(Conns) \in Nat /\ Cardinality(Conns) # 0
    BY ConnsFinite, FS_EmptySet, FS_CardinalityType
  <2> QED
    BY <2>1
<1>e. \/ services[o] = 0 /\ ~closing /\ made' = [made EXCEPT ![o] = 1]
         /\ services' = [services EXCEPT ![o] = 1]
      \/ made' = made /\ services' = services
  BY <1>a, <1>c
<1>f. /\ shells' = shells /\ closing' = closing /\ manager' = manager
      /\ taken' = taken /\ principal' = principal /\ connections' = connections
  OBVIOUS
<1>1. RemoteTypeOK'
  <2>1. made' \in [Owners -> 0 .. Cardinality(Conns)]
        /\ services' \in [Owners -> 0 .. Cardinality(Conns)]
    BY <1>a, <1>d, <1>e
  <2>2. createLock' \in [Owners -> Conns \cup {None}]
    OBVIOUS
  <2>3. conn' \in [Conns -> {"new", "authenticated", "live", "sending", "gone"}
                            \cup Pending \cup ReadLocked]
    BY DEF Pending, ReadLocked
  <2> QED
    BY <2>1, <2>2, <2>3 DEF RemoteTypeOK
<1>2. ConnOK'
  BY DEF ConnOK, InUse, Pending, ReadLocked
<1>3. ManagerOK'
  BY DEF ManagerOK, Changed, Revokes, ManagerOf
<1>4. CutOK'
  BY DEF CutOK, Hit, ManagerOf, ReadLocked, OwnerOf
<1>5. ServiceOK'
  <2>1. \A p \in Owners :
         /\ made'[p] \in {0, 1} /\ services'[p] \in {0, made'[p]}
         /\ made'[p] # services'[p] => made[p] # services[p]
    BY <1>a, <1>c, <1>e DEF ServiceOK
  <2>2. \A m \in Managers : manager[m].pc \in {"closing", "replied"}
                            /\ manager[m].does = "revoke" => ManagerOf(m) # o
    BY <1>b DEF Revokes
  <2>3. \A p \in Owners : p # o => services'[p] = services[p]
    BY <1>e
  <2>4. \A m \in Managers : manager[m].pc # "new" => ManagerOf(m) \in Owners
    BY DEF ManagerOK, ManagerOf, Principals
  <2> HIDE DEF o
  <2> QED
    BY <1>f, <2>1, <2>2, <2>3, <2>4 DEF ServiceOK, Revokes, ManagerOf
<1>6. ShellOK'
  <2>1. \A s \in shells : s.owner \in Owners /\ s.service # 0
    BY ShellsTyped
  <2>2. ASSUME NEW s \in shells
        PROVE  /\ made'[s.owner] = made[s.owner]
               /\ services'[s.owner] = services[s.owner]
    <3>1. s.service = made[s.owner]
      BY DEF ShellOK
    <3>2. CASE s.owner = o
      BY <1>c, <1>e, <2>1, <3>1, <3>2
    <3>3. CASE s.owner # o
      BY <1>e, <2>1, <3>3
    <3> QED
      BY <3>2, <3>3
  <2> QED
    BY <1>f, <2>2, ShellsKept
<1>7. CreateOK'
  <2>1. \A d \in Conns : conn'[d] = "creating" => d = c \/ conn[d] = "creating"
    OBVIOUS
  <2>2. ASSUME conn'[c] = "creating"
        PROVE  /\ createLock'[o] = c /\ services'[o] # 0
               /\ Cardinality(ShellsOf(o)) < MaxTargetsPerClient
    <3>1. /\ createLock' = [createLock EXCEPT ![o] = c] /\ services'[o] # 0
          /\ ~(Cardinality(Running(c)) >= MaxTargetsPerClient)
      BY <2>2
    <3>2. Running(c) = ShellsOf(o)
      <4>1. \A s \in ShellsOf(o) : s.service = made[o] /\ s.service # 0
        BY ShellsTyped DEF ShellOK, ShellsOf
      <4>2. ShellsOf(o) # {} => services[o] = made[o]
        BY <1>a, <1>c, <1>e, <3>1, <4>1 DEF ServiceOK
      <4> QED
        BY <4>1, <4>2 DEF Running, ShellsOf
    <3>3. Cardinality(ShellsOf(o)) \in Nat
      BY FewerShells DEF CreateOK
    <3> QED
      BY <1>a, <3>1, <3>2, <3>3, LimitsArePositive
  <2>3. ASSUME NEW d \in Conns, d # c, conn[d] = "creating"
        PROVE  /\ createLock'[OwnerOf(d)] = d /\ services'[OwnerOf(d)] # 0
               /\ Cardinality(ShellsOf(OwnerOf(d))) < MaxTargetsPerClient
    <3>1. createLock[OwnerOf(d)] = d /\ services[OwnerOf(d)] # 0 /\ OwnerOf(d) # o
          /\ Cardinality(ShellsOf(OwnerOf(d))) < MaxTargetsPerClient
      BY <2>3, NoneIsNil DEF CreateOK
    <3>2. OwnerOf(d) \in Owners
      BY <2>3 DEF ConnOK, OwnerOf, Principals
    <3> QED
      BY <1>e, <3>1, <3>2
  <2>4. ASSUME NEW d \in Conns, conn'[d] = "creating"
        PROVE  /\ createLock'[OwnerOf(d)] = d /\ services'[OwnerOf(d)] # 0
               /\ Cardinality(ShellsOf(OwnerOf(d))) < MaxTargetsPerClient
    BY <2>1, <2>2, <2>3, <2>4
  <2>5. \A p : ShellsOf(p)' = ShellsOf(p)
    BY <1>f DEF ShellsOf
  <2>6. \A d : OwnerOf(d)' = OwnerOf(d)
    BY <1>f DEF OwnerOf
  <2>7. IsFiniteSet(shells')
    BY <1>f DEF CreateOK
  <2> HIDE DEF o
  <2> QED
    BY <2>4, <2>5, <2>6, <2>7 DEF CreateOK
<1>8. ShutdownOK'
  BY DEF ShutdownOK
<1>9. ConnectionsWithinLimits'
  BY LimitsKept DEF Of, OwnerOf, Pending, AllReserved, Reserved
<1>10. TargetsWithinLimit'
  BY DEF TargetsWithinLimit
<1> QED
  BY <1>1, <1>2, <1>3, <1>4, <1>5, <1>6, <1>7, <1>8, <1>9, <1>10

\* It starts the shell or fails (server.go:869-872).
LEMMA CreateKeeps ==
    ASSUME IInv, NEW c \in Conns, NEW t \in Targets, Create(c, t)
    PROVE  IInv'
<1> USE DEF IInv, RemoteTypeOK, Create, Goto, ManagerGoto, registryVars,
   connVars, serviceVars, shutdownVars
<1> DEFINE o == OwnerOf(c)
           s == Shell(c, t)
<1>a. o \in Owners /\ services[o] \in 1 .. Cardinality(Conns) /\ made[o] = services[o]
  BY ConnsFinite, FS_CardinalityType DEF ConnOK, CreateOK, ServiceOK, OwnerOf, Principals
<1>b. /\ s \in [owner : Owners, service : 1 .. Cardinality(Conns), target : Targets]
      /\ s.owner = o /\ s.service = services[o]
  BY <1>a DEF Shell
<1>c. shells' = shells \/ (shells' = shells \cup {s} /\ s \notin shells)
  OBVIOUS
<1>d. \A d \in Conns : conn'[d] = "creating" => d # c /\ conn[d] = "creating" /\ OwnerOf(d) # o
  BY DEF CreateOK
<1>e. /\ services' = services /\ made' = made /\ taken' = taken /\ manager' = manager
      /\ principal' = principal
  OBVIOUS
<1>f. o' = o
  BY <1>e DEF OwnerOf
<1>1. RemoteTypeOK'
  <2>1. shells' \subseteq [owner : Owners, service : 1 .. Cardinality(Conns), target : Targets]
    BY <1>b, <1>c
  <2>2. createLock' \in [Owners -> Conns \cup {None}]
    OBVIOUS
  <2>3. conn' \in [Conns -> {"new", "authenticated", "live", "sending", "gone"}
                            \cup Pending \cup ReadLocked]
    OBVIOUS
  <2> QED
    BY <2>1, <2>2, <2>3 DEF RemoteTypeOK
<1>2. ConnOK'
  BY DEF ConnOK, InUse, Pending, ReadLocked
<1>3. ManagerOK'
  BY DEF ManagerOK, Changed, Revokes, ManagerOf
<1>4. CutOK'
  BY DEF CutOK, Hit, ManagerOf, ReadLocked, OwnerOf
<1>5. ServiceOK'
  BY DEF ServiceOK, Revokes, ManagerOf
<1>6. ShellOK'
  <2>1. \A x \in shells' :
         x \in shells \/ (x.service = made[x.owner] /\ x.service = services[x.owner])
    BY <1>a, <1>b, <1>c
  <2> HIDE DEF s, o
  <2> QED
    BY <1>e, <2>1, ShellsAdded
<1>7. CreateOK'
  <2>1. IsFiniteSet(shells')
    BY <1>c, FS_AddElement DEF CreateOK
  <2>2. \A p : p # o => ShellsOf(p)' = ShellsOf(p)
    BY <1>b, <1>c DEF ShellsOf
  <2>3. \A d \in Conns : d # c => createLock'[OwnerOf(d)] = createLock[OwnerOf(d)]
                                 \/ OwnerOf(d) = o
    OBVIOUS
  <2> HIDE DEF o
  <2> QED
    BY <1>d, <1>e, <2>1, <2>2, <2>3 DEF CreateOK, OwnerOf
<1>8. ShutdownOK'
  BY DEF ShutdownOK
<1>9. ConnectionsWithinLimits'
  BY LimitsKept DEF Of, OwnerOf, Pending, AllReserved, Reserved
<1>10. TargetsWithinLimit'
  <2>1. IsFiniteSet(ShellsOf(o)) /\ Cardinality(ShellsOf(o)) \in Nat
    <3>1. ShellsOf(o) \in SUBSET shells
      BY DEF ShellsOf
    <3> QED
      BY <3>1, FS_Subset, FS_CardinalityType DEF CreateOK
  <2>2. Cardinality(ShellsOf(o)) < MaxTargetsPerClient
    BY DEF CreateOK
  <2>3. \A p \in Owners : p # o => ShellsOf(p)' = ShellsOf(p)
    BY <1>b, <1>c DEF ShellsOf
  <2>4. \A p \in Owners : Cardinality(ShellsOf(p)) <= MaxTargetsPerClient
    BY DEF TargetsWithinLimit, ShellsOf
  <2>5. CASE shells' = shells
    BY <2>4, <2>5 DEF TargetsWithinLimit, ShellsOf
  <2>6. CASE shells' = shells \cup {s} /\ s \notin shells
    <3>1. ShellsOf(o)' = ShellsOf(o) \cup {s} /\ s \notin ShellsOf(o)
      <4>1. \A x : x \in ShellsOf(o)' <=> x \in shells' /\ x.owner = o
        BY <1>f DEF ShellsOf
      <4>2. \A x : x \in ShellsOf(o) <=> x \in shells /\ x.owner = o
        BY DEF ShellsOf
      <4>3. s.owner = o
        BY <1>b
      <4> HIDE DEF s, o
      <4> QED
        BY <2>6, <4>1, <4>2, <4>3
    <3>2. Cardinality(ShellsOf(o)') = Cardinality(ShellsOf(o)) + 1
      BY <2>1, <3>1, FS_AddElement
    <3>3. Cardinality(ShellsOf(o)') <= MaxTargetsPerClient
      BY <2>1, <2>2, <3>2, LimitsArePositive
    <3>4. ASSUME NEW p \in Owners
          PROVE  Cardinality(ShellsOf(p)') <= MaxTargetsPerClient
      <4>1. CASE p = o
        <5>1. ShellsOf(p)' = ShellsOf(o)'
          BY <1>f, <4>1 DEF ShellsOf
        <5> QED
          BY <3>3, <5>1
      <4>2. CASE p # o
        BY <2>3, <2>4, <4>2
      <4> QED
        BY <4>1, <4>2
    <3> QED
      BY <3>4 DEF TargetsWithinLimit, ShellsOf
  <2> QED
    BY <1>c, <2>5, <2>6
<1> QED
  BY <1>1, <1>2, <1>3, <1>4, <1>5, <1>6, <1>7, <1>8, <1>9, <1>10

\* A request closes a target (server.go:873-899).
LEMMA CloseTargetKeeps ==
    ASSUME IInv, NEW c \in Conns, NEW t \in Targets, CloseTarget(c, t)
    PROVE  IInv'
<1> USE DEF IInv, RemoteTypeOK, CloseTarget, Shell, Goto, ManagerGoto,
   registryVars, connVars, serviceVars, shutdownVars
<1>1. RemoteTypeOK'
  BY DEF RemoteTypeOK, Pending, ReadLocked, Principals
<1>2. ConnOK'
  BY DEF ConnOK, InUse, Pending, ReadLocked
<1>3. ManagerOK'
  BY DEF ManagerOK, Changed, Revokes, ManagerOf
<1>4. CutOK'
  BY DEF CutOK, Hit, ManagerOf, ReadLocked, OwnerOf
<1>5. ServiceOK'
  BY DEF ServiceOK, Revokes, ManagerOf
<1>6. ShellOK'
  BY DEF ShellOK, ManagerOf
<1>7. CreateOK'
  <2> shells' \subseteq shells
    OBVIOUS
  <2> QED
    BY FewerShells, LimitsArePositive DEF CreateOK, OwnerOf
<1>8. ShutdownOK'
  BY DEF ShutdownOK
<1>9. ConnectionsWithinLimits'
  BY LimitsKept DEF Of, OwnerOf, Pending, AllReserved, Reserved
<1>10. TargetsWithinLimit'
  <2>1. shells' \subseteq shells /\ IsFiniteSet(shells)
    BY DEF CreateOK
  <2>2. \A o \in Owners : Cardinality(ShellsOf(o)) <= MaxTargetsPerClient
    BY DEF TargetsWithinLimit, ShellsOf
  <2>3. \A o \in Owners : Cardinality(ShellsOf(o)') <= MaxTargetsPerClient
    BY <2>1, <2>2, FewerShells, LimitsArePositive
  <2> QED
    BY <2>3 DEF TargetsWithinLimit, ShellsOf
<1> QED
  BY <1>1, <1>2, <1>3, <1>4, <1>5, <1>6, <1>7, <1>8, <1>9, <1>10

\* A request writes to a shell (server.go:880-885).
LEMMA BeginSendKeeps ==
    ASSUME IInv, NEW c \in Conns, NEW t \in Targets, BeginSend(c, t)
    PROVE  IInv'
<1> USE DEF IInv, RemoteTypeOK, BeginSend, Goto, ManagerGoto, registryVars,
   connVars, serviceVars, shutdownVars
<1>1. RemoteTypeOK'
  BY DEF RemoteTypeOK, Pending, ReadLocked, Principals
<1>2. ConnOK'
  BY DEF ConnOK, InUse, Pending, ReadLocked
<1>3. ManagerOK'
  BY DEF ManagerOK, Changed, Revokes, ManagerOf
<1>4. CutOK'
  BY DEF CutOK, Hit, ManagerOf, ReadLocked, OwnerOf
<1>5. ServiceOK'
  BY DEF ServiceOK, Revokes, ManagerOf
<1>6. ShellOK'
  BY DEF ShellOK, ManagerOf
<1>7. CreateOK'
  BY DEF CreateOK, ShellsOf, OwnerOf
<1>8. ShutdownOK'
  BY DEF ShutdownOK
<1>9. ConnectionsWithinLimits'
  BY LimitsKept DEF Of, OwnerOf, Pending, AllReserved, Reserved
<1>10. TargetsWithinLimit'
  BY DEF TargetsWithinLimit
<1> QED
  BY <1>1, <1>2, <1>3, <1>4, <1>5, <1>6, <1>7, <1>8, <1>9, <1>10

\* The shell takes it (server.go:885-886).
LEMMA EndSendKeeps ==
    ASSUME IInv, NEW c \in Conns, EndSend(c)
    PROVE  IInv'
<1> USE DEF IInv, RemoteTypeOK, EndSend, Goto, ManagerGoto, registryVars,
   connVars, serviceVars, shutdownVars
<1>1. RemoteTypeOK'
  BY DEF RemoteTypeOK, Pending, ReadLocked, Principals
<1>2. ConnOK'
  BY DEF ConnOK, InUse, Pending, ReadLocked
<1>3. ManagerOK'
  BY DEF ManagerOK, Changed, Revokes, ManagerOf
<1>4. CutOK'
  BY DEF CutOK, Hit, ManagerOf, ReadLocked, OwnerOf
<1>5. ServiceOK'
  BY DEF ServiceOK, Revokes, ManagerOf
<1>6. ShellOK'
  BY DEF ShellOK, ManagerOf
<1>7. CreateOK'
  BY DEF CreateOK, ShellsOf, OwnerOf
<1>8. ShutdownOK'
  BY DEF ShutdownOK
<1>9. ConnectionsWithinLimits'
  BY LimitsKept DEF Of, OwnerOf, Pending, AllReserved, Reserved
<1>10. TargetsWithinLimit'
  BY DEF TargetsWithinLimit
<1> QED
  BY <1>1, <1>2, <1>3, <1>4, <1>5, <1>6, <1>7, <1>8, <1>9, <1>10

\* A shell exits (store.go:294-306).
LEMMA ShellExitsKeeps ==
    ASSUME IInv, ShellExits
    PROVE  IInv'
<1> USE DEF IInv, RemoteTypeOK, ShellExits, Goto, ManagerGoto, registryVars,
   connVars, serviceVars, shutdownVars
<1>1. RemoteTypeOK'
  BY DEF RemoteTypeOK, Pending, ReadLocked, Principals
<1>2. ConnOK'
  BY DEF ConnOK, InUse, Pending, ReadLocked
<1>3. ManagerOK'
  BY DEF ManagerOK, Changed, Revokes, ManagerOf
<1>4. CutOK'
  BY DEF CutOK, Hit, ManagerOf, ReadLocked, OwnerOf
<1>5. ServiceOK'
  BY DEF ServiceOK, Revokes, ManagerOf
<1>6. ShellOK'
  BY DEF ShellOK, ManagerOf
<1>7. CreateOK'
  <2> shells' \subseteq shells
    OBVIOUS
  <2> QED
    BY FewerShells, LimitsArePositive DEF CreateOK, OwnerOf
<1>8. ShutdownOK'
  BY DEF ShutdownOK
<1>9. ConnectionsWithinLimits'
  BY LimitsKept DEF Of, OwnerOf, Pending, AllReserved, Reserved
<1>10. TargetsWithinLimit'
  <2>1. shells' \subseteq shells /\ IsFiniteSet(shells)
    BY DEF CreateOK
  <2>2. \A o \in Owners : Cardinality(ShellsOf(o)) <= MaxTargetsPerClient
    BY DEF TargetsWithinLimit, ShellsOf
  <2>3. \A o \in Owners : Cardinality(ShellsOf(o)') <= MaxTargetsPerClient
    BY <2>1, <2>2, FewerShells, LimitsArePositive
  <2> QED
    BY <2>3 DEF TargetsWithinLimit, ShellsOf
<1> QED
  BY <1>1, <1>2, <1>3, <1>4, <1>5, <1>6, <1>7, <1>8, <1>9, <1>10

\* A request to change the credential authenticates (server.go:427-450).
LEMMA ManagerAuthenticatesKeeps ==
    ASSUME IInv, NEW m \in Managers, NEW o \in Owners, ManagerAuthenticates(m, o)
    PROVE  IInv'
<1> USE DEF IInv, RemoteTypeOK, ManagerAuthenticates, Current, Goto,
   ManagerGoto, registryVars, connVars, serviceVars, shutdownVars
<1>a. /\ manager'[m].pc = "authenticated" /\ manager'[m].does = manager[m].does
      /\ manager'[m].principal \in Principals
      /\ \A n \in Managers : n # m => manager'[n] = manager[n]
  BY LimitsArePositive DEF Principals
<1>b. \A n \in Managers : manager'[n].pc \in Changed =>
         n # m /\ manager[n].pc \in Changed /\ manager'[n] = manager[n]
  BY <1>a DEF Changed
<1>1. RemoteTypeOK'
  <2> DEFINE R == [pc : {"new", "authenticated", "committed", "closing", "replied", "failed"},
                   does : {"rotate", "revoke"}, principal : Principals \cup {None},
                   service : 0 .. Cardinality(Conns)]
  <2>1. manager' \in [Managers -> R]
    <3>1. manager \in [Managers -> R]
      OBVIOUS
    <3>2. manager' = [n \in Managers |-> IF n = m THEN manager'[m] ELSE manager[n]]
      BY <3>1
    <3>3. manager'[m] = [manager[m] EXCEPT !.pc = "authenticated", !.principal = Current(o)]
      BY <3>1
    <3>4. Current(o) \in Principals
      BY DEF Principals
    <3>5. manager[m] \in R
      BY ONLY <3>1, m \in Managers
    <3>6. manager'[m] \in R
      BY ONLY <3>3, <3>4, <3>5
    <3> QED
      BY ONLY <3>1, <3>2, <3>6
  <2>2. UNCHANGED <<generation, revoked, conn, principal, done, connections, pending,
                    pendingTotal, connChanged, services, made, createLock, shells,
                    closing, shutdown, timedOut, taken>>
    OBVIOUS
  <2> QED
    BY <2>1, <2>2
<1>2. ConnOK'
  BY DEF ConnOK, InUse, Pending, ReadLocked
<1>3. ManagerOK'
  <2>1. \A n \in Managers : n # m => manager'[n] = manager[n]
    BY <1>a
  <2> QED
    BY <1>a, <1>b, <2>1 DEF ManagerOK, Changed, Revokes, ManagerOf
<1>4. CutOK'
  BY DEF CutOK, Hit, ManagerOf, ReadLocked, OwnerOf
<1>5. ServiceOK'
  BY DEF ServiceOK, Revokes, ManagerOf
<1>6. ShellOK'
  BY DEF ShellOK, ManagerOf
<1>7. CreateOK'
  BY DEF CreateOK, ShellsOf, OwnerOf
<1>8. ShutdownOK'
  BY DEF ShutdownOK
<1>9. ConnectionsWithinLimits'
  BY LimitsKept DEF Of, OwnerOf, Pending, AllReserved, Reserved
<1>10. TargetsWithinLimit'
  BY DEF TargetsWithinLimit
<1> QED
  BY <1>1, <1>2, <1>3, <1>4, <1>5, <1>6, <1>7, <1>8, <1>9, <1>10

\* The registry commits the change (server.go:314-333).
LEMMA CommitKeeps ==
    ASSUME IInv, NEW m \in Managers, Commit(m)
    PROVE  IInv'
<1> USE DEF IInv, RemoteTypeOK, Commit, Current, Goto, ManagerGoto,
   registryVars, connVars, serviceVars, shutdownVars
<1> DEFINE o == ManagerOf(m)
<1>a. /\ manager'[m].pc \in {"committed", "failed"} /\ manager'[m].does = manager[m].does
      /\ manager'[m].principal = manager[m].principal
      /\ manager'[m].service = manager[m].service
      /\ manager[m].principal \in Principals
      /\ \A n \in Managers : n # m => manager'[n] = manager[n]
  BY DEF ManagerOK
<1>b. o \in Owners /\ manager[m].principal.generation \in Nat /\ generation[o] \in Nat
  BY <1>a, LimitsArePositive DEF Principals, ManagerOf
<1>c. \/ /\ manager'[m].pc = "failed" /\ generation' = generation /\ revoked' = revoked
      \/ /\ manager'[m].pc = "committed" /\ ~revoked[o]
         /\ manager[m].principal.generation = generation[o]
         /\ \/ /\ manager[m].does = "rotate" /\ revoked' = revoked
               /\ generation[o] < MaxGeneration
               /\ generation' = [generation EXCEPT ![o] = @ + 1]
            \/ /\ manager[m].does = "revoke" /\ generation' = generation
               /\ revoked' = [revoked EXCEPT ![o] = TRUE]
  BY DEF ManagerOf, ManagerOK
<1>d. \A n \in Managers : manager'[n].pc \in {"closing", "replied"} <=>
                          n # m /\ manager[n].pc \in {"closing", "replied"}
  BY <1>a
<1>e. \A n \in Managers : manager'[n].pc = "closing" <=> n # m /\ manager[n].pc = "closing"
  BY <1>a
<1> HIDE DEF o
<1>1. RemoteTypeOK'
  <2>1. generation' \in [Owners -> 1 .. MaxGeneration]
    <3>1. generation[o] < MaxGeneration => generation[o] + 1 \in 1 .. MaxGeneration
      BY <1>b, LimitsArePositive
    <3>2. CASE generation' = generation
      BY <3>2
    <3>3. CASE /\ generation[o] < MaxGeneration
               /\ generation' = [generation EXCEPT ![o] = generation[o] + 1]
      BY <3>1, <3>3
    <3> QED
      BY <1>c, <3>2, <3>3
  <2>3. revoked' \in [Owners -> BOOLEAN]
    <3>1. CASE revoked' = revoked
      BY <3>1
    <3>2. CASE revoked' = [revoked EXCEPT ![o] = TRUE]
      BY <3>2
    <3> QED
      BY <1>c, <3>1, <3>2
  <2>2. manager' \in [Managers ->
          [pc : {"new", "authenticated", "committed", "closing", "replied", "failed"},
           does : {"rotate", "revoke"}, principal : Principals \cup {None},
           service : 0 .. Cardinality(Conns)]]
    OBVIOUS
  <2> QED
    BY <2>1, <2>2, <2>3 DEF RemoteTypeOK
<1>2. ConnOK'
  BY DEF ConnOK, InUse, Pending, ReadLocked
<1>3. ManagerOK'
  <2>1. \A p \in Owners : /\ generation'[p] >= generation[p] /\ generation[p] \in Nat
                            /\ generation'[p] \in Nat
                            /\ revoked[p] => revoked'[p]
    BY <1>b, <1>c, LimitsArePositive
  <2>2. ASSUME NEW n \in Managers
        PROVE  /\ manager'[n].pc # "new" => manager'[n].principal \in Principals
               /\ manager'[n].pc = "closing" => manager'[n].does = "revoke"
               /\ manager'[n].pc \in Changed =>
                     IF manager'[n].does = "rotate"
                       THEN generation'[ManagerOf(n)'] > manager'[n].principal.generation
                       ELSE revoked'[ManagerOf(n)']
    <3>1. CASE n = m
      BY <1>a, <1>b, <1>c, <3>1 DEF Changed, ManagerOf, o
    <3>2. CASE n # m /\ manager[n].pc \in Changed
      <4>1. ManagerOf(n) \in Owners /\ manager[n].principal.generation \in Nat
        BY <3>2, LimitsArePositive DEF ManagerOK, Changed, ManagerOf, Principals
      <4> QED
        BY <1>a, <2>1, <3>2, <4>1 DEF ManagerOK, Changed, ManagerOf
    <3>3. CASE n # m /\ manager[n].pc \notin Changed
      BY <1>a, <3>3 DEF ManagerOK, Changed, ManagerOf
    <3> QED
      BY <3>1, <3>2, <3>3
  <2>3. ASSUME NEW n \in Managers, n # m, manager[n].pc \in Changed,
               manager'[m].pc = "committed", manager[m].does = "revoke",
               Revokes(n, o)
        PROVE  FALSE
    <3>1. revoked[o]
      BY <2>3 DEF ManagerOK, Revokes
    <3> QED
      BY <1>c, <2>3, <3>1
  <2>4. ASSUME NEW n \in Managers, NEW k \in Managers,
               manager'[n].pc \in Changed, manager'[k].pc \in Changed,
               manager'[n].does = "revoke", manager'[k].does = "revoke",
               manager'[k].principal.owner = manager'[n].principal.owner
        PROVE  n = k
    <3>1. CASE n = m
      BY <1>a, <2>3, <2>4, <3>1 DEF Changed, Revokes, ManagerOf, o
    <3>2. CASE k = m
      BY <1>a, <2>3, <2>4, <3>2 DEF Changed, Revokes, ManagerOf, o
    <3>3. CASE n # m /\ k # m
      BY <1>a, <2>4, <3>3 DEF ManagerOK, Revokes, ManagerOf
    <3> QED
      BY <3>1, <3>2, <3>3
  <2> QED
    BY <2>2, <2>4 DEF ManagerOK, Revokes, ManagerOf
<1>4. CutOK'
  BY DEF CutOK, Hit, ManagerOf, ReadLocked, OwnerOf
<1>5. ServiceOK'
  <2>1. \A n \in Managers : manager[n].pc \in {"closing", "replied"} =>
                             n # m /\ manager'[n] = manager[n]
    BY <1>a
  <2>2. services' = services /\ made' = made /\ closing' = closing
    OBVIOUS
  <2> QED
    BY <1>a, <1>d, <2>1, <2>2 DEF ServiceOK, Revokes, ManagerOf
<1>6. ShellOK'
  <2>1. \A n \in Managers : manager[n].pc = "closing" => manager'[n] = manager[n]
    BY <1>a
  <2> QED
    BY <2>1, ShellsKept
<1>7. CreateOK'
  BY DEF CreateOK, ShellsOf, OwnerOf
<1>8. ShutdownOK'
  BY DEF ShutdownOK
<1>9. ConnectionsWithinLimits'
  BY LimitsKept DEF Of, OwnerOf, Pending, AllReserved, Reserved
<1>10. TargetsWithinLimit'
  BY DEF TargetsWithinLimit
<1> QED
  BY <1>1, <1>2, <1>3, <1>4, <1>5, <1>6, <1>7, <1>8, <1>9, <1>10

\* The owner's connections are signalled under the write lock
\* (server.go:334-365).
LEMMA CloseOwnerKeeps ==
    ASSUME IInv, NEW m \in Managers, CloseOwner(m)
    PROVE  IInv'
<1> USE DEF IInv, RemoteTypeOK, CloseOwner, CutOff, LifecycleFree, Goto,
   ManagerGoto, registryVars, connVars, serviceVars, shutdownVars
<1> DEFINE o == ManagerOf(m)
<1>a. /\ manager'[m].pc = (IF manager[m].does = "rotate" THEN "replied" ELSE "closing")
      /\ manager'[m].does = manager[m].does
      /\ manager'[m].principal = manager[m].principal
      /\ manager[m].principal \in Principals /\ o \in Owners
      /\ \A n \in Managers : n # m => manager'[n] = manager[n]
  BY DEF ManagerOK, ManagerOf, Principals
<1>b. manager[m].does \in {"rotate", "revoke"}
  OBVIOUS
<1>c. \/ manager[m].does = "rotate" /\ services' = services /\ createLock' = createLock
      \/ /\ manager[m].does = "revoke" /\ manager'[m].service = services[o]
         /\ services' = [services EXCEPT ![o] = 0]
         /\ createLock' = [createLock EXCEPT ![o] = None]
  BY DEF ManagerOf
<1>d. \A c \in Conns : conn[c] \notin ReadLocked
  OBVIOUS
<1>e. /\ shells' = shells /\ closing' = closing /\ made' = made /\ taken' = taken
      /\ principal' = principal /\ connections' = connections /\ conn' = conn
      /\ generation' = generation /\ revoked' = revoked /\ manager[m].pc = "committed"
  OBVIOUS
<1> HIDE DEF o
<1>1. RemoteTypeOK'
  <2>1. /\ services' \in [Owners -> 0 .. Cardinality(Conns)]
        /\ createLock' \in [Owners -> Conns \cup {None}]
    <3>1. 0 \in 0 .. Cardinality(Conns)
      BY ConnsFinite, FS_CardinalityType
    <3>2. CASE services' = services /\ createLock' = createLock
      BY <3>2
    <3>3. CASE /\ services' = [services EXCEPT ![o] = 0]
               /\ createLock' = [createLock EXCEPT ![o] = None]
      BY <3>1, <3>3
    <3> QED
      BY <1>c, <3>2, <3>3
  <2>2. manager' \in [Managers ->
          [pc : {"new", "authenticated", "committed", "closing", "replied", "failed"},
           does : {"rotate", "revoke"}, principal : Principals \cup {None},
           service : 0 .. Cardinality(Conns)]]
    BY <1>a DEF ManagerOf, o
  <2>3. done' \in [Conns -> BOOLEAN]
    OBVIOUS
  <2> QED
    BY <2>1, <2>2, <2>3 DEF RemoteTypeOK
<1>2. ConnOK'
  BY DEF ConnOK, InUse, Pending, ReadLocked
<1>3. ManagerOK'
  <2>1. \A n \in Managers :
         /\ manager'[n].principal = manager[n].principal /\ manager'[n].does = manager[n].does
         /\ manager'[n].pc \in Changed <=> manager[n].pc \in Changed
         /\ manager'[n].pc = "new" <=> manager[n].pc = "new"
    BY <1>a, <1>e DEF Changed
  <2>2. \A n \in Managers : manager'[n].pc = "closing" =>
         manager[n].pc = "closing" \/ (n = m /\ manager[m].does # "rotate")
    BY <1>a
  <2> QED
    BY <1>b, <1>e, <2>1, <2>2 DEF ManagerOK, Revokes, ManagerOf
<1>4. CutOK'
  <2> SUFFICES ASSUME NEW n \in Managers, NEW c \in Conns,
                      manager'[n].pc \in {"closing", "replied"}, conn[c] # "new", Hit(n, c)',
                      c \in connections
               PROVE  done'[c]
    BY <1>d, <1>e DEF CutOK
  <2>1. CASE n = m
    BY <1>a, <1>e, <2>1 DEF Hit, ManagerOf, OwnerOf, CutOff, Of
  <2>2. CASE n # m
    BY <1>a, <1>e, <2>2 DEF CutOK, Hit, ManagerOf, OwnerOf
  <2> QED
    BY <2>1, <2>2
<1>5. ServiceOK'
  <2>1. \A n \in Managers : manager[n].pc \in {"closing", "replied"} =>
                             n # m /\ manager'[n] = manager[n]
    BY <1>a, <1>e
  <2>2. \A p \in Owners : services'[p] = services[p] \/ (services'[p] = 0 /\ Revokes(m, o)' /\ p = o
                          /\ manager'[m].pc = "closing")
    BY <1>a, <1>c DEF Revokes, ManagerOf, o
  <2>3. ASSUME NEW p \in Owners
        PROVE  /\ made'[p] \in {0, 1} /\ services'[p] \in {0, made'[p]}
               /\ made'[p] # services'[p] =>
                     \/ closing'
                     \/ \E n \in Managers : manager'[n].pc \in {"closing", "replied"}
                                            /\ Revokes(n, p)'
    BY <1>e, <2>1, <2>2 DEF ServiceOK, Revokes, ManagerOf
  <2>4. ASSUME NEW n \in Managers, manager'[n].does = "revoke",
               manager'[n].pc \in {"closing", "replied"}
        PROVE  services'[ManagerOf(n)'] = 0
    <3>1. CASE n = m
      BY <1>a, <1>c, <2>4, <3>1 DEF ManagerOf, o
    <3>2. CASE n # m
      <4>1. manager'[n] = manager[n] /\ ManagerOf(n) \in Owners
        BY <1>a, <2>4, <3>2 DEF ManagerOK, ManagerOf, Principals
      <4> QED
        BY <2>2, <2>4, <4>1 DEF ServiceOK, ManagerOf
    <3> QED
      BY <3>1, <3>2
  <2> QED
    BY <2>3, <2>4 DEF ServiceOK
<1>6. ShellOK'
  <2>1. \A n \in Managers : manager[n].pc = "closing" => manager'[n] = manager[n]
    BY <1>a, <1>e
  <2>2. ASSUME NEW s \in shells, s.service = services[s.owner]
        PROVE  \/ s.service = services'[s.owner]
               \/ /\ manager'[m].pc = "closing" /\ manager'[m].principal.owner = s.owner
                  /\ manager'[m].service = s.service
    <3>1. s.owner \in Owners
      BY ShellsTyped
    <3>2. CASE services' = services
      BY <2>2, <3>2
    <3>3. CASE /\ manager[m].does = "revoke" /\ manager'[m].service = services[o]
               /\ services' = [services EXCEPT ![o] = 0]
      BY <1>a, <2>2, <3>1, <3>3 DEF ManagerOf, o
    <3> QED
      BY <1>c, <3>2, <3>3
  <2> QED
    BY <1>e, <2>1, <2>2, ShellsKept
<1>7. CreateOK'
  <2> QED
    BY <1>d, <1>e DEF CreateOK, ReadLocked
<1>8. ShutdownOK'
  BY DEF ShutdownOK
<1>9. ConnectionsWithinLimits'
  BY LimitsKept DEF Of, OwnerOf, Pending, AllReserved, Reserved
<1>10. TargetsWithinLimit'
  BY DEF TargetsWithinLimit
<1> QED
  BY <1>1, <1>2, <1>3, <1>4, <1>5, <1>6, <1>7, <1>8, <1>9, <1>10

\* The revoked owner's service is closed (server.go:366-370).
LEMMA CloseRevokedKeeps ==
    ASSUME IInv, NEW m \in Managers, CloseRevoked(m)
    PROVE  IInv'
<1> USE DEF IInv, RemoteTypeOK, CloseRevoked, Goto, ManagerGoto, registryVars,
   connVars, serviceVars, shutdownVars
<1>1. RemoteTypeOK'
  BY DEF RemoteTypeOK, Pending, ReadLocked, Principals
<1>2. ConnOK'
  BY DEF ConnOK, InUse, Pending, ReadLocked
<1>3. ManagerOK'
  BY DEF ManagerOK, Changed, Revokes, ManagerOf
<1>4. CutOK'
  BY DEF CutOK, Hit, ManagerOf, ReadLocked, OwnerOf
<1>5. ServiceOK'
  BY DEF ServiceOK, Revokes, ManagerOf
<1>6. ShellOK'
  BY DEF ShellOK, ManagerOf
<1>7. CreateOK'
  <2> shells' \subseteq shells
    OBVIOUS
  <2> QED
    BY FewerShells, LimitsArePositive DEF CreateOK, OwnerOf
<1>8. ShutdownOK'
  BY DEF ShutdownOK
<1>9. ConnectionsWithinLimits'
  BY LimitsKept DEF Of, OwnerOf, Pending, AllReserved, Reserved
<1>10. TargetsWithinLimit'
  <2>1. shells' \subseteq shells /\ IsFiniteSet(shells)
    BY DEF CreateOK
  <2>2. \A o \in Owners : Cardinality(ShellsOf(o)) <= MaxTargetsPerClient
    BY DEF TargetsWithinLimit, ShellsOf
  <2>3. \A o \in Owners : Cardinality(ShellsOf(o)') <= MaxTargetsPerClient
    BY <2>1, <2>2, FewerShells, LimitsArePositive
  <2> QED
    BY <2>3 DEF TargetsWithinLimit, ShellsOf
<1> QED
  BY <1>1, <1>2, <1>3, <1>4, <1>5, <1>6, <1>7, <1>8, <1>9, <1>10

\* Shutdown begins (server.go:616-622).
LEMMA SetClosingKeeps ==
    ASSUME IInv, SetClosing
    PROVE  IInv'
<1> USE DEF IInv, RemoteTypeOK, SetClosing, Goto, ManagerGoto, registryVars,
   connVars, serviceVars, shutdownVars
<1>1. RemoteTypeOK'
  BY DEF RemoteTypeOK, Pending, ReadLocked, Principals
<1>2. ConnOK'
  BY DEF ConnOK, InUse, Pending, ReadLocked
<1>3. ManagerOK'
  BY DEF ManagerOK, Changed, Revokes, ManagerOf
<1>4. CutOK'
  BY DEF CutOK, Hit, ManagerOf, ReadLocked, OwnerOf
<1>5. ServiceOK'
  BY DEF ServiceOK, Revokes, ManagerOf
<1>6. ShellOK'
  BY DEF ShellOK, ManagerOf
<1>7. CreateOK'
  BY DEF CreateOK, ShellsOf, OwnerOf
<1>8. ShutdownOK'
  BY DEF ShutdownOK
<1>9. ConnectionsWithinLimits'
  BY LimitsKept DEF Of, OwnerOf, Pending, AllReserved, Reserved
<1>10. TargetsWithinLimit'
  BY DEF TargetsWithinLimit
<1> QED
  BY <1>1, <1>2, <1>3, <1>4, <1>5, <1>6, <1>7, <1>8, <1>9, <1>10

\* It signals the connections (server.go:622-635).
LEMMA SignalConnectionsKeeps ==
    ASSUME IInv, SignalConnections
    PROVE  IInv'
<1> USE DEF IInv, RemoteTypeOK, SignalConnections, LifecycleFree, Goto,
   ManagerGoto, registryVars, connVars, serviceVars, shutdownVars
<1>1. RemoteTypeOK'
  BY DEF RemoteTypeOK, Pending, ReadLocked, Principals
<1>2. ConnOK'
  BY DEF ConnOK, InUse, Pending, ReadLocked
<1>3. ManagerOK'
  BY DEF ManagerOK, Changed, Revokes, ManagerOf
<1>4. CutOK'
  BY DEF CutOK, Hit, ManagerOf, ReadLocked, OwnerOf
<1>5. ServiceOK'
  BY DEF ServiceOK, Revokes, ManagerOf
<1>6. ShellOK'
  BY DEF ShellOK, ManagerOf
<1>7. CreateOK'
  BY DEF CreateOK, ShellsOf, OwnerOf
<1>8. ShutdownOK'
  BY DEF ShutdownOK, ReadLocked
<1>9. ConnectionsWithinLimits'
  BY LimitsKept DEF Of, OwnerOf, Pending, AllReserved, Reserved
<1>10. TargetsWithinLimit'
  BY DEF TargetsWithinLimit
<1> QED
  BY <1>1, <1>2, <1>3, <1>4, <1>5, <1>6, <1>7, <1>8, <1>9, <1>10

\* It counts them (server.go:606-638).
LEMMA CountConnectionsKeeps ==
    ASSUME IInv, CountConnections
    PROVE  IInv'
<1> USE DEF IInv, RemoteTypeOK, CountConnections, Goto, ManagerGoto,
   registryVars, connVars, serviceVars, shutdownVars
<1>1. RemoteTypeOK'
  BY DEF RemoteTypeOK, Pending, ReadLocked, Principals
<1>2. ConnOK'
  BY DEF ConnOK, InUse, Pending, ReadLocked
<1>3. ManagerOK'
  BY DEF ManagerOK, Changed, Revokes, ManagerOf
<1>4. CutOK'
  BY DEF CutOK, Hit, ManagerOf, ReadLocked, OwnerOf
<1>5. ServiceOK'
  BY DEF ServiceOK, Revokes, ManagerOf
<1>6. ShellOK'
  BY DEF ShellOK, ManagerOf
<1>7. CreateOK'
  BY DEF CreateOK, ShellsOf, OwnerOf
<1>8. ShutdownOK'
  BY DEF ShutdownOK
<1>9. ConnectionsWithinLimits'
  BY LimitsKept DEF Of, OwnerOf, Pending, AllReserved, Reserved
<1>10. TargetsWithinLimit'
  BY DEF TargetsWithinLimit
<1> QED
  BY <1>1, <1>2, <1>3, <1>4, <1>5, <1>6, <1>7, <1>8, <1>9, <1>10

\* It is told of a change (server.go:646-648).
LEMMA ConnectionChangedKeeps ==
    ASSUME IInv, ConnectionChanged
    PROVE  IInv'
<1> USE DEF IInv, RemoteTypeOK, ConnectionChanged, Goto, ManagerGoto,
   registryVars, connVars, serviceVars, shutdownVars
<1>1. RemoteTypeOK'
  BY DEF RemoteTypeOK, Pending, ReadLocked, Principals
<1>2. ConnOK'
  BY DEF ConnOK, InUse, Pending, ReadLocked
<1>3. ManagerOK'
  BY DEF ManagerOK, Changed, Revokes, ManagerOf
<1>4. CutOK'
  BY DEF CutOK, Hit, ManagerOf, ReadLocked, OwnerOf
<1>5. ServiceOK'
  BY DEF ServiceOK, Revokes, ManagerOf
<1>6. ShellOK'
  BY DEF ShellOK, ManagerOf
<1>7. CreateOK'
  BY DEF CreateOK, ShellsOf, OwnerOf
<1>8. ShutdownOK'
  BY DEF ShutdownOK
<1>9. ConnectionsWithinLimits'
  BY LimitsKept DEF Of, OwnerOf, Pending, AllReserved, Reserved
<1>10. TargetsWithinLimit'
  BY DEF TargetsWithinLimit
<1> QED
  BY <1>1, <1>2, <1>3, <1>4, <1>5, <1>6, <1>7, <1>8, <1>9, <1>10

\* ctx expires (server.go:639-645).
LEMMA WaitExpiresKeeps ==
    ASSUME IInv, WaitExpires
    PROVE  IInv'
<1> USE DEF IInv, RemoteTypeOK, WaitExpires, Goto, ManagerGoto, registryVars,
   connVars, serviceVars, shutdownVars
<1>1. RemoteTypeOK'
  BY DEF RemoteTypeOK, Pending, ReadLocked, Principals
<1>2. ConnOK'
  BY DEF ConnOK, InUse, Pending, ReadLocked
<1>3. ManagerOK'
  BY DEF ManagerOK, Changed, Revokes, ManagerOf
<1>4. CutOK'
  BY DEF CutOK, Hit, ManagerOf, ReadLocked, OwnerOf
<1>5. ServiceOK'
  BY DEF ServiceOK, Revokes, ManagerOf
<1>6. ShellOK'
  BY DEF ShellOK, ManagerOf
<1>7. CreateOK'
  BY DEF CreateOK, ShellsOf, OwnerOf
<1>8. ShutdownOK'
  BY DEF ShutdownOK
<1>9. ConnectionsWithinLimits'
  BY LimitsKept DEF Of, OwnerOf, Pending, AllReserved, Reserved
<1>10. TargetsWithinLimit'
  BY DEF TargetsWithinLimit
<1> QED
  BY <1>1, <1>2, <1>3, <1>4, <1>5, <1>6, <1>7, <1>8, <1>9, <1>10

\* It takes the services (server.go:650-657).
LEMMA TakeServicesKeeps ==
    ASSUME IInv, TakeServices
    PROVE  IInv'
<1> USE DEF IInv, RemoteTypeOK, TakeServices, Goto, ManagerGoto, registryVars,
   connVars, serviceVars, shutdownVars
<1>1. RemoteTypeOK'
  <2>1. \A o \in Owners : services[o] # 0 => services[o] \in 1 .. Cardinality(Conns)
    BY ConnsFinite, FS_CardinalityType
  <2>2. taken' \subseteq Owners \X (1 .. Cardinality(Conns))
    BY <2>1
  <2>3. services' \in [Owners -> 0 .. Cardinality(Conns)]
    BY ConnsFinite, FS_CardinalityType
  <2> QED
    BY <2>2, <2>3 DEF RemoteTypeOK
<1>2. ConnOK'
  BY DEF ConnOK, InUse, Pending, ReadLocked
<1>3. ManagerOK'
  BY DEF ManagerOK, Changed, Revokes, ManagerOf
<1>4. CutOK'
  BY DEF CutOK, Hit, ManagerOf, ReadLocked, OwnerOf
<1>5. ServiceOK'
  <2>1. closing
    BY DEF ShutdownOK
  <2>2. \A n \in Managers : manager[n].pc # "new" => ManagerOf(n) \in Owners
    BY DEF ManagerOK, ManagerOf, Principals
  <2> QED
    BY <2>1, <2>2 DEF ServiceOK, Revokes, ManagerOf
<1>6. ShellOK'
  <2>1. taken = {}
    BY DEF ShutdownOK
  <2>2. \A s \in shells : s.owner \in Owners /\ s.service # 0
    OBVIOUS
  <2>3. \A s \in shells : s.service = services[s.owner] => <<s.owner, s.service>> \in taken'
    BY <2>2
  <2> QED
    BY <2>1, <2>3 DEF ShellOK, ManagerOf
<1>7. CreateOK'
  BY DEF CreateOK, ShellsOf, OwnerOf, ShutdownOK
<1>8. ShutdownOK'
  BY DEF ShutdownOK
<1>9. ConnectionsWithinLimits'
  BY LimitsKept DEF Of, OwnerOf, Pending, AllReserved, Reserved
<1>10. TargetsWithinLimit'
  BY DEF TargetsWithinLimit
<1> QED
  BY <1>1, <1>2, <1>3, <1>4, <1>5, <1>6, <1>7, <1>8, <1>9, <1>10

\* It closes them (server.go:669-674).
LEMMA CloseServicesKeeps ==
    ASSUME IInv, CloseServices
    PROVE  IInv'
<1> USE DEF IInv, RemoteTypeOK, CloseServices, CloseTaken, Goto, ManagerGoto,
   registryVars, connVars, serviceVars, shutdownVars
<1>1. RemoteTypeOK'
  BY DEF RemoteTypeOK, Pending, ReadLocked, Principals
<1>2. ConnOK'
  BY DEF ConnOK, InUse, Pending, ReadLocked
<1>3. ManagerOK'
  BY DEF ManagerOK, Changed, Revokes, ManagerOf
<1>4. CutOK'
  BY DEF CutOK, Hit, ManagerOf, ReadLocked, OwnerOf
<1>5. ServiceOK'
  BY DEF ServiceOK, Revokes, ManagerOf
<1>6. ShellOK'
  BY DEF ShellOK, ManagerOf
<1>7. CreateOK'
  <2> shells' \subseteq shells
    OBVIOUS
  <2> QED
    BY FewerShells, LimitsArePositive DEF CreateOK, OwnerOf
<1>8. ShutdownOK'
  BY DEF ShutdownOK
<1>9. ConnectionsWithinLimits'
  BY LimitsKept DEF Of, OwnerOf, Pending, AllReserved, Reserved
<1>10. TargetsWithinLimit'
  <2>1. shells' \subseteq shells /\ IsFiniteSet(shells)
    BY DEF CreateOK
  <2>2. \A o \in Owners : Cardinality(ShellsOf(o)) <= MaxTargetsPerClient
    BY DEF TargetsWithinLimit, ShellsOf
  <2>3. \A o \in Owners : Cardinality(ShellsOf(o)') <= MaxTargetsPerClient
    BY <2>1, <2>2, FewerShells, LimitsArePositive
  <2> QED
    BY <2>3 DEF TargetsWithinLimit, ShellsOf
<1> QED
  BY <1>1, <1>2, <1>3, <1>4, <1>5, <1>6, <1>7, <1>8, <1>9, <1>10

\* They are closed after it returned (server.go:659-668).
LEMMA CloseServicesLateKeeps ==
    ASSUME IInv, CloseServicesLate
    PROVE  IInv'
<1> USE DEF IInv, RemoteTypeOK, CloseServicesLate, CloseTaken, Goto,
   ManagerGoto, registryVars, connVars, serviceVars, shutdownVars
<1>1. RemoteTypeOK'
  BY DEF RemoteTypeOK, Pending, ReadLocked, Principals
<1>2. ConnOK'
  BY DEF ConnOK, InUse, Pending, ReadLocked
<1>3. ManagerOK'
  BY DEF ManagerOK, Changed, Revokes, ManagerOf
<1>4. CutOK'
  BY DEF CutOK, Hit, ManagerOf, ReadLocked, OwnerOf
<1>5. ServiceOK'
  BY DEF ServiceOK, Revokes, ManagerOf
<1>6. ShellOK'
  BY DEF ShellOK, ManagerOf
<1>7. CreateOK'
  <2> shells' \subseteq shells
    OBVIOUS
  <2> QED
    BY FewerShells, LimitsArePositive DEF CreateOK, OwnerOf
<1>8. ShutdownOK'
  BY DEF ShutdownOK
<1>9. ConnectionsWithinLimits'
  BY LimitsKept DEF Of, OwnerOf, Pending, AllReserved, Reserved
<1>10. TargetsWithinLimit'
  <2>1. shells' \subseteq shells /\ IsFiniteSet(shells)
    BY DEF CreateOK
  <2>2. \A o \in Owners : Cardinality(ShellsOf(o)) <= MaxTargetsPerClient
    BY DEF TargetsWithinLimit, ShellsOf
  <2>3. \A o \in Owners : Cardinality(ShellsOf(o)') <= MaxTargetsPerClient
    BY <2>1, <2>2, FewerShells, LimitsArePositive
  <2> QED
    BY <2>3 DEF TargetsWithinLimit, ShellsOf
<1> QED
  BY <1>1, <1>2, <1>3, <1>4, <1>5, <1>6, <1>7, <1>8, <1>9, <1>10

\* ctx expires while they close (server.go:675-678).
LEMMA CloseExpiresKeeps ==
    ASSUME IInv, CloseExpires
    PROVE  IInv'
<1> USE DEF IInv, RemoteTypeOK, CloseExpires, Goto, ManagerGoto, registryVars,
   connVars, serviceVars, shutdownVars
<1>1. RemoteTypeOK'
  BY DEF RemoteTypeOK, Pending, ReadLocked, Principals
<1>2. ConnOK'
  BY DEF ConnOK, InUse, Pending, ReadLocked
<1>3. ManagerOK'
  BY DEF ManagerOK, Changed, Revokes, ManagerOf
<1>4. CutOK'
  BY DEF CutOK, Hit, ManagerOf, ReadLocked, OwnerOf
<1>5. ServiceOK'
  BY DEF ServiceOK, Revokes, ManagerOf
<1>6. ShellOK'
  BY DEF ShellOK, ManagerOf
<1>7. CreateOK'
  BY DEF CreateOK, ShellsOf, OwnerOf
<1>8. ShutdownOK'
  BY DEF ShutdownOK
<1>9. ConnectionsWithinLimits'
  BY LimitsKept DEF Of, OwnerOf, Pending, AllReserved, Reserved
<1>10. TargetsWithinLimit'
  BY DEF TargetsWithinLimit
<1> QED
  BY <1>1, <1>2, <1>3, <1>4, <1>5, <1>6, <1>7, <1>8, <1>9, <1>10

-----------------------------------------------------------------------------
(* The theorems                                                            *)

\* The server starts with no connection, no service and no shell
\* (server.go:82-164).
LEMMA InitIInv == Init => IInv
<1> SUFFICES ASSUME Init PROVE IInv
  OBVIOUS
<1>1. 0 \in 0 .. Cardinality(Conns) /\ 1 \in 1 .. MaxGeneration
  BY ConnsFinite, FS_CardinalityType, LimitsArePositive
<1>2. RemoteTypeOK
  BY <1>1 DEF Init, RemoteTypeOK
<1>3. ConnOK /\ ManagerOK /\ CutOK /\ ServiceOK /\ ShellOK /\ ShutdownOK
  BY DEF Init, ConnOK, InUse, ManagerOK, Changed, CutOK, ServiceOK, ShellOK, ShutdownOK
<1>4. CreateOK
  BY FS_EmptySet DEF Init, CreateOK
<1>5. ConnectionsWithinLimits
  <2>1. AllReserved = {} /\ \A o \in Owners : Reserved(o) = {} /\ Of(o) = {}
    BY DEF Init, AllReserved, Reserved, Of, Pending
  <2>2. /\ Cardinality(AllReserved) = 0 /\ Cardinality(connections) = 0
        /\ \A o \in Owners : Cardinality(Reserved(o)) = 0 /\ Cardinality(Of(o)) = 0
    BY <2>1, FS_EmptySet DEF Init
  <2>3. pendingTotal = 0 /\ \A o \in Owners : pending[o] = 0
    BY DEF Init
  <2>4. 0 + 0 <= MaxConnections /\ 0 + 0 <= MaxConnectionsPerClient
    BY LimitsArePositive
  <2> QED
    BY <2>2, <2>3, <2>4, LimitsUnfolded
<1>6. TargetsWithinLimit
  <2>1. \A o \in Owners : {s \in shells : s.owner = o} = {}
    BY DEF Init
  <2> QED
    BY <2>1, FS_EmptySet, LimitsArePositive DEF TargetsWithinLimit
<1> QED
  BY <1>2, <1>3, <1>4, <1>5, <1>6 DEF IInv

\* A step that changes nothing keeps the invariant (server.go).
LEMMA StutterKeeps == IInv /\ UNCHANGED vars => IInv'
<1> SUFFICES ASSUME IInv, UNCHANGED vars PROVE IInv'
  OBVIOUS
<1> USE DEF vars, registryVars, connVars, serviceVars, shutdownVars, IInv
<1>1. RemoteTypeOK' /\ ConnOK' /\ ManagerOK' /\ CutOK'
  BY DEF RemoteTypeOK, ConnOK, ManagerOK, Changed, Revokes, ManagerOf, CutOK, Hit, OwnerOf
<1>2. ServiceOK' /\ ShellOK' /\ CreateOK' /\ ShutdownOK'
  BY DEF ServiceOK, Revokes, ManagerOf, ShellOK, CreateOK, ShellsOf, OwnerOf, ShutdownOK
<1>3. ConnectionsWithinLimits' /\ TargetsWithinLimit'
  BY DEF ConnectionsWithinLimits, Of, OwnerOf, TargetsWithinLimit
<1> QED
  BY <1>1, <1>2, <1>3

\* Every step of the server keeps the invariant (server.go).
LEMMA NextIInv == IInv /\ [Next]_vars => IInv'
<1> SUFFICES ASSUME IInv, [Next]_vars PROVE IInv'
  OBVIOUS
<1>1. ASSUME NEW c \in Conns, NEW o \in Owners, AuthenticateRequest(c, o) PROVE IInv'
  BY <1>1, AuthenticateRequestKeeps
<1>2. ASSUME NEW c \in Conns, ConnStep(c) PROVE IInv'
  BY <1>2, ReserveConnectionKeeps, UpgradeKeeps, RevalidateKeeps, ActivateConnectionKeeps,
     CheckLimitKeeps, CreateKeeps
     DEF ConnStep
<1>3. ASSUME NEW c \in Conns, RemoveConnection(c) \/ BeginCreate(c) \/ EndSend(c)
      PROVE  IInv'
  BY <1>3, RemoveConnectionKeeps, BeginCreateKeeps, EndSendKeeps
<1>4. ASSUME NEW c \in Conns, NEW t \in Targets, CloseTarget(c, t) \/ BeginSend(c, t)
      PROVE  IInv'
  BY <1>4, CloseTargetKeeps, BeginSendKeeps
<1>5. ASSUME NEW m \in Managers,
             ManagerStep(m) \/ \E o \in Owners : ManagerAuthenticates(m, o)
      PROVE  IInv'
  BY <1>5, ManagerAuthenticatesKeeps, CommitKeeps, CloseOwnerKeeps, CloseRevokedKeeps
     DEF ManagerStep
<1>6. CASE ShellExits
  BY <1>6, ShellExitsKeeps
<1>7. CASE SetClosing \/ ShutdownStep \/ WaitExpires \/ CloseExpires
  BY <1>7, SetClosingKeeps, SignalConnectionsKeeps, CountConnectionsKeeps,
     ConnectionChangedKeeps, WaitExpiresKeeps, TakeServicesKeeps, CloseServicesKeeps,
     CloseServicesLateKeeps, CloseExpiresKeeps
     DEF ShutdownStep
<1>8. CASE UNCHANGED vars
  BY <1>8, StutterKeeps
<1> QED
  BY <1>1, <1>2, <1>3, <1>4, <1>5, <1>6, <1>7, <1>8 DEF Next

\* The inductive invariant holds of every execution of the remote server
\* (server.go).
THEOREM Invariance == Spec => []IInv
BY InitIInv, NextIInv, PTL DEF Spec

\* Every variable keeps its type (server.go:51-80).
THEOREM TypeCorrect == Spec => []RemoteTypeOK
<1>1. IInv => RemoteTypeOK
  BY DEF IInv
<1> QED
  BY <1>1, Invariance, PTL

\* Connections and reservations keep to both limits, whatever races with what
\* (server.go:520-583).
THEOREM ConnectionsWithinLimitsHolds == Spec => []ConnectionsWithinLimits
<1>1. IInv => ConnectionsWithinLimits
  BY DEF IInv
<1> QED
  BY <1>1, Invariance, PTL

\* No owner has more targets than its limit (server.go:846-872).
THEOREM TargetsWithinLimitHolds == Spec => []TargetsWithinLimit
<1>1. IInv => TargetsWithinLimit
  BY DEF IInv
<1> QED
  BY <1>1, Invariance, PTL

\* An answered rotation or revocation has cut off what it takes the credential
\* from (server.go:314-370).
THEOREM OldCredentialsAreCutOffHolds == Spec => []OldCredentialsAreCutOff
<1>1. ASSUME IInv, NEW m \in Managers, manager[m].pc = "replied", NEW c \in CutOff(m)
      PROVE  done[c]
  <2>1. c \in Conns /\ c \in connections /\ Hit(m, c)
    BY <1>1 DEF CutOff, Of, Hit, ManagerOf, IInv, RemoteTypeOK
  <2>2. conn[c] # "new"
    BY <1>1, <2>1 DEF IInv, ConnOK, InUse
  <2> QED
    BY <1>1, <2>1, <2>2 DEF IInv, CutOK
<1>2. ASSUME IInv, NEW m \in Managers, manager[m].pc = "replied",
             manager[m].does = "revoke"
      PROVE  /\ services[ManagerOf(m)] = 0
             /\ \A s \in shells : s.owner = ManagerOf(m) => <<s.owner, s.service>> \in taken
  <2>1. services[ManagerOf(m)] = 0
    BY <1>2 DEF IInv, ServiceOK
  <2>2. ASSUME NEW s \in shells, s.owner = ManagerOf(m)
        PROVE  <<s.owner, s.service>> \in taken
    <3>1. s.service # 0
      BY <1>2, ShellsTyped DEF IInv
    <3>2. ASSUME NEW n \in Managers, manager[n].pc = "closing", ManagerOf(n) = s.owner
          PROVE  FALSE
      <4>1. manager[n].does = "revoke"
        BY <1>2, <3>2 DEF IInv, ManagerOK
      <4>2. n = m
        BY <1>2, <2>2, <3>2, <4>1 DEF IInv, ManagerOK, Changed, Revokes
      <4> QED
        BY <1>2, <3>2, <4>2
    <3> QED
      BY <1>2, <2>1, <2>2, <3>1, <3>2 DEF IInv, ShellOK
  <2> QED
    BY <2>1, <2>2
<1>3. IInv => OldCredentialsAreCutOff
  BY <1>1, <1>2 DEF OldCredentialsAreCutOff, ManagerOf
<1> QED
  BY <1>3, Invariance, PTL

\* When Shutdown has taken the services no shell escapes it (server.go:616-678).
THEOREM ShutdownLeavesNothingHolds == Spec => []ShutdownLeavesNothing
<1>1. ASSUME IInv, shutdown \in {"close", "ok", "timeout"}, NEW s \in shells
      PROVE  \/ <<s.owner, s.service>> \in taken
             \/ \E m \in Managers :
                   /\ manager[m].pc = "closing" /\ ManagerOf(m) = s.owner
                   /\ manager[m].service = s.service
  <2>1. s.owner \in Owners /\ s.service # 0
    BY <1>1, ShellsTyped DEF IInv
  <2>2. services[s.owner] = 0
    BY <1>1, <2>1 DEF IInv, ShutdownOK
  <2> QED
    BY <1>1, <2>1, <2>2 DEF IInv, ShellOK
<1>2. IInv /\ shutdown = "ok" => connections = {}
  BY DEF IInv, ShutdownOK
<1>3. IInv => ShutdownLeavesNothing
  BY <1>1, <1>2 DEF ShutdownLeavesNothing, ManagerOf
<1> QED
  BY <1>3, Invariance, PTL

=============================================================================
