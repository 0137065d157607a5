------------------------------ MODULE Registry ------------------------------
(***************************************************************************)
(* The client registry of the remote server, src/internal/remote/          *)
(* registry.go: its mutations, each persisted by writing a temporary file, *)
(* renaming it over the registry and syncing the directory; the file lock; *)
(* and what process crashes and power failures leave.                      *)
(*                                                                         *)
(* A password and an owner identity are fresh random tokens; the model     *)
(* names each by the time it was made.  A digest stands for its password.  *)
(* A temporary file is synced before it is renamed, so the registry file   *)
(* is never torn; what a power failure may undo is the rename.             *)
(***************************************************************************)
EXTENDS Naturals, FiniteSets

CONSTANTS
    Names,      \* client names, all valid
    Processes,  \* server processes that may open the registry
    Requests,   \* goroutines that change it
    MaxNow,     \* bound: mutations that get as far as a draft
    None        \* no record, no file, no holder

ASSUME MaxNowIsNat == MaxNow \in Nat

VARIABLES
    now,        \* time.Now, and the name of the newest token
    file,       \* the clients in the file at the registry's path, or None
    durable,    \* those in the file a power failure may bring back, or None
    lock,       \* the process that holds the flock, or None
    proc,       \* where each process is with the registry
    clients,    \* Registry.clients, of each process
    writeMu,    \* the holder of Registry.writeMu, of each process, or None
    req,        \* where each mutation is
    acked       \* the records reported to a caller with a nil error

vars == <<now, file, durable, lock, proc, clients, writeMu, req, acked>>

Times == 1 .. MaxNow
Record == [owner : Times, digest : Times, generation : Nat,
           status : {"pending", "active", "revoked"}, updatedAt : Times]
Empty == [n \in Names |-> None]
Maps == [Names -> Record \cup {None}]
Idle == [pc |-> "idle"]
Mutating == [pc : {"writing", "renamed", "synced", "committed"},
             process : Processes, name : Names, draft : Maps]

ASSUME NoneIsNil ==
    /\ None \notin Processes /\ None \notin Requests
    /\ None \notin Record /\ None \notin Maps

RegistryTypeOK ==
    /\ now \in 0 .. MaxNow
    /\ file \in Maps \cup {None}
    /\ durable \in Maps \cup {None}
    /\ lock \in Processes \cup {None}
    /\ proc \in [Processes -> {"down", "loading", "creating", "open"}]
    /\ clients \in [Processes -> Maps]
    /\ writeMu \in [Processes -> Requests \cup {None}]
    /\ req \in [Requests -> Mutating \cup {Idle}]
    /\ acked \subseteq [name : Names, record : Record]

Init ==
    /\ now = 0
    /\ file = None
    /\ durable = None
    /\ lock = None
    /\ proc = [P \in Processes |-> "down"]
    /\ clients = [P \in Processes |-> Empty]
    /\ writeMu = [P \in Processes |-> None]
    /\ req = [r \in Requests |-> Idle]
    /\ acked = {}

-----------------------------------------------------------------------------
(* OpenRegistry and Close                                                  *)

\* No two clients share an owner identity, or the file is refused.
Loadable(m) ==
    \A n, k \in Names :
        n # k /\ m[n] # None /\ m[k] # None => m[n].owner # m[k].owner

Down(P) ==
    /\ proc' = [proc EXCEPT ![P] = "down"]
    /\ lock' = None

\* openLockFile; a lock that is held fails the open.
OpenRegistry(P) ==
    /\ proc[P] = "down"
    /\ lock = None
    /\ lock' = P
    /\ proc' = [proc EXCEPT ![P] = "loading"]
    /\ clients' = [clients EXCEPT ![P] = Empty]
    /\ UNCHANGED <<now, file, durable, writeMu, req, acked>>

\* load reads and validates the file.
Load(P) ==
    /\ proc[P] = "loading"
    /\ file # None
    /\ IF Loadable(file)
         THEN /\ proc' = [proc EXCEPT ![P] = "open"]
              /\ clients' = [clients EXCEPT ![P] = file]
              /\ UNCHANGED lock
         ELSE Down(P) /\ UNCHANGED clients
    /\ UNCHANGED <<now, file, durable, writeMu, req, acked>>

\* There is no file: persist an empty one, or fail before the rename.
CreateFile(P) ==
    /\ proc[P] = "loading"
    /\ file = None
    /\ \/ /\ file' = Empty
          /\ proc' = [proc EXCEPT ![P] = "creating"]
          /\ UNCHANGED lock
       \/ Down(P) /\ UNCHANGED file
    /\ UNCHANGED <<now, durable, clients, writeMu, req, acked>>

\* The directory is synced, or the open fails with the file in place.
SyncCreated(P) ==
    /\ proc[P] = "creating"
    /\ \/ /\ durable' = file
          /\ proc' = [proc EXCEPT ![P] = "open"]
          /\ UNCHANGED lock
       \/ Down(P) /\ UNCHANGED durable
    /\ UNCHANGED <<now, file, clients, writeMu, req, acked>>

\* Close waits for writeMu, marks the registry closed and unlocks the file.
Close(P) ==
    /\ proc[P] = "open"
    /\ writeMu[P] = None
    /\ Down(P)
    /\ UNCHANGED <<now, file, durable, clients, writeMu, req, acked>>

-----------------------------------------------------------------------------
(* Mutations                                                               *)

\* Variant: writeMu is not taken.
BeginUnlocked(r, P, n, c) ==
    /\ req[r] = Idle
    /\ proc[P] = "open"
    /\ now < MaxNow
    /\ now' = now + 1
    /\ req' = [req EXCEPT ![r] = [pc |-> "writing", process |-> P, name |-> n,
                                  draft |-> [clients[P] EXCEPT ![n] = c]]]
    /\ UNCHANGED <<file, durable, lock, proc, clients, writeMu, acked>>

\* With writeMu held: a clone of the clients with record c for name n.
Begin(r, P, n, c) ==
    /\ req[r] = Idle
    /\ proc[P] = "open"
    /\ writeMu[P] = None
    /\ now < MaxNow
    /\ now' = now + 1
    /\ writeMu' = [writeMu EXCEPT ![P] = r]
    /\ req' = [req EXCEPT ![r] = [pc |-> "writing", process |-> P, name |-> n,
                                  draft |-> [clients[P] EXCEPT ![n] = c]]]
    /\ UNCHANGED <<file, durable, lock, proc, clients, acked>>

Client(P, n) == clients[P][n]
HasStatus(c, status) == c # None /\ c.status = status

\* credentialMatches, for password p of client n.
CredentialMatches(P, n, p, status) ==
    HasStatus(Client(P, n), status) /\ Client(P, n).digest = p

\* A new record; its tokens are named now + 1.
Fresh(owner, status) ==
    [owner |-> owner, digest |-> now + 1, generation |-> 1, status |-> status,
     updatedAt |-> now + 1]

Register(r, P, n) ==
    /\ Client(P, n) = None \/ HasStatus(Client(P, n), "revoked")
    /\ Begin(r, P, n, Fresh(now + 1, "active"))

\* Variant: any earlier record's owner is kept.
PrepareKeepingOwner(r, P, n) ==
    /\ ~HasStatus(Client(P, n), "active")
    /\ Begin(r, P, n, Fresh(IF Client(P, n) # None THEN Client(P, n).owner
                                                   ELSE now + 1, "pending"))

\* PrepareRegistration without a password: a pending registration keeps its
\* owner.  With its password the call recovers it and changes nothing.
PrepareRegistration(r, P, n) ==
    /\ ~HasStatus(Client(P, n), "active")
    /\ Begin(r, P, n, Fresh(IF HasStatus(Client(P, n), "pending")
                              THEN Client(P, n).owner ELSE now + 1, "pending"))

CommitRegistration(r, P, n, p) ==
    /\ CredentialMatches(P, n, p, "pending")
    /\ Begin(r, P, n, [Client(P, n) EXCEPT !.status = "active",
                                           !.updatedAt = now + 1])

Rotate(r, P, n, p) ==
    /\ CredentialMatches(P, n, p, "active")
    /\ Begin(r, P, n, [Client(P, n) EXCEPT !.digest = now + 1, !.generation = @ + 1,
                                           !.updatedAt = now + 1])

Revoke(r, P, n, p) ==
    /\ CredentialMatches(P, n, p, "active")
    /\ Begin(r, P, n, [Client(P, n) EXCEPT !.status = "revoked",
                                           !.updatedAt = now + 1])

-----------------------------------------------------------------------------
(* persistAndPublish                                                       *)

Unlock(r) ==
    writeMu' = [P \in Processes |-> IF writeMu[P] = r THEN None ELSE writeMu[P]]

\* Everything up to the rename may fail; the temporary file is removed.
PersistFails(r) ==
    /\ req[r].pc = "writing"
    /\ req' = [req EXCEPT ![r] = Idle]
    /\ Unlock(r)
    /\ UNCHANGED <<now, file, durable, lock, proc, clients, acked>>

Rename(r) ==
    /\ req[r].pc = "writing"
    /\ file' = req[r].draft
    /\ req' = [req EXCEPT ![r].pc = "renamed"]
    /\ UNCHANGED <<now, durable, lock, proc, clients, writeMu, acked>>

\* Variant: the directory is not synced.
SyncDirectorySkipped(r) ==
    /\ req[r].pc = "renamed"
    /\ req' = [req EXCEPT ![r].pc = "synced"]
    /\ UNCHANGED <<now, file, durable, lock, proc, clients, writeMu, acked>>

SyncDirectory(r) ==
    /\ req[r].pc = "renamed"
    /\ \/ durable' = file /\ req' = [req EXCEPT ![r].pc = "synced"]
       \/ UNCHANGED durable /\ req' = [req EXCEPT ![r].pc = "committed"]
    /\ UNCHANGED <<now, file, lock, proc, clients, writeMu, acked>>

\* The reply: with a nil error if the directory was synced.
Reply(r) ==
    /\ acked' = IF req[r].pc = "synced"
                  THEN acked \cup {[name |-> req[r].name,
                                    record |-> req[r].draft[req[r].name]]}
                  ELSE acked
    /\ req' = [req EXCEPT ![r] = Idle]
    /\ Unlock(r)

\* Variant: a failed sync publishes nothing.
PublishUnlessError(r) ==
    /\ req[r].pc \in {"synced", "committed"}
    /\ clients' = IF req[r].pc = "synced"
                    THEN [clients EXCEPT ![req[r].process] = req[r].draft]
                    ELSE clients
    /\ Reply(r)
    /\ UNCHANGED <<now, file, durable, lock, proc>>

Publish(r) ==
    /\ req[r].pc \in {"synced", "committed"}
    /\ clients' = [clients EXCEPT ![req[r].process] = req[r].draft]
    /\ Reply(r)
    /\ UNCHANGED <<now, file, durable, lock, proc>>

-----------------------------------------------------------------------------
(* Crashes                                                                 *)

\* The processes in Ps die; the kernel drops their locks.
Die(Ps) ==
    /\ proc' = [P \in Processes |-> IF P \in Ps THEN "down" ELSE proc[P]]
    /\ lock' = IF lock \in Ps THEN None ELSE lock
    /\ writeMu' = [P \in Processes |-> IF P \in Ps THEN None ELSE writeMu[P]]
    /\ req' = [r \in Requests |-> IF req[r] # Idle /\ req[r].process \in Ps
                                    THEN Idle ELSE req[r]]

ProcessDies(P) ==
    /\ proc[P] # "down"
    /\ Die({P})
    /\ UNCHANGED <<now, file, durable, clients, acked>>

\* The rename of an unsynced directory may or may not have reached the disk.
PowerFails ==
    /\ Die(Processes)
    /\ file' \in {file, durable}
    /\ durable' = file'
    /\ UNCHANGED <<now, clients, acked>>

-----------------------------------------------------------------------------
ProcessStep(P) ==
    OpenRegistry(P) \/ Load(P) \/ CreateFile(P) \/ SyncCreated(P) \/ Close(P)

Mutation(r, P, n) ==
    \/ Register(r, P, n) \/ PrepareRegistration(r, P, n)
    \/ \E p \in Times :
          CommitRegistration(r, P, n, p) \/ Rotate(r, P, n, p) \/ Revoke(r, P, n, p)

PersistStep(r) == PersistFails(r) \/ Rename(r) \/ SyncDirectory(r) \/ Publish(r)

Next ==
    \/ \E P \in Processes : ProcessStep(P) \/ ProcessDies(P)
    \/ \E r \in Requests, P \in Processes, n \in Names : Mutation(r, P, n)
    \/ \E r \in Requests : PersistStep(r)
    \/ PowerFails

Spec == Init /\ [][Next]_vars

-----------------------------------------------------------------------------
(* Properties                                                              *)

\* Between mutations the server that has the registry open serves what the
\* file holds, also after a failed directory sync and with other servers
\* waiting for the lock: no mutation is computed from clients that are not on
\* disk (registry.go:461-474).
MemoryIsDisk ==
    \A P \in Processes :
        proc[P] = "open" /\ writeMu[P] = None => clients[P] = file

\* What a mutation reported without an error is in the file, and stays there
\* through crashes and power failures, unless a later one replaced it; and the
\* file can be loaded again (registry.go:476-530;
\* TestRotationAndRevocationPersistAcrossRestart).
AckedSurvives ==
    \A b \in acked : \A m \in {file, durable} :
        /\ m # None /\ Loadable(m)
        /\ m[b.name] # None
        /\ m[b.name].updatedAt >= b.record.updatedAt

\* The passwords of client n that an acknowledged mutation took back.
Retired(n) ==
    {p \in Times : \E b \in acked :
        /\ b.name = n /\ p <= b.record.updatedAt
        /\ p # b.record.digest \/ b.record.status = "revoked"}

\* A password that an acknowledged rotation, revocation or replacement took
\* back is accepted by no server, not after any restart either
\* (registry.go:310-369; TestRotateInvalidatesOldPassword).
RetiredNeverAccepted ==
    \A m \in {clients[P] : P \in {P \in Processes : proc[P] = "open"}}
             \cup ({file, durable} \ {None}) :
        \A n \in Names : HasStatus(m[n], "active") \/ HasStatus(m[n], "pending")
            => m[n].digest \notin Retired(n)

\* A name that is registered again gets an owner identity it never had, so
\* that it does not regain access to old targets (README.md:560-561;
\* TestRevokeAndReregisterUsesNewOwner).
RevokedOwnerStaysGone ==
    \A b \in acked : b.record.status = "revoked" =>
        \A m \in {file, durable} : \A n \in Names :
            m[n] # None /\ m[n].owner = b.record.owner =>
                n = b.name /\ m[n].status = "revoked"

-----------------------------------------------------------------------------
(* Refinement: the registry is a ClientMap.                                *)

AsMap(m) == IF m = None THEN Empty ELSE m

\* A mutation takes effect when it is published in memory, or, if its server
\* dies first, when the file it renamed is all that is left of the registry.
View ==
    IF lock # None /\ proc[lock] = "open" THEN clients[lock] ELSE AsMap(file)

\* A mutation that is on disk but not published has not had its effect.
Stable ==
    IF \E r \in Requests : req[r].pc = "synced" THEN View ELSE AsMap(durable)

\* A mutation under way draws its tokens when it takes effect or fails.
Newest == IF \A r \in Requests : req[r] = Idle THEN now ELSE now - 1

Clients == INSTANCE ClientMap
    WITH view <- View, stable <- Stable, newest <- Newest, promised <- acked

\* Several servers, each writing a file, renaming it, syncing the directory and
\* then publishing its memory, and crashes between any two of these, are
\* together one map of clients that each mutation changes at one moment, for
\* one client and from the map as it is then: no server serves a change that is
\* undone without a power failure, none is lost to another, and nothing that
\* was acknowledged is undone (registry.go:148-369, 461-530).
ImplementsClientMap == Clients!Spec

=============================================================================
