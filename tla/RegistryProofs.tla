--------------------------- MODULE RegistryProofs ---------------------------
(***************************************************************************)
(* Proofs about Registry, for any sets of names, processes and concurrent  *)
(* mutations and any number of mutations.                                  *)
(***************************************************************************)
EXTENDS Registry, TLAPS

\* What an acknowledged record b promises of a map m of clients: the client's
\* record is b's or a later one, whose password is newer than b or was not taken
\* back by it; and the owner that b revoked owns nothing.
Keeps(m, b) ==
    /\ m[b.name] # None
    /\ m[b.name].updatedAt >= b.record.updatedAt
    /\ \/ m[b.name] = b.record
       \/ m[b.name].digest > b.record.updatedAt
       \/ m[b.name].digest = b.record.digest /\ b.record.status # "revoked"
    /\ b.record.status = "revoked" =>
          \A n \in Names : m[n] # None /\ m[n].owner = b.record.owner =>
              n = b.name /\ m[n].status = "revoked"

\* A map of clients made by time t that keeps the acknowledged records A.
Sound(m, t, A) ==
    /\ Loadable(m)
    /\ \A n \in Names : m[n] # None => m[n].owner <= t /\ m[n].updatedAt <= t
    /\ \A b \in A : Keeps(m, b)

\* The process that is not down holds the lock.
LockOK == \A P \in Processes : proc[P] # "down" <=> lock = P

\* A mutation under way holds the writeMu of an open registry.
WriteMuOK ==
    /\ \A P \in Processes : writeMu[P] # None =>
          proc[P] = "open" /\ req[writeMu[P]] # Idle /\ req[writeMu[P]].process = P
    /\ \A r \in Requests : req[r] # Idle => writeMu[req[r].process] = r

\* What memory, file and disk have in common, by how far the opening or the
\* mutation has come.
DiskOK ==
    /\ MemoryIsDisk
    /\ \A P \in Processes :
          /\ proc[P] = "open" => file # None
          /\ proc[P] \in {"loading", "creating"} => clients[P] = Empty
          /\ proc[P] = "creating" => file = Empty
    /\ \A r \in Requests : req[r] # Idle =>
          /\ req[r].draft[req[r].name] # None
          /\ req[r].pc = "writing" => clients[req[r].process] = file
          /\ req[r].pc # "writing" => file = req[r].draft
          /\ req[r].pc = "synced" => durable = file

\* Every map of clients that the program may still serve or restore is sound.
SoundOK ==
    /\ \A b \in acked : b.record.owner <= now /\ b.record.updatedAt <= now
    /\ acked # {} => file # None /\ durable # None
    /\ file # None => Sound(file, now, acked)
    /\ durable # None => Sound(durable, now, acked)
    /\ \A P \in Processes : proc[P] = "open" => Sound(clients[P], now, acked)
    /\ \A r \in Requests : req[r] # Idle => Sound(req[r].draft, now, acked)

IInv ==
    /\ RegistryTypeOK
    /\ LockOK
    /\ WriteMuOK
    /\ DiskOK
    /\ SoundOK

-----------------------------------------------------------------------------
(* Maps of clients                                                         *)

\* A record with status and digest and owner is a record, not None.
LEMMA RecordType ==
    ASSUME NEW m \in Maps, NEW n \in Names, m[n] # None
    PROVE  /\ m[n] \in Record
           /\ m[n].owner \in Nat /\ m[n].digest \in Nat /\ m[n].updatedAt \in Nat
BY MaxNowIsNat DEF Maps, Record, Times

\* A new server's registry is sound as long as nothing was acknowledged
\* (registry.go:105-146).
LEMMA EmptyIsSound ==
    ASSUME NEW t
    PROVE  Empty \in Maps /\ Sound(Empty, t, {})
BY DEF Empty, Maps, Sound, Loadable

\* A draft changes one record of a sound map.  It is sound a tick later, if the
\* record's owner and password are new, or those of a record that was not
\* revoked (registry.go:148-369).
LEMMA DraftIsSound ==
    ASSUME NEW m \in Maps, NEW t \in Nat, NEW A \in SUBSET [name : Names, record : Record],
           \A b \in A : b.record.owner <= t /\ b.record.updatedAt <= t,
           Sound(m, t, A),
           NEW n \in Names, NEW c \in Record,
           c.updatedAt = t + 1,
           c.owner = t + 1 \/ (m[n] # None /\ m[n].status # "revoked" /\ c.owner = m[n].owner),
           c.digest = t + 1 \/ (m[n] # None /\ m[n].status # "revoked" /\ c.digest = m[n].digest)
    PROVE  /\ [m EXCEPT ![n] = c] \in Maps
           /\ Sound([m EXCEPT ![n] = c], t + 1, A)
<1> DEFINE d == [m EXCEPT ![n] = c]
<1>1. d \in Maps /\ d[n] = c /\ c # None /\ \A k \in Names : k # n => d[k] = m[k]
  BY NoneIsNil DEF Maps
<1>2. \A k \in Names : m[k] # None =>
         m[k] \in Record /\ m[k].owner \in Nat /\ m[k].digest \in Nat
         /\ m[k].updatedAt \in Nat /\ m[k].owner <= t /\ m[k].updatedAt <= t
  BY RecordType DEF Sound
<1>3. c.owner \in Nat /\ c.digest \in Nat /\ c.updatedAt \in Nat
  BY MaxNowIsNat DEF Record, Times
<1>4. \A b \in A : /\ b.name \in Names /\ b.record \in Record
                   /\ b.record.owner \in Nat /\ b.record.digest \in Nat
                   /\ b.record.updatedAt \in Nat
  BY MaxNowIsNat DEF Record, Times
<1> HIDE DEF d
<1>5. Loadable(d)
  <2> SUFFICES ASSUME NEW k \in Names, k # n, d[k] # None
               PROVE  d[k].owner # c.owner
    BY <1>1 DEF Loadable, Sound
  <2> QED
    BY <1>1, <1>2, <1>3 DEF Loadable, Sound
<1>6. \A k \in Names : d[k] # None => d[k].owner <= t + 1 /\ d[k].updatedAt <= t + 1
  BY <1>1, <1>2, <1>3
<1>7. ASSUME NEW b \in A PROVE Keeps(d, b)
  <2>1. Keeps(m, b)
    BY DEF Sound
  <2>2. CASE b.name # n
    <3>1. d[b.name] = m[b.name]
      BY <1>1, <1>4, <2>2
    <3>2. b.record.status = "revoked" => c.owner # b.record.owner
      <4>1. CASE c.owner = t + 1
        BY <4>1, <1>4
      <4>2. CASE m[n] # None /\ m[n].status # "revoked" /\ c.owner = m[n].owner
        BY <4>2, <2>1 DEF Keeps
      <4> QED
        BY <4>1, <4>2
    <3> QED
      BY <1>1, <2>1, <3>1, <3>2 DEF Keeps
  <2>3. CASE b.name = n
    <3>1. b.record.status = "revoked" => c.owner # b.record.owner
      <4>1. CASE c.owner = t + 1
        BY <4>1, <1>4
      <4>2. CASE m[n] # None /\ m[n].status # "revoked" /\ c.owner = m[n].owner
        BY <4>2, <2>1 DEF Keeps
      <4> QED
        BY <4>1, <4>2
    <3>2. c.updatedAt >= b.record.updatedAt
      BY <1>4
    <3>3. \/ c = b.record
          \/ c.digest > b.record.updatedAt
          \/ c.digest = b.record.digest /\ b.record.status # "revoked"
      BY <1>4, <2>1, <2>3 DEF Keeps
    <3> QED
      BY <1>1, <2>1, <2>3, <3>1, <3>2, <3>3 DEF Keeps
  <2> QED
    BY <2>2, <2>3
<1> QED
  BY <1>1, <1>5, <1>6, <1>7 DEF Sound, d

\* A sound map keeps the record it holds once that is acknowledged.
LEMMA AcknowledgedIsSound ==
    ASSUME NEW m \in Maps, NEW t \in Nat, NEW A, Sound(m, t, A),
           NEW n \in Names, m[n] # None
    PROVE  Sound(m, t, A \cup {[name |-> n, record |-> m[n]]})
<1> DEFINE b == [name |-> n, record |-> m[n]]
<1>1. b.name = n /\ b.record = m[n]
  OBVIOUS
<1>2. m[n].updatedAt \in Nat
  BY RecordType
<1> HIDE DEF b
<1>3. Keeps(m, b)
  BY <1>1, <1>2 DEF Keeps, Sound, Loadable
<1> QED
  BY <1>3 DEF Sound, b

\* What Sound says does not get less with time.
LEMMA SoundLater ==
    ASSUME NEW m \in Maps, NEW t \in Nat, NEW u \in Nat, t <= u, NEW A, Sound(m, t, A)
    PROVE  Sound(m, u, A)
<1>1. \A n \in Names : m[n] # None => m[n].owner <= u /\ m[n].updatedAt <= u
  BY RecordType DEF Sound
<1> QED
  BY <1>1 DEF Sound

-----------------------------------------------------------------------------
(* Each action keeps IInv.                                                 *)

\* A server takes the file lock (registry.go:105-127).
LEMMA OpenRegistryKeeps ==
    ASSUME IInv, NEW P \in Processes, OpenRegistry(P)
    PROVE  IInv'
<1> USE NoneIsNil DEF IInv, RegistryTypeOK, OpenRegistry
<1>1. RegistryTypeOK'
  BY DEF RegistryTypeOK, Empty, Maps
<1>2. LockOK'
  BY DEF LockOK
<1>3. WriteMuOK'
  BY DEF WriteMuOK
<1>4. DiskOK'
  BY DEF DiskOK, MemoryIsDisk, LockOK, WriteMuOK
<1>5. SoundOK'
  BY DEF SoundOK
<1> QED
  BY <1>1, <1>2, <1>3, <1>4, <1>5

\* It loads the file, which it finds loadable (registry.go:417-459).
LEMMA LoadKeeps ==
    ASSUME IInv, NEW P \in Processes, Load(P)
    PROVE  IInv'
<1> USE NoneIsNil DEF IInv, RegistryTypeOK, Load, Down
<1>1. RegistryTypeOK'
  BY DEF RegistryTypeOK
<1>2. LockOK'
  BY DEF LockOK
<1>3. WriteMuOK'
  BY DEF WriteMuOK
<1>4. DiskOK'
  <2>1. \A Q \in Processes : Q # P => proc[Q] = "down"
    BY DEF LockOK
  <2>2. \A r \in Requests : req[r] = Idle
    BY <2>1 DEF WriteMuOK, Mutating, Idle
  <2> QED
    BY <2>1, <2>2 DEF DiskOK, MemoryIsDisk
<1>5. SoundOK'
  BY DEF SoundOK
<1> QED
  BY <1>1, <1>2, <1>3, <1>4, <1>5

\* It creates a file where there is none (registry.go:131-134).
LEMMA CreateFileKeeps ==
    ASSUME IInv, NEW P \in Processes, CreateFile(P)
    PROVE  IInv'
<1> USE NoneIsNil DEF IInv, RegistryTypeOK, CreateFile, Down
<1>1. RegistryTypeOK'
  BY EmptyIsSound DEF RegistryTypeOK
<1>2. LockOK'
  BY DEF LockOK
<1>3. WriteMuOK'
  BY DEF WriteMuOK
<1>4. DiskOK'
  <2>1. \A Q \in Processes : Q # P => proc[Q] = "down"
    BY DEF LockOK
  <2>2. \A r \in Requests : req[r] = Idle
    BY <2>1 DEF WriteMuOK, Mutating, Idle
  <2> QED
    BY <2>1, <2>2 DEF DiskOK, MemoryIsDisk
<1>5. SoundOK'
  BY EmptyIsSound DEF SoundOK
<1> QED
  BY <1>1, <1>2, <1>3, <1>4, <1>5

\* It syncs the directory (registry.go:526-529).
LEMMA SyncCreatedKeeps ==
    ASSUME IInv, NEW P \in Processes, SyncCreated(P)
    PROVE  IInv'
<1> USE NoneIsNil DEF IInv, RegistryTypeOK, SyncCreated, Down
<1>1. RegistryTypeOK'
  BY DEF RegistryTypeOK
<1>2. LockOK'
  BY DEF LockOK
<1>3. WriteMuOK'
  BY DEF WriteMuOK
<1>4. DiskOK'
  BY DEF DiskOK, MemoryIsDisk
<1>5. SoundOK'
  BY DEF SoundOK, DiskOK
<1> QED
  BY <1>1, <1>2, <1>3, <1>4, <1>5

\* It closes the registry (registry.go:371-392).
LEMMA CloseKeeps ==
    ASSUME IInv, NEW P \in Processes, Close(P)
    PROVE  IInv'
<1> USE NoneIsNil DEF IInv, RegistryTypeOK, Close, Down
<1>1. RegistryTypeOK'
  BY DEF RegistryTypeOK
<1>2. LockOK'
  BY DEF LockOK
<1>3. WriteMuOK'
  BY DEF WriteMuOK
<1>4. DiskOK'
  BY DEF DiskOK, MemoryIsDisk
<1>5. SoundOK'
  BY DEF SoundOK
<1> QED
  BY <1>1, <1>2, <1>3, <1>4, <1>5

\* A mutation fails before the rename (registry.go:476-524).
LEMMA PersistFailsKeeps ==
    ASSUME IInv, NEW r \in Requests, PersistFails(r)
    PROVE  IInv'
<1> USE NoneIsNil DEF IInv, RegistryTypeOK, PersistFails, Unlock, Mutating, Idle
<1>1. RegistryTypeOK'
  BY DEF RegistryTypeOK
<1>2. LockOK'
  BY DEF LockOK
<1>3. WriteMuOK'
  BY DEF WriteMuOK
<1>4. DiskOK'
  BY DEF DiskOK, MemoryIsDisk, LockOK, WriteMuOK
<1>5. SoundOK'
  BY DEF SoundOK
<1> QED
  BY <1>1, <1>2, <1>3, <1>4, <1>5

\* A mutation renames its file over the registry
\* (registry.go:522-525).
LEMMA RenameKeeps ==
    ASSUME IInv, NEW r \in Requests, Rename(r)
    PROVE  IInv'
<1> USE NoneIsNil DEF IInv, RegistryTypeOK, Rename, Mutating, Idle
<1>1. RegistryTypeOK'
  BY DEF RegistryTypeOK
<1>2. LockOK'
  BY DEF LockOK
<1>3. WriteMuOK'
  BY DEF WriteMuOK
<1>4. DiskOK'
  BY DEF DiskOK, MemoryIsDisk, LockOK, WriteMuOK
<1>5. SoundOK'
  BY DEF SoundOK
<1> QED
  BY <1>1, <1>2, <1>3, <1>4, <1>5

\* A mutation syncs the directory, or fails to
\* (registry.go:526-529).
LEMMA SyncDirectoryKeeps ==
    ASSUME IInv, NEW r \in Requests, SyncDirectory(r)
    PROVE  IInv'
<1> USE NoneIsNil DEF IInv, RegistryTypeOK, SyncDirectory, Mutating, Idle
<1>1. RegistryTypeOK'
  BY DEF RegistryTypeOK
<1>2. LockOK'
  BY DEF LockOK
<1>3. WriteMuOK'
  BY DEF WriteMuOK
<1>4. DiskOK'
  BY DEF DiskOK, MemoryIsDisk
<1>5. SoundOK'
  BY DEF SoundOK
<1> QED
  BY <1>1, <1>2, <1>3, <1>4, <1>5

\* A mutation publishes its draft and replies
\* (registry.go:461-474).
LEMMA PublishKeeps ==
    ASSUME IInv, NEW r \in Requests, Publish(r)
    PROVE  IInv'
<1> USE NoneIsNil DEF IInv, RegistryTypeOK, Publish, Reply, Unlock, Mutating, Idle
<1>1. RegistryTypeOK'
  <2>1. acked' \subseteq [name : Names, record : Record]
    BY RecordType DEF DiskOK
  <2> QED
    BY <2>1 DEF RegistryTypeOK
<1>2. LockOK'
  BY DEF LockOK
<1>3. WriteMuOK'
  BY DEF WriteMuOK
<1>4. DiskOK'
  BY DEF DiskOK, MemoryIsDisk, LockOK, WriteMuOK
<1>5. SoundOK'
  <2> DEFINE d == req[r].draft
             A == acked \cup {[name |-> req[r].name, record |-> d[req[r].name]]}
  <2>1. /\ req[r] \in Mutating /\ d \in Maps /\ d[req[r].name] # None
        /\ file = d /\ Sound(d, now, acked)
    BY DEF SoundOK, DiskOK
  <2>2. d[req[r].name] \in Record
    BY <2>1, RecordType
  <2>3. req[r].pc = "synced" => durable = d
    BY DEF DiskOK
  <2>4. \A Q \in Processes : proc[Q] = "open" => clients'[Q] = d
    BY <2>1 DEF LockOK, WriteMuOK
  <2>5. \A q \in Requests : q # r => req[q] = Idle
    BY <2>1 DEF LockOK, WriteMuOK
  <2>6. \A q \in Requests : req'[q] = Idle
    BY <2>5
  <2>7. CASE req[r].pc = "synced"
    <3>1. acked' = A /\ Sound(d, now, A)
      BY <2>1, <2>7, AcknowledgedIsSound
    <3>2. \A b \in A : b.record.owner <= now /\ b.record.updatedAt <= now
      BY <2>1 DEF SoundOK, Sound
    <3>3. file' = d /\ durable' = d /\ d # None
      BY <2>1, <2>3, <2>7
    <3> QED
      BY <2>4, <2>6, <3>1, <3>2, <3>3 DEF SoundOK
  <2>8. CASE req[r].pc = "committed"
    <3>1. acked' = acked
      BY <2>8
    <3> QED
      BY <2>1, <2>4, <2>6, <3>1 DEF SoundOK
  <2> QED
    BY <2>7, <2>8
<1> QED
  BY <1>1, <1>2, <1>3, <1>4, <1>5

\* A server process dies, and the kernel drops its lock.
LEMMA ProcessDiesKeeps ==
    ASSUME IInv, NEW P \in Processes, ProcessDies(P)
    PROVE  IInv'
<1> USE NoneIsNil DEF IInv, RegistryTypeOK, ProcessDies, Die
<1>1. RegistryTypeOK'
  BY DEF RegistryTypeOK
<1>2. LockOK'
  BY DEF LockOK
<1>3. WriteMuOK'
  BY DEF WriteMuOK, Mutating, Idle
<1>4. DiskOK'
  BY DEF DiskOK, MemoryIsDisk
<1>5. SoundOK'
  BY DEF SoundOK
<1> QED
  BY <1>1, <1>2, <1>3, <1>4, <1>5

\* The power fails; an unsynced rename may be undone.
LEMMA PowerFailsKeeps ==
    ASSUME IInv, PowerFails
    PROVE  IInv'
<1> USE NoneIsNil DEF IInv, RegistryTypeOK, PowerFails, Die
<1>1. RegistryTypeOK'
  BY DEF RegistryTypeOK
<1>2. LockOK'
  BY DEF LockOK
<1>3. WriteMuOK'
  BY DEF WriteMuOK, Mutating, Idle
<1>4. DiskOK'
  BY DEF DiskOK, MemoryIsDisk, Mutating, Idle
<1>5. SoundOK'
  BY DEF SoundOK
<1> QED
  BY <1>1, <1>2, <1>3, <1>4, <1>5

\* Mutations start alike: with a draft that changes one record (registry.go:148-369).
LEMMA BeginKeeps ==
    ASSUME IInv, NEW r \in Requests, NEW P \in Processes, NEW n \in Names,
           NEW c \in Record, c.updatedAt = now + 1,
           \/ c.owner = now + 1
           \/ /\ Client(P, n) # None /\ Client(P, n).status # "revoked"
              /\ c.owner = Client(P, n).owner,
           \/ c.digest = now + 1
           \/ /\ Client(P, n) # None /\ Client(P, n).status # "revoked"
              /\ c.digest = Client(P, n).digest,
           Begin(r, P, n, c)
    PROVE  IInv'
<1> USE NoneIsNil DEF IInv, RegistryTypeOK, Begin
<1> DEFINE d == [clients[P] EXCEPT ![n] = c]
<1>1. clients[P] \in Maps /\ now \in Nat /\ Sound(clients[P], now, acked)
  BY MaxNowIsNat DEF SoundOK
<1>2. d \in Maps /\ Sound(d, now + 1, acked) /\ d[n] = c
  BY <1>1, DraftIsSound DEF SoundOK, Client, Maps
<1>3. /\ req'[r] = [pc |-> "writing", process |-> P, name |-> n, draft |-> d]
      /\ req'[r] # Idle
      /\ \A q \in Requests : q # r => req'[q] = req[q]
  BY DEF Idle
<1>4. now' = now + 1 /\ now + 1 \in 0 .. MaxNow
  BY MaxNowIsNat
<1> HIDE DEF d
<1>5. RegistryTypeOK'
  BY <1>2, <1>4 DEF RegistryTypeOK, Mutating, d
<1>6. LockOK'
  BY DEF LockOK
<1>7. WriteMuOK'
  BY <1>3 DEF WriteMuOK
<1>8. DiskOK'
  BY <1>2, <1>3 DEF DiskOK, MemoryIsDisk
<1>9. SoundOK'
  <2>1. \A m \in Maps : Sound(m, now, acked) => Sound(m, now', acked)
    BY <1>1, <1>4, SoundLater
  <2>2. \A b \in acked : /\ b.record.owner <= now' /\ b.record.updatedAt <= now'
    <3> SUFFICES ASSUME NEW b \in acked
                 PROVE  b.record.owner <= now' /\ b.record.updatedAt <= now'
      OBVIOUS
    <3>1. b.record.owner \in Nat /\ b.record.updatedAt \in Nat
      BY MaxNowIsNat DEF Record, Times
    <3> QED
      BY <1>1, <1>4, <3>1 DEF SoundOK
  <2>3. \A q \in Requests : req'[q] # Idle => Sound(req'[q].draft, now', acked)
    BY <1>2, <1>3, <1>4, <2>1 DEF SoundOK, Mutating
  <2> QED
    BY <2>1, <2>2, <2>3 DEF SoundOK
<1> QED
  BY <1>5, <1>6, <1>7, <1>8, <1>9

\* Every mutation is such a draft, with an owner and a password that are new or
\* those of a pending or active record (registry.go:148-369).
LEMMA MutationKeeps ==
    ASSUME IInv, NEW r \in Requests, NEW P \in Processes, NEW n \in Names,
           Mutation(r, P, n)
    PROVE  IInv'
<1>1. now < MaxNow /\ now \in Nat /\ now + 1 \in Times /\ 1 \in Times
  BY MaxNowIsNat DEF IInv, RegistryTypeOK, Mutation, Register, PrepareRegistration,
     CommitRegistration, Rotate, Revoke, Begin, Times
<1>2. Client(P, n) # None => Client(P, n) \in Record
  BY RecordType DEF IInv, RegistryTypeOK, Client
<1>3. CASE Register(r, P, n)
  <2> DEFINE c == Fresh(now + 1, "active")
  <2>1. c \in Record /\ c.updatedAt = now + 1 /\ c.owner = now + 1 /\ c.digest = now + 1
    BY <1>1 DEF Fresh, Record
  <2> QED
    BY <1>3, <2>1, BeginKeeps DEF Register
<1>4. CASE PrepareRegistration(r, P, n)
  <2> DEFINE o == IF HasStatus(Client(P, n), "pending") THEN Client(P, n).owner ELSE now + 1
             c == Fresh(o, "pending")
  <2>1. /\ o \in Times
        /\ \/ o = now + 1
           \/ /\ Client(P, n) # None /\ Client(P, n).status # "revoked"
              /\ o = Client(P, n).owner
    BY <1>1, <1>2 DEF HasStatus, Record
  <2> HIDE DEF o
  <2>2. c \in Record /\ c.updatedAt = now + 1 /\ c.owner = o /\ c.digest = now + 1
    BY <1>1, <2>1 DEF Fresh, Record
  <2>3. Begin(r, P, n, c)
    BY <1>4 DEF PrepareRegistration, o
  <2> HIDE DEF c
  <2> QED
    BY <2>1, <2>2, <2>3, BeginKeeps
<1>5. ASSUME NEW p \in Times, CommitRegistration(r, P, n, p) PROVE IInv'
  <2> DEFINE c == [Client(P, n) EXCEPT !.status = "active", !.updatedAt = now + 1]
  <2>1. Client(P, n) # None /\ Client(P, n).status # "revoked" /\ Client(P, n) \in Record
    BY <1>2, <1>5 DEF CommitRegistration, CredentialMatches, HasStatus
  <2>2. /\ c \in Record /\ c.updatedAt = now + 1
        /\ c.owner = Client(P, n).owner /\ c.digest = Client(P, n).digest
    BY <1>1, <2>1 DEF Record
  <2>3. Begin(r, P, n, c)
    BY <1>5 DEF CommitRegistration
  <2> HIDE DEF c
  <2> QED
    BY <2>1, <2>2, <2>3, BeginKeeps
<1>6. ASSUME NEW p \in Times, Rotate(r, P, n, p) PROVE IInv'
  <2> DEFINE c == [Client(P, n) EXCEPT !.digest = now + 1, !.generation = @ + 1,
                                       !.updatedAt = now + 1]
  <2>1. Client(P, n) # None /\ Client(P, n).status # "revoked" /\ Client(P, n) \in Record
    BY <1>2, <1>6 DEF Rotate, CredentialMatches, HasStatus
  <2>2. /\ c \in Record /\ c.updatedAt = now + 1
        /\ c.owner = Client(P, n).owner /\ c.digest = now + 1
    <3>1. Client(P, n).generation + 1 \in Nat
      BY <2>1 DEF Record
    <3> QED
      BY <1>1, <2>1, <3>1 DEF Record
  <2>3. Begin(r, P, n, c)
    BY <1>6 DEF Rotate
  <2> HIDE DEF c
  <2> QED
    BY <2>1, <2>2, <2>3, BeginKeeps
<1>7. ASSUME NEW p \in Times, Revoke(r, P, n, p) PROVE IInv'
  <2> DEFINE c == [Client(P, n) EXCEPT !.status = "revoked", !.updatedAt = now + 1]
  <2>1. Client(P, n) # None /\ Client(P, n).status # "revoked" /\ Client(P, n) \in Record
    BY <1>2, <1>7 DEF Revoke, CredentialMatches, HasStatus
  <2>2. /\ c \in Record /\ c.updatedAt = now + 1
        /\ c.owner = Client(P, n).owner /\ c.digest = Client(P, n).digest
    BY <1>1, <2>1 DEF Record
  <2>3. Begin(r, P, n, c)
    BY <1>7 DEF Revoke
  <2> HIDE DEF c
  <2> QED
    BY <2>1, <2>2, <2>3, BeginKeeps
<1> QED
  BY <1>3, <1>4, <1>5, <1>6, <1>7 DEF Mutation

-----------------------------------------------------------------------------
(* The theorems                                                            *)

\* Nothing is stored, served or acknowledged at first (registry.go:105-146).
LEMMA InitIInv == Init => IInv
<1> SUFFICES ASSUME Init PROVE IInv
  OBVIOUS
<1>1. RegistryTypeOK
  BY MaxNowIsNat, EmptyIsSound DEF Init, RegistryTypeOK
<1>2. LockOK /\ WriteMuOK
  BY NoneIsNil DEF Init, LockOK, WriteMuOK
<1>3. DiskOK /\ SoundOK
  BY DEF Init, DiskOK, MemoryIsDisk, SoundOK
<1> QED
  BY <1>1, <1>2, <1>3 DEF IInv

\* Every step of servers, mutations and crashes keeps the invariant
\* (registry.go:105-530).
LEMMA NextIInv == IInv /\ [Next]_vars => IInv'
<1> SUFFICES ASSUME IInv, [Next]_vars PROVE IInv'
  OBVIOUS
<1>1. ASSUME NEW P \in Processes, ProcessStep(P) \/ ProcessDies(P) PROVE IInv'
  BY <1>1, OpenRegistryKeeps, LoadKeeps, CreateFileKeeps, SyncCreatedKeeps,
     CloseKeeps, ProcessDiesKeeps
     DEF ProcessStep
<1>2. ASSUME NEW r \in Requests, NEW P \in Processes, NEW n \in Names, Mutation(r, P, n)
      PROVE  IInv'
  BY <1>2, MutationKeeps
<1>3. ASSUME NEW r \in Requests, PersistStep(r) PROVE IInv'
  BY <1>3, PersistFailsKeeps, RenameKeeps, SyncDirectoryKeeps, PublishKeeps
     DEF PersistStep
<1>4. CASE PowerFails
  BY <1>4, PowerFailsKeeps
<1>5. CASE UNCHANGED vars
  BY <1>5 DEF vars, IInv, RegistryTypeOK, LockOK, WriteMuOK, DiskOK, MemoryIsDisk, SoundOK
<1> QED
  BY <1>1, <1>2, <1>3, <1>4, <1>5 DEF Next

\* The inductive invariant holds of every execution of the registry's servers
\* (registry.go).
THEOREM Invariance == Spec => []IInv
BY InitIInv, NextIInv, PTL DEF Spec

\* Every variable keeps its type (registry.go:40-62).
THEOREM TypeCorrect == Spec => []RegistryTypeOK
<1>1. IInv => RegistryTypeOK
  BY DEF IInv
<1> QED
  BY <1>1, Invariance, PTL

\* No mutation is computed from clients that are not on disk
\* (registry.go:461-474).
THEOREM MemoryIsDiskHolds == Spec => []MemoryIsDisk
<1>1. IInv => MemoryIsDisk
  BY DEF IInv, DiskOK
<1> QED
  BY <1>1, Invariance, PTL

\* What a mutation acknowledged survives crashes and power failures
\* (registry.go:461-530).
THEOREM AckedSurvivesHolds == Spec => []AckedSurvives
<1>1. IInv => AckedSurvives
  BY DEF IInv, SoundOK, Sound, Keeps, AckedSurvives
<1> QED
  BY <1>1, Invariance, PTL

\* No server accepts a password that an acknowledged mutation took back, not
\* after a restart either (registry.go:310-369).
THEOREM RetiredNeverAcceptedHolds == Spec => []RetiredNeverAccepted
<1>1. ASSUME NEW m, NEW t \in Nat, Sound(m, t, acked), m \in Maps, RegistryTypeOK,
             NEW n \in Names, HasStatus(m[n], "active") \/ HasStatus(m[n], "pending")
      PROVE  m[n].digest \notin Retired(n)
  <2> SUFFICES ASSUME NEW b \in acked, b.name = n, m[n].digest \in Times,
                      m[n].digest <= b.record.updatedAt,
                      m[n].digest # b.record.digest \/ b.record.status = "revoked"
               PROVE  FALSE
    BY DEF Retired
  <2>1. Keeps(m, b)
    BY <1>1 DEF Sound
  <2>2. b.record \in Record /\ b.record.updatedAt \in Nat /\ m[n].digest \in Nat
    BY <1>1, MaxNowIsNat DEF RegistryTypeOK, Record, Times
  <2> QED
    BY <1>1, <2>1, <2>2 DEF Keeps, HasStatus
<1>2. IInv => RetiredNeverAccepted
  BY <1>1, MaxNowIsNat DEF IInv, RegistryTypeOK, SoundOK, RetiredNeverAccepted
<1> QED
  BY <1>2, Invariance, PTL

\* An owner identity that was revoked never owns anything again
\* (registry.go:148-268, 346-369).
THEOREM RevokedOwnerStaysGoneHolds == Spec => []RevokedOwnerStaysGone
<1>1. IInv => RevokedOwnerStaysGone
  BY DEF IInv, SoundOK, Sound, Keeps, RevokedOwnerStaysGone
<1> QED
  BY <1>1, Invariance, PTL

-----------------------------------------------------------------------------
(* Refinement                                                              *)

\* A draft is the server's clients with a lawful successor for one of them.
DraftOK ==
    \A r \in Requests : req[r] # Idle =>
        \E c \in Clients!Successors(Client(req[r].process, req[r].name), now) :
            req[r].draft = [clients[req[r].process] EXCEPT ![req[r].name] = c]

\* What the map of clients is, with a mutation under way and without one.
MapOK ==
    /\ \A r \in Requests : req[r] # Idle =>
          /\ proc[req[r].process] = "open" /\ lock = req[r].process
          /\ \A P \in Processes : P # req[r].process => proc[P] = "down"
          /\ \A q \in Requests : q # r => req[q] = Idle
          /\ View = clients[req[r].process]
          /\ Newest = now - 1
          /\ Stable = IF req[r].pc = "synced" THEN View ELSE AsMap(durable)
    /\ (\A r \in Requests : req[r] = Idle) =>
          View = AsMap(file) /\ Newest = now /\ Stable = AsMap(durable)

\* There is at most one mutation under way, and none means that memory is the
\* file (registry.go:105-127, 461-474).
LEMMA MapHolds == IInv => MapOK
<1> SUFFICES ASSUME IInv PROVE MapOK
  OBVIOUS
<1> USE NoneIsNil DEF IInv, RegistryTypeOK
<1>1. ASSUME NEW r \in Requests, req[r] # Idle
      PROVE  /\ proc[req[r].process] = "open" /\ lock = req[r].process
             /\ \A P \in Processes : P # req[r].process => proc[P] = "down"
             /\ \A q \in Requests : q # r => req[q] = Idle
             /\ View = clients[req[r].process]
             /\ Newest = now - 1
             /\ Stable = IF req[r].pc = "synced" THEN View ELSE AsMap(durable)
  <2> DEFINE P == req[r].process
  <2>1. P \in Processes /\ writeMu[P] = r
    BY <1>1 DEF WriteMuOK, Mutating
  <2>2. proc[P] = "open"
    BY <2>1 DEF WriteMuOK
  <2>3. lock = P /\ \A Q \in Processes : Q # P => proc[Q] = "down"
    BY <2>1, <2>2 DEF LockOK
  <2>4. \A q \in Requests : q # r => req[q] = Idle
    <3> SUFFICES ASSUME NEW q \in Requests, req[q] # Idle PROVE q = r
      OBVIOUS
    <3>1. req[q].process \in Processes /\ writeMu[req[q].process] = q
      BY DEF WriteMuOK, Mutating
    <3>2. proc[req[q].process] = "open"
      BY <3>1 DEF WriteMuOK
    <3> QED
      BY <2>1, <2>3, <3>1, <3>2
  <2>5. View = clients[P]
    BY <2>1, <2>2, <2>3 DEF View
  <2>6. Newest = now - 1
    BY <1>1 DEF Newest
  <2>7. (\E q \in Requests : req[q].pc = "synced") <=> req[r].pc = "synced"
    BY <2>4 DEF Idle
  <2> QED
    BY <2>2, <2>3, <2>4, <2>5, <2>6, <2>7 DEF Stable
<1>2. ASSUME \A r \in Requests : req[r] = Idle
      PROVE  View = AsMap(file) /\ Newest = now /\ Stable = AsMap(durable)
  <2>1. \A P \in Processes : writeMu[P] = None
    BY <1>2 DEF WriteMuOK
  <2>2. \A P \in Processes : proc[P] = "open" => clients[P] = AsMap(file)
    BY <2>1 DEF DiskOK, MemoryIsDisk, AsMap
  <2>3. View = AsMap(file)
    BY <2>2 DEF View
  <2> QED
    BY <1>2, <2>3 DEF Newest, Stable, Idle
<1> QED
  BY <1>1, <1>2 DEF MapOK

\* The same of the state after a step (registry.go:105-127, 461-474).
LEMMA MapHoldsNext == IInv' => MapOK'
BY MapHolds, PTL

\* A server that is being opened, or whose write lock is free, leaves no mutation
\* under way anywhere (registry.go:105-127, 371-392).
LEMMA NoneUnderWay ==
    ASSUME IInv, NEW P \in Processes,
           writeMu[P] = None \/ proc[P] # "open", proc[P] = "down" => lock = None
    PROVE  \A r \in Requests : req[r] = Idle
<1> SUFFICES ASSUME NEW r \in Requests, req[r] # Idle PROVE FALSE
  OBVIOUS
<1>1. proc[req[r].process] = "open" /\ lock = req[r].process
      /\ \A Q \in Processes : Q # req[r].process => proc[Q] = "down"
  BY MapHolds DEF MapOK
<1>2. req[r].process \in Processes /\ writeMu[req[r].process] = r
  BY DEF IInv, WriteMuOK, RegistryTypeOK, Mutating
<1>3. P = req[r].process
  BY <1>1, <1>2, NoneIsNil
<1> QED
  BY <1>1, <1>2, <1>3, NoneIsNil

\* While no mutation is under way, and none begins, only the file and what is
\* behind it matter (registry.go:105-146, 371-392).
LEMMA OpeningStutters ==
    ASSUME IInv, IInv', NEW P \in Processes, ProcessStep(P)
    PROVE  [Clients!Next]_Clients!vars
<1> USE NoneIsNil
<1>1. MapOK /\ MapOK'
  BY MapHolds, MapHoldsNext
<1>2. \A r \in Requests : req[r] = Idle
  <2>1. writeMu[P] = None \/ proc[P] # "open"
    BY DEF ProcessStep, OpenRegistry, Load, CreateFile, SyncCreated, Close
  <2>2. proc[P] = "down" => lock = None
    BY DEF ProcessStep, OpenRegistry, Load, CreateFile, SyncCreated, Close
  <2> QED
    BY <2>1, <2>2, NoneUnderWay
<1>3. UNCHANGED <<req, now, acked>>
  BY DEF ProcessStep, OpenRegistry, Load, CreateFile, SyncCreated, Close
<1>4. /\ View = AsMap(file) /\ Newest = now /\ Stable = AsMap(durable)
      /\ View' = AsMap(file') /\ Newest' = now /\ Stable' = AsMap(durable')
  BY <1>1, <1>2, <1>3 DEF MapOK, AsMap
<1>5. Empty # None
  BY EmptyIsSound
<1>6. AsMap(file') = AsMap(file)
  BY <1>5 DEF ProcessStep, OpenRegistry, Load, CreateFile, SyncCreated, Close, AsMap
<1>7. AsMap(durable') \in {AsMap(durable), AsMap(file)}
  BY DEF ProcessStep, OpenRegistry, Load, CreateFile, SyncCreated, Close
<1>8. Clients!Settle
  BY <1>3, <1>4, <1>6, <1>7 DEF Clients!Settle
<1> QED
  BY <1>8 DEF Clients!Next

\* Every mutation starts with a lawful successor of its client's record, as the
\* server knows it (registry.go:148-369).
LEMMA MutationBegins ==
    ASSUME IInv, NEW r \in Requests, NEW P \in Processes, NEW n \in Names,
           Mutation(r, P, n)
    PROVE  \E c \in Clients!Successors(Client(P, n), now + 1) : Begin(r, P, n, c)
<1> USE DEF Clients!Successors, Clients!New, Fresh
<1>1. CASE Register(r, P, n)
  <2> DEFINE c == Fresh(now + 1, "active")
  <2>1. c \in Clients!Successors(Client(P, n), now + 1)
    BY <1>1 DEF Register, HasStatus
  <2> QED
    BY <1>1, <2>1 DEF Register
<1>2. CASE PrepareRegistration(r, P, n)
  <2> DEFINE c == Fresh(IF HasStatus(Client(P, n), "pending")
                          THEN Client(P, n).owner ELSE now + 1, "pending")
  <2>1. Client(P, n) # None => Client(P, n).status \in {"pending", "active", "revoked"}
    BY RecordType DEF IInv, RegistryTypeOK, Client, Record
  <2>2. c \in Clients!Successors(Client(P, n), now + 1)
    BY <1>2, <2>1 DEF PrepareRegistration, HasStatus
  <2> QED
    BY <1>2, <2>2 DEF PrepareRegistration
<1>3. ASSUME NEW p \in Times, CommitRegistration(r, P, n, p)
      PROVE  \E c \in Clients!Successors(Client(P, n), now + 1) : Begin(r, P, n, c)
  BY <1>3 DEF CommitRegistration, CredentialMatches, HasStatus
<1>4. ASSUME NEW p \in Times, Rotate(r, P, n, p)
      PROVE  \E c \in Clients!Successors(Client(P, n), now + 1) : Begin(r, P, n, c)
  BY <1>4 DEF Rotate, CredentialMatches, HasStatus
<1>5. ASSUME NEW p \in Times, Revoke(r, P, n, p)
      PROVE  \E c \in Clients!Successors(Client(P, n), now + 1) : Begin(r, P, n, c)
  BY <1>5 DEF Revoke, CredentialMatches, HasStatus
<1> QED
  BY <1>1, <1>2, <1>3, <1>4, <1>5 DEF Mutation

\* A mutation that begins has no effect yet (registry.go:148-369).
LEMMA BeginningStutters ==
    ASSUME IInv, IInv', NEW r \in Requests, NEW P \in Processes, NEW n \in Names,
           NEW c, Begin(r, P, n, c)
    PROVE  UNCHANGED Clients!vars
<1> USE NoneIsNil
<1>1. MapOK /\ MapOK'
  BY MapHolds, MapHoldsNext
<1>2. req'[r].pc = "writing" /\ req'[r].process = P /\ req'[r] # Idle /\ now' = now + 1
  BY DEF Begin, IInv, RegistryTypeOK, Idle
<1>3. \A q \in Requests : req[q] = Idle
  BY NoneUnderWay DEF Begin
<1>4. View' = clients[P] /\ Newest' = now' - 1 /\ Stable' = AsMap(durable)
  BY <1>1, <1>2 DEF MapOK, Begin, AsMap
<1>5. View = AsMap(file) /\ Newest = now /\ Stable = AsMap(durable)
  BY <1>1, <1>3 DEF MapOK
<1>6. clients[P] = AsMap(file)
  BY DEF Begin, IInv, DiskOK, MemoryIsDisk, AsMap
<1>7. now' - 1 = now
  BY <1>2, MaxNowIsNat DEF IInv, RegistryTypeOK
<1> QED
  BY <1>4, <1>5, <1>6, <1>7 DEF Clients!vars, Begin

\* The draft of a mutation under way stays a lawful one until the mutation is
\* over, since no other has the lock (registry.go:461-474).
LEMMA DraftKeeps ==
    ASSUME IInv, IInv', DraftOK, [Next]_vars
    PROVE  DraftOK'
<1> USE NoneIsNil DEF Client
<1>1. MapOK
  BY MapHolds
<1>2. ASSUME NEW P \in Processes, ProcessStep(P) PROVE DraftOK'
  <2>1. writeMu[P] = None \/ proc[P] # "open"
    BY <1>2 DEF ProcessStep, OpenRegistry, Load, CreateFile, SyncCreated, Close
  <2>2. proc[P] = "down" => lock = None
    BY <1>2 DEF ProcessStep, OpenRegistry, Load, CreateFile, SyncCreated, Close
  <2>3. \A r \in Requests : req[r] = Idle
    BY <2>1, <2>2, NoneUnderWay
  <2>4. UNCHANGED req
    BY <1>2 DEF ProcessStep, OpenRegistry, Load, CreateFile, SyncCreated, Close
  <2> QED
    BY <2>3, <2>4 DEF DraftOK
<1>3. ASSUME NEW P \in Processes, ProcessDies(P) PROVE DraftOK'
  BY <1>3 DEF DraftOK, ProcessDies, Die, IInv, RegistryTypeOK
<1>4. CASE PowerFails
  BY <1>4 DEF DraftOK, PowerFails, Die, IInv, RegistryTypeOK, Mutating
<1>5. ASSUME NEW r \in Requests, NEW P \in Processes, NEW n \in Names, Mutation(r, P, n)
      PROVE  DraftOK'
  <2>1. PICK c \in Clients!Successors(clients[P][n], now + 1) : Begin(r, P, n, c)
    BY <1>5, MutationBegins
  <2>2. /\ req' = [req EXCEPT ![r] = [pc |-> "writing", process |-> P, name |-> n,
                                      draft |-> [clients[P] EXCEPT ![n] = c]]]
        /\ now' = now + 1 /\ clients' = clients
    BY <2>1 DEF Begin
  <2>3. \A q \in Requests : req[q] = Idle
    BY <2>1, NoneUnderWay DEF Begin
  <2>4. /\ req'[r].process = P /\ req'[r].name = n
        /\ req'[r].draft = [clients'[P] EXCEPT ![n] = c]
        /\ \A q \in Requests : q # r => req'[q] = Idle
    BY <2>2, <2>3 DEF IInv, RegistryTypeOK
  <2> QED
    BY <2>1, <2>2, <2>4 DEF DraftOK
<1>6. ASSUME NEW r \in Requests, PersistStep(r) PROVE DraftOK'
  <2>1. req[r] # Idle /\ \A q \in Requests : q # r => req[q] = Idle
    BY <1>1, <1>6 DEF PersistStep, PersistFails, Rename, SyncDirectory, Publish, Idle, MapOK
  <2>2. CASE PersistFails(r) \/ Publish(r)
    BY <2>1, <2>2 DEF DraftOK, PersistFails, Publish, Reply, IInv, RegistryTypeOK
  <2>3. CASE Rename(r) \/ SyncDirectory(r)
    <3>1. /\ req'[r].process = req[r].process /\ req'[r].name = req[r].name
          /\ req'[r].draft = req[r].draft
          /\ \A q \in Requests : q # r => req'[q] = req[q]
          /\ UNCHANGED <<now, clients>>
      BY <2>1, <2>3 DEF Rename, SyncDirectory, IInv, RegistryTypeOK, Mutating
    <3> QED
      BY <2>1, <3>1 DEF DraftOK
  <2> QED
    BY <1>6, <2>2, <2>3 DEF PersistStep
<1>7. CASE UNCHANGED vars
  BY <1>7 DEF DraftOK, vars
<1> QED
  BY <1>2, <1>3, <1>4, <1>5, <1>6, <1>7 DEF Next

\* A mutation under way takes effect when its draft becomes the map, whether it
\* is published or a crash leaves nothing but the file (registry.go:461-474).
LEMMA TakesEffect ==
    ASSUME IInv, DraftOK, NEW r \in Requests, req[r] # Idle,
           View' = req[r].draft, Newest' = now,
           \/ Stable' = Stable /\ acked' = acked
           \/ /\ Stable' = View'
              /\ acked' \in {acked, acked \cup {[name |-> req[r].name,
                                                 record |-> req[r].draft[req[r].name]]}}
    PROVE  Clients!Next
<1> DEFINE n == req[r].name  P == req[r].process
<1>1. n \in Names /\ P \in Processes /\ clients[P] \in Maps
  BY DEF IInv, RegistryTypeOK, Mutating
<1>2. View = clients[P] /\ Newest = now - 1
  BY MapHolds DEF MapOK
<1>3. Newest' = Newest + 1 /\ now = Newest + 1
  BY <1>2, MaxNowIsNat DEF IInv, RegistryTypeOK
<1>4. PICK c \in Clients!Successors(View[n], Newest + 1) :
         req[r].draft = [View EXCEPT ![n] = c]
  BY <1>2, <1>3 DEF DraftOK, Client
<1>5. req[r].draft[n] = c
  BY <1>1, <1>2, <1>4 DEF Maps
<1>6. Clients!Change(n)
  BY <1>3, <1>4, <1>5 DEF Clients!Change
<1> QED
  BY <1>1, <1>6 DEF Clients!Next

\* A mutation persists: the file changes first, the map when it is published
\* (registry.go:461-530).
LEMMA PersistingRefines ==
    ASSUME IInv, IInv', DraftOK, NEW r \in Requests, PersistStep(r)
    PROVE  [Clients!Next]_Clients!vars
<1> USE NoneIsNil
<1> DEFINE P == req[r].process
<1>1. MapOK /\ MapOK'
  BY MapHolds, MapHoldsNext
<1>2. req[r] # Idle /\ req[r] \in Mutating
  BY DEF PersistStep, PersistFails, Rename, SyncDirectory, Publish, Idle, IInv, RegistryTypeOK
<1>3. /\ View = clients[P] /\ Newest = now - 1
      /\ Stable = IF req[r].pc = "synced" THEN View ELSE AsMap(durable)
      /\ \A q \in Requests : q # r => req[q] = Idle
  BY <1>1, <1>2 DEF MapOK
<1>4. now = Newest + 1 /\ now \in Nat
  BY <1>3, MaxNowIsNat DEF IInv, RegistryTypeOK
<1>5. req[r].draft # None /\ req[r].draft \in Maps
  BY <1>2 DEF Mutating
<1>6. ASSUME req' = [req EXCEPT ![r] = Idle], UNCHANGED <<now, file, durable>>
      PROVE  View' = AsMap(file) /\ Newest' = now /\ Stable' = AsMap(durable)
  <2>1. \A q \in Requests : req'[q] = Idle
    BY <1>3, <1>6 DEF IInv, RegistryTypeOK
  <2> QED
    BY <1>1, <1>6, <2>1 DEF MapOK, AsMap
<1>7. CASE PersistFails(r)
  <2>1. clients[P] = file /\ file # None
    BY <1>2, <1>7 DEF PersistFails, IInv, DiskOK, RegistryTypeOK, Mutating
  <2>2. View' = View /\ Newest' = Newest + 1 /\ Stable' = Stable /\ acked' = acked
    BY <1>3, <1>4, <1>6, <1>7, <2>1 DEF PersistFails, AsMap
  <2> QED
    BY <2>2 DEF Clients!Settle, Clients!Next
<1>8. ASSUME NEW pc \in {"renamed", "synced", "committed"},
             req' = [req EXCEPT ![r].pc = pc], UNCHANGED <<now, clients>>
      PROVE  /\ View' = View /\ Newest' = Newest
             /\ Stable' = IF pc = "synced" THEN View ELSE AsMap(durable')
  <2>1. req'[r].pc = pc /\ req'[r].process = P /\ req'[r] # Idle
    BY <1>2, <1>8 DEF IInv, RegistryTypeOK, Idle, Mutating
  <2>2. View' = clients'[P] /\ Newest' = now' - 1
        /\ Stable' = IF pc = "synced" THEN View' ELSE AsMap(durable')
    BY <1>1, <2>1 DEF MapOK, AsMap
  <2> QED
    BY <1>3, <1>8, <2>2
<1>9. CASE Rename(r)
  <2>1. View' = View /\ Newest' = Newest /\ Stable' = AsMap(durable)
    BY <1>8, <1>9 DEF Rename
  <2>2. Stable' = Stable /\ acked' = acked
    BY <1>3, <1>9, <2>1 DEF Rename
  <2> QED
    BY <2>1, <2>2 DEF Clients!vars
<1>10. CASE SyncDirectory(r)
  <2>1. View' = View /\ Newest' = Newest /\ acked' = acked
    BY <1>8, <1>10 DEF SyncDirectory
  <2>2. Stable' \in {Stable, View}
    <3>1. Stable = AsMap(durable)
      BY <1>3, <1>10 DEF SyncDirectory
    <3>2. Stable' = View \/ Stable' = AsMap(durable)
      BY <1>8, <1>10 DEF SyncDirectory, AsMap
    <3> QED
      BY <3>1, <3>2
  <2> QED
    BY <2>1, <2>2 DEF Clients!Settle, Clients!Next
<1>11. CASE Publish(r)
  <2>1. file = req[r].draft /\ (req[r].pc = "synced" => durable = file)
    BY <1>2, <1>11 DEF Publish, IInv, DiskOK
  <2>2. View' = req[r].draft /\ Newest' = now /\ Stable' = AsMap(durable)
    BY <1>5, <1>6, <1>11, <2>1 DEF Publish, Reply, AsMap
  <2>3. CASE req[r].pc = "synced"
    <3>1. Stable' = View'
      BY <1>5, <2>1, <2>2, <2>3 DEF AsMap
    <3>2. acked' = acked \cup {[name |-> req[r].name, record |-> req[r].draft[req[r].name]]}
      BY <1>11, <2>3 DEF Publish, Reply
    <3> QED
      BY <1>2, <2>2, <3>1, <3>2, TakesEffect
  <2>4. CASE req[r].pc = "committed"
    <3>1. Stable' = Stable /\ acked' = acked
      BY <1>3, <1>11, <2>2, <2>4 DEF Publish, Reply
    <3> QED
      BY <1>2, <2>2, <3>1, TakesEffect
  <2> QED
    BY <1>11, <2>3, <2>4 DEF Publish
<1> QED
  BY <1>7, <1>9, <1>10, <1>11 DEF PersistStep

\* When a server or the machine dies, a change that is in the file takes effect,
\* and one that is not on disk may be lost with the power (registry.go:522-529).
LEMMA DyingRefines ==
    ASSUME IInv, IInv', DraftOK, PowerFails \/ \E P \in Processes : ProcessDies(P)
    PROVE  [Clients!Next]_Clients!vars
<1> USE NoneIsNil
<1>1. MapOK /\ MapOK'
  BY MapHolds, MapHoldsNext
<1>2. \A r \in Requests : req[r] # Idle => req[r] \in Mutating
  BY DEF IInv, RegistryTypeOK
<1>3. \A r \in Requests : req'[r] = Idle
  <2>1. CASE PowerFails
    BY <1>2, <2>1 DEF PowerFails, Die, Mutating
  <2>2. ASSUME NEW P \in Processes, ProcessDies(P), NEW r \in Requests
        PROVE  req'[r] = Idle
    <3>1. req[r] # Idle => req[r].process = P
      BY <1>1, <2>2 DEF MapOK, ProcessDies
    <3> QED
      BY <2>2, <3>1 DEF ProcessDies, Die
  <2> QED
    BY <2>1, <2>2
<1>4. now' = now /\ clients' = clients /\ acked' = acked
      /\ \/ file' = file /\ durable' = durable
         \/ file' = file /\ durable' = file
         \/ file' = durable /\ durable' = durable
  BY DEF PowerFails, ProcessDies
<1>5. View' = AsMap(file') /\ Newest' = now /\ Stable' = AsMap(durable')
  BY <1>1, <1>3, <1>4 DEF MapOK, AsMap
<1>6. now \in Nat
  BY MaxNowIsNat DEF IInv, RegistryTypeOK
<1>7. CASE \A r \in Requests : req[r] = Idle
  <2>1. View = AsMap(file) /\ Newest = now /\ Stable = AsMap(durable)
    BY <1>1, <1>7 DEF MapOK
  <2> QED
    BY <1>4, <1>5, <2>1 DEF Clients!Settle, Clients!Lose, Clients!Next, Clients!vars
<1>8. ASSUME NEW r \in Requests, req[r] # Idle
      PROVE  [Clients!Next]_Clients!vars
  <2> DEFINE d == req[r].draft
  <2>1. /\ View = clients[req[r].process] /\ Newest = now - 1
        /\ Stable = IF req[r].pc = "synced" THEN View ELSE AsMap(durable)
    BY <1>1, <1>8 DEF MapOK
  <2>2. Newest' = Newest + 1
    BY <1>5, <1>6, <2>1
  <2>3. d \in Maps /\ d # None
    BY <1>2, <1>8 DEF Mutating
  <2>4. CASE req[r].pc = "writing"
    <3>1. View = AsMap(file) /\ Stable = AsMap(durable)
      <4>1. req[r].process \in Processes /\ clients[req[r].process] \in Maps
        BY <1>2, <1>8 DEF IInv, RegistryTypeOK, Mutating
      <4>2. clients[req[r].process] = file
        BY <1>8, <2>4 DEF IInv, DiskOK
      <4> QED
        BY <2>1, <2>4, <4>1, <4>2 DEF AsMap
    <3> QED
      BY <1>4, <1>5, <2>2, <3>1 DEF Clients!Settle, Clients!Lose, Clients!Next
  <2>5. CASE req[r].pc # "writing" /\ file' = file
    <3>1. file = d /\ (req[r].pc = "synced" => durable = d)
      BY <1>8, <2>5 DEF IInv, DiskOK
    <3>2. View' = d
      BY <1>5, <2>3, <2>5, <3>1 DEF AsMap
    <3>3. Stable' = Stable \/ Stable' = View'
      BY <1>4, <1>5, <2>1, <3>1, <3>2, <2>5
    <3> QED
      BY <1>4, <1>5, <1>8, <3>2, <3>3, TakesEffect
  <2>6. CASE req[r].pc # "writing" /\ file' = durable /\ durable' = durable
    <3>1. CASE req[r].pc = "synced"
      <4>1. file' = file
        BY <1>8, <2>6, <3>1 DEF IInv, DiskOK
      <4> QED
        BY <2>5, <2>6, <4>1
    <3>2. CASE req[r].pc # "synced"
      <4>1. View' = Stable /\ Stable' = Stable
        BY <1>5, <2>1, <2>6, <3>2
      <4> QED
        BY <1>4, <2>2, <4>1 DEF Clients!Lose, Clients!Next
    <3> QED
      BY <3>1, <3>2
  <2> QED
    BY <1>4, <2>4, <2>5, <2>6
<1> QED
  BY <1>7, <1>8

\* Nothing is registered at first (registry.go:105-146).
LEMMA InitRefines == Init => Clients!Init /\ DraftOK
<1> SUFFICES ASSUME Init PROVE Clients!Init /\ DraftOK
  OBVIOUS
<1>1. View = Empty /\ Stable = Empty /\ Newest = 0
  BY NoneIsNil DEF Init, View, Stable, Newest, AsMap, Idle
<1> QED
  BY <1>1 DEF Init, Clients!Init, Empty, DraftOK

\* The registry, with all its servers, files and crashes, is one map of clients
\* that each mutation changes at one moment (registry.go:148-369, 461-530).
THEOREM Refinement == Spec => ImplementsClientMap
<1>1. IInv /\ DraftOK /\ [Next]_vars => DraftOK' /\ [Clients!Next]_Clients!vars
  <2> SUFFICES ASSUME IInv, DraftOK, [Next]_vars
               PROVE  DraftOK' /\ [Clients!Next]_Clients!vars
    OBVIOUS
  <2>1. IInv'
    BY NextIInv
  <2>2. DraftOK'
    BY <2>1, DraftKeeps
  <2>3. ASSUME NEW P \in Processes, ProcessStep(P)
        PROVE  [Clients!Next]_Clients!vars
    BY <2>1, <2>3, OpeningStutters
  <2>4. CASE PowerFails \/ \E P \in Processes : ProcessDies(P)
    BY <2>1, <2>2, <2>4, DyingRefines
  <2>5. ASSUME NEW r \in Requests, NEW P \in Processes, NEW n \in Names, Mutation(r, P, n)
        PROVE  [Clients!Next]_Clients!vars
    <3>1. PICK c : Begin(r, P, n, c)
      BY <2>5, MutationBegins
    <3> QED
      BY <2>1, <3>1, BeginningStutters
  <2>6. ASSUME NEW r \in Requests, PersistStep(r)
        PROVE  [Clients!Next]_Clients!vars
    BY <2>1, <2>6, PersistingRefines
  <2>7. CASE UNCHANGED vars
    BY <2>2, <2>7 DEF vars, Clients!vars, View, Stable, Newest, AsMap
  <2> QED
    BY <2>2, <2>3, <2>4, <2>5, <2>6, <2>7 DEF Next
<1> QED
  BY <1>1, InitRefines, Invariance, PTL DEF Spec, ImplementsClientMap, Clients!Spec

=============================================================================
