# A TLA+ model of ptymux

ptymux keeps interactive shells alive behind named *targets*
(`session/pane/tab`) and lets other programs run commands in them, send keys,
read the screen and follow the output. A daemon on a Unix socket serves the
local command line; a server with the same core serves registered clients over
WebSockets; the package `pty` embeds the core in another program.

This directory models the concurrent core of the Go code under `src/`. Modules
are checked by TLC on small instances; every safety and action property that the passing
runs check of the eight modules that model the concurrent core is also proved with TLAPS
for all values of their constants. `PROJECT.json` names, for every
definition that models code, the lines it models, and lists the hazards that the
properties are for.

## 1. The system

### 1.1 Components, their state and their operations

| component | source | state | operations that change it | model |
|---|---|---|---|---|
| target store | `internal/server/store.go` | the maps session → pane → tab, `starting`, per tab `active` and `LastUsedAt` | get or create, begin and finish a use, touch, kill, close all, idle sweep, the goroutine that removes a tab whose shell exited | `TargetStore`, `TargetLifecycle` |
| service | `internal/server/service.go` | `stopping`, `operations`, `lifecycleMu` | every request, stream, stop admission, wait | `Service`, `ServiceContract` |
| local daemon | `internal/server/daemon.go` | tracked connections, `stopping`, listener, `stopAck`, `lastActivity` | accept, handle, request stop, idle cleanup, drain | `Daemon` |
| socket path | `internal/server/socket.go` | the object at the path, the inode the daemon created | prepare, listen, cleanup | `SocketPath` |
| shell runner | `internal/server/tab.go` | subscribers, `commandMu`, `closed`, the PTY's descriptor | run, send, follow, the read loop, close | `PTYRunner` |
| client registry | `internal/remote/registry.go` | the clients in memory, the file, its lock | register, prepare and commit a registration, rotate, revoke, open, close | `Registry`, `ClientMap` |
| remote server | `internal/remote/server.go` | connections, reservations, services per owner, `lifecycleMu`, create locks | connect, rotate, revoke, create, close, shut down | `RemoteServer` |
| output of one WebSocket | `internal/remote/server.go:697-1038` | `byteQueue`, `closeReq`, `done`, `following` | read and handle a request, enqueue, write loop, follow, signal a close, stop | `WSConnection` |
| remote client | `internal/remote/client.go` | one request and its answer, a follow | unary, follow; management over HTTP | `WSConnection` (unary, follow) |
| rate limits | `internal/remote/limiter.go`, `server.go:192-246` | token buckets, unauthenticated connections | allow, refund, prune, admit, release | not modelled |
| completion of a run | `tab.go:50-149` | `runCollector`: bytes kept back, status, output | consume a chunk | `RunCollector` |
| followed output | `tab.go:176-204`, `:771-863`, `cleaner.go` | `TerminalCleaner`, flush timer, `skipPrefixWriter` | write a chunk, flush | `OutputStream` |
| transcript | `transcript.go` | `ansiTranscript`: lines, the line being printed, style, alternate screen | write, recent lines | `Transcript` |
| screen, key names, formatting | `tab.go`, `transcript.go`, `keys.go` | none shared | pure functions on bytes | not modelled |
| local stream framing, daemon start | `local_stream.go`, `internal/app/client.go` | one stream; none | frames; start a daemon and dial | not modelled |
| identity, command line, configuration | `identity/`, `internal/app/`, `cmd/` | none | parsing and wiring | not modelled |

### 1.2 How they interact

* A request reaches `Service`, from a daemon handler, a WebSocket or an embedding
  program. The service admits it, begins a use of its target in the store, and
  works on the target's runner outside all locks.
* The store calls a runner's `Close` outside its lock, and each runner tells the
  store through `Done` that its shell has exited.
* The daemon's cleanup goroutine sweeps the store without being admitted as an
  operation. The daemon's shutdown is StopAdmission, CloseAll, WaitOperations and
  the wait for its handlers.
* The remote server holds one service per owner, made on demand. Rotation and
  revocation change the registry first and then, under `lifecycleMu`, the
  connections and services; creates and activations hold the same lock for reading.
* A WebSocket's read loop calls the service and enqueues the answer; a goroutine per
  follow enqueues output; one write loop writes. A rotation, a revocation or Shutdown
  signals the connection from outside. `run` returns to the remote server, which
  counts the connection until then.
* The runner's read loop hands every chunk to the transcript, under `stateMu`, and
  then to its subscribers: runs, which look for their marker in it, and followers,
  which clean it and pass it on.
* Several daemon processes may meet on one socket path, several servers on one
  registry file; only the second has a lock.

### 1.3 What is hard here

Concurrency: starts, kills, sweeps and exits of one target (store); an operation
admitted just before the shutdown (service); two clients that stop the daemon at
once (daemon); slow readers next to waiting ones (runner); a credential changed
while its connection is being set up (remote server); producers, a writer and a close
request at one queue (WebSocket output). Output is read in chunks that end anywhere,
inside a marker, a control sequence or a character, and three readers keep state
over the cuts. Failure: partial failure of
a close, a start that fails after it was canceled, a directory sync that fails
after the rename, crashes and power failures. Ordering and check-then-act: the
socket path's Lstat and Remove, the target limit and the create. Waiting: the stop
acknowledgement, `connChanged`, the writer's token, waiters on a start. `PROJECT.json` lists each at
its line.

What makes the components correct, in a line each: every shell has one party
that closes it; nothing starts once admission has stopped, and a shutdown ends
and leaves nothing; limits are exact; a waiter loses no output and an observer
blocks nobody; what a reader of output sees does not depend on how it was cut, but
for the exceptions named in section 3; a follow has no gaps and a request is answered or its connection ends; what was acknowledged survives and what was revoked never returns;
only stale sockets are removed, unless daemons start at the same moment.

## 2. The modules

```
TargetLifecycle  <-- refined by --  TargetStore  <-- EXTENDS --  Service
                                        ^                            ^
                                TargetStoreProofs  <-- EXTENDS --  ServiceProofs

Daemon      SocketPath      PTYRunner      Registry      RemoteServer      WSConnection
   ^            ^               ^              ^              ^                 ^
   +------------+---------------+---- EXTENDS -+--------------+-----------------+
DaemonProofs, SocketPathProofs, PTYRunnerProofs, RegistryProofs, RemoteServerProofs,
WSConnectionProofs

ServiceContract  <-- refined by --  Service
       ^----- its steps taken by --  Daemon

ClientMap  <-- refined by --  Registry

ShellOutput  -- EXTENDS -->  RunCollector, OutputStream, Transcript
                                 (each EXTENDS TerminalBytes)
```

Each `MC...` module extends its module for TLC and holds at most the symmetry
set or the inputs to enumerate; the constants are in the `.cfg` files. Definitions that are named "Variant" in
a comment are no part of any specification: each is a plausible bug of the action
next to it, kept to show that the property named for it in `PROJECT.json` ("mutants")
notices it.

The store's actions are the service's, so `Service` is the composition of store
and service. `Daemon` sees a service only through `ServiceContract`, which `Service`
implements. `RemoteServer` sees a service through what its properties promise
(admission, starts, CloseAll) and a registry as generations of credentials; those
abstractions are stated in the header of the module.

### 2.1 `TargetStore` and `TargetLifecycle`

A goroutine has a program counter `pc` through the method it is in; every critical
section of `Store.mu` and every piece of work between two sections is one action.
The pass through getOrCreate's creating branch has an identity, an *attempt*: the
`startingTarget`, the `Runner` and the `Tab` carry it, because the code compares
them by pointer. `tabs` is the three-level map, `starting` the map of starts,
`active` and `idle` are `Tab.active` and the age of `LastUsedAt`, `reaper` is the
`removeWhenDone` goroutine, `charge` what a closing method took out. `TypedNil`
says which kind of nil a failed factory returns.

`TargetLifecycle` is what the store promises: a shell is started for a target
that has none, serves or is abandoned, leaves once, and is disposed of. The store
implements it (`ImplementsLifecycle`, liveness included) under `currentBar` and
`stageBar`.

### 2.2 `Service` and `ServiceContract`

Adds `lifecycleMu`, `stopping`, the phase of every handler and the position of the
shutdown. A creating use takes the lock, calls the store and keeps the lock until
the store returns (`StoreStep`).

`ServiceContract` is what the owner of a service may rely on, in three variables:
operations are admitted until StopAdmission, the store becomes non-empty only by an
operation and only until then, and it may become empty at any time. `Service` implements
it (`ImplementsContract`) with `admitting` the negation of `stopping`, `Operating` the
handlers between beginOperation and operations.Done, and `Empty` as `Store.Empty`
computes it.

### 2.3 `Daemon`

A connection's state is where its handler goroutine is. `requestStop` is a
procedure of three steps that a handler, Serve or the cleanup goroutine may be in
(`requester`): stop admission, mark and take the acknowledgement channel under the
lock, close the listener. `closeReadingConnections` is two actions, its snapshot
and its closing. `cleanupIdle` is three: empty, age, request. While an operation is under
way the store changes as the contract of the service allows (`StoreChanges`), so that a
target may appear between any two of these steps.

### 2.4 `SocketPath`

One action per system call on the path, by any number of processes, with crashes
(`Crash`) and with others that put a file there or remove what is there
(`Interfere`). A socket is its inode number, and `Bind` may be given any number that no
open socket holds: a file system hands out again what was removed and closed, also a
number that a daemon still compares with. `elders` is a history variable: the daemons
that listened when a daemon was refused by its dial, or held a socket when it closed its own
listener, and have held theirs since.
`DaemonsOnly` is the specification without `Interfere`.

### 2.5 `PTYRunner`

Output is numbered chunks. `readLoop` reads, sleeps on EAGAIN, broadcasts from a
snapshot of the subscribers; subscribers have bounded channels; `Examine` and the
actions after it are the select of the consuming loops, where looking at the
channel and selecting are two steps. `fd` is what the descriptor *number* stands
for: the runner's PTY, nothing, or another file. What ends a wait (a completion
marker, a quiet period) is a free choice. A sender writes to the PTY and may then write to
its client before it looks at its channel: `ctrlCFollow` does so with `commandMu` still
held, `sendFollow` without. `Send`, `Text`, `Command` and `Keys` only write and subscribe
to nothing; they are no uses here.

### 2.6 `Registry` and `ClientMap`

A mutation makes a draft of the clients under `writeMu`, renames a file with it
into place, syncs the directory, publishes it in memory and replies. `file` is what
a process reads at the path and `durable` what a power failure may leave. `acked`
is a history variable, the records reported with a nil error.

`ClientMap` is what the registry promises: one map of clients (`view`); a mutation
changes one client in it at one moment, to a lawful successor of its record
(`Successors`); only a failure of the power sets the map back, to `stable`, and what was
promised is in `stable`. `Registry` implements it (`ImplementsClientMap`) with
`View`: what the server that has the registry open serves, or else what is in the file. A
mutation takes effect when it is published, or earlier if its server dies between the
rename and that. While the directory is synced and the draft not yet published, `Stable`
is still the old map, since nobody could see the draft. `Newest` counts the tokens of
mutations that are over.

### 2.7 `RemoteServer`

Connections from authentication through reservation, upgrade, second
authentication and activation to removal; creates under the read lock and the
owner's create lock; sends that may block in a shell; rotation and revocation;
Shutdown with its wait on `connChanged`, its timeouts, and the goroutine that
closes the services. Sections under the write lock of `lifecycleMu` are single
actions that need all read locks free.

### 2.8 `WSConnection`

One connection with all its goroutines and the program at its other end, which is
Unary, Follow or any peer (`call`). A *producer* is the read loop or the goroutine of a
follow; both go through `enqueue`, whose labels in `pc` are the places where the others
can come in between: after `isDone` (`push`), after the push and before the token
(`notify`), after a refusal and before `signalClose` (`refused`). `queue`, `bytes` and
`notify` are the `byteQueue`, `closeReq` and `done` the two channels of a close. The
writer is at the top of its loop, writing, in its select, or parked there: a Go select
that waits is handed what the next sender brings, one that arrives takes any ready
case. `wire` is what the client has not read yet, `open` whether the connection still
is. Write deadlines, the ticker and read deadlines are steps that may come at any time
they can. `isDone` is merged with the step before it and the arrival of a request
with its reading: nothing that another goroutine does tells the difference.

`ToldToCloseGoes` is what `RemoteServer` relies on when it assumes that a connection
that was told to close gets rid of its writer and its follows.

### 2.9 `RunCollector`, `OutputStream`, `Transcript` and `ShellOutput`

Functions over bytes with state between chunks, modelled at the level of bytes since
that is where they can go wrong; a symbol stands for a byte, `TerminalBytes` names
those that mean something. None of the three readers sees another, so
`ShellOutput` lets each behaviour be one reader's.

`RunCollector`: each method of `runCollector` is an operator on the collector, and the
shell's output (what the command prints, the marker, the status, the end of the line,
more) is cut anywhere. `RunResultIsExact` compares the result with the uncut output.

`OutputStream`: `TerminalCleaner` as a fold over the runes of a chunk, the flush timer at
any time something is pending, the prefix writer of `ctrlCFollow`. What the shell
prints is a sequence of pieces: characters, ends of lines, a return to the start of the
line, a step back, the erasure of a character or of the rest of the line, control
sequences. `Show` is what each does to a terminal with a cursor, and
`StreamedTextIsExact` compares with that. `late` is a history variable: a line was
flushed that was yet to be changed.

`Transcript`: `ansiTranscript` byte by byte, a control sequence in three symbols, beside
a terminal (`term`) that knows each cell's style. Sizes are counted in symbols. Of the
styles one flag and the foreground colour are kept; the others are set, reset
and written alike. Every mode that switches the screen is one sequence that saves and
restores the style as 1049 does on a terminal; the code does so for 47 and 1047 too
(`transcript.go:155-165`), where a terminal would not, and the model does not tell them
apart.

## 3. What is checked

| run | instance | distinct states | shows |
|---|---|---|---|
| `TargetStore` | 2 targets, 3 goroutines, 2 starts | 277,243 | one owner for every shell; canceled starts never serve; closing is complete; sweeps spare users; a wait for another's start ends, and so does the work of a call; implements `TargetLifecycle` |
| `Service` | 1 target, 2 handlers, the sweep, the shutdown; 2 starts | 611,120 | nothing starts after StopAdmission; the shutdown ends and leaves nothing but what a sweep has in hand |
| `ServiceNilRunner` | no sweep, typed nil | | **violation** of `NoNilClose` (section 6) |
| `Daemon` | 2 stop clients and 1 other, limit 2, idle stop and accept errors | 804,317 | exact capacity; answered stop; operations survive draining; Serve returns and leaves nothing |
| `SocketPath` | 3 daemons, 4 inodes | 15,433 | a start removes a held socket only if starts overlap, and none that was listened on at its dial; no cleanup unlinks a socket that was held before its daemon closed its own |
| `SocketInodeReuse` | 2 daemons alone, 3 inodes | | **violation** of `SerialCleanupSparesOthers` (section 6) |
| `PTYRunner` | 1 waiter, 1 sender that follows, channels of 1, 2 chunks | 220,137 | no gaps; waiters never dropped; observers never stall the read loop; Close returns and frees everyone |
| `RunnerFdReuse` | 1 follower | | **violation** of `ReadsOwnPTY` (section 6) |
| `Registry` | 2 servers, 2 names, 2 mutations at a time, 4 drafts | about 259,000 | memory is the file; acknowledged changes survive; retired passwords and revoked owners never return; implements `ClientMap` |
| `RemoteServer` | 1 owner, 3 connections (2 allowed), 1 manager, 1 of 2 targets | 389,450 | exact limits; old credentials cut off; Shutdown returns and leaves no shell behind |
| `WSConnection` | 2 requests, 2 chunks, a queue of 2 bytes, responses of 1 or 3, 1 message in transit | 371,000 | follows have no gaps; the client is never confused; requests are answered or the connection ends; a close is said; a connection told to close goes |
| `ShellOutput` | see below | 1,061,279 | run results, followed text and transcript lines do not depend on how output was cut, with the exceptions below |

Deadlock is checked in `TargetStore`, `SocketPath` and `Registry`. The other
systems may really stop (a stopped daemon, a closed runner or connection, output that
ends), and there liveness
properties say that they do not stop too early.

### Bounds, and why they are enough

* *Goroutines and connections.* Each race of the lists above has two actors, or
  two and a bystander whose state one of them may take; three are given where the
  state space allows. In `Service` the sweep and the shutdown are actors of their
  own next to two handlers. In `RemoteServer` the third connection is the one that
  the limit refuses or that takes a place given back.
* *Attempts* (`TargetStore`): two starts let a target be started again after a
  kill, an exit or a failure while the first shell is still being disposed of.
  `AttemptsLeft` lets a call begin only while an attempt is left for it, so the
  bound never blocks a method half way. It does bound the loop of `getOrCreate`
  (`store.go:203-224`), which the code does not: a caller may be woken, find the tab killed
  and another start under way, and wait again, without end. Nothing is claimed about that:
  `WaitsEnd` speaks of the wait for one start, and of what a call does itself, each of
  which ends without regard to how many starts there are.
* *Channels of one chunk* (`PTYRunner`) make a channel full with the first chunk;
  two chunks make the second one the one that is dropped or waited for.
* *MaxNow* (`Registry`): four drafts are enough to register, retire and register
  again with one left for the other name or server.
* *MaxGeneration* 2: one rotation, with a connection of each generation.
* *WSConnection.* Two requests are one follow and a request beside it, or two follows;
  two chunks and two bytes make the queue full with one message being written; a
  response of 3 never fits. One message in transit makes writes block.
* *ShellOutput.* For a run: all that a command can print in three bytes, an
  unrelated one, one that begins the marker and one that begins a character, and three
  longer texts; a marker that begins with two equal bytes, so that a search must look at
  overlaps; two statuses, two that are none; a limit of 4. For a follower: all texts of
  up to three pieces out of thirteen, those of up to four that begin with the echo of ^C, and
  those of up to five that begin with two characters and a return, so that the line is
  written over; every cut and every flush. For the transcript: all sequences of seven pieces (three
  characters, end of line, three renditions, the alternate screen, OSC, wipe), two lines
  and five symbols at most. Each reader's state is small and forgets at the end of a line
  or of a sequence, which these lengths pass twice.
* *Inodes*: one more than the daemons, so that one can restart with a new socket
  while every other still holds one.

Symmetry sets are used in `Registry`, `SocketPath` and `ServiceNilRunner`, which
check no liveness.

### Fairness, and why the code justifies it

Weak fairness of the steps of goroutines that are inside a method: Go schedules
every runnable goroutine. Strong fairness where a step waits for a lock that others
take again and again: StopAdmission (a `sync.Mutex` turns to first-in-first-out after
1 ms) and the write-locked steps of `RemoteServer` (a waiting writer keeps new
readers of a `sync.RWMutex` out). Assumed of the environment: `newRunner` and
`Runner.Close` return (Close has timers; `PTYRunner` checks it), an operation ends
once its shell is closed (reads and writes fail then), an accept error repeats only
until the listener is closed. In `WSConnection`
the writer, the read loop and the follows are weakly fair, and the writer's select
strongly: Go chooses among ready cases at random, so the ticker does not win for
ever. Not assumed: that a client sends, reads or
disconnects, that a shell writes, reads or exits, that time passes.

One assumption is stronger: in `RemoteServer` a connection that was told to close
gets rid of what it is sending. A shell that never reads its input blocks the read
loop in `Send` (`server.go:886`) and the connection stays counted; Shutdown then ends
only by its context, which every caller gives a deadline
(`internal/app/remote_run.go:71`, `:83`), and only then closes the shell.

### Conditions inside properties

Some properties hold only with an exception that the model showed to be needed;
each names it:

* `StopIsAnswered` is about the sole holder of the acknowledgement. Two clients that
  stop the daemon at once share the channel, and the first to leave closes it.
* `NothingLeftRunning` excepts a shell that a sweep has taken out of the store:
  the sweep is not an operation.
* `CloseCompletes` and `CloseFreesWaiters` except the reuse of the descriptor number.
* `ObserversNeverStall` excepts a waiter that is blocked in its own write: it
  subscribes before it writes and reads its channel only afterwards.
* `StartsRemoveOnlyStale` excepts daemons whose starts and cleanups overlap
  (`overlapped`), which no lock prevents: clients start a daemon without one
  (`internal/app/client.go:243`). A socket that is bound and does not listen yet refuses
  connections like a stale one, the second Lstat finds the same object, and by the time
  of `os.Remove` (`socket.go:52`) its daemon may serve on it. What remains is that a
  daemon which listened already at the dial is spared.
* `CleanupSparesElders` speaks of the daemons that held a socket already when the one
  that ends closed its own listener. A later one may be given the same inode number
  (`SocketInodeReuse`), and a daemon whose Lstat after listening found another's socket in
  place of its own compares with that one's number.
* `WaitsEnd` does not speak of a caller that waits for one start after another.
* `OldCredentialsAreCutOff` and `ShutdownLeavesNothing` except the shells that the
  other of the two, revocation or Shutdown, is closing.
* `CloseIsSaid` excepts a request that arrives between `pop` and the select: request and
  `done` are both ready then, and the select may take `done` (`server.go:830-835`); the
  connection is closed without a close frame.
* `FollowsHaveNoGaps` speaks of one follow. `following` is cleared before the end is
  enqueued (`server.go:927-937`), so a peer that pipelines may read that its second
  follow has started before it reads that the first has ended; Unary and Follow never
  pipeline, which is why `ClientNeverConfused` holds.
* `RunResultIsExact` allows one LF in front of what follows the status: when a chunk ends
  between the CR and the LF of the status line, `consumeStatus` takes the CR for the
  end (`tab.go:109-112`) and the LF counts as output.
* `StreamedTextIsExact` lets a line lose what is right of the cursor when it ends, since
  `flushLine` cuts it there (`cleaner.go:138-140`): after `abc`, a return and `x`, a line
  feed gives `x`. It says nothing once a line was flushed that was `late`, still to be
  changed: what was sent cannot be taken back, and the flush forgets a return, so that
  `abc`, a return, the timer and `xyz` give `abcxyz`. It excepts a chunk that ends inside a
  character (`torn`), whose halves the cleaner turns into U+FFFD each, since the read loop
  broadcasts whatever it has read; and a lone first `^`, which the prefix writer keeps. A
  ^C in the output is modelled at the start of a line only: in the middle of one it is
  sent before the text of that line (`cleaner.go:41-43`).
* `LinesStandAlone` lets a line be left out that holds an internal marker or that does
  not fit with two more renditions.

## 4. What is proved

Every invariant and every action property of the passing runs, except those of
`ShellOutput`, is a theorem: it holds for any sets of targets, goroutines, connections,
clients and messages, and any limits, from the assumptions that the module of the
component names and TLC evaluates. They say that nil is none of the values it is
compared with, that limits are positive, that the goroutines or connections that are
counted are finitely many, and that kinds of actors do not overlap. Each bound that a
module has for TLC (`MaxChunks`, `MaxNow`, `MaxGeneration`, `MaxRequests`, `WireCap`) is
an arbitrary number in the proofs.

| module | theorems beside `Invariance` and type correctness |
|---|---|
| `TargetStoreProofs` | `OneOwnerHolds`, `CanceledNeverServesHolds`, `OneIncarnationHolds`, `CloseIsCompleteHolds`, `SweepSparesUsersHolds`, `Refinement` |
| `ServiceProofs` | `ServiceIsStore`, `StoppedStartsNothingHolds`, `NothingLeftRunningHolds`, `ContractHolds` |
| `DaemonProofs` | `CapacityIsExactHolds`, `OperatingSurvivesDrainingHolds`, `ServeLeavesNothingHolds`, `StopIsAnsweredHolds`, `KeepsToContractHolds` |
| `SocketPathProofs` | `StartsRemoveOnlyStaleHolds`, `CleanupSparesEldersHolds` |
| `PTYRunnerProofs` | `SubscribedMissNothingHolds`, `WaitersNeverDroppedHolds` |
| `RegistryProofs` | `MemoryIsDiskHolds`, `AckedSurvivesHolds`, `RetiredNeverAcceptedHolds`, `RevokedOwnerStaysGoneHolds`, `Refinement` |
| `RemoteServerProofs` | `ConnectionsWithinLimitsHolds`, `TargetsWithinLimitHolds`, `OldCredentialsAreCutOffHolds`, `ShutdownLeavesNothingHolds` |
| `WSConnectionProofs` | `FollowsHaveNoGapsHolds`, `ClientNeverConfusedHolds`, `CloseIsSaidHolds` |

All follow one plan. None of the properties is inductive as it stands; `IInv` is the
conjunction of named parts that is, TLC checked it before it was proved, a lemma per
action (`...Keeps`) shows that the action keeps it, `InitIInv` and `NextIInv` put the
lemmas together, `Invariance` is `Spec => []IInv`, and each property follows from `IInv`
or, an action property, from a step that starts in it. What `IInv` has to say:

**`TargetStore`.** That a canceled start does not become a tab rests on who may hold an
attempt at every moment. `MapOK`: a tab in the map is alive, not canceled, at one
target, its reaper waiting. `StarterOK`, `EntryOK`: entries of the starting map and
starting goroutines correspond one to one. `ChargeOK`: what a closing method took out is
out of the map and nobody else's. `ReaperOK`: a closing reaper has an exited shell to
itself. `AliveOK`: every shell that lives is in one of those places. Two invariants are
proved on top: `CloseOK`, that `firstErr` is the error of something the method took out
and that a released entry is gone for good, gives `CloseIsComplete`; `UsesOK`, that
`Tab.active` is the number of goroutines that use the tab, gives `SweepSparesUsers`.

`Refinement` is `Spec => Lifecycle!LifecycleSafety`. The stages of all attempts are two
functions, so a step of the store maps to one of the lifecycle when the stage of one
attempt changes, and a sweep or CloseAll, which takes out many tabs at once, to the
lifecycle's joint step. The other actions change no stage (`UnmovedStutters`,
`SameStageStutters`). The liveness part of `ImplementsLifecycle` stays with TLC.

**`Service`.** Every step of the service is a step of the store or leaves the store alone
(`ServiceIsStore`), so the store's theorems hold in it. `ServiceInv` adds that a
goroutine is in getOrCreate only while its handler holds `lifecycleMu`, and that from
CloseAll on no tab enters the map; this is what `NothingLeftRunning` needs, which relates
the end of a shutdown to shells taken out long before.

`ContractHolds` is `ServiceSafety => ImplementsContract`. Its one hard step is the
installation of a tab (`StartingPopulates`): that admission is still open then is not
tested there, in the store, but follows from `LockOK`, since the goroutine's handler has
held `lifecycleMu` from before the test. All other steps leave the map as it is or take
tabs out (`LettingGoVacates`). TLC agrees on the instance of the run `Service`, and
finds either variant of the service's guards to break the contract.

**`Daemon`.** `ServeOK` says what each step of Serve has established for good,
`ListenerOK` who closed the listener, `AckOK` and `SoleHolderOK` who has the
acknowledgement of the stop. `OpenOK` carries `OperatingSurvivesDraining`: whoever is in
the snapshot of reading connections had not read a request when it was made, and is
refused if it does later. `KeepsToContractHolds` says that what the daemon does to its
service, by whichever goroutine, is a run of `ServiceContract`: together with
`ContractHolds` it makes the contract all that the two models share.

**`SocketPath`.** From bind to the end of the listener a daemon holds the socket it
made, and no two hold the same number (`SocketsOK`); what was found stale is held by none
as long as windows do not overlap (`StaleOK`). `EldersOK` carries both properties when they
do: an elder has held its own number all along and what is put at the path is new, so
neither the path after a refused dial nor what a daemon remembers after its listener is
closed can become an elder's. That part needs neither windows apart nor numbers that are
used once.

**`PTYRunner`.** `SubscribersOK` and `ReaderOK` say whom the read loop will still send its
chunk to. `SubscribedMissNothing` is proved in the form that what a use has received and
what its channel holds are, in order and without a gap, the chunks read since it
subscribed, up to the one in the read loop's hands; `AppendHolds`, `TailHolds` are the
lemmas about that sequence.

**`Registry`.** The heart is `Sound(m, t, A)`: a map of clients made by time t keeps, for
each acknowledged record in A, that record or a later one which did not bring back what
was taken. `SoundOK` says so of memory, of the file and of every map that a crash or a
power failure may restore, `DiskOK` how these differ while a mutation is under way.
`DraftIsSound` shows that a mutation keeps it, `SoundLater` that time does.

`Refinement` is `Spec => ImplementsClientMap`. It needs one more invariant, `DraftOK`: the
draft of a mutation under way is the server's map *as it still is* with a lawful successor
for one client, which holds since the write lock and the file lock leave no other
mutation under way (`MapHolds`, `NoneUnderWay`). `OpeningStutters`, `BeginningStutters`,
`PersistingRefines` and `DyingRefines` go through the steps; `TakesEffect` is the one
step that changes the map, shared by the publication and by both kinds of crash. TLC
finds each of the four variants in `Registry` to break it.

**`RemoteServer`.** `CutOK`: once a change of credentials has signalled its owner's
connections, each that it cuts off is told to close, and none is left between its last
check and its activation or in the middle of a create. That makes
`OldCredentialsAreCutOff` hold without a second look at the connections. `ServiceOK` and
`ShellOK` follow the one service that an owner has in the life of the server, `CreateOK`
gives whoever creates room for a target, and `ShutdownOK` how far Shutdown has come.
The counters are cardinalities, hence `ConnsFinite`.

**`WSConnection`.** The messages in transit, the one being written and the queue form one
sequence, `UnderWay`: producers add to its end, the client takes from its front, and a
writer that ends cuts it off. What is proved of it is closed under these: `GapFree` (each
chunk comes after the one before it), `EndsAfterAll`, `AckFirst`, `AnswersTo`; lemmas
`AppendKeeps`, `TailKeeps`, `TailHas` and `CutKeeps` say so, and know nothing of the
program. `ChunksOK` ties the sequence to where each follow stands.

Proving changed four places of the models. `stageBar` of `TargetStore` and `FollowReads`
of `WSConnection` had a CASE whose guards overlapped, which TLC reads in order and TLA+
does not; they now say what they meant. `SubscribedMissNothing` was restated place by
place over what was received and the channel, as above, which a proof can follow.
`Daemon` let an operation change the store only at the moment of its admission; stating
the contract showed it, and `StoreChanges` now does so for as long as the operation runs.

Only model-checked: all liveness (fairness and ENABLED are outside of the prover's
reach), so that `WaitsEnd`, `ShutdownCompletes`, `StopCompletes`, `CloseCompletes`,
`CloseFreesWaiters`, `ObserversNeverStall`, `ShutdownReturns`, `RequestsAreAnswered`,
`ToldToCloseGoes` and the fair part of `ImplementsLifecycle` hold on the instances of
section 3; and the properties of `ShellOutput`, whose operators are folds over sequences:
what they compute for every input takes induction over data, which the provers cannot do.

## 5. What is not modelled

* Parsing of command lines, configuration and requests, validation of names, key names:
  sequential, and tests reach them.
* Formatting of answers: `formatRunOutput` with its removal of echoed lines, the
  rendering of the vt10x screen, `parseMarkedOutput` (used by tests). Reverse video, which
  `ansiStyle` does not track, and sequences such as ESC ( B, of which the
  transcript keeps the last byte as text, are outside `Transcript`.
* The rate limiter and the count of unauthenticated connections. Its tokens are rates
  over real time; the one step that others see half done, the refund after a
  successful authentication, is listed as a hazard.
* The framing of local streams, starting a daemon on demand, management calls over
  HTTP, TLS and the HTTP plumbing: one request, one answer.
* Pseudo-terminals, signals and the file system are modelled as far as the code relies
  on them and are marked external in the map. `Store.Snapshot` only reads.

The type invariants document the variables and are part of what is inductive; each is a
theorem (`TypeCorrect`, `ServiceTypeCorrect`) and none is among the runs' properties.

## 6. Disagreements found

1. **A nil runner is closed** (`ServiceNilRunner`). The factory in `NewService`
   (`internal/server/service.go:27`) returns a nil `*PTYRunner` as a `Runner` that is not
   nil, so `if runner != nil` in `store.go:235` does not stop `Close`. It takes a start
   that is canceled and then fails.
2. **A daemon that ends may remove its successor's socket** (`SocketInodeReuse`). A stop
   closes the listener (`daemon.go:369`) long before the cleanup (`daemon.go:135`). A new
   daemon meanwhile removes the stale socket and binds its own. If the file system gives
   that the inode number just freed, `os.SameFile` (`socket.go:80`) takes it for the
   socket of the first daemon, which removes it, without any overlap of a start and a
   cleanup. `README.md:461-462` says that "shutdown removes only the socket created by
   that daemon". `CleanupSparesElders` is what remains true.
3. **The read loop may read another file** (`RunnerFdReuse`). `readLoop` uses the raw
   descriptor number (`tab.go:590`), `Close` frees it and only then waits for the loop
   (`tab.go:987-989`), and another file may have the number when the loop reads it next.
   If that is the PTY of another target, its output goes to those who follow this one,
   and `README.md:175-176` promises that no client follows another's targets.

The exception of `StartsRemoveOnlyStale` (section 3) is a disagreement with
`README.md:460-461`, which names none, and has no run of its own.

## 7. Plan

Done, in this order: `TargetStore` with `TargetLifecycle` and `TargetStoreProofs`,
`Service`, `Daemon`, `SocketPath`, `PTYRunner`, `Registry`, `RemoteServer`,
`WSConnection`, `ShellOutput` with its three readers.

Then their proofs: `TargetStoreProofs` with the refinement, `ServiceProofs`,
`DaemonProofs`, `RegistryProofs`, `PTYRunnerProofs`, `RemoteServerProofs`,
`SocketPathProofs`, `WSConnectionProofs`.

Then what the components assume of each other, as abstract specifications with proofs:
`ClientMap` for the registry, `ServiceContract` between the service and the daemon.

What would come next:

1. the remote server's services through `ServiceContract`, one instance for each
   incarnation: `RemoteServer` would have to keep the operations of a service apart
   from the connections they came on;
2. an abstract channel for one follow, from the shell's read loop (`PTYRunner`) over the
   cleaner (`OutputStream`) to the client (`WSConnection`). `SubscribedMissNothing` and
   `FollowsHaveNoGaps` are its two ends and both are proved; the middle is a fold over
   data, which only TLC can check;
3. `RunResultIsExact` for every output: by induction over the chunks, once a prover
   takes one.
