----------------------------- MODULE SocketPath -----------------------------
(***************************************************************************)
(* Which daemon owns the socket path, src/internal/server/socket.go with   *)
(* the start and the end of Daemon.Serve (daemon.go:78-139).  Every system *)
(* call on the path is one action, since the daemons that use one path are *)
(* separate processes and take no lock.                                    *)
(***************************************************************************)
EXTENDS Naturals, FiniteSets

CONSTANTS
    Daemons,        \* processes that serve the path, again and again
    Inodes,         \* bound: the inode numbers the file system hands out
    File,           \* an object at the path that is not the user's socket
    Nothing         \* no object at the path

ASSUME ObjectsDiffer == File # Nothing /\ {File, Nothing} \cap Inodes = {}

VARIABLES
    path,       \* what is at the socket path
    pc,         \* where each process is
    seen,       \* info of the first Lstat, or createdSocket
    bound,      \* the inode of the process's socket, Nothing if it has none
    accepting,  \* the processes that listen on their socket
    overlapped, \* history: two processes were in their windows at once
    elders      \* history: who held a socket already when a process last had
                \* proof of what is no one's, and has held it since: at its dial
                \* who listened, at the end of its own listener who had a socket

vars == <<path, pc, seen, bound, accepting, overlapped, elders>>

Objects == Inodes \cup {File, Nothing}

Starting == {"start", "dial", "relstat", "remove", "bind", "listen", "created"}
Cleaning == {"cleanup", "unlink"}

TypeOK ==
    /\ path \in Objects
    /\ pc \in [Daemons -> {"down", "serving", "closing"} \cup Starting \cup Cleaning]
    /\ seen \in [Daemons -> Inodes \cup {Nothing}]
    /\ bound \in [Daemons -> Inodes \cup {Nothing}]
    /\ accepting \in SUBSET Daemons
    /\ overlapped \in BOOLEAN
    /\ elders \in [Daemons -> SUBSET Daemons]

Init ==
    /\ path \in {Nothing, File}
    /\ pc = [d \in Daemons |-> "down"]
    /\ seen = [d \in Daemons |-> Nothing]
    /\ bound = [d \in Daemons |-> Nothing]
    /\ accepting = {}
    /\ overlapped = FALSE
    /\ elders = [d \in Daemons |-> {}]

\* The daemon, if any, that a client connecting to the path reaches.
Live(i) == \E d \in accepting : bound[d] = i

\* No process is between a check and its effect.
Quiet == \A d \in Daemons : pc[d] \notin Starting \cup Cleaning

\* Nothing in the code keeps those windows apart.
EnterWindow == overlapped' = (overlapped \/ ~Quiet)

Goto(d, label) == pc' = [pc EXCEPT ![d] = label]

\* The socket of d is closed; the elders of d itself become own.
Forget(d, own) ==
    elders' = [e \in Daemons |-> IF e = d THEN own ELSE elders[e] \ {d}]

\* The process ends; its sockets are closed, the path stays.
Exit(d) ==
    /\ Forget(d, {})
    /\ Goto(d, "down")
    /\ seen' = [seen EXCEPT ![d] = Nothing]
    /\ bound' = [bound EXCEPT ![d] = Nothing]
    /\ accepting' = accepting \ {d}

-----------------------------------------------------------------------------
(* prepareSocketPath                                                       *)

Start(d) ==
    /\ pc[d] = "down"
    /\ EnterWindow
    /\ Goto(d, "start")
    /\ UNCHANGED <<path, seen, bound, accepting, elders>>

\* The first Lstat and validateOwnedSocket.
Lstat(d) ==
    /\ pc[d] = "start"
    /\ \/ /\ path = Nothing
          /\ Goto(d, "bind")
          /\ UNCHANGED <<seen, bound, accepting, elders>>
       \/ /\ path = File
          /\ Exit(d)
       \/ /\ path \in Inodes
          /\ seen' = [seen EXCEPT ![d] = path]
          /\ Goto(d, "dial")
          /\ UNCHANGED <<bound, accepting, elders>>
    /\ UNCHANGED <<path, overlapped>>

\* Variant: any error of the dial counts as proof.
DialSkipped(d) ==
    /\ pc[d] = "dial"
    /\ Goto(d, "relstat")
    /\ UNCHANGED <<path, seen, bound, accepting, overlapped, elders>>

\* DialTimeout: only a refusal proves that nobody listens; a socket that is
\* bound but not yet listening refuses too, and so does what is not a socket.
Dial(d) ==
    /\ pc[d] = "dial"
    /\ IF path # Nothing /\ ~Live(path)
         THEN /\ elders' = [elders EXCEPT ![d] = accepting]
              /\ Goto(d, "relstat")
              /\ UNCHANGED <<seen, bound, accepting>>
         ELSE Exit(d)
    /\ UNCHANGED <<path, overlapped>>

\* The second Lstat, validateOwnedSocket and SameFile.
Relstat(d) ==
    /\ pc[d] = "relstat"
    /\ \/ /\ path = Nothing
          /\ elders' = [elders EXCEPT ![d] = {}]
          /\ Goto(d, "bind")
          /\ UNCHANGED <<seen, bound, accepting>>
       \/ /\ path = seen[d]
          /\ Goto(d, "remove")
          /\ UNCHANGED <<seen, bound, accepting, elders>>
       \/ /\ path \notin {Nothing, seen[d]}
          /\ Exit(d)
    /\ UNCHANGED <<path, overlapped>>

\* os.Remove takes away whatever is at the path by now.
RemoveStale(d) ==
    /\ pc[d] = "remove"
    /\ IF path = Nothing
         THEN Exit(d)
         ELSE /\ elders' = [elders EXCEPT ![d] = {}]
              /\ Goto(d, "bind")
              /\ UNCHANGED <<seen, bound, accepting>>
    /\ path' = Nothing
    /\ UNCHANGED overlapped

-----------------------------------------------------------------------------
(* Serve                                                                   *)

\* bind(2) of ListenUnix, to a new inode.  Its number may be any that no open
\* socket holds: a file system hands out again what was removed and closed, also
\* what a process still remembers.
Bind(d) ==
    /\ pc[d] = "bind"
    /\ IF path = Nothing
         THEN \E i \in Inodes :
                 /\ \A e \in Daemons : bound[e] # i
                 /\ path' = i
                 /\ bound' = [bound EXCEPT ![d] = i]
                 /\ Goto(d, "listen")
                 /\ UNCHANGED <<seen, accepting, elders>>
         ELSE Exit(d) /\ UNCHANGED path
    /\ UNCHANGED overlapped

\* listen(2) of ListenUnix
Listen(d) ==
    /\ pc[d] = "listen"
    /\ accepting' = accepting \cup {d}
    /\ Goto(d, "created")
    /\ UNCHANGED <<path, seen, bound, overlapped, elders>>

\* createdSocket, err := os.Lstat(socketPath)
LstatCreated(d) ==
    /\ pc[d] = "created"
    /\ IF path = Nothing
         THEN Exit(d)
         ELSE /\ seen' = [seen EXCEPT ![d] = path]
              /\ Goto(d, "serving")
              /\ UNCHANGED <<bound, accepting, elders>>
    /\ UNCHANGED <<path, overlapped>>

\* A stop closes the listener, which does not unlink the path.  The number of
\* its socket is free when the last accepted connection is closed too; closing the
\* shells may then take long until the cleanup.
CloseListener(d) ==
    /\ pc[d] = "serving"
    /\ accepting' = accepting \ {d}
    /\ bound' = [bound EXCEPT ![d] = Nothing]
    /\ Forget(d, IF seen[d] = bound[d]
                   THEN {e \in Daemons \ {d} : bound[e] # Nothing}
                   ELSE {})
    /\ Goto(d, "closing")
    /\ UNCHANGED <<path, seen, overlapped>>

BeginCleanup(d) ==
    /\ pc[d] = "closing"
    /\ EnterWindow
    /\ Goto(d, "cleanup")
    /\ UNCHANGED <<path, seen, bound, accepting, elders>>

\* Variant: the path is removed whoever created it.
CleanupLstatOnly(d) ==
    /\ pc[d] = "cleanup"
    /\ IF path # Nothing
         THEN Goto(d, "unlink") /\ UNCHANGED <<seen, bound, accepting, elders>>
         ELSE Exit(d)
    /\ UNCHANGED <<path, overlapped>>

\* cleanupSocketPath: Lstat, validateOwnedSocket and SameFile...
CleanupLstat(d) ==
    /\ pc[d] = "cleanup"
    /\ IF path = seen[d] /\ path \in Inodes
         THEN Goto(d, "unlink") /\ UNCHANGED <<seen, bound, accepting, elders>>
         ELSE Exit(d)
    /\ UNCHANGED <<path, overlapped>>

\* ... and Remove.
Unlink(d) ==
    /\ pc[d] = "unlink"
    /\ path' = Nothing
    /\ Exit(d)
    /\ UNCHANGED overlapped

-----------------------------------------------------------------------------
(* What else happens to the processes and the path                         *)

\* The process is killed.
Crash(d) ==
    /\ pc[d] # "down"
    /\ Exit(d)
    /\ UNCHANGED <<path, overlapped>>

\* Somebody removes what is at the path, or puts a file there; never within a
\* window, so that what a run shows is the daemons' own doing.
Interfere ==
    /\ Quiet
    /\ path' \in {Nothing, File} \ {path}
    /\ UNCHANGED <<pc, seen, bound, accepting, overlapped, elders>>

DaemonStep(d) ==
    \/ Lstat(d) \/ Dial(d) \/ Relstat(d) \/ RemoveStale(d)
    \/ Bind(d) \/ Listen(d) \/ LstatCreated(d) \/ CloseListener(d)
    \/ CleanupLstat(d) \/ Unlink(d) \/ Crash(d)

DaemonsNext == \E d \in Daemons : Start(d) \/ BeginCleanup(d) \/ DaemonStep(d)

Next == DaemonsNext \/ Interfere

Spec == Init /\ [][Next]_vars

\* Nobody but the daemons touches the path.
DaemonsOnly == Init /\ [][DaemonsNext]_vars

-----------------------------------------------------------------------------
(* Properties                                                              *)

\* "An existing Unix socket is removed only when it belongs to the current
\* user and is confirmed stale" (README.md:460-461), as far as the checks carry it.
\* A socket that a starting daemon removes is held by no other.  Only when daemons
\* start or clean up at the same moment, which nothing in the code prevents, may
\* another hold it, and then one that began to listen after the dial: a socket
\* that is bound but does not listen yet looks stale, or the path has changed hands
\* since (socket.go:31-52).
StartsRemoveOnlyStale ==
    [][\A d \in Daemons :
          pc[d] = "remove" /\ pc'[d] # "down" =>
              \A e \in Daemons :
                  bound[e] = path /\ path # Nothing => overlapped /\ e \notin elders[d]]_vars

\* "shutdown removes only the socket created by that daemon"
\* (README.md:461-462), as far as comparing inode numbers carries it: whatever
\* overlaps, and whichever numbers are handed out again, a daemon that ends never
\* unlinks a socket that another daemon held already when it closed its own
\* listener.  A daemon whose Lstat found the socket of another in place of its own
\* has no elders.
CleanupSparesElders ==
    [][\A d \in Daemons :
          pc[d] = "unlink" /\ path' = Nothing =>
              \A e \in elders[d] : bound[e] # path]_vars

\* The same words of every other daemon, and even if no two daemons ever start or
\* clean up at once.
SerialCleanupSparesOthers ==
    [][\A d \in Daemons :
          ~overlapped /\ pc[d] = "unlink" /\ path' = Nothing =>
              \A e \in Daemons : bound[e] # path \/ bound[e] = Nothing]_vars

=============================================================================
