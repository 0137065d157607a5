-------------------------- MODULE SocketPathProofs --------------------------
(***************************************************************************)
(* Proofs about SocketPath, for any daemons and any inode numbers.  What   *)
(* matters is that a daemon in its window, between a check of the path and *)
(* the effect that relies on it, is alone there as long as windows have    *)
(* not overlapped, and that no two daemons hold one number at once.        *)
(***************************************************************************)
EXTENDS SocketPath, TLAPS

Windows == Starting \cup Cleaning

-----------------------------------------------------------------------------
(* The inductive invariant                                                 *)

\* Only one daemon at a time is in its window.
Alone ==
    ~overlapped =>
        \A d, e \in Daemons : pc[d] \in Windows /\ pc[e] \in Windows => d = e

\* A daemon holds a socket from bind to the end of its listener, and listens on
\* it but for the moment between bind and listen (socket.go, ListenUnix).
SocketsOK ==
    /\ \A d \in Daemons :
          /\ bound[d] # Nothing <=> pc[d] \in {"listen", "created", "serving"}
          /\ d \in accepting <=> pc[d] \in {"created", "serving"}
    /\ \A d, e \in Daemons : bound[d] = bound[e] /\ bound[d] # Nothing => d = e

\* A daemon that has bound the path finds a socket there, and its own unless
\* windows have overlapped (daemon.go:82-99).
OwnSocketOK ==
    \A d \in Daemons : pc[d] \in {"listen", "created"} =>
        /\ path # File
        /\ ~overlapped => bound[d] = path /\ path \in Inodes

\* What was found to refuse connections is held by no process (socket.go:31-51).
StaleOK ==
    ~overlapped =>
        \A d, e \in Daemons : pc[d] \in {"relstat", "remove"} =>
            bound[e] # path \/ bound[e] = Nothing

\* What a daemon is about to remove or to unlink is no elder's socket.  An elder has
\* held its own socket since before the check, numbers differ while they are held,
\* and what is put at the path is new.  After a dial that was refused, the path is
\* none on which anybody listened (socket.go:31-52); after the end of its listener,
\* a daemon remembers a number that no elder holds (daemon.go:134-135,
\* socket.go:72-83).
EldersOK ==
    \A d \in Daemons : \A e \in elders[d] :
        /\ pc[d] \in {"relstat", "remove", "closing", "cleanup", "unlink"}
        /\ bound[e] # Nothing
        /\ pc[d] \in {"closing", "cleanup", "unlink"} => bound[e] # seen[d]
        /\ pc[d] \in {"relstat", "remove", "unlink"} => bound[e] # path

IInv ==
    /\ TypeOK
    /\ Alone
    /\ SocketsOK
    /\ OwnSocketOK
    /\ StaleOK
    /\ EldersOK

-----------------------------------------------------------------------------
(* Each action keeps the invariant                                         *)

\* The invariant holds when no daemon has started (socket.go).
LEMMA InitIInv == Init => IInv
BY ObjectsDiffer
   DEF Init, IInv, TypeOK, Objects, Starting, Cleaning, Windows, Alone, SocketsOK,
       OwnSocketOK, StaleOK, EldersOK

\* A daemon enters the window of its start (socket.go:15-20).
LEMMA StartKeeps == ASSUME IInv, NEW d \in Daemons, Start(d) PROVE IInv'
<1> USE ObjectsDiffer DEF IInv, Goto, Exit, Forget, Start
<1>1. TypeOK'
  BY DEF TypeOK, OwnSocketOK, Objects, Starting, Cleaning, EnterWindow
<1>2. Alone'
  <2>1. \A e \in Daemons : e # d => pc'[e] = pc[e]
    BY DEF TypeOK
  <2>2. ~overlapped' => ~overlapped /\ \A e \in Daemons : pc[e] \notin Windows
    BY DEF EnterWindow, Quiet, Windows
  <2> QED
    BY <2>1, <2>2 DEF Alone
<1>3. SocketsOK'
  BY DEF TypeOK, SocketsOK
<1>4. OwnSocketOK'
  BY DEF TypeOK, OwnSocketOK, Alone, Windows, Starting, Cleaning, EnterWindow, SocketsOK, Objects
<1>5. StaleOK'
  BY DEF TypeOK, StaleOK, Alone, Windows, Starting, Cleaning, EnterWindow, SocketsOK
<1>6. EldersOK'
  BY DEF TypeOK, Objects, EldersOK, SocketsOK
<1> QED
  BY <1>1, <1>2, <1>3, <1>4, <1>5, <1>6

\* The first look at the path (socket.go:20-29).
LEMMA LstatKeeps == ASSUME IInv, NEW d \in Daemons, Lstat(d) PROVE IInv'
<1> USE ObjectsDiffer DEF IInv, Goto, Exit, Forget, Lstat
<1>1. TypeOK'
  BY DEF TypeOK, OwnSocketOK, Objects, Starting, Cleaning
<1>2. Alone'
  BY DEF TypeOK, Alone, Quiet, Windows, Starting, Cleaning
<1>3. SocketsOK'
  BY DEF TypeOK, SocketsOK
<1>4. OwnSocketOK'
  BY DEF TypeOK, OwnSocketOK, Alone, Windows, Starting, Cleaning, SocketsOK, Objects
<1>5. StaleOK'
  BY DEF TypeOK, StaleOK, Alone, Windows, Starting, Cleaning, SocketsOK
<1>6. EldersOK'
  BY DEF TypeOK, Objects, EldersOK, SocketsOK
<1> QED
  BY <1>1, <1>2, <1>3, <1>4, <1>5, <1>6

\* A refusal proves the socket stale: a daemon that is alone in its window would
\* be reached if it held the socket (socket.go:31-38).
LEMMA DialKeeps == ASSUME IInv, NEW d \in Daemons, Dial(d) PROVE IInv'
<1> USE ObjectsDiffer DEF IInv, Goto, Exit, Forget, Dial
<1>1. TypeOK'
  BY DEF TypeOK, OwnSocketOK, Objects, Starting, Cleaning
<1>2. Alone'
  BY DEF TypeOK, Alone, Quiet, Windows, Starting, Cleaning
<1>3. SocketsOK'
  BY DEF TypeOK, SocketsOK
<1>4. OwnSocketOK'
  BY DEF TypeOK, OwnSocketOK, Alone, Windows, Starting, Cleaning, SocketsOK, Objects
<1>5. StaleOK'
  BY DEF TypeOK, StaleOK, Alone, Windows, Starting, Cleaning, SocketsOK, Live
<1>6. EldersOK'
  BY DEF TypeOK, Objects, EldersOK, SocketsOK, Live
<1> QED
  BY <1>1, <1>2, <1>3, <1>4, <1>5, <1>6

\* The second look at the path (socket.go:40-51).
LEMMA RelstatKeeps == ASSUME IInv, NEW d \in Daemons, Relstat(d) PROVE IInv'
<1> USE ObjectsDiffer DEF IInv, Goto, Exit, Forget, Relstat
<1>1. TypeOK'
  BY DEF TypeOK, OwnSocketOK, Objects, Starting, Cleaning
<1>2. Alone'
  BY DEF TypeOK, Alone, Quiet, Windows, Starting, Cleaning
<1>3. SocketsOK'
  BY DEF TypeOK, SocketsOK
<1>4. OwnSocketOK'
  BY DEF TypeOK, OwnSocketOK, Alone, Windows, Starting, Cleaning, SocketsOK, Objects
<1>5. StaleOK'
  BY DEF TypeOK, StaleOK, Alone, Windows, Starting, Cleaning, SocketsOK
<1>6. EldersOK'
  BY DEF TypeOK, Objects, EldersOK, SocketsOK
<1> QED
  BY <1>1, <1>2, <1>3, <1>4, <1>5, <1>6

\* The stale socket is removed (socket.go:52-54).
LEMMA RemoveStaleKeeps == ASSUME IInv, NEW d \in Daemons, RemoveStale(d) PROVE IInv'
<1> USE ObjectsDiffer DEF IInv, Goto, Exit, Forget, RemoveStale
<1>1. TypeOK'
  BY DEF TypeOK, OwnSocketOK, Objects, Starting, Cleaning
<1>2. Alone'
  BY DEF TypeOK, Alone, Quiet, Windows, Starting, Cleaning
<1>3. SocketsOK'
  BY DEF TypeOK, SocketsOK
<1>4. OwnSocketOK'
  BY DEF TypeOK, OwnSocketOK, Alone, Windows, Starting, Cleaning, SocketsOK, Objects
<1>5. StaleOK'
  BY DEF TypeOK, StaleOK, Alone, Windows, Starting, Cleaning, SocketsOK
<1>6. EldersOK'
  BY DEF TypeOK, Objects, EldersOK, SocketsOK
<1> QED
  BY <1>1, <1>2, <1>3, <1>4, <1>5, <1>6

\* The daemon binds a new inode to the path (daemon.go:86-89).
LEMMA BindKeeps == ASSUME IInv, NEW d \in Daemons, Bind(d) PROVE IInv'
<1> USE ObjectsDiffer DEF IInv, Goto, Exit, Forget, Bind
<1>1. TypeOK'
  BY DEF TypeOK, OwnSocketOK, Objects, Starting, Cleaning
<1>2. Alone'
  BY DEF TypeOK, Alone, Quiet, Windows, Starting, Cleaning
<1>3. SocketsOK'
  BY DEF TypeOK, SocketsOK
<1>4. OwnSocketOK'
  BY DEF TypeOK, OwnSocketOK, Alone, Windows, Starting, Cleaning, SocketsOK, Objects
<1>5. StaleOK'
  BY DEF TypeOK, StaleOK, Alone, Windows, Starting, Cleaning, SocketsOK
<1>6. EldersOK'
  BY DEF TypeOK, Objects, EldersOK, SocketsOK
<1> QED
  BY <1>1, <1>2, <1>3, <1>4, <1>5, <1>6

\* The daemon listens on its socket (daemon.go:86-89).
LEMMA ListenKeeps == ASSUME IInv, NEW d \in Daemons, Listen(d) PROVE IInv'
<1> USE ObjectsDiffer DEF IInv, Goto, Exit, Forget, Listen
<1>1. TypeOK'
  BY DEF TypeOK, OwnSocketOK, Objects, Starting, Cleaning
<1>2. Alone'
  BY DEF TypeOK, Alone, Quiet, Windows, Starting, Cleaning
<1>3. SocketsOK'
  BY DEF TypeOK, SocketsOK
<1>4. OwnSocketOK'
  BY DEF TypeOK, OwnSocketOK, Alone, Windows, Starting, Cleaning, SocketsOK, Objects
<1>5. StaleOK'
  BY DEF TypeOK, StaleOK, Alone, Windows, Starting, Cleaning, SocketsOK
<1>6. EldersOK'
  BY DEF TypeOK, Objects, EldersOK, SocketsOK
<1> QED
  BY <1>1, <1>2, <1>3, <1>4, <1>5, <1>6

\* The daemon remembers the socket it created (daemon.go:91-95).
LEMMA LstatCreatedKeeps == ASSUME IInv, NEW d \in Daemons, LstatCreated(d) PROVE IInv'
<1> USE ObjectsDiffer DEF IInv, Goto, Exit, Forget, LstatCreated
<1>1. TypeOK'
  BY DEF TypeOK, OwnSocketOK, Objects, Starting, Cleaning
<1>2. Alone'
  BY DEF TypeOK, Alone, Quiet, Windows, Starting, Cleaning
<1>3. SocketsOK'
  BY DEF TypeOK, SocketsOK
<1>4. OwnSocketOK'
  BY DEF TypeOK, OwnSocketOK, Alone, Windows, Starting, Cleaning, SocketsOK, Objects
<1>5. StaleOK'
  BY DEF TypeOK, StaleOK, Alone, Windows, Starting, Cleaning, SocketsOK
<1>6. EldersOK'
  BY DEF TypeOK, Objects, EldersOK, SocketsOK
<1> QED
  BY <1>1, <1>2, <1>3, <1>4, <1>5, <1>6

\* The listener is closed, the path stays (daemon.go:90, 134).
LEMMA CloseListenerKeeps == ASSUME IInv, NEW d \in Daemons, CloseListener(d) PROVE IInv'
<1> USE ObjectsDiffer DEF IInv, Goto, Exit, Forget, CloseListener
<1>1. TypeOK'
  BY DEF TypeOK, OwnSocketOK, Objects, Starting, Cleaning
<1>2. Alone'
  BY DEF TypeOK, Alone, Quiet, Windows, Starting, Cleaning
<1>3. SocketsOK'
  BY DEF TypeOK, SocketsOK
<1>4. OwnSocketOK'
  BY DEF TypeOK, OwnSocketOK, Alone, Windows, Starting, Cleaning, SocketsOK, Objects
<1>5. StaleOK'
  BY DEF TypeOK, StaleOK, Alone, Windows, Starting, Cleaning, SocketsOK
<1>6. EldersOK'
  BY DEF TypeOK, Objects, EldersOK, SocketsOK
<1> QED
  BY <1>1, <1>2, <1>3, <1>4, <1>5, <1>6

\* A daemon enters the window of its cleanup (daemon.go:135).
LEMMA BeginCleanupKeeps == ASSUME IInv, NEW d \in Daemons, BeginCleanup(d) PROVE IInv'
<1> USE ObjectsDiffer DEF IInv, Goto, Exit, Forget, BeginCleanup
<1>1. TypeOK'
  BY DEF TypeOK, OwnSocketOK, Objects, Starting, Cleaning, EnterWindow
<1>2. Alone'
  BY DEF TypeOK, Alone, EnterWindow, Quiet, Windows, Starting, Cleaning
<1>3. SocketsOK'
  BY DEF TypeOK, SocketsOK
<1>4. OwnSocketOK'
  BY DEF TypeOK, OwnSocketOK, Alone, Windows, Starting, Cleaning, EnterWindow, SocketsOK, Objects
<1>5. StaleOK'
  BY DEF TypeOK, StaleOK, Alone, Windows, Starting, Cleaning, EnterWindow, SocketsOK
<1>6. EldersOK'
  BY DEF TypeOK, Objects, EldersOK, SocketsOK
<1> QED
  BY <1>1, <1>2, <1>3, <1>4, <1>5, <1>6

\* What is at the path is compared with what was created (socket.go:70-79).
LEMMA CleanupLstatKeeps == ASSUME IInv, NEW d \in Daemons, CleanupLstat(d) PROVE IInv'
<1> USE ObjectsDiffer DEF IInv, Goto, Exit, Forget, CleanupLstat
<1>1. TypeOK'
  BY DEF TypeOK, OwnSocketOK, Objects, Starting, Cleaning
<1>2. Alone'
  BY DEF TypeOK, Alone, Quiet, Windows, Starting, Cleaning
<1>3. SocketsOK'
  BY DEF TypeOK, SocketsOK
<1>4. OwnSocketOK'
  BY DEF TypeOK, OwnSocketOK, Alone, Windows, Starting, Cleaning, SocketsOK, Objects
<1>5. StaleOK'
  BY DEF TypeOK, StaleOK, Alone, Windows, Starting, Cleaning, SocketsOK
<1>6. EldersOK'
  BY DEF TypeOK, Objects, EldersOK, SocketsOK
<1> QED
  BY <1>1, <1>2, <1>3, <1>4, <1>5, <1>6

\* The path is unlinked (socket.go:80-83).
LEMMA UnlinkKeeps == ASSUME IInv, NEW d \in Daemons, Unlink(d) PROVE IInv'
<1> USE ObjectsDiffer DEF IInv, Goto, Exit, Forget, Unlink
<1>1. TypeOK'
  BY DEF TypeOK, OwnSocketOK, Objects, Starting, Cleaning
<1>2. Alone'
  BY DEF TypeOK, Alone, Quiet, Windows, Starting, Cleaning
<1>3. SocketsOK'
  BY DEF TypeOK, SocketsOK
<1>4. OwnSocketOK'
  BY DEF TypeOK, OwnSocketOK, Alone, Windows, Starting, Cleaning, SocketsOK, Objects
<1>5. StaleOK'
  BY DEF TypeOK, StaleOK, Alone, Windows, Starting, Cleaning, SocketsOK
<1>6. EldersOK'
  BY DEF TypeOK, Objects, EldersOK, SocketsOK
<1> QED
  BY <1>1, <1>2, <1>3, <1>4, <1>5, <1>6

\* A process that is killed leaves the path as it is.
LEMMA CrashKeeps == ASSUME IInv, NEW d \in Daemons, Crash(d) PROVE IInv'
<1> USE ObjectsDiffer DEF IInv, Goto, Exit, Forget, Crash
<1>1. TypeOK'
  BY DEF TypeOK, OwnSocketOK, Objects, Starting, Cleaning
<1>2. Alone'
  BY DEF TypeOK, Alone, Quiet, Windows, Starting, Cleaning
<1>3. SocketsOK'
  BY DEF TypeOK, SocketsOK
<1>4. OwnSocketOK'
  BY DEF TypeOK, OwnSocketOK, Alone, Windows, Starting, Cleaning, SocketsOK, Objects
<1>5. StaleOK'
  BY DEF TypeOK, StaleOK, Alone, Windows, Starting, Cleaning, SocketsOK
<1>6. EldersOK'
  BY DEF TypeOK, Objects, EldersOK, SocketsOK
<1> QED
  BY <1>1, <1>2, <1>3, <1>4, <1>5, <1>6

\* What else happens to the path happens outside all windows.
LEMMA InterfereKeeps == ASSUME IInv, Interfere PROVE IInv'
<1> USE ObjectsDiffer DEF IInv, Interfere, Quiet, Starting, Cleaning
<1>1. TypeOK'
  BY DEF TypeOK, Objects
<1>2. Alone' /\ SocketsOK'
  BY DEF Alone, Windows, SocketsOK
<1>3. OwnSocketOK' /\ StaleOK' /\ EldersOK'
  BY DEF OwnSocketOK, StaleOK, EldersOK
<1> QED
  BY <1>1, <1>2, <1>3

\* Every step keeps the invariant.
LEMMA NextIInv == IInv /\ [Next]_vars => IInv'
<1> SUFFICES ASSUME IInv, [Next]_vars PROVE IInv'
  OBVIOUS
<1>1. ASSUME NEW d \in Daemons, Start(d) \/ BeginCleanup(d) PROVE IInv'
  BY <1>1, StartKeeps, BeginCleanupKeeps
<1>2. ASSUME NEW d \in Daemons, DaemonStep(d) PROVE IInv'
  BY <1>2, LstatKeeps, DialKeeps, RelstatKeeps, RemoveStaleKeeps, BindKeeps,
     ListenKeeps, LstatCreatedKeeps, CloseListenerKeeps, CleanupLstatKeeps,
     UnlinkKeeps, CrashKeeps DEF DaemonStep
<1>3. CASE Interfere
  BY <1>3, InterfereKeeps
<1>4. CASE UNCHANGED vars
  BY <1>4
     DEF vars, IInv, TypeOK, Alone, SocketsOK, OwnSocketOK, StaleOK, EldersOK
<1> QED
  BY <1>1, <1>2, <1>3, <1>4 DEF Next, DaemonsNext

-----------------------------------------------------------------------------
(* The theorems                                                            *)

\* The inductive invariant holds of every execution of the daemons that share a
\* path (socket.go, daemon.go:78-139).
THEOREM Invariance == Spec => []IInv
BY InitIInv, NextIInv, PTL DEF Spec

\* Every variable keeps its type (socket.go).
THEOREM TypeCorrect == Spec => []TypeOK
<1>1. IInv => TypeOK
  BY DEF IInv
<1> QED
  BY <1>1, Invariance, PTL

\* A starting daemon removes a socket that another holds only if windows have
\* overlapped, and never one on which the other listened already at the dial
\* (socket.go:15-56, README.md:460-461).
THEOREM StartsRemoveOnlyStaleHolds == Spec => StartsRemoveOnlyStale
<1>1. IInv => \A d \in Daemons :
          pc[d] = "remove" /\ pc'[d] # "down" =>
              \A e \in Daemons :
                  bound[e] = path /\ path # Nothing => overlapped /\ e \notin elders[d]
  BY DEF IInv, StaleOK, EldersOK
<1> QED
  BY <1>1, Invariance, PTL DEF StartsRemoveOnlyStale

\* Whatever overlaps, a daemon that ends unlinks no socket that another daemon held
\* already when it closed its listener (socket.go:72-87, README.md:461-462).
THEOREM CleanupSparesEldersHolds == Spec => CleanupSparesElders
<1>1. IInv => \A d \in Daemons :
          pc[d] = "unlink" /\ path' = Nothing =>
              \A e \in elders[d] : bound[e] # path
  BY DEF IInv, EldersOK
<1> QED
  BY <1>1, Invariance, PTL DEF CleanupSparesElders

=============================================================================
