------------------------------ MODULE Service ------------------------------
(***************************************************************************)
(* The service around the store, src/internal/server/service.go: admission *)
(* of operations, the lock that keeps starts and StopAdmission apart, and  *)
(* the shutdown sequence of its owner (StopAdmission, CloseAll,            *)
(* WaitOperations: Daemon.Serve, and the remote server's Shutdown).        *)
(*                                                                         *)
(* The store's actions are TargetStore's.  Its callers are the goroutines  *)
(* that handle requests, the owner's shutdown, and the daemon's sweep.     *)
(***************************************************************************)
EXTENDS TargetStore

CONSTANTS
    Server,     \* the goroutine that shuts the service down
    Sweeper     \* the daemon's cleanup goroutine, or None if it has none

ASSUME ServerIsCaller == Server \in Callers /\ Server # Sweeper
ASSUME NoneIsNoCaller == None \notin Callers

VARIABLES
    lifecycleMu,    \* the holder of Service.lifecycleMu between steps, or None
    stopping,       \* Service.stopping
    phase,          \* where each handler is in HandleWithDone or Stream
    served          \* how far the shutdown sequence has got

serviceVars == <<lifecycleMu, stopping, phase, served>>

Handlers == Callers \ {Server, Sweeper}

ServiceTypeOK ==
    /\ TypeOK
    /\ lifecycleMu \in Handlers \cup {None}
    /\ stopping \in BOOLEAN
    /\ phase \in [Handlers -> {"out", "admitted", "working"}]
    /\ served \in {"serving", "stopped", "closing", "done"}

ServiceInit ==
    /\ Init
    /\ lifecycleMu = None
    /\ stopping = FALSE
    /\ phase = [h \in Handlers |-> "out"]
    /\ served = "serving"

Enter(h, p) == phase' = [phase EXCEPT ![h] = p]

-----------------------------------------------------------------------------
(* Operations                                                              *)

\* Variant: a stopping service admits.
BeginOperationUnchecked(h) ==
    /\ phase[h] = "out"
    /\ lifecycleMu = None
    /\ Enter(h, "admitted")
    /\ UNCHANGED <<vars, lifecycleMu, stopping, served>>

\* beginOperation succeeds: operations.Add(1).  A stopping service refuses
\* and nothing changes.
BeginOperation(h) ==
    /\ phase[h] = "out"
    /\ lifecycleMu = None
    /\ ~stopping
    /\ Enter(h, "admitted")
    /\ UNCHANGED <<vars, lifecycleMu, stopping, served>>

\* Variant: stopping is tested by beginOperation only.
BeginCreatingUseUnchecked(h, t) ==
    /\ phase[h] = "admitted"
    /\ lifecycleMu = None
    /\ CallGetOrCreate(h, t)
    /\ lifecycleMu' = h
    /\ Enter(h, "working")
    /\ UNCHANGED <<stopping, served>>

\* beginTargetUse with createMissing keeps lifecycleMu until the store returns.
BeginCreatingUse(h, t) ==
    /\ phase[h] = "admitted"
    /\ lifecycleMu = None
    /\ ~stopping
    /\ CallGetOrCreate(h, t)
    /\ lifecycleMu' = h
    /\ Enter(h, "working")
    /\ UNCHANGED <<stopping, served>>

\* beginTargetUse without createMissing does not take the lock.
BeginPlainUse(h, t) ==
    /\ phase[h] = "admitted"
    /\ BeginExistingUse(h, t)
    /\ Enter(h, "working")
    /\ UNCHANGED <<lifecycleMu, stopping, served>>

\* beginTargetUse returns ErrServiceStopping, or no tab (ErrTargetNotFound).
\* A request that is refused as invalid changes as little, and is left out.
RefuseUse(h) ==
    /\ phase[h] = "admitted"
    /\ \/ lifecycleMu = None /\ stopping
       \/ \E t \in Targets : tabs[t] = None
    /\ Enter(h, "working")
    /\ UNCHANGED <<vars, lifecycleMu, stopping, served>>

\* "kill" and "close", and CloseExisting.
BeginKill(h) ==
    /\ phase[h] = "admitted"
    /\ \/ CloseAll(h)
       \/ \E t \in Targets : CloseTarget(h, t) \/ CloseExistingTarget(h, t)
    /\ Enter(h, "working")
    /\ UNCHANGED <<lifecycleMu, stopping, served>>

\* "list" with a complete target.
ListTarget(h, t) ==
    /\ phase[h] = "admitted"
    /\ TouchTarget(h, t)
    /\ Enter(h, "working")
    /\ UNCHANGED <<lifecycleMu, stopping, served>>

\* The store method goes on; the lock is released when getOrCreate returns.
StoreStep(h) ==
    /\ ~panicked
    /\ MethodStep(h)
    /\ lifecycleMu' = IF lifecycleMu = h /\ pc'[h] \in {"idle", "using"}
                        THEN None ELSE lifecycleMu
    /\ UNCHANGED <<stopping, phase, served>>

\* The operation on the shell is over: finish().
EndUse(h) ==
    /\ FinishUse(h)
    /\ UNCHANGED serviceVars

\* The deferred operations.Done.
EndOperation(h) ==
    /\ phase[h] = "working"
    /\ pc[h] = "idle"
    /\ Enter(h, "out")
    /\ UNCHANGED <<vars, lifecycleMu, stopping, served>>

-----------------------------------------------------------------------------
(* Shutdown                                                                *)

StopAdmission ==
    /\ served = "serving"
    /\ lifecycleMu = None
    /\ stopping' = TRUE
    /\ served' = "stopped"
    /\ UNCHANGED <<vars, lifecycleMu, phase>>

ShutdownCloseAll ==
    /\ served = "stopped"
    /\ CloseAll(Server)
    /\ served' = "closing"
    /\ UNCHANGED <<lifecycleMu, stopping, phase>>

\* Variant: the operations are not waited for.
WaitOperationsNot ==
    /\ served = "closing"
    /\ pc[Server] = "idle"
    /\ served' = "done"
    /\ UNCHANGED <<vars, lifecycleMu, stopping, phase>>

WaitOperations ==
    /\ served = "closing"
    /\ pc[Server] = "idle"
    /\ \A h \in Handlers : phase[h] = "out"
    /\ served' = "done"
    /\ UNCHANGED <<vars, lifecycleMu, stopping, phase>>

\* Daemon.cleanupIdle's sweep; it is not an operation.
Sweep ==
    /\ Sweeper \in Callers
    /\ CloseIdleTargets(Sweeper)
    /\ UNCHANGED serviceVars

Surroundings ==
    /\ \E a \in Attempts : ShellExit(a) \/ ReaperStep(a) \/ GrowIdle(a)
    /\ UNCHANGED serviceVars

-----------------------------------------------------------------------------
HandlerNext(h) ==
    \/ BeginOperation(h) \/ RefuseUse(h) \/ BeginKill(h)
    \/ \E t \in Targets :
          BeginCreatingUse(h, t) \/ BeginPlainUse(h, t) \/ ListTarget(h, t)
    \/ EndUse(h) \/ EndOperation(h)

ShutdownNext == StopAdmission \/ ShutdownCloseAll \/ WaitOperations

ServiceNext ==
    /\ ~panicked
    /\ \/ \E h \in Handlers : HandlerNext(h)
       \/ \E c \in Callers : StoreStep(c)
       \/ ShutdownNext \/ Sweep \/ Surroundings

allVars == <<vars, serviceVars>>

ServiceSafety == ServiceInit /\ [][ServiceNext]_allVars

\* Goroutines inside a method run; an admitted operation goes on, and ends once
\* its shell is closed, because the PTY's reads and writes fail; Go's mutex does
\* not starve StopAdmission, which waits for it in line.
ServiceFairness ==
    /\ \A c \in Callers : WF_allVars(StoreStep(c))
    /\ \A a \in Attempts : WF_allVars(ReaperStep(a) /\ UNCHANGED serviceVars)
    /\ \A h \in Handlers :
          /\ WF_allVars(RefuseUse(h) \/ BeginKill(h)
                        \/ \E t \in Targets : BeginCreatingUse(h, t)
                                              \/ BeginPlainUse(h, t))
          /\ WF_allVars(EndUse(h) /\ runner[att[h]] = "closed")
          /\ WF_allVars(EndOperation(h))
    /\ SF_allVars(StopAdmission)
    /\ WF_allVars(ShutdownCloseAll)
    /\ WF_allVars(WaitOperations)

ServiceSpec == ServiceSafety /\ ServiceFairness

-----------------------------------------------------------------------------
(* What Service implements                                                 *)

\* The operations between beginOperation and operations.Done, and Store.Empty.
Operating == {h \in Handlers : phase[h] # "out"}
Empty == \A t \in Targets : tabs[t] = None

Contract == INSTANCE ServiceContract
    WITH Operations <- Handlers, admitting <- ~stopping, operating <- Operating,
         empty <- Empty

\* The daemon may rely on the contract (service.go:46-365): nothing is admitted
\* or put into the store once StopAdmission has returned, and none but an
\* operation puts anything there.
ImplementsContract == Contract!Spec

-----------------------------------------------------------------------------
(* Properties                                                              *)

\* Once StopAdmission has returned no shell is being started, and none will
\* be, not even for operations admitted earlier: CloseAll then sees them all
\* (service.go:330-365; TestServiceStopAdmissionWaitsForTargetCreationBoundary).
StoppedStartsNothing ==
    stopping => \A t \in Targets : starting[t] = None

\* When the shutdown sequence has ended no operation is under way and no shell
\* runs any more (daemon.go:125-133), README.md:437's "Stop the daemon and close
\* all managed shells", but for a shell that a sweep still has in hand: the
\* sweep is not an operation, and neither CloseAll nor WaitOperations sees it.
NothingLeftRunning ==
    served = "done" =>
        /\ \A h \in Handlers : phase[h] = "out"
        /\ \A a \in Attempts : runner[a] \in {"starting", "up"} =>
              Sweeper \in Callers /\ pc[Sweeper] = "closing" /\ a \in Unclosed(Sweeper)

\* A shutdown that began comes to its end, whatever is under way.
ShutdownCompletes == stopping ~> served = "done"

=============================================================================
