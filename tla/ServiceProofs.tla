---------------------------- MODULE ServiceProofs ----------------------------
(***************************************************************************)
(* Proofs about Service, for any handlers, with or without a sweep.  The   *)
(* service is an execution of the store, so that the store's invariant and *)
(* theorems carry over; what it adds is the lock between starts and        *)
(* StopAdmission and how far the shutdown sequence has come.               *)
(***************************************************************************)
EXTENDS Service, TargetStoreProofs

\* Whoever is in getOrCreate is a handler that holds lifecycleMu.
CreatePCs == StartPCs \cup {"lookup", "waiting"}

LockOK ==
    \A c \in Callers : pc[c] \in CreatePCs => c \in Handlers /\ lifecycleMu = c

\* A handler that is not working is in no method.
PhaseOK ==
    \A h \in Handlers : phase[h] # "working" => pc[h] = "idle"

\* Once admission is stopped nobody holds the lock, and with CloseAll the map is
\* empty for good; at the end neither the owner nor a handler is in a method.
ServedOK ==
    /\ stopping <=> served # "serving"
    /\ stopping => lifecycleMu = None
    /\ served \in {"closing", "done"} => \A t \in Targets : tabs[t] = None
    /\ served # "closing" => pc[Server] = "idle"
    /\ served = "done" => \A h \in Handlers : phase[h] = "out"

ServiceInv ==
    /\ IInv
    /\ ServiceTypeOK
    /\ LockOK
    /\ PhaseOK
    /\ ServedOK

-----------------------------------------------------------------------------
(* The service and its store                                               *)

\* Every step of the service is a step of its store, or leaves the store alone
\* (service.go:270-370).
LEMMA ServiceStepIsStoreStep ==
    [ServiceNext]_allVars => [Next]_vars
<1> SUFFICES ASSUME [ServiceNext]_allVars PROVE [Next]_vars
  OBVIOUS
<1>1. ASSUME NEW h \in Handlers, HandlerNext(h), ~panicked PROVE [Next]_vars
  <2>1. h \in Callers
    BY DEF Handlers
  <2> QED
    BY <1>1, <2>1
       DEF HandlerNext, BeginOperation, RefuseUse, BeginKill, BeginCreatingUse,
           BeginPlainUse, ListTarget, EndUse, EndOperation, Next, CallStep
<1>2. ASSUME NEW c \in Callers, StoreStep(c) PROVE [Next]_vars
  BY <1>2 DEF StoreStep, Next
<1>3. ASSUME ShutdownNext \/ Sweep \/ Surroundings, ~panicked PROVE [Next]_vars
  BY <1>3, ServerIsCaller
     DEF ShutdownNext, StopAdmission, ShutdownCloseAll, WaitOperations, Sweep,
         Surroundings, Next, CallStep
<1>4. CASE UNCHANGED allVars
  BY <1>4 DEF allVars
<1> QED
  BY <1>1, <1>2, <1>3, <1>4 DEF ServiceNext

\* So the service keeps what is proved of the store (service.go:27-60).
THEOREM ServiceIsStore == ServiceSafety => Spec
<1>1. ServiceInit => Init
  BY DEF ServiceInit
<1> QED
  BY <1>1, ServiceStepIsStoreStep, PTL DEF ServiceSafety, Spec

-----------------------------------------------------------------------------
(* Each action keeps ServiceInv                                            *)

\* An operation is admitted (service.go:270-290).
LEMMA BeginOperationServes ==
    ASSUME ServiceInv, IInv', NEW h \in Handlers, BeginOperation(h)
    PROVE  ServiceInv'
<1> USE NoneIsNoCaller DEF ServiceInv, ServiceTypeOK, Handlers, serviceVars, storeVars,
   attemptVars, callerVars, Enter, Goto, BeginOperation, vars
<1>1. ServiceTypeOK'
  BY DEF IInv
<1>2. LockOK'
  BY DEF LockOK, PhaseOK, CreatePCs, StartPCs, IInv, TypeOK
<1>3. PhaseOK'
  BY DEF PhaseOK, IInv, TypeOK
<1>4. ServedOK'
  BY ServerIsCaller DEF ServedOK, PhaseOK, IInv, TypeOK
<1> QED
  BY <1>1, <1>2, <1>3, <1>4

\* A creating use takes the lock, unless admission is stopped (service.go:355-365).
LEMMA BeginCreatingUseServes ==
    ASSUME ServiceInv, IInv', NEW h \in Handlers, NEW t \in Targets, BeginCreatingUse(h, t)
    PROVE  ServiceInv'
<1> USE NoneIsNoCaller DEF ServiceInv, ServiceTypeOK, Handlers, serviceVars, storeVars,
   attemptVars, callerVars, Enter, Goto, BeginCreatingUse, CallGetOrCreate
<1>1. ServiceTypeOK'
  BY DEF IInv
<1>2. LockOK'
  BY DEF LockOK, PhaseOK, CreatePCs, StartPCs, IInv, TypeOK
<1>3. PhaseOK'
  BY DEF PhaseOK, IInv, TypeOK
<1>4. ServedOK'
  BY ServerIsCaller DEF ServedOK, PhaseOK, IInv, TypeOK
<1> QED
  BY <1>1, <1>2, <1>3, <1>4

\* Another use does not take it (service.go:363-365).
LEMMA BeginPlainUseServes ==
    ASSUME ServiceInv, IInv', NEW h \in Handlers, NEW t \in Targets, BeginPlainUse(h, t)
    PROVE  ServiceInv'
<1> USE NoneIsNoCaller DEF ServiceInv, ServiceTypeOK, Handlers, serviceVars, storeVars,
   attemptVars, callerVars, Enter, Goto, BeginPlainUse, BeginExistingUse, ReturnTab
<1>1. ServiceTypeOK'
  BY DEF IInv
<1>2. LockOK'
  BY DEF LockOK, PhaseOK, CreatePCs, StartPCs, IInv, TypeOK
<1>3. PhaseOK'
  BY DEF PhaseOK, IInv, TypeOK
<1>4. ServedOK'
  BY ServerIsCaller DEF ServedOK, PhaseOK, IInv, TypeOK
<1> QED
  BY <1>1, <1>2, <1>3, <1>4

\* A refused use changes nothing (service.go:49-71).
LEMMA RefuseUseServes ==
    ASSUME ServiceInv, IInv', NEW h \in Handlers, RefuseUse(h)
    PROVE  ServiceInv'
<1> USE NoneIsNoCaller DEF ServiceInv, ServiceTypeOK, Handlers, serviceVars, storeVars,
   attemptVars, callerVars, Enter, Goto, RefuseUse, vars
<1>1. ServiceTypeOK'
  BY DEF IInv
<1>2. LockOK'
  BY DEF LockOK, PhaseOK, CreatePCs, StartPCs, IInv, TypeOK
<1>3. PhaseOK'
  BY DEF PhaseOK, IInv, TypeOK
<1>4. ServedOK'
  BY ServerIsCaller DEF ServedOK, PhaseOK, IInv, TypeOK
<1> QED
  BY <1>1, <1>2, <1>3, <1>4

\* A kill takes tabs out (service.go:214-224).
LEMMA BeginKillServes ==
    ASSUME ServiceInv, IInv', NEW h \in Handlers, BeginKill(h)
    PROVE  ServiceInv'
<1> USE NoneIsNoCaller DEF ServiceInv, ServiceTypeOK, Handlers, serviceVars, storeVars,
   attemptVars, callerVars, Enter, Goto, BeginKill, CloseAll, CloseTarget,
   CloseExistingTarget, TakeOut, Present, Starting
<1>1. ServiceTypeOK'
  BY DEF IInv
<1>2. LockOK'
  BY DEF LockOK, PhaseOK, CreatePCs, StartPCs, IInv, TypeOK
<1>3. PhaseOK'
  BY DEF PhaseOK, IInv, TypeOK
<1>4. ServedOK'
  BY ServerIsCaller DEF ServedOK, PhaseOK, IInv, TypeOK
<1> QED
  BY <1>1, <1>2, <1>3, <1>4

\* A list touches a tab (service.go:209-213).
LEMMA ListTargetServes ==
    ASSUME ServiceInv, IInv', NEW h \in Handlers, NEW t \in Targets, ListTarget(h, t)
    PROVE  ServiceInv'
<1> USE NoneIsNoCaller DEF ServiceInv, ServiceTypeOK, Handlers, serviceVars, storeVars,
   attemptVars, callerVars, Enter, Goto, ListTarget, TouchTarget
<1>1. ServiceTypeOK'
  BY DEF IInv
<1>2. LockOK'
  BY DEF LockOK, PhaseOK, CreatePCs, StartPCs, IInv, TypeOK
<1>3. PhaseOK'
  BY DEF PhaseOK, IInv, TypeOK
<1>4. ServedOK'
  BY ServerIsCaller DEF ServedOK, PhaseOK, IInv, TypeOK
<1> QED
  BY <1>1, <1>2, <1>3, <1>4

\* A use ends (service.go:77-208).
LEMMA EndUseServes ==
    ASSUME ServiceInv, IInv', NEW h \in Handlers, EndUse(h)
    PROVE  ServiceInv'
<1> USE NoneIsNoCaller DEF ServiceInv, ServiceTypeOK, Handlers, serviceVars, storeVars,
   attemptVars, callerVars, Enter, Goto, EndUse, FinishUse, ReturnNil
<1>1. ServiceTypeOK'
  BY DEF IInv
<1>2. LockOK'
  BY DEF LockOK, PhaseOK, CreatePCs, StartPCs, IInv, TypeOK
<1>3. PhaseOK'
  BY DEF PhaseOK, IInv, TypeOK
<1>4. ServedOK'
  BY ServerIsCaller DEF ServedOK, PhaseOK, IInv, TypeOK
<1> QED
  BY <1>1, <1>2, <1>3, <1>4

\* An operation ends (service.go:246-298).
LEMMA EndOperationServes ==
    ASSUME ServiceInv, IInv', NEW h \in Handlers, EndOperation(h)
    PROVE  ServiceInv'
<1> USE NoneIsNoCaller DEF ServiceInv, ServiceTypeOK, Handlers, serviceVars, storeVars,
   attemptVars, callerVars, Enter, Goto, EndOperation, vars
<1>1. ServiceTypeOK'
  BY DEF IInv
<1>2. LockOK'
  BY DEF LockOK, PhaseOK, CreatePCs, StartPCs, IInv, TypeOK
<1>3. PhaseOK'
  BY DEF PhaseOK, IInv, TypeOK
<1>4. ServedOK'
  BY ServerIsCaller DEF ServedOK, PhaseOK, IInv, TypeOK
<1> QED
  BY <1>1, <1>2, <1>3, <1>4

\* StopAdmission finds nobody in getOrCreate, because it has the lock
\* (service.go:304-308).
LEMMA StopAdmissionServes ==
    ASSUME ServiceInv, IInv', StopAdmission
    PROVE  ServiceInv'
<1> USE NoneIsNoCaller DEF ServiceInv, ServiceTypeOK, Handlers, serviceVars, storeVars,
   attemptVars, callerVars, Enter, Goto, StopAdmission, vars
<1>1. ServiceTypeOK'
  BY DEF IInv
<1>2. LockOK'
  BY DEF LockOK, PhaseOK, CreatePCs, StartPCs, IInv, TypeOK
<1>3. PhaseOK'
  BY DEF PhaseOK, IInv, TypeOK
<1>4. ServedOK'
  BY ServerIsCaller DEF ServedOK, PhaseOK, IInv, TypeOK
<1> QED
  BY <1>1, <1>2, <1>3, <1>4

\* CloseAll empties the map (service.go:300-302).
LEMMA ShutdownCloseAllServes ==
    ASSUME ServiceInv, IInv', ShutdownCloseAll
    PROVE  ServiceInv'
<1> USE NoneIsNoCaller DEF ServiceInv, ServiceTypeOK, Handlers, serviceVars, storeVars,
   attemptVars, callerVars, Enter, Goto, ShutdownCloseAll, CloseAll, TakeOut, Present, Starting
<1>1. ServiceTypeOK'
  BY DEF IInv
<1>2. LockOK'
  BY DEF LockOK, PhaseOK, CreatePCs, StartPCs, IInv, TypeOK
<1>3. PhaseOK'
  BY DEF PhaseOK, IInv, TypeOK
<1>4. ServedOK'
  BY ServerIsCaller DEF ServedOK, PhaseOK, IInv, TypeOK
<1> QED
  BY <1>1, <1>2, <1>3, <1>4

\* The operations are over (service.go:310-312).
LEMMA WaitOperationsServes ==
    ASSUME ServiceInv, IInv', WaitOperations
    PROVE  ServiceInv'
<1> USE NoneIsNoCaller DEF ServiceInv, ServiceTypeOK, Handlers, serviceVars, storeVars,
   attemptVars, callerVars, Enter, Goto, WaitOperations, vars
<1>1. ServiceTypeOK'
  BY DEF IInv
<1>2. LockOK'
  BY DEF LockOK, PhaseOK, CreatePCs, StartPCs, IInv, TypeOK
<1>3. PhaseOK'
  BY DEF PhaseOK, IInv, TypeOK
<1>4. ServedOK'
  BY ServerIsCaller DEF ServedOK, PhaseOK, IInv, TypeOK
<1> QED
  BY <1>1, <1>2, <1>3, <1>4

\* The sweep takes tabs out (service.go:314-316).
LEMMA SweepServes ==
    ASSUME ServiceInv, IInv', Sweep
    PROVE  ServiceInv'
<1> USE NoneIsNoCaller DEF ServiceInv, ServiceTypeOK, Handlers, serviceVars, storeVars,
   attemptVars, callerVars, Enter, Goto, Sweep, CloseIdleTargets, TakeOut, Expired
<1>1. ServiceTypeOK'
  BY DEF IInv
<1>2. LockOK'
  BY DEF LockOK, PhaseOK, CreatePCs, StartPCs, IInv, TypeOK
<1>3. PhaseOK'
  BY DEF PhaseOK, IInv, TypeOK
<1>4. ServedOK'
  BY ServerIsCaller DEF ServedOK, PhaseOK, IInv, TypeOK
<1> QED
  BY <1>1, <1>2, <1>3, <1>4

\* Shells, reapers and time put nothing into the map.
LEMMA SurroundingsServes ==
    ASSUME ServiceInv, IInv', Surroundings
    PROVE  ServiceInv'
<1> USE NoneIsNoCaller DEF ServiceInv, ServiceTypeOK, Handlers, serviceVars, storeVars,
   attemptVars, callerVars, Enter, Goto, Surroundings, ShellExit, ReaperStep,
   ReaperWakes, ReaperCloses, GrowIdle
<1>1. ServiceTypeOK'
  BY DEF IInv
<1>2. LockOK'
  BY DEF LockOK, PhaseOK, CreatePCs, StartPCs, IInv, TypeOK
<1>3. PhaseOK'
  BY DEF PhaseOK, IInv, TypeOK
<1>4. ServedOK'
  BY ServerIsCaller DEF ServedOK, PhaseOK, IInv, TypeOK
<1> QED
  BY <1>1, <1>2, <1>3, <1>4

\* Only InstallTab puts a tab into the map (store.go:252-264).
LEMMA MapGrows ==
    ASSUME IInv, NEW c \in Callers, MethodStep(c), pc[c] \notin CreatePCs,
           NEW t \in Targets, tabs[t] = None
    PROVE  tabs'[t] = None
BY DEF MethodStep, FindTab, FindStarting, BeginStart, AwaitStart, NewRunner, StartCanceled,
       DiscardRunner, EndCanceledStart, StartFailed, InstallTab, CloseTab, FinishClosing,
       Return, CreatePCs, StartPCs, storeVars

\* Where a step of a method takes its goroutine.
LEMMA MethodMoves ==
    ASSUME IInv, NEW c \in Callers, MethodStep(c)
    PROVE  /\ pc[c] # "idle"
           /\ \A d \in Callers : d # c => pc'[d] = pc[d]
           /\ pc[c] \notin CreatePCs => pc'[c] \notin CreatePCs
           /\ pc[c] \in CreatePCs => pc'[c] \in CreatePCs \cup {"idle", "using"}
BY DEF MethodStep, FindTab, FindStarting, BeginStart, AwaitStart, NewRunner, StartCanceled,
       DiscardRunner, EndCanceledStart, StartFailed, InstallTab, CloseTab, FinishClosing,
       Return, ReturnTab, ReturnNil, Goto, CreatePCs, StartPCs, callerVars, IInv, TypeOK

\* A method that goes on gives the lock back when getOrCreate returns
\* (service.go:355-365).
LEMMA StoreStepServes ==
    ASSUME ServiceInv, IInv', NEW c \in Callers, StoreStep(c)
    PROVE  ServiceInv'
<1> USE DEF ServiceInv, ServiceTypeOK
<1>1. /\ pc[c] # "idle"
      /\ \A d \in Callers : d # c => pc'[d] = pc[d]
      /\ pc[c] \notin CreatePCs => pc'[c] \notin CreatePCs
      /\ pc[c] \in CreatePCs => pc'[c] \in CreatePCs \cup {"idle", "using"}
  BY MethodMoves DEF StoreStep
<1>2. /\ lifecycleMu' = IF lifecycleMu = c /\ pc'[c] \in {"idle", "using"}
                          THEN None ELSE lifecycleMu
      /\ stopping' = stopping /\ phase' = phase /\ served' = served
  BY DEF StoreStep
<1>3. ServiceTypeOK'
  BY <1>2 DEF IInv
<1>4. LockOK'
  BY <1>1, <1>2 DEF LockOK, CreatePCs, StartPCs
<1>5. PhaseOK'
  <2>1. \A h \in Handlers : h \in Callers
    BY DEF Handlers
  <2> QED
    BY <1>1, <1>2, <2>1 DEF PhaseOK
<1>6. ServedOK'
  <2>1. stopping => lifecycleMu' = None
    BY <1>2 DEF ServedOK
  <2>2. ASSUME served \in {"closing", "done"}, NEW t \in Targets PROVE tabs'[t] = None
    <3>1. pc[c] \notin CreatePCs
      BY <2>2, NoneIsNoCaller DEF ServedOK, LockOK
    <3> QED
      BY <2>2, <3>1, MapGrows DEF ServedOK, StoreStep
  <2>3. served # "closing" => pc'[Server] = "idle"
    BY <1>1, ServerIsCaller DEF ServedOK
  <2> QED
    BY <1>2, <2>1, <2>2, <2>3 DEF ServedOK
<1> QED
  BY <1>3, <1>4, <1>5, <1>6

-----------------------------------------------------------------------------
(* The theorems                                                            *)

\* Every step of the service keeps the invariant (service.go:27-365).
LEMMA NextServiceInv == ServiceInv /\ [ServiceNext]_allVars => ServiceInv'
<1> SUFFICES ASSUME ServiceInv, [ServiceNext]_allVars PROVE ServiceInv'
  OBVIOUS
<1>1. IInv'
  BY ServiceStepIsStoreStep, NextIInv DEF ServiceInv
<1>2. ASSUME NEW h \in Handlers, HandlerNext(h) PROVE ServiceInv'
  BY <1>1, <1>2, BeginOperationServes, RefuseUseServes, BeginKillServes,
     BeginCreatingUseServes, BeginPlainUseServes, ListTargetServes, EndUseServes,
     EndOperationServes
     DEF HandlerNext
<1>3. ASSUME NEW c \in Callers, StoreStep(c) PROVE ServiceInv'
  BY <1>1, <1>3, StoreStepServes
<1>4. CASE ShutdownNext
  BY <1>1, <1>4, StopAdmissionServes, ShutdownCloseAllServes, WaitOperationsServes
     DEF ShutdownNext
<1>5. CASE Sweep \/ Surroundings
  BY <1>1, <1>5, SweepServes, SurroundingsServes
<1>6. CASE UNCHANGED allVars
  <2> USE <1>6 DEF ServiceInv, allVars, vars, serviceVars, storeVars, callerVars
  <2>1. ServiceTypeOK'
    BY <1>1 DEF ServiceTypeOK, IInv
  <2>2. LockOK' /\ PhaseOK' /\ ServedOK'
    BY DEF LockOK, PhaseOK, ServedOK
  <2> QED
    BY <1>1, <2>1, <2>2
<1> QED
  BY <1>2, <1>3, <1>4, <1>5, <1>6 DEF ServiceNext

\* The inductive invariant holds of every execution of the service (service.go).
THEOREM ServiceInvariance == ServiceSafety => []ServiceInv
<1>1. ServiceInit => ServiceInv
  <2> SUFFICES ASSUME ServiceInit PROVE ServiceInv
    OBVIOUS
  <2>1. IInv
    BY InitIInv DEF ServiceInit
  <2>2. ServiceTypeOK
    BY <2>1 DEF IInv, ServiceInit, ServiceTypeOK
  <2>3. LockOK /\ PhaseOK /\ ServedOK
    BY ServerIsCaller DEF ServiceInit, Init, LockOK, PhaseOK, ServedOK, CreatePCs,
       StartPCs, Handlers
  <2> QED
    BY <2>1, <2>2, <2>3 DEF ServiceInv
<1> QED
  BY <1>1, NextServiceInv, PTL DEF ServiceSafety

\* Every variable keeps its type (service.go:27-60).
THEOREM ServiceTypeCorrect == ServiceSafety => []ServiceTypeOK
<1>1. ServiceInv => ServiceTypeOK
  BY DEF ServiceInv
<1> QED
  BY <1>1, ServiceInvariance, PTL

\* Once StopAdmission has returned no shell is being started
\* (service.go:330-365).
THEOREM StoppedStartsNothingHolds == ServiceSafety => []StoppedStartsNothing
<1>1. ASSUME ServiceInv, stopping, NEW t \in Targets PROVE starting[t] = None
  <2> SUFFICES ASSUME starting[t] # None PROVE FALSE
    OBVIOUS
  <2>1. PICK c \in Callers : Starter(c)
    BY <1>1 DEF ServiceInv, IInv, EntryOK
  <2>2. lifecycleMu = c
    BY <1>1, <2>1 DEF ServiceInv, LockOK, CreatePCs, Starter
  <2> QED
    BY <1>1, <2>2, NoneIsNoCaller DEF ServiceInv, ServedOK
<1>2. ServiceInv => StoppedStartsNothing
  BY <1>1 DEF StoppedStartsNothing
<1> QED
  BY <1>2, ServiceInvariance, PTL

\* When the shutdown has ended no operation is under way and no shell runs, but
\* for one that the sweep has in hand (daemon.go:125-133).
THEOREM NothingLeftRunningHolds == ServiceSafety => []NothingLeftRunning
<1>1. ASSUME ServiceInv, served = "done", NEW a \in Attempts,
             runner[a] \in {"starting", "up"}
      PROVE  Sweeper \in Callers /\ pc[Sweeper] = "closing" /\ a \in Unclosed(Sweeper)
  <2>1. \A c \in Callers : pc[c] \notin CreatePCs
    BY <1>1, NoneIsNoCaller DEF ServiceInv, LockOK, ServedOK
  <2>2. \A t \in Targets : tabs[t] # a
    BY <1>1, NoneIsNil DEF ServiceInv, ServedOK
  <2>3. reaper[a] # "closing"
    BY <1>1 DEF ServiceInv, IInv, ReaperOK
  <2>4. PICK c \in Callers : a \in charge[c] /\ pc[c] = "closing" /\ ~canceled[a]
    BY <1>1, <2>1, <2>2, <2>3 DEF ServiceInv, IInv, AliveOK, CreatePCs, StartPCs
  <2>5. \A d \in Callers : d = Server \/ d \in Handlers => pc[d] = "idle"
    BY <1>1 DEF ServiceInv, ServedOK, PhaseOK
  <2>6. c = Sweeper
    BY <2>4, <2>5 DEF Handlers
  <2> QED
    BY <1>1, <2>4, <2>6 DEF Unclosed
<1>2. ServiceInv => NothingLeftRunning
  BY <1>1 DEF NothingLeftRunning, ServiceInv, ServedOK
<1> QED
  BY <1>2, ServiceInvariance, PTL

-----------------------------------------------------------------------------
(* The contract                                                            *)

\* A step that lets targets go at most vacates the store (store.go:151-155).
LEMMA LettingGoVacates ==
    ASSUME ServiceTypeOK, stopping' = stopping, phase' = phase,
           \A t \in Targets : tabs'[t] \in {tabs[t], None}
    PROVE  [Contract!Next]_Contract!vars
<1>1. Operating' = Operating
  BY DEF Operating
<1>2. Empty' \in {Empty, TRUE}
  BY DEF Empty
<1>3. CASE Empty' = Empty
  BY <1>1, <1>3 DEF Contract!vars
<1>4. CASE Empty' = TRUE
  BY <1>1, <1>4 DEF Contract!Next, Contract!Vacate
<1> QED
  BY <1>2, <1>3, <1>4

\* A method puts a tab into the map only inside an operation that has kept
\* StopAdmission out (service.go:355-362, store.go:230-264).
LEMMA StartingPopulates ==
    ASSUME ServiceInv, NEW c \in Callers, StoreStep(c), pc[c] \in CreatePCs
    PROVE  [Contract!Next]_Contract!vars
<1> USE DEF ServiceInv
<1>1. c \in Handlers /\ lifecycleMu = c
  BY DEF LockOK
<1>2. ~stopping
  BY <1>1, NoneIsNoCaller DEF ServedOK
<1>3. Operating # {}
  BY <1>1 DEF PhaseOK, CreatePCs, StartPCs, Operating
<1>4. stopping' = stopping /\ Operating' = Operating
  BY DEF StoreStep, Operating
<1>5. Empty' \in BOOLEAN /\ Empty \in BOOLEAN
  BY DEF Empty
<1>6. CASE Empty' = Empty
  BY <1>4, <1>6 DEF Contract!vars
<1>7. CASE Empty' = FALSE
  BY <1>2, <1>3, <1>4, <1>7 DEF Contract!Next, Contract!Populate
<1>8. CASE Empty' = TRUE
  BY <1>4, <1>8 DEF Contract!Next, Contract!Vacate
<1> QED
  BY <1>5, <1>6, <1>7, <1>8

\* Other methods do not (store.go:97-149, 266-300).
LEMMA ClosingVacates ==
    ASSUME ServiceInv, NEW c \in Callers, StoreStep(c), pc[c] \notin CreatePCs
    PROVE  [Contract!Next]_Contract!vars
<1>1. ASSUME NEW t \in Targets PROVE tabs'[t] \in {tabs[t], None}
  BY DEF StoreStep, MethodStep, FindTab, FindStarting, BeginStart, AwaitStart, NewRunner,
         StartCanceled, DiscardRunner, EndCanceledStart, StartFailed, InstallTab, CloseTab,
         FinishClosing, Return, CreatePCs, StartPCs, storeVars
<1> QED
  BY <1>1, LettingGoVacates DEF StoreStep, ServiceInv

\* A handler's own steps admit it, end it, or take tabs out (service.go:214-365).
LEMMA HandlerKeepsContract ==
    ASSUME ServiceInv, NEW h \in Handlers, HandlerNext(h)
    PROVE  [Contract!Next]_Contract!vars
<1> USE DEF ServiceInv, ServiceTypeOK
<1>1. CASE BeginOperation(h)
  <2>1. Operating' = Operating \cup {h}
    BY <1>1 DEF BeginOperation, Enter, Operating
  <2> QED
    BY <1>1, <2>1 DEF BeginOperation, vars, storeVars, Empty, Contract!Next, Contract!Admit
<1>2. CASE EndOperation(h)
  <2>1. Operating' = Operating \ {h}
    BY <1>2 DEF EndOperation, Enter, Operating
  <2> QED
    BY <1>2, <2>1 DEF EndOperation, vars, storeVars, Empty, Contract!Next, Contract!Finish
<1>3. CASE EndUse(h)
  BY <1>3, LettingGoVacates DEF EndUse, FinishUse, storeVars, serviceVars
<1>4. CASE RefuseUse(h) \/ BeginKill(h)
           \/ \E t \in Targets :
                 BeginCreatingUse(h, t) \/ BeginPlainUse(h, t) \/ ListTarget(h, t)
  <2>1. phase[h] # "out" /\ phase' = [phase EXCEPT ![h] = "working"]
    BY <1>4 DEF RefuseUse, BeginKill, BeginCreatingUse, BeginPlainUse, ListTarget, Enter
  <2>2. Operating' = Operating
    BY <2>1 DEF Operating
  <2>3. stopping' = stopping
    BY <1>4 DEF RefuseUse, BeginKill, BeginCreatingUse, BeginPlainUse, ListTarget
  <2>4. \A t \in Targets : tabs'[t] \in {tabs[t], None}
    BY <1>4 DEF RefuseUse, BeginKill, BeginCreatingUse, BeginPlainUse, ListTarget,
       CallGetOrCreate, BeginExistingUse, TouchTarget, CloseAll, CloseTarget,
       CloseExistingTarget, TakeOut, Present, vars, storeVars
  <2>5. Empty' \in {Empty, TRUE}
    BY <2>4 DEF Empty
  <2>6. CASE Empty' = Empty
    BY <2>2, <2>3, <2>6 DEF Contract!vars
  <2>7. CASE Empty' = TRUE
    BY <2>2, <2>3, <2>7 DEF Contract!Next, Contract!Vacate
  <2> QED
    BY <2>5, <2>6, <2>7
<1> QED
  BY <1>1, <1>2, <1>3, <1>4 DEF HandlerNext

\* The shutdown stops admission; it and the sweep take tabs out, shells leave the
\* map when they exit (service.go:300-316, store.go:266-282).
LEMMA OthersKeepContract ==
    ASSUME ServiceInv, ShutdownNext \/ Sweep \/ Surroundings
    PROVE  [Contract!Next]_Contract!vars
<1> USE DEF ServiceInv
<1>1. CASE StopAdmission
  BY <1>1 DEF StopAdmission, vars, storeVars, Empty, Operating, Contract!Next,
     Contract!Stop
<1>2. CASE ShutdownCloseAll \/ WaitOperations
  BY <1>2, LettingGoVacates DEF ShutdownCloseAll, WaitOperations, CloseAll, TakeOut,
     Present, vars, storeVars
<1>3. CASE Sweep \/ Surroundings
  BY <1>3, LettingGoVacates DEF Sweep, CloseIdleTargets, TakeOut, Expired, Surroundings,
     ShellExit, ReaperStep, ReaperWakes, ReaperCloses, GrowIdle, storeVars, serviceVars
<1> QED
  BY <1>1, <1>2, <1>3 DEF ShutdownNext

\* The service implements its contract (service.go:46-365): nothing is admitted
\* or put into the store once StopAdmission has returned, and none but an
\* operation puts anything there.
THEOREM ContractHolds == ServiceSafety => ImplementsContract
<1>1. ServiceInit => Contract!Init
  BY DEF ServiceInit, Init, Contract!Init, Operating, Empty
<1>2. ASSUME ServiceInv, [ServiceNext]_allVars PROVE [Contract!Next]_Contract!vars
  <2>1. CASE UNCHANGED allVars
    BY <1>2, <2>1, LettingGoVacates DEF ServiceInv, allVars, vars, storeVars, serviceVars
  <2> QED
    BY <1>2, <2>1, StartingPopulates, ClosingVacates, HandlerKeepsContract,
       OthersKeepContract
       DEF ServiceNext
<1> QED
  BY <1>1, <1>2, ServiceInvariance, PTL DEF ServiceSafety, ImplementsContract, Contract!Spec

=============================================================================
