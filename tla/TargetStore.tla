---------------------------- MODULE TargetStore ----------------------------
(***************************************************************************)
(* The in-memory store of shell targets, src/internal/server/store.go.     *)
(*                                                                         *)
(* Goroutines (Callers) run the store's methods concurrently.  A method is *)
(* a sequence of critical sections of Store.mu with work outside the lock  *)
(* between them: starting a shell, closing a shell, waiting for another    *)
(* goroutine's start.  Every critical section is one action here, and so   *)
(* is every piece of work outside the lock.                                *)
(*                                                                         *)
(* An attempt is one pass through the creating branch of getOrCreate: the  *)
(* startingTarget entry, the Runner it obtains and the Tab it installs all *)
(* carry the attempt's identity, because the code compares them by         *)
(* pointer.  The session/pane/tab maps, which findTabLocked,               *)
(* installTabLocked and removeTabLocked keep, are one map from complete    *)
(* targets to tabs.                                                        *)
(***************************************************************************)
EXTENDS Naturals, FiniteSets

CONSTANTS
    Targets,      \* complete session/pane/tab paths
    Callers,      \* goroutines that call the store
    Attempts,     \* bound: how many starts a behaviour may contain
    None,         \* Go's nil, for a *Tab or a *startingTarget
    TypedNil      \* does newRunner's Runner compare unequal to nil on error?

(***************************************************************************)
(* NewService's factory returns NewPTYRunner's *PTYRunner through a Runner *)
(* interface, so on error it hands the store a non-nil interface holding a *)
(* nil pointer (TypedNil = TRUE); a factory that returns a literal nil     *)
(* Runner is TypedNil = FALSE.                                             *)
(***************************************************************************)
ASSUME NoneIsNil == None \notin Attempts \cup Targets
ASSUME TypedNilIsBoolean == TypedNil \in BOOLEAN
ASSUME CallersFinite == IsFiniteSet(Callers)

VARIABLES
    tabs,       \* Store.sessions, flattened: target -> attempt or None
    starting,   \* Store.starting: target -> attempt or None
    canceled,   \* startingTarget.canceled
    released,   \* startingTarget.done is closed
    runner,     \* what has become of the attempt's Runner
    closeErr,   \* Runner.Close returned an error
    active,     \* Tab.active
    idle,       \* now - Tab.LastUsedAt has reached idleFor
    reaper,     \* the attempt's removeWhenDone goroutine
    pc,         \* where each caller is
    tgt,        \* the target its getOrCreate is about
    att,        \* the attempt it starts, awaits or uses
    charge,     \* the attempts a closing method took out of the store
    failed,     \* firstErr # nil in a closing method
    panicked    \* a nil *PTYRunner was dereferenced: the process is gone

storeVars == <<tabs, starting>>
attemptVars == <<canceled, released, runner, closeErr, active, idle, reaper>>
callerVars == <<pc, tgt, att, charge, failed>>
vars == <<storeVars, attemptVars, callerVars, panicked>>

PCs == {"idle", "lookup", "launching", "launched", "discarding", "discarded",
        "waiting", "using", "closing", "returned"}

RunnerStates == {"unborn", "starting", "up", "exited", "failed", "closed"}

Slots == Attempts \cup {None}

TypeOK ==
    /\ tabs \in [Targets -> Slots]
    /\ starting \in [Targets -> Slots]
    /\ canceled \in [Attempts -> BOOLEAN]
    /\ released \in [Attempts -> BOOLEAN]
    /\ runner \in [Attempts -> RunnerStates]
    /\ closeErr \in [Attempts -> BOOLEAN]
    /\ active \in [Attempts -> Nat]
    /\ idle \in [Attempts -> BOOLEAN]
    /\ reaper \in [Attempts -> {"none", "waiting", "closing", "gone"}]
    /\ pc \in [Callers -> PCs]
    /\ tgt \in [Callers -> Targets \cup {None}]
    /\ att \in [Callers -> Slots]
    /\ charge \in [Callers -> SUBSET Attempts]
    /\ failed \in [Callers -> BOOLEAN]
    /\ panicked \in BOOLEAN

Init ==
    /\ tabs = [t \in Targets |-> None]
    /\ starting = [t \in Targets |-> None]
    /\ canceled = [a \in Attempts |-> FALSE]
    /\ released = [a \in Attempts |-> FALSE]
    /\ runner = [a \in Attempts |-> "unborn"]
    /\ closeErr = [a \in Attempts |-> FALSE]
    /\ active = [a \in Attempts |-> 0]
    /\ idle = [a \in Attempts |-> FALSE]
    /\ reaper = [a \in Attempts |-> "none"]
    /\ pc = [c \in Callers |-> "idle"]
    /\ tgt = [c \in Callers |-> None]
    /\ att = [c \in Callers |-> None]
    /\ charge = [c \in Callers |-> {}]
    /\ failed = [c \in Callers |-> FALSE]
    /\ panicked = FALSE

-----------------------------------------------------------------------------
(* Helpers                                                                 *)

Goto(c, label) == pc' = [pc EXCEPT ![c] = label]

\* The method returns without a tab.
ReturnNil(c) ==
    /\ Goto(c, "idle")
    /\ tgt' = [tgt EXCEPT ![c] = None]
    /\ att' = [att EXCEPT ![c] = None]

\* The method returns tab a, counted as in use until finishUse.
ReturnTab(c, a) ==
    /\ active' = [active EXCEPT ![a] = @ + 1]
    /\ idle' = [idle EXCEPT ![a] = FALSE]
    /\ Goto(c, "using")
    /\ tgt' = [tgt EXCEPT ![c] = None]
    /\ att' = [att EXCEPT ![c] = a]

\* Set Tab.LastUsedAt to now.
Touch(a) == idle' = [idle EXCEPT ![a] = FALSE]

\* Runner.Close returns: the shell is gone whether or not signalling it failed.
CloseRunner(a) ==
    /\ runner' = [runner EXCEPT ![a] = "closed"]
    /\ \E err \in BOOLEAN : closeErr' = [closeErr EXCEPT ![a] = err]

\* Leave the starting map and wake whoever waits on the entry.
Release(a, t) ==
    /\ starting' = [starting EXCEPT ![t] = None]
    /\ released' = [released EXCEPT ![a] = TRUE]

-----------------------------------------------------------------------------
(* getOrCreate                                                             *)

\* Bound: a call is made only while an attempt is left for every caller that
\* may still have to start a shell.  It also ends the loop of getOrCreate, which
\* the code leaves unbounded (store.go:203-224); no property relies on that.
AttemptsLeft ==
    Cardinality({c \in Callers : pc[c] \in {"lookup", "waiting"}})
        < Cardinality({a \in Attempts : runner[a] = "unborn"})

\* BeginUseWithError is called.
CallGetOrCreate(c, t) ==
    /\ pc[c] = "idle"
    /\ AttemptsLeft
    /\ tgt' = [tgt EXCEPT ![c] = t]
    /\ Goto(c, "lookup")
    /\ UNCHANGED <<storeVars, attemptVars, att, charge, failed, panicked>>

\* First critical section, the target is in the map.
FindTab(c) ==
    /\ pc[c] = "lookup"
    /\ tabs[tgt[c]] # None
    /\ ReturnTab(c, tabs[tgt[c]])
    /\ UNCHANGED <<storeVars, canceled, released, runner, closeErr, reaper,
                   charge, failed, panicked>>

\* First critical section, another goroutine is starting the target.
FindStarting(c) ==
    /\ pc[c] = "lookup"
    /\ tabs[tgt[c]] = None
    /\ starting[tgt[c]] # None
    /\ att' = [att EXCEPT ![c] = starting[tgt[c]]]
    /\ Goto(c, "waiting")
    /\ UNCHANGED <<storeVars, attemptVars, tgt, charge, failed, panicked>>

\* Variant: the starting map is not consulted.
BeginStartTwice(c, a) ==
    /\ pc[c] = "lookup"
    /\ tabs[tgt[c]] = None
    /\ runner[a] = "unborn"
    /\ runner' = [runner EXCEPT ![a] = "starting"]
    /\ starting' = [starting EXCEPT ![tgt[c]] = a]
    /\ att' = [att EXCEPT ![c] = a]
    /\ Goto(c, "launching")
    /\ UNCHANGED <<tabs, canceled, released, closeErr, active, idle, reaper,
                   tgt, charge, failed, panicked>>

\* First critical section, the target is neither there nor being started.
BeginStart(c, a) ==
    /\ pc[c] = "lookup"
    /\ tabs[tgt[c]] = None
    /\ starting[tgt[c]] = None
    /\ runner[a] = "unborn"
    /\ runner' = [runner EXCEPT ![a] = "starting"]
    /\ starting' = [starting EXCEPT ![tgt[c]] = a]
    /\ att' = [att EXCEPT ![c] = a]
    /\ Goto(c, "launching")
    /\ UNCHANGED <<tabs, canceled, released, closeErr, active, idle, reaper,
                   tgt, charge, failed, panicked>>

\* <-starting.done, then the tests of canceled and startErr.
AwaitStart(c) ==
    LET a == att[c] IN
    /\ pc[c] = "waiting"
    /\ released[a]
    /\ IF canceled[a] \/ runner[a] = "failed"
         THEN ReturnNil(c)
         ELSE /\ Goto(c, "lookup")
              /\ att' = [att EXCEPT ![c] = None]
              /\ UNCHANGED tgt
    /\ UNCHANGED <<storeVars, attemptVars, charge, failed, panicked>>

\* newRunner() returns a shell, or an error, outside the lock.
NewRunner(c) ==
    /\ pc[c] = "launching"
    /\ \E outcome \in {"up", "failed"} :
          runner' = [runner EXCEPT ![att[c]] = outcome]
    /\ Goto(c, "launched")
    /\ UNCHANGED <<storeVars, canceled, released, closeErr, active, idle, reaper,
                   tgt, att, charge, failed, panicked>>

\* Second critical section, the start was canceled meanwhile: unlock.
StartCanceled(c) ==
    /\ pc[c] = "launched"
    /\ canceled[att[c]]
    /\ Goto(c, "discarding")
    /\ UNCHANGED <<storeVars, attemptVars, tgt, att, charge, failed, panicked>>

\* Variant: a canceled start's shell is forgotten.
DiscardRunnerUnclosed(c) ==
    /\ pc[c] = "discarding"
    /\ Goto(c, "discarded")
    /\ UNCHANGED <<storeVars, attemptVars, tgt, att, charge, failed, panicked>>

\* if runner != nil { closeErr = runner.Close() }, outside the lock.
DiscardRunner(c) ==
    LET a == att[c] IN
    /\ pc[c] = "discarding"
    /\ IF runner[a] = "failed"
         THEN /\ panicked' = TypedNil
              /\ UNCHANGED <<runner, closeErr>>
         ELSE /\ CloseRunner(a)
              /\ UNCHANGED panicked
    /\ Goto(c, "discarded")
    /\ UNCHANGED <<storeVars, canceled, released, active, idle, reaper,
                   tgt, att, charge, failed>>

\* Third critical section: the canceled start ends.
EndCanceledStart(c) ==
    /\ pc[c] = "discarded"
    /\ Release(att[c], tgt[c])
    /\ ReturnNil(c)
    /\ UNCHANGED <<tabs, canceled, runner, closeErr, active, idle, reaper,
                   charge, failed, panicked>>

\* Variant: the waiters are not woken.
StartFailedSilently(c) ==
    /\ pc[c] = "launched"
    /\ ~canceled[att[c]]
    /\ runner[att[c]] = "failed"
    /\ starting' = [starting EXCEPT ![tgt[c]] = None]
    /\ ReturnNil(c)
    /\ UNCHANGED <<tabs, canceled, released, runner, closeErr, active, idle,
                   reaper, charge, failed, panicked>>

\* Second critical section, newRunner failed.
StartFailed(c) ==
    /\ pc[c] = "launched"
    /\ ~canceled[att[c]]
    /\ runner[att[c]] = "failed"
    /\ Release(att[c], tgt[c])
    /\ ReturnNil(c)
    /\ UNCHANGED <<tabs, canceled, runner, closeErr, active, idle, reaper,
                   charge, failed, panicked>>

\* Variant: the second critical section does not look at canceled.
InstallTabUnchecked(c) ==
    LET a == att[c] IN
    /\ pc[c] = "launched"
    /\ runner[a] # "failed"
    /\ tabs' = [tabs EXCEPT ![tgt[c]] = a]
    /\ Release(a, tgt[c])
    /\ reaper' = [reaper EXCEPT ![a] = "waiting"]
    /\ ReturnTab(c, a)
    /\ UNCHANGED <<canceled, runner, closeErr, charge, failed, panicked>>

\* Second critical section, the shell becomes the target's tab; its
\* removeWhenDone goroutine is spawned.
InstallTab(c) ==
    LET a == att[c] IN
    /\ pc[c] = "launched"
    /\ ~canceled[a]
    /\ runner[a] # "failed"
    /\ tabs' = [tabs EXCEPT ![tgt[c]] = a]
    /\ Release(a, tgt[c])
    /\ reaper' = [reaper EXCEPT ![a] = "waiting"]
    /\ ReturnTab(c, a)
    /\ UNCHANGED <<canceled, runner, closeErr, charge, failed, panicked>>

-----------------------------------------------------------------------------
(* Uses of a tab                                                           *)

\* BeginExistingUse.
BeginExistingUse(c, t) ==
    /\ pc[c] = "idle"
    /\ tabs[t] # None
    /\ ReturnTab(c, tabs[t])
    /\ UNCHANGED <<storeVars, canceled, released, runner, closeErr, reaper,
                   charge, failed, panicked>>

\* The func returned by finishUse; the tab may have left the map since.
FinishUse(c) ==
    LET a == att[c] IN
    /\ pc[c] = "using"
    /\ active' = [active EXCEPT ![a] = IF @ > 0 THEN @ - 1 ELSE @]
    /\ Touch(a)
    /\ ReturnNil(c)
    /\ UNCHANGED <<storeVars, canceled, released, runner, closeErr, reaper,
                   charge, failed, panicked>>

\* TouchTarget.
TouchTarget(c, t) ==
    /\ pc[c] = "idle"
    /\ tabs[t] # None
    /\ Touch(tabs[t])
    /\ UNCHANGED <<storeVars, canceled, released, runner, closeErr, active,
                   reaper, callerVars, panicked>>

-----------------------------------------------------------------------------
(* Closing methods                                                         *)

\* The critical section of a closing method: the tabs of T leave the map and
\* the starts of S are canceled; both become the caller's charge.
TakeOut(c, T, S) ==
    /\ pc[c] = "idle"
    /\ charge' = [charge EXCEPT ![c] =
                     {tabs[t] : t \in T} \cup {starting[t] : t \in S}]
    /\ tabs' = [t \in Targets |-> IF t \in T THEN None ELSE tabs[t]]
    /\ canceled' = [a \in Attempts |->
                       canceled[a] \/ \E t \in S : starting[t] = a]
    /\ Goto(c, "closing")
    /\ UNCHANGED <<starting, released, runner, closeErr, active, idle, reaper,
                   tgt, att, failed, panicked>>

Present(T) == {t \in T : tabs[t] # None}
Starting(T) == {t \in T : starting[t] # None}

\* closeTarget with cancelStarting: kill.
CloseTarget(c, t) ==
    TakeOut(c, Present({t}), Starting({t}))

\* closeTarget without cancelStarting: the pty package's Close.
CloseExistingTarget(c, t) ==
    TakeOut(c, Present({t}), {})

CloseAll(c) ==
    TakeOut(c, Present(Targets), Starting(Targets))

\* Variant: the sweep looks only at LastUsedAt.
ExpiredOrInUse == {t \in Targets : tabs[t] # None /\ idle[tabs[t]]}

Expired == {t \in Targets : tabs[t] # None /\ active[tabs[t]] = 0 /\ idle[tabs[t]]}

\* CloseIdleTargets: tabs nobody uses and nobody used for idleFor.
CloseIdleTargets(c) ==
    TakeOut(c, Expired, {})

\* The tabs of its charge that c has yet to close (a canceled start is closed
\* by the goroutine that started it).
Unclosed(c) == {a \in charge[c] : ~canceled[a] /\ runner[a] # "closed"}

\* closeTabs, or closeTarget's tab.Runner.Close(): one Close, outside the lock.
CloseTab(c, a) ==
    /\ pc[c] = "closing"
    /\ a \in Unclosed(c)
    /\ CloseRunner(a)
    /\ failed' = [failed EXCEPT ![c] = @ \/ closeErr'[a]]
    /\ UNCHANGED <<storeVars, canceled, released, active, idle, reaper,
                   pc, tgt, att, charge, panicked>>

\* Variant: the canceled starts are not waited for.
FinishClosingEarly(c) ==
    /\ pc[c] = "closing"
    /\ Unclosed(c) = {}
    /\ Goto(c, "returned")
    /\ UNCHANGED <<storeVars, attemptVars, tgt, att, charge, failed, panicked>>

\* Every tab is closed and every canceled start has ended: the method returns.
FinishClosing(c) ==
    /\ pc[c] = "closing"
    /\ Unclosed(c) = {}
    /\ \A a \in charge[c] : canceled[a] => released[a]
    /\ failed' = [failed EXCEPT ![c] =
                     @ \/ \E a \in charge[c] : canceled[a] /\ closeErr[a]]
    /\ Goto(c, "returned")
    /\ UNCHANGED <<storeVars, attemptVars, tgt, att, charge, panicked>>

\* The caller goes on with the result.
Return(c) ==
    /\ pc[c] = "returned"
    /\ charge' = [charge EXCEPT ![c] = {}]
    /\ failed' = [failed EXCEPT ![c] = FALSE]
    /\ Goto(c, "idle")
    /\ UNCHANGED <<storeVars, attemptVars, tgt, att, panicked>>

-----------------------------------------------------------------------------
(* The shell and its removeWhenDone goroutine; time                        *)

\* A shell exits on its own.
ShellExit(a) ==
    /\ runner[a] = "up"
    /\ runner' = [runner EXCEPT ![a] = "exited"]
    /\ UNCHANGED <<storeVars, canceled, released, closeErr, active, idle, reaper,
                   callerVars, panicked>>

\* removeWhenDone: <-done, then the critical section.
ReaperWakes(a) ==
    /\ reaper[a] = "waiting"
    /\ runner[a] \in {"exited", "closed"}
    /\ IF \E t \in Targets : tabs[t] = a
         THEN /\ tabs' = [t \in Targets |-> IF tabs[t] = a THEN None ELSE tabs[t]]
              /\ reaper' = [reaper EXCEPT ![a] = "closing"]
         ELSE /\ reaper' = [reaper EXCEPT ![a] = "gone"]
              /\ UNCHANGED tabs
    /\ UNCHANGED <<starting, canceled, released, runner, closeErr, active, idle,
                   callerVars, panicked>>

\* removeWhenDone: tab.Runner.Close().
ReaperCloses(a) ==
    /\ reaper[a] = "closing"
    /\ CloseRunner(a)
    /\ reaper' = [reaper EXCEPT ![a] = "gone"]
    /\ UNCHANGED <<storeVars, canceled, released, active, idle,
                   callerVars, panicked>>

\* idleFor passes without a use of the tab.
GrowIdle(a) ==
    /\ \E t \in Targets : tabs[t] = a
    /\ idle' = [idle EXCEPT ![a] = TRUE]
    /\ UNCHANGED <<storeVars, canceled, released, runner, closeErr, active,
                   reaper, callerVars, panicked>>

-----------------------------------------------------------------------------
(* The specification                                                       *)

\* The steps of a method already under way.
MethodStep(c) ==
    \/ FindTab(c) \/ FindStarting(c) \/ \E a \in Attempts : BeginStart(c, a)
    \/ AwaitStart(c) \/ NewRunner(c) \/ StartCanceled(c) \/ DiscardRunner(c)
    \/ EndCanceledStart(c) \/ StartFailed(c) \/ InstallTab(c)
    \/ \E a \in Attempts : CloseTab(c, a)
    \/ FinishClosing(c) \/ Return(c)

\* A method is called, or the use a method began is over.
CallStep(c) ==
    \/ \E t \in Targets :
          \/ CallGetOrCreate(c, t) \/ BeginExistingUse(c, t)
          \/ TouchTarget(c, t) \/ CloseTarget(c, t) \/ CloseExistingTarget(c, t)
    \/ CloseAll(c) \/ CloseIdleTargets(c) \/ FinishUse(c)

ReaperStep(a) == ReaperWakes(a) \/ ReaperCloses(a)

Next ==
    /\ ~panicked
    /\ \/ \E c \in Callers : CallStep(c) \/ MethodStep(c)
       \/ \E a \in Attempts : ShellExit(a) \/ ReaperStep(a) \/ GrowIdle(a)

Spec == Init /\ [][Next]_vars

\* A goroutine inside a method is scheduled and newRunner and Runner.Close
\* return; nothing says when a method is called, a use ends or a shell exits.
Fairness ==
    /\ \A c \in Callers : WF_vars(~panicked /\ MethodStep(c))
    /\ \A a \in Attempts : WF_vars(~panicked /\ ReaperStep(a))

FairSpec == Spec /\ Fairness

-----------------------------------------------------------------------------
(* Properties                                                              *)

\* The parties that will see to it that attempt a's shell is closed: the map
\* it sits in, the goroutine that starts it, a closing method, its reaper.
Owners(a) ==
    {<<"map", t>> : t \in {t \in Targets : tabs[t] = a}}
    \cup {<<"start", c>> : c \in {c \in Callers : att[c] = a /\ pc[c] \in
                                   {"launching", "launched", "discarding"}}}
    \cup {<<"close", c>> : c \in {c \in Callers : pc[c] = "closing"
                                                /\ a \in Unclosed(c)}}
    \cup {<<"reap", b>> : b \in {b \in {a} : reaper[b] = "closing"}}

\* A shell that runs, or may come to run, has exactly one owner, and a shell
\* that is gone has none: none leaks, and the store never closes one twice,
\* however starts, kills, sweeps and exits interleave (store.go:198-324).
OneOwner ==
    \A a \in Attempts :
        IF runner[a] \in {"starting", "up", "exited"}
          THEN \E o \in Owners(a) : Owners(a) = {o}
          ELSE runner[a] # "failed" => Owners(a) = {}

\* A start that kill or CloseAll canceled never becomes a tab, so nothing is
\* served by a shell the user has already been told is gone (store.go:232-243).
CanceledNeverServes ==
    \A t \in Targets : tabs[t] # None => ~canceled[tabs[t]]

\* A target is never started while it has a tab: two shells never answer to
\* one path (store.go:203-227).
OneIncarnation ==
    \A t \in Targets : tabs[t] # None => starting[t] = None

\* When a closing method returns, every tab it removed is closed and every
\* start it canceled has ended, and it reports an error exactly when closing
\* one of them failed, also when others closed well (store.go:434-490).
CloseIsComplete ==
    \A c \in Callers : pc[c] = "returned" =>
        /\ \A a \in charge[c] : runner[a] \in {"closed", "failed"}
        /\ failed[c] <=> \E a \in charge[c] : closeErr[a]

\* The idle sweep never takes a tab away from an operation that is using it
\* (store.go:185).
SweepSparesUsers ==
    [][\A c \in Callers :
          CloseIdleTargets(c) =>
              \A d \in Callers : pc[d] = "using" => att[d] \notin charge'[c]]_vars

\* Close is never called on the Runner of a start that failed; the code means
\* to test for it with "if runner != nil" (store.go:235).
NoNilClose == ~panicked

\* Where a call is when it does its own work, or awaits what it canceled.
Working == {"launching", "launched", "discarding", "discarded", "closing", "returned"}

\* A goroutine that waits for another's start is woken whatever becomes of that
\* start, and a call that starts a shell or closes shells, and awaits the starts
\* it canceled, returns.  A caller that is woken to find the tab killed and
\* another start under way waits again, for that one; nothing bounds how often
\* (store.go:203-224), and the property does not speak of it.
WaitsEnd ==
    LET Awaited(a) == \E c \in Callers : pc[c] = "waiting" /\ att[c] = a IN
    /\ \A a \in Attempts : Awaited(a) ~> ~Awaited(a)
    /\ \A c \in Callers : pc[c] \in Working ~> pc[c] \in {"idle", "using"}

\* The refinement of TargetLifecycle.
currentBar == [t \in Targets |-> IF tabs[t] # None THEN tabs[t] ELSE starting[t]]

stageBar ==
    [a \in Attempts |->
        IF runner[a] = "unborn" THEN "unborn"
        ELSE IF \E t \in Targets : tabs[t] = a THEN "serving"
        ELSE IF \E t \in Targets : starting[t] = a THEN "starting"
        ELSE IF runner[a] \in {"closed", "failed"} THEN "over"
        ELSE "leaving"]

Lifecycle == INSTANCE TargetLifecycle WITH current <- currentBar, stage <- stageBar

\* The store implements the lifecycle of shells it promises; with fairness,
\* every start ends and every shell taken out of service is disposed of.
ImplementsLifecycle == Lifecycle!LifecycleSpec

=============================================================================
