------------------------- MODULE TargetStoreProofs -------------------------
(***************************************************************************)
(* Proofs about TargetStore, for any numbers of targets, goroutines and    *)
(* starts and for both kinds of runner factory.                            *)
(***************************************************************************)
EXTENDS TargetStore, FiniteSetTheorems, TLAPS

\* The goroutines that own a start, from the entry to its removal.
StartPCs == {"launching", "launched", "discarding", "discarded"}
Starter(c) == pc[c] \in StartPCs

\* A caller in the middle of getOrCreate, or using a tab, knows of which.
LocalsOK ==
    \A c \in Callers :
        /\ pc[c] \in StartPCs \cup {"lookup", "waiting"} => tgt[c] \in Targets
        /\ pc[c] \in StartPCs \cup {"waiting", "using"} => att[c] \in Attempts

\* A tab in the map is alive, was not canceled, and is in one place.
MapOK ==
    \A t \in Targets : tabs[t] # None =>
        /\ runner[tabs[t]] \in {"up", "exited"}
        /\ ~canceled[tabs[t]]
        /\ reaper[tabs[t]] = "waiting"
        /\ \A u \in Targets : tabs[u] = tabs[t] => u = t

\* A starter's attempt is its own, is the target's entry, and is as far as the
\* starter is.
StarterOK ==
    \A c \in Callers : Starter(c) =>
        /\ starting[tgt[c]] = att[c]
        /\ tabs[tgt[c]] = None
        /\ reaper[att[c]] = "none"
        /\ \A d \in Callers : Starter(d) /\ att[d] = att[c] => d = c
        /\ pc[c] = "launching" => runner[att[c]] = "starting"
        /\ pc[c] \in {"launched", "discarding"} =>
              runner[att[c]] \in {"up", "exited", "failed"}
        /\ pc[c] = "discarded" => runner[att[c]] \in {"closed", "failed"}
        /\ pc[c] \in {"discarding", "discarded"} => canceled[att[c]]

\* An entry of the starting map has its starter.
EntryOK ==
    \A t \in Targets : starting[t] # None =>
        \E c \in Callers : Starter(c) /\ att[c] = starting[t] /\ tgt[c] = t

\* What a closing method has in charge is out of the map, and no other has it,
\* unless it is a canceled start, which its starter closes.
ChargeOK ==
    \A c \in Callers : \A a \in charge[c] :
        /\ pc[c] \in {"closing", "returned"}
        /\ runner[a] # "unborn"
        /\ canceled[a] => reaper[a] = "none"
        /\ ~canceled[a] =>
              /\ reaper[a] \in {"waiting", "gone"}
              /\ runner[a] \in {"up", "exited", "closed"}
              /\ \A t \in Targets : tabs[t] # a
              /\ \A d \in Callers : a \in charge[d] => d = c
              /\ pc[c] = "returned" => runner[a] = "closed"

\* A reaper that closes has the exited shell to itself.
ReaperOK ==
    \A a \in Attempts : reaper[a] = "closing" =>
        /\ runner[a] = "exited"
        /\ ~canceled[a]
        /\ \A t \in Targets : tabs[t] # a
        /\ \A c \in Callers : a \notin charge[c]

\* A shell that runs or may come to run is in somebody's hands.
AliveOK ==
    \A a \in Attempts :
        /\ runner[a] = "unborn" => reaper[a] = "none" /\ ~canceled[a]
        /\ runner[a] = "starting" =>
              \E c \in Callers : pc[c] = "launching" /\ att[c] = a
        /\ runner[a] \in {"up", "exited"} =>
              \/ \E t \in Targets : tabs[t] = a
              \/ \E c \in Callers : pc[c] \in {"launched", "discarding"} /\ att[c] = a
              \/ \E c \in Callers : a \in charge[c] /\ pc[c] = "closing" /\ ~canceled[a]
              \/ reaper[a] = "closing"

IInv ==
    /\ TypeOK
    /\ LocalsOK
    /\ MapOK
    /\ StarterOK
    /\ EntryOK
    /\ ChargeOK
    /\ ReaperOK
    /\ AliveOK


-----------------------------------------------------------------------------
(* Each action keeps IInv.  USE expands the action and the invariant; a step  *)
(* lists the parts of IInv that its goal takes.                               *)

\* What closing methods have in charge stays theirs alone when one more takes
\* tabs and starts (store.go:175-196, 416-480): a tab comes from the map, where
\* no charge has it, and a canceled start stays its starter's to close.
LEMMA TakeOutCharge ==
    ASSUME IInv, NEW c \in Callers, NEW T \in SUBSET Targets, NEW S \in SUBSET Targets,
           TakeOut(c, T, S),
           \A t \in T : tabs[t] # None, \A t \in S : starting[t] # None
    PROVE  ChargeOK'
<1>1. \A t \in Targets : tabs[t] # None =>
         tabs[t] \in Attempts /\ \A s \in Targets : starting[s] # tabs[t]
  <2> SUFFICES ASSUME NEW t \in Targets, tabs[t] # None,
                      NEW s \in Targets, starting[s] = tabs[t]
               PROVE  FALSE
    BY DEF IInv, TypeOK, Slots
  <2>1. reaper[tabs[t]] = "waiting"
    BY DEF IInv, MapOK
  <2>2. reaper[starting[s]] = "none"
    BY NoneIsNil DEF IInv, EntryOK, StarterOK
  <2> QED
    BY <2>1, <2>2
<1>2. \A t \in Targets : starting[t] # None =>
         /\ starting[t] \in Attempts
         /\ reaper[starting[t]] = "none"
         /\ runner[starting[t]] # "unborn"
  BY DEF IInv, TypeOK, Slots, EntryOK, StarterOK, Starter, StartPCs
<1>3. ASSUME NEW d \in Callers, NEW a \in charge'[d], d # c
      PROVE  a \in charge[d] /\ pc'[d] = pc[d]
  BY <1>3 DEF TakeOut, Goto, IInv, TypeOK
<1>4. \A a \in charge'[c] : (\E t \in T : a = tabs[t]) \/ (\E t \in S : a = starting[t])
  BY DEF TakeOut, IInv, TypeOK
<1>5. ASSUME NEW a \in Attempts
      PROVE  /\ canceled'[a] <=> canceled[a] \/ \E t \in S : starting[t] = a
             /\ \A t \in Targets : tabs'[t] = a => tabs[t] = a /\ t \notin T
  BY NoneIsNil DEF TakeOut
<1>6. reaper' = reaper /\ runner' = runner /\ pc'[c] = "closing"
  BY DEF TakeOut, Goto, IInv, TypeOK
<1>7. ASSUME NEW d \in Callers, NEW a \in charge'[d], d # c
      PROVE  /\ pc'[d] \in {"closing", "returned"}
             /\ runner'[a] # "unborn"
             /\ canceled'[a] => reaper'[a] = "none"
             /\ ~canceled'[a] =>
                   /\ reaper'[a] \in {"waiting", "gone"}
                   /\ runner'[a] \in {"up", "exited", "closed"}
                   /\ \A t \in Targets : tabs'[t] # a
                   /\ \A e \in Callers : a \in charge'[e] => e = d
                   /\ pc'[d] = "returned" => runner'[a] = "closed"
  <2>1. a \in Attempts /\ a \in charge[d] /\ pc'[d] = pc[d]
    BY <1>3, <1>7 DEF IInv, TypeOK
  <2>2. canceled'[a] => reaper'[a] = "none"
    BY <1>2, <1>5, <1>6, <2>1 DEF IInv, ChargeOK
  <2>3. ASSUME ~canceled'[a], NEW e \in Callers, a \in charge'[e]
        PROVE  e = d
    <3>1. ~canceled[a] /\ \A t \in S : starting[t] # a
      BY <1>5, <2>1, <2>3
    <3>2. \A t \in Targets : tabs[t] # a
      BY <2>1, <3>1 DEF IInv, ChargeOK
    <3>3. e # c
      BY <1>4, <2>3, <3>1, <3>2
    <3> QED
      BY <1>3, <2>1, <2>3, <3>1, <3>3 DEF IInv, ChargeOK
  <2> QED
    BY <1>5, <1>6, <2>1, <2>2, <2>3 DEF IInv, ChargeOK
<1>8. ASSUME NEW a \in charge'[c]
      PROVE  /\ runner'[a] # "unborn"
             /\ canceled'[a] => reaper'[a] = "none"
             /\ ~canceled'[a] =>
                   /\ reaper'[a] \in {"waiting", "gone"}
                   /\ runner'[a] \in {"up", "exited", "closed"}
                   /\ \A t \in Targets : tabs'[t] # a
                   /\ \A e \in Callers : a \in charge'[e] => e = c
  <2>1. CASE \E t \in S : a = starting[t]
    BY <1>2, <1>5, <1>6, <2>1
  <2>2. CASE \E t \in T : a = tabs[t]
    <3>1. PICK t \in T : a = tabs[t]
      BY <2>2
    <3>2. /\ a \in Attempts /\ ~canceled[a] /\ reaper[a] = "waiting"
          /\ runner[a] \in {"up", "exited"}
          /\ \A u \in Targets : tabs[u] = a => u = t
      BY <1>1, <3>1 DEF IInv, MapOK
    <3>3. ~canceled'[a] /\ \A u \in Targets : tabs'[u] # a
      BY <1>1, <1>5, <3>1, <3>2
    <3>4. \A e \in Callers : a \notin charge[e]
      BY <3>1, <3>2 DEF IInv, ChargeOK
    <3> QED
      BY <1>3, <1>6, <3>2, <3>3, <3>4
  <2> QED
    BY <1>4, <2>1, <2>2
<1> QED
  BY <1>6, <1>7, <1>8 DEF ChargeOK

\* Entering getOrCreate (store.go:198-204) disturbs only the caller's locals.
LEMMA CallGetOrCreateKeeps ==
    ASSUME IInv, NEW c \in Callers, NEW t \in Targets, CallGetOrCreate(c, t)
    PROVE  IInv'
<1> USE DEF IInv, CallGetOrCreate, Goto, Starter, StartPCs, storeVars,
   attemptVars, callerVars
<1>1. TypeOK'
  BY DEF TypeOK, PCs
<1>2. LocalsOK'
  BY DEF TypeOK, LocalsOK
<1>3. MapOK' /\ StarterOK' /\ EntryOK' /\ ChargeOK' /\ ReaperOK' /\ AliveOK'
  BY DEF MapOK, StarterOK, EntryOK, ChargeOK, ReaperOK, AliveOK
<1> QED
  BY <1>1, <1>2, <1>3

\* A caller that finds the tab (store.go:205-212) takes what MapOK says is alive.
LEMMA FindTabKeeps ==
    ASSUME IInv, NEW c \in Callers, FindTab(c)
    PROVE  IInv'
<1> USE DEF IInv, FindTab, ReturnTab, Goto, Starter, StartPCs, storeVars,
   attemptVars, callerVars
<1>1. TypeOK'
  BY DEF TypeOK, LocalsOK, Slots, PCs, RunnerStates
<1>2. LocalsOK'
  BY DEF TypeOK, LocalsOK, Slots
<1>3. MapOK' /\ StarterOK' /\ EntryOK' /\ ChargeOK' /\ ReaperOK' /\ AliveOK'
  BY DEF MapOK, StarterOK, EntryOK, ChargeOK, ReaperOK, AliveOK
<1> QED
  BY <1>1, <1>2, <1>3

\* A caller that waits for a start (store.go:213-224) knows the start it waits for.
LEMMA FindStartingKeeps ==
    ASSUME IInv, NEW c \in Callers, FindStarting(c)
    PROVE  IInv'
<1> USE DEF IInv, FindStarting, Goto, Starter, StartPCs, storeVars,
   attemptVars, callerVars
<1>1. TypeOK'
  BY DEF TypeOK, LocalsOK, Slots, PCs, RunnerStates
<1>2. LocalsOK'
  BY DEF TypeOK, LocalsOK, Slots
<1>3. MapOK' /\ StarterOK' /\ EntryOK' /\ ChargeOK' /\ ReaperOK' /\ AliveOK'
  BY DEF MapOK, StarterOK, EntryOK, ChargeOK, ReaperOK, AliveOK
<1> QED
  BY <1>1, <1>2, <1>3

\* A new start (store.go:225-227) is the target's only one: neither the map nor
\* the starting map has the target, so no other starter owns it.
LEMMA BeginStartKeeps ==
    ASSUME IInv, NEW c \in Callers, NEW a \in Attempts, BeginStart(c, a)
    PROVE  IInv'
<1> USE DEF IInv, BeginStart, Goto, Starter, StartPCs, storeVars, attemptVars,
   callerVars
<1>1. TypeOK'
  BY DEF TypeOK, Slots, PCs, RunnerStates
<1>2. LocalsOK'
  BY DEF TypeOK, LocalsOK
<1>3. MapOK' /\ ChargeOK' /\ ReaperOK'
  BY DEF MapOK, ChargeOK, ReaperOK
<1>4. StarterOK'
  BY NoneIsNil DEF TypeOK, LocalsOK, StarterOK, ReaperOK, AliveOK, Slots, PCs,
     RunnerStates
<1>5. EntryOK'
  BY DEF TypeOK, EntryOK
<1>6. AliveOK'
  BY DEF TypeOK, AliveOK
<1> QED
  BY <1>1, <1>2, <1>3, <1>4, <1>5, <1>6

\* A waiter that is woken (store.go:214-223) changes only its own locals.
LEMMA AwaitStartKeeps ==
    ASSUME IInv, NEW c \in Callers, AwaitStart(c)
    PROVE  IInv'
<1> USE DEF IInv, AwaitStart, ReturnNil, Goto, Starter, StartPCs, storeVars,
   attemptVars, callerVars
<1>1. TypeOK'
  BY DEF TypeOK, Slots, PCs
<1>2. LocalsOK'
  BY DEF TypeOK, LocalsOK
<1>3. MapOK' /\ ReaperOK'
  BY DEF MapOK, ReaperOK
<1>4. StarterOK'
  BY DEF TypeOK, StarterOK
<1>5. EntryOK'
  BY DEF TypeOK, EntryOK
<1>6. ChargeOK'
  BY DEF TypeOK, ChargeOK
<1>7. AliveOK'
  BY DEF TypeOK, AliveOK
<1> QED
  BY <1>1, <1>2, <1>3, <1>4, <1>5, <1>6, <1>7

\* The factory's result (store.go:229) belongs to the starter that launched it.
LEMMA NewRunnerKeeps ==
    ASSUME IInv, NEW c \in Callers, NewRunner(c)
    PROVE  IInv'
<1> USE DEF IInv, NewRunner, Goto, Starter, StartPCs, storeVars, attemptVars,
   callerVars
<1>1. TypeOK'
  BY DEF TypeOK, LocalsOK, Slots, PCs, RunnerStates
<1>2. LocalsOK' /\ EntryOK'
  BY DEF LocalsOK, EntryOK
<1>3. MapOK'
  BY DEF TypeOK, MapOK, StarterOK, ChargeOK, ReaperOK, AliveOK, Slots, PCs,
     RunnerStates
<1>4. StarterOK'
  BY DEF TypeOK, LocalsOK, StarterOK, Slots, PCs, RunnerStates
<1>5. ChargeOK'
  BY DEF TypeOK, StarterOK, EntryOK, ChargeOK, ReaperOK, AliveOK, Slots, PCs,
     RunnerStates
<1>6. ReaperOK'
  BY DEF TypeOK, StarterOK, EntryOK, ChargeOK, ReaperOK, AliveOK, Slots, PCs,
     RunnerStates
<1>7. AliveOK'
  BY DEF TypeOK, AliveOK
<1> QED
  BY <1>1, <1>2, <1>3, <1>4, <1>5, <1>6, <1>7

\* The starter finds that it was canceled (store.go:231-234).
LEMMA StartCanceledKeeps ==
    ASSUME IInv, NEW c \in Callers, StartCanceled(c)
    PROVE  IInv'
<1> USE DEF IInv, StartCanceled, Goto, Starter, StartPCs, storeVars,
   attemptVars, callerVars
<1>1. TypeOK'
  BY DEF TypeOK, PCs
<1>2. LocalsOK' /\ MapOK' /\ StarterOK' /\ EntryOK' /\ ChargeOK' /\ ReaperOK' /\ AliveOK'
  BY DEF LocalsOK, MapOK, StarterOK, EntryOK, ChargeOK, ReaperOK, AliveOK
<1> QED
  BY <1>1, <1>2

\* A canceled starter closes the shell nobody else may close (store.go:235-238).
LEMMA DiscardRunnerKeeps ==
    ASSUME IInv, NEW c \in Callers, DiscardRunner(c)
    PROVE  IInv'
<1> USE DEF IInv, DiscardRunner, CloseRunner, Goto, Starter, StartPCs,
   storeVars, attemptVars, callerVars
<1>1. TypeOK'
  BY NoneIsNil, TypedNilIsBoolean DEF TypeOK, PCs, RunnerStates
<1>2. LocalsOK' /\ EntryOK'
  BY DEF LocalsOK, EntryOK
<1>3. MapOK'
  BY DEF TypeOK, MapOK, StarterOK, ChargeOK, ReaperOK, AliveOK, Slots, PCs,
     RunnerStates
<1>4. StarterOK'
  BY DEF TypeOK, LocalsOK, StarterOK, Slots, PCs, RunnerStates
<1>5. ChargeOK'
  BY DEF TypeOK, ChargeOK
<1>6. ReaperOK'
  BY DEF TypeOK, StarterOK, EntryOK, ChargeOK, ReaperOK, AliveOK, Slots, PCs,
     RunnerStates
<1>7. AliveOK'
  BY DEF TypeOK, AliveOK
<1> QED
  BY <1>1, <1>2, <1>3, <1>4, <1>5, <1>6, <1>7

\* The canceled entry leaves the starting map with its shell closed
\* (store.go:239-244).
LEMMA EndCanceledStartKeeps ==
    ASSUME IInv, NEW c \in Callers, EndCanceledStart(c)
    PROVE  IInv'
<1> USE DEF IInv, EndCanceledStart, Release, ReturnNil, Goto, Starter,
   StartPCs, storeVars, attemptVars, callerVars
<1>1. TypeOK'
  BY DEF TypeOK, Slots, PCs
<1>2. LocalsOK'
  BY DEF TypeOK, LocalsOK
<1>3. MapOK' /\ ChargeOK' /\ ReaperOK' /\ AliveOK'
  BY DEF MapOK, ChargeOK, ReaperOK, AliveOK
<1>4. StarterOK'
  BY DEF TypeOK, StarterOK
<1>5. EntryOK'
  BY DEF TypeOK, EntryOK
<1> QED
  BY <1>1, <1>2, <1>3, <1>4, <1>5

\* A failed start leaves the starting map without a shell (store.go:245-251).
LEMMA StartFailedKeeps ==
    ASSUME IInv, NEW c \in Callers, StartFailed(c)
    PROVE  IInv'
<1> USE DEF IInv, StartFailed, Release, ReturnNil, Goto, Starter, StartPCs,
   storeVars, attemptVars, callerVars
<1>1. TypeOK'
  BY DEF TypeOK, Slots, PCs
<1>2. LocalsOK'
  BY DEF TypeOK, LocalsOK
<1>3. MapOK' /\ ChargeOK' /\ ReaperOK' /\ AliveOK'
  BY DEF MapOK, ChargeOK, ReaperOK, AliveOK
<1>4. StarterOK'
  BY DEF TypeOK, StarterOK
<1>5. EntryOK'
  BY DEF TypeOK, EntryOK
<1> QED
  BY <1>1, <1>2, <1>3, <1>4, <1>5

\* The tab enters the map in the step in which its entry leaves the starting map
\* (store.go:252-264): the shell changes hands, it is never in nobody's.
LEMMA InstallTabKeeps ==
    ASSUME IInv, NEW c \in Callers, InstallTab(c)
    PROVE  IInv'
<1> USE DEF IInv, InstallTab, Release, ReturnTab, Goto, Starter, StartPCs,
   storeVars, attemptVars, callerVars
<1>1. TypeOK'
  BY DEF TypeOK, LocalsOK, Slots, PCs, RunnerStates
<1>2. LocalsOK'
  BY DEF TypeOK, LocalsOK
<1>3. MapOK'
  BY DEF TypeOK, MapOK, StarterOK, ChargeOK, ReaperOK, AliveOK, Slots, PCs,
     RunnerStates
<1>4. StarterOK'
  BY DEF TypeOK, StarterOK
<1>5. EntryOK'
  BY DEF TypeOK, EntryOK
<1>6. ChargeOK'
  BY DEF TypeOK, StarterOK, EntryOK, ChargeOK, ReaperOK, AliveOK, Slots, PCs,
     RunnerStates
<1>7. ReaperOK'
  BY DEF TypeOK, ReaperOK
<1>8. AliveOK'
  BY NoneIsNil DEF TypeOK, LocalsOK, StarterOK, EntryOK, ChargeOK, ReaperOK,
     AliveOK, Slots, PCs, RunnerStates
<1> QED
  BY <1>1, <1>2, <1>3, <1>4, <1>5, <1>6, <1>7, <1>8

\* A use of an existing tab (store.go:116-128) takes what MapOK says is alive.
LEMMA BeginExistingUseKeeps ==
    ASSUME IInv, NEW c \in Callers, NEW t \in Targets, BeginExistingUse(c, t)
    PROVE  IInv'
<1> USE DEF IInv, BeginExistingUse, ReturnTab, Goto, Starter, StartPCs,
   storeVars, attemptVars, callerVars
<1>1. TypeOK'
  BY DEF TypeOK, Slots, PCs
<1>2. LocalsOK'
  BY DEF TypeOK, LocalsOK, Slots
<1>3. MapOK' /\ StarterOK' /\ EntryOK' /\ ChargeOK' /\ ReaperOK' /\ AliveOK'
  BY DEF MapOK, StarterOK, EntryOK, ChargeOK, ReaperOK, AliveOK
<1> QED
  BY <1>1, <1>2, <1>3

\* The end of a use (store.go:130-139) leaves every shell where it is.
LEMMA FinishUseKeeps ==
    ASSUME IInv, NEW c \in Callers, FinishUse(c)
    PROVE  IInv'
<1> USE DEF IInv, FinishUse, Touch, ReturnNil, Goto, Starter, StartPCs,
   storeVars, attemptVars, callerVars
<1>1. TypeOK'
  BY DEF TypeOK, LocalsOK, Slots, PCs, RunnerStates
<1>2. LocalsOK'
  BY DEF TypeOK, LocalsOK
<1>3. MapOK' /\ StarterOK' /\ EntryOK' /\ ChargeOK' /\ ReaperOK' /\ AliveOK'
  BY DEF MapOK, StarterOK, EntryOK, ChargeOK, ReaperOK, AliveOK
<1> QED
  BY <1>1, <1>2, <1>3

\* A touch (store.go:141-149) leaves every shell where it is.
LEMMA TouchTargetKeeps ==
    ASSUME IInv, NEW c \in Callers, NEW t \in Targets, TouchTarget(c, t)
    PROVE  IInv'
<1> USE DEF IInv, TouchTarget, Touch, Starter, StartPCs, storeVars,
   attemptVars, callerVars
<1>1. TypeOK'
  BY DEF TypeOK
<1>2. LocalsOK' /\ MapOK' /\ StarterOK' /\ EntryOK' /\ ChargeOK' /\ ReaperOK' /\ AliveOK'
  BY DEF LocalsOK, MapOK, StarterOK, EntryOK, ChargeOK, ReaperOK, AliveOK
<1> QED
  BY <1>1, <1>2

\* The methods that take tabs out and cancel starts (store.go:175-196, 416-480)
\* keep the invariant.
LEMMA TakeOutKeeps ==
    ASSUME IInv, NEW c \in Callers, NEW T \in SUBSET Targets,
           NEW S \in SUBSET Targets, TakeOut(c, T, S),
           \A t \in T : tabs[t] # None, \A t \in S : starting[t] # None
    PROVE  IInv'
<1> USE DEF IInv, TakeOut, Goto, Starter, StartPCs, storeVars, attemptVars,
   callerVars
<1>1. TypeOK'
  BY DEF TypeOK, Slots, PCs
<1>2. LocalsOK' /\ EntryOK'
  BY DEF LocalsOK, EntryOK
<1>3. MapOK'
  BY DEF TypeOK, MapOK, StarterOK, EntryOK, ChargeOK, ReaperOK, AliveOK,
     Slots, PCs, RunnerStates
<1>4. StarterOK'
  BY DEF TypeOK, LocalsOK, StarterOK, Slots, PCs, RunnerStates
<1>5. ChargeOK'
  BY TakeOutCharge
<1>6. ReaperOK'
  BY NoneIsNil DEF TypeOK, StarterOK, EntryOK, ChargeOK, ReaperOK, AliveOK,
     Slots, PCs, RunnerStates
<1>7. AliveOK'
  BY DEF TypeOK, MapOK, StarterOK, EntryOK, ChargeOK, ReaperOK, AliveOK,
     Slots, PCs, RunnerStates
<1> QED
  BY <1>1, <1>2, <1>3, <1>4, <1>5, <1>6, <1>7

\* Closing one tab (store.go:482-490) closes a shell only this caller has.
LEMMA CloseTabKeeps ==
    ASSUME IInv, NEW c \in Callers, NEW a \in Attempts, CloseTab(c, a)
    PROVE  IInv'
<1> USE DEF IInv, CloseTab, CloseRunner, Unclosed, Starter, StartPCs,
   storeVars, attemptVars, callerVars
<1>1. TypeOK'
  BY DEF TypeOK, RunnerStates
<1>2. LocalsOK' /\ EntryOK' /\ ChargeOK' /\ ReaperOK' /\ AliveOK'
  BY DEF LocalsOK, EntryOK, ChargeOK, ReaperOK, AliveOK
<1>3. MapOK'
  BY DEF MapOK, ChargeOK
<1>4. StarterOK'
  BY DEF StarterOK, ChargeOK
<1> QED
  BY <1>1, <1>2, <1>3, <1>4

\* The method goes on when every tab it took is closed (store.go:482-490).
LEMMA FinishClosingKeeps ==
    ASSUME IInv, NEW c \in Callers, FinishClosing(c)
    PROVE  IInv'
<1> USE DEF IInv, FinishClosing, Unclosed, Goto, Starter, StartPCs, storeVars,
   attemptVars, callerVars
<1>1. TypeOK'
  BY DEF TypeOK, PCs
<1>2. LocalsOK' /\ MapOK' /\ StarterOK' /\ EntryOK' /\ ChargeOK' /\ ReaperOK' /\ AliveOK'
  BY DEF LocalsOK, MapOK, StarterOK, EntryOK, ChargeOK, ReaperOK, AliveOK
<1> QED
  BY <1>1, <1>2

\* Return drops the charge (store.go:475-480).
LEMMA ReturnKeeps ==
    ASSUME IInv, NEW c \in Callers, Return(c)
    PROVE  IInv'
<1> USE DEF IInv, Return, Goto, Starter, StartPCs, storeVars, attemptVars,
   callerVars
<1>1. TypeOK'
  BY DEF TypeOK, PCs
<1>2. LocalsOK' /\ MapOK' /\ StarterOK' /\ EntryOK' /\ ReaperOK' /\ AliveOK'
  BY DEF LocalsOK, MapOK, StarterOK, EntryOK, ReaperOK, AliveOK
<1>3. ChargeOK'
  BY DEF TypeOK, ChargeOK
<1> QED
  BY <1>1, <1>2, <1>3

\* A shell that exits stays in the same hands (tab.go:997-1012).
LEMMA ShellExitKeeps ==
    ASSUME IInv, NEW a \in Attempts, ShellExit(a)
    PROVE  IInv'
<1> USE DEF IInv, ShellExit, Starter, StartPCs, storeVars, attemptVars,
   callerVars
<1>1. TypeOK'
  BY DEF TypeOK, RunnerStates
<1>2. LocalsOK' /\ MapOK' /\ StarterOK' /\ EntryOK' /\ ChargeOK' /\ ReaperOK' /\ AliveOK'
  BY DEF LocalsOK, MapOK, StarterOK, EntryOK, ChargeOK, ReaperOK, AliveOK
<1> QED
  BY <1>1, <1>2

\* removeWhenDone (store.go:294-324) takes a tab that is still in the map, and
\* leaves one that another method took.
LEMMA ReaperWakesKeeps ==
    ASSUME IInv, NEW a \in Attempts, ReaperWakes(a)
    PROVE  IInv'
<1> USE DEF IInv, ReaperWakes, Starter, StartPCs, storeVars, attemptVars,
   callerVars
<1>1. TypeOK'
  BY DEF TypeOK, Slots
<1>2. LocalsOK' /\ EntryOK'
  BY DEF LocalsOK, EntryOK
<1>3. MapOK'
  BY DEF TypeOK, MapOK, Slots
<1>4. StarterOK'
  BY DEF TypeOK, LocalsOK, StarterOK, Slots, PCs, RunnerStates
<1>5. ChargeOK'
  BY NoneIsNil DEF TypeOK, ChargeOK
<1>6. ReaperOK'
  BY NoneIsNil DEF TypeOK, MapOK, EntryOK, ChargeOK, ReaperOK, AliveOK, Slots,
     PCs, RunnerStates
<1>7. AliveOK'
  BY DEF TypeOK, AliveOK
<1> QED
  BY <1>1, <1>2, <1>3, <1>4, <1>5, <1>6, <1>7

\* The reaper closes the shell it took out (store.go:303-305).
LEMMA ReaperClosesKeeps ==
    ASSUME IInv, NEW a \in Attempts, ReaperCloses(a)
    PROVE  IInv'
<1> USE DEF IInv, ReaperCloses, CloseRunner, Starter, StartPCs, storeVars,
   attemptVars, callerVars
<1>1. TypeOK'
  BY DEF TypeOK, RunnerStates
<1>2. LocalsOK' /\ MapOK' /\ StarterOK' /\ EntryOK' /\ ChargeOK'
  BY DEF LocalsOK, MapOK, StarterOK, EntryOK, ChargeOK
<1>3. ReaperOK'
  BY DEF TypeOK, ReaperOK
<1>4. AliveOK'
  BY DEF TypeOK, AliveOK
<1> QED
  BY <1>1, <1>2, <1>3, <1>4

\* Time passing leaves every shell where it is (store.go:181-186).
LEMMA GrowIdleKeeps ==
    ASSUME IInv, NEW a \in Attempts, GrowIdle(a)
    PROVE  IInv'
<1> USE DEF IInv, GrowIdle, Starter, StartPCs, storeVars, attemptVars,
   callerVars
<1>1. TypeOK'
  BY DEF TypeOK
<1>2. LocalsOK' /\ MapOK' /\ StarterOK' /\ EntryOK' /\ ChargeOK' /\ ReaperOK' /\ AliveOK'
  BY DEF LocalsOK, MapOK, StarterOK, EntryOK, ChargeOK, ReaperOK, AliveOK
<1> QED
  BY <1>1, <1>2

-----------------------------------------------------------------------------
(* The theorems                                                            *)

\* A new store satisfies the invariant (store.go:87-92).
LEMMA InitIInv == Init => IInv
<1> SUFFICES ASSUME Init PROVE IInv
  OBVIOUS
<1>1. \A t \in Targets : tabs[t] = None /\ starting[t] = None
  BY DEF Init
<1>2. \A c \in Callers : pc[c] = "idle" /\ charge[c] = {}
  BY DEF Init
<1>3. \A a \in Attempts : runner[a] = "unborn" /\ reaper[a] = "none" /\ ~canceled[a]
  BY DEF Init
<1>4. TypeOK
  BY DEF Init, TypeOK, Slots, PCs, RunnerStates
<1>5. LocalsOK /\ MapOK /\ StarterOK /\ EntryOK
  BY <1>1, <1>2 DEF LocalsOK, MapOK, StarterOK, EntryOK, StartPCs, Starter
<1>6. ChargeOK /\ ReaperOK /\ AliveOK
  BY <1>2, <1>3 DEF ChargeOK, ReaperOK, AliveOK
<1> QED
  BY <1>4, <1>5, <1>6 DEF IInv

\* Every step of the store's methods, goroutines and shells keeps the invariant
\* (store.go:94-490).
LEMMA NextIInv == IInv /\ [Next]_vars => IInv'
<1> SUFFICES ASSUME IInv, [Next]_vars PROVE IInv'
  OBVIOUS
<1>1. ASSUME NEW c \in Callers, CallStep(c) PROVE IInv'
  <2>1. ASSUME NEW t \in Targets, CallGetOrCreate(c, t) PROVE IInv'
    BY <2>1, CallGetOrCreateKeeps
  <2>2. ASSUME NEW t \in Targets, BeginExistingUse(c, t) PROVE IInv'
    BY <2>2, BeginExistingUseKeeps
  <2>3. ASSUME NEW t \in Targets, TouchTarget(c, t) PROVE IInv'
    BY <2>3, TouchTargetKeeps
  <2>4. ASSUME NEW t \in Targets, CloseTarget(c, t) PROVE IInv'
    BY <2>4, TakeOutKeeps DEF CloseTarget, Present, Starting
  <2>5. ASSUME NEW t \in Targets, CloseExistingTarget(c, t) PROVE IInv'
    BY <2>5, TakeOutKeeps DEF CloseExistingTarget, Present
  <2>6. CASE CloseAll(c)
    BY <2>6, TakeOutKeeps DEF CloseAll, Present, Starting
  <2>7. CASE CloseIdleTargets(c)
    BY <2>7, TakeOutKeeps DEF CloseIdleTargets, Expired
  <2>8. CASE FinishUse(c)
    BY <2>8, FinishUseKeeps
  <2> QED
    BY <1>1, <2>1, <2>2, <2>3, <2>4, <2>5, <2>6, <2>7, <2>8 DEF CallStep
<1>2. ASSUME NEW c \in Callers, MethodStep(c) PROVE IInv'
  BY <1>2, FindTabKeeps, FindStartingKeeps, BeginStartKeeps, AwaitStartKeeps,
     NewRunnerKeeps, StartCanceledKeeps, DiscardRunnerKeeps,
     EndCanceledStartKeeps, StartFailedKeeps, InstallTabKeeps, CloseTabKeeps,
     FinishClosingKeeps, ReturnKeeps
     DEF MethodStep
<1>3. ASSUME NEW a \in Attempts, ShellExit(a) \/ ReaperStep(a) \/ GrowIdle(a)
      PROVE  IInv'
  BY <1>3, ShellExitKeeps, ReaperWakesKeeps, ReaperClosesKeeps, GrowIdleKeeps
     DEF ReaperStep
<1>4. CASE UNCHANGED vars
  BY <1>4 DEF vars, storeVars, attemptVars, callerVars, IInv, TypeOK, LocalsOK,
     MapOK, StarterOK, EntryOK, ChargeOK, ReaperOK, AliveOK, StartPCs, Starter
<1> QED
  BY <1>1, <1>2, <1>3, <1>4 DEF Next

\* The inductive invariant holds of every execution of the store, whatever the
\* numbers of targets, callers and starts (store.go).
THEOREM Invariance == Spec => []IInv
BY InitIInv, NextIInv, PTL DEF Spec

\* Every variable keeps its type (store.go:33-67).
THEOREM TypeCorrect == Spec => []TypeOK
<1>1. IInv => TypeOK
  BY DEF IInv
<1> QED
  BY <1>1, Invariance, PTL

\* A start that a kill canceled never becomes the target's tab
\* (store.go:231-244, 252-264).
THEOREM CanceledNeverServesHolds == Spec => []CanceledNeverServes
<1>1. IInv => CanceledNeverServes
  BY DEF IInv, MapOK, CanceledNeverServes
<1> QED
  BY <1>1, Invariance, PTL

\* A target never has a tab and a start at once, nor two starts
\* (store.go:198-266).
THEOREM OneIncarnationHolds == Spec => []OneIncarnation
<1>1. IInv => OneIncarnation
  BY DEF IInv, EntryOK, StarterOK, OneIncarnation
<1> QED
  BY <1>1, Invariance, PTL

\* The invariant implies that each live shell has exactly one owner.
LEMMA IInvOneOwner == IInv => OneOwner
<1> SUFFICES ASSUME IInv, NEW a \in Attempts
             PROVE  IF runner[a] \in {"starting", "up", "exited"}
                      THEN \E o \in Owners(a) : Owners(a) = {o}
                      ELSE runner[a] # "failed" => Owners(a) = {}
  BY DEF OneOwner
<1> DEFINE Mapped(t) == t \in Targets /\ tabs[t] = a
           Starts(c) == c \in Callers /\ att[c] = a
                        /\ pc[c] \in {"launching", "launched", "discarding"}
           Closes(c) == c \in Callers /\ pc[c] = "closing" /\ a \in Unclosed(c)
           Reaps == reaper[a] = "closing"
<1>1. \A o : o \in Owners(a) <=>
         \/ \E t : Mapped(t) /\ o = <<"map", t>>
         \/ \E c : Starts(c) /\ o = <<"start", c>>
         \/ \E c : Closes(c) /\ o = <<"close", c>>
         \/ Reaps /\ o = <<"reap", a>>
  BY DEF Owners
<1>2. \A t, u : Mapped(t) /\ Mapped(u) => t = u
  BY NoneIsNil DEF IInv, MapOK
<1>3. \A c, d : Starts(c) /\ Starts(d) => c = d
  BY DEF IInv, StarterOK, Starter, StartPCs
<1>4. \A c, d : Closes(c) /\ Closes(d) => c = d
  BY DEF IInv, ChargeOK, Unclosed
<1>5. \A t, c : ~(Mapped(t) /\ Starts(c))
  BY NoneIsNil DEF IInv, MapOK, StarterOK, Starter, StartPCs
<1>6. \A t, c : ~(Mapped(t) /\ Closes(c))
  BY DEF IInv, ChargeOK, Unclosed
<1>7. \A t : ~(Mapped(t) /\ Reaps)
  BY DEF IInv, ReaperOK
<1>8. \A c, d : ~(Starts(c) /\ Closes(d))
  BY DEF IInv, ChargeOK, StarterOK, Starter, StartPCs, Unclosed
<1>9. \A c : ~(Starts(c) /\ Reaps)
  BY DEF IInv, StarterOK, Starter, StartPCs
<1>10. \A c : ~(Closes(c) /\ Reaps)
  BY DEF IInv, ReaperOK, Unclosed
<1>11. CASE runner[a] \in {"starting", "up", "exited"}
  <2>1. (\E t : Mapped(t)) \/ (\E c : Starts(c)) \/ (\E c : Closes(c)) \/ Reaps
    BY <1>11 DEF IInv, AliveOK, Unclosed
  <2>2. \A o, p : o \in Owners(a) /\ p \in Owners(a) => o = p
    <3> HIDE DEF Mapped, Starts, Closes, Reaps
    <3> QED
      BY <1>1, <1>2, <1>3, <1>4, <1>5, <1>6, <1>7, <1>8, <1>9, <1>10
  <2>3. \E o : o \in Owners(a)
    <3> HIDE DEF Mapped, Starts, Closes, Reaps
    <3> QED
      BY <1>1, <2>1
  <2> QED
    BY <1>11, <2>2, <2>3
<1>12. CASE runner[a] \notin {"starting", "up", "exited", "failed"}
  <2>1. ~(\E t : Mapped(t)) /\ ~Reaps
    BY <1>12, NoneIsNil DEF IInv, MapOK, ReaperOK
  <2>2. \A c : ~Starts(c)
    BY <1>12 DEF IInv, StarterOK, Starter, StartPCs
  <2>3. \A c : ~Closes(c)
    BY <1>12 DEF IInv, TypeOK, RunnerStates, ChargeOK, Unclosed
  <2> QED
    BY <1>1, <1>12, <2>1, <2>2, <2>3
<1> QED
  BY <1>11, <1>12

\* Each live shell is in exactly one place: the map, its starter, one closing
\* method or its reaper; so none leaks and none is closed twice
\* (store.go:198-324, 416-490).
THEOREM OneOwnerHolds == Spec => []OneOwner
BY IInvOneOwner, Invariance, PTL

-----------------------------------------------------------------------------
(* The refinement of TargetLifecycle                                       *)

\* Is attempt a the tab, or the start, of a target?
Mapped(a) == \E t \in Targets : tabs[t] = a
Entered(a) == \E t \in Targets : starting[t] = a

\* The invariant tells the stage of an attempt from where it is
\* (store.go:198-324).
LEMMA StageOf ==
    ASSUME IInv, NEW a \in Attempts
    PROVE  /\ Mapped(a) => /\ runner[a] \in {"up", "exited"} /\ ~Entered(a)
                           /\ stageBar[a] = "serving"
           /\ Entered(a) => /\ runner[a] # "unborn" /\ ~Mapped(a)
                            /\ stageBar[a] = "starting"
           /\ ~Mapped(a) /\ ~Entered(a) =>
                 stageBar[a] = IF runner[a] = "unborn" THEN "unborn"
                               ELSE IF runner[a] \in {"closed", "failed"} THEN "over"
                               ELSE "leaving"
<1>1. Mapped(a) => runner[a] \in {"up", "exited"} /\ reaper[a] = "waiting"
  BY NoneIsNil DEF Mapped, IInv, MapOK
<1>2. Entered(a) => runner[a] # "unborn" /\ reaper[a] = "none"
  <2>1. ASSUME NEW t \in Targets, starting[t] = a
        PROVE  \E c \in Callers : Starter(c) /\ att[c] = a
    BY <2>1, NoneIsNil DEF IInv, EntryOK
  <2> QED
    BY <2>1 DEF Entered, IInv, StarterOK, Starter, StartPCs
<1> QED
  BY <1>1, <1>2 DEF stageBar, Mapped, Entered

\* And so after a step.
LEMMA StageOfNext ==
    ASSUME IInv', NEW a \in Attempts
    PROVE  /\ Mapped(a)' => stageBar'[a] = "serving"
           /\ Entered(a)' => stageBar'[a] = "starting"
           /\ ~Mapped(a)' /\ ~Entered(a)' =>
                 stageBar'[a] = IF runner'[a] = "unborn" THEN "unborn"
                                ELSE IF runner'[a] \in {"closed", "failed"} THEN "over"
                                ELSE "leaving"
<1>1. Mapped(a)' => runner'[a] \in {"up", "exited"} /\ reaper'[a] = "waiting"
  BY NoneIsNil DEF Mapped, IInv, MapOK
<1>2. Entered(a)' => runner'[a] # "unborn" /\ reaper'[a] = "none"
  <2>1. ASSUME NEW t \in Targets, starting'[t] = a
        PROVE  \E c \in Callers : Starter(c)' /\ att'[c] = a
    BY <2>1, NoneIsNil DEF IInv, EntryOK
  <2> QED
    BY <2>1 DEF Entered, IInv, StarterOK, Starter, StartPCs
<1> QED
  BY <1>1, <1>2 DEF stageBar, Mapped, Entered

\* A step that moves no attempt is a stuttering step of the lifecycle.
LEMMA UnmovedStutters ==
    ASSUME tabs' = tabs, starting' = starting,
           \A a \in Attempts : runner'[a] = runner[a]
    PROVE  UNCHANGED Lifecycle!lifecycleVars
<1>1. currentBar' = currentBar
  BY DEF currentBar
<1>2. stageBar' = stageBar
  BY DEF stageBar
<1> QED
  BY <1>1, <1>2 DEF Lifecycle!lifecycleVars

\* So is one in which the runner of an attempt gets on without a change of stage.
LEMMA SameStageStutters ==
    ASSUME IInv, IInv', tabs' = tabs, starting' = starting,
           \A a \in Attempts :
              \/ runner'[a] = runner[a]
              \/ Entered(a)
              \/ runner[a] = "up" /\ runner'[a] = "exited"
    PROVE  UNCHANGED Lifecycle!lifecycleVars
<1>1. currentBar' = currentBar
  BY DEF currentBar
<1>2. ASSUME NEW a \in Attempts PROVE stageBar'[a] = stageBar[a]
  <2>1. /\ Mapped(a)' <=> Mapped(a)
        /\ Entered(a)' <=> Entered(a)
    BY DEF Mapped, Entered
  <2> QED
    BY <2>1, StageOf, StageOfNext
<1>3. stageBar' = stageBar
  BY <1>2 DEF stageBar
<1> QED
  BY <1>1, <1>3 DEF Lifecycle!lifecycleVars

\* What the state of a starting goroutine says of its attempt (store.go:226-264).
LEMMA StarterEntered ==
    ASSUME IInv, NEW c \in Callers, Starter(c)
    PROVE  /\ tgt[c] \in Targets /\ att[c] \in Attempts
           /\ tabs[tgt[c]] = None /\ starting[tgt[c]] = att[c]
           /\ Entered(att[c])
           /\ \A t \in Targets : starting[t] = att[c] => t = tgt[c]
<1>1. /\ tgt[c] \in Targets /\ att[c] \in Attempts
      /\ tabs[tgt[c]] = None /\ starting[tgt[c]] = att[c]
  BY DEF IInv, LocalsOK, StarterOK, Starter
<1>2. ASSUME NEW t \in Targets, starting[t] = att[c] PROVE t = tgt[c]
  <2>1. PICK d \in Callers : Starter(d) /\ att[d] = starting[t] /\ tgt[d] = t
    BY <1>1, <1>2, NoneIsNil DEF IInv, EntryOK
  <2>2. d = c
    BY <1>2, <2>1 DEF IInv, StarterOK
  <2> QED
    BY <2>1, <2>2
<1> QED
  BY <1>1, <1>2 DEF Entered

\* The stages are functions of the attempts.
LEMMA StageFunctions ==
    /\ stageBar = [a \in Attempts |-> stageBar[a]]
    /\ stageBar' = [a \in Attempts |-> stageBar'[a]]
BY DEF stageBar

\* An attempt in the starting map has no reaper yet (store.go:226-264).
LEMMA EnteredNotReaped ==
    ASSUME IInv, NEW a \in Attempts, Entered(a)
    PROVE  reaper[a] = "none"
<1>1. PICK t \in Targets : starting[t] = a
  BY DEF Entered
<1>2. PICK c \in Callers : Starter(c) /\ att[c] = a
  BY <1>1, NoneIsNil DEF IInv, EntryOK
<1> QED
  BY <1>2 DEF IInv, StarterOK

\* A start begins for a target that has neither tab nor start (store.go:226-227).
LEMMA BeginStartRefines ==
    ASSUME IInv, IInv', NEW c \in Callers, NEW a \in Attempts, BeginStart(c, a)
    PROVE  Lifecycle!Begin(tgt[c], a)
<1>1. tgt[c] \in Targets
  BY DEF BeginStart, IInv, LocalsOK
<1>2. ~Mapped(a) /\ ~Entered(a)
  BY StageOf DEF BeginStart
<1>3. currentBar[tgt[c]] = None /\ stageBar[a] = "unborn"
  BY <1>1, <1>2, StageOf DEF BeginStart, currentBar
<1>4. currentBar' = [currentBar EXCEPT ![tgt[c]] = a]
  BY <1>1 DEF BeginStart, currentBar, IInv, TypeOK
<1>5. ASSUME NEW b \in Attempts
      PROVE  stageBar'[b] = IF b = a THEN "starting" ELSE stageBar[b]
  <2>1. (Mapped(b)' <=> Mapped(b)) /\ (Entered(b)' <=> b = a \/ Entered(b))
    BY <1>1, NoneIsNil DEF Mapped, Entered, BeginStart, IInv, TypeOK
  <2>2. b # a => runner'[b] = runner[b]
    BY DEF BeginStart, IInv, TypeOK
  <2> QED
    BY <2>1, <2>2, StageOf, StageOfNext
<1>6. stageBar' = [stageBar EXCEPT ![a] = "starting"]
  BY <1>5, StageFunctions
<1> QED
  BY <1>3, <1>4, <1>6 DEF Lifecycle!Begin

\* The shell of a start serves from the step in which its tab is installed
\* (store.go:252-264).
LEMMA InstallTabRefines ==
    ASSUME IInv, IInv', NEW c \in Callers, InstallTab(c)
    PROVE  Lifecycle!Serve(tgt[c], att[c])
<1> DEFINE a == att[c]
<1>1. /\ tgt[c] \in Targets /\ a \in Attempts /\ tabs[tgt[c]] = None
      /\ starting[tgt[c]] = a /\ Entered(a)
      /\ \A t \in Targets : starting[t] = a => t = tgt[c]
  BY StarterEntered DEF InstallTab, Starter, StartPCs
<1>2. currentBar[tgt[c]] = a /\ stageBar[a] = "starting"
  BY <1>1, StageOf DEF currentBar
<1>3. /\ tabs' = [tabs EXCEPT ![tgt[c]] = a]
      /\ starting' = [starting EXCEPT ![tgt[c]] = None] /\ runner' = runner
  BY DEF InstallTab, Release
<1> HIDE DEF a
<1>4. currentBar' = currentBar
  BY <1>1, <1>3, NoneIsNil DEF currentBar, IInv, TypeOK
<1>5. ASSUME NEW b \in Attempts
      PROVE  stageBar'[b] = IF b = a THEN "serving" ELSE stageBar[b]
  <2>1. /\ Mapped(b)' <=> b = a \/ Mapped(b)
        /\ b # a => (Entered(b)' <=> Entered(b))
    BY <1>1, <1>3, NoneIsNil DEF Mapped, Entered, IInv, TypeOK
  <2> QED
    BY <1>3, <2>1, StageOf, StageOfNext
<1>6. stageBar' = [stageBar EXCEPT ![a] = "serving"]
  BY <1>5, StageFunctions
<1> QED
  BY <1>2, <1>4, <1>6 DEF Lifecycle!Serve, a

\* A start that failed, or was canceled and closed, is abandoned
\* (store.go:239-251).
LEMMA ReleaseRefines ==
    ASSUME IInv, IInv', NEW c \in Callers, Starter(c), Release(att[c], tgt[c]),
           tabs' = tabs, runner' = runner, runner[att[c]] \in {"closed", "failed"}
    PROVE  Lifecycle!Abandon(tgt[c], att[c])
<1> DEFINE a == att[c]
<1>1. /\ tgt[c] \in Targets /\ a \in Attempts /\ tabs[tgt[c]] = None
      /\ starting[tgt[c]] = a /\ Entered(a)
      /\ \A t \in Targets : starting[t] = a => t = tgt[c]
  BY StarterEntered
<1>2. currentBar[tgt[c]] = a /\ stageBar[a] = "starting"
  BY <1>1, StageOf DEF currentBar
<1>3. starting' = [starting EXCEPT ![tgt[c]] = None] /\ runner[a] \in {"closed", "failed"}
  BY DEF Release
<1> HIDE DEF a
<1>4. currentBar' = [currentBar EXCEPT ![tgt[c]] = None]
  BY <1>1, <1>3 DEF currentBar, IInv, TypeOK
<1>5. ASSUME NEW b \in Attempts
      PROVE  stageBar'[b] = IF b = a THEN "over" ELSE stageBar[b]
  <2>1. /\ Mapped(b)' <=> Mapped(b)
        /\ Entered(b)' <=> b # a /\ Entered(b)
    BY <1>1, <1>3, NoneIsNil DEF Mapped, Entered, IInv, TypeOK
  <2>2. ~Mapped(a)
    BY <1>1, StageOf
  <2> QED
    BY <1>3, <2>1, <2>2, StageOf, StageOfNext
<1>6. stageBar' = [stageBar EXCEPT ![a] = "over"]
  BY <1>5, StageFunctions
<1> QED
  BY <1>2, <1>4, <1>6 DEF Lifecycle!Abandon, a

\* Tabs that leave the map together stop serving together (store.go:175-196,
\* 298-302, 416-480).
LEMMA LeaveRefines ==
    ASSUME IInv, IInv', NEW T \in SUBSET Targets, \A t \in T : tabs[t] # None,
           tabs' = [t \in Targets |-> IF t \in T THEN None ELSE tabs[t]],
           starting' = starting, runner' = runner
    PROVE  Lifecycle!Leave(T)
<1>1. ASSUME NEW t \in T
      PROVE  /\ tabs[t] \in Attempts /\ starting[t] = None
             /\ currentBar[t] = tabs[t] /\ stageBar[tabs[t]] = "serving"
  <2>1. tabs[t] \in Attempts
    BY DEF IInv, TypeOK, Slots
  <2>2. Mapped(tabs[t])
    BY DEF Mapped
  <2>3. starting[t] = None
    BY DEF IInv, EntryOK, StarterOK
  <2> QED
    BY <2>1, <2>2, <2>3, StageOf DEF currentBar
<1>2. ASSUME NEW t \in Targets
      PROVE  currentBar'[t] = IF t \in T THEN None ELSE currentBar[t]
  BY <1>1 DEF currentBar
<1>3. ASSUME NEW a \in Attempts
      PROVE  stageBar'[a] = IF \E t \in T : currentBar[t] = a THEN "leaving" ELSE stageBar[a]
  <2>1. CASE \E t \in T : currentBar[t] = a
    <3>1. PICK t \in T : tabs[t] = a
      BY <1>1, <2>1
    <3>2. Mapped(a)
      BY <3>1 DEF Mapped
    <3>3. ~Mapped(a)'
      BY <3>1, NoneIsNil DEF Mapped, IInv, MapOK
    <3>4. ~Entered(a) /\ ~Entered(a)' /\ runner[a] \in {"up", "exited"}
      BY <3>2, StageOf DEF Entered
    <3> QED
      BY <2>1, <3>3, <3>4, StageOfNext
  <2>2. CASE ~ \E t \in T : currentBar[t] = a
    <3>1. (Mapped(a)' <=> Mapped(a)) /\ (Entered(a)' <=> Entered(a))
      BY <1>1, <2>2, NoneIsNil DEF Mapped, Entered
    <3> QED
      BY <2>2, <3>1, StageOf, StageOfNext
  <2> QED
    BY <2>1, <2>2
<1>4. currentBar' = [t \in Targets |-> IF t \in T THEN None ELSE currentBar[t]]
  BY <1>2 DEF currentBar
<1>5. stageBar' = [a \in Attempts |->
                      IF \E t \in T : currentBar[t] = a THEN "leaving" ELSE stageBar[a]]
  BY <1>3 DEF stageBar
<1>6. \A t \in T : currentBar[t] # None /\ stageBar[currentBar[t]] = "serving"
  BY <1>1
<1> QED
  BY <1>4, <1>5, <1>6 DEF Lifecycle!Leave

\* A shell that left is disposed of when it is closed (store.go:303-305, 482-490).
LEMMA CloseRefines ==
    ASSUME IInv, IInv', NEW a \in Attempts, ~Mapped(a), ~Entered(a),
           runner[a] \in {"up", "exited"}, runner' = [runner EXCEPT ![a] = "closed"],
           tabs' = tabs, starting' = starting
    PROVE  Lifecycle!Finish(a)
<1>1. stageBar[a] = "leaving"
  BY StageOf
<1>2. currentBar' = currentBar
  BY DEF currentBar
<1>3. ASSUME NEW b \in Attempts
      PROVE  stageBar'[b] = IF b = a THEN "over" ELSE stageBar[b]
  <2>1. (Mapped(b)' <=> Mapped(b)) /\ (Entered(b)' <=> Entered(b))
    BY DEF Mapped, Entered
  <2>2. runner'[b] = IF b = a THEN "closed" ELSE runner[b]
    BY DEF IInv, TypeOK
  <2> QED
    BY <2>1, <2>2, StageOf, StageOfNext
<1>4. stageBar' = [stageBar EXCEPT ![a] = "over"]
  BY <1>3, StageFunctions
<1> QED
  BY <1>1, <1>2, <1>4 DEF Lifecycle!Finish

\* A step of a method is a step of the lifecycle, or none (store.go:198-266,
\* 434-490).
LEMMA MethodStepRefines ==
    ASSUME IInv, IInv', NEW c \in Callers, MethodStep(c)
    PROVE  [Lifecycle!LifecycleNext]_(Lifecycle!lifecycleVars)
<1> USE DEF storeVars, attemptVars, callerVars
<1>1. CASE FindTab(c) \/ FindStarting(c) \/ AwaitStart(c) \/ StartCanceled(c)
           \/ FinishClosing(c) \/ Return(c)
  BY <1>1, UnmovedStutters
     DEF FindTab, FindStarting, AwaitStart, StartCanceled, FinishClosing, Return
<1>2. ASSUME NEW a \in Attempts, BeginStart(c, a) PROVE Lifecycle!LifecycleNext
  <2>1. tgt[c] \in Targets
    BY <1>2 DEF BeginStart, IInv, LocalsOK
  <2> QED
    BY <1>2, <2>1, BeginStartRefines DEF Lifecycle!LifecycleNext
<1>3. CASE NewRunner(c) \/ DiscardRunner(c)
  <2>1. Entered(att[c]) /\ \A a \in Attempts : a # att[c] => runner'[a] = runner[a]
    BY <1>3, StarterEntered
       DEF NewRunner, DiscardRunner, CloseRunner, Starter, StartPCs, IInv, TypeOK
  <2>2. tabs' = tabs /\ starting' = starting
    BY <1>3 DEF NewRunner, DiscardRunner
  <2>3. \A a \in Attempts : runner'[a] = runner[a] \/ Entered(a)
    BY <2>1
  <2> QED
    BY <2>2, <2>3, SameStageStutters
<1>4. CASE EndCanceledStart(c)
  <2>1. Starter(c) /\ runner[att[c]] \in {"closed", "failed"}
    BY <1>4 DEF EndCanceledStart, Starter, StartPCs, IInv, StarterOK
  <2>2. Lifecycle!Abandon(tgt[c], att[c])
    BY <1>4, <2>1, ReleaseRefines DEF EndCanceledStart
  <2> QED
    BY <2>1, <2>2, StarterEntered DEF Lifecycle!LifecycleNext
<1>5. CASE StartFailed(c)
  <2>1. Starter(c) /\ runner[att[c]] \in {"closed", "failed"}
    BY <1>5 DEF StartFailed, Starter, StartPCs
  <2>2. Lifecycle!Abandon(tgt[c], att[c])
    BY <1>5, <2>1, ReleaseRefines DEF StartFailed
  <2> QED
    BY <2>1, <2>2, StarterEntered DEF Lifecycle!LifecycleNext
<1>6. CASE InstallTab(c)
  <2>1. Starter(c)
    BY <1>6 DEF InstallTab, Starter, StartPCs
  <2> QED
    BY <1>6, <2>1, InstallTabRefines, StarterEntered DEF Lifecycle!LifecycleNext
<1>7. ASSUME NEW a \in Attempts, CloseTab(c, a) PROVE Lifecycle!LifecycleNext
  <2>1. /\ a \in charge[c] /\ ~canceled[a] /\ runner[a] # "closed"
        /\ runner' = [runner EXCEPT ![a] = "closed"]
        /\ tabs' = tabs /\ starting' = starting
    BY <1>7 DEF CloseTab, CloseRunner, Unclosed
  <2>2. /\ reaper[a] \in {"waiting", "gone"} /\ runner[a] \in {"up", "exited"}
        /\ ~Mapped(a)
    BY <2>1 DEF IInv, ChargeOK, Mapped
  <2>3. ~Entered(a)
    BY <2>2, EnteredNotReaped
  <2> QED
    BY <2>1, <2>2, <2>3, CloseRefines DEF Lifecycle!LifecycleNext
<1> QED
  BY <1>1, <1>2, <1>3, <1>4, <1>5, <1>6, <1>7 DEF MethodStep

\* So is a method called, and a use ended (store.go:94-196, 416-480).
LEMMA CallStepRefines ==
    ASSUME IInv, IInv', NEW c \in Callers, CallStep(c)
    PROVE  [Lifecycle!LifecycleNext]_(Lifecycle!lifecycleVars)
<1> USE DEF storeVars, attemptVars, callerVars
<1>1. ASSUME NEW t \in Targets,
             CallGetOrCreate(c, t) \/ BeginExistingUse(c, t) \/ TouchTarget(c, t)
      PROVE  UNCHANGED Lifecycle!lifecycleVars
  BY <1>1, UnmovedStutters DEF CallGetOrCreate, BeginExistingUse, TouchTarget
<1>2. CASE FinishUse(c)
  BY <1>2, UnmovedStutters DEF FinishUse
<1>3. ASSUME NEW T \in SUBSET Targets, NEW S, TakeOut(c, T, S), \A t \in T : tabs[t] # None
      PROVE  Lifecycle!LifecycleNext
  BY <1>3, LeaveRefines DEF TakeOut, Lifecycle!LifecycleNext
<1>4. ASSUME NEW t \in Targets, CloseTarget(c, t) \/ CloseExistingTarget(c, t)
      PROVE  Lifecycle!LifecycleNext
  BY <1>3, <1>4 DEF CloseTarget, CloseExistingTarget, Present
<1>5. CASE CloseAll(c) \/ CloseIdleTargets(c)
  BY <1>3, <1>5 DEF CloseAll, CloseIdleTargets, Present, Expired
<1> QED
  BY <1>1, <1>2, <1>4, <1>5 DEF CallStep

\* And so are the shells, their reapers and time (store.go:294-324).
LEMMA ShellStepRefines ==
    ASSUME IInv, IInv', NEW a \in Attempts, ShellExit(a) \/ ReaperStep(a) \/ GrowIdle(a)
    PROVE  [Lifecycle!LifecycleNext]_(Lifecycle!lifecycleVars)
<1> USE DEF storeVars, attemptVars, callerVars
<1>1. CASE ShellExit(a)
  <2>1. /\ tabs' = tabs /\ starting' = starting
        /\ \A b \in Attempts : \/ runner'[b] = runner[b]
                               \/ runner[b] = "up" /\ runner'[b] = "exited"
    BY <1>1 DEF ShellExit, IInv, TypeOK
  <2> QED
    BY <2>1, SameStageStutters
<1>2. CASE ReaperWakes(a)
  <2>1. CASE Mapped(a)
    <3> DEFINE T == {t \in Targets : tabs[t] = a}
    <3>1. /\ T \in SUBSET Targets /\ \A t \in T : tabs[t] # None
          /\ tabs' = [t \in Targets |-> IF t \in T THEN None ELSE tabs[t]]
          /\ starting' = starting /\ runner' = runner
      BY <1>2, <2>1, NoneIsNil DEF ReaperWakes, Mapped
    <3> HIDE DEF T
    <3>2. Lifecycle!Leave(T)
      BY <3>1, LeaveRefines
    <3> QED
      BY <3>1, <3>2 DEF Lifecycle!LifecycleNext
  <2>2. CASE ~Mapped(a)
    BY <1>2, <2>2, UnmovedStutters DEF ReaperWakes, Mapped
  <2> QED
    BY <2>1, <2>2
<1>3. CASE ReaperCloses(a)
  <2>1. runner[a] = "exited" /\ ~Mapped(a) /\ reaper[a] = "closing"
    BY <1>3 DEF ReaperCloses, IInv, ReaperOK, Mapped
  <2>2. ~Entered(a)
    BY <2>1, EnteredNotReaped
  <2>3. runner' = [runner EXCEPT ![a] = "closed"] /\ tabs' = tabs /\ starting' = starting
    BY <1>3 DEF ReaperCloses, CloseRunner
  <2> QED
    BY <2>1, <2>2, <2>3, CloseRefines DEF Lifecycle!LifecycleNext
<1>4. CASE GrowIdle(a)
  BY <1>4, UnmovedStutters DEF GrowIdle
<1> QED
  BY <1>1, <1>2, <1>3, <1>4 DEF ReaperStep

\* The store implements the lifecycle it promises, as far as safety goes: a
\* target is started only when nothing starts or serves it, a shell serves after
\* its start and leaves once, and none is lost (store.go:94-490).
THEOREM Refinement == Spec => Lifecycle!LifecycleSafety
<1>1. Init => Lifecycle!LifecycleInit
  BY DEF Init, Lifecycle!LifecycleInit, currentBar, stageBar
<1>2. IInv /\ IInv' /\ [Next]_vars => [Lifecycle!LifecycleNext]_(Lifecycle!lifecycleVars)
  <2> SUFFICES ASSUME IInv, IInv', [Next]_vars
               PROVE  [Lifecycle!LifecycleNext]_(Lifecycle!lifecycleVars)
    OBVIOUS
  <2>1. CASE UNCHANGED vars
    BY <2>1, UnmovedStutters DEF vars, storeVars, attemptVars
  <2>2. CASE Next
    BY <2>2, CallStepRefines, MethodStepRefines, ShellStepRefines DEF Next
  <2> QED
    BY <2>1, <2>2
<1> QED
  BY <1>1, <1>2, Invariance, PTL DEF Spec, Lifecycle!LifecycleSafety

-----------------------------------------------------------------------------
(* What a closing method reports                                           *)

\* An error is a closed shell's.  An attempt whose entry was released is out of
\* the starting map for good, and closed if it was canceled.
AttemptsOK ==
    \A a \in Attempts :
        /\ closeErr[a] => runner[a] = "closed"
        /\ released[a] =>
              /\ canceled[a] => runner[a] \in {"closed", "failed"}
              /\ runner[a] # "unborn"
              /\ \A t \in Targets : starting[t] # a

\* firstErr of a closing method: while it closes, the errors of the tabs it took
\* out; when it returns, those of the starts it canceled too.
ResultsOK ==
    \A c \in Callers :
        /\ pc[c] \notin {"closing", "returned"} => ~failed[c]
        /\ pc[c] = "closing" =>
              (failed[c] <=> \E a \in charge[c] : ~canceled[a] /\ closeErr[a])
        /\ pc[c] = "returned" =>
              /\ failed[c] <=> \E a \in charge[c] : closeErr[a]
              /\ \A a \in charge[c] : canceled[a] => released[a]

CloseOK == AttemptsOK /\ ResultsOK

\* A step that leaves the closing methods and what they took alone.
LEMMA ResultsKept ==
    ASSUME ResultsOK, charge' = charge, failed' = failed, canceled' = canceled,
           \A a \in Attempts : released[a] => released'[a],
           \A c \in Callers :
              \/ pc'[c] = pc[c]
              \/ /\ pc[c] \notin {"closing", "returned"}
                 /\ pc'[c] \notin {"closing", "returned"},
           \A c \in Callers : \A a \in charge[c] : a \in Attempts /\ closeErr'[a] = closeErr[a]
    PROVE  ResultsOK'
<1> SUFFICES ASSUME NEW c \in Callers
             PROVE  /\ pc'[c] \notin {"closing", "returned"} => ~failed[c]
                    /\ pc'[c] = "closing" =>
                          (failed[c] <=> \E a \in charge[c] : ~canceled[a] /\ closeErr'[a])
                    /\ pc'[c] = "returned" =>
                          /\ failed[c] <=> \E a \in charge[c] : closeErr'[a]
                          /\ \A a \in charge[c] : canceled[a] => released'[a]
  BY DEF ResultsOK
<1> QED
  BY DEF ResultsOK

\* A call of getOrCreate closes nothing (store.go:94-115).
LEMMA CallGetOrCreateReports ==
    ASSUME IInv, IInv', CloseOK, NEW c \in Callers, NEW t \in Targets, CallGetOrCreate(c, t)
    PROVE  CloseOK'
<1> USE DEF CallGetOrCreate, Goto, storeVars, attemptVars, callerVars
<1>1. AttemptsOK'
  BY DEF CloseOK, AttemptsOK, IInv, TypeOK
<1>2. ResultsOK'
  BY ResultsKept DEF CloseOK, IInv, TypeOK
<1> QED
  BY <1>1, <1>2 DEF CloseOK

\* Nor does one that finds the tab (store.go:203-208),
LEMMA FindTabReports ==
    ASSUME IInv, IInv', CloseOK, NEW c \in Callers, FindTab(c)
    PROVE  CloseOK'
<1> USE DEF FindTab, ReturnTab, Goto, storeVars, attemptVars, callerVars
<1>1. AttemptsOK'
  BY DEF CloseOK, AttemptsOK, IInv, TypeOK
<1>2. ResultsOK'
  BY ResultsKept DEF CloseOK, IInv, TypeOK
<1> QED
  BY <1>1, <1>2 DEF CloseOK

\* or the start of another (store.go:209-213),
LEMMA FindStartingReports ==
    ASSUME IInv, IInv', CloseOK, NEW c \in Callers, FindStarting(c)
    PROVE  CloseOK'
<1> USE DEF FindStarting, Goto, storeVars, attemptVars, callerVars
<1>1. AttemptsOK'
  BY DEF CloseOK, AttemptsOK, IInv, TypeOK
<1>2. ResultsOK'
  BY ResultsKept DEF CloseOK, IInv, TypeOK
<1> QED
  BY <1>1, <1>2 DEF CloseOK

\* or waits for it (store.go:213-224),
LEMMA AwaitStartReports ==
    ASSUME IInv, IInv', CloseOK, NEW c \in Callers, AwaitStart(c)
    PROVE  CloseOK'
<1> USE DEF AwaitStart, ReturnNil, Goto, storeVars, attemptVars, callerVars
<1>1. AttemptsOK'
  BY DEF CloseOK, AttemptsOK, IInv, TypeOK
<1>2. ResultsOK'
  BY ResultsKept DEF CloseOK, IInv, TypeOK
<1> QED
  BY <1>1, <1>2 DEF CloseOK

\* or sees that it was canceled (store.go:232-234).
LEMMA StartCanceledReports ==
    ASSUME IInv, IInv', CloseOK, NEW c \in Callers, StartCanceled(c)
    PROVE  CloseOK'
<1> USE DEF StartCanceled, Goto, storeVars, attemptVars, callerVars
<1>1. AttemptsOK'
  BY DEF CloseOK, AttemptsOK, IInv, TypeOK
<1>2. ResultsOK'
  BY ResultsKept DEF CloseOK, IInv, TypeOK
<1> QED
  BY <1>1, <1>2 DEF CloseOK

\* A use of a tab closes nothing (store.go:116-128).
LEMMA BeginExistingUseReports ==
    ASSUME IInv, IInv', CloseOK, NEW c \in Callers, NEW t \in Targets, BeginExistingUse(c, t)
    PROVE  CloseOK'
<1> USE DEF BeginExistingUse, ReturnTab, Goto, storeVars, attemptVars, callerVars
<1>1. AttemptsOK'
  BY DEF CloseOK, AttemptsOK, IInv, TypeOK
<1>2. ResultsOK'
  BY ResultsKept DEF CloseOK, IInv, TypeOK
<1> QED
  BY <1>1, <1>2 DEF CloseOK

\* Nor does its end (store.go:130-139).
LEMMA FinishUseReports ==
    ASSUME IInv, IInv', CloseOK, NEW c \in Callers, FinishUse(c)
    PROVE  CloseOK'
<1> USE DEF FinishUse, Touch, ReturnNil, Goto, storeVars, attemptVars, callerVars
<1>1. AttemptsOK'
  BY DEF CloseOK, AttemptsOK, IInv, TypeOK
<1>2. ResultsOK'
  BY ResultsKept DEF CloseOK, IInv, TypeOK
<1> QED
  BY <1>1, <1>2 DEF CloseOK

\* Nor does a touch (store.go:141-149).
LEMMA TouchTargetReports ==
    ASSUME IInv, IInv', CloseOK, NEW c \in Callers, NEW t \in Targets, TouchTarget(c, t)
    PROVE  CloseOK'
<1> USE DEF TouchTarget, Touch, storeVars, attemptVars, callerVars
<1>1. AttemptsOK'
  BY DEF CloseOK, AttemptsOK, IInv, TypeOK
<1>2. ResultsOK'
  BY ResultsKept DEF CloseOK, IInv, TypeOK
<1> QED
  BY <1>1, <1>2 DEF CloseOK

\* The reaper takes a tab that no method has (store.go:294-302).
LEMMA ReaperWakesReports ==
    ASSUME IInv, IInv', CloseOK, NEW a \in Attempts, ReaperWakes(a)
    PROVE  CloseOK'
<1> USE DEF ReaperWakes, storeVars, attemptVars, callerVars
<1>1. AttemptsOK'
  BY DEF CloseOK, AttemptsOK, IInv, TypeOK
<1>2. ResultsOK'
  BY ResultsKept DEF CloseOK, IInv, TypeOK
<1> QED
  BY <1>1, <1>2 DEF CloseOK

\* Time closes nothing (store.go:185).
LEMMA GrowIdleReports ==
    ASSUME IInv, IInv', CloseOK, NEW a \in Attempts, GrowIdle(a)
    PROVE  CloseOK'
<1> USE DEF GrowIdle, storeVars, attemptVars, callerVars
<1>1. AttemptsOK'
  BY DEF CloseOK, AttemptsOK, IInv, TypeOK
<1>2. ResultsOK'
  BY ResultsKept DEF CloseOK, IInv, TypeOK
<1> QED
  BY <1>1, <1>2 DEF CloseOK

\* A start has no error and no entry that was released (store.go:226-227).
LEMMA BeginStartReports ==
    ASSUME IInv, IInv', CloseOK, NEW c \in Callers, NEW a \in Attempts, BeginStart(c, a)
    PROVE  CloseOK'
<1> USE DEF BeginStart, Goto, storeVars, attemptVars, callerVars
<1>1. AttemptsOK'
  BY NoneIsNil DEF CloseOK, AttemptsOK, IInv, TypeOK, LocalsOK
<1>2. ResultsOK'
  BY ResultsKept DEF CloseOK, IInv, TypeOK
<1> QED
  BY <1>1, <1>2 DEF CloseOK

\* newRunner closes nothing (store.go:228-230).
LEMMA NewRunnerReports ==
    ASSUME IInv, IInv', CloseOK, NEW c \in Callers, NewRunner(c)
    PROVE  CloseOK'
<1> USE DEF NewRunner, Goto, storeVars, attemptVars, callerVars
<1>1. AttemptsOK'
  <2>1. Starter(c)
    BY DEF Starter, StartPCs
  <2> QED
    BY <2>1, StarterEntered DEF CloseOK, AttemptsOK, IInv, TypeOK, StarterOK, Starter
<1>2. ResultsOK'
  BY ResultsKept DEF CloseOK, IInv, TypeOK
<1> QED
  BY <1>1, <1>2 DEF CloseOK

\* The error of a canceled start that is closed is its starter's to report, before
\* a closing method returns that canceled it (store.go:235-238).
LEMMA DiscardRunnerReports ==
    ASSUME IInv, IInv', CloseOK, NEW c \in Callers, DiscardRunner(c)
    PROVE  CloseOK'
<1> USE DEF DiscardRunner, CloseRunner, Goto, storeVars, attemptVars, callerVars
<1>1. AttemptsOK'
  <2>1. Starter(c)
    BY DEF Starter, StartPCs
  <2> QED
    BY <2>1, StarterEntered DEF CloseOK, AttemptsOK, IInv, TypeOK, StarterOK, Starter
<1>2. ResultsOK'
  <2>1. Starter(c) /\ canceled[att[c]]
    BY DEF Starter, StartPCs, IInv, StarterOK
  <2>2. att[c] \in Attempts /\ starting[tgt[c]] = att[c] /\ tgt[c] \in Targets
    BY <2>1, StarterEntered
  <2>3. ~released[att[c]]
    BY <2>2 DEF CloseOK, AttemptsOK
  <2>4. \A a \in Attempts : a # att[c] => closeErr'[a] = closeErr[a]
    BY DEF IInv, TypeOK
  <2>9. \A d \in Callers : charge[d] \subseteq Attempts
    BY DEF IInv, TypeOK
  <2> SUFFICES ASSUME NEW d \in Callers
               PROVE  /\ pc'[d] \notin {"closing", "returned"} => ~failed[d]
                      /\ pc'[d] = "closing" =>
                            (failed[d] <=> \E a \in charge[d] : ~canceled[a] /\ closeErr'[a])
                      /\ pc'[d] = "returned" =>
                            /\ failed[d] <=> \E a \in charge[d] : closeErr'[a]
                            /\ \A a \in charge[d] : canceled[a] => released[a]
    BY DEF ResultsOK
  <2>5. pc'[d] = pc[d] \/ (d = c /\ pc[d] = "discarding" /\ pc'[d] = "discarded")
    BY DEF IInv, TypeOK
  <2>6. CASE pc[d] = "closing"
    BY <2>1, <2>4, <2>5, <2>6, <2>9 DEF CloseOK, ResultsOK
  <2>7. CASE pc[d] = "returned"
    BY <2>1, <2>3, <2>4, <2>5, <2>7, <2>9 DEF CloseOK, ResultsOK
  <2>8. CASE pc[d] \notin {"closing", "returned"}
    BY <2>5, <2>8 DEF CloseOK, ResultsOK
  <2> QED
    BY <2>6, <2>7, <2>8
<1> QED
  BY <1>1, <1>2 DEF CloseOK

\* A canceled start is released closed (store.go:239-244).
LEMMA EndCanceledStartReports ==
    ASSUME IInv, IInv', CloseOK, NEW c \in Callers, EndCanceledStart(c)
    PROVE  CloseOK'
<1> USE DEF EndCanceledStart, Release, ReturnNil, Goto, storeVars, attemptVars, callerVars
<1>1. AttemptsOK'
  <2>1. Starter(c)
    BY DEF Starter, StartPCs
  <2>2. /\ att[c] \in Attempts /\ runner[att[c]] # "unborn"
        /\ canceled[att[c]] => runner[att[c]] \in {"closed", "failed"}
        /\ \A t \in Targets : starting'[t] # att[c]
    BY <2>1, StarterEntered, NoneIsNil DEF IInv, TypeOK, StarterOK, Starter
  <2>3. \A t \in Targets : starting'[t] = starting[t] \/ starting'[t] = None
    BY DEF IInv, TypeOK
  <2>4. \A a \in Attempts : released'[a] = (released[a] \/ a = att[c])
    BY DEF IInv, TypeOK
  <2>5. closeErr' = closeErr /\ runner' = runner /\ canceled' = canceled
    OBVIOUS
  <2> QED
    BY <2>2, <2>3, <2>4, <2>5, NoneIsNil DEF CloseOK, AttemptsOK
<1>2. ResultsOK'
  BY ResultsKept DEF CloseOK, IInv, TypeOK
<1> QED
  BY <1>1, <1>2 DEF CloseOK

\* A failed one is released with nothing to close (store.go:245-251).
LEMMA StartFailedReports ==
    ASSUME IInv, IInv', CloseOK, NEW c \in Callers, StartFailed(c)
    PROVE  CloseOK'
<1> USE DEF StartFailed, Release, ReturnNil, Goto, storeVars, attemptVars, callerVars
<1>1. AttemptsOK'
  <2>1. Starter(c)
    BY DEF Starter, StartPCs
  <2>2. /\ att[c] \in Attempts /\ runner[att[c]] # "unborn"
        /\ canceled[att[c]] => runner[att[c]] \in {"closed", "failed"}
        /\ \A t \in Targets : starting'[t] # att[c]
    BY <2>1, StarterEntered, NoneIsNil DEF IInv, TypeOK, StarterOK, Starter
  <2>3. \A t \in Targets : starting'[t] = starting[t] \/ starting'[t] = None
    BY DEF IInv, TypeOK
  <2>4. \A a \in Attempts : released'[a] = (released[a] \/ a = att[c])
    BY DEF IInv, TypeOK
  <2>5. closeErr' = closeErr /\ runner' = runner /\ canceled' = canceled
    OBVIOUS
  <2> QED
    BY <2>2, <2>3, <2>4, <2>5, NoneIsNil DEF CloseOK, AttemptsOK
<1>2. ResultsOK'
  BY ResultsKept DEF CloseOK, IInv, TypeOK
<1> QED
  BY <1>1, <1>2 DEF CloseOK

\* One that serves was not canceled (store.go:252-264).
LEMMA InstallTabReports ==
    ASSUME IInv, IInv', CloseOK, NEW c \in Callers, InstallTab(c)
    PROVE  CloseOK'
<1> USE DEF InstallTab, Release, ReturnTab, Goto, storeVars, attemptVars, callerVars
<1>1. AttemptsOK'
  <2>1. Starter(c)
    BY DEF Starter, StartPCs
  <2>2. /\ att[c] \in Attempts /\ runner[att[c]] # "unborn"
        /\ canceled[att[c]] => runner[att[c]] \in {"closed", "failed"}
        /\ \A t \in Targets : starting'[t] # att[c]
    BY <2>1, StarterEntered, NoneIsNil DEF IInv, TypeOK, StarterOK, Starter
  <2>3. \A t \in Targets : starting'[t] = starting[t] \/ starting'[t] = None
    BY DEF IInv, TypeOK
  <2>4. \A a \in Attempts : released'[a] = (released[a] \/ a = att[c])
    BY DEF IInv, TypeOK
  <2>5. closeErr' = closeErr /\ runner' = runner /\ canceled' = canceled
    OBVIOUS
  <2> QED
    BY <2>2, <2>3, <2>4, <2>5, NoneIsNil DEF CloseOK, AttemptsOK
<1>2. ResultsOK'
  BY ResultsKept DEF CloseOK, IInv, TypeOK
<1> QED
  BY <1>1, <1>2 DEF CloseOK

\* A closing method starts without an error, with tabs that have none
\* (store.go:175-196, 416-480).
LEMMA TakeOutReports ==
    ASSUME IInv, IInv', CloseOK, NEW c \in Callers, NEW T \in SUBSET Targets,
           NEW S \in SUBSET Targets, TakeOut(c, T, S),
           \A t \in T : tabs[t] # None, \A t \in S : starting[t] # None
    PROVE  CloseOK'
<1> USE DEF TakeOut, Goto, storeVars, attemptVars, callerVars
<1>1. AttemptsOK'
  <2>1. \A a \in Attempts : canceled'[a] = (canceled[a] \/ \E t \in S : starting[t] = a)
    OBVIOUS
  <2> QED
    BY <2>1 DEF CloseOK, AttemptsOK
<1>2. ResultsOK'
  <2>1. \A t \in T : tabs[t] \in Attempts /\ ~closeErr[tabs[t]]
    BY DEF CloseOK, AttemptsOK, IInv, TypeOK, Slots, MapOK
  <2>2. \A t \in S : starting[t] \in Attempts /\ canceled'[starting[t]]
    BY DEF IInv, TypeOK, Slots
  <2>3. ASSUME NEW d \in Callers, NEW a \in charge[d]
        PROVE  canceled'[a] <=> canceled[a]
    <3>1. a \in Attempts
      BY DEF IInv, TypeOK
    <3>2. ~canceled[a] => \A t \in Targets : starting[t] # a
      <4>1. ~canceled[a] => reaper[a] # "none"
        BY DEF IInv, ChargeOK
      <4> QED
        BY <3>1, <4>1, EnteredNotReaped DEF Entered
    <3>3. canceled'[a] = (canceled[a] \/ \E t \in S : starting[t] = a)
      BY <3>1
    <3> QED
      BY <3>2, <3>3
  <2> SUFFICES ASSUME NEW d \in Callers
               PROVE  /\ pc'[d] \notin {"closing", "returned"} => ~failed[d]
                      /\ pc'[d] = "closing" =>
                            (failed[d] <=> \E a \in charge'[d] : ~canceled'[a] /\ closeErr[a])
                      /\ pc'[d] = "returned" =>
                            /\ failed[d] <=> \E a \in charge'[d] : closeErr[a]
                            /\ \A a \in charge'[d] : canceled'[a] => released[a]
    BY DEF ResultsOK
  <2>4. CASE d = c
    <3>1. pc'[d] = "closing" /\ ~failed[d]
      BY <2>4 DEF CloseOK, ResultsOK, IInv, TypeOK
    <3>2. \A a \in charge'[d] : canceled'[a] \/ ~closeErr[a]
      BY <2>1, <2>2, <2>4 DEF IInv, TypeOK
    <3> QED
      BY <3>1, <3>2
  <2>5. CASE d # c
    <3>1. pc'[d] = pc[d] /\ charge'[d] = charge[d]
      BY <2>5 DEF IInv, TypeOK
    <3> QED
      BY <2>3, <3>1 DEF CloseOK, ResultsOK
  <2> QED
    BY <2>4, <2>5
<1> QED
  BY <1>1, <1>2 DEF CloseOK

\* The first error of the tabs it closes is kept (store.go:482-490).
LEMMA CloseTabReports ==
    ASSUME IInv, IInv', CloseOK, NEW c \in Callers, NEW a \in Attempts, CloseTab(c, a)
    PROVE  CloseOK'
<1> USE DEF CloseTab, CloseRunner, Unclosed, storeVars, attemptVars, callerVars
<1>1. AttemptsOK'
  <2>1. /\ runner' = [runner EXCEPT ![a] = "closed"]
        /\ \A b : b # a => closeErr'[b] = closeErr[b]
        /\ released' = released /\ canceled' = canceled /\ starting' = starting
        /\ runner[a] # "unborn"
    BY DEF IInv, TypeOK, ChargeOK
  <2> QED
    BY <2>1 DEF CloseOK, AttemptsOK, IInv, TypeOK
<1>2. ResultsOK'
  <2>1. /\ a \in charge[c] /\ ~canceled[a] /\ ~closeErr[a] /\ pc[c] = "closing"
        /\ \A d \in Callers : a \in charge[d] => d = c
    BY DEF CloseOK, AttemptsOK, IInv, ChargeOK
  <2>2. /\ \A b : b # a => closeErr'[b] = closeErr[b]
        /\ failed'[c] = (failed[c] \/ closeErr'[a])
        /\ \A d \in Callers : d # c => failed'[d] = failed[d]
    BY DEF IInv, TypeOK
  <2>3. pc' = pc /\ charge' = charge /\ canceled' = canceled /\ released' = released
    OBVIOUS
  <2> SUFFICES ASSUME NEW d \in Callers
               PROVE  /\ pc[d] \notin {"closing", "returned"} => ~failed'[d]
                      /\ pc[d] = "closing" =>
                            (failed'[d] <=> \E b \in charge[d] : ~canceled[b] /\ closeErr'[b])
                      /\ pc[d] = "returned" =>
                            /\ failed'[d] <=> \E b \in charge[d] : closeErr'[b]
                            /\ \A b \in charge[d] : canceled[b] => released[b]
    BY <2>3 DEF ResultsOK
  <2>4. CASE d = c
    BY <2>1, <2>2, <2>4 DEF CloseOK, ResultsOK
  <2>5. CASE d # c
    <3>1. \A b \in charge[d] : closeErr'[b] = closeErr[b]
      BY <2>1, <2>2, <2>5
    <3> QED
      BY <2>2, <2>5, <3>1 DEF CloseOK, ResultsOK
  <2> QED
    BY <2>4, <2>5
<1> QED
  BY <1>1, <1>2 DEF CloseOK

\* When all it canceled has ended, it adds their errors (store.go:434-480).
LEMMA FinishClosingReports ==
    ASSUME IInv, IInv', CloseOK, NEW c \in Callers, FinishClosing(c)
    PROVE  CloseOK'
<1> USE DEF FinishClosing, Unclosed, Goto, storeVars, attemptVars, callerVars
<1>1. AttemptsOK'
  BY DEF CloseOK, AttemptsOK, IInv, TypeOK
<1>2. ResultsOK'
  <2>1. /\ pc[c] = "closing" /\ pc'[c] = "returned"
        /\ failed'[c] = (failed[c] \/ \E a \in charge[c] : canceled[a] /\ closeErr[a])
        /\ \A a \in charge[c] : canceled[a] => released[a]
        /\ \A d \in Callers : d # c => pc'[d] = pc[d] /\ failed'[d] = failed[d]
    BY DEF IInv, TypeOK
  <2>2. charge' = charge /\ canceled' = canceled /\ released' = released /\ closeErr' = closeErr
    OBVIOUS
  <2>3. failed[c] <=> \E a \in charge[c] : ~canceled[a] /\ closeErr[a]
    BY <2>1 DEF CloseOK, ResultsOK
  <2> SUFFICES ASSUME NEW d \in Callers
               PROVE  /\ pc'[d] \notin {"closing", "returned"} => ~failed'[d]
                      /\ pc'[d] = "closing" =>
                            (failed'[d] <=> \E a \in charge[d] : ~canceled[a] /\ closeErr[a])
                      /\ pc'[d] = "returned" =>
                            /\ failed'[d] <=> \E a \in charge[d] : closeErr[a]
                            /\ \A a \in charge[d] : canceled[a] => released[a]
    BY <2>2 DEF ResultsOK
  <2>4. CASE d = c
    BY <2>1, <2>3, <2>4
  <2>5. CASE d # c
    BY <2>1, <2>5 DEF CloseOK, ResultsOK
  <2> QED
    BY <2>4, <2>5
<1> QED
  BY <1>1, <1>2 DEF CloseOK

\* The caller takes the result (store.go:416-480).
LEMMA ReturnReports ==
    ASSUME IInv, IInv', CloseOK, NEW c \in Callers, Return(c)
    PROVE  CloseOK'
<1> USE DEF Return, Goto, storeVars, attemptVars, callerVars
<1>1. AttemptsOK'
  BY DEF CloseOK, AttemptsOK, IInv, TypeOK
<1>2. ResultsOK'
  BY DEF CloseOK, ResultsOK, IInv, TypeOK
<1> QED
  BY <1>1, <1>2 DEF CloseOK

\* A shell that exits was not closed (tab.go:590-640).
LEMMA ShellExitReports ==
    ASSUME IInv, IInv', CloseOK, NEW a \in Attempts, ShellExit(a)
    PROVE  CloseOK'
<1> USE DEF ShellExit, storeVars, attemptVars, callerVars
<1>1. AttemptsOK'
  BY DEF CloseOK, AttemptsOK, IInv, TypeOK
<1>2. ResultsOK'
  BY ResultsKept DEF CloseOK, IInv, TypeOK
<1> QED
  BY <1>1, <1>2 DEF CloseOK

\* The reaper closes what no method took (store.go:303-305).
LEMMA ReaperClosesReports ==
    ASSUME IInv, IInv', CloseOK, NEW a \in Attempts, ReaperCloses(a)
    PROVE  CloseOK'
<1> USE DEF ReaperCloses, CloseRunner, storeVars, attemptVars, callerVars
<1>1. AttemptsOK'
  <2>1. ~canceled[a] /\ runner[a] = "exited"
    BY DEF IInv, ReaperOK
  <2>2. /\ runner' = [runner EXCEPT ![a] = "closed"]
        /\ \A b : b # a => closeErr'[b] = closeErr[b]
        /\ released' = released /\ canceled' = canceled /\ starting' = starting
    BY DEF IInv, TypeOK
  <2> QED
    BY <2>1, <2>2 DEF CloseOK, AttemptsOK, IInv, TypeOK
<1>2. ResultsOK'
  <2>1. \A c \in Callers : \A b \in charge[c] : b \in Attempts /\ closeErr'[b] = closeErr[b]
    BY DEF IInv, TypeOK, ReaperOK
  <2> QED
    BY <2>1, ResultsKept DEF CloseOK
<1> QED
  BY <1>1, <1>2 DEF CloseOK

\* Every step keeps what the closing methods report right (store.go:94-490).
LEMMA NextReports ==
    ASSUME IInv, IInv', CloseOK, [Next]_vars
    PROVE  CloseOK'
<1>1. ASSUME NEW c \in Callers, NEW t \in Targets,
             CallGetOrCreate(c, t) \/ BeginExistingUse(c, t) \/ TouchTarget(c, t)
      PROVE  CloseOK'
  BY <1>1, CallGetOrCreateReports, BeginExistingUseReports, TouchTargetReports
<1>2. ASSUME NEW c \in Callers, NEW t \in Targets,
             CloseTarget(c, t) \/ CloseExistingTarget(c, t)
      PROVE  CloseOK'
  BY <1>2, TakeOutReports DEF CloseTarget, CloseExistingTarget, Present, Starting
<1>3. ASSUME NEW c \in Callers, CloseAll(c) \/ CloseIdleTargets(c)
      PROVE  CloseOK'
  BY <1>3, TakeOutReports DEF CloseAll, CloseIdleTargets, Present, Starting, Expired
<1>4. ASSUME NEW c \in Callers, FinishUse(c) PROVE CloseOK'
  BY <1>4, FinishUseReports
<1>5. ASSUME NEW c \in Callers, MethodStep(c) PROVE CloseOK'
  BY <1>5, FindTabReports, FindStartingReports, BeginStartReports, AwaitStartReports,
     NewRunnerReports, StartCanceledReports, DiscardRunnerReports,
     EndCanceledStartReports, StartFailedReports, InstallTabReports, CloseTabReports,
     FinishClosingReports, ReturnReports
     DEF MethodStep
<1>6. ASSUME NEW a \in Attempts, ShellExit(a) \/ ReaperStep(a) \/ GrowIdle(a)
      PROVE  CloseOK'
  BY <1>6, ShellExitReports, ReaperWakesReports, ReaperClosesReports, GrowIdleReports
     DEF ReaperStep
<1>7. CASE UNCHANGED vars
  BY <1>7 DEF vars, storeVars, attemptVars, callerVars, CloseOK, AttemptsOK, ResultsOK
<1> QED
  BY <1>1, <1>2, <1>3, <1>4, <1>5, <1>6, <1>7 DEF Next, CallStep

\* When a closing method returns, everything it took is closed and it reports an
\* error exactly when closing one of them failed (store.go:434-490).
THEOREM CloseIsCompleteHolds == Spec => []CloseIsComplete
<1>1. Init => CloseOK
  BY DEF Init, CloseOK, AttemptsOK, ResultsOK
<1>2. IInv /\ IInv' /\ CloseOK /\ [Next]_vars => CloseOK'
  BY NextReports
<1>3. IInv /\ CloseOK => CloseIsComplete
  <2> SUFFICES ASSUME IInv, CloseOK, NEW c \in Callers, pc[c] = "returned"
               PROVE  /\ \A a \in charge[c] : runner[a] \in {"closed", "failed"}
                      /\ failed[c] <=> \E a \in charge[c] : closeErr[a]
    BY DEF CloseIsComplete
  <2>1. ASSUME NEW a \in charge[c] PROVE runner[a] \in {"closed", "failed"}
    <3>1. a \in Attempts
      BY DEF IInv, TypeOK
    <3>2. CASE canceled[a]
      BY <3>1, <3>2 DEF CloseOK, AttemptsOK, ResultsOK
    <3>3. CASE ~canceled[a]
      BY <3>3 DEF IInv, ChargeOK
    <3> QED
      BY <3>2, <3>3
  <2> QED
    BY <2>1 DEF CloseOK, ResultsOK
<1> QED
  BY <1>1, <1>2, <1>3, Invariance, PTL DEF Spec

-----------------------------------------------------------------------------
(* Uses                                                                    *)

Users(a) == {c \in Callers : pc[c] = "using" /\ att[c] = a}

\* The count of uses of a tab is the number of goroutines that use it.
UsesOK == \A a \in Attempts : active[a] = Cardinality(Users(a))

\* The users are finitely many, as the goroutines are (store.go:116-139).
LEMMA UsersFinite ==
    \A a : IsFiniteSet(Users(a)) /\ Cardinality(Users(a)) \in Nat
<1>1. \A S \in SUBSET Callers : IsFiniteSet(S) /\ Cardinality(S) \in Nat
  BY CallersFinite, FS_Subset, FS_CardinalityType
<1>2. \A a : Users(a) \in SUBSET Callers
  BY DEF Users
<1> QED
  BY <1>1, <1>2

\* A step that begins and ends no use.
LEMMA UsesKept ==
    ASSUME UsesOK, active' = active,
           \A c \in Callers : /\ pc'[c] = "using" <=> pc[c] = "using"
                              /\ pc[c] = "using" => att'[c] = att[c]
    PROVE  UsesOK'
<1>1. \A a : Users(a)' = Users(a)
  BY DEF Users
<1> QED
  BY <1>1 DEF UsesOK

\* A use that begins is counted (store.go:116-128, 203-208, 252-264).
LEMMA ReturnTabUses ==
    ASSUME IInv, UsesOK, NEW c \in Callers, NEW a \in Attempts, pc[c] # "using",
           ReturnTab(c, a)
    PROVE  UsesOK'
<1>1. /\ pc'[c] = "using" /\ att'[c] = a
      /\ \A d \in Callers : d # c => pc'[d] = pc[d] /\ att'[d] = att[d]
      /\ active' = [active EXCEPT ![a] = @ + 1]
  BY DEF ReturnTab, Goto, IInv, TypeOK
<1>2. ASSUME NEW b \in Attempts PROVE active'[b] = Cardinality(Users(b)')
  <2>1. active[b] = Cardinality(Users(b)) /\ active[b] \in Nat
    BY DEF UsesOK, IInv, TypeOK
  <2>2. CASE b = a
    <3>1. Users(b)' = Users(b) \cup {c} /\ c \notin Users(b)
      BY <1>1, <2>2 DEF Users
    <3>2. Cardinality(Users(b)') = Cardinality(Users(b)) + 1
      BY <3>1, UsersFinite, FS_AddElement
    <3>3. active'[b] = active[b] + 1
      BY <1>1, <2>2 DEF IInv, TypeOK
    <3> QED
      BY <2>1, <3>2, <3>3
  <2>3. CASE b # a
    <3>1. Users(b)' = Users(b)
      BY <1>1, <2>3 DEF Users
    <3> QED
      BY <1>1, <2>1, <2>3, <3>1 DEF IInv, TypeOK
  <2> QED
    BY <2>2, <2>3
<1> QED
  BY <1>2 DEF UsesOK

\* A use that ends is taken off the count, which is not zero then
\* (store.go:130-139).
LEMMA FinishUseUses ==
    ASSUME IInv, UsesOK, NEW c \in Callers, FinishUse(c)
    PROVE  UsesOK'
<1> DEFINE a == att[c]
<1>1. /\ pc[c] = "using" /\ pc'[c] # "using" /\ a \in Attempts
      /\ \A d \in Callers : d # c => pc'[d] = pc[d] /\ att'[d] = att[d]
      /\ active' = [active EXCEPT ![a] = IF @ > 0 THEN @ - 1 ELSE @]
  BY DEF FinishUse, ReturnNil, Goto, IInv, TypeOK, LocalsOK
<1>2. c \in Users(a)
  BY <1>1 DEF Users
<1>3. \A b : b # a => c \notin Users(b)
  BY DEF Users
<1> HIDE DEF a
<1>4. ASSUME NEW b \in Attempts PROVE active'[b] = Cardinality(Users(b)')
  <2>1. active[b] = Cardinality(Users(b)) /\ active[b] \in Nat
    BY DEF UsesOK, IInv, TypeOK
  <2>2. Users(b)' = Users(b) \ {c}
    BY <1>1 DEF Users
  <2>3. CASE b = a
    <3>1. Cardinality(Users(b)') = Cardinality(Users(b)) - 1 /\ Cardinality(Users(b)') \in Nat
      BY <1>2, <2>2, <2>3, UsersFinite, FS_RemoveElement, FS_CardinalityType
    <3>2. active'[b] = IF active[b] > 0 THEN active[b] - 1 ELSE active[b]
      BY <1>1, <2>3 DEF IInv, TypeOK
    <3> QED
      BY <2>1, <3>1, <3>2
  <2>4. CASE b # a
    <3>1. Users(b)' = Users(b)
      BY <1>3, <2>2, <2>4
    <3> QED
      BY <1>1, <2>1, <2>4, <3>1 DEF IInv, TypeOK
  <2> QED
    BY <2>3, <2>4
<1> QED
  BY <1>4 DEF UsesOK

\* Every step counts the uses exactly (store.go:94-490).
LEMMA NextUses ==
    ASSUME IInv, UsesOK, [Next]_vars
    PROVE  UsesOK'
<1> USE DEF storeVars, attemptVars, callerVars, Goto
<1>1. ASSUME NEW c \in Callers, FindTab(c) PROVE UsesOK'
  BY <1>1, ReturnTabUses DEF FindTab, IInv, TypeOK, Slots, LocalsOK
<1>2. ASSUME NEW c \in Callers, NEW t \in Targets, BeginExistingUse(c, t) PROVE UsesOK'
  BY <1>2, ReturnTabUses DEF BeginExistingUse, IInv, TypeOK, Slots
<1>3. ASSUME NEW c \in Callers, InstallTab(c) PROVE UsesOK'
  <2>1. att[c] \in Attempts /\ pc[c] # "using"
    BY <1>3 DEF InstallTab, IInv, LocalsOK, StartPCs
  <2> QED
    BY <1>3, <2>1, ReturnTabUses DEF InstallTab
<1>4. ASSUME NEW c \in Callers, FinishUse(c) PROVE UsesOK'
  BY <1>4, FinishUseUses
<1>5. ASSUME NEW c \in Callers,
             AwaitStart(c) \/ EndCanceledStart(c) \/ StartFailed(c)
      PROVE  UsesOK'
  BY <1>5, UsesKept
     DEF AwaitStart, EndCanceledStart, StartFailed, ReturnNil, IInv, TypeOK
<1>6. ASSUME NEW c \in Callers,
             \/ FindStarting(c) \/ \E a \in Attempts : BeginStart(c, a) \/ CloseTab(c, a)
             \/ \E t \in Targets : CallGetOrCreate(c, t) \/ TouchTarget(c, t)
      PROVE  UsesOK'
  BY <1>6, UsesKept
     DEF FindStarting, BeginStart, CloseTab, CallGetOrCreate, TouchTarget, IInv, TypeOK
<1>7. ASSUME NEW c \in Callers,
             \/ NewRunner(c) \/ StartCanceled(c) \/ DiscardRunner(c)
             \/ FinishClosing(c) \/ Return(c)
      PROVE  UsesOK'
  BY <1>7, UsesKept
     DEF NewRunner, StartCanceled, DiscardRunner, FinishClosing, Return, IInv, TypeOK
<1>8. ASSUME NEW c \in Callers, NEW T, NEW S, TakeOut(c, T, S) PROVE UsesOK'
  BY <1>8, UsesKept DEF TakeOut, IInv, TypeOK
<1>9. ASSUME NEW a \in Attempts, ShellExit(a) \/ ReaperStep(a) \/ GrowIdle(a)
      PROVE  UsesOK'
  BY <1>9, UsesKept DEF ShellExit, ReaperStep, ReaperWakes, ReaperCloses, GrowIdle
<1>10. CASE UNCHANGED vars
  BY <1>10, UsesKept DEF vars
<1>11. ASSUME NEW c \in Callers, CallStep(c) PROVE UsesOK'
  BY <1>2, <1>4, <1>6, <1>8, <1>11
     DEF CallStep, CloseTarget, CloseExistingTarget, CloseAll, CloseIdleTargets
<1>12. ASSUME NEW c \in Callers, MethodStep(c) PROVE UsesOK'
  BY <1>1, <1>3, <1>5, <1>6, <1>7, <1>12 DEF MethodStep
<1> QED
  BY <1>9, <1>10, <1>11, <1>12 DEF Next

\* The idle sweep takes no tab away from an operation that uses it
\* (store.go:175-196).
THEOREM SweepSparesUsersHolds == Spec => SweepSparesUsers
<1>1. Init => UsesOK
  <2> SUFFICES ASSUME Init, NEW a \in Attempts PROVE active[a] = Cardinality(Users(a))
    BY DEF UsesOK
  <2>1. Users(a) = {}
    BY DEF Init, Users
  <2> QED
    BY <2>1, FS_EmptySet DEF Init
<1>2. IInv /\ UsesOK /\ [Next]_vars => UsesOK'
  BY NextUses
<1>3. ASSUME IInv, UsesOK, NEW c \in Callers, CloseIdleTargets(c),
             NEW d \in Callers, pc[d] = "using"
      PROVE  att[d] \notin charge'[c]
  <2>1. charge'[c] = {tabs[t] : t \in Expired}
    BY <1>3 DEF CloseIdleTargets, TakeOut, IInv, TypeOK
  <2>2. \A t \in Expired : active[tabs[t]] = 0
    BY DEF Expired
  <2>3. d \in Users(att[d]) /\ att[d] \in Attempts
    BY <1>3 DEF Users, IInv, LocalsOK
  <2>4. Cardinality(Users(att[d])) # 0
    BY <2>3, UsersFinite, FS_EmptySet
  <2>5. active[att[d]] # 0
    BY <1>3, <2>3, <2>4 DEF UsesOK
  <2> QED
    BY <2>1, <2>2, <2>5
<1>4. IInv /\ UsesOK =>
         \A c \in Callers :
            CloseIdleTargets(c) =>
               \A d \in Callers : pc[d] = "using" => att[d] \notin charge'[c]
  BY <1>3
<1> QED
  BY <1>1, <1>2, <1>4, Invariance, PTL DEF Spec, SweepSparesUsers

=============================================================================
