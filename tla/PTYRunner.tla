----------------------------- MODULE PTYRunner -----------------------------
(***************************************************************************)
(* One shell behind a PTY, src/internal/server/tab.go: the read loop fans  *)
(* the shell's output out to subscribers, operations subscribe, write and  *)
(* consume, and Close tears the whole down at any moment.                  *)
(*                                                                         *)
(* Output is a run of numbered chunks, one per read(2).  A use is one      *)
(* operation: Waiters are Run, RunIdle and the *Wait operations, which     *)
(* hold commandMu throughout and subscribe reliably; Senders are the       *)
(* *Follow operations that write first; Followers are Follow.  Send, Text, *)
(* Command and Keys, which take commandMu, write and subscribe to nothing, *)
(* are no uses.                                                            *)
(***************************************************************************)
EXTENDS Naturals, Sequences, FiniteSets

CONSTANTS
    Waiters, Senders, Followers,    \* the uses made of the shell
    Capacity,       \* bound: length of a subscriber's channel (128 in the code)
    MaxChunks,      \* bound: chunks the shell writes
    None            \* commandMu is free

Uses == Waiters \cup Senders \cup Followers

ASSUME KindsDisjoint ==
    /\ Waiters \cap Senders = {} /\ Waiters \cap Followers = {}
    /\ Senders \cap Followers = {} /\ None \notin Uses
ASSUME BoundsOK == Capacity \in Nat \ {0} /\ MaxChunks \in Nat

VARIABLES
    alive,          \* the shell runs
    hungUp,         \* no process holds the PTY's other side
    produced,       \* chunks written by the shell
    fd,             \* what the descriptor number r.fd stands for
    reader,         \* where readLoop is
    taken,          \* chunks read by readLoop
    chunk,          \* the chunk broadcast is sending, 0 for another file's bytes
    sendTo,         \* subscribers broadcast has not served yet
    subscribers,    \* PTYRunner.subscribers
    closed,         \* PTYRunner.closed
    queue,          \* subscriber.ch
    stopped,        \* subscriber.done is closed
    stopErr,        \* subscriber.err
    last,           \* the last chunk the use has received
    use,            \* where each use is
    outcome,        \* how it ended; "canceled" as soon as Run saw its client go
    commandMu,      \* PTYRunner.commandMu's holder
    closer          \* how far Close has got

shellVars == <<alive, hungUp, produced>>
readVars == <<reader, taken, chunk, sendTo>>
subVars == <<subscribers, closed, queue, stopped, stopErr>>
useVars == <<last, use, outcome, commandMu>>
vars == <<shellVars, fd, readVars, subVars, useVars, closer>>

TypeOK ==
    /\ alive \in BOOLEAN /\ hungUp \in BOOLEAN /\ closed \in BOOLEAN
    /\ produced \in 0..MaxChunks
    /\ fd \in {"own", "free", "other"}
    /\ reader \in {"read", "sleep", "send", "gone"}
    /\ taken \in 0..MaxChunks
    /\ chunk \in 0..MaxChunks
    /\ sendTo \in SUBSET Uses
    /\ subscribers \in SUBSET Uses
    /\ queue \in [Uses -> Seq(0..MaxChunks)]
    /\ \A s \in Uses : Len(queue[s]) <= Capacity
    /\ stopped \in [Uses -> BOOLEAN]
    /\ stopErr \in [Uses -> {"none", "slow", "eof"}]
    /\ last \in [Uses -> 0..MaxChunks]
    /\ use \in [Uses -> {"idle", "locked", "writing", "loop", "draining",
                         "selecting", "output", "ended"}]
    /\ outcome \in [Uses -> {"none", "slow", "eof", "canceled", "finished", "failed"}]
    /\ commandMu \in Waiters \cup Senders \cup {None}
    /\ closer \in {"no", "term", "reader", "done"}

Init ==
    /\ alive = TRUE /\ hungUp = FALSE /\ closed = FALSE
    /\ produced = 0 /\ taken = 0 /\ chunk = 0
    /\ fd = "own"
    /\ reader = "read"
    /\ sendTo = {}
    /\ subscribers = {}
    /\ queue = [s \in Uses |-> <<>>]
    /\ stopped = [s \in Uses |-> FALSE]
    /\ stopErr = [s \in Uses |-> "none"]
    /\ last = [s \in Uses |-> 0]
    /\ use = [s \in Uses |-> "idle"]
    /\ outcome = [s \in Uses |-> "none"]
    /\ commandMu = None
    /\ closer = "no"

-----------------------------------------------------------------------------
(* The shell                                                               *)

ShellWrites ==
    /\ ~hungUp
    /\ produced < MaxChunks
    /\ produced' = produced + 1
    /\ UNCHANGED <<alive, hungUp, fd, readVars, subVars, useVars, closer>>

\* It exits, or a signal of Close kills it: waitProcessLoop closes processDone.
ShellDies ==
    /\ alive
    /\ alive' = FALSE
    /\ UNCHANGED <<hungUp, produced, fd, readVars, subVars, useVars, closer>>

\* The last process on the PTY is gone.
HangUp ==
    /\ ~alive /\ ~hungUp
    /\ hungUp' = TRUE
    /\ UNCHANGED <<alive, produced, fd, readVars, subVars, useVars, closer>>

-----------------------------------------------------------------------------
(* readLoop, broadcast, closeSubscribers                                   *)

\* syscall.Read returns data: observe, and broadcast's snapshot.
ReadChunk ==
    /\ reader = "read"
    /\ \/ /\ fd = "own" /\ taken < produced
          /\ taken' = taken + 1
          /\ chunk' = taken + 1
       \/ /\ fd = "other"
          /\ chunk' = 0
          /\ UNCHANGED taken
    /\ sendTo' = subscribers
    /\ reader' = "send"
    /\ UNCHANGED <<shellVars, fd, subVars, useVars, closer>>

\* EAGAIN: sleep for 10ms, without a hold on the file.
ReadAgain ==
    /\ reader = "read"
    /\ \/ fd = "own" /\ taken = produced /\ ~hungUp
       \/ fd = "other"
    /\ reader' = "sleep"
    /\ UNCHANGED <<shellVars, fd, taken, chunk, sendTo, subVars, useVars, closer>>

ReaderWakes ==
    /\ reader = "sleep"
    /\ reader' = "read"
    /\ UNCHANGED <<shellVars, fd, taken, chunk, sendTo, subVars, useVars, closer>>

\* Variant: the subscribers leave the map but are not told.
ReadFailsSilently ==
    /\ reader = "read"
    /\ \/ fd = "own" /\ taken = produced /\ hungUp
       \/ fd = "free"
    /\ closed' = TRUE
    /\ subscribers' = {}
    /\ reader' = "gone"
    /\ UNCHANGED <<shellVars, fd, taken, chunk, sendTo, queue, stopped, stopErr,
                   useVars, closer>>

\* EIO or EBADF: closeSubscribers stops every subscriber; the loop returns.
ReadFails ==
    /\ reader = "read"
    /\ \/ fd = "own" /\ taken = produced /\ hungUp
       \/ fd = "free"
    /\ closed' = TRUE
    /\ subscribers' = {}
    /\ stopped' = [s \in Uses |-> stopped[s] \/ s \in subscribers]
    /\ stopErr' = [s \in Uses |->
                      IF s \in subscribers /\ ~stopped[s] THEN "eof" ELSE stopErr[s]]
    /\ reader' = "gone"
    /\ UNCHANGED <<shellVars, fd, taken, chunk, sendTo, queue, useVars, closer>>

Full(s) == Len(queue[s]) = Capacity

\* sub.ch <- chunk
Deliver(s) ==
    /\ reader = "send" /\ s \in sendTo
    /\ ~Full(s)
    /\ queue' = [queue EXCEPT ![s] = Append(@, chunk)]
    /\ sendTo' = sendTo \ {s}
    /\ UNCHANGED <<shellVars, fd, reader, taken, chunk, subscribers, closed,
                   stopped, stopErr, useVars, closer>>

\* <-sub.done
SkipStopped(s) ==
    /\ reader = "send" /\ s \in sendTo
    /\ stopped[s]
    /\ sendTo' = sendTo \ {s}
    /\ UNCHANGED <<shellVars, fd, reader, taken, chunk, subVars, useVars, closer>>

\* Variant: the slow observer merely misses the chunk.
SkipSlow(s) ==
    /\ reader = "send" /\ s \in sendTo
    /\ s \notin Waiters
    /\ Full(s) /\ ~stopped[s]
    /\ sendTo' = sendTo \ {s}
    /\ UNCHANGED <<shellVars, fd, reader, taken, chunk, subVars, useVars, closer>>

\* Variant: waiters are dropped too.
DropAnySlow(s) ==
    /\ reader = "send" /\ s \in sendTo
    /\ Full(s) /\ ~stopped[s]
    /\ stopped' = [stopped EXCEPT ![s] = TRUE]
    /\ stopErr' = [stopErr EXCEPT ![s] = "slow"]
    /\ subscribers' = subscribers \ {s}
    /\ sendTo' = sendTo \ {s}
    /\ UNCHANGED <<shellVars, fd, reader, taken, chunk, closed, queue, useVars,
                   closer>>

\* Variant: a full channel is waited for, whoever reads it.
DropNever(s) == FALSE /\ DropAnySlow(s)

\* default: a best-effort subscriber that is too slow is dropped for good.
DropSlow(s) ==
    /\ reader = "send" /\ s \in sendTo
    /\ s \notin Waiters
    /\ Full(s) /\ ~stopped[s]
    /\ stopped' = [stopped EXCEPT ![s] = TRUE]
    /\ stopErr' = [stopErr EXCEPT ![s] = "slow"]
    /\ subscribers' = subscribers \ {s}
    /\ sendTo' = sendTo \ {s}
    /\ UNCHANGED <<shellVars, fd, reader, taken, chunk, closed, queue, useVars,
                   closer>>

BroadcastDone ==
    /\ reader = "send" /\ sendTo = {}
    /\ reader' = "read"
    /\ UNCHANGED <<shellVars, fd, taken, chunk, sendTo, subVars, useVars, closer>>

-----------------------------------------------------------------------------
(* Uses                                                                    *)

To(s, label) == use' = [use EXCEPT ![s] = label]

LockCommand(s) ==
    /\ s \in Waiters \cup Senders
    /\ use[s] = "idle"
    /\ commandMu = None
    /\ commandMu' = s
    /\ To(s, "locked")
    /\ UNCHANGED <<shellVars, fd, readVars, subVars, last, outcome, closer>>

\* Run finds its client gone before it starts.
CancelEarly(s) ==
    /\ s \in Waiters
    /\ use[s] = "locked"
    /\ outcome' = [outcome EXCEPT ![s] = "canceled"]
    /\ commandMu' = None
    /\ To(s, "ended")
    /\ UNCHANGED <<shellVars, fd, readVars, subVars, last, closer>>

\* subscribeReliable or subscribeBestEffort; on a closed runner the subscriber
\* is stopped at once and does not enter the map.
Subscribe(s) ==
    /\ use[s] = IF s \in Followers THEN "idle" ELSE "locked"
    /\ IF closed
         THEN /\ stopped' = [stopped EXCEPT ![s] = TRUE]
              /\ stopErr' = [stopErr EXCEPT ![s] = "eof"]
              /\ UNCHANGED subscribers
         ELSE /\ subscribers' = subscribers \cup {s}
              /\ UNCHANGED <<stopped, stopErr>>
    /\ last' = [last EXCEPT ![s] = taken]
    /\ To(s, IF s \in Followers THEN "loop" ELSE "writing")
    /\ UNCHANGED <<shellVars, fd, readVars, closed, queue, outcome,
                   commandMu, closer>>

\* The write to the PTY is accepted.  *Follow then gives up commandMu, and may
\* first write to its client: sendFollow the current line, ctrlCFollow a ^C, for
\* which it keeps commandMu.
WriteDone(s) ==
    /\ use[s] = "writing"
    /\ fd = "own"
    /\ \/ s \notin Senders /\ To(s, "loop") /\ UNCHANGED commandMu
       \/ s \in Senders /\ To(s, "loop") /\ commandMu' = None
       \/ s \in Senders /\ To(s, "output") /\ commandMu' \in {None, s}
    /\ UNCHANGED <<shellVars, fd, readVars, subVars, last, outcome, closer>>

\* Variant: unsubscribe leaves sub.done open.
EndUnstopped(s, how) ==
    /\ subscribers' = subscribers \ {s}
    /\ outcome' = [outcome EXCEPT ![s] = how]
    /\ commandMu' = IF commandMu = s THEN None ELSE commandMu
    /\ To(s, "ended")
    /\ UNCHANGED <<shellVars, fd, readVars, closed, queue, stopped, stopErr, last, closer>>

\* The use returns: unsubscribe, and commandMu.Unlock if it holds it.
End(s, how) ==
    /\ subscribers' = subscribers \ {s}
    /\ stopped' = [stopped EXCEPT ![s] = TRUE]
    /\ outcome' = [outcome EXCEPT ![s] = how]
    /\ commandMu' = IF commandMu = s THEN None ELSE commandMu
    /\ To(s, "ended")
    /\ UNCHANGED <<shellVars, fd, readVars, closed, queue, stopErr, last,
                   closer>>

\* The file is closed, under a write blocked in it or before, or nobody holds
\* the PTY's other side.
WriteFails(s) ==
    /\ use[s] = "writing"
    /\ fd # "own" \/ hungUp
    /\ End(s, "failed")

\* Run's client disconnects: an interrupt and another marker are written, and
\* the loop goes on until a marker shows.
Interrupt(s) ==
    /\ s \in Waiters
    /\ use[s] \in {"draining", "selecting"}
    /\ outcome[s] = "none"
    /\ outcome' = [outcome EXCEPT ![s] = "canceled"]
    /\ To(s, "writing")
    /\ UNCHANGED <<shellVars, fd, readVars, subVars, last, commandMu, closer>>

\* Top of the consuming loop: with chunks buffered, sub.done is left out of the
\* select.
Examine(s) ==
    /\ use[s] = "loop"
    /\ To(s, IF queue[s] = <<>> THEN "selecting" ELSE "draining")
    /\ UNCHANGED <<shellVars, fd, readVars, subVars, last, outcome, commandMu,
                   closer>>

\* chunk := <-sub.ch; a follower passes it on to its client.
Receive(s) ==
    /\ use[s] \in {"draining", "selecting"}
    /\ queue[s] # <<>>
    /\ last' = [last EXCEPT ![s] = IF Head(queue[s]) = 0 THEN @ ELSE Head(queue[s])]
    /\ queue' = [queue EXCEPT ![s] = Tail(@)]
    /\ To(s, IF s \in Waiters THEN "loop" ELSE "output")
    /\ UNCHANGED <<shellVars, fd, readVars, subscribers, closed, stopped, stopErr,
                   outcome, commandMu, closer>>

\* The client takes what it is written; until it does, the write blocks.
OutputDone(s) ==
    /\ use[s] = "output"
    /\ commandMu' = IF commandMu = s THEN None ELSE commandMu
    /\ To(s, "loop")
    /\ UNCHANGED <<shellVars, fd, readVars, subVars, last, outcome, closer>>

\* Its connection is closed.
OutputFails(s) ==
    /\ use[s] = "output"
    /\ End(s, "failed")

\* <-sub.done; if a chunk became ready too before select looked, by its free
\* choice.
SeeStop(s) ==
    /\ use[s] = "selecting"
    /\ stopped[s]
    /\ End(s, stopErr[s])

\* The marker or the quiet timer ends a wait; the client's disconnect, or the
\* quiet timer, a follow.
Finish(s) ==
    /\ use[s] \in {"draining", "selecting"}
    /\ End(s, IF outcome[s] = "canceled" THEN "canceled" ELSE "finished")

-----------------------------------------------------------------------------
(* Close                                                                   *)

\* closeOnce, SIGTERM, the wait for processDone and, after 500ms, SIGKILL.
CloseBegins ==
    /\ closer = "no"
    /\ closer' = "term"
    /\ UNCHANGED <<shellVars, fd, readVars, subVars, useVars>>

\* processDone, or the second timeout: file.Close frees the descriptor.
CloseFile ==
    /\ closer = "term"
    /\ fd' = "free"
    /\ closer' = "reader"
    /\ UNCHANGED <<shellVars, readVars, subVars, useVars>>

\* <-r.readerDone
CloseReturns ==
    /\ closer = "reader"
    /\ reader = "gone"
    /\ closer' = "done"
    /\ UNCHANGED <<shellVars, fd, readVars, subVars, useVars>>

\* Another file is opened in the process, say another target's PTY, and gets
\* the lowest free number.
FdTaken ==
    /\ fd = "free"
    /\ fd' = "other"
    /\ UNCHANGED <<shellVars, readVars, subVars, useVars, closer>>

-----------------------------------------------------------------------------
ReaderStep ==
    \/ ReadChunk \/ ReadAgain \/ ReaderWakes \/ ReadFails \/ BroadcastDone
    \/ \E s \in Uses : Deliver(s) \/ SkipStopped(s) \/ DropSlow(s)

\* The steps of a use that depend on no client and no shell.
UseStep(s) ==
    \/ Subscribe(s) \/ WriteFails(s)
    \/ Examine(s) \/ Receive(s) \/ SeeStop(s)

\* Those that do.
ClientStep(s) ==
    \/ LockCommand(s) \/ CancelEarly(s)
    \/ WriteDone(s) \/ Interrupt(s) \/ Finish(s)
    \/ OutputDone(s) \/ OutputFails(s)

Next ==
    \/ ShellWrites \/ ShellDies \/ HangUp
    \/ ReaderStep
    \/ \E s \in Uses : ClientStep(s) \/ UseStep(s)
    \/ CloseBegins \/ CloseFile \/ CloseReturns \/ FdTaken

Spec == Init /\ [][Next]_vars

\* Goroutines run and Close's timers fire.  Nothing says that the shell reads
\* its input or writes, or when a client reads what is written to it.
Fairness ==
    /\ WF_vars(ReaderStep)
    /\ \A s \in Uses : WF_vars(use[s] # "idle" /\ UseStep(s))
    /\ WF_vars(CloseFile)
    /\ WF_vars(CloseReturns)

FairSpec == Spec /\ Fairness

-----------------------------------------------------------------------------
(* Properties                                                              *)

\* The places of q that hold chunks of the shell, not of another file.
OwnChunks(q) == {i \in DOMAIN q : q[i] # 0}

\* Of the shell's chunks q holds those after number m up to number n, in order.
Holds(q, m, n) ==
    /\ m <= n
    /\ {q[i] : i \in OwnChunks(q)} = (m + 1) .. n
    /\ \A i, j \in OwnChunks(q) : i < j => q[i] < q[j]

\* The last chunk that s was sent.
Sent(s) == taken - (IF s \in sendTo /\ chunk # 0 THEN 1 ELSE 0)

\* While a use is subscribed, all that was read of the shell is received or
\* buffered in order, but the chunk being sent: backpressure never loses a
\* waiter's output, an observer that misses a chunk is no longer subscribed, and
\* a use that ended is not (broadcast, tab.go:664-692;
\* TestPTYRunnerBackpressuresReliableSubscriberWithoutDroppingOutput).
SubscribedMissNothing ==
    \A s \in subscribers : use[s] # "ended" /\ Holds(queue[s], last[s], Sent(s))

\* A waiter is never cut off for being slow, nor by what other uses do: only the
\* end of the read loop, or its own, stops its subscription (tab.go:672-678).
WaitersNeverDropped ==
    \A s \in Waiters : stopped[s] => closed \/ use[s] = "ended"

\* The read loop never reads from a file that is not its own PTY (tab.go:590).
ReadsOwnPTY == reader = "send" => chunk # 0

\* Close returns, with readLoop gone, whatever uses, clients and shell do,
\* unless the descriptor's number is taken between CloseFile and readLoop's
\* next read (tab.go:590, 987).
CloseCompletes == closer # "no" ~> closer = "done" \/ fd = "other"

\* After Close, under the same condition, no waiter stays blocked, in a write to
\* the shell or on its subscription.
CloseFreesWaiters ==
    \A s \in Waiters :
        closer # "no" /\ use[s] # "idle" ~> use[s] = "ended" \/ fd = "other"

\* An observer, however stalled its client, never stalls the read loop; only a
\* waiter whose write the shell does not take can (tab.go:679-690).
ObserversNeverStall ==
    reader = "send" ~> (reader # "send" \/ \E s \in Waiters : use[s] = "writing")

=============================================================================
