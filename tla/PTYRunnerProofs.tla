-------------------------- MODULE PTYRunnerProofs --------------------------
(***************************************************************************)
(* Proofs about PTYRunner, for any sets of waiters, senders and followers, *)
(* any length of the subscribers' channels and any amount of output.       *)
(***************************************************************************)
EXTENDS PTYRunner, SequenceTheorems, TLAPS

\* A use that has not subscribed has no trace in the read loop.
UnsubscribedOK ==
    \A s \in Uses : use[s] \in {"idle", "locked"} =>
        s \notin subscribers /\ s \notin sendTo /\ queue[s] = <<>> /\ ~stopped[s]

\* The subscribers are open, until the read loop ends, which leaves none.
SubscribersOK ==
    /\ \A s \in subscribers : ~stopped[s]
    /\ closed => subscribers = {}

\* Only while it broadcasts has readLoop a chunk and subscribers to send it to.
ReaderOK ==
    /\ reader # "send" => sendTo = {}
    /\ reader = "send" => chunk \in {0, taken}

IInv ==
    /\ TypeOK
    /\ UnsubscribedOK
    /\ SubscribersOK
    /\ ReaderOK
    /\ WaitersNeverDropped
    /\ SubscribedMissNothing

-----------------------------------------------------------------------------
(* What a channel holds                                                    *)

Chunks == 0 .. MaxChunks

\* An empty channel holds nothing.
LEMMA EmptyHolds == \A m \in Chunks : Holds(<<>>, m, m)
BY BoundsOK DEF Holds, OwnChunks, Chunks

\* The next chunk sent is the last one held.
LEMMA AppendHolds ==
    ASSUME NEW q \in Seq(Chunks), NEW m \in Chunks, NEW n \in Chunks, Holds(q, m, n),
           n + 1 \in Chunks
    PROVE  Holds(Append(q, n + 1), m, n + 1)
<1> DEFINE p == Append(q, n + 1)
<1>1. /\ DOMAIN p = DOMAIN q \cup {Len(q) + 1} /\ p[Len(q) + 1] = n + 1
      /\ Len(q) \in Nat /\ DOMAIN q = 1 .. Len(q)
      /\ \A i \in DOMAIN q : p[i] = q[i] /\ q[i] \in Chunks
  OBVIOUS
<1>2. m \in Nat /\ n \in Nat /\ n + 1 # 0
  BY BoundsOK DEF Chunks
<1> HIDE DEF p
<1>3. OwnChunks(p) = OwnChunks(q) \cup {Len(q) + 1}
  BY <1>1, <1>2 DEF OwnChunks
<1>4. \A i \in OwnChunks(q) : i \in DOMAIN q /\ p[i] = q[i] /\ q[i] \in (m + 1) .. n
  BY <1>1 DEF Holds, OwnChunks
<1>5. {p[i] : i \in OwnChunks(p)} = {q[i] : i \in OwnChunks(q)} \cup {n + 1}
  BY <1>1, <1>3, <1>4
<1>6. {p[i] : i \in OwnChunks(p)} = (m + 1) .. (n + 1)
  <2>1. {q[i] : i \in OwnChunks(q)} = (m + 1) .. n /\ m <= n
    BY DEF Holds
  <2>2. (m + 1) .. (n + 1) = ((m + 1) .. n) \cup {n + 1}
    BY <1>2, <2>1
  <2> QED
    BY <1>5, <2>1, <2>2
<1>7. \A i, j \in OwnChunks(p) : i < j => p[i] < p[j]
  <2> SUFFICES ASSUME NEW i \in OwnChunks(p), NEW j \in OwnChunks(p), i < j
               PROVE  p[i] < p[j]
    OBVIOUS
  <2>1. i \in OwnChunks(q)
    BY <1>1, <1>3, <1>4
  <2>2. CASE j = Len(q) + 1
    BY <1>1, <1>2, <1>4, <2>1, <2>2
  <2>3. CASE j \in OwnChunks(q)
    BY <1>4, <2>1, <2>3 DEF Holds
  <2> QED
    BY <1>3, <2>2, <2>3
<1>8. Holds(p, m, n + 1)
  <2>1. m <= n + 1
    BY <1>2 DEF Holds
  <2> QED
    BY <1>6, <1>7, <2>1 DEF Holds
<1> QED
  BY <1>8 DEF p

\* Another file's bytes change nothing of what is held.
LEMMA AppendForeignHolds ==
    ASSUME NEW q \in Seq(Chunks), NEW m \in Chunks, NEW n \in Chunks, Holds(q, m, n)
    PROVE  Holds(Append(q, 0), m, n)
<1> DEFINE p == Append(q, 0)
<1>1. /\ DOMAIN p = DOMAIN q \cup {Len(q) + 1} /\ p[Len(q) + 1] = 0
      /\ Len(q) \in Nat /\ DOMAIN q = 1 .. Len(q)
      /\ \A i \in DOMAIN q : p[i] = q[i]
  BY BoundsOK DEF Chunks
<1> HIDE DEF p
<1>2. OwnChunks(p) = OwnChunks(q) /\ \A i \in OwnChunks(q) : p[i] = q[i]
  BY <1>1 DEF OwnChunks
<1>3. {p[i] : i \in OwnChunks(p)} = {q[i] : i \in OwnChunks(q)}
  BY <1>2
<1>4. Holds(p, m, n)
  BY <1>2, <1>3 DEF Holds
<1> QED
  BY <1>4 DEF p

\* The first place is that of the next chunk, or of another file's bytes.
LEMMA TailHolds ==
    ASSUME NEW q \in Seq(Chunks), NEW m \in Chunks, NEW n \in Chunks, Holds(q, m, n),
           q # <<>>
    PROVE  Holds(Tail(q), IF Head(q) = 0 THEN m ELSE Head(q), n)
<1> DEFINE p == Tail(q)
<1>1. /\ Len(q) \in Nat /\ Len(q) > 0 /\ DOMAIN q = 1 .. Len(q) /\ Head(q) = q[1]
      /\ DOMAIN p = 1 .. (Len(q) - 1)
      /\ \A i \in DOMAIN p : i + 1 \in DOMAIN q /\ p[i] = q[i + 1]
      /\ \A i \in DOMAIN q : q[i] \in Chunks
  OBVIOUS
<1>2. m \in Nat /\ n \in Nat /\ \A i \in DOMAIN q : q[i] \in Nat
  BY <1>1, BoundsOK DEF Chunks
<1> HIDE DEF p
<1>3. \A i : i \in OwnChunks(p) <=> i \in DOMAIN p /\ i + 1 \in OwnChunks(q)
  BY <1>1 DEF OwnChunks
<1>4. \A i \in OwnChunks(q) : i \in DOMAIN q /\ (i = 1 \/ i - 1 \in OwnChunks(p))
  BY <1>1, <1>3 DEF OwnChunks
<1>5. \A i, j \in OwnChunks(p) : i < j => p[i] < p[j]
  BY <1>1, <1>3 DEF Holds
<1>6. CASE Head(q) = 0
  <2>1. 1 \notin OwnChunks(q)
    BY <1>1, <1>6 DEF OwnChunks
  <2>2. {p[i] : i \in OwnChunks(p)} = {q[i] : i \in OwnChunks(q)}
    <3>1. \A i \in OwnChunks(p) : i + 1 \in OwnChunks(q) /\ p[i] = q[i + 1]
      BY <1>1, <1>3
    <3>2. \A i \in OwnChunks(q) : i - 1 \in OwnChunks(p) /\ p[i - 1] = q[i]
      BY <1>1, <1>3, <1>4, <2>1
    <3> QED
      BY <3>1, <3>2
  <2> QED
    BY <1>5, <1>6, <2>2 DEF Holds, p
<1>7. CASE Head(q) # 0
  <2>1. 1 \in OwnChunks(q)
    BY <1>1, <1>7 DEF OwnChunks
  <2>2. \A i \in OwnChunks(q) : q[i] \in (m + 1) .. n
    BY DEF Holds
  <2>3. \A i \in OwnChunks(q) : i # 1 => 1 < i /\ q[1] < q[i]
    BY <1>1, <1>4, <2>1 DEF Holds
  <2>4. q[1] = m + 1
    <3>1. m + 1 \in (m + 1) .. n
      BY <1>2, <2>1, <2>2
    <3>2. PICK i \in OwnChunks(q) : q[i] = m + 1
      BY <3>1 DEF Holds
    <3> QED
      BY <1>1, <1>2, <2>1, <2>2, <2>3, <3>2
  <2>5. \A k : k \in {p[i] : i \in OwnChunks(p)} <=> k \in (m + 2) .. n
    <3>1. ASSUME NEW i \in OwnChunks(p) PROVE p[i] \in (m + 2) .. n
      BY <1>1, <1>2, <1>3, <2>2, <2>3, <2>4, <3>1
    <3>2. ASSUME NEW k \in (m + 2) .. n PROVE \E i \in OwnChunks(p) : p[i] = k
      <4> k \in (m + 1) .. n
        BY <1>2
      <4>1. PICK i \in OwnChunks(q) : q[i] = k
        BY DEF Holds
      <4>2. i - 1 \in OwnChunks(p) /\ p[i - 1] = k
        BY <1>1, <1>2, <1>3, <1>4, <2>4, <4>1
      <4> QED
        BY <4>2
    <3> QED
      BY <3>1, <3>2
  <2>6. {p[i] : i \in OwnChunks(p)} = (q[1] + 1) .. n
    BY <1>2, <2>4, <2>5
  <2>7. q[1] <= n
    BY <2>1, <2>2, <1>2
  <2> QED
    BY <1>1, <1>5, <1>7, <2>6, <2>7 DEF Holds, p
<1> QED
  BY <1>6, <1>7

-----------------------------------------------------------------------------
(* Each action keeps IInv.  USE expands the action; a step lists the parts of *)
(* IInv that its goal takes.                                               *)

\* The shell writes.
LEMMA ShellWritesKeeps ==
    ASSUME IInv, ShellWrites
    PROVE  IInv'
<1> USE DEF IInv, TypeOK, Uses, ShellWrites, readVars, subVars, useVars
<1>1. TypeOK'
  BY BoundsOK DEF TypeOK
<1>2. UnsubscribedOK'
  BY DEF UnsubscribedOK
<1>3. SubscribersOK'
  BY DEF SubscribersOK
<1>4. ReaderOK'
  BY DEF ReaderOK
<1>5. WaitersNeverDropped'
  BY DEF WaitersNeverDropped
<1>6. SubscribedMissNothing'
  BY DEF SubscribedMissNothing, Sent
<1> QED
  BY <1>1, <1>2, <1>3, <1>4, <1>5, <1>6

\* The shell exits (tab.go:1001-1006).
LEMMA ShellDiesKeeps ==
    ASSUME IInv, ShellDies
    PROVE  IInv'
<1> USE DEF IInv, TypeOK, Uses, ShellDies, readVars, subVars, useVars
<1>1. TypeOK'
  BY DEF TypeOK
<1>2. UnsubscribedOK'
  BY DEF UnsubscribedOK
<1>3. SubscribersOK'
  BY DEF SubscribersOK
<1>4. ReaderOK'
  BY DEF ReaderOK
<1>5. WaitersNeverDropped'
  BY DEF WaitersNeverDropped
<1>6. SubscribedMissNothing'
  BY DEF SubscribedMissNothing, Sent
<1> QED
  BY <1>1, <1>2, <1>3, <1>4, <1>5, <1>6

\* The last process on the PTY exits.
LEMMA HangUpKeeps ==
    ASSUME IInv, HangUp
    PROVE  IInv'
<1> USE DEF IInv, TypeOK, Uses, HangUp, readVars, subVars, useVars
<1>1. TypeOK'
  BY DEF TypeOK
<1>2. UnsubscribedOK'
  BY DEF UnsubscribedOK
<1>3. SubscribersOK'
  BY DEF SubscribersOK
<1>4. ReaderOK'
  BY DEF ReaderOK
<1>5. WaitersNeverDropped'
  BY DEF WaitersNeverDropped
<1>6. SubscribedMissNothing'
  BY DEF SubscribedMissNothing, Sent
<1> QED
  BY <1>1, <1>2, <1>3, <1>4, <1>5, <1>6

\* readLoop reads and takes the subscribers (tab.go:590-596, 664-670).
LEMMA ReadChunkKeeps ==
    ASSUME IInv, ReadChunk
    PROVE  IInv'
<1> USE DEF IInv, TypeOK, Uses, ReadChunk, shellVars, subVars, useVars
<1>1. TypeOK'
  BY BoundsOK DEF TypeOK
<1>2. UnsubscribedOK'
  BY DEF UnsubscribedOK
<1>3. SubscribersOK'
  BY DEF SubscribersOK
<1>4. ReaderOK'
  BY DEF ReaderOK
<1>5. WaitersNeverDropped'
  BY DEF WaitersNeverDropped
<1>6. SubscribedMissNothing'
  <2>1. \A s \in Uses : Sent(s) = taken
    BY BoundsOK DEF Sent, ReaderOK
  <2>2. \A s \in subscribers : Sent(s)' = taken
    BY BoundsOK DEF Sent
  <2> QED
    BY <2>1, <2>2 DEF SubscribedMissNothing
<1> QED
  BY <1>1, <1>2, <1>3, <1>4, <1>5, <1>6

\* readLoop finds nothing to read (tab.go:599-602).
LEMMA ReadAgainKeeps ==
    ASSUME IInv, ReadAgain
    PROVE  IInv'
<1> USE DEF IInv, TypeOK, Uses, ReadAgain, shellVars, subVars, useVars
<1>1. TypeOK'
  BY DEF TypeOK
<1>2. UnsubscribedOK'
  BY DEF UnsubscribedOK
<1>3. SubscribersOK'
  BY DEF SubscribersOK
<1>4. ReaderOK'
  BY DEF ReaderOK
<1>5. WaitersNeverDropped'
  BY DEF WaitersNeverDropped
<1>6. SubscribedMissNothing'
  BY DEF SubscribedMissNothing, Sent
<1> QED
  BY <1>1, <1>2, <1>3, <1>4, <1>5, <1>6

\* readLoop wakes up (tab.go:585-606).
LEMMA ReaderWakesKeeps ==
    ASSUME IInv, ReaderWakes
    PROVE  IInv'
<1> USE DEF IInv, TypeOK, Uses, ReaderWakes, shellVars, subVars, useVars
<1>1. TypeOK'
  BY DEF TypeOK
<1>2. UnsubscribedOK'
  BY DEF UnsubscribedOK
<1>3. SubscribersOK'
  BY DEF SubscribersOK
<1>4. ReaderOK'
  BY DEF ReaderOK
<1>5. WaitersNeverDropped'
  BY DEF WaitersNeverDropped
<1>6. SubscribedMissNothing'
  BY DEF SubscribedMissNothing, Sent
<1> QED
  BY <1>1, <1>2, <1>3, <1>4, <1>5, <1>6

\* readLoop ends and stops the subscribers (tab.go:603-604, 694-714).
LEMMA ReadFailsKeeps ==
    ASSUME IInv, ReadFails
    PROVE  IInv'
<1> USE DEF IInv, TypeOK, Uses, ReadFails, shellVars, useVars
<1>1. TypeOK'
  BY DEF TypeOK
<1>2. UnsubscribedOK'
  BY DEF UnsubscribedOK
<1>3. SubscribersOK'
  BY DEF SubscribersOK
<1>4. ReaderOK'
  BY DEF ReaderOK
<1>5. WaitersNeverDropped'
  BY DEF WaitersNeverDropped
<1>6. SubscribedMissNothing'
  BY DEF SubscribedMissNothing, Sent
<1> QED
  BY <1>1, <1>2, <1>3, <1>4, <1>5, <1>6

\* broadcast sends a chunk (tab.go:672-683).
LEMMA DeliverKeeps ==
    ASSUME IInv, NEW s \in Uses, Deliver(s)
    PROVE  IInv'
<1> USE DEF IInv, TypeOK, Uses, Deliver, Full, shellVars, useVars
<1>1. TypeOK'
  <2>1. Append(queue[s], chunk) \in Seq(0 .. MaxChunks)
    OBVIOUS
  <2>2. Len(Append(queue[s], chunk)) <= Capacity
    BY BoundsOK
  <2> QED
    BY <2>1, <2>2 DEF TypeOK
<1>2. UnsubscribedOK'
  BY DEF UnsubscribedOK
<1>3. SubscribersOK'
  BY DEF SubscribersOK
<1>4. ReaderOK'
  BY DEF ReaderOK
<1>5. WaitersNeverDropped'
  BY DEF WaitersNeverDropped
<1>6. SubscribedMissNothing'
  <2> SUFFICES ASSUME NEW t \in subscribers'
               PROVE  use'[t] # "ended" /\ Holds(queue'[t], last'[t], Sent(t)')
    BY DEF SubscribedMissNothing
  <2>1. Holds(queue[t], last[t], Sent(t)) /\ use[t] # "ended"
    BY DEF SubscribedMissNothing
  <2>2. CASE t # s
    BY <2>1, <2>2 DEF Sent
  <2>3. CASE t = s /\ chunk = 0
    <3>1. Sent(t) = taken /\ Sent(t)' = taken /\ queue'[t] = Append(queue[t], 0)
      BY <2>3, BoundsOK DEF Sent
    <3> QED
      BY <2>1, <3>1, AppendForeignHolds DEF Chunks
  <2>4. CASE t = s /\ chunk # 0
    <3>1. Sent(t) = taken - 1 /\ Sent(t)' = taken /\ chunk = taken
      BY <2>4, BoundsOK DEF Sent, ReaderOK
    <3>2. taken - 1 \in Chunks /\ (taken - 1) + 1 = taken
      BY <2>4, <3>1, BoundsOK DEF Chunks
    <3>3. queue'[t] = Append(queue[t], (taken - 1) + 1)
      BY <2>4, <3>1, <3>2
    <3> QED
      BY <2>1, <3>1, <3>2, <3>3, AppendHolds DEF Chunks
  <2> QED
    BY <2>2, <2>3, <2>4
<1> QED
  BY <1>1, <1>2, <1>3, <1>4, <1>5, <1>6

\* broadcast passes a stopped subscriber over (tab.go:675, 682).
LEMMA SkipStoppedKeeps ==
    ASSUME IInv, NEW s \in Uses, SkipStopped(s)
    PROVE  IInv'
<1> USE DEF IInv, TypeOK, Uses, SkipStopped, shellVars, subVars, useVars
<1>1. TypeOK'
  BY DEF TypeOK
<1>2. UnsubscribedOK'
  BY DEF UnsubscribedOK
<1>3. SubscribersOK'
  BY DEF SubscribersOK
<1>4. ReaderOK'
  BY DEF ReaderOK
<1>5. WaitersNeverDropped'
  BY DEF WaitersNeverDropped
<1>6. SubscribedMissNothing'
  BY DEF SubscribedMissNothing, Sent, SubscribersOK
<1> QED
  BY <1>1, <1>2, <1>3, <1>4, <1>5, <1>6

\* broadcast drops a slow observer (tab.go:684-689).
LEMMA DropSlowKeeps ==
    ASSUME IInv, NEW s \in Uses, DropSlow(s)
    PROVE  IInv'
<1> USE DEF IInv, TypeOK, Uses, DropSlow, Full, shellVars, useVars
<1>1. TypeOK'
  BY DEF TypeOK
<1>2. UnsubscribedOK'
  BY DEF UnsubscribedOK
<1>3. SubscribersOK'
  BY DEF SubscribersOK
<1>4. ReaderOK'
  BY DEF ReaderOK
<1>5. WaitersNeverDropped'
  BY DEF WaitersNeverDropped
<1>6. SubscribedMissNothing'
  BY DEF SubscribedMissNothing, Sent
<1> QED
  BY <1>1, <1>2, <1>3, <1>4, <1>5, <1>6

\* broadcast returns (tab.go:1054-1068).
LEMMA BroadcastDoneKeeps ==
    ASSUME IInv, BroadcastDone
    PROVE  IInv'
<1> USE DEF IInv, TypeOK, Uses, BroadcastDone, shellVars, subVars, useVars
<1>1. TypeOK'
  BY DEF TypeOK
<1>2. UnsubscribedOK'
  BY DEF UnsubscribedOK
<1>3. SubscribersOK'
  BY DEF SubscribersOK
<1>4. ReaderOK'
  BY DEF ReaderOK
<1>5. WaitersNeverDropped'
  BY DEF WaitersNeverDropped
<1>6. SubscribedMissNothing'
  BY DEF SubscribedMissNothing, Sent
<1> QED
  BY <1>1, <1>2, <1>3, <1>4, <1>5, <1>6

\* An operation takes commandMu (tab.go:251, 408, 428).
LEMMA LockCommandKeeps ==
    ASSUME IInv, NEW s \in Uses, LockCommand(s)
    PROVE  IInv'
<1> USE DEF IInv, TypeOK, Uses, LockCommand, To, shellVars, readVars, subVars
<1>1. TypeOK'
  BY DEF TypeOK
<1>2. UnsubscribedOK'
  BY DEF UnsubscribedOK
<1>3. SubscribersOK'
  BY DEF SubscribersOK
<1>4. ReaderOK'
  BY DEF ReaderOK
<1>5. WaitersNeverDropped'
  BY DEF WaitersNeverDropped
<1>6. SubscribedMissNothing'
  BY DEF SubscribedMissNothing, Sent
<1> QED
  BY <1>1, <1>2, <1>3, <1>4, <1>5, <1>6

\* Run finds its client gone before it starts (tab.go:250-262).
LEMMA CancelEarlyKeeps ==
    ASSUME IInv, NEW s \in Uses, CancelEarly(s)
    PROVE  IInv'
<1> USE DEF IInv, TypeOK, Uses, CancelEarly, To, shellVars, readVars, subVars
<1>1. TypeOK'
  BY DEF TypeOK
<1>2. UnsubscribedOK'
  BY DEF UnsubscribedOK
<1>3. SubscribersOK'
  BY DEF SubscribersOK
<1>4. ReaderOK'
  BY DEF ReaderOK
<1>5. WaitersNeverDropped'
  BY DEF WaitersNeverDropped
<1>6. SubscribedMissNothing'
  BY DEF SubscribedMissNothing, Sent, UnsubscribedOK
<1> QED
  BY <1>1, <1>2, <1>3, <1>4, <1>5, <1>6

\* A use subscribes (tab.go:629-652).
LEMMA SubscribeKeeps ==
    ASSUME IInv, NEW s \in Uses, Subscribe(s)
    PROVE  IInv'
<1> USE DEF IInv, TypeOK, Uses, Subscribe, To, shellVars, readVars
<1>1. TypeOK'
  <2>1. /\ stopped' \in [Uses -> BOOLEAN]
        /\ stopErr' \in [Uses -> {"none", "slow", "eof"}]
        /\ subscribers' \in SUBSET Uses
    OBVIOUS
  <2>2. /\ last' \in [Uses -> 0 .. MaxChunks]
        /\ use' \in [Uses -> {"idle", "locked", "writing", "loop", "draining",
                              "selecting", "output", "ended"}]
    OBVIOUS
  <2> QED
    BY <2>1, <2>2
<1>2. UnsubscribedOK'
  BY DEF UnsubscribedOK
<1>3. SubscribersOK'
  BY DEF SubscribersOK, UnsubscribedOK
<1>4. ReaderOK'
  BY DEF ReaderOK
<1>5. WaitersNeverDropped'
  BY DEF WaitersNeverDropped
<1>6. SubscribedMissNothing'
  <2>1. taken \in Chunks /\ queue[s] = <<>> /\ s \notin sendTo /\ taken \in Nat
    BY BoundsOK DEF UnsubscribedOK, Chunks
  <2>2. Holds(queue'[s], last'[s], Sent(s)') /\ use'[s] # "ended"
    BY <2>1, EmptyHolds DEF Sent
  <2> QED
    BY <2>2 DEF SubscribedMissNothing, Sent
<1> QED
  BY <1>1, <1>2, <1>3, <1>4, <1>5, <1>6

\* The shell takes what is written to it (tab.go:476-583).
LEMMA WriteDoneKeeps ==
    ASSUME IInv, NEW s \in Uses, WriteDone(s)
    PROVE  IInv'
<1> USE DEF IInv, TypeOK, Uses, WriteDone, To, shellVars, readVars, subVars
<1>1. TypeOK'
  BY DEF TypeOK
<1>2. UnsubscribedOK'
  BY DEF UnsubscribedOK
<1>3. SubscribersOK'
  BY DEF SubscribersOK
<1>4. ReaderOK'
  BY DEF ReaderOK
<1>5. WaitersNeverDropped'
  BY DEF WaitersNeverDropped
<1>6. SubscribedMissNothing'
  BY DEF SubscribedMissNothing, Sent
<1> QED
  BY <1>1, <1>2, <1>3, <1>4, <1>5, <1>6

\* A use returns and unsubscribes (tab.go:654-662).
LEMMA EndKeeps ==
    ASSUME IInv, NEW s \in Uses,
           NEW how \in {"none", "slow", "eof", "canceled", "finished", "failed"},
           use[s] \notin {"idle", "locked"}, End(s, how)
    PROVE  IInv'
<1> USE DEF IInv, TypeOK, Uses, End, To, shellVars, readVars
<1>1. TypeOK'
  BY DEF TypeOK
<1>2. UnsubscribedOK'
  BY DEF UnsubscribedOK
<1>3. SubscribersOK'
  BY DEF SubscribersOK
<1>4. ReaderOK'
  BY DEF ReaderOK
<1>5. WaitersNeverDropped'
  BY DEF WaitersNeverDropped
<1>6. SubscribedMissNothing'
  BY DEF SubscribedMissNothing, Sent
<1> QED
  BY <1>1, <1>2, <1>3, <1>4, <1>5, <1>6

\* Run interrupts the command (tab.go:250-309).
LEMMA InterruptKeeps ==
    ASSUME IInv, NEW s \in Uses, Interrupt(s)
    PROVE  IInv'
<1> USE DEF IInv, TypeOK, Uses, Interrupt, To, shellVars, readVars, subVars
<1>1. TypeOK'
  BY DEF TypeOK
<1>2. UnsubscribedOK'
  BY DEF UnsubscribedOK
<1>3. SubscribersOK'
  BY DEF SubscribersOK
<1>4. ReaderOK'
  BY DEF ReaderOK
<1>5. WaitersNeverDropped'
  BY DEF WaitersNeverDropped
<1>6. SubscribedMissNothing'
  BY DEF SubscribedMissNothing, Sent
<1> QED
  BY <1>1, <1>2, <1>3, <1>4, <1>5, <1>6

\* A use looks at its channel (tab.go:277-281).
LEMMA ExamineKeeps ==
    ASSUME IInv, NEW s \in Uses, Examine(s)
    PROVE  IInv'
<1> USE DEF IInv, TypeOK, Uses, Examine, To, shellVars, readVars, subVars
<1>1. TypeOK'
  BY DEF TypeOK
<1>2. UnsubscribedOK'
  BY DEF UnsubscribedOK
<1>3. SubscribersOK'
  BY DEF SubscribersOK
<1>4. ReaderOK'
  BY DEF ReaderOK
<1>5. WaitersNeverDropped'
  BY DEF WaitersNeverDropped
<1>6. SubscribedMissNothing'
  BY DEF SubscribedMissNothing, Sent
<1> QED
  BY <1>1, <1>2, <1>3, <1>4, <1>5, <1>6

\* A use receives a chunk (tab.go:290-308).
LEMMA ReceiveKeeps ==
    ASSUME IInv, NEW s \in Uses, Receive(s)
    PROVE  IInv'
<1> USE DEF IInv, TypeOK, Uses, Receive, To, shellVars, readVars
<1>1. TypeOK'
  <2> queue[s] \in Seq(0 .. MaxChunks) /\ queue[s] # <<>>
    OBVIOUS
  <2>1. /\ Tail(queue[s]) \in Seq(0 .. MaxChunks) /\ Len(Tail(queue[s])) = Len(queue[s]) - 1
        /\ Head(queue[s]) \in 0 .. MaxChunks
    BY HeadTailProperties
  <2>2. Len(Tail(queue[s])) <= Capacity
    BY BoundsOK
  <2> QED
    BY <2>1, <2>2 DEF TypeOK
<1>2. UnsubscribedOK'
  BY DEF UnsubscribedOK
<1>3. SubscribersOK'
  BY DEF SubscribersOK
<1>4. ReaderOK'
  BY DEF ReaderOK
<1>5. WaitersNeverDropped'
  BY DEF WaitersNeverDropped
<1>6. SubscribedMissNothing'
  <2> SUFFICES ASSUME NEW t \in subscribers'
               PROVE  use'[t] # "ended" /\ Holds(queue'[t], last'[t], Sent(t)')
    BY DEF SubscribedMissNothing
  <2>1. Holds(queue[t], last[t], Sent(t)) /\ use[t] # "ended" /\ Sent(t)' = Sent(t)
    BY DEF SubscribedMissNothing, Sent
  <2>2. CASE t # s
    BY <2>1, <2>2
  <2>3. CASE t = s
    <3>1. Sent(t) \in Chunks
      BY <2>1, BoundsOK DEF Sent, Holds, Chunks
    <3> QED
      BY <2>1, <2>3, <3>1, TailHolds DEF Chunks
  <2> QED
    BY <2>2, <2>3
<1> QED
  BY <1>1, <1>2, <1>3, <1>4, <1>5, <1>6

\* A client takes the chunk (tab.go:745-769).
LEMMA OutputDoneKeeps ==
    ASSUME IInv, NEW s \in Uses, OutputDone(s)
    PROVE  IInv'
<1> USE DEF IInv, TypeOK, Uses, OutputDone, To, shellVars, readVars, subVars
<1>1. TypeOK'
  BY DEF TypeOK
<1>2. UnsubscribedOK'
  BY DEF UnsubscribedOK
<1>3. SubscribersOK'
  BY DEF SubscribersOK
<1>4. ReaderOK'
  BY DEF ReaderOK
<1>5. WaitersNeverDropped'
  BY DEF WaitersNeverDropped
<1>6. SubscribedMissNothing'
  BY DEF SubscribedMissNothing, Sent
<1> QED
  BY <1>1, <1>2, <1>3, <1>4, <1>5, <1>6

\* Close goes on, or another file takes the descriptor.
LEMMA CloseStepsKeeps ==
    ASSUME IInv, CloseBegins \/ CloseFile \/ CloseReturns \/ FdTaken
    PROVE  IInv'
<1> USE DEF IInv, TypeOK, Uses, CloseBegins, CloseFile, CloseReturns, FdTaken,
   shellVars, readVars,
   subVars, useVars
<1>1. TypeOK'
  BY DEF TypeOK
<1>2. UnsubscribedOK'
  BY DEF UnsubscribedOK
<1>3. SubscribersOK'
  BY DEF SubscribersOK
<1>4. ReaderOK'
  BY DEF ReaderOK
<1>5. WaitersNeverDropped'
  BY DEF WaitersNeverDropped
<1>6. SubscribedMissNothing'
  BY DEF SubscribedMissNothing, Sent
<1> QED
  BY <1>1, <1>2, <1>3, <1>4, <1>5, <1>6

-----------------------------------------------------------------------------
(* The theorems                                                            *)

\* A shell that has just started satisfies the invariant (tab.go:206-240).
LEMMA InitIInv == Init => IInv
<1> SUFFICES ASSUME Init PROVE IInv
  OBVIOUS
<1>1. TypeOK
  <2>1. <<>> \in Seq(0 .. MaxChunks) /\ Len(<<>>) = 0 /\ 0 \in 0 .. MaxChunks
    BY BoundsOK
  <2>2. queue \in [Uses -> Seq(0 .. MaxChunks)]
    BY <2>1 DEF Init
  <2>3. \A s \in Uses : Len(queue[s]) <= Capacity
    BY <2>1, BoundsOK DEF Init
  <2> QED
    BY <2>1, <2>2, <2>3 DEF Init, TypeOK
<1>2. UnsubscribedOK /\ SubscribersOK /\ ReaderOK
  BY DEF Init, UnsubscribedOK, SubscribersOK, ReaderOK
<1>3. WaitersNeverDropped /\ SubscribedMissNothing
  BY DEF Init, WaitersNeverDropped, SubscribedMissNothing, Uses
<1> QED
  BY <1>1, <1>2, <1>3 DEF IInv

\* Every step of shell, read loop, uses and Close keeps the invariant (tab.go).
LEMMA NextIInv == IInv /\ [Next]_vars => IInv'
<1> SUFFICES ASSUME IInv, [Next]_vars PROVE IInv'
  OBVIOUS
<1>1. CASE ShellWrites \/ ShellDies \/ HangUp
  BY <1>1, ShellWritesKeeps, ShellDiesKeeps, HangUpKeeps
<1>2. CASE ReaderStep
  BY <1>2, ReadChunkKeeps, ReadAgainKeeps, ReaderWakesKeeps, ReadFailsKeeps,
     BroadcastDoneKeeps, DeliverKeeps, SkipStoppedKeeps, DropSlowKeeps
     DEF ReaderStep
<1>3. ASSUME NEW s \in Uses, UseStep(s) PROVE IInv'
  <2>1. CASE WriteFails(s)
    BY <2>1, EndKeeps DEF WriteFails
  <2>2. CASE SeeStop(s)
    <3>1. stopErr[s] \in {"none", "slow", "eof"}
      BY DEF IInv, TypeOK
    <3> QED
      BY <2>2, <3>1, EndKeeps DEF SeeStop
  <2> QED
    BY <1>3, <2>1, <2>2, SubscribeKeeps, ExamineKeeps, ReceiveKeeps DEF UseStep
<1>4. ASSUME NEW s \in Uses, ClientStep(s) PROVE IInv'
  <2>1. CASE Finish(s)
    BY <2>1, EndKeeps DEF Finish
  <2>2. CASE OutputFails(s)
    BY <2>2, EndKeeps DEF OutputFails
  <2> QED
    BY <1>4, <2>1, <2>2, LockCommandKeeps, CancelEarlyKeeps, WriteDoneKeeps,
       InterruptKeeps, OutputDoneKeeps
       DEF ClientStep
<1>5. CASE CloseBegins \/ CloseFile \/ CloseReturns \/ FdTaken
  BY <1>5, CloseStepsKeeps
<1>6. CASE UNCHANGED vars
  <2> USE <1>6 DEF vars, shellVars, readVars, subVars, useVars, IInv
  <2>1. TypeOK' /\ UnsubscribedOK' /\ SubscribersOK' /\ ReaderOK'
    BY DEF TypeOK, UnsubscribedOK, SubscribersOK, ReaderOK
  <2>2. WaitersNeverDropped' /\ SubscribedMissNothing'
    BY DEF WaitersNeverDropped, SubscribedMissNothing, Sent
  <2> QED
    BY <2>1, <2>2
<1> QED
  BY <1>1, <1>2, <1>3, <1>4, <1>5, <1>6 DEF Next

\* The inductive invariant holds of every execution of a shell's runner (tab.go).
THEOREM Invariance == Spec => []IInv
BY InitIInv, NextIInv, PTL DEF Spec

\* Every variable keeps its type; in particular no channel holds more than its
\* capacity (tab.go:629-635).
THEOREM TypeCorrect == Spec => []TypeOK
<1>1. IInv => TypeOK
  BY DEF IInv
<1> QED
  BY <1>1, Invariance, PTL

\* Only the end of the read loop, or its own, stops a waiter's subscription
\* (tab.go:671-678).
THEOREM WaitersNeverDroppedHolds == Spec => []WaitersNeverDropped
<1>1. IInv => WaitersNeverDropped
  BY DEF IInv
<1> QED
  BY <1>1, Invariance, PTL

\* A subscriber has received or buffers all that was read of its shell since it
\* subscribed, in order (tab.go:664-692).
THEOREM SubscribedMissNothingHolds == Spec => []SubscribedMissNothing
<1>1. IInv => SubscribedMissNothing
  BY DEF IInv
<1> QED
  BY <1>1, Invariance, PTL

=============================================================================
