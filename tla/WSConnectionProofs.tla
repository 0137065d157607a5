-------------------------- MODULE WSConnectionProofs --------------------------
(***************************************************************************)
(* Proofs about WSConnection, for any number of requests and chunks and    *)
(* any size of the queue.  The messages under way to the client, those in  *)
(* transit, the one being written and those queued, form one sequence: the *)
(* producers add to its end and the client takes from its front.  What the *)
(* theorems rest on is what that sequence holds.                           *)
(***************************************************************************)
EXTENDS WSConnection, SequenceTheorems, TLAPS

Messages ==
    [kind : {"response", "started", "data", "ended", "close"},
     id : Requests \cup {None}, size : Nat, n : Nat]

Enqueueing == {"push", "notify", "refused"}
InHand == {"push", "refused"}

\* The writer goes on to pop messages from the queue.
Serving == {"top", "write", "select", "parked"}

Live == open /\ writer \in Serving

BeingWritten == IF writer = "write" THEN <<writing>> ELSE <<>>

\* All that the client may still read, oldest first: once the writer will not
\* pop again, only what is in transit (server.go:813-843).
UnderWay == IF Live THEN wire \o (BeingWritten \o queue) ELSE wire

-----------------------------------------------------------------------------
(* What a sequence of messages holds                                       *)

IsData(m, r, n) == m.kind = "data" /\ m.id = r /\ m.n = n

\* Of each follow the chunks after the first got[r], each after the one before
\* it and none twice.
GapFree(f, got) ==
    \A i \in 1 .. Len(f) : f[i].kind = "data" =>
        /\ got[f[i].id] < f[i].n
        /\ f[i].n = got[f[i].id] + 1
             \/ \E j \in 1 .. i - 1 : IsData(f[j], f[i].id, f[i].n - 1)
        /\ \A j \in 1 .. i - 1 :
              f[j].kind = "data" /\ f[j].id = f[i].id => f[j].n < f[i].n

\* The end of a follow comes after the last chunk of it, all[r].
EndsAfterAll(f, got, all) ==
    \A i \in 1 .. Len(f) : f[i].kind = "ended" =>
        \/ got[f[i].id] = all[f[i].id]
        \/ \E j \in 1 .. i - 1 : IsData(f[j], f[i].id, all[f[i].id])

\* Chunk n of follow r has been read or is under way.
Reaches(f, got, r, n) ==
    got[r] = n \/ \E i \in 1 .. Len(f) : IsData(f[i], r, n)

\* No chunk of follow r after chunk n is under way.
UpTo(f, r, n) ==
    \A i \in 1 .. Len(f) : f[i].kind = "data" /\ f[i].id = r => f[i].n <= n

HasEnd(f, r) == \E i \in 1 .. Len(f) : f[i].kind = "ended" /\ f[i].id = r

\* Nothing that the goroutine of follow r sends is under way.
NoneFrom(f, r) ==
    \A i \in 1 .. Len(f) : f[i].kind \in {"data", "ended"} => f[i].id # r

\* Every message answers one of the first k requests.
AnswersTo(f, k) ==
    \A i \in 1 .. Len(f) : f[i].kind # "close" => f[i].id \in 1 .. k

HasAck(f) == \E i \in 1 .. Len(f) : f[i].kind = "started"

\* The acknowledgement, unless it was read, comes before data and end, and once.
AckFirst(f, acked) ==
    \A i \in 1 .. Len(f) :
        /\ f[i].kind \in {"data", "ended"} =>
              acked \/ \E j \in 1 .. i - 1 : f[j].kind = "started"
        /\ f[i].kind = "started" =>
              ~acked /\ \A j \in 1 .. i - 1 : f[j].kind # "started"

\* Answers to requests and the close message alone.
OnlyResponses(f) == \A i \in 1 .. Len(f) : f[i].kind \in {"response", "close"}

-----------------------------------------------------------------------------
(* The inductive invariant                                                 *)

FlagsOK ==
    /\ started \in BOOLEAN
    /\ open \in BOOLEAN
    /\ following \in BOOLEAN
    /\ notify \in BOOLEAN
    /\ closeReq \in BOOLEAN
    /\ done \in BOOLEAN
    /\ owed \in BOOLEAN

WSTypeOK ==
    /\ FlagsOK
    /\ call \in {"peer", "unary", "follow"}
    /\ client \in {"open", "stopped", "answered", "ended", "confused"}
    /\ sent \in 0 .. MaxRequests
    /\ received \in [Requests -> Nat]
    /\ wire \in Seq(Messages)
    /\ pc \in [Producers -> Enqueueing \cup
                  {"read", "wait", "returned", "none", "stream", "failed"}]
    /\ holding \in [Producers -> Messages \cup {None}]
    /\ produced \in [Requests -> Nat]
    /\ queue \in Seq(Messages)
    /\ bytes \in Int /\ bytes <= MaxBytes
    /\ writer \in Serving \cup {"close", "ended", "gone", "failed"}
    /\ writing \in Messages \cup {None}
    /\ writer = "write" => writing \in Messages

\* What each producer enqueues: the read loop answers the request it read last, a
\* follow sends its next chunk or its end (server.go:845-940, 1028-1038).
EnqueueOK ==
    /\ pc[Reader] \in Enqueueing \cup {"read", "wait", "returned"}
    /\ pc[Reader] \in Enqueueing =>
          /\ holding[Reader] \in Messages
          /\ holding[Reader].kind \in {"response", "started"}
          /\ holding[Reader].id = sent /\ sent \in Requests
    /\ \A r \in Requests :
          /\ pc[r] \in Enqueueing \cup {"none", "stream", "failed"}
          /\ pc[r] \in Enqueueing =>
                /\ holding[r] \in Messages
                /\ holding[r].kind \in {"data", "ended"}
                /\ holding[r].id = r
                /\ holding[r].kind = "data" => holding[r].n = produced[r]

\* The request was not read yet, or its follow is not acknowledged yet.
NotBegun(r) ==
    \/ r > sent
    \/ r = sent /\ pc[Reader] \in Enqueueing /\ holding[Reader].kind = "started"

\* A follow sends nothing before its goroutine is started (server.go:864-905).
NotBegunOK ==
    \A r \in Requests : NotBegun(r) =>
        /\ pc[r] = "none" /\ produced[r] = 0 /\ received[r] = 0
        /\ NoneFrom(UnderWay, r)

\* What is under way of each follow, and where its goroutine stands: what it has
\* produced is under way unless it is in hand or the connection is done, and once
\* it sent its end it sends no more (server.go:906-940, 1028-1038).
ChunksOK ==
    /\ GapFree(UnderWay, received)
    /\ EndsAfterAll(UnderWay, received, produced)
    /\ \A r \in Requests :
          /\ UpTo(UnderWay, r, produced[r])
          /\ HasEnd(UnderWay, r) =>
                pc[r] = "none" \/ (pc[r] = "notify" /\ holding[r].kind = "ended")
          /\ pc[r] \in InHand /\ holding[r].kind = "data" =>
                UpTo(UnderWay, r, produced[r] - 1)
          /\ pc[r] = "failed" => done
          /\ Live /\ (pc[r] \in {"stream", "notify"}
                       \/ (pc[r] = "push" /\ holding[r].kind = "ended")) =>
                Reaches(UnderWay, received, r, produced[r])
          /\ Live /\ pc[r] = "push" /\ holding[r].kind = "data" =>
                Reaches(UnderWay, received, r, produced[r] - 1)

\* Everything under way answers a request that was read.
AnswersOK == AnswersTo(UnderWay, sent)

\* Of Unary no follow is started (client.go:139-160).
UnaryOK ==
    call = "unary" =>
        /\ sent <= 1
        /\ \A r \in Requests : pc[r] = "none"
        /\ pc[Reader] \in Enqueueing => holding[Reader].kind = "response"
        /\ OnlyResponses(UnderWay)

\* A follow's messages come after its one acknowledgement, which is lost only with
\* a connection that is done (client.go:196-243, server.go:864-905).
FollowOK ==
    call = "follow" =>
        /\ sent <= 1
        /\ AckFirst(UnderWay, started)
        /\ sent = 0 \/ (pc[Reader] \in InHand /\ holding[Reader].kind = "started") =>
              ~started /\ ~HasAck(UnderWay)
        /\ Live /\ (\/ \E r \in Requests :
                          \/ pc[r] \in {"push", "notify"}
                          \/ pc[r] = "stream" /\ ~done
                    \/ pc[Reader] = "notify" /\ holding[Reader].kind = "started") =>
              started \/ HasAck(UnderWay)

\* A writer that has to be told of the close will see the request before it ends
\* (server.go:979-1000).
OwedOK ==
    owed => writer = "close" \/ (closeReq /\ writer \in {"top", "write"})

IInv ==
    /\ WSTypeOK
    /\ EnqueueOK
    /\ NotBegunOK
    /\ ChunksOK
    /\ AnswersOK
    /\ UnaryOK
    /\ FollowOK
    /\ ClientNeverConfused
    /\ OwedOK

-----------------------------------------------------------------------------
(* Sequences                                                               *)

\* g is the front of f, or all of it.
Cut(g, f) == Len(g) <= Len(f) /\ \A i \in 1 .. Len(g) : g[i] = f[i]

\* The front of a concatenation is its first part.
LEMMA ConcatCut ==
    ASSUME NEW S, NEW a \in Seq(S), NEW b \in Seq(S)
    PROVE  Cut(a, a \o b)
BY ConcatProperties, LenProperties, Z3 DEF Cut

\* Concatenation with a sequence that grows, grows.
LEMMA AppendConcat ==
    ASSUME NEW S, NEW a \in Seq(S), NEW b \in Seq(S), NEW x \in S
    PROVE  a \o Append(b, x) = Append(a \o b, x)
<1> DEFINE c == Append(b, x)
           f == a \o b
<1>1. c \in Seq(S) /\ Len(c) = Len(b) + 1
      /\ \A i \in 1 .. Len(c) : c[i] = IF i <= Len(b) THEN b[i] ELSE x
  BY AppendProperties, LenProperties
<1>2. f \in Seq(S) /\ Len(f) = Len(a) + Len(b)
      /\ \A i \in 1 .. Len(f) : f[i] = IF i <= Len(a) THEN a[i] ELSE b[i - Len(a)]
  BY ConcatProperties, Zenon
<1>3. Append(f, x) \in Seq(S) /\ Len(Append(f, x)) = Len(f) + 1
      /\ \A i \in 1 .. Len(f) + 1 : Append(f, x)[i] = IF i <= Len(f) THEN f[i] ELSE x
  BY <1>2, AppendProperties, LenProperties
<1>4. a \o c \in Seq(S) /\ Len(a \o c) = Len(a) + Len(c)
      /\ \A i \in 1 .. Len(a) + Len(c) :
            (a \o c)[i] = IF i <= Len(a) THEN a[i] ELSE c[i - Len(a)]
  BY <1>1, ConcatProperties, Zenon
<1>5. Len(a) \in Nat /\ Len(b) \in Nat
  BY LenProperties
<1>6. \A i \in 1 .. Len(a \o c) : (a \o c)[i] = Append(f, x)[i]
  <2> HIDE DEF c, f
  <2> SUFFICES ASSUME NEW i \in 1 .. Len(a \o c) PROVE (a \o c)[i] = Append(f, x)[i]
    OBVIOUS
  <2>1. CASE i <= Len(a)
    BY <2>1, <1>1, <1>2, <1>3, <1>4, <1>5
  <2>2. CASE i > Len(a) /\ i <= Len(a) + Len(b)
    <3>1. (a \o c)[i] = c[i - Len(a)] /\ i - Len(a) \in 1 .. Len(b)
      BY <2>2, <1>1, <1>4, <1>5
    <3>2. c[i - Len(a)] = b[i - Len(a)]
      BY <3>1, <1>1, <1>5
    <3> QED
      BY <2>2, <3>1, <3>2, <1>2, <1>3, <1>5
  <2>3. CASE i = Len(a) + Len(b) + 1
    <3>1. (a \o c)[i] = c[Len(b) + 1]
      BY <2>3, <1>1, <1>4, <1>5
    <3> QED
      BY <2>3, <3>1, <1>1, <1>2, <1>3, <1>5
  <2>4. i \in 1 .. Len(a) + Len(b) + 1
    <3>1. Len(a \o c) = Len(a) + Len(b) + 1
      BY <1>1, <1>4, <1>5
    <3> QED
      BY <3>1
  <2>5. i \in Int /\ (i <= Len(a) \/ (i > Len(a) /\ i <= Len(a) + Len(b))
                        \/ i = Len(a) + Len(b) + 1)
    BY <2>4, <1>5
  <2> QED
    BY <2>1, <2>2, <2>3, <2>5
<1>7. Len(a \o c) = Len(Append(f, x))
  BY <1>1, <1>2, <1>3, <1>4, <1>5
<1> HIDE DEF c, f
<1>8. a \o c = Append(f, x)
  BY <1>3, <1>4, <1>6, <1>7, SeqEqual
<1> QED
  BY <1>8 DEF c, f

\* The tail of a concatenation is the tail of its first part, and its second.
LEMMA TailConcat ==
    ASSUME NEW S, NEW a \in Seq(S), NEW b \in Seq(S), a # <<>>
    PROVE  /\ a \o b # <<>> /\ Head(a \o b) = Head(a)
           /\ Tail(a \o b) = Tail(a) \o b
<1> DEFINE c == Tail(a)
           f == a \o b
<1>1. c \in Seq(S) /\ Len(c) = Len(a) - 1 /\ \A i \in 1 .. Len(c) : c[i] = a[i + 1]
  BY HeadTailProperties
<1>2. f \in Seq(S) /\ Len(f) = Len(a) + Len(b)
      /\ \A i \in 1 .. Len(a) + Len(b) : f[i] = IF i <= Len(a) THEN a[i] ELSE b[i - Len(a)]
  BY ConcatProperties, Zenon
<1>3. Len(a) \in Nat \ {0} /\ Len(b) \in Nat
  BY EmptySeq, LenProperties
<1>4. f # <<>>
  <2> HIDE DEF f
  <2> QED
    BY <1>2, <1>3, EmptySeq
<1>5. Head(f) = Head(a)
  <2> f[1] = a[1]
    <3> HIDE DEF f
    <3> QED
      BY <1>2, <1>3
  <2> Head(f) = f[1] /\ Head(a) = a[1]
    BY <1>2, <1>4
  <2> QED
    OBVIOUS
<1>6. Tail(f) \in Seq(S) /\ Len(Tail(f)) = Len(f) - 1
      /\ \A i \in 1 .. Len(Tail(f)) : Tail(f)[i] = f[i + 1]
  <2> HIDE DEF f
  <2> QED
    BY <1>2, <1>4, HeadTailProperties
<1>7. c \o b \in Seq(S) /\ Len(c \o b) = Len(c) + Len(b)
      /\ \A i \in 1 .. Len(c) + Len(b) :
            (c \o b)[i] = IF i <= Len(c) THEN c[i] ELSE b[i - Len(c)]
  BY <1>1, ConcatProperties, Zenon
<1> HIDE DEF c, f
<1>8. \A i \in 1 .. Len(c \o b) : (c \o b)[i] = Tail(f)[i]
  BY <1>1, <1>2, <1>3, <1>6, <1>7
<1>9. Len(c \o b) = Len(Tail(f))
  BY <1>1, <1>2, <1>3, <1>6, <1>7
<1>10. c \o b = Tail(f)
  BY <1>6, <1>7, <1>8, <1>9, SeqEqual
<1> QED
  BY <1>4, <1>5, <1>10 DEF c, f

\* A queue is its head and its tail.
LEMMA HeadConcatTail ==
    ASSUME NEW S, NEW b \in Seq(S), b # <<>>
    PROVE  <<Head(b)>> \o Tail(b) = b
<1> DEFINE h == <<Head(b)>>
           c == Tail(b)
<1>1. Head(b) \in S /\ Head(b) = b[1]
      /\ c \in Seq(S) /\ Len(c) = Len(b) - 1 /\ \A i \in 1 .. Len(c) : c[i] = b[i + 1]
  BY HeadTailProperties
<1>2. h \in Seq(S) /\ Len(h) = 1 /\ h[1] = Head(b)
  BY <1>1
<1>3. Len(b) \in Nat \ {0}
  BY EmptySeq
<1> HIDE DEF h, c
<1>4. h \o c \in Seq(S) /\ Len(h \o c) = Len(h) + Len(c)
      /\ \A i \in 1 .. Len(h) + Len(c) :
            (h \o c)[i] = IF i <= Len(h) THEN h[i] ELSE c[i - Len(h)]
  <2>1. h \in Seq(S) /\ c \in Seq(S)
    BY <1>1, <1>2
  <2> QED
    BY <2>1, ConcatProperties, Zenon
<1>5. Len(h \o c) = Len(b) /\ \A i \in 1 .. Len(h \o c) : (h \o c)[i] = b[i]
  BY <1>1, <1>2, <1>3, <1>4
<1>6. h \o c = b
  BY <1>4, <1>5, SeqEqual
<1> QED
  BY <1>6 DEF h, c

-----------------------------------------------------------------------------
(* Messages that are lost from the end, added at the end, read at the front *)

\* What the front of a sequence of messages inherits from it.
LEMMA CutKeeps ==
    ASSUME NEW f \in Seq(Messages), NEW g \in Seq(Messages), Cut(g, f),
           NEW got \in [Requests -> Nat], NEW all \in [Requests -> Nat]
    PROVE  /\ GapFree(f, got) => GapFree(g, got)
           /\ EndsAfterAll(f, got, all) => EndsAfterAll(g, got, all)
           /\ \A r : /\ \A n : UpTo(f, r, n) => UpTo(g, r, n)
                     /\ HasEnd(g, r) => HasEnd(f, r)
                     /\ NoneFrom(f, r) => NoneFrom(g, r)
           /\ \A k : AnswersTo(f, k) => AnswersTo(g, k)
           /\ HasAck(g) => HasAck(f)
           /\ \A acked \in BOOLEAN : AckFirst(f, acked) => AckFirst(g, acked)
           /\ OnlyResponses(f) => OnlyResponses(g)
<1> Len(f) \in Nat /\ Len(g) \in Nat
  BY LenProperties
<1>1. \A i \in 1 .. Len(g) :
         /\ i \in 1 .. Len(f) /\ g[i] = f[i]
         /\ \A j \in 1 .. i - 1 : j \in 1 .. Len(g) /\ g[j] = f[j]
  BY DEF Cut
<1>2. GapFree(f, got) => GapFree(g, got)
  <2> SUFFICES ASSUME GapFree(f, got), NEW i \in 1 .. Len(g), g[i].kind = "data"
               PROVE  /\ got[g[i].id] < g[i].n
                      /\ g[i].n = got[g[i].id] + 1
                           \/ \E j \in 1 .. i - 1 : IsData(g[j], g[i].id, g[i].n - 1)
                      /\ \A j \in 1 .. i - 1 :
                            g[j].kind = "data" /\ g[j].id = g[i].id => g[j].n < g[i].n
    BY DEF GapFree
  <2>1. /\ got[f[i].id] < f[i].n
        /\ f[i].n = got[f[i].id] + 1
             \/ \E j \in 1 .. i - 1 : IsData(f[j], f[i].id, f[i].n - 1)
        /\ \A j \in 1 .. i - 1 :
              f[j].kind = "data" /\ f[j].id = f[i].id => f[j].n < f[i].n
    BY <1>1 DEF GapFree
  <2> QED
    BY <1>1, <2>1
<1>3. EndsAfterAll(f, got, all) => EndsAfterAll(g, got, all)
  <2> SUFFICES ASSUME EndsAfterAll(f, got, all), NEW i \in 1 .. Len(g),
                      g[i].kind = "ended"
               PROVE  \/ got[g[i].id] = all[g[i].id]
                      \/ \E j \in 1 .. i - 1 : IsData(g[j], g[i].id, all[g[i].id])
    BY DEF EndsAfterAll
  <2>1. \/ got[f[i].id] = all[f[i].id]
        \/ \E j \in 1 .. i - 1 : IsData(f[j], f[i].id, all[f[i].id])
    BY <1>1 DEF EndsAfterAll
  <2> QED
    BY <1>1, <2>1
<1>4. \A r : /\ \A n : UpTo(f, r, n) => UpTo(g, r, n)
             /\ HasEnd(g, r) => HasEnd(f, r)
             /\ NoneFrom(f, r) => NoneFrom(g, r)
  BY <1>1 DEF UpTo, HasEnd, NoneFrom
<1>5. \A k : AnswersTo(f, k) => AnswersTo(g, k)
  BY <1>1 DEF AnswersTo
<1>6. HasAck(g) => HasAck(f)
  BY <1>1 DEF HasAck
<1>7. \A acked \in BOOLEAN : AckFirst(f, acked) => AckFirst(g, acked)
  <2> SUFFICES ASSUME NEW acked \in BOOLEAN, AckFirst(f, acked), NEW i \in 1 .. Len(g)
               PROVE  /\ g[i].kind \in {"data", "ended"} =>
                            acked \/ \E j \in 1 .. i - 1 : g[j].kind = "started"
                      /\ g[i].kind = "started" =>
                            ~acked /\ \A j \in 1 .. i - 1 : g[j].kind # "started"
    BY DEF AckFirst
  <2>1. /\ f[i].kind \in {"data", "ended"} =>
              acked \/ \E j \in 1 .. i - 1 : f[j].kind = "started"
        /\ f[i].kind = "started" =>
              ~acked /\ \A j \in 1 .. i - 1 : f[j].kind # "started"
    BY <1>1 DEF AckFirst
  <2> QED
    BY <1>1, <2>1
<1>8. OnlyResponses(f) => OnlyResponses(g)
  BY <1>1 DEF OnlyResponses
<1> QED
  BY <1>2, <1>3, <1>4, <1>5, <1>6, <1>7, <1>8

\* What a sequence of messages has with one more, of any kind.
LEMMA AppendHas ==
    ASSUME NEW f \in Seq(Messages), NEW m \in Messages,
           NEW got \in [Requests -> Nat]
    PROVE  /\ \A r : /\ HasEnd(Append(f, m), r) =>
                           HasEnd(f, r) \/ (m.kind = "ended" /\ m.id = r)
                     /\ \A n : Reaches(f, got, r, n) \/ IsData(m, r, n) =>
                                  Reaches(Append(f, m), got, r, n)
                     /\ \A n : UpTo(f, r, n) /\ (m.kind = "data" /\ m.id = r => m.n <= n)
                                  => UpTo(Append(f, m), r, n)
                     /\ NoneFrom(f, r)
                          /\ (m.kind \in {"data", "ended"} => m.id # r)
                                  => NoneFrom(Append(f, m), r)
           /\ \A k : AnswersTo(f, k) /\ (m.kind # "close" => m.id \in 1 .. k)
                        => AnswersTo(Append(f, m), k)
           /\ HasAck(Append(f, m)) <=> HasAck(f) \/ m.kind = "started"
           /\ OnlyResponses(f) /\ m.kind \in {"response", "close"}
                => OnlyResponses(Append(f, m))
<1> DEFINE g == Append(f, m)
<1> Len(f) \in Nat
  BY LenProperties
<1>1. /\ Len(g) = Len(f) + 1 /\ g[Len(g)] = m
      /\ \A i \in 1 .. Len(f) : i \in 1 .. Len(g) /\ g[i] = f[i]
      /\ \A i \in 1 .. Len(g) : i \in 1 .. Len(f) \/ i = Len(g)
  BY AppendProperties
<1> HIDE DEF g
<1>2. \A r : HasEnd(g, r) => HasEnd(f, r) \/ (m.kind = "ended" /\ m.id = r)
  BY <1>1 DEF HasEnd
<1>3. \A r, n : Reaches(f, got, r, n) \/ IsData(m, r, n) => Reaches(g, got, r, n)
  BY <1>1 DEF Reaches
<1>4. \A r, n : UpTo(f, r, n) /\ (m.kind = "data" /\ m.id = r => m.n <= n)
                   => UpTo(g, r, n)
  BY <1>1 DEF UpTo
<1>5. \A r : NoneFrom(f, r) /\ (m.kind \in {"data", "ended"} => m.id # r)
                => NoneFrom(g, r)
  BY <1>1 DEF NoneFrom
<1>6. \A k : AnswersTo(f, k) /\ (m.kind # "close" => m.id \in 1 .. k) => AnswersTo(g, k)
  BY <1>1 DEF AnswersTo
<1>7. HasAck(g) <=> HasAck(f) \/ m.kind = "started"
  BY <1>1 DEF HasAck
<1>8. OnlyResponses(f) /\ m.kind \in {"response", "close"} => OnlyResponses(g)
  BY <1>1 DEF OnlyResponses
<1> QED
  BY <1>2, <1>3, <1>4, <1>5, <1>6, <1>7, <1>8 DEF g

\* A message added at the end keeps the order if what it needs before it is there.
LEMMA AppendKeeps ==
    ASSUME NEW f \in Seq(Messages), NEW m \in Messages,
           NEW got \in [Requests -> Nat], NEW all \in [Requests -> Nat],
           m.kind \in {"data", "ended"} => m.id \in Requests
    PROVE  /\ /\ GapFree(f, got)
              /\ m.kind = "data" =>
                    Reaches(f, got, m.id, m.n - 1) /\ UpTo(f, m.id, m.n - 1)
              => GapFree(Append(f, m), got)
           /\ /\ EndsAfterAll(f, got, all)
              /\ m.kind = "ended" => Reaches(f, got, m.id, all[m.id])
              => EndsAfterAll(Append(f, m), got, all)
           /\ \A acked \in BOOLEAN :
                 /\ AckFirst(f, acked)
                 /\ m.kind \in {"data", "ended"} => acked \/ HasAck(f)
                 /\ m.kind = "started" => ~acked /\ ~HasAck(f)
                 => AckFirst(Append(f, m), acked)
<1> DEFINE g == Append(f, m)
<1> Len(f) \in Nat
  BY LenProperties
<1>1. /\ Len(g) = Len(f) + 1 /\ g[Len(f) + 1] = m
      /\ \A i \in 1 .. Len(f) :
            /\ g[i] = f[i] /\ f[i] \in Messages
            /\ \A j \in 1 .. i - 1 : j \in 1 .. Len(f) /\ g[j] = f[j]
      /\ \A i \in 1 .. Len(g) : i \in 1 .. Len(f) \/ i = Len(f) + 1
  BY AppendProperties, ElementOfSeq
<1> HIDE DEF g
<1>2. ASSUME GapFree(f, got),
             m.kind = "data" => Reaches(f, got, m.id, m.n - 1) /\ UpTo(f, m.id, m.n - 1)
      PROVE  GapFree(g, got)
  <2> SUFFICES ASSUME NEW i \in 1 .. Len(g), g[i].kind = "data"
               PROVE  /\ got[g[i].id] < g[i].n
                      /\ g[i].n = got[g[i].id] + 1
                           \/ \E j \in 1 .. i - 1 : IsData(g[j], g[i].id, g[i].n - 1)
                      /\ \A j \in 1 .. i - 1 :
                            g[j].kind = "data" /\ g[j].id = g[i].id => g[j].n < g[i].n
    BY DEF GapFree
  <2>1. CASE i \in 1 .. Len(f)
    <3>1. /\ g[i] = f[i]
          /\ \A j \in 1 .. i - 1 : g[j] = f[j]
      BY <2>1, <1>1
    <3>2. /\ got[f[i].id] < f[i].n
          /\ f[i].n = got[f[i].id] + 1
               \/ \E j \in 1 .. i - 1 : IsData(f[j], f[i].id, f[i].n - 1)
          /\ \A j \in 1 .. i - 1 :
                f[j].kind = "data" /\ f[j].id = f[i].id => f[j].n < f[i].n
      BY <2>1, <3>1, <1>2 DEF GapFree
    <3> QED
      BY <3>1, <3>2
  <2>2. CASE i = Len(f) + 1
    <3>1. g[i] = m /\ m.kind = "data" /\ m.id \in Requests /\ m.n \in Nat
          /\ got[m.id] \in Nat
      BY <2>2, <1>1 DEF Messages
    <3>2. 1 .. i - 1 = 1 .. Len(f)
      BY <2>2
    <3>3. \A j \in 1 .. Len(f) :
             f[j].kind = "data" /\ f[j].id = m.id => f[j].n < m.n
      <4> SUFFICES ASSUME NEW j \in 1 .. Len(f), f[j].kind = "data", f[j].id = m.id
                   PROVE  f[j].n < m.n
        OBVIOUS
      <4>1. f[j].n \in Nat /\ f[j].n <= m.n - 1
        BY <3>1, <1>1, <1>2 DEF UpTo, Messages
      <4> QED
        BY <4>1, <3>1
    <3>4. CASE got[m.id] = m.n - 1
      <4>1. got[m.id] < m.n /\ m.n = got[m.id] + 1
        BY <3>1, <3>4
      <4> QED
        BY <4>1, <3>1, <3>2, <3>3, <1>1
    <3>5. ASSUME NEW j \in 1 .. Len(f), IsData(f[j], m.id, m.n - 1)
          PROVE  got[m.id] < m.n /\ IsData(g[j], m.id, m.n - 1)
      <4>1. got[m.id] < m.n - 1
        BY <3>5, <3>1, <1>2 DEF GapFree, IsData
      <4> QED
        BY <4>1, <3>1, <3>5, <1>1
    <3> QED
      BY <3>1, <3>2, <3>3, <3>4, <3>5, <1>1, <1>2 DEF Reaches
  <2> QED
    BY <2>1, <2>2, <1>1
<1>3. ASSUME EndsAfterAll(f, got, all), m.kind = "ended" => Reaches(f, got, m.id, all[m.id])
      PROVE  EndsAfterAll(g, got, all)
  <2> SUFFICES ASSUME NEW i \in 1 .. Len(g), g[i].kind = "ended"
               PROVE  \/ got[g[i].id] = all[g[i].id]
                      \/ \E j \in 1 .. i - 1 : IsData(g[j], g[i].id, all[g[i].id])
    BY DEF EndsAfterAll
  <2>1. CASE i \in 1 .. Len(f)
    BY <2>1, <1>1, <1>3 DEF EndsAfterAll, IsData
  <2>2. CASE i = Len(f) + 1
    <3>1. g[i] = m /\ 1 .. i - 1 = 1 .. Len(f) /\ \A j \in 1 .. Len(f) : g[j] = f[j]
      BY <2>2, <1>1
    <3>2. got[m.id] = all[m.id] \/ \E j \in 1 .. Len(f) : IsData(f[j], m.id, all[m.id])
      BY <3>1, <1>3 DEF Reaches
    <3> QED
      BY <3>1, <3>2
  <2> QED
    BY <2>1, <2>2, <1>1
<1>4. ASSUME NEW acked \in BOOLEAN, AckFirst(f, acked),
             m.kind \in {"data", "ended"} => acked \/ HasAck(f),
             m.kind = "started" => ~acked /\ ~HasAck(f)
      PROVE  AckFirst(g, acked)
  <2> SUFFICES ASSUME NEW i \in 1 .. Len(g)
               PROVE  /\ g[i].kind \in {"data", "ended"} =>
                            acked \/ \E j \in 1 .. i - 1 : g[j].kind = "started"
                      /\ g[i].kind = "started" =>
                            ~acked /\ \A j \in 1 .. i - 1 : g[j].kind # "started"
    BY DEF AckFirst
  <2>1. CASE i \in 1 .. Len(f)
    <3>1. /\ f[i].kind \in {"data", "ended"} =>
                acked \/ \E j \in 1 .. i - 1 : f[j].kind = "started"
          /\ f[i].kind = "started" =>
                ~acked /\ \A j \in 1 .. i - 1 : f[j].kind # "started"
      BY <2>1, <1>4 DEF AckFirst
    <3> QED
      BY <2>1, <3>1, <1>1
  <2>2. CASE i = Len(f) + 1
    <3>1. 1 .. i - 1 = 1 .. Len(f)
      BY <2>2
    <3> QED
      BY <2>2, <3>1, <1>1, <1>4 DEF HasAck
  <2> QED
    BY <2>1, <2>2, <1>1
<1> QED
  BY <1>2, <1>3, <1>4 DEF g

\* f is message h and then g.
Rest(f, h, g) ==
    /\ Len(g) = Len(f) - 1 /\ h = f[1]
    /\ \A i \in 1 .. Len(g) : g[i] = f[i + 1]

\* now is what was read of each follow after h is read, got before (client.go:208-215).
Counts(got, h, now) ==
    now = IF h.kind = "data" THEN [got EXCEPT ![h.id] = @ + 1] ELSE got

\* Head and Tail take a sequence apart.
LEMMA TailIsRest ==
    ASSUME NEW f \in Seq(Messages), f # <<>>
    PROVE  Rest(f, Head(f), Tail(f)) /\ Head(f) \in Messages /\ Tail(f) \in Seq(Messages)
BY HeadTailProperties, ElementOfSeq, EmptySeq DEF Rest

\* What a sequence holds from which the first message is taken.
LEMMA TailHas ==
    ASSUME NEW f \in Seq(Messages), f # <<>>,
           NEW h \in Messages, NEW g \in Seq(Messages), Rest(f, h, g)
    PROVE  /\ \A r : /\ \A n : UpTo(f, r, n) => UpTo(g, r, n)
                     /\ HasEnd(g, r) => HasEnd(f, r)
                     /\ NoneFrom(f, r) => NoneFrom(g, r)
           /\ \A k : AnswersTo(f, k) => AnswersTo(g, k)
           /\ HasAck(f) <=> HasAck(g) \/ h.kind = "started"
           /\ \A acked \in BOOLEAN :
                 AckFirst(f, acked) => AckFirst(g, acked \/ h.kind = "started")
           /\ OnlyResponses(f) => OnlyResponses(g)
<1> Len(f) \in Nat \ {0}
  BY EmptySeq
<1>1. /\ g \in Seq(Messages) /\ Len(g) = Len(f) - 1 /\ h = f[1]
      /\ \A i \in 1 .. Len(g) : i + 1 \in 1 .. Len(f) /\ g[i] = f[i + 1]
      /\ \A i \in 1 .. Len(f) : i = 1 \/ (i - 1 \in 1 .. Len(g) /\ f[i] = g[i - 1])
      /\ h \in Messages
  BY LenProperties DEF Rest
<1>2. \A i \in 1 .. Len(g) : \A j \in 1 .. i :
         j = 1 \/ (j - 1 \in 1 .. i - 1 /\ f[j] = g[j - 1])
  BY <1>1
<1>3. \A r : /\ \A n : UpTo(f, r, n) => UpTo(g, r, n)
             /\ HasEnd(g, r) => HasEnd(f, r)
             /\ NoneFrom(f, r) => NoneFrom(g, r)
  BY <1>1 DEF UpTo, HasEnd, NoneFrom
<1>4. \A k : AnswersTo(f, k) => AnswersTo(g, k)
  BY <1>1 DEF AnswersTo
<1>5. HasAck(f) <=> HasAck(g) \/ h.kind = "started"
  <2>1. 1 \in 1 .. Len(f)
    OBVIOUS
  <2> QED
    BY <1>1, <2>1 DEF HasAck
<1>6. \A acked \in BOOLEAN : AckFirst(f, acked) => AckFirst(g, acked \/ h.kind = "started")
  <2> SUFFICES ASSUME NEW acked \in BOOLEAN, AckFirst(f, acked), NEW i \in 1 .. Len(g)
               PROVE  /\ g[i].kind \in {"data", "ended"} =>
                            \/ acked \/ h.kind = "started"
                            \/ \E j \in 1 .. i - 1 : g[j].kind = "started"
                      /\ g[i].kind = "started" =>
                            /\ ~(acked \/ h.kind = "started")
                            /\ \A j \in 1 .. i - 1 : g[j].kind # "started"
    BY DEF AckFirst
  <2>1. /\ g[i].kind \in {"data", "ended"} =>
              acked \/ \E j \in 1 .. i : f[j].kind = "started"
        /\ g[i].kind = "started" =>
              ~acked /\ \A j \in 1 .. i : f[j].kind # "started"
    <3>1. (i + 1) - 1 = i /\ g[i] = f[i + 1] /\ i + 1 \in 1 .. Len(f)
      BY <1>1
    <3> QED
      BY <3>1 DEF AckFirst
  <2>2. \A j \in 1 .. i - 1 : j + 1 \in 1 .. i /\ g[j] = f[j + 1]
    BY <1>1
  <2>3. 1 \in 1 .. i
    OBVIOUS
  <2>4. ASSUME g[i].kind \in {"data", "ended"}, ~acked, h.kind # "started"
        PROVE  \E j \in 1 .. i - 1 : g[j].kind = "started"
    <3>1. PICK j \in 1 .. i : f[j].kind = "started"
      BY <2>1, <2>4
    <3>2. j # 1
      BY <3>1, <2>4, <1>1
    <3> QED
      BY <3>1, <3>2, <1>2
  <2>5. ASSUME g[i].kind = "started"
        PROVE  ~acked /\ h.kind # "started" /\ \A j \in 1 .. i - 1 : g[j].kind # "started"
    BY <2>1, <2>2, <2>3, <2>5, <1>1
  <2> QED
    BY <2>4, <2>5
<1>7. OnlyResponses(f) => OnlyResponses(g)
  BY <1>1 DEF OnlyResponses
<1> QED
  BY <1>3, <1>4, <1>5, <1>6, <1>7

\* What is left when the message at the front is read, and counted.
LEMMA TailKeeps ==
    ASSUME NEW f \in Seq(Messages), f # <<>>,
           NEW h \in Messages, NEW g \in Seq(Messages), Rest(f, h, g),
           NEW got \in [Requests -> Nat], NEW all \in [Requests -> Nat],
           NEW now \in [Requests -> Nat], Counts(got, h, now),
           h.kind = "data" => h.id \in Requests,
           GapFree(f, got), \A r \in Requests : UpTo(f, r, all[r])
    PROVE  /\ GapFree(g, now)
           /\ EndsAfterAll(f, got, all) => EndsAfterAll(g, now, all)
<1> now = IF h.kind = "data" THEN [got EXCEPT ![h.id] = @ + 1] ELSE got
  BY DEF Counts
<1> Len(f) \in Nat \ {0}
  BY EmptySeq
<1>1. /\ g \in Seq(Messages) /\ Len(g) = Len(f) - 1 /\ h = f[1]
      /\ \A i \in 1 .. Len(g) : i + 1 \in 1 .. Len(f) /\ g[i] = f[i + 1]
      /\ \A i \in 1 .. Len(f) : i = 1 \/ (i - 1 \in 1 .. Len(g) /\ f[i] = g[i - 1])
      /\ h \in Messages
  BY LenProperties DEF Rest
<1>2. \A i \in 1 .. Len(f) : f[i] \in Messages
  BY ElementOfSeq
<1>3. h.kind = "data" => h.id \in Requests /\ h.n = got[h.id] + 1
  <2>1. 1 \in 1 .. Len(f) /\ 1 .. 1 - 1 = {}
    OBVIOUS
  <2> QED
    BY <1>1, <2>1 DEF GapFree
<1>4. \A i \in 1 .. Len(g) : \A j \in 1 .. i :
         j = 1 \/ (j - 1 \in 1 .. i - 1 /\ f[j] = g[j - 1])
  BY <1>1
<1>5. GapFree(g, now)
  <2> SUFFICES ASSUME NEW i \in 1 .. Len(g), g[i].kind = "data"
               PROVE  /\ now[g[i].id] < g[i].n
                      /\ g[i].n = now[g[i].id] + 1
                           \/ \E j \in 1 .. i - 1 : IsData(g[j], g[i].id, g[i].n - 1)
                      /\ \A j \in 1 .. i - 1 :
                            g[j].kind = "data" /\ g[j].id = g[i].id => g[j].n < g[i].n
    BY DEF GapFree
  <2> DEFINE r == g[i].id
  <2>1. g[i] = f[i + 1] /\ i + 1 \in 1 .. Len(f) /\ g[i].n \in Nat
    BY <1>1, <1>2 DEF Messages
  <2>2. /\ got[r] < g[i].n
        /\ g[i].n = got[r] + 1 \/ \E j \in 1 .. i : IsData(f[j], r, g[i].n - 1)
        /\ \A j \in 1 .. i : f[j].kind = "data" /\ f[j].id = r => f[j].n < g[i].n
    <3>1. (i + 1) - 1 = i
      OBVIOUS
    <3> QED
      BY <2>1, <3>1 DEF GapFree
  <2>3. \A j \in 1 .. i - 1 : g[j].kind = "data" /\ g[j].id = r => g[j].n < g[i].n
    <3> SUFFICES ASSUME NEW j \in 1 .. i - 1, g[j].kind = "data", g[j].id = r
                 PROVE  g[j].n < g[i].n
      OBVIOUS
    <3>1. j + 1 \in 1 .. i /\ j \in 1 .. Len(g) /\ g[j] = f[j + 1]
      <4>1. i \in Nat /\ Len(g) \in Nat /\ j \in 1 .. Len(g) /\ j + 1 \in 1 .. i
        BY LenProperties
      <4> QED
        BY <4>1, <1>1
    <3> QED
      BY <3>1, <2>2
  <2>4. CASE h.kind = "data" /\ h.id = r
    <3>1. now[r] = got[r] + 1 /\ h.n = got[r] + 1 /\ got[r] \in Nat
      BY <2>4, <1>3
    <3>2. h.n < g[i].n
      BY <2>2, <2>4, <1>1
    <3>3. now[r] < g[i].n
      BY <3>1, <3>2
    <3>4. g[i].n # got[r] + 1
      BY <3>1, <3>2, <2>1
    <3>5. PICK j \in 1 .. i : IsData(f[j], r, g[i].n - 1)
      BY <3>4, <2>2
    <3>6. CASE j = 1
      <4>1. h.n = g[i].n - 1
        BY <3>5, <3>6, <1>1 DEF IsData
      <4>2. g[i].n = now[r] + 1
        BY <4>1, <3>1, <2>1
      <4> QED
        BY <4>2, <3>3, <2>3
    <3>7. CASE j # 1
      BY <3>3, <3>5, <3>7, <1>4, <2>3
    <3> QED
      BY <3>6, <3>7
  <2>5. CASE ~(h.kind = "data" /\ h.id = r)
    <3>1. now[r] = got[r]
      BY <2>5
    <3>2. CASE g[i].n = got[r] + 1
      BY <3>1, <3>2, <2>2, <2>3
    <3>3. ASSUME NEW j \in 1 .. i, IsData(f[j], r, g[i].n - 1)
          PROVE  \E k \in 1 .. i - 1 : IsData(g[k], r, g[i].n - 1)
      <4>1. j # 1
        BY <3>3, <2>5, <1>1 DEF IsData
      <4> QED
        BY <4>1, <3>3, <1>4
    <3> QED
      BY <3>1, <3>2, <3>3, <2>2, <2>3
  <2> QED
    BY <2>4, <2>5
<1>6. EndsAfterAll(f, got, all) => EndsAfterAll(g, now, all)
  <2> SUFFICES ASSUME EndsAfterAll(f, got, all), NEW i \in 1 .. Len(g),
                      g[i].kind = "ended"
               PROVE  \/ now[g[i].id] = all[g[i].id]
                      \/ \E j \in 1 .. i - 1 : IsData(g[j], g[i].id, all[g[i].id])
    BY DEF EndsAfterAll
  <2> DEFINE r == g[i].id
  <2>1. got[r] = all[r] \/ \E j \in 1 .. i : IsData(f[j], r, all[r])
    <3>1. (i + 1) - 1 = i /\ g[i] = f[i + 1] /\ i + 1 \in 1 .. Len(f)
      BY <1>1
    <3> QED
      BY <3>1 DEF EndsAfterAll
  <2>2. CASE h.kind = "data" /\ h.id = r
    <3>1. /\ now[r] = got[r] + 1 /\ h.n = got[r] + 1
          /\ got[r] \in Nat /\ all[r] \in Nat
      BY <2>2, <1>3
    <3>2. h.n <= all[r]
      <4>1. UpTo(f, r, all[r]) /\ 1 \in 1 .. Len(f)
        BY <2>2, <1>3
      <4> QED
        BY <4>1, <2>2, <1>1 DEF UpTo
    <3>3. PICK j \in 1 .. i : IsData(f[j], r, all[r])
      BY <3>1, <3>2, <2>1
    <3>4. CASE j = 1
      BY <3>1, <3>3, <3>4, <1>1 DEF IsData
    <3>5. CASE j # 1
      BY <3>3, <3>5, <1>4
    <3> QED
      BY <3>4, <3>5
  <2>3. CASE ~(h.kind = "data" /\ h.id = r)
    <3>1. now[r] = got[r]
      BY <2>3
    <3>2. ASSUME NEW j \in 1 .. i, IsData(f[j], r, all[r])
          PROVE  \E k \in 1 .. i - 1 : IsData(g[k], r, all[r])
      <4>1. j # 1
        BY <3>2, <2>3, <1>1 DEF IsData
      <4> QED
        BY <4>1, <3>2, <1>4
    <3> QED
      BY <3>1, <3>2, <2>1
  <2> QED
    BY <2>2, <2>3
<1> QED
  BY <1>5, <1>6

\* A chunk that was under way is so still, or is the last that was read.
LEMMA TailReaches ==
    ASSUME NEW f \in Seq(Messages), f # <<>>,
           NEW h \in Messages, NEW g \in Seq(Messages), Rest(f, h, g),
           NEW got \in [Requests -> Nat], NEW now \in [Requests -> Nat],
           Counts(got, h, now), h.kind = "data" => h.id \in Requests,
           GapFree(f, got)
    PROVE  /\ \A r, n : Reaches(f, got, r, n) /\ UpTo(f, r, n) => Reaches(g, now, r, n)
           /\ \A r : NoneFrom(f, r) => now[r] = got[r]
<1> now = IF h.kind = "data" THEN [got EXCEPT ![h.id] = @ + 1] ELSE got
  BY DEF Counts
<1> Len(f) \in Nat \ {0}
  BY EmptySeq
<1>1. /\ g \in Seq(Messages) /\ Len(g) = Len(f) - 1 /\ h = f[1]
      /\ \A i \in 1 .. Len(g) : i + 1 \in 1 .. Len(f) /\ g[i] = f[i + 1]
      /\ \A i \in 1 .. Len(f) : i = 1 \/ (i - 1 \in 1 .. Len(g) /\ f[i] = g[i - 1])
      /\ h \in Messages
  BY LenProperties DEF Rest
<1>2. \A i \in 1 .. Len(f) : f[i] \in Messages
  BY ElementOfSeq
<1>3. h.kind = "data" => h.id \in Requests /\ h.n = got[h.id] + 1
  <2>1. 1 \in 1 .. Len(f) /\ 1 .. 1 - 1 = {}
    OBVIOUS
  <2> QED
    BY <1>1, <2>1 DEF GapFree
<1>4. \A r, n : Reaches(f, got, r, n) /\ UpTo(f, r, n) => Reaches(g, now, r, n)
  <2> SUFFICES ASSUME NEW r, NEW n, Reaches(f, got, r, n), UpTo(f, r, n)
               PROVE  Reaches(g, now, r, n)
    OBVIOUS
  <2>1. CASE h.kind = "data" /\ h.id = r
    <3>1. now[r] = got[r] + 1 /\ h.n = got[r] + 1 /\ got[r] \in Nat
      BY <2>1, <1>3
    <3>2. got[r] # n
      BY <3>1, <2>1, <1>1 DEF UpTo
    <3>3. PICK i \in 1 .. Len(f) : IsData(f[i], r, n)
      BY <3>2 DEF Reaches
    <3>4. CASE i = 1
      BY <3>1, <3>3, <3>4, <1>1 DEF Reaches, IsData
    <3>5. CASE i # 1
      BY <3>3, <3>5, <1>1 DEF Reaches
    <3> QED
      BY <3>4, <3>5
  <2>2. CASE ~(h.kind = "data" /\ h.id = r)
    <3>1. now[r] = got[r]
      BY <2>2
    <3>2. CASE got[r] = n
      BY <3>1, <3>2 DEF Reaches
    <3>3. ASSUME NEW i \in 1 .. Len(f), IsData(f[i], r, n) PROVE Reaches(g, now, r, n)
      <4>1. i # 1
        BY <3>3, <2>2, <1>1 DEF IsData
      <4> QED
        BY <4>1, <3>3, <1>1 DEF Reaches
    <3> QED
      BY <3>2, <3>3 DEF Reaches
  <2> QED
    BY <2>1, <2>2
<1>5. \A r : NoneFrom(f, r) => now[r] = got[r]
  <2>1. 1 \in 1 .. Len(f)
    OBVIOUS
  <2> QED
    BY <1>1, <1>3, <2>1 DEF NoneFrom
<1> QED
  BY <1>4, <1>5

-----------------------------------------------------------------------------
(* What is under way                                                       *)

\* What is under way is a sequence of messages, what is in transit its front.
LEMMA UnderWayType ==
    ASSUME WSTypeOK
    PROVE  /\ BeingWritten \in Seq(Messages) /\ BeingWritten \o queue \in Seq(Messages)
           /\ UnderWay \in Seq(Messages)
           /\ Cut(wire, UnderWay)
           /\ writer # "write" => BeingWritten \o queue = queue
<1>1. BeingWritten \in Seq(Messages)
  BY EmptySeq DEF WSTypeOK, BeingWritten
<1>2. wire \in Seq(Messages) /\ queue \in Seq(Messages)
  BY DEF WSTypeOK
<1>3. BeingWritten \o queue \in Seq(Messages)
  BY <1>1, <1>2, ConcatProperties, Zenon
<1>4. wire \o (BeingWritten \o queue) \in Seq(Messages)
      /\ Cut(wire, wire \o (BeingWritten \o queue))
  BY <1>2, <1>3, ConcatProperties, ConcatCut, Zenon
<1>5. Cut(wire, wire)
  BY <1>2, LenProperties DEF Cut
<1>6. writer # "write" => BeingWritten \o queue = queue
  BY <1>2, ConcatEmptySeq DEF BeingWritten
<1> QED
  BY <1>1, <1>2, <1>3, <1>4, <1>5, <1>6 DEF UnderWay

\* A sequence is its own front.
LEMMA CutSame == ASSUME NEW f \in Seq(Messages) PROVE Cut(f, f)
BY LenProperties DEF Cut

\* A message that the writer pops stays under way (server.go:826-835).
LEMMA PopUnderWay ==
    ASSUME WSTypeOK, WSTypeOK', WriterTop
    PROVE  Cut(UnderWay', UnderWay) /\ (Live' => Live /\ UnderWay' = UnderWay)
<1> USE DEF WriterTop
<1>1. UnderWay \in Seq(Messages) /\ Cut(wire, UnderWay) /\ Cut(UnderWay, UnderWay)
      /\ BeingWritten \o queue = queue
  BY UnderWayType, CutSame
<1>2. CASE ~Live'
  BY <1>1, <1>2 DEF UnderWay
<1>3. CASE Live'
  <2>1. Live /\ wire' = wire /\ ~closeReq
    BY <1>3 DEF Live, Serving
  <2>2. CASE queue = <<>>
    <3>1. BeingWritten' = BeingWritten /\ queue' = queue
      BY <2>1, <2>2 DEF BeingWritten, queueVars
    <3> QED
      BY <1>1, <2>1, <3>1, <1>3 DEF UnderWay
  <2>3. CASE queue # <<>>
    <3>1. BeingWritten' = <<Head(queue)>> /\ queue' = Tail(queue)
      BY <2>1, <2>3 DEF BeingWritten
    <3>2. BeingWritten' \o queue' = queue
      BY <2>3, <3>1, HeadConcatTail DEF WSTypeOK
    <3>3. UnderWay' = UnderWay
      BY <1>1, <1>3, <2>1, <3>2 DEF UnderWay
    <3> QED
      BY <1>1, <2>1, <3>3
  <2> QED
    BY <2>2, <2>3
<1> QED
  BY <1>2, <1>3

\* A message that is written stays under way (server.go:1010-1022).
LEMMA WriteUnderWay ==
    ASSUME WSTypeOK, WSTypeOK', Write, writer = "write"
    PROVE  UnderWay' = UnderWay /\ (Live' => Live)
<1>1. Live' = Live /\ writer' = "top" /\ queue' = queue
  BY DEF Write, Live, Serving, queueVars
<1>2. CASE ~Live
  BY <1>1, <1>2 DEF Write, UnderWay, Live, Serving
<1>3. CASE Live
  <2>1. writing \in Messages /\ wire \in Seq(Messages) /\ queue \in Seq(Messages)
    BY DEF WSTypeOK
  <2>2. <<writing>> \in Seq(Messages)
    BY <2>1
  <2>3. Append(wire, writing) = wire \o <<writing>>
    BY <2>1, AppendIsConcat
  <2>4. (wire \o <<writing>>) \o queue = wire \o (<<writing>> \o queue)
    BY <2>1, <2>2, ConcatAssociative
  <2>5. wire' = Append(wire, writing) /\ BeingWritten = <<writing>>
    BY <1>3 DEF Write, Live, BeingWritten
  <2>6. BeingWritten' \o queue' = queue
    <3>1. BeingWritten' = <<>>
      BY <1>1 DEF BeingWritten
    <3> QED
      BY <1>1, <2>1, <3>1, ConcatEmptySeq
  <2> QED
    BY <1>1, <1>3, <2>3, <2>4, <2>5, <2>6 DEF UnderWay
<1> QED
  BY <1>1, <1>2, <1>3

\* Nothing but the close message is written once the writer does not pop any more
\* (server.go:838-843, 1016-1022).
LEMMA WriteCloseUnderWay ==
    ASSUME WSTypeOK, Write, writer = "close"
    PROVE  /\ ~Live' /\ ~Live
           /\ \/ UnderWay' = UnderWay
              \/ UnderWay' = Append(UnderWay, Message("close", None, 0))
<1>1. ~Live' /\ ~Live
  BY DEF Write, Live, Serving
<1> QED
  BY <1>1 DEF Write, UnderWay

\* A message that is pushed is under way after all others (server.go:714-721).
LEMMA PushUnderWay ==
    ASSUME WSTypeOK, NEW p \in Producers, TryPush(p), holding[p] \in Messages,
           queue' = Append(queue, holding[p]), Live
    PROVE  Live' /\ UnderWay' = Append(UnderWay, holding[p])
<1>1. Live' /\ wire' = wire /\ BeingWritten' = BeingWritten
  BY DEF TryPush, Live, writerVars, BeingWritten
<1>2. wire \in Seq(Messages) /\ queue \in Seq(Messages)
  BY DEF WSTypeOK
<1>3. BeingWritten \in Seq(Messages) /\ BeingWritten \o queue \in Seq(Messages)
  BY UnderWayType
<1>4. BeingWritten \o queue' = Append(BeingWritten \o queue, holding[p])
  BY <1>2, <1>3, AppendConcat
<1>5. wire \o Append(BeingWritten \o queue, holding[p]) =
        Append(wire \o (BeingWritten \o queue), holding[p])
  BY <1>2, <1>3, AppendConcat
<1> QED
  BY <1>1, <1>4, <1>5 DEF UnderWay

\* A message that is read was the first one under way (client.go:146, 208).
LEMMA ReadUnderWay ==
    ASSUME WSTypeOK, WSTypeOK', ClientReads
    PROVE  /\ UnderWay # <<>> /\ Head(UnderWay) = Head(wire) /\ Head(wire) \in Messages
           /\ Live' => Live
           /\ client' = "open" => Live' = Live /\ UnderWay' = Tail(UnderWay)
           /\ client' # "open" => ~Live' /\ UnderWay' = <<>>
<1>1. wire \in Seq(Messages) /\ queue \in Seq(Messages) /\ wire # <<>>
  BY DEF WSTypeOK, ClientReads
<1>2. BeingWritten \o queue \in Seq(Messages)
  BY UnderWayType
<1>3. /\ wire \o (BeingWritten \o queue) # <<>>
      /\ Head(wire \o (BeingWritten \o queue)) = Head(wire)
      /\ Tail(wire \o (BeingWritten \o queue)) = Tail(wire) \o (BeingWritten \o queue)
  BY <1>1, <1>2, TailConcat
<1>4. Head(wire) \in Messages
  BY <1>1, HeadTailProperties
<1>5. BeingWritten' = BeingWritten /\ queue' = queue
  BY DEF ClientReads, queueVars, writerVars, BeingWritten
<1>6. writer' = writer /\ (open' => open)
      /\ (client' = "open" => open' = open /\ wire' = Tail(wire))
      /\ (client' # "open" => ~open' /\ wire' = <<>>)
  BY DEF ClientReads, writerVars, Leave, Close, WSTypeOK
<1> QED
  BY <1>1, <1>3, <1>4, <1>5, <1>6 DEF UnderWay, Live

-----------------------------------------------------------------------------
(* Steps of the writer and of Shutdown                                     *)

\* What is left under way when the end is lost is still in order.
LEMMA FrontOfUnderWay ==
    ASSUME IInv, NEW g \in Seq(Messages), Cut(g, UnderWay)
    PROVE  /\ GapFree(g, received) /\ EndsAfterAll(g, received, produced)
           /\ \A r \in Requests :
                 /\ \A n : UpTo(UnderWay, r, n) => UpTo(g, r, n)
                 /\ HasEnd(g, r) => HasEnd(UnderWay, r)
                 /\ NoneFrom(UnderWay, r) => NoneFrom(g, r)
           /\ AnswersTo(g, sent)
           /\ call = "unary" => OnlyResponses(g)
           /\ call = "follow" => AckFirst(g, started)
           /\ HasAck(g) => HasAck(UnderWay)
<1> DEFINE f == UnderWay
<1>1. /\ f \in Seq(Messages) /\ received \in [Requests -> Nat]
      /\ produced \in [Requests -> Nat] /\ started \in BOOLEAN
  BY UnderWayType DEF IInv, WSTypeOK, FlagsOK
<1>2. /\ GapFree(f, received) /\ EndsAfterAll(f, received, produced)
      /\ AnswersTo(f, sent)
      /\ call = "unary" => OnlyResponses(f)
      /\ call = "follow" => AckFirst(f, started)
  BY DEF IInv, ChunksOK, AnswersOK, UnaryOK, FollowOK
<1> HIDE DEF f
<1>3. Cut(g, f)
  BY DEF f
<1>4. /\ GapFree(g, received) /\ EndsAfterAll(g, received, produced)
      /\ \A r \in Requests :
            /\ \A n : UpTo(f, r, n) => UpTo(g, r, n)
            /\ HasEnd(g, r) => HasEnd(f, r)
            /\ NoneFrom(f, r) => NoneFrom(g, r)
      /\ AnswersTo(g, sent)
      /\ call = "unary" => OnlyResponses(g)
      /\ call = "follow" => AckFirst(g, started)
      /\ HasAck(g) => HasAck(f)
  <2>1. GapFree(g, received) /\ EndsAfterAll(g, received, produced)
    BY <1>1, <1>2, <1>3, CutKeeps
  <2>2. \A r \in Requests :
            /\ \A n : UpTo(f, r, n) => UpTo(g, r, n)
            /\ HasEnd(g, r) => HasEnd(f, r)
            /\ NoneFrom(f, r) => NoneFrom(g, r)
    BY <1>1, <1>3, CutKeeps
  <2>3. /\ AnswersTo(g, sent)
        /\ call = "unary" => OnlyResponses(g)
        /\ call = "follow" => AckFirst(g, started)
        /\ HasAck(g) => HasAck(f)
    BY <1>1, <1>2, <1>3, CutKeeps
  <2> QED
    BY <2>1, <2>2, <2>3
<1> QED
  BY <1>4 DEF f

\* Telling the connection to close is done once, and loses the rest of the queue
\* only if the writer is waiting (server.go:979-1000).
LEMMA SignalCloseEffect ==
    ASSUME FlagsOK, OwedOK, writer \in Serving \cup {"close", "ended", "gone", "failed"},
           SignalClose
    PROVE  /\ done'
           /\ notify' \in BOOLEAN /\ closeReq' \in BOOLEAN /\ owed' \in BOOLEAN
           /\ writer' \in Serving \cup {"close", "ended", "gone", "failed"}
           /\ OwedOK'
           /\ writer' = writer \/ (writer = "parked" /\ writer' = "close")
<1>1. CASE done
  BY <1>1 DEF SignalClose, FlagsOK, OwedOK, closeVars
<1>2. CASE ~done
  <2>1. owed' <=> writer \in {"top", "write", "parked"}
    BY <1>2 DEF SignalClose
  <2>2. owed' \in BOOLEAN
    BY <1>2 DEF SignalClose
  <2>3. CASE writer = "parked"
    <3>1. writer' = "close" /\ closeReq' = closeReq /\ done' /\ notify' = TRUE
      BY <1>2, <2>3 DEF SignalClose
    <3> QED
      BY <3>1, <2>2, <2>3 DEF FlagsOK, OwedOK
  <2>4. CASE writer # "parked"
    <3>1. writer' = writer /\ closeReq' = TRUE /\ done' /\ notify' = TRUE
      BY <1>2, <2>4 DEF SignalClose
    <3> QED
      BY <3>1, <2>1, <2>2, <2>4 DEF OwedOK
  <2> QED
    BY <2>3, <2>4
<1> QED
  BY <1>1, <1>2

\* The parts of the invariant that steps may disturb which do not write owed.
Flowing == EnqueueOK /\ NotBegunOK /\ ChunksOK /\ AnswersOK /\ UnaryOK /\ FollowOK
             /\ ClientNeverConfused

\* A step that sends and reads nothing, though it may lose the end of what is
\* under way (server.go:813-843, 979-1010).
LEMMA QuietKeeps ==
    ASSUME IInv, WSTypeOK',
           UNCHANGED <<call, client, started, sent, received, holding, produced>>,
           \A r \in Requests : pc'[r] = pc[r],
           \/ pc'[Reader] = pc[Reader]
           \/ pc[Reader] \notin Enqueueing /\ pc'[Reader] \in {"wait", "returned"},
           done => done', Cut(UnderWay', UnderWay),
           Live' => Live /\ UnderWay' = UnderWay
    PROVE  Flowing'
<1> DEFINE g == UnderWay'
<1>1. g \in Seq(Messages)
  <2>1. wire' \in Seq(Messages) /\ queue' \in Seq(Messages)
    BY DEF WSTypeOK
  <2>2. BeingWritten' \in Seq(Messages)
    BY EmptySeq DEF WSTypeOK, BeingWritten
  <2>3. BeingWritten' \o queue' \in Seq(Messages)
    BY <2>1, <2>2, ConcatProperties, Zenon
  <2>4. wire' \o (BeingWritten' \o queue') \in Seq(Messages)
    BY <2>1, <2>3, ConcatProperties, Zenon
  <2> QED
    BY <2>1, <2>4 DEF UnderWay
<1>2. /\ GapFree(g, received) /\ EndsAfterAll(g, received, produced)
      /\ \A r \in Requests :
            /\ \A n : UpTo(UnderWay, r, n) => UpTo(g, r, n)
            /\ HasEnd(g, r) => HasEnd(UnderWay, r)
            /\ NoneFrom(UnderWay, r) => NoneFrom(g, r)
      /\ AnswersTo(g, sent)
      /\ call = "unary" => OnlyResponses(g)
      /\ call = "follow" => AckFirst(g, started)
      /\ HasAck(g) => HasAck(UnderWay)
  BY <1>1, FrontOfUnderWay
<1>3. pc'[Reader] \in Enqueueing => pc'[Reader] = pc[Reader]
  BY DEF Enqueueing
<1> HIDE DEF g
<1>4. UnderWay' = g /\ (Live' => Live /\ g = UnderWay)
  BY DEF g
<1>5. EnqueueOK'
  BY <1>3 DEF IInv, EnqueueOK
<1>6. NotBegunOK'
  BY <1>2, <1>3, <1>4 DEF IInv, NotBegunOK, NotBegun
<1>7. ChunksOK'
  <2>1. GapFree(g, received') /\ EndsAfterAll(g, received', produced')
    BY <1>2
  <2>2. \A r \in Requests :
          /\ UpTo(g, r, produced'[r])
          /\ HasEnd(g, r) =>
                pc'[r] = "none" \/ (pc'[r] = "notify" /\ holding'[r].kind = "ended")
          /\ pc'[r] \in InHand /\ holding'[r].kind = "data" =>
                UpTo(g, r, produced'[r] - 1)
          /\ pc'[r] = "failed" => done'
    BY <1>2 DEF IInv, ChunksOK
  <2>3. \A r \in Requests :
          /\ Live' /\ (pc'[r] \in {"stream", "notify"}
                       \/ (pc'[r] = "push" /\ holding'[r].kind = "ended")) =>
                Reaches(g, received', r, produced'[r])
          /\ Live' /\ pc'[r] = "push" /\ holding'[r].kind = "data" =>
                Reaches(g, received', r, produced'[r] - 1)
    BY <1>4 DEF IInv, ChunksOK
  <2> QED
    BY <1>4, <2>1, <2>2, <2>3 DEF ChunksOK
<1>8. AnswersOK' /\ UnaryOK'
  BY <1>2, <1>3, <1>4 DEF IInv, AnswersOK, UnaryOK
<1>9. FollowOK'
  BY <1>2, <1>3, <1>4 DEF IInv, FollowOK, InHand, Enqueueing
<1>10. ClientNeverConfused'
  BY DEF IInv, ClientNeverConfused
<1> QED
  BY <1>5, <1>6, <1>7, <1>8, <1>9, <1>10 DEF Flowing

\* Shutdown closes a connection by force (server.go:1002-1008).
LEMMA ForceCloseKeeps == ASSUME IInv, ForceClose PROVE IInv'
<1> USE DEF clientVars, producerVars, queueVars, closeVars, writerVars, ForceClose
<1>1. WSTypeOK'
  <2>1. FlagsOK'
    BY DEF IInv, WSTypeOK, FlagsOK, Close
  <2> QED
    BY <2>1 DEF IInv, WSTypeOK, Serving, Goto, Close
<1>2. Cut(UnderWay', UnderWay) /\ (Live' => Live /\ UnderWay' = UnderWay)
  <2>1. Cut(UnderWay, UnderWay) /\ Cut(wire, UnderWay)
    BY UnderWayType, CutSame DEF IInv
  <2> QED
    BY <2>1 DEF IInv, WSTypeOK, UnderWay, Live, Serving, BeingWritten, Close
<1>3. Flowing'
  BY <1>1, <1>2, QuietKeeps DEF Goto, IInv, EnqueueOK, WSTypeOK, Enqueueing, Producers, Reader,
     Requests
<1>4. OwedOK'
  BY DEF IInv, OwedOK, WSTypeOK, Serving
<1> QED
  BY <1>1, <1>3, <1>4 DEF IInv, Flowing

\* run closes the connection and returns (server.go:769-779).
LEMMA RunReturnsKeeps == ASSUME IInv, RunReturns PROVE IInv'
<1> USE DEF clientVars, producerVars, queueVars, closeVars, writerVars, RunReturns
<1>1. WSTypeOK'
  <2>1. FlagsOK'
    BY DEF IInv, WSTypeOK, FlagsOK, Close
  <2> QED
    BY <2>1 DEF IInv, WSTypeOK, Serving, Goto, Close
<1>2. Cut(UnderWay', UnderWay) /\ (Live' => Live /\ UnderWay' = UnderWay)
  <2>1. Cut(UnderWay, UnderWay) /\ Cut(wire, UnderWay)
    BY UnderWayType, CutSame DEF IInv
  <2> QED
    BY <2>1 DEF IInv, WSTypeOK, UnderWay, Live, Serving, BeingWritten, Close
<1>3. Flowing'
  BY <1>1, <1>2, QuietKeeps DEF Goto, IInv, EnqueueOK, WSTypeOK, Enqueueing, Producers, Reader,
     Requests
<1>4. OwedOK'
  BY DEF IInv, OwedOK, WSTypeOK, Serving
<1> QED
  BY <1>1, <1>3, <1>4 DEF IInv, Flowing

\* The read loop ends (server.go:781-811).
LEMMA StopReadingKeeps == ASSUME IInv, StopReading PROVE IInv'
<1> USE DEF clientVars, producerVars, queueVars, closeVars, writerVars, StopReading
<1>1. WSTypeOK'
  <2>1. FlagsOK'
    BY DEF IInv, WSTypeOK, FlagsOK, Close
  <2> QED
    BY <2>1 DEF IInv, WSTypeOK, Serving, Goto, Close
<1>2. Cut(UnderWay', UnderWay) /\ (Live' => Live /\ UnderWay' = UnderWay)
  <2>1. Cut(UnderWay, UnderWay) /\ Cut(wire, UnderWay)
    BY UnderWayType, CutSame DEF IInv
  <2> QED
    BY <2>1 DEF IInv, WSTypeOK, UnderWay, Live, Serving, BeingWritten, Close
<1>3. Flowing'
  BY <1>1, <1>2, QuietKeeps DEF Goto, IInv, EnqueueOK, WSTypeOK, Enqueueing, Producers, Reader,
     Requests
<1>4. OwedOK'
  BY DEF IInv, OwedOK, WSTypeOK, Serving
<1> QED
  BY <1>1, <1>3, <1>4 DEF IInv, Flowing

\* The writer looks for a close request and pops a message (server.go:826-835).
LEMMA WriterTopKeeps == ASSUME IInv, WriterTop PROVE IInv'
<1> USE DEF clientVars, producerVars, queueVars, closeVars, writerVars, WriterTop
<1>1. WSTypeOK'
  <2>1. queue # <<>> =>
          /\ Head(queue) \in Messages /\ Tail(queue) \in Seq(Messages)
          /\ Head(queue).size \in Nat
    <3>1. queue \in Seq(Messages)
      BY DEF IInv, WSTypeOK
    <3>2. queue # <<>> => Head(queue) \in Messages /\ Tail(queue) \in Seq(Messages)
      BY <3>1, HeadTailProperties
    <3> QED
      BY <3>2 DEF Messages
  <2>2. \/ queue = <<>>
        \/ bytes - Head(queue).size \in Int /\ bytes - Head(queue).size <= MaxBytes
    BY <2>1, WSBoundsOK DEF IInv, WSTypeOK
  <2>3. FlagsOK'
    BY DEF IInv, WSTypeOK, FlagsOK
  <2> QED
    BY <2>1, <2>2, <2>3 DEF IInv, WSTypeOK, Serving
<1>2. Cut(UnderWay', UnderWay) /\ (Live' => Live /\ UnderWay' = UnderWay)
  BY <1>1, PopUnderWay DEF IInv
<1>3. Flowing'
  BY <1>1, <1>2, QuietKeeps DEF Goto, IInv, EnqueueOK, WSTypeOK, Enqueueing, Producers, Reader,
     Requests
<1>4. OwedOK'
  BY DEF IInv, OwedOK, WSTypeOK, Serving
<1> QED
  BY <1>1, <1>3, <1>4 DEF IInv, Flowing

\* The writer waits (server.go:836-843).
LEMMA WriterSelectKeeps == ASSUME IInv, WriterSelect PROVE IInv'
<1> USE DEF clientVars, producerVars, queueVars, closeVars, writerVars, WriterSelect
<1>1. WSTypeOK'
  <2>1. FlagsOK'
    BY DEF IInv, WSTypeOK, FlagsOK, Close
  <2> QED
    BY <2>1 DEF IInv, WSTypeOK, Serving, Goto, Close
<1>2. Cut(UnderWay', UnderWay) /\ (Live' => Live /\ UnderWay' = UnderWay)
  <2>1. Cut(UnderWay, UnderWay) /\ Cut(wire, UnderWay)
    BY UnderWayType, CutSame DEF IInv
  <2> QED
    BY <2>1 DEF IInv, WSTypeOK, UnderWay, Live, Serving, BeingWritten, Close
<1>3. Flowing'
  BY <1>1, <1>2, QuietKeeps DEF Goto, IInv, EnqueueOK, WSTypeOK, Enqueueing, Producers, Reader,
     Requests
<1>4. OwedOK'
  BY DEF IInv, OwedOK, WSTypeOK, Serving
<1> QED
  BY <1>1, <1>3, <1>4 DEF IInv, Flowing

\* The writer pings the client (server.go:844-850).
LEMMA PingKeeps == ASSUME IInv, Ping PROVE IInv'
<1> USE DEF clientVars, producerVars, queueVars, closeVars, writerVars, Ping
<1>1. WSTypeOK'
  <2>1. FlagsOK'
    BY DEF IInv, WSTypeOK, FlagsOK, Close
  <2> QED
    BY <2>1 DEF IInv, WSTypeOK, Serving, Goto, Close
<1>2. Cut(UnderWay', UnderWay) /\ (Live' => Live /\ UnderWay' = UnderWay)
  <2>1. Cut(UnderWay, UnderWay) /\ Cut(wire, UnderWay)
    BY UnderWayType, CutSame DEF IInv
  <2> QED
    BY <2>1 DEF IInv, WSTypeOK, UnderWay, Live, Serving, BeingWritten, Close
<1>3. Flowing'
  BY <1>1, <1>2, QuietKeeps DEF Goto, IInv, EnqueueOK, WSTypeOK, Enqueueing, Producers, Reader,
     Requests
<1>4. OwedOK'
  BY DEF IInv, OwedOK, WSTypeOK, Serving
<1> QED
  BY <1>1, <1>3, <1>4 DEF IInv, Flowing

\* A write fails, and the writer ends (server.go:1010-1022).
LEMMA WriteFailsKeeps == ASSUME IInv, WriteFails PROVE IInv'
<1> USE DEF clientVars, producerVars, queueVars, closeVars, writerVars, WriteFails
<1>1. WSTypeOK'
  <2>1. FlagsOK'
    BY DEF IInv, WSTypeOK, FlagsOK, Close
  <2> QED
    BY <2>1 DEF IInv, WSTypeOK, Serving, Goto, Close
<1>2. Cut(UnderWay', UnderWay) /\ (Live' => Live /\ UnderWay' = UnderWay)
  <2>1. Cut(UnderWay, UnderWay) /\ Cut(wire, UnderWay)
    BY UnderWayType, CutSame DEF IInv
  <2> QED
    BY <2>1 DEF IInv, WSTypeOK, UnderWay, Live, Serving, BeingWritten, Close
<1>3. Flowing'
  BY <1>1, <1>2, QuietKeeps DEF Goto, IInv, EnqueueOK, WSTypeOK, Enqueueing, Producers, Reader,
     Requests
<1>4. OwedOK'
  BY DEF IInv, OwedOK, WSTypeOK, Serving
<1> QED
  BY <1>1, <1>3, <1>4 DEF IInv, Flowing

\* The writer closes the connection (server.go:813-816).
LEMMA WriterEndsKeeps == ASSUME IInv, WriterEnds PROVE IInv'
<1> USE DEF clientVars, producerVars, queueVars, closeVars, writerVars, WriterEnds
<1>1. WSTypeOK'
  <2>1. FlagsOK'
    BY DEF IInv, WSTypeOK, FlagsOK, Close
  <2> QED
    BY <2>1 DEF IInv, WSTypeOK, Serving, Goto, Close
<1>2. Cut(UnderWay', UnderWay) /\ (Live' => Live /\ UnderWay' = UnderWay)
  <2>1. Cut(UnderWay, UnderWay) /\ Cut(wire, UnderWay)
    BY UnderWayType, CutSame DEF IInv
  <2> QED
    BY <2>1 DEF IInv, WSTypeOK, UnderWay, Live, Serving, BeingWritten, Close
<1>3. Flowing'
  BY <1>1, <1>2, QuietKeeps DEF Goto, IInv, EnqueueOK, WSTypeOK, Enqueueing, Producers, Reader,
     Requests
<1>4. OwedOK'
  BY DEF IInv, OwedOK, WSTypeOK, Serving
<1> QED
  BY <1>1, <1>3, <1>4 DEF IInv, Flowing

\* The connection is told to close (server.go:979-1000).
LEMMA ServerSignalsKeeps == ASSUME IInv, ServerSignals PROVE IInv'
<1> USE DEF clientVars, producerVars, queueVars, ServerSignals
<1>1. /\ done'
      /\ notify' \in BOOLEAN /\ closeReq' \in BOOLEAN /\ owed' \in BOOLEAN
      /\ writer' \in Serving \cup {"close", "ended", "gone", "failed"}
      /\ OwedOK'
      /\ writer' = writer \/ (writer = "parked" /\ writer' = "close")
  BY SignalCloseEffect DEF IInv, WSTypeOK
<1>2. FlagsOK'
  BY <1>1 DEF IInv, WSTypeOK, FlagsOK
<1>3. WSTypeOK'
  BY <1>1, <1>2 DEF IInv, WSTypeOK
<1>4. Cut(UnderWay', UnderWay) /\ (Live' => Live /\ UnderWay' = UnderWay)
  <2>1. Cut(UnderWay, UnderWay) /\ Cut(wire, UnderWay)
    BY UnderWayType, CutSame DEF IInv
  <2> QED
    BY <1>1, <2>1 DEF UnderWay, Live, Serving, BeingWritten
<1>5. Flowing'
  BY <1>1, <1>3, <1>4, QuietKeeps
<1> QED
  BY <1>1, <1>3, <1>5 DEF IInv, Flowing

\* A message is written; or the close message, and nothing after it
\* (server.go:1010-1022).
LEMMA WriteKeeps == ASSUME IInv, Write PROVE IInv'
<1> USE DEF clientVars, producerVars, queueVars, closeVars, writerVars
<1> DEFINE m == Message("close", None, 0)
<1>1. m \in Messages
  BY DEF Messages, Message
<1>2. WSTypeOK'
  <2>1. wire \in Seq(Messages) /\ (writer = "write" => writing \in Messages)
    BY DEF IInv, WSTypeOK
  <2>2. wire' \in Seq(Messages)
    BY <1>1, <2>1, AppendProperties DEF Write
  <2>3. FlagsOK'
    BY DEF IInv, WSTypeOK, FlagsOK, Write
  <2> QED
    BY <2>2, <2>3 DEF IInv, WSTypeOK, Write, Serving
<1>3. OwedOK'
  BY DEF IInv, OwedOK, Write
<1>4. CASE writer = "write"
  <2>1. Cut(UnderWay', UnderWay) /\ (Live' => Live /\ UnderWay' = UnderWay)
    BY <1>2, <1>4, WriteUnderWay, UnderWayType, CutSame DEF IInv
  <2>2. Flowing'
    BY <1>2, <2>1, QuietKeeps DEF Write
  <2> QED
    BY <1>2, <1>3, <2>2 DEF IInv, Flowing
<1>5. CASE writer = "close" /\ UnderWay' = UnderWay
  <2>1. Cut(UnderWay', UnderWay) /\ ~Live'
    BY <1>5, WriteCloseUnderWay, UnderWayType, CutSame DEF IInv
  <2>2. Flowing'
    BY <1>2, <2>1, QuietKeeps DEF Write
  <2> QED
    BY <1>2, <1>3, <2>2 DEF IInv, Flowing
<1>6. CASE writer = "close" /\ UnderWay' = Append(UnderWay, m)
  <2> DEFINE f == UnderWay
             g == Append(f, m)
  <2>1. f \in Seq(Messages) /\ m.kind = "close"
        /\ received \in [Requests -> Nat] /\ produced \in [Requests -> Nat]
        /\ started \in BOOLEAN
    BY UnderWayType DEF IInv, WSTypeOK, FlagsOK, Message
  <2>2. /\ GapFree(f, received) /\ EndsAfterAll(f, received, produced)
        /\ AnswersTo(f, sent)
        /\ call = "unary" => OnlyResponses(f)
        /\ call = "follow" => AckFirst(f, started)
    BY DEF IInv, ChunksOK, AnswersOK, UnaryOK, FollowOK
  <2> HIDE DEF f, m
  <2>3. /\ \A r : /\ HasEnd(g, r) => HasEnd(f, r)
                  /\ \A n : UpTo(f, r, n) => UpTo(g, r, n)
                  /\ NoneFrom(f, r) => NoneFrom(g, r)
        /\ AnswersTo(g, sent)
        /\ HasAck(g) <=> HasAck(f)
        /\ call = "unary" => OnlyResponses(g)
    BY <1>1, <2>1, <2>2, AppendHas
  <2>4. /\ GapFree(g, received) /\ EndsAfterAll(g, received, produced)
        /\ call = "follow" => AckFirst(g, started)
    BY <1>1, <2>1, <2>2, AppendKeeps
  <2> HIDE DEF g
  <2>5. UnderWay' = g /\ ~Live' /\ UnderWay = f
    BY <1>6, WriteCloseUnderWay DEF f, g, m, IInv
  <2>6. UNCHANGED <<call, client, started, sent, received, holding, produced, pc, done>>
    BY DEF Write
  <2>7. EnqueueOK' /\ NotBegunOK' /\ AnswersOK' /\ UnaryOK' /\ ClientNeverConfused'
    BY <2>3, <2>5, <2>6
       DEF IInv, EnqueueOK, NotBegunOK, NotBegun, AnswersOK, UnaryOK, ClientNeverConfused
  <2>8. ChunksOK'
    BY <2>3, <2>4, <2>5, <2>6 DEF IInv, ChunksOK
  <2>9. FollowOK'
    BY <2>3, <2>4, <2>5, <2>6 DEF IInv, FollowOK
  <2> QED
    BY <1>2, <1>3, <2>7, <2>8, <2>9 DEF IInv
<1> QED
  BY <1>4, <1>5, <1>6, WriteCloseUnderWay DEF IInv, Write

-----------------------------------------------------------------------------
(* Steps of the producers                                                  *)

\* A message that does not fit is refused; nothing else happens yet
\* (server.go:714-717).
LEMMA TryPushRefused ==
    ASSUME IInv, NEW p \in Producers, TryPush(p), pc'[p] = "refused"
    PROVE  IInv'
<1> USE DEF clientVars, queueVars, closeVars, writerVars
<1>1. /\ UNCHANGED <<clientVars, wire, open, holding, produced, following, notify,
                     queueVars, closeVars, writerVars>>
      /\ pc' = [pc EXCEPT ![p] = "refused"] /\ pc[p] = "push"
  BY DEF TryPush, Goto, IInv, WSTypeOK
<1>2. UnderWay' = UnderWay /\ Live' = Live
  BY <1>1 DEF UnderWay, Live, BeingWritten
<1>3. WSTypeOK'
  <2>1. FlagsOK'
    BY <1>1 DEF IInv, WSTypeOK, FlagsOK
  <2> QED
    BY <1>1, <2>1 DEF IInv, WSTypeOK, Enqueueing
<1>4. EnqueueOK' /\ OwedOK' /\ ClientNeverConfused'
  BY <1>1 DEF IInv, EnqueueOK, OwedOK, ClientNeverConfused, Enqueueing, WSTypeOK
<1>5. \A q \in Producers :
         /\ pc'[q] \in Enqueueing <=> pc[q] \in Enqueueing
         /\ pc'[q] \in InHand <=> pc[q] \in InHand
         /\ pc'[q] = pc[q] \/ (pc[q] = "push" /\ pc'[q] = "refused")
  BY <1>1 DEF IInv, WSTypeOK, Enqueueing, InHand
<1>6. \A r \in Requests : r \in Producers
  BY DEF Producers
<1>7. Reader \in Producers
  BY DEF Producers
<1>8. NotBegunOK'
  BY <1>1, <1>2, <1>5, <1>6, <1>7 DEF IInv, NotBegunOK, NotBegun
<1>9. ChunksOK'
  BY <1>1, <1>2, <1>5, <1>6 DEF IInv, ChunksOK
<1>10. AnswersOK' /\ UnaryOK'
  BY <1>1, <1>2, <1>5, <1>6, <1>7 DEF IInv, AnswersOK, UnaryOK
<1>11. FollowOK'
  BY <1>1, <1>2, <1>5, <1>6, <1>7 DEF IInv, FollowOK
<1> QED
  BY <1>3, <1>4, <1>8, <1>9, <1>10, <1>11 DEF IInv

\* What a push leaves alone.
LEMMA PushLeaves ==
    ASSUME IInv, NEW p \in Producers, TryPush(p), pc'[p] # "refused"
    PROVE  /\ UNCHANGED <<clientVars, wire, open, holding, produced, following, notify,
                          closeVars, writerVars>>
           /\ queue' = Append(queue, holding[p]) /\ holding[p] \in Messages
           /\ pc' = [pc EXCEPT ![p] = "notify"] /\ pc[p] = "push"
           /\ WSTypeOK' /\ EnqueueOK' /\ OwedOK' /\ ClientNeverConfused' /\ Live' = Live
           /\ \A r \in Requests : NotBegun(r)' <=> NotBegun(r)
<1> USE DEF clientVars, queueVars, closeVars, writerVars
<1>1. /\ UNCHANGED <<clientVars, wire, open, holding, produced, following, notify,
                     closeVars, writerVars>>
      /\ queue' = Append(queue, holding[p])
      /\ bytes' = bytes + holding[p].size /\ holding[p].size <= MaxBytes - bytes
      /\ pc' = [pc EXCEPT ![p] = "notify"] /\ pc[p] = "push"
  <2>1. ~(holding[p].size > MaxBytes - bytes)
    BY DEF TryPush, Goto, IInv, WSTypeOK
  <2>2. holding[p] \in Messages
    BY DEF IInv, EnqueueOK, TryPush, Enqueueing, Producers
  <2>3. holding[p].size <= MaxBytes - bytes
    BY <2>1, <2>2, WSBoundsOK DEF Messages, IInv, WSTypeOK
  <2> QED
    BY <2>1, <2>3 DEF TryPush, Goto
<1>2. holding[p] \in Messages
  BY <1>1 DEF IInv, EnqueueOK, Enqueueing, Producers
<1>3. WSTypeOK'
  <2>1. FlagsOK'
    BY <1>1 DEF IInv, WSTypeOK, FlagsOK
  <2>2. queue' \in Seq(Messages)
    BY <1>1, <1>2, AppendProperties DEF IInv, WSTypeOK
  <2>3. bytes' \in Int /\ bytes' <= MaxBytes
    BY <1>1, <1>2, WSBoundsOK DEF IInv, WSTypeOK, Messages
  <2> QED
    BY <1>1, <2>1, <2>2, <2>3 DEF IInv, WSTypeOK, Enqueueing
<1>4. EnqueueOK' /\ OwedOK' /\ ClientNeverConfused'
  BY <1>1 DEF IInv, EnqueueOK, OwedOK, ClientNeverConfused, Enqueueing, WSTypeOK
<1>5. Live' = Live
  BY <1>1 DEF Live
<1>6. \A r \in Requests : NotBegun(r)' <=> NotBegun(r)
  BY <1>1 DEF NotBegun, IInv, WSTypeOK, Enqueueing
<1> QED
  BY <1>1, <1>2, <1>3, <1>4, <1>5, <1>6

\* A message that is pushed when the writer will not pop it is never under way.
LEMMA PushInVain ==
    ASSUME IInv, NEW p \in Producers, TryPush(p), pc'[p] # "refused", ~Live
    PROVE  IInv'
<1>1. /\ UNCHANGED <<clientVars, wire, open, holding, produced, following, notify,
                     closeVars, writerVars>>
      /\ pc' = [pc EXCEPT ![p] = "notify"] /\ pc[p] = "push"
      /\ WSTypeOK' /\ EnqueueOK' /\ OwedOK' /\ ClientNeverConfused' /\ ~Live'
      /\ \A r \in Requests : NotBegun(r)' <=> NotBegun(r)
  BY PushLeaves
<1>2. UnderWay' = UnderWay
  BY <1>1 DEF UnderWay
<1>3. \A q \in Producers :
         /\ pc'[q] \in Enqueueing <=> pc[q] \in Enqueueing
         /\ pc'[q] \in InHand => pc[q] \in InHand
         /\ pc'[q] = pc[q] \/ (pc[q] = "push" /\ pc'[q] = "notify")
  BY <1>1 DEF IInv, WSTypeOK, Enqueueing, InHand
<1>4. \A r \in Requests : r \in Producers
  BY DEF Producers
<1>5. Reader \in Producers
  BY DEF Producers
<1> USE DEF clientVars, closeVars
<1>6. NotBegunOK'
  BY <1>1, <1>2, <1>3, <1>4 DEF IInv, NotBegunOK
<1>7. ChunksOK'
  BY <1>1, <1>2, <1>3, <1>4 DEF IInv, ChunksOK
<1>8. AnswersOK' /\ UnaryOK'
  BY <1>1, <1>2, <1>3, <1>4, <1>5 DEF IInv, AnswersOK, UnaryOK
<1>9. FollowOK'
  BY <1>1, <1>2, <1>3, <1>4, <1>5 DEF IInv, FollowOK
<1> QED
  BY <1>1, <1>6, <1>7, <1>8, <1>9 DEF IInv

\* The read loop's answer is queued (server.go:845-905, 942-977).
LEMMA ReaderPush ==
    ASSUME IInv, TryPush(Reader), pc'[Reader] # "refused", Live
    PROVE  IInv'
<1> DEFINE m == holding[Reader]
           f == UnderWay
           g == Append(f, m)
<1>1. /\ UNCHANGED <<clientVars, wire, open, holding, produced, following, notify,
                     closeVars, writerVars>>
      /\ m \in Messages
      /\ pc' = [pc EXCEPT ![Reader] = "notify"] /\ pc[Reader] = "push"
      /\ WSTypeOK' /\ EnqueueOK' /\ OwedOK' /\ ClientNeverConfused' /\ Live'
      /\ \A r \in Requests : NotBegun(r)' <=> NotBegun(r)
  BY PushLeaves DEF Producers
<1>2. UnderWay' = g
  BY PushLeaves, PushUnderWay DEF IInv, Producers
<1>3. m.kind \in {"response", "started"} /\ m.id = sent /\ sent \in Requests
  BY <1>1 DEF IInv, EnqueueOK, Enqueueing
<1>4. \A r \in Requests : pc'[r] = pc[r]
  BY <1>1 DEF Requests, Reader, IInv, WSTypeOK, Producers
<1>5. pc'[Reader] = "notify"
  BY <1>1 DEF IInv, WSTypeOK, Producers
<1>6. f \in Seq(Messages) /\ received \in [Requests -> Nat]
      /\ produced \in [Requests -> Nat] /\ started \in BOOLEAN
  BY UnderWayType DEF IInv, WSTypeOK, FlagsOK
<1>7. /\ GapFree(f, received) /\ EndsAfterAll(f, received, produced)
      /\ AnswersTo(f, sent)
      /\ call = "unary" => OnlyResponses(f) /\ m.kind = "response"
      /\ call = "follow" => AckFirst(f, started)
      /\ call = "follow" /\ m.kind = "started" => ~started /\ ~HasAck(f)
  BY <1>1
     DEF IInv, ChunksOK, AnswersOK, UnaryOK, FollowOK, InHand, Enqueueing
<1> UnderWay = f /\ holding'[Reader] = m
  BY <1>1
<1> HIDE DEF f, m
<1>8. /\ \A r : /\ HasEnd(g, r) => HasEnd(f, r)
                /\ \A n : /\ UpTo(f, r, n) => UpTo(g, r, n)
                          /\ Reaches(f, received, r, n) => Reaches(g, received, r, n)
                /\ NoneFrom(f, r) => NoneFrom(g, r)
      /\ AnswersTo(g, sent)
      /\ HasAck(g) <=> HasAck(f) \/ m.kind = "started"
      /\ call = "unary" => OnlyResponses(g)
  <2>1. sent \in 1 .. sent
    BY <1>3 DEF Requests
  <2> QED
    BY <1>1, <1>3, <1>6, <1>7, <2>1, AppendHas
<1>9. /\ GapFree(g, received) /\ EndsAfterAll(g, received, produced)
      /\ call = "follow" => AckFirst(g, started)
  BY <1>1, <1>3, <1>6, <1>7, AppendKeeps
<1> HIDE DEF g
<1> USE DEF clientVars, closeVars
<1>10. NotBegunOK'
  BY <1>1, <1>2, <1>4, <1>8 DEF IInv, NotBegunOK
<1>11. ChunksOK'
  BY <1>1, <1>2, <1>4, <1>8, <1>9 DEF IInv, ChunksOK
<1>12. AnswersOK' /\ UnaryOK'
  BY <1>1, <1>2, <1>4, <1>5, <1>7, <1>8 DEF IInv, AnswersOK, UnaryOK
<1>13. FollowOK'
  BY <1>1, <1>2, <1>3, <1>4, <1>5, <1>8, <1>9
     DEF IInv, FollowOK, InHand, Requests
<1> QED
  BY <1>1, <1>10, <1>11, <1>12, <1>13 DEF IInv

\* A follow's chunk or end is queued (server.go:906-940, 1028-1038).
LEMMA FollowPush ==
    ASSUME IInv, NEW r \in Requests, TryPush(r), pc'[r] # "refused", Live
    PROVE  IInv'
<1> DEFINE m == holding[r]
           f == UnderWay
           g == Append(f, m)
<1>0. r \in Producers /\ r # Reader
  BY DEF Producers, Requests, Reader
<1>1. /\ UNCHANGED <<clientVars, wire, open, holding, produced, following, notify,
                     closeVars, writerVars>>
      /\ m \in Messages
      /\ pc' = [pc EXCEPT ![r] = "notify"] /\ pc[r] = "push"
      /\ WSTypeOK' /\ EnqueueOK' /\ OwedOK' /\ ClientNeverConfused' /\ Live'
      /\ \A q \in Requests : NotBegun(q)' <=> NotBegun(q)
  BY <1>0, PushLeaves
<1>2. UnderWay' = g
  BY <1>0, PushLeaves, PushUnderWay DEF IInv
<1>3. m.kind \in {"data", "ended"} /\ m.id = r
      /\ (m.kind = "data" => m.n = produced[r])
  BY <1>1 DEF IInv, EnqueueOK, Enqueueing
<1>4. /\ \A q \in Requests : q # r => pc'[q] = pc[q]
      /\ pc'[r] = "notify" /\ pc'[Reader] = pc[Reader]
  BY <1>0, <1>1 DEF IInv, WSTypeOK, Producers
<1>5. f \in Seq(Messages) /\ received \in [Requests -> Nat]
      /\ produced \in [Requests -> Nat] /\ started \in BOOLEAN /\ sent \in Nat
  BY UnderWayType DEF IInv, WSTypeOK, FlagsOK
<1>6. ~NotBegun(r) /\ r \in 1 .. sent
  <2>1. ~NotBegun(r)
    BY <1>1 DEF IInv, NotBegunOK
  <2> QED
    BY <2>1, <1>5 DEF NotBegun, Requests
<1>7. /\ GapFree(f, received) /\ EndsAfterAll(f, received, produced)
      /\ AnswersTo(f, sent) /\ call # "unary" /\ ~HasEnd(f, r)
      /\ call = "follow" => AckFirst(f, started) /\ (started \/ HasAck(f))
      /\ m.kind = "data" =>
            Reaches(f, received, r, m.n - 1) /\ UpTo(f, r, m.n - 1)
      /\ m.kind = "ended" => Reaches(f, received, r, produced[r])
  BY <1>1, <1>3 DEF IInv, ChunksOK, AnswersOK, UnaryOK, FollowOK, InHand
<1>8. UpTo(f, r, produced[r])
  BY DEF IInv, ChunksOK
<1> UnderWay = f /\ holding'[r] = m
  BY <1>1
<1> HIDE DEF f, m
<1>9. /\ \A q : /\ HasEnd(g, q) => HasEnd(f, q) \/ (m.kind = "ended" /\ m.id = q)
                /\ \A n : Reaches(f, received, q, n) \/ IsData(m, q, n) =>
                             Reaches(g, received, q, n)
                /\ \A n : UpTo(f, q, n) /\ (m.kind = "data" /\ m.id = q => m.n <= n)
                             => UpTo(g, q, n)
                /\ NoneFrom(f, q) /\ (m.kind \in {"data", "ended"} => m.id # q)
                      => NoneFrom(g, q)
      /\ \A k : AnswersTo(f, k) /\ (m.kind # "close" => m.id \in 1 .. k)
                   => AnswersTo(g, k)
      /\ HasAck(g) <=> HasAck(f) \/ m.kind = "started"
  BY <1>1, <1>5, AppendHas
<1>10. AnswersTo(g, sent) /\ (HasAck(g) <=> HasAck(f))
  BY <1>3, <1>6, <1>7, <1>9
<1>11. /\ \A q \in Requests : HasEnd(g, q) => HasEnd(f, q) \/ (q = r /\ m.kind = "ended")
       /\ \A q \in Requests : \A n : q # r /\ UpTo(f, q, n) => UpTo(g, q, n)
       /\ \A q \in Requests : \A n : Reaches(f, received, q, n) => Reaches(g, received, q, n)
       /\ \A q \in Requests : q # r /\ NoneFrom(f, q) => NoneFrom(g, q)
  BY <1>3, <1>9
<1>12. UpTo(g, r, produced[r]) /\ Reaches(g, received, r, produced[r])
  <2>1. CASE m.kind = "data"
    <3>1. IsData(m, r, produced[r]) /\ m.n <= produced[r]
      BY <2>1, <1>3, <1>5 DEF IsData
    <3> QED
      BY <3>1, <1>1, <1>5, <1>8, AppendHas
  <2>2. CASE m.kind = "ended"
    BY <2>2, <1>1, <1>5, <1>7, <1>8, AppendHas
  <2> QED
    BY <2>1, <2>2, <1>3
<1>13. /\ GapFree(g, received) /\ EndsAfterAll(g, received, produced)
       /\ call = "follow" => AckFirst(g, started)
  BY <1>1, <1>3, <1>5, <1>7, AppendKeeps
<1> HIDE DEF g
<1> USE DEF clientVars, closeVars
<1>14. NotBegunOK'
  <2> SUFFICES ASSUME NEW q \in Requests, NotBegun(q)'
               PROVE  pc'[q] = "none" /\ produced'[q] = 0 /\ received'[q] = 0
                      /\ NoneFrom(g, q)
    BY <1>2 DEF NotBegunOK
  <2>1. NotBegun(q) /\ q # r
    BY <1>1, <1>6
  <2> QED
    BY <2>1, <1>1, <1>4, <1>10, <1>11 DEF IInv, NotBegunOK
<1>15. ChunksOK'
  <2>1. /\ UpTo(g, r, produced'[r])
        /\ HasEnd(g, r) => holding'[r].kind = "ended"
        /\ Reaches(g, received', r, produced'[r])
    BY <1>1, <1>7, <1>10, <1>11, <1>12
  <2>2. \A q \in Requests : q # r =>
          /\ UpTo(g, q, produced'[q])
          /\ HasEnd(g, q) =>
                pc'[q] = "none" \/ (pc'[q] = "notify" /\ holding'[q].kind = "ended")
          /\ pc'[q] \in InHand /\ holding'[q].kind = "data" =>
                UpTo(g, q, produced'[q] - 1)
          /\ pc'[q] = "failed" => done'
          /\ Live' /\ (pc'[q] \in {"stream", "notify"}
                       \/ (pc'[q] = "push" /\ holding'[q].kind = "ended")) =>
                Reaches(g, received', q, produced'[q])
          /\ Live' /\ pc'[q] = "push" /\ holding'[q].kind = "data" =>
                Reaches(g, received', q, produced'[q] - 1)
    BY <1>1, <1>4, <1>10, <1>11 DEF IInv, ChunksOK
  <2> QED
    BY <1>1, <1>2, <1>4, <1>13, <2>1, <2>2 DEF ChunksOK, InHand
<1>16. AnswersOK' /\ UnaryOK'
  BY <1>1, <1>2, <1>7, <1>10, <1>11 DEF AnswersOK, UnaryOK
<1>17. FollowOK'
  BY <1>1, <1>2, <1>4, <1>7, <1>10, <1>11, <1>13 DEF IInv, FollowOK, InHand
<1> QED
  BY <1>1, <1>14, <1>15, <1>16, <1>17 DEF IInv

\* The push of enqueue, by any producer (server.go:709-723).
LEMMA TryPushKeeps ==
    ASSUME IInv, NEW p \in Producers, TryPush(p) PROVE IInv'
<1>1. p = Reader \/ p \in Requests
  BY DEF Producers
<1> QED
  BY <1>1, TryPushRefused, PushInVain, ReaderPush, FollowPush

\* Where a producer goes on after enqueue (server.go:864-940, 1028-1038).
LEMMA ReturnMoves ==
    ASSUME IInv, NEW p \in Producers, pc[p] \in Enqueueing, NEW ok \in BOOLEAN,
           Return(p, ok)
    PROVE  /\ pc' \in [Producers -> Enqueueing \cup
                         {"read", "wait", "returned", "none", "stream", "failed"}]
           /\ holding' \in [Producers -> Messages \cup {None}]
           /\ UNCHANGED <<produced, following>>
           /\ \A q \in Producers : q # p => holding'[q] = holding[q]
           /\ p = Reader =>
                 /\ pc'[Reader] = "read"
                 /\ \A r \in Requests : pc'[r] =
                       IF holding[Reader].kind = "started" /\ r = sent
                         THEN "stream" ELSE pc[r]
           /\ p \in Requests =>
                 /\ \A q \in Producers : q # p => pc'[q] = pc[q]
                 /\ holding[p].kind \in {"data", "ended"}
                 /\ pc'[p] = IF holding[p].kind = "ended" THEN "none"
                               ELSE IF ok THEN "stream" ELSE "failed"
<1>1. pc \in [Producers -> Enqueueing \cup
                 {"read", "wait", "returned", "none", "stream", "failed"}]
      /\ holding \in [Producers -> Messages \cup {None}]
  BY DEF IInv, WSTypeOK
<1>2. holding' = [holding EXCEPT ![p] = None] /\ UNCHANGED <<produced, following>>
  BY DEF Return
<1>3. Reader \in Producers /\ Reader \notin Requests /\ Requests \subseteq Producers
  BY DEF Producers, Requests, Reader
<1>4. CASE p = Reader
  <2>1. holding[p].kind \in {"response", "started"} /\ holding[p].id = sent
        /\ sent \in Requests
    BY <1>4 DEF IInv, EnqueueOK
  <2>2. CASE holding[p].kind = "started"
    <3>1. pc' = [pc EXCEPT ![p] = "read", ![sent] = "stream"]
      BY <2>1, <2>2 DEF Return
    <3> QED
      BY <3>1, <2>1, <2>2, <1>1, <1>2, <1>3, <1>4
  <2>3. CASE holding[p].kind = "response"
    <3>1. pc' = [pc EXCEPT ![p] = "read"]
      BY <2>3 DEF Return
    <3> QED
      BY <3>1, <2>3, <1>1, <1>2, <1>3, <1>4
  <2> QED
    BY <2>1, <2>2, <2>3
<1>5. CASE p \in Requests
  <2>1. holding[p].kind \in {"data", "ended"}
    BY <1>5 DEF IInv, EnqueueOK
  <2>2. CASE holding[p].kind = "data"
    <3>1. pc' = [pc EXCEPT ![p] = IF ok THEN "stream" ELSE "failed"]
      BY <2>2 DEF Return
    <3> QED
      BY <3>1, <2>2, <1>1, <1>2, <1>3, <1>5
  <2>3. CASE holding[p].kind = "ended"
    <3>1. pc' = [pc EXCEPT ![p] = "none"]
      BY <2>3 DEF Return
    <3> QED
      BY <3>1, <2>3, <1>1, <1>2, <1>3, <1>5
  <2> QED
    BY <2>1, <2>2, <2>3
<1> QED
  BY <1>4, <1>5 DEF Producers

\* A return from enqueue, of a message that was queued or refused, keeps what is
\* under way in order: after a refusal the connection is done (server.go:961-976).
LEMMA ReturnKeeps ==
    ASSUME IInv, NEW p \in Producers, NEW ok \in BOOLEAN, Return(p, ok),
           WSTypeOK', OwedOK', UNCHANGED clientVars, done => done',
           \/ ok /\ pc[p] = "notify"
           \/ ~ok /\ pc[p] = "refused" /\ done',
           Cut(UnderWay', UnderWay), Live' => Live /\ UnderWay' = UnderWay,
           UnderWay' \in Seq(Messages)
    PROVE  IInv'
<1> DEFINE g == UnderWay'
<1>1. /\ UNCHANGED <<produced, following>>
      /\ \A q \in Producers : q # p => holding'[q] = holding[q]
      /\ p = Reader =>
            /\ pc'[Reader] = "read"
            /\ \A r \in Requests : pc'[r] =
                  IF holding[Reader].kind = "started" /\ r = sent THEN "stream" ELSE pc[r]
      /\ p \in Requests =>
            /\ \A q \in Producers : q # p => pc'[q] = pc[q]
            /\ holding[p].kind \in {"data", "ended"}
            /\ pc'[p] = IF holding[p].kind = "ended" THEN "none"
                          ELSE IF ok THEN "stream" ELSE "failed"
  <2>1. pc[p] \in Enqueueing
    BY DEF Enqueueing
  <2> QED
    BY <2>1, ReturnMoves
<1>2. /\ GapFree(g, received) /\ EndsAfterAll(g, received, produced)
      /\ \A r \in Requests :
            /\ \A n : UpTo(UnderWay, r, n) => UpTo(g, r, n)
            /\ HasEnd(g, r) => HasEnd(UnderWay, r)
            /\ NoneFrom(UnderWay, r) => NoneFrom(g, r)
      /\ AnswersTo(g, sent)
      /\ call = "unary" => OnlyResponses(g)
      /\ call = "follow" => AckFirst(g, started)
      /\ HasAck(g) => HasAck(UnderWay)
  BY FrontOfUnderWay
<1>3. Reader \in Producers /\ Reader \notin Requests /\ Requests \subseteq Producers
  BY DEF Producers, Requests, Reader
<1>4. UNCHANGED <<call, client, started, sent, received>>
  BY DEF clientVars
<1> HIDE DEF g
<1>5. UnderWay' = g /\ (Live' => Live /\ g = UnderWay)
  BY DEF g
<1>6. ClientNeverConfused'
  BY <1>4 DEF IInv, ClientNeverConfused
<1>7. CASE p = Reader
  <2>1. /\ pc'[Reader] = "read" /\ pc[Reader] \in Enqueueing
        /\ \A r \in Requests : holding'[r] = holding[r]
        /\ \A r \in Requests : pc'[r] =
              IF holding[Reader].kind = "started" /\ r = sent THEN "stream" ELSE pc[r]
    BY <1>1, <1>3, <1>7 DEF Enqueueing
  <2>2. EnqueueOK'
    BY <2>1, <1>1, <1>4 DEF IInv, EnqueueOK, Enqueueing
  <2>3. \A r \in Requests : NotBegun(r)' => NotBegun(r) /\ r # sent
    BY <2>1, <1>4 DEF NotBegun, Enqueueing, Requests, IInv, WSTypeOK
  <2>4. NotBegunOK'
    BY <2>1, <2>3, <1>1, <1>2, <1>4, <1>5 DEF IInv, NotBegunOK
  <2>5. \A r \in Requests : holding[Reader].kind = "started" /\ r = sent =>
          pc[r] = "none" /\ produced[r] = 0 /\ received[r] = 0 /\ NoneFrom(UnderWay, r)
    BY <2>1 DEF IInv, NotBegunOK, NotBegun
  <2>6. ChunksOK'
    <3>1. ASSUME NEW r \in Requests, holding[Reader].kind = "started" /\ r = sent
          PROVE  /\ UpTo(g, r, produced'[r]) /\ ~HasEnd(g, r)
                 /\ pc'[r] = "stream" /\ Reaches(g, received', r, produced'[r])
      <4>1. pc'[r] = "stream" /\ NoneFrom(g, r) /\ received'[r] = produced'[r]
        BY <3>1, <2>1, <2>5, <1>1, <1>2, <1>4
      <4> QED
        BY <4>1 DEF NoneFrom, UpTo, HasEnd, Reaches
    <3>2. ASSUME NEW r \in Requests, ~(holding[Reader].kind = "started" /\ r = sent)
          PROVE  /\ UpTo(g, r, produced'[r])
                 /\ HasEnd(g, r) =>
                       pc'[r] = "none" \/ (pc'[r] = "notify" /\ holding'[r].kind = "ended")
                 /\ pc'[r] \in InHand /\ holding'[r].kind = "data" =>
                       UpTo(g, r, produced'[r] - 1)
                 /\ pc'[r] = "failed" => done'
                 /\ Live' /\ (pc'[r] \in {"stream", "notify"}
                              \/ (pc'[r] = "push" /\ holding'[r].kind = "ended")) =>
                       Reaches(g, received', r, produced'[r])
                 /\ Live' /\ pc'[r] = "push" /\ holding'[r].kind = "data" =>
                       Reaches(g, received', r, produced'[r] - 1)
      BY <3>2, <2>1, <1>1, <1>2, <1>4, <1>5 DEF IInv, ChunksOK
    <3> QED
      BY <3>1, <3>2, <1>1, <1>2, <1>4, <1>5 DEF ChunksOK, InHand
  <2>7. AnswersOK' /\ UnaryOK'
    BY <2>1, <1>1, <1>2, <1>4, <1>5 DEF IInv, AnswersOK, UnaryOK, Enqueueing
  <2>8. FollowOK'
    <3> SUFFICES ASSUME call = "follow"
                 PROVE  /\ sent <= 1 /\ AckFirst(g, started)
                        /\ sent = 0 => ~started /\ ~HasAck(g)
                        /\ Live' /\ (\E r \in Requests :
                              \/ pc'[r] \in {"push", "notify"}
                              \/ pc'[r] = "stream" /\ ~done') =>
                                 started \/ HasAck(g)
      BY <2>1, <1>4, <1>5 DEF FollowOK, InHand
    <3>1. sent <= 1 /\ AckFirst(g, started) /\ (sent = 0 => ~started /\ ~HasAck(g))
      BY <1>2, <1>5 DEF IInv, FollowOK
    <3>2. ASSUME Live', NEW r \in Requests,
                 pc'[r] \in {"push", "notify"} \/ (pc'[r] = "stream" /\ ~done')
          PROVE  started \/ HasAck(g)
      <4>1. CASE holding[Reader].kind = "started" /\ r = sent
        <5>1. ~done' /\ pc[Reader] = "notify"
          BY <4>1, <3>2, <2>1, <1>7
        <5> QED
          BY <5>1, <4>1, <3>2, <1>5 DEF IInv, FollowOK
      <4>2. CASE ~(holding[Reader].kind = "started" /\ r = sent)
        <5>1. pc'[r] = pc[r]
          BY <4>2, <2>1
        <5> QED
          BY <5>1, <3>2, <1>5 DEF IInv, FollowOK
      <4> QED
        BY <4>1, <4>2
    <3> QED
      BY <3>1, <3>2
  <2> QED
    BY <1>6, <2>2, <2>4, <2>6, <2>7, <2>8 DEF IInv
<1>8. CASE p \in Requests
  <2>1. /\ pc'[Reader] = pc[Reader] /\ holding'[Reader] = holding[Reader]
        /\ \A r \in Requests : r # p => pc'[r] = pc[r] /\ holding'[r] = holding[r]
        /\ pc'[p] \in {"none", "stream", "failed"}
        /\ holding[p].kind \in {"data", "ended"}
        /\ pc'[p] = IF holding[p].kind = "ended" THEN "none"
                      ELSE IF ok THEN "stream" ELSE "failed"
    BY <1>1, <1>3, <1>8
  <2>2. EnqueueOK'
    BY <2>1, <1>1, <1>4 DEF IInv, EnqueueOK, Enqueueing
  <2>3. ~NotBegun(p) /\ pc[p] \in {"notify", "refused"}
    BY <1>8 DEF IInv, NotBegunOK
  <2>4. \A r \in Requests : NotBegun(r)' => NotBegun(r) /\ r # p
    BY <2>1, <2>3, <1>4 DEF NotBegun
  <2>5. NotBegunOK'
    BY <2>1, <2>4, <1>1, <1>2, <1>4, <1>5 DEF IInv, NotBegunOK
  <2>6. ChunksOK'
    <3>1. /\ UpTo(g, p, produced'[p])
          /\ HasEnd(g, p) => pc'[p] = "none"
          /\ pc'[p] = "failed" => done'
          /\ Live' /\ pc'[p] = "stream" => Reaches(g, received', p, produced'[p])
      BY <1>8, <2>1, <2>3, <1>1, <1>2, <1>4, <1>5 DEF IInv, ChunksOK
    <3>2. ASSUME NEW r \in Requests, r # p
          PROVE  /\ UpTo(g, r, produced'[r])
                 /\ HasEnd(g, r) =>
                       pc'[r] = "none" \/ (pc'[r] = "notify" /\ holding'[r].kind = "ended")
                 /\ pc'[r] \in InHand /\ holding'[r].kind = "data" =>
                       UpTo(g, r, produced'[r] - 1)
                 /\ pc'[r] = "failed" => done'
                 /\ Live' /\ (pc'[r] \in {"stream", "notify"}
                              \/ (pc'[r] = "push" /\ holding'[r].kind = "ended")) =>
                       Reaches(g, received', r, produced'[r])
                 /\ Live' /\ pc'[r] = "push" /\ holding'[r].kind = "data" =>
                       Reaches(g, received', r, produced'[r] - 1)
      BY <3>2, <2>1, <1>1, <1>2, <1>4, <1>5 DEF IInv, ChunksOK
    <3> QED
      BY <3>1, <3>2, <2>1, <1>1, <1>2, <1>4, <1>5 DEF ChunksOK, InHand
  <2>7. AnswersOK' /\ UnaryOK'
    BY <1>8, <2>1, <2>3, <1>1, <1>2, <1>4, <1>5 DEF IInv, AnswersOK, UnaryOK
  <2>8. FollowOK'
    BY <1>8, <2>1, <2>3, <1>1, <1>2, <1>4, <1>5 DEF IInv, FollowOK
  <2> QED
    BY <1>6, <2>2, <2>5, <2>6, <2>7, <2>8 DEF IInv
<1> QED
  BY <1>7, <1>8 DEF Producers

\* The writer is given a token, and the producer goes on (server.go:722-727).
LEMMA NotifyKeeps == ASSUME IInv, NEW p \in Producers, Notify(p) PROVE IInv'
<1> USE DEF queueVars, closeVars
<1>1. /\ UNCHANGED <<clientVars, wire, open, queueVars, closeVars, writing>>
      /\ Return(p, TRUE) /\ pc[p] = "notify"
      /\ \/ writer = "parked" /\ writer' = "top" /\ notify' = notify
         \/ writer # "parked" /\ writer' = writer /\ notify' = TRUE
  BY DEF Notify, Wake
<1>2. /\ pc' \in [Producers -> Enqueueing \cup
                    {"read", "wait", "returned", "none", "stream", "failed"}]
      /\ holding' \in [Producers -> Messages \cup {None}]
      /\ UNCHANGED <<produced, following>>
  <2>1. pc[p] \in Enqueueing /\ TRUE \in BOOLEAN
    BY <1>1 DEF Enqueueing
  <2> QED
    BY <1>1, <2>1, ReturnMoves
<1>3. WSTypeOK'
  <2>1. FlagsOK'
    BY <1>1, <1>2 DEF IInv, WSTypeOK, FlagsOK, clientVars
  <2> QED
    BY <1>1, <1>2, <2>1 DEF IInv, WSTypeOK, Serving, clientVars
<1>4. UnderWay' = UnderWay /\ Live' = Live
  BY <1>1 DEF UnderWay, Live, Serving, BeingWritten
<1>5. UnderWay \in Seq(Messages) /\ Cut(UnderWay, UnderWay)
  BY UnderWayType, CutSame DEF IInv
<1>6. OwedOK'
  BY <1>1 DEF IInv, OwedOK
<1> QED
  BY <1>1, <1>3, <1>4, <1>5, <1>6, ReturnKeeps

\* The connection is told to close, and the producer goes on without its message
\* (server.go:949-977, 1033-1038).
LEMMA RefusedKeeps == ASSUME IInv, NEW p \in Producers, Refused(p) PROVE IInv'
<1> USE DEF queueVars
<1>1. /\ UNCHANGED <<clientVars, wire, open, queueVars, writing>>
      /\ Return(p, FALSE) /\ pc[p] = "refused" /\ SignalClose
  BY DEF Refused
<1>2. /\ pc' \in [Producers -> Enqueueing \cup
                    {"read", "wait", "returned", "none", "stream", "failed"}]
      /\ holding' \in [Producers -> Messages \cup {None}]
      /\ UNCHANGED <<produced, following>>
  <2>1. pc[p] \in Enqueueing /\ FALSE \in BOOLEAN
    BY <1>1 DEF Enqueueing
  <2> QED
    BY <1>1, <2>1, ReturnMoves
<1>3. /\ done'
      /\ notify' \in BOOLEAN /\ closeReq' \in BOOLEAN /\ owed' \in BOOLEAN
      /\ writer' \in Serving \cup {"close", "ended", "gone", "failed"}
      /\ OwedOK'
      /\ writer' = writer \/ (writer = "parked" /\ writer' = "close")
  BY <1>1, SignalCloseEffect DEF IInv, WSTypeOK
<1>4. done' \in BOOLEAN
  BY <1>1 DEF SignalClose, closeVars, IInv, WSTypeOK, FlagsOK
<1>5. WSTypeOK'
  <2>1. FlagsOK'
    BY <1>1, <1>2, <1>3, <1>4 DEF IInv, WSTypeOK, FlagsOK, clientVars
  <2> QED
    BY <1>1, <1>2, <1>3, <2>1 DEF IInv, WSTypeOK, Serving, clientVars
<1>6. /\ UnderWay' = UnderWay \/ UnderWay' = wire
      /\ Live' => Live /\ UnderWay' = UnderWay
  BY <1>1, <1>3 DEF UnderWay, Live, Serving, BeingWritten
<1>7. UnderWay \in Seq(Messages) /\ Cut(UnderWay, UnderWay) /\ Cut(wire, UnderWay)
      /\ wire \in Seq(Messages)
  BY UnderWayType, CutSame DEF IInv, WSTypeOK
<1> QED
  BY <1>1, <1>3, <1>5, <1>6, <1>7, ReturnKeeps

\* A follow's goroutine ends, and is about to say so (server.go:906-940).
LEMMA EndStreamKeeps ==
    ASSUME IInv, NEW r \in Requests, EndStream(r),
           pc[r] = "failed" \/ pc[r] = "stream"
    PROVE  IInv'
<1> DEFINE m == Message("ended", r, 1)
<1> USE DEF queueVars, closeVars, writerVars, clientVars
<1>1. /\ UNCHANGED <<clientVars, wire, open, produced, queueVars, notify, closeVars,
                     writerVars>>
      /\ following' = FALSE
      /\ holding' = [holding EXCEPT ![r] = m]
      /\ pc' = [pc EXCEPT ![r] = IF done THEN "refused" ELSE "push"]
  BY DEF EndStream, Send, Goto
<1>2. m \in Messages /\ m.kind = "ended" /\ m.id = r
  BY DEF Messages, Message
<1>3. r \in Producers /\ Reader \in Producers /\ Reader # r /\ Requests \subseteq Producers
  BY DEF Producers, Requests, Reader
<1>4. /\ \A q \in Requests : q # r => pc'[q] = pc[q] /\ holding'[q] = holding[q]
      /\ pc'[Reader] = pc[Reader] /\ holding'[Reader] = holding[Reader]
      /\ pc'[r] = (IF done THEN "refused" ELSE "push") /\ holding'[r] = m
  BY <1>1, <1>3 DEF IInv, WSTypeOK
<1> HIDE DEF m
<1>5. WSTypeOK'
  <2>1. FlagsOK'
    BY <1>1 DEF IInv, WSTypeOK, FlagsOK
  <2>2. pc' \in [Producers -> Enqueueing \cup
                   {"read", "wait", "returned", "none", "stream", "failed"}]
        /\ holding' \in [Producers -> Messages \cup {None}]
    BY <1>1, <1>2, <1>3 DEF IInv, WSTypeOK, Enqueueing
  <2> QED
    BY <1>1, <2>1, <2>2 DEF IInv, WSTypeOK
<1>6. UnderWay' = UnderWay /\ Live' = Live
  BY <1>1 DEF UnderWay, Live, BeingWritten
<1>7. EnqueueOK' /\ OwedOK' /\ ClientNeverConfused'
  BY <1>1, <1>2, <1>4 DEF IInv, EnqueueOK, OwedOK, ClientNeverConfused, Enqueueing
<1>8. ~NotBegun(r) /\ call # "unary" /\ ~HasEnd(UnderWay, r)
  BY DEF IInv, NotBegunOK, UnaryOK, ChunksOK
<1>9. NotBegunOK'
  <2>1. \A q \in Requests : NotBegun(q)' => NotBegun(q) /\ q # r
    BY <1>1, <1>4, <1>8 DEF NotBegun
  <2> QED
    BY <2>1, <1>1, <1>4, <1>6 DEF IInv, NotBegunOK
<1>10. ChunksOK'
  <2>1. pc[r] = "failed" => done
    BY DEF IInv, ChunksOK
  <2>2. Live /\ pc[r] = "stream" => Reaches(UnderWay, received, r, produced[r])
    BY DEF IInv, ChunksOK
  <2>3. UpTo(UnderWay, r, produced[r])
    BY DEF IInv, ChunksOK
  <2>4. \A q \in Requests : q # r =>
          /\ UpTo(UnderWay, q, produced[q])
          /\ HasEnd(UnderWay, q) =>
                pc'[q] = "none" \/ (pc'[q] = "notify" /\ holding'[q].kind = "ended")
          /\ pc'[q] \in InHand /\ holding'[q].kind = "data" =>
                UpTo(UnderWay, q, produced[q] - 1)
          /\ pc'[q] = "failed" => done'
          /\ Live' /\ (pc'[q] \in {"stream", "notify"}
                       \/ (pc'[q] = "push" /\ holding'[q].kind = "ended")) =>
                Reaches(UnderWay, received, q, produced[q])
          /\ Live' /\ pc'[q] = "push" /\ holding'[q].kind = "data" =>
                Reaches(UnderWay, received, q, produced[q] - 1)
    BY <1>1, <1>4, <1>6 DEF IInv, ChunksOK
  <2>5. GapFree(UnderWay, received) /\ EndsAfterAll(UnderWay, received, produced)
    BY DEF IInv, ChunksOK
  <2> QED
    BY <1>1, <1>2, <1>4, <1>6, <1>8, <2>1, <2>2, <2>3, <2>4, <2>5 DEF ChunksOK
<1>11. AnswersOK' /\ UnaryOK'
  BY <1>1, <1>6, <1>8 DEF IInv, AnswersOK, UnaryOK
<1>12. FollowOK'
  <2>1. pc[r] = "failed" => done
    BY DEF IInv, ChunksOK
  <2> QED
    BY <1>1, <1>4, <1>6, <2>1 DEF IInv, FollowOK
<1> QED
  BY <1>5, <1>7, <1>9, <1>10, <1>11, <1>12 DEF IInv

\* A follow produces a chunk, which is refused at once if the connection is done
\* (server.go:1028-1038).
LEMMA WriteChunkKeeps ==
    ASSUME IInv, NEW r \in Requests, WriteChunk(r)
    PROVE  IInv'
<1> DEFINE m == Data(r, produced[r] + 1)
<1> USE DEF queueVars, closeVars, writerVars, clientVars
<1>1. /\ UNCHANGED <<clientVars, wire, open, following, queueVars, notify, closeVars,
                     writerVars>>
      /\ produced' = [produced EXCEPT ![r] = @ + 1] /\ pc[r] = "stream"
      /\ holding' = [holding EXCEPT ![r] = m]
      /\ pc' = [pc EXCEPT ![r] = IF done THEN "refused" ELSE "push"]
  BY DEF WriteChunk, Send, Goto
<1>2. /\ produced \in [Requests -> Nat] /\ produced[r] \in Nat
      /\ produced'[r] = produced[r] + 1 /\ produced'[r] - 1 = produced[r]
      /\ \A q \in Requests : q # r => produced'[q] = produced[q]
  BY <1>1 DEF IInv, WSTypeOK
<1>3. m \in Messages /\ m.kind = "data" /\ m.id = r /\ m.n = produced'[r]
  BY <1>2 DEF Messages, Message, Data
<1>4. r \in Producers /\ Reader \in Producers /\ Reader # r /\ Requests \subseteq Producers
  BY DEF Producers, Requests, Reader
<1>5. /\ \A q \in Requests : q # r => pc'[q] = pc[q] /\ holding'[q] = holding[q]
      /\ pc'[Reader] = pc[Reader] /\ holding'[Reader] = holding[Reader]
      /\ pc'[r] = (IF done THEN "refused" ELSE "push") /\ holding'[r] = m
  BY <1>1, <1>4 DEF IInv, WSTypeOK
<1> HIDE DEF m
<1>6. WSTypeOK'
  <2>1. FlagsOK'
    BY <1>1 DEF IInv, WSTypeOK, FlagsOK
  <2>2. pc' \in [Producers -> Enqueueing \cup
                   {"read", "wait", "returned", "none", "stream", "failed"}]
        /\ holding' \in [Producers -> Messages \cup {None}]
        /\ produced' \in [Requests -> Nat]
    BY <1>1, <1>2, <1>3, <1>4 DEF IInv, WSTypeOK, Enqueueing
  <2> QED
    BY <1>1, <2>1, <2>2 DEF IInv, WSTypeOK
<1>7. UnderWay' = UnderWay /\ Live' = Live
  BY <1>1 DEF UnderWay, Live, BeingWritten
<1>8. EnqueueOK' /\ OwedOK' /\ ClientNeverConfused'
  BY <1>1, <1>2, <1>3, <1>5 DEF IInv, EnqueueOK, OwedOK, ClientNeverConfused, Enqueueing
<1>9. ~NotBegun(r) /\ call # "unary" /\ ~HasEnd(UnderWay, r)
  BY <1>1 DEF IInv, NotBegunOK, UnaryOK, ChunksOK
<1>10. NotBegunOK'
  <2>1. \A q \in Requests : NotBegun(q)' => NotBegun(q) /\ q # r
    BY <1>1, <1>5, <1>9 DEF NotBegun
  <2> QED
    BY <2>1, <1>1, <1>2, <1>5, <1>7 DEF IInv, NotBegunOK
<1>11. ChunksOK'
  <2>1. Live => Reaches(UnderWay, received, r, produced[r])
    BY <1>1 DEF IInv, ChunksOK
  <2>2. UpTo(UnderWay, r, produced[r])
    BY DEF IInv, ChunksOK
  <2>3. UpTo(UnderWay, r, produced'[r])
    <3>1. UnderWay \in Seq(Messages)
      BY UnderWayType DEF IInv
    <3>2. \A i \in 1 .. Len(UnderWay) : UnderWay[i] \in Messages
      BY <3>1, ElementOfSeq
    <3>3. \A i \in 1 .. Len(UnderWay) : UnderWay[i].n \in Nat
      BY <3>2 DEF Messages
    <3> QED
      BY <1>2, <2>2, <3>3 DEF UpTo
  <2>4. \A q \in Requests : q # r =>
          /\ UpTo(UnderWay, q, produced'[q])
          /\ HasEnd(UnderWay, q) =>
                pc'[q] = "none" \/ (pc'[q] = "notify" /\ holding'[q].kind = "ended")
          /\ pc'[q] \in InHand /\ holding'[q].kind = "data" =>
                UpTo(UnderWay, q, produced'[q] - 1)
          /\ pc'[q] = "failed" => done'
          /\ Live' /\ (pc'[q] \in {"stream", "notify"}
                       \/ (pc'[q] = "push" /\ holding'[q].kind = "ended")) =>
                Reaches(UnderWay, received, q, produced'[q])
          /\ Live' /\ pc'[q] = "push" /\ holding'[q].kind = "data" =>
                Reaches(UnderWay, received, q, produced'[q] - 1)
    BY <1>1, <1>2, <1>5, <1>7 DEF IInv, ChunksOK
  <2>5. GapFree(UnderWay, received) /\ EndsAfterAll(UnderWay, received, produced')
    <3>1. EndsAfterAll(UnderWay, received, produced) /\ GapFree(UnderWay, received)
      BY DEF IInv, ChunksOK
    <3>2. \A i \in 1 .. Len(UnderWay) : UnderWay[i].kind = "ended" =>
             UnderWay[i].id \in Requests /\ UnderWay[i].id # r
      <4>1. sent \in 0 .. MaxRequests /\ MaxRequests \in Nat
        BY WSBoundsOK DEF IInv, WSTypeOK
      <4>2. 1 .. sent \subseteq Requests
        BY <4>1 DEF Requests
      <4> QED
        BY <4>2, <1>9 DEF HasEnd, IInv, AnswersOK, AnswersTo
    <3> QED
      BY <3>1, <3>2, <1>2 DEF EndsAfterAll
  <2> QED
    BY <1>1, <1>2, <1>3, <1>5, <1>7, <1>9, <2>1, <2>2, <2>3, <2>4, <2>5 DEF ChunksOK
<1>12. AnswersOK' /\ UnaryOK'
  BY <1>1, <1>7, <1>9 DEF IInv, AnswersOK, UnaryOK
<1>13. FollowOK'
  BY <1>1, <1>5, <1>7 DEF IInv, FollowOK
<1> QED
  BY <1>6, <1>8, <1>10, <1>11, <1>12, <1>13 DEF IInv

\* The read loop takes a request and has its answer, at once (server.go:781-905).
LEMMA ReadRequestKeeps ==
    ASSUME IInv, NEW r \in Requests, NEW kind \in {"unary", "follow"},
           ReadRequest(r, kind)
    PROVE  IInv'
<1> USE DEF queueVars, closeVars, writerVars, clientVars
<1>1. /\ UNCHANGED <<call, client, started, received, wire, open, produced, queueVars,
                     notify, closeVars, writerVars>>
      /\ sent' = r /\ r = sent + 1 /\ pc[Reader] = "read"
      /\ call # "peer" => sent = 0 /\ kind = call
      /\ \E m \in Messages :
            /\ m.kind \in {"response", "started"} /\ m.id = r
            /\ kind = "unary" => m.kind = "response"
            /\ holding' = [holding EXCEPT ![Reader] = m]
      /\ pc' = [pc EXCEPT ![Reader] = IF done THEN "refused" ELSE "push"]
      /\ following' \in BOOLEAN
  <2>1. \A size \in Nat : Response(r, size) \in Messages
          /\ Response(r, size).kind = "response" /\ Response(r, size).id = r
    BY DEF Messages, Response, Message
  <2>2. Message("started", r, 1) \in Messages
        /\ Message("started", r, 1).kind = "started" /\ Message("started", r, 1).id = r
    BY DEF Messages, Message
  <2>3. ResponseSizes \subseteq Nat /\ 1 \in Nat
    BY WSBoundsOK
  <2>4. CASE kind = "unary"
    BY <2>1, <2>3, <2>4 DEF ReadRequest, Send, Goto, IInv, WSTypeOK, FlagsOK
  <2>5. CASE kind = "follow"
    <3>1. StartFollow(r)
      BY <2>5 DEF ReadRequest
    <3>2. following' = following \/ following' = TRUE
      BY <3>1 DEF StartFollow
    <3>3. following' \in BOOLEAN
      BY <3>2 DEF IInv, WSTypeOK, FlagsOK
    <3>4. Send(Reader, Response(r, 1)) \/ Send(Reader, Message("started", r, 1))
      BY <3>1 DEF StartFollow
    <3> QED
      BY <2>1, <2>2, <2>3, <2>5, <3>3, <3>4 DEF ReadRequest, Send, Goto
  <2> QED
    BY <2>4, <2>5
<1>2. PICK m \in Messages :
         /\ m.kind \in {"response", "started"} /\ m.id = r
         /\ kind = "unary" => m.kind = "response"
         /\ holding' = [holding EXCEPT ![Reader] = m]
  BY <1>1
<1>3. Reader \in Producers /\ Reader \notin Requests /\ Requests \subseteq Producers
  BY DEF Producers, Requests, Reader
<1>4. /\ \A q \in Requests : pc'[q] = pc[q] /\ holding'[q] = holding[q]
      /\ pc'[Reader] = (IF done THEN "refused" ELSE "push") /\ holding'[Reader] = m
  BY <1>1, <1>2, <1>3 DEF IInv, WSTypeOK
<1>5. WSTypeOK'
  <2>1. FlagsOK'
    BY <1>1 DEF IInv, WSTypeOK, FlagsOK
  <2>2. pc' \in [Producers -> Enqueueing \cup
                   {"read", "wait", "returned", "none", "stream", "failed"}]
        /\ holding' \in [Producers -> Messages \cup {None}]
    BY <1>1, <1>2, <1>3 DEF IInv, WSTypeOK, Enqueueing
  <2>3. sent' \in 0 .. MaxRequests
    BY <1>1, WSBoundsOK DEF Requests
  <2> QED
    BY <1>1, <2>1, <2>2, <2>3 DEF IInv, WSTypeOK
<1>6. UnderWay' = UnderWay /\ Live' = Live
  BY <1>1 DEF UnderWay, Live, BeingWritten
<1>7. EnqueueOK' /\ OwedOK' /\ ClientNeverConfused'
  BY <1>1, <1>2, <1>4 DEF IInv, EnqueueOK, OwedOK, ClientNeverConfused, Enqueueing
<1>8. \A q \in Requests : NotBegun(q)' => NotBegun(q)
  BY <1>1, <1>4 DEF NotBegun, Requests, IInv, WSTypeOK
<1>9. NotBegunOK'
  BY <1>1, <1>4, <1>6, <1>8 DEF IInv, NotBegunOK
<1>10. ChunksOK'
  BY <1>1, <1>4, <1>6 DEF IInv, ChunksOK
<1>11. AnswersOK'
  <2>1. 1 .. sent \subseteq 1 .. sent'
    BY <1>1 DEF IInv, WSTypeOK
  <2> QED
    BY <2>1, <1>6 DEF IInv, AnswersOK, AnswersTo
<1>12. UnaryOK'
  BY <1>1, <1>2, <1>4, <1>6 DEF IInv, UnaryOK
<1>13. FollowOK'
  <2> SUFFICES ASSUME call = "follow" PROVE FollowOK'
    BY <1>1 DEF FollowOK
  <2>1. /\ sent = 0 /\ sent' = 1 /\ AckFirst(UnderWay, started)
        /\ ~started /\ ~HasAck(UnderWay)
    BY <1>1 DEF IInv, FollowOK
  <2>2. \A q \in Requests : pc'[q] = "none"
    BY <2>1, <1>4 DEF IInv, NotBegunOK, NotBegun, Requests
  <2> QED
    BY <2>1, <2>2, <1>1, <1>4, <1>6 DEF FollowOK
<1> QED
  BY <1>5, <1>7, <1>9, <1>10, <1>11, <1>12, <1>13 DEF IInv


\* The client reads the oldest message under way, and goes on unless it returns
\* (client.go:139-160, 196-243).
LEMMA ClientReadsKeeps == ASSUME IInv, ClientReads PROVE IInv'
<1> DEFINE m == Head(wire)
<1> USE DEF producerVars, queueVars, closeVars, writerVars
<1>1. /\ UNCHANGED <<call, sent, producerVars, queueVars, notify, closeVars, writerVars>>
      /\ wire # <<>> /\ client = "open"
      /\ started' = (started \/ (call = "follow" /\ m.kind = "started"))
      /\ received' = IF m.kind = "data"
                       THEN [received EXCEPT ![m.id] = @ + 1] ELSE received
      /\ wire' = IF client' = "open" THEN Tail(wire) ELSE <<>>
      /\ IF client' = "open" THEN UNCHANGED open ELSE open' = FALSE
      /\ client' = CASE call = "peer" -> "open"
                     [] call = "unary" -> UnaryReads(m)
                     [] call = "follow" -> FollowReads(m)
  BY DEF ClientReads, Leave, Close
<1>2. /\ UnderWay \in Seq(Messages) /\ wire \in Seq(Messages)
      /\ m \in Messages /\ Cut(wire, UnderWay)
      /\ sent \in 0 .. MaxRequests /\ MaxRequests \in Nat
      /\ received \in [Requests -> Nat] /\ produced \in [Requests -> Nat]
  BY <1>1, UnderWayType, HeadTailProperties, WSBoundsOK DEF IInv, WSTypeOK
<1>3. 1 <= Len(UnderWay) /\ UnderWay[1] = m
  BY <1>1, <1>2, EmptySeq, LenProperties DEF Cut
<1>4. m.kind # "close" => m.id \in 1 .. sent /\ m.id \in Requests
  <2>1. AnswersTo(UnderWay, sent) /\ 1 \in 1 .. Len(UnderWay)
    BY <1>2, <1>3, LenProperties DEF IInv, AnswersOK
  <2>2. m.kind # "close" => m.id \in 1 .. sent
    BY <2>1, <1>3 DEF AnswersTo
  <2> QED
    BY <2>2, <1>2 DEF Requests
<1>5. m.kind \in {"response", "started", "data", "ended", "close"}
  BY <1>2 DEF Messages
<1> HIDE DEF m
<1>6. client' \in {"open", "stopped", "answered", "ended"}
  <2>1. CASE call = "peer"
    BY <1>1, <2>1
  <2>2. CASE call = "unary"
    <3>1. m.kind \in {"response", "close"} /\ sent <= 1
      BY <1>3, <2>2, <1>2 DEF IInv, UnaryOK, OnlyResponses
    <3> QED
      BY <3>1, <1>1, <1>2, <1>4, <2>2 DEF UnaryReads
  <2>3. CASE call = "follow"
    <3>1. /\ m.kind \in {"data", "ended"} => started
          /\ m.kind = "started" => ~started
          /\ sent <= 1
      BY <1>3, <2>3, <1>2 DEF IInv, FollowOK, AckFirst
    <3>2. client' = FollowReads(m)
      BY <1>1, <2>3
    <3> QED
      BY <3>1, <3>2, <1>2, <1>4, <1>5 DEF FollowReads
  <2> QED
    BY <2>1, <2>2, <2>3 DEF IInv, WSTypeOK
<1>7. received' \in [Requests -> Nat]
  BY <1>1, <1>2, <1>4
<1>8. WSTypeOK'
  <2>1. FlagsOK'
    BY <1>1 DEF IInv, WSTypeOK, FlagsOK
  <2>2. wire' \in Seq(Messages)
    BY <1>1, <1>2, HeadTailProperties, EmptySeq
  <2> QED
    BY <1>1, <1>6, <1>7, <2>1, <2>2 DEF IInv, WSTypeOK
<1>9. /\ UnderWay # <<>> /\ Head(UnderWay) = m
      /\ Live' => Live
      /\ client' = "open" => Live' = Live /\ UnderWay' = Tail(UnderWay)
      /\ client' # "open" => ~Live' /\ UnderWay' = <<>>
  BY <1>8, ReadUnderWay DEF IInv, m
<1>10. EnqueueOK' /\ OwedOK' /\ ClientNeverConfused'
  BY <1>1, <1>6 DEF IInv, EnqueueOK, OwedOK, ClientNeverConfused
<1>11. /\ GapFree(UnderWay, received)
       /\ EndsAfterAll(UnderWay, received, produced)
       /\ \A r \in Requests : UpTo(UnderWay, r, produced[r])
  BY DEF IInv, ChunksOK
<1>12. /\ GapFree(Tail(UnderWay), received')
       /\ EndsAfterAll(Tail(UnderWay), received', produced)
       /\ \A r : /\ \A n : /\ UpTo(UnderWay, r, n) => UpTo(Tail(UnderWay), r, n)
                           /\ Reaches(UnderWay, received, r, n) /\ UpTo(UnderWay, r, n) =>
                                 Reaches(Tail(UnderWay), received', r, n)
                 /\ HasEnd(Tail(UnderWay), r) => HasEnd(UnderWay, r)
                 /\ NoneFrom(UnderWay, r) => NoneFrom(Tail(UnderWay), r)
                 /\ NoneFrom(UnderWay, r) => received'[r] = received[r]
       /\ \A k : AnswersTo(UnderWay, k) => AnswersTo(Tail(UnderWay), k)
       /\ HasAck(UnderWay) <=> HasAck(Tail(UnderWay)) \/ m.kind = "started"
       /\ \A acked \in BOOLEAN :
             AckFirst(UnderWay, acked) =>
                AckFirst(Tail(UnderWay), acked \/ m.kind = "started")
       /\ OnlyResponses(UnderWay) => OnlyResponses(Tail(UnderWay))
  <2>1. Rest(UnderWay, m, Tail(UnderWay)) /\ Tail(UnderWay) \in Seq(Messages)
    BY <1>2, <1>9, TailIsRest
  <2>2. Counts(received, m, received')
    BY <1>1 DEF Counts
  <2>3. UnderWay # <<>> /\ (m.kind = "data" => m.id \in Requests)
    BY <1>4, <1>5, <1>9
  <2>4. PICK f, g, now : f = UnderWay /\ g = Tail(UnderWay) /\ now = received'
    OBVIOUS
  <2>5. /\ f \in Seq(Messages) /\ f # <<>> /\ g \in Seq(Messages) /\ m \in Messages
        /\ received \in [Requests -> Nat] /\ produced \in [Requests -> Nat]
        /\ now \in [Requests -> Nat] /\ Rest(f, m, g) /\ Counts(received, m, now)
        /\ m.kind = "data" => m.id \in Requests
        /\ GapFree(f, received) /\ EndsAfterAll(f, received, produced)
        /\ \A r \in Requests : UpTo(f, r, produced[r])
    BY <1>2, <1>7, <1>11, <2>1, <2>2, <2>3, <2>4
  <2>6. GapFree(g, now) /\ EndsAfterAll(g, now, produced)
    BY ONLY <2>5, TailKeeps
  <2>7. /\ \A r, n : Reaches(f, received, r, n) /\ UpTo(f, r, n) => Reaches(g, now, r, n)
        /\ \A r : NoneFrom(f, r) => now[r] = received[r]
    BY ONLY <2>5, TailReaches
  <2>8. /\ \A r : /\ \A n : UpTo(f, r, n) => UpTo(g, r, n)
                  /\ HasEnd(g, r) => HasEnd(f, r)
                  /\ NoneFrom(f, r) => NoneFrom(g, r)
        /\ \A k : AnswersTo(f, k) => AnswersTo(g, k)
        /\ HasAck(f) <=> HasAck(g) \/ m.kind = "started"
        /\ \A acked \in BOOLEAN : AckFirst(f, acked) => AckFirst(g, acked \/ m.kind = "started")
        /\ OnlyResponses(f) => OnlyResponses(g)
    BY ONLY <2>5, TailHas
  <2> QED
    BY <2>4, <2>6, <2>7, <2>8
<1>13. \A r : NotBegun(r)' <=> NotBegun(r)
  BY <1>1 DEF NotBegun
<1>14. CASE client' = "open"
  <2>1. UnderWay' = Tail(UnderWay) /\ Live' = Live
    BY <1>9, <1>14
  <2>2. NotBegunOK'
    BY <1>1, <1>12, <1>13, <2>1 DEF IInv, NotBegunOK
  <2>3. ChunksOK'
    <3>1. \A r \in Requests : UpTo(Tail(UnderWay), r, produced[r])
      BY <1>11, <1>12
    <3>2. \A r \in Requests :
             HasEnd(Tail(UnderWay), r) =>
                pc[r] = "none" \/ (pc[r] = "notify" /\ holding[r].kind = "ended")
      BY <1>12 DEF IInv, ChunksOK
    <3>3. \A r \in Requests :
             /\ pc[r] \in InHand /\ holding[r].kind = "data" =>
                   UpTo(Tail(UnderWay), r, produced[r] - 1)
             /\ pc[r] = "failed" => done
      BY <1>12 DEF IInv, ChunksOK
    <3>4. \A r \in Requests :
             Live /\ (pc[r] \in {"stream", "notify"}
                       \/ (pc[r] = "push" /\ holding[r].kind = "ended")) =>
                Reaches(Tail(UnderWay), received', r, produced[r])
      BY <1>11, <1>12 DEF IInv, ChunksOK
    <3>5. \A r \in Requests :
             Live /\ pc[r] = "push" /\ holding[r].kind = "data" =>
                Reaches(Tail(UnderWay), received', r, produced[r] - 1)
      <4>1. \A r \in Requests :
               Live /\ pc[r] = "push" /\ holding[r].kind = "data" =>
                  /\ Reaches(UnderWay, received, r, produced[r] - 1)
                  /\ UpTo(UnderWay, r, produced[r] - 1)
        BY DEF IInv, ChunksOK, InHand
      <4> QED
        BY <4>1, <1>12
    <3> QED
      BY <1>1, <1>12, <2>1, <3>1, <3>2, <3>3, <3>4, <3>5 DEF ChunksOK
  <2>4. AnswersOK' /\ UnaryOK'
    BY <1>1, <1>12, <2>1 DEF IInv, AnswersOK, UnaryOK
  <2>5. FollowOK'
    <3> SUFFICES ASSUME call = "follow" PROVE FollowOK'
      BY <1>1 DEF FollowOK
    <3>1. started' = (started \/ m.kind = "started") /\ started \in BOOLEAN
      BY <1>1 DEF IInv, WSTypeOK, FlagsOK
    <3>2. AckFirst(Tail(UnderWay), started')
      BY <3>1, <1>12 DEF IInv, FollowOK
    <3>3. HasAck(UnderWay) <=> HasAck(Tail(UnderWay)) \/ m.kind = "started"
      BY <1>12
    <3> QED
      BY <3>1, <3>2, <3>3, <1>1, <2>1 DEF IInv, FollowOK
  <2> QED
    BY <1>8, <1>10, <2>2, <2>3, <2>4, <2>5 DEF IInv
<1>15. CASE client' # "open"
  <2>1. UnderWay' = <<>> /\ ~Live' /\ Len(<<>>) = 0 /\ 1 .. 0 = {}
    BY <1>9, <1>15
  <2>2. NotBegunOK'
    BY <1>1, <1>12, <1>13, <2>1 DEF IInv, NotBegunOK, NoneFrom
  <2>3. ChunksOK'
    BY <1>1, <2>1 DEF IInv, ChunksOK, GapFree, EndsAfterAll, UpTo, HasEnd
  <2>4. AnswersOK' /\ UnaryOK'
    BY <1>1, <2>1 DEF IInv, AnswersOK, UnaryOK, AnswersTo, OnlyResponses
  <2>5. FollowOK'
    <3> SUFFICES ASSUME call = "follow" PROVE FollowOK'
      BY <1>1 DEF FollowOK
    <3>1. started' = (started \/ m.kind = "started")
          /\ (HasAck(UnderWay) <=> HasAck(Tail(UnderWay)) \/ m.kind = "started")
      BY <1>1, <1>12
    <3>2. AckFirst(<<>>, started') /\ ~HasAck(<<>>)
      BY <2>1 DEF AckFirst, HasAck
    <3> QED
      BY <3>1, <3>2, <1>1, <2>1 DEF IInv, FollowOK
  <2> QED
    BY <1>8, <1>10, <2>2, <2>3, <2>4, <2>5 DEF IInv
<1> QED
  BY <1>14, <1>15

\* The connection is lost, and all that was under way with it
\* (client.go:105-135, 196-206).
LEMMA ClientStopsKeeps == ASSUME IInv, ClientStops PROVE IInv'
<1> USE DEF producerVars, queueVars, closeVars, writerVars
<1>1. /\ UNCHANGED <<call, started, sent, producerVars, queueVars, notify, closeVars,
                     writerVars>>
      /\ client' = "stopped" /\ open' = FALSE /\ wire' = <<>>
      /\ received' = [r \in Requests |-> 0]
  BY DEF ClientStops, Leave, Close
<1>2. WSTypeOK'
  <2>1. FlagsOK'
    BY <1>1 DEF IInv, WSTypeOK, FlagsOK
  <2> QED
    BY <1>1, <2>1, EmptySeq DEF IInv, WSTypeOK
<1>3. UnderWay' = <<>> /\ ~Live' /\ Len(<<>>) = 0 /\ 1 .. 0 = {}
  BY <1>1 DEF UnderWay, Live
<1>4. EnqueueOK' /\ OwedOK' /\ ClientNeverConfused'
  BY <1>1 DEF IInv, EnqueueOK, OwedOK, ClientNeverConfused
<1>5. NotBegunOK'
  <2>1. \A r : NotBegun(r)' <=> NotBegun(r)
    BY <1>1 DEF NotBegun
  <2> QED
    BY <1>1, <1>3, <2>1 DEF IInv, NotBegunOK, NoneFrom
<1>6. ChunksOK'
  BY <1>1, <1>3 DEF IInv, ChunksOK, GapFree, EndsAfterAll, UpTo, HasEnd
<1>7. AnswersOK' /\ UnaryOK'
  BY <1>1, <1>3 DEF IInv, AnswersOK, UnaryOK, AnswersTo, OnlyResponses
<1>8. FollowOK'
  <2>1. AckFirst(<<>>, started') /\ ~HasAck(<<>>)
    BY <1>3 DEF AckFirst, HasAck
  <2> QED
    BY <2>1, <1>1, <1>3 DEF IInv, FollowOK
<1> QED
  BY <1>2, <1>4, <1>5, <1>6, <1>7, <1>8 DEF IInv

-----------------------------------------------------------------------------
(* The theorems                                                            *)

\* A new connection satisfies the invariant (server.go:733-768).
LEMMA InitIInv == Init => IInv
<1> SUFFICES ASSUME Init PROVE IInv
  OBVIOUS
<1> USE DEF Init
<1>1. Reader \in Producers /\ Reader \notin Requests /\ Requests \subseteq Producers
  BY DEF Producers, Requests, Reader
<1>2. WSTypeOK
  <2>1. FlagsOK
    BY DEF FlagsOK
  <2>2. <<>> \in Seq(Messages)
    BY EmptySeq
  <2> QED
    BY <1>1, <2>1, <2>2, WSBoundsOK DEF WSTypeOK, Enqueueing, Serving
<1>3. UnderWay = <<>> /\ Len(<<>>) = 0 /\ 1 .. 0 = {}
  BY EmptySeq, ConcatEmptySeq DEF UnderWay, BeingWritten
<1>4. EnqueueOK
  BY <1>1 DEF EnqueueOK, Enqueueing
<1>5. NotBegunOK
  BY <1>1, <1>3 DEF NotBegunOK, NoneFrom
<1>6. ChunksOK
  BY <1>1, <1>3 DEF ChunksOK, GapFree, EndsAfterAll, UpTo, HasEnd, Reaches, InHand
<1>7. AnswersOK /\ UnaryOK
  BY <1>1, <1>3 DEF AnswersOK, UnaryOK, AnswersTo, OnlyResponses, Enqueueing
<1>8. FollowOK
  <2>1. AckFirst(<<>>, started) /\ ~HasAck(<<>>)
    BY <1>3 DEF AckFirst, HasAck
  <2> QED
    BY <1>1, <1>3, <2>1 DEF FollowOK, InHand
<1> QED
  BY <1>2, <1>4, <1>5, <1>6, <1>7, <1>8 DEF IInv, ClientNeverConfused, OwedOK

\* Every step keeps the invariant.
LEMMA NextIInv == IInv /\ [Next]_vars => IInv'
<1> SUFFICES ASSUME IInv, [Next]_vars PROVE IInv'
  OBVIOUS
<1>1. CASE UNCHANGED vars
  <2>1. UNCHANGED <<call, client, started, sent, received, wire, open, pc, holding,
                    produced, following, queue, bytes, notify, closeReq, done, owed,
                    writer, writing>>
    BY <1>1 DEF vars, clientVars, producerVars, queueVars, closeVars, writerVars
  <2>2. UnderWay' = UnderWay /\ Live' = Live
    BY <2>1 DEF UnderWay, Live, BeingWritten
  <2>3. WSTypeOK'
    BY <2>1 DEF IInv, WSTypeOK, FlagsOK
  <2>4. EnqueueOK' /\ OwedOK' /\ ClientNeverConfused'
    BY <2>1 DEF IInv, EnqueueOK, OwedOK, ClientNeverConfused
  <2>5. NotBegunOK'
    BY <2>1, <2>2 DEF IInv, NotBegunOK, NotBegun
  <2>6. ChunksOK'
    BY <2>1, <2>2 DEF IInv, ChunksOK
  <2>7. AnswersOK' /\ UnaryOK' /\ FollowOK'
    BY <2>1, <2>2 DEF IInv, AnswersOK, UnaryOK, FollowOK
  <2> QED
    BY <2>3, <2>4, <2>5, <2>6, <2>7 DEF IInv
<1>2. ASSUME NEW p \in Producers, EnqueueStep(p) PROVE IInv'
  BY <1>2, TryPushKeeps, NotifyKeeps, RefusedKeeps DEF EnqueueStep
<1>3. ASSUME NEW r \in Requests, NEW kind \in {"unary", "follow"}, ReadRequest(r, kind)
      PROVE IInv'
  BY <1>3, ReadRequestKeeps
<1>4. ASSUME NEW r \in Requests, FollowerStep(r) \/ WriteChunk(r) \/ TargetEnds(r)
      PROVE IInv'
  <2>1. r \in Producers
    BY DEF Producers
  <2> QED
    BY <1>2, <1>4, <2>1, EndStreamKeeps, WriteChunkKeeps
       DEF FollowerStep, StreamStops, TargetEnds
<1>5. CASE ReaderStep \/ ReadTimesOut
  <2>1. Reader \in Producers
    BY DEF Producers
  <2> QED
    BY <1>2, <1>5, <2>1, StopReadingKeeps, RunReturnsKeeps
       DEF ReaderStep, ReadFails, ReadTimesOut
<1>6. CASE WriterStep \/ Ping
  BY <1>6, WriterTopKeeps, WriterSelectKeeps, WriteKeeps, WriteFailsKeeps,
     WriterEndsKeeps, PingKeeps DEF WriterStep
<1>7. CASE ClientReads \/ ClientStops \/ ServerSignals \/ ForceClose
  BY <1>7, ClientReadsKeeps, ClientStopsKeeps, ServerSignalsKeeps, ForceCloseKeeps
<1> QED
  BY <1>1, <1>3, <1>4, <1>5, <1>6, <1>7 DEF Next

\* The inductive invariant holds of every connection.
THEOREM Invariance == Spec => []IInv
  BY InitIInv, NextIInv, PTL DEF Spec

\* Every variable has its type; in particular byteQueue never holds more than
\* maxBytes (server.go:711-727).
THEOREM TypeCorrect == Spec => []WSTypeOK
<1>1. IInv => WSTypeOK
  BY DEF IInv
<1> QED
  BY <1>1, Invariance, PTL

\* What the client reads next of a follow is the chunk after the last it has read,
\* and the end of it only once it has read all (server.go:711-727, 942-977,
\* 1028-1038; client.go:196-243).
THEOREM FollowsHaveNoGapsHolds == Spec => []FollowsHaveNoGaps
<1>1. IInv => FollowsHaveNoGaps
  <2> SUFFICES ASSUME IInv, wire # <<>>
               PROVE  /\ Head(wire).kind = "data" =>
                           Head(wire).n = received[Head(wire).id] + 1
                      /\ Head(wire).kind = "ended" =>
                           received[Head(wire).id] = produced[Head(wire).id]
    BY DEF FollowsHaveNoGaps
  <2>1. wire \in Seq(Messages) /\ UnderWay \in Seq(Messages) /\ Cut(wire, UnderWay)
    BY UnderWayType DEF IInv, WSTypeOK
  <2>2. 1 <= Len(UnderWay) /\ UnderWay[1] = Head(wire)
    BY <2>1, EmptySeq, LenProperties DEF Cut
  <2>3. GapFree(UnderWay, received) /\ EndsAfterAll(UnderWay, received, produced)
    BY DEF IInv, ChunksOK
  <2>4. 1 \in 1 .. Len(UnderWay) /\ 1 .. 1 - 1 = {}
    BY <2>1, <2>2, LenProperties
  <2> QED
    BY <2>2, <2>3, <2>4 DEF GapFree, EndsAfterAll
<1> QED
  BY <1>1, Invariance, PTL

\* Unary and Follow never meet an answer their protocol has no place for
\* (client.go:139-160, 196-243 against server.go:845-940).
THEOREM ClientNeverConfusedHolds == Spec => []ClientNeverConfused
<1>1. IInv => ClientNeverConfused
  BY DEF IInv
<1> QED
  BY <1>1, Invariance, PTL

\* A connection that was asked to close says so, unless a write failed or the
\* request came just between pop and the select (server.go:813-843, 988-1000).
THEOREM CloseIsSaidHolds == Spec => []CloseIsSaid
<1>1. IInv => CloseIsSaid
  BY DEF IInv, OwedOK, CloseIsSaid
<1> QED
  BY <1>1, Invariance, PTL

=============================================================================
