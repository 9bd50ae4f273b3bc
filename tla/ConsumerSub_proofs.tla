------------------------- MODULE ConsumerSub_proofs -------------------------
(***************************************************************************)
(* Machine-checked proofs about ConsumerSub, for every set of partitions,  *)
(* pollers and callers, every log and every watermark.                     *)
(***************************************************************************)
EXTENDS ConsumerSub, SequenceTheorems, WellFoundedInduction, TLAPS

\* The min of two lengths, as the poll computes how many messages to take.
LEMMA MinOfTwo ==
    ASSUME NEW a \in Nat, NEW b \in Nat
    PROVE  Min({a, b}) = IF a <= b THEN a ELSE b
BY DEF Min

\* What is left of a sequence after its first k elements.
LEMMA DropFirst ==
    ASSUME NEW S, NEW s \in Seq(S), NEW k \in Nat, k <= Len(s)
    PROVE  /\ SubSeq(s, k + 1, Len(s)) \in Seq(S)
           /\ Len(SubSeq(s, k + 1, Len(s))) = Len(s) - k
           /\ \A i \in 1 .. Len(s) - k : SubSeq(s, k + 1, Len(s))[i] = s[k + i]
<1>1. Len(s) \in Nat /\ \A i \in k + 1 .. Len(s) : s[i] \in S
    OBVIOUS
<1>2. /\ SubSeq(s, k + 1, Len(s)) \in Seq(S)
      /\ Len(SubSeq(s, k + 1, Len(s))) = IF k + 1 <= Len(s) THEN Len(s) - (k + 1) + 1 ELSE 0
      /\ \A i \in 1 .. Len(s) - (k + 1) + 1 :
             SubSeq(s, k + 1, Len(s))[i] = s[(k + 1) + i - 1]
    BY <1>1, SubSeqProperties
<1>3. QED
    BY <1>1, <1>2

\* Popping the oldest message changes the buffer.
LEMMA TailIsOther ==
    ASSUME NEW S, NEW s \in Seq(S), s # <<>>
    PROVE  Tail(s) # s
<1>1. Len(s) \in Nat
    OBVIOUS
<1>2. SUFFICES ASSUME Tail(s) = s PROVE FALSE
    OBVIOUS
<1>3. Len(s) = Len(s) - 1
    BY <1>2, HeadTailProperties
<1>4. QED
    BY <1>1, <1>3

\* Arrival numbers form an interval that grows by one at its end.
LEMMA Interval ==
    ASSUME NEW b \in Int, NEW k \in Nat
    PROVE  {b + i : i \in 1 .. k} = b + 1 .. b + k
<1>1. ASSUME NEW x \in b + 1 .. b + k PROVE \E i \in 1 .. k : x = b + i
  <2>1. x - b \in 1 .. k /\ x = b + (x - b)
    OBVIOUS
  <2>2. QED
    BY <2>1
<1>2. \A i \in 1 .. k : b + i \in b + 1 .. b + k
    OBVIOUS
<1>3. QED
    BY <1>1, <1>2

-----------------------------------------------------------------------------
(* Bytes, the sum of the sizes of a sequence of messages *)

\* Every set of naturals that is not empty has a least element.
LEMMA Least ==
    ASSUME NEW T, T \subseteq Nat, T # {}
    PROVE  \E x \in T : \A y \in T : ~(y < x)
<1>1. \E x \in T : \A y \in T : ~(<<y, x>> \in OpToRel(<, Nat))
  BY NatLessThanWellFounded, WFMin
<1> QED BY <1>1 DEF OpToRel

\* Induction as a statement about a set: the library states it with an operator
\* parameter, which the installed provers cannot instantiate.
LEMMA NatSet ==
    ASSUME NEW S, 0 \in S, \A n \in Nat : n \in S => n + 1 \in S
    PROVE  Nat \subseteq S
<1> SUFFICES ASSUME Nat \ S # {} PROVE FALSE
  OBVIOUS
<1>1. PICK x \in Nat \ S : \A y \in Nat \ S : ~(y < x)
  BY Least
<1>2. x - 1 \in Nat /\ x - 1 < x
  BY <1>1
<1>3. x - 1 \in S
  BY <1>1, <1>2
<1>4. (x - 1) + 1 \in S
  BY <1>2, <1>3
<1> QED BY <1>1, <1>4

\* g[i] is the number of bytes of the first i messages of s.
IsSum(g, s) ==
    /\ g \in [0 .. Len(s) -> Int]
    /\ g[0] = 0
    /\ \A i \in 1 .. Len(s) : g[i] = g[i - 1] + s[i].bytes

\* Every sequence of messages has such partial sums.
LEMMA SumExists ==
    ASSUME NEW s \in Seq(Message)
    PROVE  \E g : IsSum(g, s)
<1> DEFINE Part(g, n) == /\ g \in [0 .. n -> Int] /\ g[0] = 0
                         /\ \A i \in 1 .. n : g[i] = g[i - 1] + s[i].bytes
           S == {n \in Nat : n <= Len(s) => \E g : Part(g, n)}
<1>0. Len(s) \in Nat
  OBVIOUS
<1>1. 0 \in S
  <2>1. Part([i \in 0 .. 0 |-> 0], 0)
    OBVIOUS
  <2> QED BY <2>1
<1>2. ASSUME NEW n \in Nat, n \in S PROVE n + 1 \in S
  <2>1. ASSUME n + 1 <= Len(s) PROVE \E g : Part(g, n + 1)
    <3>1. n <= Len(s)
      BY <1>0, <2>1
    <3>2. \E g : Part(g, n)
      <4> HIDE DEF Part
      <4> QED BY <1>2, <3>1
    <3>3. PICK g : Part(g, n)
      BY <3>2
    <3>4. n + 1 \in 1 .. Len(s)
      BY <1>0, <2>1
    <3>5. s[n + 1] \in Message
      BY <3>4
    <3>6. s[n + 1].bytes \in Int
      BY <3>5 DEF Message
    <3> DEFINE h == [i \in 0 .. n + 1 |-> IF i = n + 1 THEN g[n] + s[n + 1].bytes ELSE g[i]]
    <3>7. h \in [0 .. n + 1 -> Int] /\ h[0] = 0
      BY <3>3, <3>6
    <3>8. ASSUME NEW i \in 1 .. n + 1 PROVE h[i] = h[i - 1] + s[i].bytes
      <4>1. CASE i = n + 1
        BY <3>3, <3>6, <4>1
      <4>2. CASE i \in 1 .. n
        BY <3>3, <3>6, <4>2
      <4> QED BY <4>1, <4>2
    <3> HIDE DEF h
    <3>9. Part(h, n + 1)
      BY <3>7, <3>8
    <3> QED BY <3>9
  <2> HIDE DEF Part
  <2> QED BY <2>1
<1>3. Nat \subseteq S
  <2> HIDE DEF S
  <2> QED BY <1>1, <1>2, NatSet
<1>4. \E g : Part(g, Len(s))
  <2> HIDE DEF Part
  <2> QED BY <1>0, <1>3
<1> QED BY <1>4 DEF IsSum

\* Whatever satisfies the recursion of Bytes agrees with them.
LEMMA SumUnique ==
    ASSUME NEW s \in Seq(Message), NEW g, NEW h, IsSum(g, s),
           h = [i \in 0 .. Len(s) |-> IF i = 0 THEN 0 ELSE h[i - 1] + s[i].bytes]
    PROVE  h[Len(s)] = g[Len(s)]
<1> DEFINE S == {n \in Nat : n <= Len(s) => h[n] = g[n]}
<1>0. Len(s) \in Nat
  OBVIOUS
<1>1. 0 \in S
  BY <1>0 DEF IsSum
<1>2. ASSUME NEW n \in Nat, n \in S PROVE n + 1 \in S
  <2> SUFFICES ASSUME n + 1 <= Len(s) PROVE h[n + 1] = g[n + 1]
    OBVIOUS
  <2>1. n + 1 \in 1 .. Len(s) /\ n + 1 \in 0 .. Len(s) /\ n + 1 # 0 /\ (n + 1) - 1 = n /\ h[n] = g[n]
    BY <1>0, <1>2
  <2>2. h[n + 1] = h[(n + 1) - 1] + s[n + 1].bytes
    BY <2>1
  <2>3. g[n + 1] = g[(n + 1) - 1] + s[n + 1].bytes
    BY <2>1 DEF IsSum
  <2> QED BY <2>1, <2>2, <2>3
<1>3. Nat \subseteq S
  <2> HIDE DEF S
  <2> QED BY <1>1, <1>2, NatSet
<1> QED BY <1>0, <1>3

\* So Bytes is the last of the partial sums.
LEMMA BytesIs ==
    ASSUME NEW s \in Seq(Message), NEW g, IsSum(g, s)
    PROVE  Bytes(s) = g[Len(s)]
<1> DEFINE Eq(h) == h = [i \in 0 .. Len(s) |-> IF i = 0 THEN 0 ELSE h[i - 1] + s[i].bytes]
<1>1. Eq(g)
  <2>1. \A i \in 0 .. Len(s) : g[i] = IF i = 0 THEN 0 ELSE g[i - 1] + s[i].bytes
    BY DEF IsSum
  <2> QED BY <2>1 DEF IsSum
<1>2. Eq(CHOOSE h : Eq(h))
  <2> HIDE DEF Eq
  <2> QED BY <1>1
<1>3. Bytes(s) = (CHOOSE h : Eq(h))[Len(s)]
  BY DEF Bytes
<1> QED BY <1>2, <1>3, SumUnique

\* The bytes of a sequence are the bytes of its two halves.
LEMMA BytesSplit ==
    ASSUME NEW s \in Seq(Message), NEW a \in Seq(Message), NEW b \in Seq(Message),
           Len(s) = Len(a) + Len(b),
           \A i \in 1 .. Len(a) : a[i] = s[i],
           \A i \in 1 .. Len(b) : b[i] = s[Len(a) + i]
    PROVE  Bytes(s) = Bytes(a) + Bytes(b) /\ Bytes(a) \in Int /\ Bytes(b) \in Int
<1>0. Len(s) \in Nat /\ Len(a) \in Nat /\ Len(b) \in Nat
  OBVIOUS
<1>1. PICK g : IsSum(g, s)
  BY SumExists
<1>2. /\ \A i \in 0 .. Len(s) : g[i] \in Int
      /\ g[0] = 0
      /\ \A i \in 1 .. Len(s) : g[i] = g[i - 1] + s[i].bytes
  BY <1>1 DEF IsSum
<1> DEFINE m == Len(a)
           k == Len(b)
           ga == [i \in 0 .. m |-> g[i]]
           gb == [i \in 0 .. k |-> g[m + i] - g[m]]
<1>3. IsSum(ga, a)
  <2>1. ASSUME NEW i \in 1 .. m PROVE ga[i] = ga[i - 1] + a[i].bytes
    <3>1. i \in 1 .. Len(s) /\ i \in 0 .. m /\ i - 1 \in 0 .. m
      BY <1>0
    <3> QED BY <1>2, <3>1
  <2>2. ga \in [0 .. m -> Int] /\ ga[0] = 0
    <3>1. \A i \in 0 .. m : i \in 0 .. Len(s)
      BY <1>0
    <3>2. 0 \in 0 .. m
      BY <1>0
    <3> QED BY <1>2, <3>1, <3>2
  <2> HIDE DEF ga
  <2> QED BY <2>1, <2>2 DEF IsSum
<1>4. IsSum(gb, b)
  <2>1. ASSUME NEW i \in 1 .. k PROVE gb[i] = gb[i - 1] + b[i].bytes
    <3>1. /\ m + i \in 1 .. Len(s) /\ (m + i) - 1 = m + (i - 1)
          /\ i \in 0 .. k /\ i - 1 \in 0 .. k
          /\ m + i \in 0 .. Len(s) /\ m + (i - 1) \in 0 .. Len(s) /\ m \in 0 .. Len(s)
      BY <1>0
    <3>2. g[m + i] = g[m + (i - 1)] + b[i].bytes
      BY <1>2, <3>1
    <3>3. gb[i] = g[m + i] - g[m] /\ gb[i - 1] = g[m + (i - 1)] - g[m]
      BY <3>1
    <3>4. b[i] \in Message
      OBVIOUS
    <3>5. b[i].bytes \in Int
      <4>1. \A e \in Message : e.bytes \in Int
        BY DEF Message
      <4> QED BY <3>4, <4>1
    <3>6. g[m + i] \in Int /\ g[m + (i - 1)] \in Int /\ g[m] \in Int
      BY <1>2, <3>1
    <3> DEFINE x == g[m + i]
               y == g[m + (i - 1)]
               z == g[m]
               w == b[i].bytes
    <3>7. x \in Int /\ y \in Int /\ z \in Int /\ w \in Int /\ x = y + w
      BY <3>2, <3>5, <3>6
    <3>8. x - z = (y - z) + w
      <4> HIDE DEF x, y, z, w
      <4> QED BY <3>7
    <3> HIDE DEF gb, m
    <3> QED BY <3>3, <3>8
  <2>2. gb \in [0 .. k -> Int] /\ gb[0] = 0
    <3>1. \A i \in 0 .. k : m + i \in 0 .. Len(s)
      BY <1>0
    <3>2. 0 \in 0 .. k /\ m + 0 = m /\ m \in 0 .. Len(s)
      BY <1>0
    <3>3. \A i \in 0 .. k : g[m + i] - g[m] \in Int
      <4>1. \A i \in 0 .. k : g[m + i] \in Int
        BY <1>2, <3>1
      <4>2. g[m] \in Int
        BY <1>2, <3>2
      <4> HIDE DEF m, k
      <4> QED BY <4>1, <4>2
    <3>4. g[m + 0] - g[m] = 0
      BY <1>2, <3>2
    <3> QED BY <3>2, <3>3, <3>4
  <2> HIDE DEF gb
  <2> QED BY <2>1, <2>2 DEF IsSum
<1>5. Bytes(s) = g[Len(s)]
  BY <1>1, BytesIs
<1>6. Bytes(a) = g[m]
  <2>1. Bytes(a) = ga[m]
    <3> HIDE DEF ga
    <3> QED BY <1>3, BytesIs
  <2> QED BY <1>0, <2>1
<1>7. Bytes(b) = g[m + k] - g[m]
  <2>1. Bytes(b) = gb[k]
    <3> HIDE DEF gb
    <3> QED BY <1>4, BytesIs
  <2> QED BY <1>0, <2>1
<1>8. g[m] \in Int /\ g[m + k] \in Int /\ m + k = Len(s)
  BY <1>0, <1>2
<1> HIDE DEF m, k
<1> QED BY <1>5, <1>6, <1>7, <1>8

\* An empty sequence has no bytes.
LEMMA BytesOfNone == Bytes(<< >>) = 0
<1> DEFINE g == [i \in 0 .. 0 |-> 0]
<1>1. IsSum(g, << >>)
  BY DEF IsSum
<1>2. << >> \in Seq(Message) /\ Len(<< >>) = 0 /\ g[0] = 0
  OBVIOUS
<1> HIDE DEF g
<1> QED BY <1>1, <1>2, BytesIs

\* One message has its own bytes.
LEMMA BytesOfOne ==
    ASSUME NEW e \in Message
    PROVE  Bytes(<<e>>) = e.bytes
<1> DEFINE g == [i \in 0 .. 1 |-> IF i = 0 THEN 0 ELSE e.bytes]
<1>1. e.bytes \in Int
  BY DEF Message
<1>2. IsSum(g, <<e>>)
  BY <1>1 DEF IsSum
<1>3. <<e>> \in Seq(Message) /\ Len(<<e>>) = 1 /\ g[1] = e.bytes
  OBVIOUS
<1> HIDE DEF g
<1> QED BY <1>2, <1>3, BytesIs

\* Taking a batch off the front takes its bytes off.
LEMMA BytesDrop ==
    ASSUME NEW s \in Seq(Message), NEW k \in Nat, k <= Len(s)
    PROVE  Bytes(SubSeq(s, k + 1, Len(s))) = Bytes(s) - Bytes(SubSeq(s, 1, k))
<1> DEFINE a == SubSeq(s, 1, k)
           b == SubSeq(s, k + 1, Len(s))
<1>1. b \in Seq(Message) /\ Len(b) = Len(s) - k /\ \A i \in 1 .. Len(s) - k : b[i] = s[k + i]
  BY DropFirst
<1>2. a \in Seq(Message) /\ Len(a) = k /\ \A i \in 1 .. k : a[i] = s[i]
  <2>1. Len(s) \in Nat /\ \A i \in 1 .. k : s[i] \in Message
    OBVIOUS
  <2>2. /\ SubSeq(s, 1, k) \in Seq(Message)
        /\ Len(SubSeq(s, 1, k)) = IF 1 <= k THEN k - 1 + 1 ELSE 0
        /\ \A i \in 1 .. k - 1 + 1 : SubSeq(s, 1, k)[i] = s[1 + i - 1]
    BY <2>1, SubSeqProperties
  <2> QED BY <2>1, <2>2
<1>3. Len(s) \in Nat
  OBVIOUS
<1> HIDE DEF a, b
<1>4. Bytes(s) = Bytes(a) + Bytes(b) /\ Bytes(a) \in Int /\ Bytes(b) \in Int
  <2>1. Len(s) = Len(a) + Len(b)
    BY <1>1, <1>2, <1>3
  <2>2. \A i \in 1 .. Len(a) : a[i] = s[i]
    BY <1>2
  <2>3. \A i \in 1 .. Len(b) : b[i] = s[Len(a) + i]
    BY <1>1, <1>2
  <2> QED BY <1>1, <1>2, <2>1, <2>2, <2>3, BytesSplit
<1> QED BY <1>4 DEF a, b

\* A message put at the end adds its bytes.
LEMMA BytesAppend ==
    ASSUME NEW s \in Seq(Message), NEW e \in Message
    PROVE  Bytes(Append(s, e)) = Bytes(s) + e.bytes
<1> DEFINE t == Append(s, e)
           b == <<e>>
<1>1. /\ t \in Seq(Message) /\ b \in Seq(Message) /\ Len(b) = 1 /\ Len(t) = Len(s) + 1
      /\ \A i \in 1 .. Len(s) : s[i] = t[i]
      /\ \A i \in 1 .. 1 : b[i] = t[Len(s) + i]
  OBVIOUS
<1>2. Bytes(b) = e.bytes
  BY BytesOfOne
<1> HIDE DEF t, b
<1>3. Bytes(t) = Bytes(s) + Bytes(b)
  <2>1. Len(t) = Len(s) + Len(b)
    BY <1>1
  <2>2. \A i \in 1 .. Len(b) : b[i] = t[Len(s) + i]
    BY <1>1
  <2> QED BY <1>1, <2>1, <2>2, BytesSplit
<1> QED BY <1>2, <1>3 DEF t

-----------------------------------------------------------------------------
(* Types *)

USE LogAssumption, BoundAssumption, CapacityAssumption

\* A fresh subscription is well typed.
LEMMA TypeInit == Init => TypeOK
<1> SUFFICES ASSUME Init PROVE TypeOK
    OBVIOUS
<1>1. BufferType /\ FlagType /\ StreamType
  <2>1. BufferType
    BY DEF Init, BufferType
  <2>2. FlagType
    BY DEF Init, FlagType
  <2>3. StreamType
    BY DEF Init, StreamType
  <2>4. QED
    BY <2>1, <2>2, <2>3
<1>2. PollType
    BY DEF Init, PollType
<1>3. JobType
    BY DEF Init, JobType, Idle, NoJob
<1>4. RdType
    BY DEF Init, RdType
<1>5. EventType
    BY DEF Init, EventType
<1>6. QED
    BY <1>1, <1>2, <1>3, <1>4, <1>5 DEF TypeOK

\* Queueing an automatic pause or resume keeps the types of the jobs.
LEMMA SpawnType ==
    ASSUME JobType, NEW kind \in {"pause", "resume"}, Spawn(kind)
    PROVE  jobs' \in [JobId -> [kind : {"none", "pause", "pausing", "resume", "resuming"},
                               tpl : SUBSET Partition]]
<1> DEFINE j == Min(FreeJobs)
           r == [kind |-> kind, tpl |-> {}]
<1> HIDE DEF j
<1>1. jobs' = [jobs EXCEPT ![j] = r]
    BY DEF Spawn, j
<1>2. QED
    BY <1>1 DEF JobType

\* Every step keeps the types of the flags of SubscriptionState.
LEMMA FlagTypeStep == FlagType /\ JobType /\ [Next]_vars => FlagType'
<1> SUFFICES ASSUME FlagType /\ JobType, [Next]_vars PROVE FlagType'
    OBVIOUS
<1> USE DEF FlagType, JobType
<1>1. CASE StreamMaybePause
    BY <1>1 DEF StreamMaybePause, Spawn, ctlVars
<1>2. CASE MarkTerminated
    BY <1>2 DEF MarkTerminated, ctlVars
<1>3. ASSUME NEW p \in Poller, PollMaybeResume(p) PROVE FlagType'
    BY <1>3 DEF PollMaybeResume, Return, Spawn, ctlVars
<1>4. ASSUME NEW p \in Poller, PollTerminated(p) PROVE FlagType'
    BY <1>4 DEF PollTerminated, Return, Detach, ctlVars
<1>5. ASSUME NEW c \in Caller, FlowRecord(c) PROVE FlagType'
    BY <1>5 DEF FlowRecord, Idle, ctlVars
<1>6. CASE Unsubscribe
    BY <1>6 DEF Unsubscribe, Detach, ctlVars
<1>7. CASE UNCHANGED ctlVars
    BY <1>7 DEF ctlVars
<1>8. QED
    BY <1>1, <1>2, <1>3, <1>4, <1>5, <1>6, <1>7
       DEF Next, Stream, Poll, Job, Control, Group, vars, StreamFetch, StreamPush, StreamNotify, StreamError, StreamBackoff, StreamEnd, MarkNotify, StreamAborted, PollStart, PollNotFound, PollDrain, PollFoundEmpty, PollEmpty, PollNotTerminated, PollArm, PollWoken, PollTimeout, AutoPauseRead, AutoPauseCall, AutoResumeRead, AutoResumeCall, JobFails, FlowStart, FlowCall, CallFails, SeekStart, SeekOne, Commit, Revoke, Revoked, Assign, Assigned, RebalanceError, RebalanceFailed, FetchEvents

\* Every step keeps the types of the stream loop, the error limit included.
LEMMA StreamTypeStep == StreamType /\ BufferType /\ RdType /\ [Next]_vars => StreamType'
<1> SUFFICES ASSUME StreamType /\ BufferType /\ RdType, [Next]_vars PROVE StreamType'
    OBVIOUS
<1> USE DEF StreamType, BufferType, RdType
<1>1. ASSUME NEW t \in Partition, StreamFetch(t) PROVE StreamType'
    BY <1>1, SMTT(30) DEF StreamFetch, strVars, Message
<1>2. CASE StreamPush
    BY <1>2 DEF StreamPush, NoMessage, Kept, strVars
<1>3. CASE StreamNotify
    BY <1>3 DEF StreamNotify, NotifyWaiters, strVars
<1>4. CASE StreamMaybePause
    BY <1>4 DEF StreamMaybePause, Spawn, strVars
<1>5. ASSUME NEW fatal \in BOOLEAN, StreamError(fatal) PROVE StreamType'
    BY <1>5 DEF StreamError, strVars
<1>6. CASE StreamBackoff
    BY <1>6 DEF StreamBackoff, strVars
<1>7. CASE StreamEnd
    BY <1>7 DEF StreamEnd, strVars
<1>8. CASE MarkTerminated
    BY <1>8 DEF MarkTerminated, strVars
<1>9. CASE MarkNotify
    BY <1>9 DEF MarkNotify, NotifyWaiters, strVars
<1>10. CASE StreamAborted
    BY <1>10 DEF StreamAborted, NoMessage, strVars
<1>11. CASE UNCHANGED strVars
    BY <1>11 DEF strVars
<1>12. QED
    BY <1>1, <1>2, <1>3, <1>4, <1>5, <1>6, <1>7, <1>8, <1>9, <1>10, <1>11
       DEF Next, Stream, Poll, Job, Control, Group, vars, PollStart, PollNotFound, PollDrain, PollFoundEmpty, PollMaybeResume, PollTerminated, PollEmpty, PollNotTerminated, PollArm, PollWoken, PollTimeout, AutoPauseRead, AutoPauseCall, AutoResumeRead, AutoResumeCall, JobFails, FlowStart, FlowCall, FlowRecord, CallFails, SeekStart, SeekOne, Commit, Unsubscribe, Revoke, Revoked, Assign, Assigned, RebalanceError, RebalanceFailed, FetchEvents

\* Every step keeps the types of the poll calls.
LEMMA PollTypeStep == PollType /\ BufferType /\ [Next]_vars => PollType'
<1> SUFFICES ASSUME PollType /\ BufferType, [Next]_vars PROVE PollType'
    OBVIOUS
<1> USE DEF PollType, BufferType
<1>1. CASE StreamNotify
    BY <1>1 DEF StreamNotify, NotifyWaiters, pollVars
<1>2. CASE MarkNotify
    BY <1>2 DEF MarkNotify, NotifyWaiters, pollVars
<1>3. ASSUME NEW p \in Poller, NEW max \in MaxMessages, PollStart(p, max) PROVE PollType'
    BY <1>3 DEF PollStart, pollVars
<1>4. ASSUME NEW p \in Poller, PollNotFound(p) PROVE PollType'
    BY <1>4 DEF PollNotFound, vars, pollVars
<1>5. ASSUME NEW p \in Poller, PollDrain(p) PROVE PollType'
  <2>1. PICK take \in {Min({pmax[p], Len(buffer)})} :
            buffer' = SubSeq(buffer, take + 1, Len(buffer))
    BY <1>5 DEF PollDrain
  <2>2. take \in Nat /\ take <= Len(buffer)
    BY <2>1, MinOfTwo
  <2>3. Len(buffer') \in Nat
    BY <2>1, <2>2
  <2>4. QED
    BY <1>5, <2>3 DEF PollDrain
<1>6. ASSUME NEW p \in Poller, PollFoundEmpty(p) PROVE PollType'
    BY <1>6 DEF PollFoundEmpty, pollVars
<1>7. ASSUME NEW p \in Poller, PollMaybeResume(p) PROVE PollType'
    BY <1>7 DEF PollMaybeResume, Return, Spawn, pollVars
<1>8. ASSUME NEW p \in Poller, PollTerminated(p) PROVE PollType'
    BY <1>8 DEF PollTerminated, Return, Detach, pollVars
<1>9. ASSUME NEW p \in Poller, PollEmpty(p) PROVE PollType'
    BY <1>9 DEF PollEmpty, Return, pollVars
<1>10. ASSUME NEW p \in Poller, PollNotTerminated(p) PROVE PollType'
    BY <1>10 DEF PollNotTerminated, pollVars
<1>11. ASSUME NEW p \in Poller, PollArm(p) PROVE PollType'
    BY <1>11 DEF PollArm, pollVars
<1>12. ASSUME NEW p \in Poller, PollWoken(p) PROVE PollType'
    BY <1>12 DEF PollWoken, pollVars
<1>13. ASSUME NEW p \in Poller, PollTimeout(p) PROVE PollType'
    BY <1>13 DEF PollTimeout, Return, pollVars
<1>14. CASE UNCHANGED pollVars
    BY <1>14 DEF pollVars
<1>15. QED
    BY <1>1, <1>2, <1>3, <1>4, <1>5, <1>6, <1>7, <1>8, <1>9, <1>10, <1>11, <1>12, <1>13, <1>14
       DEF Next, Stream, Poll, Job, Control, Group, vars, StreamFetch, StreamPush, StreamMaybePause, StreamError, StreamBackoff, StreamEnd, MarkTerminated, StreamAborted, AutoPauseRead, AutoPauseCall, AutoResumeRead, AutoResumeCall, JobFails, FlowStart, FlowCall, FlowRecord, CallFails, SeekStart, SeekOne, Commit, Unsubscribe, Revoke, Revoked, Assign, Assigned, RebalanceError, RebalanceFailed, FetchEvents

\* Every step keeps the types of the jobs and of the control calls.
LEMMA JobTypeStep == JobType /\ RdType /\ [Next]_vars => JobType'
<1> SUFFICES ASSUME JobType /\ RdType, [Next]_vars PROVE JobType'
    OBVIOUS
<1> USE DEF JobType, RdType
<1>1. CASE StreamMaybePause
    BY <1>1, SpawnType DEF StreamMaybePause, jobVars
<1>2. ASSUME NEW p \in Poller, PollMaybeResume(p) PROVE JobType'
    BY <1>2, SpawnType DEF PollMaybeResume, jobVars
<1>0. ASSUME NEW j \in JobId, AutoPauseRead(j) PROVE JobType'
    BY <1>0 DEF AutoPauseRead, jobVars
<1>3. ASSUME NEW j \in JobId, AutoPauseCall(j) PROVE JobType'
    BY <1>3 DEF AutoPauseCall, NoJob, jobVars
<1>4. ASSUME NEW j \in JobId, AutoResumeRead(j) PROVE JobType'
    BY <1>4 DEF AutoResumeRead, NoJob, jobVars
<1>5. ASSUME NEW j \in JobId, AutoResumeCall(j) PROVE JobType'
    BY <1>5 DEF AutoResumeCall, NoJob, jobVars
<1>6. ASSUME NEW j \in JobId, JobFails(j) PROVE JobType'
    BY <1>6 DEF JobFails, NoJob, jobVars
<1>7. ASSUME NEW c \in Caller, NEW op \in {"pause", "resume"}, NEW parts \in FlowTargets, FlowStart(c, op, parts) PROVE JobType'
    BY <1>7 DEF FlowStart, jobVars
<1>8. ASSUME NEW c \in Caller, FlowCall(c) PROVE JobType'
  <2>1. PICK op \in {"paused", "resumed"} :
            call' = [call EXCEPT ![c] = [op |-> op, tpl |-> call[c].tpl]]
    BY <1>8 DEF FlowCall
  <2>2. jobs' = jobs
    BY <1>8 DEF FlowCall
  <2>3. QED
    BY <2>1, <2>2
<1>9. ASSUME NEW c \in Caller, FlowRecord(c) PROVE JobType'
    BY <1>9 DEF FlowRecord, Idle, jobVars
<1>10. ASSUME NEW c \in Caller, CallFails(c) PROVE JobType'
    BY <1>10 DEF CallFails, Idle, jobVars
<1>11. ASSUME NEW c \in Caller, NEW parts \in SUBSET Partition, SeekStart(c, parts) PROVE JobType'
    BY <1>11 DEF SeekStart, jobVars
<1>12. ASSUME NEW c \in Caller, NEW t \in Partition, NEW off \in SeekOffsets, SeekOne(c, t, off) PROVE JobType'
    BY <1>12 DEF SeekOne, Idle, jobVars
<1>13. CASE UNCHANGED jobVars
    BY <1>13 DEF jobVars
<1>14. CASE Stream
    BY <1>1, <1>13, <1>14 DEF Stream, jobVars, StreamFetch, StreamPush, StreamNotify,
       StreamError, StreamBackoff, StreamEnd, MarkTerminated, MarkNotify, StreamAborted
<1>15. ASSUME NEW p \in Poller, Poll(p) PROVE JobType'
    BY <1>2, <1>13, <1>15 DEF Poll, jobVars, vars, PollStart, PollNotFound, PollDrain,
       PollFoundEmpty, PollTerminated, PollEmpty, PollNotTerminated, PollArm, PollWoken,
       PollTimeout
<1>16. ASSUME NEW j \in JobId, Job(j) PROVE JobType'
    BY <1>0, <1>3, <1>4, <1>5, <1>6, <1>16 DEF Job
<1>17. ASSUME NEW c \in Caller, Control(c) PROVE JobType'
    BY <1>7, <1>8, <1>9, <1>10, <1>11, <1>12, <1>17, ZenonT(60) DEF Control
<1>18. CASE Group
    BY <1>13, <1>18 DEF Group, Commit, Unsubscribe, Revoke, Revoked, Assign, Assigned, RebalanceError, RebalanceFailed, FetchEvents, jobVars
<1>19. QED
    BY <1>13, <1>14, <1>15, <1>16, <1>17, <1>18 DEF Next, vars

\* Every step keeps the types of what librdkafka holds.
LEMMA RdTypeStep == RdType /\ JobType /\ [Next]_vars => RdType'
<1> SUFFICES ASSUME RdType /\ JobType, [Next]_vars PROVE RdType'
    OBVIOUS
<1> USE DEF RdType, JobType
<1>1. ASSUME NEW t \in Partition, StreamFetch(t) PROVE RdType'
    BY <1>1, SMTT(30) DEF StreamFetch, rdVars
<1>2. ASSUME NEW j \in JobId, AutoPauseCall(j) PROVE RdType'
    BY <1>2 DEF AutoPauseCall, NoJob, rdVars
<1>3. ASSUME NEW j \in JobId, AutoResumeCall(j) PROVE RdType'
    BY <1>3 DEF AutoResumeCall, NoJob, rdVars
<1>4. ASSUME NEW c \in Caller, FlowCall(c) PROVE RdType'
    BY <1>4 DEF FlowCall, rdVars
<1>5. ASSUME NEW c \in Caller, NEW t \in Partition, NEW off \in SeekOffsets, SeekOne(c, t, off) PROVE RdType'
    BY <1>5 DEF SeekOne, Idle, rdVars
<1>6. CASE Commit
    BY <1>6 DEF Commit, rdVars
<1>7. CASE Revoke
    BY <1>7 DEF Revoke, rdVars
<1>13. CASE Revoked
    BY <1>13 DEF Revoked, rdVars
<1>14. CASE Assigned
    BY <1>14 DEF Assigned, rdVars
<1>15. CASE RebalanceFailed
    BY <1>15 DEF RebalanceFailed, rdVars
<1>8. ASSUME NEW new \in Assignments, Assign(new) PROVE RdType'
    BY <1>8 DEF Assign, rdVars
<1>9. CASE RebalanceError
    BY <1>9 DEF RebalanceError
<1>10. ASSUME NEW max \in MaxMessages, FetchEvents(max) PROVE RdType'
    BY <1>10 DEF FetchEvents
<1>11. CASE UNCHANGED rdVars
    BY <1>11 DEF rdVars
<1>12. QED
    BY <1>1, <1>2, <1>3, <1>4, <1>5, <1>6, <1>7, <1>8, <1>9, <1>10, <1>11,
       <1>13, <1>14, <1>15
       DEF Next, Stream, Poll, Job, Control, Group, vars, AutoPauseRead, StreamPush, StreamNotify, StreamMaybePause, StreamError, StreamBackoff, StreamEnd, MarkTerminated, MarkNotify, StreamAborted, PollStart, PollNotFound, PollDrain, PollFoundEmpty, PollMaybeResume, PollTerminated, PollEmpty, PollNotTerminated, PollArm, PollWoken, PollTimeout, AutoResumeRead, JobFails, FlowStart, FlowRecord, CallFails, SeekStart, Unsubscribe

\* Queueing a rebalance event keeps the type of the queue.
LEMMA PushType ==
    ASSUME NEW q \in Seq(Event), NEW e \in Event
    PROVE  Push(q, e) \in Seq(Event) /\ Push(q, e)[Len(Push(q, e))] = e
           /\ Push(q, e) # <<>>
<1>1. ASSUME Len(q) >= MaxQueue PROVE Tail(q) \in Seq(Event)
  <2>1. Len(q) # 0
    BY <1>1
  <2>2. q # <<>>
    BY <2>1
  <2>3. QED
    BY <2>2
<1>2. PICK r \in Seq(Event) : Push(q, e) = Append(r, e)
    BY <1>1 DEF Push
<1>3. QED
    BY <1>2

\* Every step keeps the types of the rebalance events.
LEMMA EventTypeStep == EventType /\ RdType /\ [Next]_vars => EventType'
<1> SUFFICES ASSUME EventType /\ RdType, [Next]_vars PROVE EventType'
    OBVIOUS
<1> USE DEF EventType, RdType
<1>1. CASE Revoke
  <2>1. [kind |-> "revoke", tps |-> assignment] \in Event
    BY DEF Event
  <2>2. QED
    BY <1>1, <2>1, PushType DEF Revoke
<1>2. CASE Assigned
  <2>1. [kind |-> "assign", tps |-> assignment] \in Event
    BY DEF Event
  <2>2. QED
    BY <1>2, <2>1, PushType DEF Assigned
<1>3. CASE RebalanceError \/ RebalanceFailed
  <2>1. [kind |-> "error", tps |-> {}] \in Event
    BY DEF Event
  <2>2. QED
    BY <1>3, <2>1, PushType DEF RebalanceError, RebalanceFailed
<1>4. ASSUME NEW max \in MaxMessages, FetchEvents(max) PROVE EventType'
  <2>1. PICK take \in {Min({max, Len(events)})} :
           /\ take > 0
           /\ events' = SubSeq(events, take + 1, Len(events))
           /\ view' = IF events' = <<>> THEN Tells(events[take]) ELSE {}
    BY <1>4 DEF FetchEvents
  <2>2. take \in 1 .. Len(events) /\ Len(events) \in Nat
    <3>1. max \in Nat /\ Len(events) \in Nat /\ take = Min({max, Len(events)})
      BY <2>1
    <3>2. take = IF max <= Len(events) THEN max ELSE Len(events)
      BY <3>1, MinOfTwo
    <3>3. QED
      BY <2>1, <3>1, <3>2
  <2>3. events' \in Seq(Event)
    <3>1. events \in Seq(Event) /\ take \in Nat /\ take <= Len(events)
      BY <2>2
    <3>2. SubSeq(events, take + 1, Len(events)) \in Seq(Event)
      BY <3>1, DropFirst
    <3>3. QED
      BY <2>1, <3>2
  <2>4. Tells(events[take]) \subseteq SUBSET Partition
    <3>1. events[take] \in Event
      BY <2>2
    <3>2. QED
      BY <3>1 DEF Event, Tells
  <2>5. QED
    BY <2>1, <2>3, <2>4
<1>5. CASE UNCHANGED evVars
    BY <1>5 DEF evVars
<1>6. CASE Group
    BY <1>1, <1>2, <1>3, <1>4, <1>5, <1>6
       DEF Group, Commit, Unsubscribe, Revoked, Assign, rdVars
<1>7. CASE Stream
    BY <1>5, <1>7 DEF Stream, StreamFetch, StreamPush, StreamNotify, StreamMaybePause,
       StreamError, StreamBackoff, StreamEnd, MarkTerminated, MarkNotify, StreamAborted, rdVars
<1>8. ASSUME NEW p \in Poller, Poll(p) PROVE EventType'
    BY <1>5, <1>8 DEF Poll, PollStart, PollNotFound, PollDrain, PollFoundEmpty,
       PollMaybeResume, PollTerminated, PollEmpty, PollNotTerminated, PollArm, PollWoken,
       PollTimeout, rdVars, vars
<1>9. ASSUME NEW j \in JobId, Job(j) PROVE EventType'
    BY <1>5, <1>9 DEF Job, AutoPauseRead, AutoPauseCall, AutoResumeRead, AutoResumeCall, JobFails, rdVars
<1>10. ASSUME NEW c \in Caller, Control(c) PROVE EventType'
    BY <1>5, <1>10 DEF Control, FlowStart, FlowCall, FlowRecord, CallFails, SeekStart,
       SeekOne, rdVars
<1>11. CASE UNCHANGED vars
    BY <1>5, <1>11 DEF vars, rdVars
<1>12. QED
    BY <1>6, <1>7, <1>8, <1>9, <1>10, <1>11 DEF Next

\* The last event of a queue that has just taken one.
LEMMA PushTells ==
    ASSUME EventType, NEW e \in Event, events' = Push(events, e), Owned' \in Tells(e)
    PROVE  AssignmentKnown'
<1>1. events' # <<>> /\ events'[Len(events')] = e
    BY PushType DEF EventType
<1>2. Last(events') = e
    BY <1>1 DEF Last
<1>3. QED
    BY <1>1, <1>2 DEF AssignmentKnown

\* A callback queues the event that tells what PHP may take for its own from
\* then on, a step without one does not change that, and reading events keeps
\* the last one.
LEMMA AssignmentKnownStep ==
    TypeOK /\ AssignmentKnown /\ [Next]_vars => AssignmentKnown'
<1> SUFFICES ASSUME TypeOK, AssignmentKnown, [Next]_vars PROVE AssignmentKnown'
    OBVIOUS
<1>0. EventType /\ RdType
    BY DEF TypeOK
<1> USE <1>0 DEF EventType, RdType
<1>1. CASE Revoke
  <2> DEFINE e == [kind |-> "revoke", tps |-> assignment]
  <2>1. e \in Event /\ events' = Push(events, e) /\ Owned' = {}
    BY <1>1 DEF Revoke, Event, Owned
  <2>2. {} \in Tells(e)
    BY DEF Tells
  <2>3. QED
    BY <2>1, <2>2, PushTells
<1>2. CASE Assigned
  <2> DEFINE e == [kind |-> "assign", tps |-> assignment]
  <2>1. e \in Event /\ events' = Push(events, e) /\ Owned' = assignment
    BY <1>2 DEF Assigned, Event, Owned
  <2>2. assignment \in Tells(e)
    BY DEF Tells
  <2>3. QED
    BY <2>1, <2>2, PushTells
<1>3. CASE RebalanceError \/ RebalanceFailed
  <2> DEFINE e == [kind |-> "error", tps |-> {}]
  <2>1. e \in Event /\ events' = Push(events, e) /\ Owned' \in SUBSET Partition
    BY <1>3 DEF RebalanceError, RebalanceFailed, Event, Owned
  <2>2. Owned' \in Tells(e)
    BY <2>1 DEF Tells
  <2>3. QED
    BY <2>1, <2>2, PushTells
<1>4. ASSUME NEW max \in MaxMessages, FetchEvents(max) PROVE AssignmentKnown'
  <2>1. PICK take \in {Min({max, Len(events)})} :
           /\ take > 0
           /\ events' = SubSeq(events, take + 1, Len(events))
           /\ view' = IF events' = <<>> THEN Tells(events[take]) ELSE {}
    BY <1>4 DEF FetchEvents
  <2>2. take \in 1 .. Len(events) /\ Len(events) \in Nat
    <3>1. max \in Nat /\ Len(events) \in Nat /\ take = Min({max, Len(events)})
      BY <2>1
    <3>2. take = IF max <= Len(events) THEN max ELSE Len(events)
      BY <3>1, MinOfTwo
    <3>3. QED
      BY <2>1, <3>1, <3>2
  <2>3. /\ Len(events') = Len(events) - take
        /\ \A i \in 1 .. Len(events) - take : events'[i] = events[take + i]
    <3>1. take \in Nat /\ take <= Len(events) /\ events \in Seq(Event)
      BY <2>2
    <3>2. events' = SubSeq(events, take + 1, Len(events))
      BY <2>1
    <3> HIDE DEF EventType, RdType
    <3>3. QED
      BY <3>1, <3>2, DropFirst, Zenon
  <2>4. Owned \in Tells(events[Len(events)]) /\ Owned' = Owned
    <3>1. events # <<>>
      BY <2>2
    <3>2. QED
      BY <1>4, <3>1 DEF AssignmentKnown, FetchEvents, Owned, Last
  <2>5. CASE events' = <<>>
    <3>1. take = Len(events)
      BY <2>2, <2>3, <2>5
    <3>2. Owned' \in view'
      BY <2>1, <2>4, <2>5, <3>1
    <3>3. QED
      BY <2>5, <3>2 DEF AssignmentKnown
  <2>6. CASE events' # <<>>
    <3>1. events' \in Seq(Event)
      <4>1. /\ take \in Nat /\ take <= Len(events) /\ events \in Seq(Event)
            /\ events' = SubSeq(events, take + 1, Len(events))
        BY <2>1, <2>2
      <4> HIDE DEF EventType, RdType
      <4>2. QED
        BY <4>1, DropFirst, Zenon
    <3>2. Len(events') \in 1 .. Len(events) - take
      BY <2>2, <2>3, <2>6, <3>1
    <3>3. events'[Len(events')] = events[Len(events)]
      <4>1. events'[Len(events')] = events[take + Len(events')]
        BY <2>3, <3>2
      <4>2. take + Len(events') = Len(events)
        BY <2>2, <2>3
      <4>3. QED
        BY <4>1, <4>2
    <3>4. QED
      BY <2>4, <2>6, <3>3 DEF AssignmentKnown, Last
  <2>7. QED
    BY <2>5, <2>6
<1>5. ASSUME Owned' = Owned, UNCHANGED evVars PROVE AssignmentKnown'
    BY <1>5 DEF evVars, AssignmentKnown
<1>13. CASE Revoked
    BY <1>5, <1>13 DEF Revoked, Owned
<1>14. ASSUME NEW new \in Assignments, Assign(new) PROVE AssignmentKnown'
    BY <1>5, <1>14 DEF Assign, Owned
<1>6. CASE Group
    BY <1>1, <1>2, <1>3, <1>4, <1>5, <1>6, <1>13, <1>14
       DEF Group, Commit, Unsubscribe, rdVars, Owned
<1>7. CASE Stream
    BY <1>5, <1>7 DEF Stream, StreamFetch, StreamPush, StreamNotify, StreamMaybePause,
       StreamError, StreamBackoff, StreamEnd, MarkTerminated, MarkNotify, StreamAborted, rdVars, Owned
<1>8. ASSUME NEW p \in Poller, Poll(p) PROVE AssignmentKnown'
    BY <1>5, <1>8 DEF Poll, PollStart, PollNotFound, PollDrain, PollFoundEmpty,
       PollMaybeResume, PollTerminated, PollEmpty, PollNotTerminated, PollArm, PollWoken,
       PollTimeout, rdVars, vars, Owned
<1>9. ASSUME NEW j \in JobId, Job(j) PROVE AssignmentKnown'
    BY <1>5, <1>9 DEF Job, AutoPauseRead, AutoPauseCall, AutoResumeRead, AutoResumeCall, JobFails, rdVars, Owned
<1>10. ASSUME NEW c \in Caller, Control(c) PROVE AssignmentKnown'
    BY <1>5, <1>10 DEF Control, FlowStart, FlowCall, FlowRecord, CallFails, SeekStart,
       SeekOne, rdVars, Owned
<1>11. CASE UNCHANGED vars
    BY <1>5, <1>11 DEF vars, rdVars, Owned
<1>12. QED
    BY <1>6, <1>7, <1>8, <1>9, <1>10, <1>11 DEF Next

-----------------------------------------------------------------------------
(* What became of every message *)

\* The message in the hand of the stream loop is the next to be pushed.
HandNext == spc = "have" => hand.n = pushed + 1

BufferInv == ExactlyOnce /\ HandNext /\ WithinCapacity /\ Len(buffer) <= pushed

\* What the overflow branch keeps: the buffer, or all but its oldest message.
LEMMA KeptShape ==
    ASSUME BufferType
    PROVE  \/ Kept = buffer /\ ~CountOverflow
           \/ Kept = buffer /\ buffer = <<>>
           \/ /\ buffer # <<>> /\ Kept = Tail(buffer) /\ Kept # buffer
              /\ Kept \in Seq(Message) /\ Len(Kept) = Len(buffer) - 1
              /\ \A i \in 1 .. Len(Kept) : Kept[i] = buffer[i + 1]
<1>1. CASE (CountOverflow \/ BytesOverflow) /\ buffer # <<>>
  <2>1. Kept = Tail(buffer)
    BY <1>1 DEF Kept
  <2>2. /\ Tail(buffer) \in Seq(Message) /\ Len(Tail(buffer)) = Len(buffer) - 1
        /\ \A i \in 1 .. Len(Tail(buffer)) : Tail(buffer)[i] = buffer[i + 1]
    BY <1>1 DEF BufferType
  <2>3. Tail(buffer) # buffer
    BY <1>1, TailIsOther DEF BufferType
  <2>4. QED
    BY <1>1, <2>1, <2>2, <2>3
<1>2. CASE ~((CountOverflow \/ BytesOverflow) /\ buffer # <<>>)
    BY <1>2 DEF Kept
<1>3. QED
    BY <1>1, <1>2

\* One push of the stream loop: the overflow branch loses at most the oldest
\* message, and records it.
LEMMA PushStep ==
    ASSUME BufferType, StreamType, BufferInv, StreamPush
    PROVE  BufferType' /\ BufferInv'
<1> USE DEF BufferType
<1>1. hand \in Message /\ hand.n = pushed + 1
    BY DEF StreamPush, StreamType, BufferInv, HandNext
<1>2. /\ pushed' = pushed + 1 /\ handed' = handed /\ spc' = "notify"
      /\ buffer' = Append(Kept, hand)
      /\ dropped' = dropped \cup (IF Kept = buffer THEN {} ELSE {Head(buffer)})
    BY DEF StreamPush
<1>3. HandNext'
    BY <1>2 DEF HandNext
<1>4. CASE Kept = buffer
  <2>1. /\ buffer' = Append(buffer, hand) /\ dropped' = dropped
        /\ buffer = <<>> \/ Len(buffer) < BufferCapacity
    BY <1>2, <1>4, KeptShape DEF CountOverflow, BufferInv, WithinCapacity
  <2>2. BufferType'
    BY <1>1, <1>2, <2>1
  <2>3. /\ Len(buffer') = Len(buffer) + 1
        /\ \A i \in 1 .. Len(buffer) : buffer'[i] = buffer[i]
        /\ buffer'[Len(buffer) + 1] = hand
    BY <1>1, <2>1
  <2>4. \A i \in 1 .. Len(buffer') : buffer'[i].n = pushed' - Len(buffer') + i
    <3> TAKE i \in 1 .. Len(buffer')
    <3>1. CASE i = Len(buffer) + 1
      BY <1>1, <1>2, <2>3, <3>1
    <3>2. CASE i \in 1 .. Len(buffer)
      BY <1>2, <2>3, <3>2 DEF BufferInv, ExactlyOnce
    <3>3. QED
      BY <2>3, <3>1, <3>2
  <2>5. pushed' - Len(buffer') = pushed - Len(buffer)
    BY <1>2, <2>3
  <2>6. ExactlyOnce'
    BY <1>2, <2>1, <2>4, <2>5 DEF BufferInv, ExactlyOnce
  <2>7. QED
    BY <1>2, <1>3, <2>1, <2>2, <2>3, <2>6 DEF BufferInv, WithinCapacity
<1>5. CASE Kept # buffer
  <2>1. /\ buffer # <<>> /\ Kept \in Seq(Message) /\ Len(Kept) = Len(buffer) - 1
        /\ \A i \in 1 .. Len(Kept) : Kept[i] = buffer[i + 1]
        /\ dropped' = dropped \cup {buffer[1]}
    BY <1>2, <1>5, KeptShape
  <2>2. buffer[1] \in Message /\ Len(buffer) \in Nat \ {0}
    BY <2>1
  <2>3. BufferType'
    BY <1>1, <1>2, <2>1, <2>2
  <2>4. /\ Len(buffer') = Len(buffer)
        /\ \A i \in 1 .. Len(buffer) - 1 : buffer'[i] = buffer[i + 1]
        /\ buffer'[Len(buffer)] = hand
    BY <1>1, <1>2, <2>1, <2>2
  <2>5. \A i \in 1 .. Len(buffer') : buffer'[i].n = pushed' - Len(buffer') + i
    <3> TAKE i \in 1 .. Len(buffer')
    <3>1. CASE i = Len(buffer)
      BY <1>1, <1>2, <2>2, <2>4, <3>1
    <3>2. CASE i \in 1 .. Len(buffer) - 1
      <4>1. buffer[i + 1].n = pushed - Len(buffer) + (i + 1)
        BY <2>2, <3>2 DEF BufferInv, ExactlyOnce
      <4>2. QED
        BY <1>2, <2>2, <2>4, <3>2, <4>1
    <3>3. QED
      BY <2>2, <2>4, <3>1, <3>2
  <2>6. Numbers(dropped') = Numbers(dropped) \cup {pushed - Len(buffer) + 1}
    <3>1. buffer[1].n = pushed - Len(buffer) + 1
      BY <2>2 DEF BufferInv, ExactlyOnce
    <3>2. QED
      BY <2>1, <3>1 DEF Numbers
  <2>7. 1 .. pushed' - Len(buffer')
           = (1 .. pushed - Len(buffer)) \cup {pushed - Len(buffer) + 1}
    BY <1>2, <2>2, <2>4 DEF BufferInv
  <2>8. ExactlyOnce'
    <3>1. pushed - Len(buffer) + 1 \notin 1 .. pushed - Len(buffer)
      BY <2>2
    <3>2. /\ Numbers(handed) \cup Numbers(dropped) = 1 .. pushed - Len(buffer)
          /\ Numbers(handed) \cap Numbers(dropped) = {}
      BY DEF BufferInv, ExactlyOnce
    <3>3. /\ Numbers(handed') \cup Numbers(dropped') = 1 .. pushed' - Len(buffer')
          /\ Numbers(handed') \cap Numbers(dropped') = {}
      BY <1>2, <2>6, <2>7, <3>1, <3>2, ZenonT(60)
    <3>4. QED
      BY <2>5, <3>3 DEF ExactlyOnce, Numbers
  <2>9. QED
    BY <1>2, <1>3, <2>2, <2>3, <2>4, <2>8 DEF BufferInv, WithinCapacity
<1>6. QED
    BY <1>4, <1>5

\* One drain of a poll: the batch is a prefix of the buffer.
LEMMA DrainStep ==
    ASSUME BufferType, PollType, BufferInv, NEW p \in Poller, PollDrain(p)
    PROVE  BufferType' /\ BufferInv'
<1> USE DEF BufferType
<1>1. PICK take \in {Min({pmax[p], Len(buffer)})} :
         /\ buffer' = SubSeq(buffer, take + 1, Len(buffer))
         /\ handed' = handed \cup {buffer[i] : i \in 1 .. take}
    BY DEF PollDrain
<1>2. take \in Nat /\ take <= Len(buffer) /\ Len(buffer) \in Nat
  <2>1. pmax[p] \in Nat /\ Len(buffer) \in Nat
    BY DEF PollType
  <2>2. take = Min({pmax[p], Len(buffer)})
    BY <1>1
  <2>3. QED
    BY <2>1, <2>2, MinOfTwo
<1>3. /\ pushed' = pushed /\ dropped' = dropped
      /\ spc' = spc /\ hand' = hand
    BY DEF PollDrain, strVars
<1>4. /\ buffer' \in Seq(Message) /\ Len(buffer') = Len(buffer) - take
      /\ \A i \in 1 .. Len(buffer') : buffer'[i] = buffer[take + i]
  <2>1. buffer' = SubSeq(buffer, take + 1, Len(buffer))
    BY <1>1
  <2>2. /\ SubSeq(buffer, take + 1, Len(buffer)) \in Seq(Message)
        /\ Len(SubSeq(buffer, take + 1, Len(buffer))) = Len(buffer) - take
        /\ \A i \in 1 .. Len(buffer) - take :
               SubSeq(buffer, take + 1, Len(buffer))[i] = buffer[take + i]
    <3>1. buffer \in Seq(Message)
      OBVIOUS
    <3>2. QED
      BY <1>2, <3>1, DropFirst
  <2>3. QED
    BY <2>1, <2>2
<1>5. BufferType'
  <2>1. \A i \in 1 .. take : buffer[i] \in Message
    BY <1>2
  <2>2. QED
    BY <1>1, <1>3, <1>4, <2>1
<1>6. \A i \in 1 .. Len(buffer') : buffer'[i].n = pushed' - Len(buffer') + i
  <2> TAKE i \in 1 .. Len(buffer')
  <2>1. buffer[take + i].n = pushed - Len(buffer) + (take + i)
    <3>1. take + i \in 1 .. Len(buffer)
      BY <1>2, <1>4
    <3>2. QED
      BY <3>1 DEF BufferInv, ExactlyOnce
  <2>2. i \in Nat /\ buffer'[i] = buffer[take + i]
    <3>1. Len(buffer') \in Nat
      BY <1>4
    <3>2. i \in Nat
      BY <3>1
    <3>3. QED
      BY <1>4, <3>2
  <2>3. pushed' - Len(buffer') + i = pushed - Len(buffer) + (take + i)
    BY <1>2, <1>3, <1>4, <2>2
  <2>4. QED
    BY <2>1, <2>2, <2>3
<1>7. Numbers(handed') = Numbers(handed)
                         \cup (pushed - Len(buffer) + 1 .. pushed - Len(buffer) + take)
  <2>1. Numbers({buffer[i] : i \in 1 .. take}) = {buffer[i].n : i \in 1 .. take}
    BY ZenonT(60) DEF Numbers
  <2>2. {buffer[i].n : i \in 1 .. take} = {pushed - Len(buffer) + i : i \in 1 .. take}
    <3>1. \A i \in 1 .. take : buffer[i].n = pushed - Len(buffer) + i
      <4>1. \A i \in 1 .. take : i \in 1 .. Len(buffer)
        BY <1>2
      <4>2. QED
        BY <4>1 DEF BufferInv, ExactlyOnce
    <3>2. QED
      BY <3>1
  <2>3. {pushed - Len(buffer) + i : i \in 1 .. take}
           = pushed - Len(buffer) + 1 .. pushed - Len(buffer) + take
    <3>1. pushed - Len(buffer) \in Int
      BY <1>2
    <3>2. QED
      BY <1>2, <3>1, Interval, Zenon
  <2>4. Numbers(handed') = Numbers(handed) \cup Numbers({buffer[i] : i \in 1 .. take})
    BY <1>1 DEF Numbers
  <2>5. QED
    BY <2>1, <2>2, <2>3, <2>4
<1>8. ExactlyOnce'
  <2>1. 1 .. pushed' - Len(buffer')
           = (1 .. pushed - Len(buffer))
               \cup (pushed - Len(buffer) + 1 .. pushed - Len(buffer) + take)
    BY <1>2, <1>3, <1>4 DEF BufferInv
  <2>2. (1 .. pushed - Len(buffer))
           \cap (pushed - Len(buffer) + 1 .. pushed - Len(buffer) + take) = {}
    BY <1>2
  <2>3. QED
    BY <1>3, <1>6, <1>7, <2>1, <2>2 DEF BufferInv, ExactlyOnce
<1>9. QED
    BY <1>2, <1>3, <1>4, <1>5, <1>8 DEF BufferInv, HandNext, WithinCapacity

\* A push is an arrival of Delivery, at the limit one that drops the oldest.
LEMMA PushArrives ==
    ASSUME BufferType, StreamType, BufferInv, StreamPush
    PROVE  Promise!Arrive \/ Promise!ArriveAtLimit
<1> USE DEF BufferType
<1>1. /\ pushed' = pushed + 1 /\ handed' = handed
      /\ buffer' = Append(Kept, hand) /\ hand \in Message
      /\ dropped' = dropped \cup (IF Kept = buffer THEN {} ELSE {Head(buffer)})
    BY DEF StreamPush, StreamType
<1>2. CASE Kept = buffer
  <2>1. Len(buffer') = Len(buffer) + 1 /\ dropped' = dropped /\ Len(buffer) \in Nat
    BY <1>1, <1>2
  <2>2. pushed' - Len(buffer') = pushed - Len(buffer)
    BY <1>1, <2>1
  <2>3. QED
    BY <1>1, <2>1, <2>2 DEF Promise!Arrive, Numbers
<1>3. CASE Kept # buffer
  <2>1. /\ buffer # <<>> /\ Kept \in Seq(Message) /\ Len(Kept) = Len(buffer) - 1
        /\ dropped' = dropped \cup {buffer[1]}
    BY <1>1, <1>3, KeptShape
  <2>2. Len(buffer) \in Nat \ {0} /\ Len(buffer') = Len(buffer)
    BY <1>1, <2>1
  <2>3. buffer[1].n = pushed - Len(buffer) + 1
    BY <2>2 DEF BufferInv, ExactlyOnce
  <2>4. Numbers(dropped') = Numbers(dropped) \cup {pushed - Len(buffer) + 1}
    BY <2>1, <2>3 DEF Numbers
  <2>5. /\ pushed - Len(buffer) < pushed
        /\ pushed' - Len(buffer') = pushed - Len(buffer) + 1
    BY <1>1, <2>2
  <2>6. Numbers(handed') = Numbers(handed)
    BY <1>1 DEF Numbers
  <2>7. QED
    BY <1>1, <2>4, <2>5, <2>6 DEF Promise!ArriveAtLimit
<1>4. QED
    BY <1>2, <1>3

\* A drain delivers the oldest messages that wait, or nothing.
LEMMA DrainDelivers ==
    ASSUME BufferType, PollType, BufferInv, NEW p \in Poller, PollDrain(p)
    PROVE  \/ \E k \in 1 .. pushed - (pushed - Len(buffer)) : Promise!Deliver(k)
           \/ UNCHANGED <<pushed, pushed - Len(buffer), Numbers(handed), Numbers(dropped)>>
<1> USE DEF BufferType
<1>1. PICK take \in {Min({pmax[p], Len(buffer)})} :
         /\ buffer' = SubSeq(buffer, take + 1, Len(buffer))
         /\ handed' = handed \cup {buffer[i] : i \in 1 .. take}
    BY DEF PollDrain
<1>2. take \in Nat /\ take <= Len(buffer) /\ Len(buffer) \in Nat
  <2>1. pmax[p] \in Nat /\ Len(buffer) \in Nat
    BY DEF PollType
  <2>2. take = Min({pmax[p], Len(buffer)})
    BY <1>1
  <2>3. QED
    BY <2>1, <2>2, MinOfTwo
<1>3. pushed' = pushed /\ dropped' = dropped
    BY DEF PollDrain
<1>4. Len(buffer') = Len(buffer) - take
  <2>1. buffer' = SubSeq(buffer, take + 1, Len(buffer))
    BY <1>1
  <2>2. /\ SubSeq(buffer, take + 1, Len(buffer)) \in Seq(Message)
        /\ Len(SubSeq(buffer, take + 1, Len(buffer))) = Len(buffer) - take
        /\ \A i \in 1 .. Len(buffer) - take :
               SubSeq(buffer, take + 1, Len(buffer))[i] = buffer[take + i]
    <3>1. buffer \in Seq(Message)
      OBVIOUS
    <3>2. QED
      BY <1>2, <3>1, DropFirst
  <2>3. QED
    BY <2>1, <2>2
<1>5. pushed - Len(buffer) \in Int /\ pushed' - Len(buffer') = pushed - Len(buffer) + take
    BY <1>2, <1>3, <1>4
<1>6. Numbers(handed') = Numbers(handed)
                         \cup (pushed - Len(buffer) + 1 .. pushed - Len(buffer) + take)
  <2>1. \A i \in 1 .. take : buffer[i].n = pushed - Len(buffer) + i
    <3>1. \A i \in 1 .. take : i \in 1 .. Len(buffer)
      BY <1>2
    <3>2. QED
      BY <3>1 DEF BufferInv, ExactlyOnce
  <2>2. Numbers(handed') = Numbers(handed) \cup {buffer[i].n : i \in 1 .. take}
    <3>1. Numbers({buffer[i] : i \in 1 .. take}) = {buffer[i].n : i \in 1 .. take}
      BY ZenonT(60) DEF Numbers
    <3>2. Numbers(handed') = Numbers(handed) \cup Numbers({buffer[i] : i \in 1 .. take})
      BY <1>1 DEF Numbers
    <3>3. QED
      BY <3>1, <3>2
  <2>3. {buffer[i].n : i \in 1 .. take} = {pushed - Len(buffer) + i : i \in 1 .. take}
    BY <2>1
  <2>4. {pushed - Len(buffer) + i : i \in 1 .. take}
           = pushed - Len(buffer) + 1 .. pushed - Len(buffer) + take
    BY <1>2, <1>5, Interval, Zenon
  <2>5. QED
    BY <2>2, <2>3, <2>4
<1>7. Numbers(dropped') = Numbers(dropped)
    BY <1>3 DEF Numbers
<1>8. CASE take = 0
  <2>1. pushed - Len(buffer) + 1 .. pushed - Len(buffer) + take = {}
    BY <1>5, <1>8
  <2>2. Numbers(handed') = Numbers(handed)
    BY <1>6, <2>1
  <2>3. pushed' - Len(buffer') = pushed - Len(buffer)
    BY <1>5, <1>8
  <2>4. QED
    BY <1>3, <1>7, <2>2, <2>3
<1>9. CASE take # 0
  <2>1. take \in 1 .. pushed - (pushed - Len(buffer))
    BY <1>2, <1>9
  <2>2. pushed - Len(buffer) + take <= pushed
    BY <1>2
  <2>3. Promise!Deliver(take)
    BY <1>3, <1>5, <1>6, <1>7, <2>2 DEF Promise!Deliver
  <2>4. QED
    BY <2>1, <2>3
<1>10. QED
    BY <1>8, <1>9

\* Every step of the subscription is a step of Delivery or invisible there.
LEMMA DeliveryStep ==
    TypeOK /\ BufferInv /\ [Next]_vars
        => [Promise!DeliveryNext]_<<pushed, pushed - Len(buffer), Numbers(handed), Numbers(dropped)>>
<1> SUFFICES ASSUME TypeOK, BufferInv, [Next]_vars
             PROVE  \/ Promise!DeliveryNext
                    \/ UNCHANGED <<pushed, pushed - Len(buffer), Numbers(handed), Numbers(dropped)>>
    OBVIOUS
<1> DEFINE Goal == \/ Promise!DeliveryNext
                   \/ UNCHANGED <<pushed, pushed - Len(buffer), Numbers(handed), Numbers(dropped)>>
<1>1. BufferType /\ StreamType /\ PollType
    BY DEF TypeOK
<1>2. ASSUME UNCHANGED bufVars PROVE Goal
    BY <1>2 DEF bufVars, Numbers
<1>3. CASE StreamPush
    BY <1>1, <1>3, PushArrives DEF Promise!DeliveryNext
<1>4. ASSUME NEW p \in Poller, PollDrain(p) PROVE Goal
    BY <1>1, <1>4, DrainDelivers DEF Promise!DeliveryNext
<1> HIDE DEF Goal
<1>5. CASE Stream
    BY <1>2, <1>3, <1>5 DEF Stream, StreamFetch, StreamNotify, StreamMaybePause,
       StreamError, StreamBackoff, StreamEnd, MarkTerminated, MarkNotify, StreamAborted, Goal
<1>6. ASSUME NEW p \in Poller, Poll(p) PROVE Goal
    BY <1>2, <1>4, <1>6 DEF Poll, PollStart, PollNotFound, PollFoundEmpty,
       PollMaybeResume, PollTerminated, PollEmpty, PollNotTerminated, PollArm, PollWoken,
       PollTimeout, vars
<1>7. ASSUME NEW j \in JobId, Job(j) PROVE Goal
    BY <1>2, <1>7 DEF Job, AutoPauseRead, AutoPauseCall, AutoResumeRead, AutoResumeCall, JobFails
<1>8. ASSUME NEW c \in Caller, Control(c) PROVE Goal
    BY <1>2, <1>8 DEF Control, FlowStart, FlowCall, FlowRecord, CallFails, SeekStart, SeekOne
<1>9. CASE Group
    BY <1>2, <1>9 DEF Group, Commit, Unsubscribe, Revoke, Revoked, Assign, Assigned, RebalanceError, RebalanceFailed, FetchEvents, Goal
<1>10. CASE UNCHANGED vars
    BY <1>2, <1>10 DEF vars, Goal
<1>11. QED
    BY <1>5, <1>6, <1>7, <1>8, <1>9, <1>10 DEF Next, Goal

\* A step that touches neither the buffer nor the history keeps both facts,
\* unless it hands a new message to the stream loop.
LEMMA BufferStep ==
    TypeOK /\ BufferInv /\ [Next]_vars => BufferType' /\ BufferInv'
<1> SUFFICES ASSUME TypeOK, BufferInv, [Next]_vars
             PROVE  BufferType' /\ BufferInv'
    OBVIOUS
<1>1. BufferType /\ StreamType /\ PollType /\ RdType
    BY DEF TypeOK
<1>2. ASSUME UNCHANGED bufVars, UNCHANGED hand, spc' = "have" => spc = "have"
      PROVE  BufferType' /\ BufferInv'
    BY <1>1, <1>2 DEF bufVars, BufferType, BufferInv, ExactlyOnce, HandNext,
                      WithinCapacity, Numbers
<1>3. ASSUME UNCHANGED bufVars, spc' # "have"
      PROVE  BufferType' /\ BufferInv'
    BY <1>1, <1>3 DEF bufVars, BufferType, BufferInv, ExactlyOnce, HandNext,
                      WithinCapacity, Numbers
<1>4. CASE StreamPush
    BY <1>1, <1>4, PushStep
<1>5. ASSUME NEW p \in Poller, PollDrain(p) PROVE BufferType' /\ BufferInv'
    BY <1>1, <1>5, DrainStep
<1>6. ASSUME NEW t \in Partition, StreamFetch(t) PROVE BufferType' /\ BufferInv'
  <2>1. UNCHANGED bufVars /\ hand'.n = pushed + 1
    BY <1>6 DEF StreamFetch
  <2>2. QED
    BY <1>1, <2>1 DEF bufVars, BufferType, BufferInv, ExactlyOnce, HandNext,
                      WithinCapacity, Numbers
<1>7. CASE Stream
    BY <1>2, <1>3, <1>4, <1>6, <1>7
       DEF Stream, StreamNotify, StreamMaybePause, StreamError, StreamBackoff,
           StreamEnd, MarkTerminated, MarkNotify, StreamAborted
<1>8. ASSUME NEW p \in Poller, Poll(p) PROVE BufferType' /\ BufferInv'
    BY <1>2, <1>5, <1>8
       DEF Poll, PollStart, PollNotFound, PollFoundEmpty, PollMaybeResume,
           PollTerminated, PollEmpty, PollNotTerminated, PollArm, PollWoken,
           PollTimeout, vars, strVars
<1>9. ASSUME NEW j \in JobId, Job(j) PROVE BufferType' /\ BufferInv'
    BY <1>2, <1>9
       DEF Job, AutoPauseRead, AutoPauseCall, AutoResumeRead, AutoResumeCall, JobFails, strVars
<1>10. ASSUME NEW c \in Caller, Control(c) PROVE BufferType' /\ BufferInv'
    BY <1>2, <1>10
       DEF Control, FlowStart, FlowCall, FlowRecord, CallFails, SeekStart, SeekOne,
           strVars
<1>11. CASE Group
    BY <1>2, <1>11 DEF Group, Commit, Unsubscribe, Revoke, Revoked, Assign, Assigned, RebalanceError, RebalanceFailed, FetchEvents, strVars
<1>12. CASE UNCHANGED vars
    BY <1>2, <1>12 DEF vars, strVars
<1>13. QED
    BY <1>7, <1>8, <1>9, <1>10, <1>11, <1>12 DEF Next

\* Nothing has been pushed yet: the accounting of the messages holds.
LEMMA BufferInit == Init => BufferInv
<1> SUFFICES ASSUME Init PROVE BufferInv
    OBVIOUS
<1>1. /\ Len(buffer) = 0 /\ pushed = 0 /\ handed = {} /\ dropped = {}
      /\ spc = "next"
    BY DEF Init
<1>2. Numbers(handed) = {} /\ Numbers(dropped) = {}
    BY <1>1 DEF Numbers
<1>3. 1 .. pushed - Len(buffer) = {} /\ 1 .. Len(buffer) = {}
    BY <1>1
<1>4. QED
    BY <1>1, <1>2, <1>3 DEF BufferInv, ExactlyOnce, HandNext, WithinCapacity

-----------------------------------------------------------------------------
(* The order of the messages around a seek *)

\* No message is of a later generation than its partition, and the one in the
\* hand of the stream loop is of the latest fetched from its partition.
GenInv ==
    /\ SeekOrder
    /\ \A i \in 1 .. Len(buffer) : buffer[i].gen <= gen[buffer[i].tp]
    /\ spc = "have" =>
         /\ hand.gen <= gen[hand.tp]
         /\ \A i \in 1 .. Len(buffer) : buffer[i].tp = hand.tp => buffer[i].gen <= hand.gen

\* A push appends a message that is not older than what it follows.
LEMMA PushOrder ==
    ASSUME BufferType, StreamType, RdType, GenInv, StreamPush
    PROVE  GenInv'
<1> USE DEF BufferType
<1>1. /\ hand \in Message /\ buffer' = Append(Kept, hand)
      /\ spc' = "notify" /\ gen' = gen
    BY DEF StreamPush, StreamType, rdVars
<1>2. PICK d \in {0, 1} : /\ Kept \in Seq(Message) /\ Len(Kept) = Len(buffer) - d
                         /\ \A i \in 1 .. Len(Kept) : Kept[i] = buffer[i + d]
  <2>1. CASE Kept = buffer
    BY <2>1
  <2>2. CASE Kept # buffer
    BY <2>2, KeptShape
  <2>3. QED
    BY <2>1, <2>2
<1>3. Len(Kept) \in Nat /\ Len(buffer) \in Nat /\ Len(buffer') = Len(Kept) + 1
    BY <1>1, <1>2
<1>4. /\ \A i \in 1 .. Len(Kept) : i + d \in 1 .. Len(buffer) /\ buffer'[i] = buffer[i + d]
      /\ buffer'[Len(Kept) + 1] = hand
    BY <1>1, <1>2, <1>3
<1>5. ASSUME NEW i \in 1 .. Len(buffer') PROVE buffer'[i].gen <= gen'[buffer'[i].tp]
  <2>1. CASE i = Len(Kept) + 1
    BY <1>1, <1>4, <2>1 DEF GenInv, StreamPush
  <2>2. CASE i \in 1 .. Len(Kept)
    BY <1>1, <1>4, <2>2 DEF GenInv
  <2>3. QED
    BY <1>3, <2>1, <2>2
<1>6. ASSUME NEW i \in 1 .. Len(buffer'), NEW j \in 1 .. Len(buffer'),
             i < j, buffer'[i].tp = buffer'[j].tp
      PROVE  buffer'[i].gen <= buffer'[j].gen
  <2>1. i \in 1 .. Len(Kept)
    BY <1>3, <1>6
  <2>2. CASE j = Len(Kept) + 1
    BY <1>4, <1>6, <2>1, <2>2 DEF GenInv, StreamPush
  <2>3. CASE j \in 1 .. Len(Kept)
    <3>1. i + d < j + d
      BY <1>3, <1>6, <2>1, <2>3
    <3>2. /\ i + d \in 1 .. Len(buffer) /\ buffer'[i] = buffer[i + d]
          /\ j + d \in 1 .. Len(buffer) /\ buffer'[j] = buffer[j + d]
      BY <1>4, <2>1, <2>3
    <3>3. buffer[i + d].tp = buffer[j + d].tp
      BY <1>6, <3>2
    <3>4. buffer[i + d].gen <= buffer[j + d].gen
      BY <3>1, <3>2, <3>3 DEF GenInv, SeekOrder
    <3>5. QED
      BY <3>2, <3>4
  <2>4. QED
    BY <1>3, <2>2, <2>3
<1>7. SeekOrder'
    BY <1>6 DEF SeekOrder
<1>8. QED
    BY <1>1, <1>5, <1>7 DEF GenInv

\* A drain leaves a suffix of the buffer.
LEMMA DrainOrder ==
    ASSUME BufferType, PollType, GenInv, NEW p \in Poller, PollDrain(p)
    PROVE  GenInv'
<1> USE DEF BufferType
<1>1. PICK take \in {Min({pmax[p], Len(buffer)})} :
         buffer' = SubSeq(buffer, take + 1, Len(buffer))
    BY DEF PollDrain
<1>2. take \in Nat /\ take <= Len(buffer) /\ Len(buffer) \in Nat
  <2>1. pmax[p] \in Nat /\ Len(buffer) \in Nat
    BY DEF PollType
  <2>2. take = Min({pmax[p], Len(buffer)})
    BY <1>1
  <2>3. QED
    BY <2>1, <2>2, MinOfTwo
<1>3. spc' = spc /\ hand' = hand /\ gen' = gen
    BY DEF PollDrain, strVars, rdVars
<1>4. /\ Len(buffer') = Len(buffer) - take
      /\ \A i \in 1 .. Len(buffer') : buffer'[i] = buffer[take + i]
  <2>1. buffer' = SubSeq(buffer, take + 1, Len(buffer))
    BY <1>1
  <2>2. /\ SubSeq(buffer, take + 1, Len(buffer)) \in Seq(Message)
        /\ Len(SubSeq(buffer, take + 1, Len(buffer))) = Len(buffer) - take
        /\ \A i \in 1 .. Len(buffer) - take :
               SubSeq(buffer, take + 1, Len(buffer))[i] = buffer[take + i]
    <3>1. buffer \in Seq(Message)
      OBVIOUS
    <3>2. QED
      BY <1>2, <3>1, DropFirst
  <2>3. QED
    BY <2>1, <2>2
<1>5. \A i \in 1 .. Len(buffer') : take + i \in 1 .. Len(buffer)
    BY <1>2, <1>4
<1>6. SeekOrder'
  <2> SUFFICES ASSUME NEW i \in 1 .. Len(buffer'), NEW j \in 1 .. Len(buffer'),
                      i < j, buffer'[i].tp = buffer'[j].tp
               PROVE  buffer'[i].gen <= buffer'[j].gen
    BY DEF SeekOrder
  <2>1. take + i < take + j
    BY <1>2, <1>4
  <2>2. QED
    BY <1>4, <1>5, <2>1 DEF GenInv, SeekOrder
<1>7. QED
    BY <1>3, <1>4, <1>5, <1>6 DEF GenInv

\* Every step keeps the order of the generations.
LEMMA GenStep == TypeOK /\ GenInv /\ [Next]_vars => GenInv'
<1> SUFFICES ASSUME TypeOK, GenInv, [Next]_vars PROVE GenInv'
    OBVIOUS
<1>1. BufferType /\ StreamType /\ PollType /\ RdType
    BY DEF TypeOK
<1>2. ASSUME UNCHANGED <<buffer, gen, hand>>, spc' = "have" => spc = "have"
      PROVE  GenInv'
    BY <1>2 DEF GenInv, SeekOrder
<1>3. ASSUME UNCHANGED <<buffer, gen>>, spc' # "have" PROVE GenInv'
    BY <1>3 DEF GenInv, SeekOrder
<1>4. CASE StreamPush
    BY <1>1, <1>4, PushOrder
<1>5. ASSUME NEW p \in Poller, PollDrain(p) PROVE GenInv'
    BY <1>1, <1>5, DrainOrder
<1>6. ASSUME NEW t \in Partition, StreamFetch(t) PROVE GenInv'
  <2>1. UNCHANGED <<buffer, gen>> /\ hand'.gen = gen[t] /\ hand'.tp = t
    BY <1>6 DEF StreamFetch, bufVars
  <2>2. gen[t] \in Nat
    BY <1>1 DEF RdType
  <2>3. QED
    BY <2>1, <2>2 DEF GenInv, SeekOrder
<1>7. ASSUME NEW c \in Caller, NEW t \in Partition, NEW off \in SeekOffsets, SeekOne(c, t, off)
      PROVE  GenInv'
  <2>1. UNCHANGED <<buffer, hand, spc>> /\ gen' = [gen EXCEPT ![t] = @ + 1]
    BY <1>7 DEF SeekOne, bufVars, strVars
  <2>2. \A u \in Partition : gen[u] \in Nat /\ gen'[u] \in Nat /\ gen[u] <= gen'[u]
    BY <1>1, <2>1 DEF RdType
  <2>3. \A i \in 1 .. Len(buffer) : buffer[i] \in Message
    BY <1>1 DEF BufferType
  <2>4. \A i \in 1 .. Len(buffer') : buffer'[i].gen <= gen'[buffer'[i].tp]
    <3> TAKE i \in 1 .. Len(buffer')
    <3>1. buffer[i].tp \in Partition /\ buffer[i].gen \in Nat /\ buffer[i].gen <= gen[buffer[i].tp]
      BY <2>1, <2>3 DEF GenInv, Message
    <3>2. gen[buffer[i].tp] \in Nat /\ gen'[buffer[i].tp] \in Nat
          /\ gen[buffer[i].tp] <= gen'[buffer[i].tp]
      BY <2>2, <3>1
    <3>3. QED
      BY <2>1, <3>1, <3>2
  <2>5. spc' = "have" => hand'.gen <= gen'[hand'.tp]
    <3> SUFFICES ASSUME spc' = "have" PROVE hand'.gen <= gen'[hand'.tp]
      OBVIOUS
    <3>1. hand.tp \in Partition /\ hand.gen \in Nat /\ hand.gen <= gen[hand.tp]
      BY <1>1, <2>1 DEF StreamType, GenInv, Message
    <3>2. gen[hand.tp] \in Nat /\ gen'[hand.tp] \in Nat /\ gen[hand.tp] <= gen'[hand.tp]
      BY <2>2, <3>1
    <3>3. QED
      BY <2>1, <3>1, <3>2
  <2>6. QED
    BY <2>1, <2>4, <2>5 DEF GenInv, SeekOrder
<1>8. CASE Stream
    BY <1>2, <1>3, <1>4, <1>6, <1>8
       DEF Stream, StreamNotify, StreamMaybePause, StreamError, StreamBackoff,
           StreamEnd, MarkTerminated, MarkNotify, StreamAborted, bufVars, rdVars
<1>9. ASSUME NEW p \in Poller, Poll(p) PROVE GenInv'
    BY <1>2, <1>5, <1>9
       DEF Poll, PollStart, PollNotFound, PollFoundEmpty, PollMaybeResume,
           PollTerminated, PollEmpty, PollNotTerminated, PollArm, PollWoken,
           PollTimeout, vars, strVars, bufVars, rdVars
<1>10. ASSUME NEW j \in JobId, Job(j) PROVE GenInv'
    BY <1>2, <1>10
       DEF Job, AutoPauseRead, AutoPauseCall, AutoResumeRead, AutoResumeCall, JobFails, strVars, bufVars, rdVars
<1>11. ASSUME NEW c \in Caller, Control(c) PROVE GenInv'
    BY <1>2, <1>7, <1>11
       DEF Control, FlowStart, FlowCall, FlowRecord, CallFails, SeekStart,
           strVars, bufVars, rdVars
<1>12. CASE Group
    BY <1>2, <1>12 DEF Group, Commit, Unsubscribe, Revoke, Revoked, Assign, Assigned,
       RebalanceError, RebalanceFailed, FetchEvents, strVars, bufVars, rdVars
<1>13. CASE UNCHANGED vars
    BY <1>2, <1>13 DEF vars, strVars, bufVars, rdVars
<1>14. QED
    BY <1>8, <1>9, <1>10, <1>11, <1>12, <1>13 DEF Next

-----------------------------------------------------------------------------
(* The theorems *)

IInv == TypeOK /\ BufferInv

\* The inductive invariant holds in every reachable state, whatever polls,
\* jobs, control calls, rebalances and stream errors interleave.
THEOREM Invariance == Spec => []IInv
<1>1. Init => IInv
    BY TypeInit, BufferInit DEF IInv
<1>2. IInv /\ [Next]_vars => IInv'
  <2> SUFFICES ASSUME IInv, [Next]_vars PROVE IInv'
    OBVIOUS
  <2>1. BufferType' /\ BufferInv'
    BY BufferStep DEF IInv
  <2>2. FlagType' /\ StreamType' /\ PollType' /\ JobType' /\ RdType' /\ EventType'
    BY FlagTypeStep, StreamTypeStep, PollTypeStep, JobTypeStep, RdTypeStep, EventTypeStep
       DEF IInv, TypeOK
  <2>3. QED
    BY <2>1, <2>2 DEF IInv, TypeOK
<1>3. QED
    BY <1>1, <1>2, PTL DEF Spec

\* Every variable of the subscription keeps its type (the byte counter is
\* the subject of BytesAreExact).
THEOREM TypeCorrect == Spec => []TypeOK
<1>1. IInv => TypeOK
    BY DEF IInv
<1>2. QED
    BY <1>1, Invariance, PTL

\* Every message pushed into the buffer is buffered, or returned by exactly
\* one poll, or counted as dropped, in arrival order.
THEOREM MessagesExactlyOnce == Spec => []ExactlyOnce
<1>1. IInv => ExactlyOnce
    BY DEF IInv, BufferInv
<1>2. QED
    BY <1>1, Invariance, PTL

\* The buffer never holds more than buffer_capacity messages.
THEOREM BufferBounded == Spec => []WithinCapacity
<1>1. IInv => WithinCapacity
    BY DEF IInv, BufferInv
<1>2. QED
    BY <1>1, Invariance, PTL

\* PHP is never misled about its assignment, however many events it leaves
\* unread.
THEOREM PhpKnowsAssignment == Spec => []AssignmentKnown
<1>1. Init => AssignmentKnown
    BY DEF Init, AssignmentKnown, Owned
<1>2. IInv /\ AssignmentKnown /\ [Next]_vars => AssignmentKnown'
    BY AssignmentKnownStep DEF IInv
<1>3. QED
    BY <1>1, <1>2, Invariance, PTL DEF Spec

\* Within a partition, no message fetched after a seek is returned before one
\* fetched earlier, whatever else runs.
THEOREM SeeksKeepOrder == Spec => []SeekOrder
<1>1. Init => GenInv
  <2> SUFFICES ASSUME Init PROVE GenInv
    OBVIOUS
  <2>1. 1 .. Len(buffer) = {} /\ spc = "next"
    BY DEF Init
  <2>2. QED
    BY <2>1 DEF GenInv, SeekOrder
<1>2. IInv /\ GenInv /\ [Next]_vars => GenInv'
    BY GenStep DEF IInv
<1>3. GenInv => SeekOrder
    BY DEF GenInv
<1>4. QED
    BY <1>1, <1>2, <1>3, Invariance, PTL DEF Spec

\* The subscription with all its threads implements the abstract Delivery.
THEOREM ImplementsDelivery == Spec => DeliversInOrder
<1>1. Init => Promise!DeliveryInit
  <2> SUFFICES ASSUME Init PROVE Promise!DeliveryInit
    OBVIOUS
  <2>1. pushed = 0 /\ Len(buffer) = 0 /\ handed = {} /\ dropped = {}
    BY DEF Init
  <2>2. Numbers(handed) = {} /\ Numbers(dropped) = {} /\ pushed - Len(buffer) = 0
    BY <2>1 DEF Numbers
  <2>3. QED
    BY <2>1, <2>2 DEF Promise!DeliveryInit
<1>2. IInv /\ [Next]_vars => [Promise!DeliveryNext]_(Promise!deliveryVars)
    BY DeliveryStep DEF IInv, Promise!deliveryVars
<1>3. QED
    BY <1>1, <1>2, Invariance, PTL DEF Spec, DeliversInOrder, Promise!DeliverySpec

-----------------------------------------------------------------------------
(* The bytes of the buffer *)

\* One push of the stream loop: the bytes of the message popped at the limit
\* are taken off, the bytes of the new one added.
LEMMA PushBytes ==
    ASSUME BufferType, StreamType, BytesExact, StreamPush
    PROVE  BytesExact'
<1> USE DEF BufferType
<1>1. hand \in Message
    BY DEF StreamPush, StreamType
<1>2. /\ buffer' = Append(Kept, hand)
      /\ buffer_bytes' = buffer_bytes - Bytes(SubSeq(buffer, 1, Len(buffer) - Len(Kept)))
                         + hand.bytes
    BY DEF StreamPush
<1>3. ASSUME NEW k \in Nat, k <= Len(buffer), Kept = SubSeq(buffer, k + 1, Len(buffer)),
             Kept \in Seq(Message), Len(buffer) - Len(Kept) = k
      PROVE  BytesExact'
  <2>1. Bytes(Kept) = Bytes(buffer) - Bytes(SubSeq(buffer, 1, k))
    BY <1>3, BytesDrop
  <2>2. Bytes(buffer') = Bytes(Kept) + hand.bytes
    BY <1>1, <1>2, <1>3, BytesAppend
  <2>3. buffer_bytes' = buffer_bytes - Bytes(SubSeq(buffer, 1, k)) + hand.bytes
    BY <1>2, <1>3
  <2> QED BY <2>1, <2>2, <2>3 DEF BytesExact
<1>4. CASE Kept = buffer
  <2>1. buffer \in Seq(Message) /\ Len(buffer) \in Nat
    OBVIOUS
  <2>2. SubSeq(buffer, 0 + 1, Len(buffer)) = buffer
    BY <2>1
  <2> QED BY <1>3, <1>4, <2>1, <2>2
<1>5. CASE Kept # buffer
  <2>1. /\ buffer # <<>> /\ Kept = Tail(buffer) /\ Kept \in Seq(Message)
        /\ Len(Kept) = Len(buffer) - 1
        /\ \A i \in 1 .. Len(Kept) : Kept[i] = buffer[i + 1]
    BY <1>5, KeptShape
  <2>2. buffer \in Seq(Message) /\ Len(buffer) \in Nat /\ 1 \in Nat /\ 1 <= Len(buffer)
    BY <2>1
  <2>3. Kept = SubSeq(buffer, 1 + 1, Len(buffer))
    <3>1. /\ SubSeq(buffer, 1 + 1, Len(buffer)) \in Seq(Message)
          /\ Len(SubSeq(buffer, 1 + 1, Len(buffer))) = Len(buffer) - 1
          /\ \A i \in 1 .. Len(buffer) - 1 : SubSeq(buffer, 1 + 1, Len(buffer))[i] = buffer[1 + i]
      <4> HIDE DEF BufferType
      <4> QED BY <2>2, DropFirst
    <3>2. \A i \in 1 .. Len(Kept) : Kept[i] = SubSeq(buffer, 1 + 1, Len(buffer))[i]
      BY <2>1, <2>2, <3>1
    <3> QED BY <2>1, <3>1, <3>2, SeqEqual
  <2> QED BY <1>3, <2>1, <2>2, <2>3
<1> QED BY <1>4, <1>5

\* One drain of a poll: the bytes of the batch are taken off.
LEMMA DrainBytes ==
    ASSUME BufferType, PollType, BytesExact, NEW p \in Poller, PollDrain(p)
    PROVE  BytesExact'
<1> USE DEF BufferType
<1>1. PICK take \in {Min({pmax[p], Len(buffer)})} :
         /\ buffer' = SubSeq(buffer, take + 1, Len(buffer))
         /\ buffer_bytes' = buffer_bytes - Bytes(SubSeq(buffer, 1, take))
    BY DEF PollDrain
<1>2. pmax[p] \in Nat /\ Len(buffer) \in Nat
    BY DEF PollType
<1>3. take \in Nat /\ take <= Len(buffer)
  <2>1. take = Min({pmax[p], Len(buffer)})
    BY <1>1
  <2> QED BY <1>2, <2>1, MinOfTwo
<1>4. Bytes(buffer') = Bytes(buffer) - Bytes(SubSeq(buffer, 1, take))
    BY <1>1, <1>3, BytesDrop
<1> QED BY <1>1, <1>4 DEF BytesExact

\* Only a push and a drain touch the buffer or its byte counter.
LEMMA BytesStep == TypeOK /\ BytesExact /\ [Next]_vars => BytesExact'
<1> SUFFICES ASSUME TypeOK, BytesExact, [Next]_vars PROVE BytesExact'
    OBVIOUS
<1>1. BufferType /\ StreamType /\ PollType
    BY DEF TypeOK
<1>2. ASSUME UNCHANGED bufVars PROVE BytesExact'
    BY <1>2 DEF bufVars, BytesExact
<1>3. CASE StreamPush
    BY <1>1, <1>3, PushBytes
<1>4. ASSUME NEW p \in Poller, PollDrain(p) PROVE BytesExact'
    BY <1>1, <1>4, DrainBytes
<1>5. CASE Stream
    BY <1>2, <1>3, <1>5
       DEF Stream, StreamFetch, StreamNotify, StreamMaybePause, StreamError,
           StreamBackoff, StreamEnd, MarkTerminated, MarkNotify, StreamAborted
<1>6. ASSUME NEW p \in Poller, Poll(p) PROVE BytesExact'
    BY <1>2, <1>4, <1>6
       DEF Poll, PollStart, PollNotFound, PollFoundEmpty, PollMaybeResume,
           PollTerminated, PollEmpty, PollNotTerminated, PollArm, PollWoken,
           PollTimeout, vars
<1>7. ASSUME NEW j \in JobId, Job(j) PROVE BytesExact'
    BY <1>2, <1>7 DEF Job, AutoPauseRead, AutoPauseCall, AutoResumeRead, AutoResumeCall, JobFails
<1>8. ASSUME NEW c \in Caller, Control(c) PROVE BytesExact'
    BY <1>2, <1>8
       DEF Control, FlowStart, FlowCall, FlowRecord, CallFails, SeekStart, SeekOne
<1>9. CASE Group
    BY <1>2, <1>9
       DEF Group, Commit, Unsubscribe, Revoke, Revoked, Assign, Assigned, RebalanceError, RebalanceFailed, FetchEvents
<1>10. CASE UNCHANGED vars
    BY <1>2, <1>10 DEF vars
<1>11. QED
    BY <1>5, <1>6, <1>7, <1>8, <1>9, <1>10 DEF Next

\* buffer_bytes is the number of bytes in the buffer at every moment: the byte
\* limits of the overflow branch and the watermarks compare what is there.
THEOREM BytesAreExact == Spec => []BytesExact
<1>1. Init => BytesExact
  <2> SUFFICES ASSUME Init PROVE BytesExact
    OBVIOUS
  <2>1. buffer = << >> /\ buffer_bytes = 0
    BY DEF Init
  <2> QED BY <2>1, BytesOfNone DEF BytesExact
<1>2. Spec => []TypeOK
  BY TypeCorrect
<1>3. QED
  BY <1>1, <1>2, BytesStep, PTL DEF Spec

=============================================================================
