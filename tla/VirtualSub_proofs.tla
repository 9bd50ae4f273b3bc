------------------------- MODULE VirtualSub_proofs -------------------------
(***************************************************************************)
(* Machine-checked proofs about VirtualSub, for every number of threads,   *)
(* virtual subscriptions, crashes and late answers.                        *)
(***************************************************************************)
EXTENDS VirtualSub, FiniteSetTheorems, TLAPS

USE HandleAssumption, HealBounds

\* Handing out a real id keeps the types of the worker's table.
LEMMA WorkerSubscribeType ==
    ASSUME TypeOK, NEW v \in Virtual, WorkerSubscribe(v)
    PROVE  /\ next_id \in Id /\ next_id' = next_id + 1 /\ next_id' \in 1 .. MaxId + 1
           /\ live' \in [Id -> Virtual \cup {None}]
           /\ live' = [live EXCEPT ![next_id] = v]
BY DEF TypeOK, WorkerSubscribe, Id

\* Every variable keeps its type.
LEMMA TypeStep == TypeOK /\ [Next]_vars => TypeOK'
<1> SUFFICES ASSUME TypeOK, [Next]_vars PROVE TypeOK'
    OBVIOUS
<1>1. CASE Crash
    BY <1>1 DEF Crash, TypeOK
<1>2. ASSUME NEW r \in Id, Terminate(r) PROVE TypeOK'
    BY <1>2 DEF Terminate, TypeOK
<1>3. ASSUME NEW t \in Thread, Return(t)
      PROVE  /\ pc' \in [Thread -> PCs] /\ snap' \in [Thread -> 0 .. MaxId]
             /\ lock' \in [Virtual -> Thread \cup {None}]
    BY <1>3 DEF Return, Goto, TypeOK, PCs
<1>4. ASSUME NEW t \in Thread, Subscribe(t) \/ Resubscribe(t) PROVE TypeOK'
  <2>1. WorkerSubscribe(Handle[t]) /\ Handle[t] \in Virtual
    BY <1>4 DEF Subscribe, Resubscribe
  <2>2. /\ next_id \in Id /\ next_id' \in 1 .. MaxId + 1
        /\ live' \in [Id -> Virtual \cup {None}]
    BY <2>1, WorkerSubscribeType
  <2>3. CASE Subscribe(t)
    <3>1. pc' \in [Thread -> PCs] /\ snap' \in [Thread -> 0 .. MaxId]
      BY <2>2, <2>3 DEF Subscribe, Goto, TypeOK, PCs, Id
    <3>2. known' \subseteq Virtual
      BY <2>1, <2>3 DEF Subscribe, TypeOK
    <3>3. UNCHANGED <<crashes, late, registry, lock>>
      BY <2>3 DEF Subscribe
    <3>4. QED
      BY <2>2, <3>1, <3>2, <3>3 DEF TypeOK
  <2>4. CASE Resubscribe(t)
    BY <2>2, <2>4 DEF Resubscribe, Goto, TypeOK, PCs, Id
  <2>5. QED
    BY <1>4, <2>3, <2>4
<1>5. ASSUME NEW t \in Thread, ResubscribeFails(t) PROVE TypeOK'
  <2>1. /\ next_id' \in 1 .. MaxId + 1 /\ live' \in [Id -> Virtual \cup {None}]
        /\ late' \in 0 .. MaxLate
    <3>1. CASE UNCHANGED <<live, next_id, late>>
      BY <3>1 DEF TypeOK
    <3>2. CASE late < MaxLate /\ WorkerSubscribe(Handle[t]) /\ late' = late + 1
      <4>1. /\ next_id' \in 1 .. MaxId + 1 /\ live' \in [Id -> Virtual \cup {None}]
        BY <3>2, WorkerSubscribeType
      <4>2. late' \in 0 .. MaxLate
        BY <3>2 DEF TypeOK
      <4>3. QED
        BY <4>1, <4>2
    <3>3. QED
      BY <1>5, <3>1, <3>2 DEF ResubscribeFails
  <2>2. QED
    BY <1>3, <1>5, <2>1 DEF ResubscribeFails, TypeOK
<1>13. ASSUME NEW t \in Thread, SubscribeLate(t) PROVE TypeOK'
  <2>1. /\ next_id' \in 1 .. MaxId + 1 /\ live' \in [Id -> Virtual \cup {None}]
        /\ late' \in 0 .. MaxLate
    <3>1. WorkerSubscribe(Handle[t]) /\ Handle[t] \in Virtual
      BY <1>13 DEF SubscribeLate
    <3>2. next_id' \in 1 .. MaxId + 1 /\ live' \in [Id -> Virtual \cup {None}]
      BY <3>1, WorkerSubscribeType
    <3>3. late' \in 0 .. MaxLate
      BY <1>13 DEF SubscribeLate, TypeOK
    <3>4. QED
      BY <3>2, <3>3
  <2>2. QED
    BY <1>13, <2>1 DEF SubscribeLate, TypeOK
<1>6. ASSUME NEW t \in Thread, Insert(t) PROVE TypeOK'
    BY <1>3, <1>6 DEF Insert, TypeOK
<1>7. ASSUME NEW t \in Thread, UnsubscribeSend(t) PROVE TypeOK'
    BY <1>3, <1>7 DEF UnsubscribeSend, TypeOK
<1>8. ASSUME NEW t \in Thread, OpOk(t) \/ RetryGone(t) \/ OpFails(t) \/ ControlDone(t)
      PROVE  TypeOK'
    BY <1>3, <1>8 DEF OpOk, RetryGone, OpFails, ControlDone, TypeOK
<1>9. ASSUME NEW t \in Thread, Unsubscribe(t) \/ Start(t) \/ Control(t) PROVE TypeOK'
  <2>1. Handle[t] \in Virtual /\ Handle[t] \in 0 .. MaxId /\ registry[Handle[t]] \in 0 .. MaxId
    <3>1. Handle[t] \in Virtual
      OBVIOUS
    <3>2. Handle[t] \in 1 .. MaxId
      BY <3>1
    <3>3. Handle[t] \in 0 .. MaxId
      BY <3>2
    <3>4. registry[Handle[t]] \in 0 .. MaxId
      BY <3>1 DEF TypeOK
    <3>5. QED
      BY <3>1, <3>3, <3>4
  <2>2. CASE Unsubscribe(t)
    <3>1. pc' \in [Thread -> PCs] /\ snap' \in [Thread -> 0 .. MaxId]
      BY <2>1, <2>2 DEF Unsubscribe, Goto, TypeOK, PCs
    <3>2. registry' \in [Virtual -> 0 .. MaxId]
      BY <2>1, <2>2 DEF Unsubscribe, TypeOK
    <3>3. UNCHANGED <<live, next_id, crashes, late, known, lock>>
      BY <2>2 DEF Unsubscribe
    <3>4. QED
      BY <3>1, <3>2, <3>3 DEF TypeOK
  <2>3. CASE Start(t)
    BY <2>1, <2>3 DEF Start, Goto, TypeOK, PCs
  <2>4. CASE Control(t)
    BY <2>1, <2>4 DEF Control, Goto, TypeOK, PCs
  <2>5. QED
    BY <1>9, <2>2, <2>3, <2>4
<1>10. ASSUME NEW t \in Thread, OpGone(t) \/ TakeLock(t) \/ Reread(t) \/ Update(t)
       PROVE  TypeOK'
  <2>1. Handle[t] \in Virtual /\ registry[Handle[t]] \in 0 .. MaxId /\ snap[t] \in 0 .. MaxId
    BY DEF TypeOK
  <2>2. CASE OpGone(t)
    BY <2>2 DEF OpGone, Goto, TypeOK, PCs
  <2>3. CASE TakeLock(t)
    BY <2>1, <2>3 DEF TakeLock, Goto, TypeOK, PCs
  <2>4. CASE Reread(t)
    BY <2>1, <2>4 DEF Reread, Goto, TypeOK, PCs
  <2>5. CASE Update(t)
    BY <2>1, <2>5 DEF Update, Goto, TypeOK, PCs
  <2>6. QED
    BY <1>10, <2>2, <2>3, <2>4, <2>5
<1>11. CASE UNCHANGED vars
    BY <1>11 DEF vars, TypeOK
<1>12. QED
    BY <1>1, <1>2, <1>4, <1>5, <1>6, <1>7, <1>8, <1>9, <1>10, <1>11, <1>13 DEF Next, Step

\* Every variable of the registry, the worker's table and the threads keeps
\* its type.
THEOREM TypeCorrect == Spec => []TypeOK
<1>1. Init => TypeOK
    BY DEF Init, TypeOK, PCs, Id
<1>2. QED
    BY <1>1, TypeStep, PTL DEF Spec

-----------------------------------------------------------------------------
(* The lock of an entry *)

Healing == {"reread", "resub", "update", "retry"}

\* The guard of an entry is held exactly while its thread is healing.
LockDiscipline ==
    \A v \in Virtual, t \in Thread : lock[v] = t <=> Handle[t] = v /\ pc[t] \in Healing

\* Every step keeps the lock with the thread inside the healing section.
LEMMA LockStep == TypeOK /\ LockDiscipline /\ [Next]_vars => LockDiscipline'
<1> SUFFICES ASSUME TypeOK, LockDiscipline, [Next]_vars PROVE LockDiscipline'
    OBVIOUS
<1>0. /\ pc \in [Thread -> PCs] /\ lock \in [Virtual -> Thread \cup {None}]
    BY DEF TypeOK
<1>1. CASE UNCHANGED <<pc, lock>>
    BY <1>1 DEF LockDiscipline, Healing
<1>2. ASSUME NEW t \in Thread, Return(t) PROVE LockDiscipline'
    BY <1>0, <1>2 DEF Return, Goto, LockDiscipline, Healing
<1>3. ASSUME NEW t \in Thread, NEW l \in PCs, Goto(t, l), UNCHANGED lock,
             l \in Healing <=> pc[t] \in Healing
      PROVE  LockDiscipline'
    BY <1>0, <1>3 DEF Goto, LockDiscipline, Healing
<1>4. ASSUME NEW t \in Thread, TakeLock(t) PROVE LockDiscipline'
    BY <1>0, <1>4 DEF TakeLock, Goto, LockDiscipline, Healing
<1>5. ASSUME NEW t \in Thread, Subscribe(t) \/ Unsubscribe(t) \/ Start(t) \/ OpGone(t) \/ Control(t)
      PROVE  LockDiscipline'
    BY <1>3, <1>5 DEF Subscribe, Unsubscribe, Start, OpGone, Control, Healing, PCs
<1>6. ASSUME NEW t \in Thread, Reread(t) \/ Resubscribe(t) \/ Update(t) PROVE LockDiscipline'
    BY <1>3, <1>6 DEF Reread, Resubscribe, Update, Healing, PCs
<1>7. ASSUME NEW t \in Thread, \/ Insert(t) \/ UnsubscribeSend(t) \/ OpOk(t) \/ RetryGone(t)
                               \/ OpFails(t) \/ ResubscribeFails(t) \/ ControlDone(t)
      PROVE  LockDiscipline'
    BY <1>2, <1>7 DEF Insert, UnsubscribeSend, OpOk, RetryGone, OpFails, ResubscribeFails,
       ControlDone
<1>8. CASE Crash \/ UNCHANGED vars
    BY <1>1, <1>8 DEF Crash, vars
<1>9. ASSUME NEW r \in Id, Terminate(r) PROVE LockDiscipline'
    BY <1>1, <1>9 DEF Terminate
<1>11. ASSUME NEW t \in Thread, SubscribeLate(t) PROVE LockDiscipline'
    BY <1>1, <1>11 DEF SubscribeLate
<1>10. QED
    BY <1>4, <1>5, <1>6, <1>7, <1>8, <1>9, <1>11 DEF Next, Step

\* An entry that PHP has removed is not brought back by a call that was
\* healing it.
THEOREM ClosedForGood == Spec => HandleStaysClosed
<1>1. TypeOK /\ [Next]_vars =>
        [\A v \in known :
            registry[v] = 0 /\ (\A t \in Thread : pc[t] = "insert" => Handle[t] # v)
                => registry'[v] = 0]_vars
  <2> SUFFICES ASSUME TypeOK, Next, NEW v \in known, registry[v] = 0,
                      \A t \in Thread : pc[t] = "insert" => Handle[t] # v
               PROVE  registry'[v] = 0
    OBVIOUS
  <2>0. registry \in [Virtual -> 0 .. MaxId] /\ v \in Virtual
    BY DEF TypeOK
  <2>1. CASE UNCHANGED registry
    BY <2>1
  <2>2. ASSUME NEW t \in Thread, Insert(t) \/ Unsubscribe(t) \/ Update(t) PROVE registry'[v] = 0
    BY <2>0, <2>2 DEF Insert, Unsubscribe, Update
  <2>3. QED
    BY <2>1, <2>2 DEF Next, Step, Crash, Terminate, Subscribe, SubscribeLate, UnsubscribeSend, Start,
       OpOk, OpGone, RetryGone, OpFails, TakeLock, Reread, Resubscribe, ResubscribeFails,
       Control, ControlDone
<1>2. QED
    BY <1>1, TypeCorrect, PTL DEF Spec, HandleStaysClosed


-----------------------------------------------------------------------------
(* One live subscription per handle.  The argument is about one worker     *)
(* process: its ids are not reused, so that an id found gone stays gone    *)
(* until the thread holding the lock has replaced it.                      *)

\* While the first worker lives, its ids are not reused: what is live, recorded
\* or remembered was handed out before, and PHP has the handles in use.
Numbered ==
    /\ \A r \in Id : live[r] # None => r < next_id
    /\ \A v \in Virtual : registry[v] < next_id /\ (registry[v] # 0 => v \in known)
    /\ \A t \in Thread : /\ pc[t] # "control" => snap[t] < next_id
                         /\ pc[t] # "idle" => Handle[t] \in known

\* The entry of v is made before any other call can use v.
Inserting ==
    \A t \in Thread : pc[t] = "insert" =>
        /\ registry[Handle[t]] = 0
        /\ \A u \in Thread : Handle[u] = Handle[t] /\ u # t => pc[u] = "idle"

\* The id a thread heals is gone, it is still the one in the registry when the
\* thread subscribes, and the new one does not join a live one there.
Gone ==
    \A t \in Thread :
        /\ pc[t] \in {"lock", "reread", "resub"} => ~IsLive(snap[t])
        /\ pc[t] = "resub" => registry[Handle[t]] \in {0, snap[t]}
        /\ pc[t] = "update" => ~IsLive(registry[Handle[t]])

HealInv == Numbered /\ Inserting /\ Gone /\ Cardinality(Orphans) <= late

FirstWorker == crashes = 0 => HealInv

\* A handle PHP has unsubscribed stays so.
LEMMA ClosedStays ==
    ASSUME TypeOK, [Next]_vars, NEW v \in Virtual, Closed(v)
    PROVE  Closed(v)'
<1>0. /\ registry \in [Virtual -> 0 .. MaxId] /\ pc \in [Thread -> PCs]
      /\ v \in known /\ registry[v] = 0
      /\ \A t \in Thread : pc[t] = "insert" => Handle[t] # v
  BY DEF TypeOK, Closed
<1>1. v \in known'
  BY <1>0 DEF Next, Step, Crash, Terminate, Subscribe, SubscribeLate, Insert, Unsubscribe, UnsubscribeSend,
     Start, OpOk, OpGone, RetryGone, OpFails, TakeLock, Reread, Resubscribe, ResubscribeFails,
     Update, Control, ControlDone, vars
<1>2. registry'[v] = 0
  <2>1. CASE UNCHANGED registry
    BY <1>0, <2>1
  <2>2. ASSUME NEW t \in Thread, Insert(t) \/ Unsubscribe(t) \/ Update(t)
        PROVE  registry'[v] = 0
    BY <1>0, <2>2 DEF Insert, Unsubscribe, Update
  <2> QED
    BY <2>1, <2>2 DEF Next, Step, Crash, Terminate, Subscribe, SubscribeLate, UnsubscribeSend, Start,
       OpOk, OpGone, RetryGone, OpFails, TakeLock, Reread, Resubscribe, ResubscribeFails,
       Control, ControlDone, vars
<1>3. ASSUME NEW t \in Thread, pc'[t] = "insert" PROVE Handle[t] # v
  <2>1. CASE pc[t] = "insert"
    BY <1>0, <2>1
  <2>2. CASE Subscribe(t)
    BY <1>0, <2>2 DEF Subscribe
  <2>3. CASE UNCHANGED pc
    BY <1>0, <1>3, <2>3
  <2>4. ASSUME NEW u \in Thread, NEW l \in PCs, Goto(u, l), u = t => l # "insert"
        PROVE  Handle[t] # v
    BY <1>0, <1>3, <2>4 DEF Goto
  <2>5. ASSUME NEW u \in Thread, Step(u) PROVE Handle[t] # v
    <3>1. CASE u = t /\ Subscribe(u)
      BY <2>2, <3>1
    <3>2. CASE u # t /\ Subscribe(u)
      BY <2>4, <3>2 DEF Subscribe, PCs
    <3>4. CASE SubscribeLate(u)
      BY <2>3, <3>4 DEF SubscribeLate
    <3>3. CASE ~Subscribe(u) /\ ~SubscribeLate(u)
      <4>1. \E l \in PCs \ {"insert"} : Goto(u, l)
        BY <2>5, <3>3 DEF Step, Insert, Unsubscribe, UnsubscribeSend,
           Start, OpOk, OpGone, RetryGone, OpFails, TakeLock, Reread, Resubscribe,
           ResubscribeFails, Update, Control, ControlDone, Return, PCs
      <4> QED BY <2>4, <4>1
    <3> QED BY <3>1, <3>2, <3>3, <3>4
  <2> QED BY <2>3, <2>5 DEF Next, Crash, Terminate, vars
<1> QED BY <1>1, <1>2, <1>3 DEF Closed

\* A step makes no orphan when what becomes live is owned and what was owned
\* stays so or is closed.
LEMMA OrphansKept ==
    ASSUME TypeOK, TypeOK', [Next]_vars,
           \A v \in Virtual, r \in Id : live'[r] = v /\ live[r] # v => Owned(v, r)',
           \A v \in Virtual, r \in Id :
                live'[r] = v /\ live[r] = v /\ Owned(v, r) => Owned(v, r)' \/ Closed(v)'
    PROVE  Orphans' \subseteq Orphans
<1> SUFFICES ASSUME NEW r \in Id, NEW v \in Virtual, live'[r] = v, ~Closed(v)', ~Owned(v, r)'
             PROVE  live[r] = v /\ ~Closed(v) /\ ~Owned(v, r)
  <2>1. /\ live \in [Id -> Virtual \cup {None}] /\ live' \in [Id -> Virtual \cup {None}]
        /\ None \notin Virtual
    BY DEF TypeOK
  <2>2. ASSUME NEW r \in Orphans' PROVE r \in Orphans
    <3>1. r \in Id /\ live'[r] \in Virtual
      BY <2>1, <2>2 DEF Orphans
    <3>2. PICK v \in Virtual : live'[r] = v
      BY <3>1
    <3>3. ~Closed(v)' /\ ~Owned(v, r)'
      BY <2>2, <3>2 DEF Orphans, Closed, Owned
    <3>4. live[r] = v /\ ~Closed(v) /\ ~Owned(v, r)
      BY <3>1, <3>2, <3>3
    <3> QED BY <2>1, <3>1, <3>4 DEF Orphans
  <2> QED BY <2>2
<1>1. live[r] = v
  OBVIOUS
<1>2. ~Closed(v)
  BY ClosedStays
<1> QED BY <1>1, <1>2

\* The number of orphans is bounded by that of the late answers.
LEMMA OrphanCount ==
    ASSUME TypeOK, TypeOK', Cardinality(Orphans) <= late,
           \/ Orphans' \subseteq Orphans /\ late' = late
           \/ \E r : Orphans' \subseteq Orphans \cup {r} /\ late' = late + 1
    PROVE  Cardinality(Orphans') <= late'
<1>1. IsFiniteSet(Id)
  BY FS_Interval DEF Id
<1>2. IsFiniteSet(Orphans)
  BY <1>1, FS_Subset DEF Orphans
<1>3. Cardinality(Orphans) \in Nat /\ late \in Nat
  BY <1>2, FS_CardinalityType DEF TypeOK
<1>4. CASE Orphans' \subseteq Orphans /\ late' = late
  <2>1. Cardinality(Orphans') <= Cardinality(Orphans) /\ Cardinality(Orphans') \in Nat
    BY <1>2, <1>4, FS_Subset, FS_CardinalityType
  <2> QED BY <1>3, <1>4, <2>1
<1>5. ASSUME NEW r, Orphans' \subseteq Orphans \cup {r}, late' = late + 1
      PROVE  Cardinality(Orphans') <= late'
  <2>1. /\ IsFiniteSet(Orphans \cup {r})
        /\ Cardinality(Orphans \cup {r}) =
             IF r \in Orphans THEN Cardinality(Orphans) ELSE Cardinality(Orphans) + 1
    BY <1>2, FS_AddElement
  <2>2. Cardinality(Orphans') <= Cardinality(Orphans \cup {r}) /\ Cardinality(Orphans') \in Nat
    BY <1>5, <2>1, FS_Subset, FS_CardinalityType
  <2>3. Cardinality(Orphans \cup {r}) <= Cardinality(Orphans) + 1
    BY <1>3, <2>1
  <2>4. Cardinality(Orphans \cup {r}) \in Nat
    BY <2>1, FS_CardinalityType
  <2> QED BY <1>3, <1>5, <2>2, <2>3, <2>4
<1> QED BY <1>4, <1>5

\* A thread moves on and neither the worker's table nor the registry changes.
LEMMA QuietMove ==
    ASSUME TypeOK, TypeOK', [Next]_vars, HealInv, NEW t \in Thread,
           UNCHANGED <<live, next_id, late, registry, known>>,
           \A u \in Thread \ {t} : pc'[u] = pc[u] /\ snap'[u] = snap[u],
           pc[t] \notin {"insert", "update"}, pc'[t] \notin {"insert", "update"},
           pc'[t] # "control" => snap'[t] < next_id,
           pc[t] = "idle" /\ pc'[t] # "idle" => registry[Handle[t]] # 0,
           pc'[t] \in {"lock", "reread", "resub"} => ~IsLive(snap'[t]),
           pc'[t] = "resub" => registry[Handle[t]] \in {0, snap'[t]}
    PROVE  HealInv'
<1>1. Numbered'
  BY DEF HealInv, Numbered
<1>2. Inserting'
  BY DEF HealInv, Inserting
<1>3. Gone'
  BY DEF HealInv, Gone, IsLive
<1>4. \A v \in Virtual, r \in Id : Owned(v, r) => Owned(v, r)'
  BY DEF Owned
<1>5. Orphans' \subseteq Orphans
  BY <1>4, OrphansKept
<1>6. Cardinality(Orphans') <= late'
  BY <1>5, OrphanCount DEF HealInv
<1> QED BY <1>1, <1>2, <1>3, <1>6 DEF HealInv

\* Subscriptions end: a stream, or one that is unsubscribed.
LEMMA FewerLive ==
    ASSUME TypeOK, TypeOK', [Next]_vars, HealInv,
           UNCHANGED <<next_id, late, registry, known>>,
           \A r \in Id : live'[r] \in {live[r], None},
           \A u \in Thread : /\ pc'[u] # pc[u] => pc[u] = "unsub" /\ pc'[u] = "idle"
                             /\ snap'[u] = snap[u] \/ (pc'[u] = "idle" /\ snap'[u] = 0)
    PROVE  HealInv'
<1>0. /\ live \in [Id -> Virtual \cup {None}] /\ None \notin Virtual
      /\ \A r : IsLive(r)' => IsLive(r)
  BY DEF TypeOK, IsLive
<1>1. Numbered'
  <2>1. 0 < next_id
    BY DEF TypeOK
  <2> QED BY <1>0, <2>1 DEF HealInv, Numbered
<1>2. Inserting'
  BY DEF HealInv, Inserting
<1>3. Gone'
  BY <1>0 DEF HealInv, Gone
<1>4. \A v \in Virtual, r \in Id : Owned(v, r) => Owned(v, r)'
  BY DEF Owned
<1>5. Orphans' \subseteq Orphans
  BY <1>0, <1>4, OrphansKept
<1>6. Cardinality(Orphans') <= late'
  BY <1>5, OrphanCount DEF HealInv
<1> QED BY <1>1, <1>2, <1>3, <1>6 DEF HealInv

\* The worker makes a subscription for the handle of t: the first one, one
\* that heals, or one whose answer comes too late.
LEMMA NewSubscription ==
    ASSUME TypeOK, TypeOK', [Next]_vars, HealInv, NEW t \in Thread,
           \/ Subscribe(t) \/ Resubscribe(t) \/ SubscribeLate(t)
           \/ ResubscribeFails(t) /\ ~UNCHANGED live
    PROVE  HealInv'
<1> DEFINE v == Handle[t]
<1>a. v \in Virtual /\ WorkerSubscribe(v) /\ UNCHANGED registry
  BY DEF Subscribe, SubscribeLate, Resubscribe, ResubscribeFails
<1>b. /\ next_id \in Id /\ next_id' = next_id + 1
      /\ live' = [live EXCEPT ![next_id] = v]
  BY <1>a, WorkerSubscribeType
<1>c. /\ live \in [Id -> Virtual \cup {None}] /\ None \notin Virtual
      /\ pc \in [Thread -> PCs] /\ snap \in [Thread -> 0 .. MaxId]
      /\ registry \in [Virtual -> 0 .. MaxId] /\ next_id \in Nat \ {0}
      /\ \A u \in Thread : snap[u] \in Nat
      /\ \A w \in Virtual : registry[w] \in Nat
      /\ Id \subseteq Nat
  BY DEF TypeOK, Id
<1>d. /\ live[next_id] = None /\ live'[next_id] = v
      /\ \A r \in Id \ {next_id} : live'[r] = live[r]
  BY <1>b, <1>c DEF HealInv, Numbered
<1>e. \A r : IsLive(r)' => IsLive(r) \/ r = next_id
  BY <1>d DEF IsLive
<1>f. /\ \A u \in Thread \ {t} : pc'[u] = pc[u] /\ snap'[u] = snap[u]
      /\ known \subseteq known' /\ (~SubscribeLate(t) => v \in known')
  <2>1. ~SubscribeLate(t) => v \in known'
    <3>1. CASE Subscribe(t)
      BY <3>1 DEF Subscribe
    <3>2. CASE Resubscribe(t) \/ ResubscribeFails(t)
      BY <3>2 DEF Resubscribe, ResubscribeFails, HealInv, Numbered
    <3> QED BY <3>1, <3>2
  <2> QED BY <1>c, <2>1 DEF Subscribe, SubscribeLate, Resubscribe, ResubscribeFails, Goto, Return
<1>g. /\ Subscribe(t) => pc[t] = "idle" /\ pc'[t] = "insert" /\ snap'[t] = next_id
      /\ Resubscribe(t) => pc[t] = "resub" /\ pc'[t] = "update" /\ snap'[t] = next_id
      /\ ResubscribeFails(t) => pc[t] = "resub" /\ pc'[t] = "idle" /\ snap'[t] = 0
      /\ SubscribeLate(t) => pc[t] = "idle" /\ pc'[t] = "idle" /\ snap'[t] = snap[t]
      /\ SubscribeLate(t) => snap[t] < next_id
  BY <1>c DEF Subscribe, SubscribeLate, Resubscribe, ResubscribeFails, Goto, Return,
     HealInv, Numbered
<1> HIDE DEF v
<1>h. snap'[t] < next_id' /\ pc'[t] \in {"insert", "update", "idle"}
  BY <1>b, <1>c, <1>g
<1>1. Numbered'
  <2>1. ASSUME NEW r \in Id, live'[r] # None PROVE r < next_id'
    <3>1. CASE r = next_id
      BY <1>b, <1>c, <3>1
    <3>2. CASE r # next_id
      <4>1. r < next_id
        BY <1>d, <2>1, <3>2 DEF HealInv, Numbered
      <4>2. r \in Nat
        BY <1>c
      <4> QED BY <1>b, <1>c, <4>1, <4>2
    <3> QED BY <3>1, <3>2
  <2>2. ASSUME NEW w \in Virtual
        PROVE  registry'[w] < next_id' /\ (registry'[w] # 0 => w \in known')
    BY <1>a, <1>b, <1>c, <1>f DEF HealInv, Numbered
  <2>3. ASSUME NEW u \in Thread, u # t
        PROVE  /\ pc'[u] # "control" => snap'[u] < next_id'
               /\ pc'[u] # "idle" => Handle[u] \in known'
    <3>1. snap[u] \in Nat /\ (pc[u] # "control" => snap[u] < next_id)
      BY <1>c DEF HealInv, Numbered
    <3>2. pc[u] # "control" => snap[u] < next_id + 1
      BY <1>c, <3>1
    <3> QED BY <1>b, <1>f, <2>3, <3>2 DEF HealInv, Numbered
  <2>4. pc'[t] # "idle" => Handle[t] \in known'
    BY <1>f, <1>g DEF v
  <2> QED BY <1>h, <2>1, <2>2, <2>3, <2>4 DEF Numbered
<1>2. Inserting'
  <2>1. ASSUME Subscribe(t)
        PROVE  registry[v] = 0 /\ \A u \in Thread : Handle[u] = v => pc[u] = "idle"
    <3>1. v \notin known
      BY <2>1 DEF Subscribe, v
    <3> QED BY <1>a, <3>1 DEF HealInv, Numbered
  <2>2. ASSUME NEW u \in Thread, pc'[u] = "insert", u # t,
               NEW w \in Thread, Handle[w] = Handle[u], w # u
        PROVE  pc'[w] = "idle" /\ registry'[Handle[u]] = 0
    <3>1. pc[u] = "insert"
      BY <1>f, <2>2
    <3>2. pc[w] = "idle" /\ registry[Handle[u]] = 0
      BY <2>2, <3>1 DEF HealInv, Inserting
    <3>3. CASE w # t
      BY <1>a, <1>f, <3>2, <3>3
    <3>4. CASE w = t
      <4>1. ~Subscribe(t)
        BY <2>1, <2>2, <3>1, <3>4 DEF v
      <4> QED BY <1>a, <1>g, <3>2, <3>4, <4>1
    <3> QED BY <3>3, <3>4
  <2>3. ASSUME NEW u \in Thread, pc'[u] = "insert", u # t PROVE registry'[Handle[u]] = 0
    BY <1>a, <1>f, <2>3 DEF HealInv, Inserting
  <2>4. ASSUME pc'[t] = "insert"
        PROVE  /\ registry'[Handle[t]] = 0
               /\ \A u \in Thread : Handle[u] = Handle[t] /\ u # t => pc'[u] = "idle"
    BY <1>a, <1>f, <1>g, <2>1, <2>4 DEF v
  <2> QED BY <2>2, <2>3, <2>4 DEF Inserting
<1>3. Gone'
  <2>1. \A w \in Virtual : registry[w] < next_id
    BY DEF HealInv, Numbered
  <2>2. ASSUME NEW u \in Thread, u # t, pc[u] \in {"lock", "reread", "resub"}
        PROVE  ~IsLive(snap[u])'
    <3>1. snap[u] < next_id /\ ~IsLive(snap[u]) /\ snap'[u] = snap[u]
      BY <1>f, <2>2 DEF HealInv, Numbered, Gone
    <3> QED BY <1>c, <1>d, <3>1 DEF IsLive
  <2>3. ASSUME NEW w \in Virtual, ~IsLive(registry[w]) PROVE ~IsLive(registry[w])'
    BY <1>a, <1>c, <1>d, <2>1, <2>3 DEF IsLive
  <2>4. pc'[t] = "update" => ~IsLive(registry[v])
    <3>1. pc'[t] = "update" => ~IsLive(snap[t]) /\ registry[v] \in {0, snap[t]}
      BY <1>g DEF HealInv, Gone, v
    <3> QED BY <1>c, <3>1 DEF IsLive, Id
  <2>5. pc'[t] = "update" => ~IsLive(registry[Handle[t]])'
    BY <1>a, <2>3, <2>4 DEF v
  <2>6. ASSUME NEW u \in Thread, u # t, pc[u] = "update"
        PROVE  ~IsLive(registry[Handle[u]])'
    <3>1. Handle[u] \in Virtual
      OBVIOUS
    <3>2. ~IsLive(registry[Handle[u]])
      BY <2>6 DEF HealInv, Gone
    <3> QED BY <2>3, <3>1, <3>2
  <2> QED BY <1>a, <1>f, <1>h, <2>2, <2>5, <2>6 DEF HealInv, Gone
<1>4. Cardinality(Orphans') <= late'
  <2>1. \A w \in Virtual, r \in Id : Owned(w, r) => Owned(w, r)'
    BY <1>a, <1>f, <1>g DEF Owned
  <2>2. CASE Subscribe(t) \/ Resubscribe(t)
    <3>1. late' = late
      BY <2>2 DEF Subscribe, Resubscribe
    <3>2. \A r \in Id : r = next_id => Owned(v, r)'
      BY <1>g, <2>2 DEF Owned, v
    <3>4. \A w \in Virtual, r \in Id : live'[r] = w /\ live[r] # w => Owned(w, r)'
      BY <1>b, <1>d, <3>2
    <3>3. Orphans' \subseteq Orphans
      BY <2>1, <3>4, OrphansKept
    <3> QED BY <3>1, <3>3, OrphanCount DEF HealInv
  <2>3. CASE ResubscribeFails(t) \/ SubscribeLate(t)
    <3>1. late' = late + 1
      BY <1>b, <1>c, <1>d, <2>3 DEF ResubscribeFails, SubscribeLate
    <3>2. ASSUME NEW r \in Orphans', r # next_id PROVE r \in Orphans
      <4>1. r \in Id /\ live'[r] = live[r] /\ live[r] \in Virtual
        BY <1>c, <1>d, <3>2 DEF Orphans
      <4>2. PICK w \in Virtual : live[r] = w
        BY <4>1
      <4>3. ~Closed(w)' /\ ~Owned(w, r)'
        BY <3>2, <4>1, <4>2 DEF Orphans, Closed, Owned
      <4>4. ~Closed(w) /\ ~Owned(w, r)
        BY <2>1, <4>1, <4>3, ClosedStays
      <4> QED BY <1>c, <4>1, <4>2, <4>4 DEF Orphans
    <3>3. Orphans' \subseteq Orphans \cup {next_id}
      BY <3>2
    <3> QED BY <3>1, <3>3, OrphanCount DEF HealInv
  <2> QED BY <2>2, <2>3
<1> QED BY <1>1, <1>2, <1>3, <1>4 DEF HealInv

\* A thread changes the entry of its handle: it records the first real id,
\* records the one that replaces a dead one, or removes the entry.
LEMMA EntryChanges ==
    ASSUME TypeOK, TypeOK', LockDiscipline, [Next]_vars, HealInv, NEW t \in Thread,
           Insert(t) \/ Unsubscribe(t) \/ Update(t)
    PROVE  HealInv'
<1> DEFINE v == Handle[t]
<1>a. v \in Virtual /\ UNCHANGED <<live, next_id, late, known>>
  BY DEF Insert, Unsubscribe, Update
<1>b. /\ pc \in [Thread -> PCs] /\ snap \in [Thread -> 0 .. MaxId]
      /\ registry \in [Virtual -> 0 .. MaxId] /\ next_id \in Nat \ {0}
      /\ live \in [Id -> Virtual \cup {None}] /\ 0 \notin Id /\ None \notin Virtual
  BY DEF TypeOK, Id
<1>c. /\ \A u \in Thread \ {t} : pc'[u] = pc[u] /\ snap'[u] = snap[u]
      /\ \A w \in Virtual \ {v} : registry'[w] = registry[w]
  BY <1>b DEF Insert, Unsubscribe, Update, Goto, Return
<1>d. /\ Insert(t) => /\ pc[t] = "insert" /\ pc'[t] = "idle" /\ snap'[t] = 0
                      /\ registry'[v] = snap[t]
      /\ Unsubscribe(t) => /\ pc[t] = "idle" /\ pc'[t] = "unsub" /\ registry[v] # 0
                           /\ snap'[t] = registry[v] /\ registry'[v] = 0
      /\ Update(t) => /\ pc[t] = "update" /\ pc'[t] = "retry" /\ snap'[t] = snap[t]
                      /\ registry'[v] = IF registry[v] = 0 THEN 0 ELSE snap[t]
  BY <1>a, <1>b DEF Insert, Unsubscribe, Update, Goto, Return
<1> HIDE DEF v
<1>e. /\ registry'[v] \in {0, snap[t]} /\ pc'[t] \in {"idle", "unsub", "retry"}
      /\ snap'[t] \in {0, snap[t], registry[v]} /\ pc[t] \in {"insert", "idle", "update"}
      /\ registry'[v] # 0 => pc[t] \in {"insert", "update"}
  BY <1>d
<1>f. v \in known /\ snap[t] < next_id /\ registry[v] < next_id
  BY <1>a, <1>d, <1>e DEF HealInv, Numbered, v
\* The other threads of v are not subscribing for the first time.
<1>g. ASSUME NEW u \in Thread, u # t, Handle[u] = v PROVE pc[u] # "insert"
  <2>1. ASSUME pc[u] = "insert"
        PROVE  registry[v] = 0 /\ pc[t] = "idle"
    BY <1>g, <2>1 DEF HealInv, Inserting, v
  <2> QED BY <1>d, <2>1
<1>1. Numbered'
  <2>1. \A w \in Virtual : registry'[w] < next_id' /\ (registry'[w] # 0 => w \in known')
    <3>1. registry'[v] < next_id
      BY <1>b, <1>e, <1>f
    <3> QED BY <1>a, <1>c, <1>f, <3>1 DEF HealInv, Numbered
  <2>2. snap'[t] < next_id /\ Handle[t] \in known
    BY <1>b, <1>e, <1>f DEF v
  <2> QED BY <1>a, <1>c, <2>1, <2>2 DEF HealInv, Numbered
<1>2. Inserting'
  <2>1. ASSUME NEW u \in Thread, pc'[u] = "insert"
        PROVE  /\ u # t /\ Handle[u] # v /\ pc[u] = "insert"
               /\ registry'[Handle[u]] = registry[Handle[u]]
    <3>1. u # t
      BY <1>e, <2>1
    <3>2. pc[u] = "insert" /\ Handle[u] # v
      BY <1>c, <1>g, <2>1, <3>1
    <3>3. Handle[u] \in Virtual \ {v}
      BY <3>2
    <3> QED BY <1>c, <3>1, <3>2, <3>3
  <2>2. ASSUME NEW u \in Thread, pc'[u] = "insert",
               NEW w \in Thread, Handle[w] = Handle[u], w # u
        PROVE  pc'[w] = "idle"
    <3>1. Handle[u] # v /\ pc[u] = "insert"
      BY <2>1, <2>2
    <3>2. w # t
      BY <2>2, <3>1 DEF v
    <3> QED BY <1>c, <2>2, <3>1, <3>2 DEF HealInv, Inserting
  <2> QED BY <2>1, <2>2 DEF HealInv, Inserting
\* The other threads of v do not hold its lock while this one changes it.
<1>3. Gone'
  <2>1. ASSUME NEW u \in Thread, u # t, Handle[u] = v, pc[u] \in {"resub", "update"}
        PROVE  registry'[v] = 0
    <3>1. CASE Insert(t)
      BY <1>d, <2>1, <3>1 DEF HealInv, Inserting, v
    <3>2. CASE Unsubscribe(t)
      BY <1>d, <3>2
    <3>3. CASE Update(t)
      <4>1. lock[v] = t /\ lock[v] = u
        BY <1>a, <1>d, <2>1, <3>3 DEF LockDiscipline, Healing, v
      <4> QED BY <2>1, <4>1
    <3> QED BY <3>1, <3>2, <3>3
  <2>2. ASSUME NEW u \in Thread, u # t
        PROVE  /\ pc'[u] \in {"lock", "reread", "resub"} => ~IsLive(snap[u])'
               /\ pc'[u] = "resub" => registry'[Handle[u]] \in {0, snap'[u]}
               /\ pc'[u] = "update" => ~IsLive(registry[Handle[u]])'
    <3>0. pc'[u] = pc[u] /\ snap'[u] = snap[u] /\ Handle[u] \in Virtual
      BY <1>c, <2>2
    <3>1. pc'[u] \in {"lock", "reread", "resub"} => ~IsLive(snap[u])'
      BY <1>a, <3>0 DEF HealInv, Gone, IsLive
    <3>2. CASE Handle[u] # v
      <4>1. registry'[Handle[u]] = registry[Handle[u]]
        BY <1>c, <3>0, <3>2
      <4>2. /\ pc[u] = "resub" => registry[Handle[u]] \in {0, snap[u]}
            /\ pc[u] = "update" => ~IsLive(registry[Handle[u]])
        BY DEF HealInv, Gone
      <4>3. IsLive(registry[Handle[u]])' <=> IsLive(registry[Handle[u]])
        BY <1>a, <4>1 DEF IsLive
      <4> QED BY <3>0, <3>1, <4>1, <4>2, <4>3
    <3>3. CASE Handle[u] = v
      <4>1. pc[u] \in {"resub", "update"} => registry'[v] = 0
        BY <2>1, <2>2, <3>3
      <4> QED BY <1>b, <3>0, <3>1, <3>3, <4>1 DEF IsLive
    <3> QED BY <3>2, <3>3
  <2> QED BY <1>e, <2>2 DEF Gone
<1>4. Cardinality(Orphans') <= late'
  <2>1. ASSUME NEW w \in Virtual, NEW r \in Id, live[r] = w, Owned(w, r)
        PROVE  Owned(w, r)' \/ Closed(w)'
    <3>1. CASE w # v
      <4>1. CASE registry[w] = r
        BY <1>c, <3>1, <4>1 DEF Owned
      <4>2. ASSUME NEW u \in Thread, Handle[u] = w, snap[u] = r, pc[u] \in {"insert", "update"}
            PROVE  Owned(w, r)'
        BY <1>c, <3>1, <4>2 DEF Owned, v
      <4> QED BY <2>1, <4>1, <4>2 DEF Owned
    <3>2. CASE w = v /\ Unsubscribe(t)
      <4>1. \A u \in Thread : pc'[u] = "insert" => Handle[u] # v
        BY <1>c, <1>d, <1>g, <3>2
      <4> QED BY <1>a, <1>d, <1>f, <3>2, <4>1 DEF Closed
    <3>3. CASE w = v /\ Insert(t)
      <4>1. registry[v] = 0 /\ \A u \in Thread : Handle[u] = v /\ u # t => pc[u] = "idle"
        BY <1>d, <3>3 DEF HealInv, Inserting, v
      <4>2. snap[t] = r
        BY <1>b, <2>1, <3>3, <4>1 DEF Owned
      <4> QED BY <1>d, <3>3, <4>2 DEF Owned
    <3>4. CASE w = v /\ Update(t)
      <4>1. CASE registry[v] = 0
        <5>1. \A u \in Thread : pc'[u] = "insert" => Handle[u] # v
          BY <1>c, <1>d, <1>g, <3>4
        <5> QED BY <1>a, <1>d, <1>f, <3>4, <4>1, <5>1 DEF Closed
      <4>2. CASE registry[v] # 0
        <5>1. ~IsLive(registry[v])
          BY <1>d, <3>4 DEF HealInv, Gone, v
        <5>2. registry[v] # r
          BY <1>a, <1>b, <2>1, <3>4, <5>1 DEF IsLive
        <5>3. PICK u \in Thread : Handle[u] = v /\ snap[u] = r /\ pc[u] \in {"insert", "update"}
          BY <2>1, <3>4, <5>2 DEF Owned
        <5>4. u = t
          <6>1. CASE pc[u] = "insert"
            BY <1>g, <5>3, <6>1
          <6>2. CASE pc[u] = "update"
            <7>1. lock[v] = u /\ lock[v] = t
              BY <1>a, <1>d, <3>4, <5>3, <6>2 DEF LockDiscipline, Healing, v
            <7> QED BY <7>1
          <6> QED BY <5>3, <6>1, <6>2
        <5> QED BY <1>d, <3>4, <4>2, <5>3, <5>4 DEF Owned
      <4> QED BY <4>1, <4>2
    <3> QED BY <3>1, <3>2, <3>3, <3>4
  <2>2. Orphans' \subseteq Orphans
    BY <1>a, <2>1, OrphansKept
  <2> QED BY <1>a, <2>2, OrphanCount DEF HealInv
<1> QED BY <1>1, <1>2, <1>3, <1>4 DEF HealInv

\* Every step of the life of the first worker keeps the invariant.
LEMMA HealStep ==
    ASSUME TypeOK, TypeOK', LockDiscipline, FirstWorker, [Next]_vars
    PROVE  FirstWorker'
<1> SUFFICES ASSUME crashes' = 0 PROVE HealInv'
  BY DEF FirstWorker
<1>0. /\ pc \in [Thread -> PCs] /\ snap \in [Thread -> 0 .. MaxId] /\ crashes \in Nat
      /\ next_id \in Nat \ {0}
  BY DEF TypeOK
<1>1. ~Crash
  BY <1>0 DEF Crash
<1>2. crashes = 0
  BY <1>1 DEF Next, Step, Terminate, Subscribe, SubscribeLate, Insert, Unsubscribe, UnsubscribeSend,
     Start, OpOk, OpGone, RetryGone, OpFails, TakeLock, Reread, Resubscribe, ResubscribeFails,
     Update, Control, ControlDone, vars
<1>3. HealInv
  BY <1>2 DEF FirstWorker
<1>4. CASE UNCHANGED vars
  BY <1>3, <1>4 DEF vars, HealInv, Numbered, Inserting, Gone, IsLive, Orphans, Closed, Owned
<1>5. ASSUME NEW r \in Id, Terminate(r) PROVE HealInv'
  <2>1. \A s \in Id : live'[s] \in {live[s], None}
    BY <1>5 DEF Terminate, TypeOK
  <2> QED BY <1>3, <1>5, <2>1, FewerLive DEF Terminate
<1>6. ASSUME NEW t \in Thread, UnsubscribeSend(t) PROVE HealInv'
  <2>1. \A r \in Id : live'[r] \in {live[r], None}
    BY <1>6 DEF UnsubscribeSend
  <2>2. \A u \in Thread : /\ pc'[u] # pc[u] => pc[u] = "unsub" /\ pc'[u] = "idle"
                          /\ snap'[u] = snap[u] \/ (pc'[u] = "idle" /\ snap'[u] = 0)
    BY <1>0, <1>6 DEF UnsubscribeSend, Return, Goto
  <2> QED BY <1>3, <1>6, <2>1, <2>2, FewerLive DEF UnsubscribeSend
<1>7. ASSUME NEW t \in Thread, UNCHANGED <<live, next_id, late, registry, known>>,
             pc[t] \in {"op", "retry", "resub", "control"}, Return(t)
      PROVE  HealInv'
  <2>1. /\ \A u \in Thread \ {t} : pc'[u] = pc[u] /\ snap'[u] = snap[u]
        /\ pc'[t] = "idle" /\ snap'[t] = 0 /\ 0 < next_id
    BY <1>0, <1>7 DEF Return, Goto
  <2> QED BY <1>3, <1>7, <2>1, QuietMove
<1>8. ASSUME NEW t \in Thread, OpOk(t) \/ RetryGone(t) \/ OpFails(t) \/ ControlDone(t)
      PROVE  HealInv'
  BY <1>7, <1>8 DEF OpOk, RetryGone, OpFails, ControlDone
<1>9. ASSUME NEW t \in Thread, ResubscribeFails(t) PROVE HealInv'
  <2>1. CASE UNCHANGED live
    <3>1. next_id' = next_id /\ late' = late
      <4>1. ~(WorkerSubscribe(Handle[t]) /\ UNCHANGED live)
        <5>1. ASSUME WorkerSubscribe(Handle[t]), UNCHANGED live PROVE FALSE
          <6>1. next_id \in Id /\ live' = [live EXCEPT ![next_id] = Handle[t]]
            BY <5>1, WorkerSubscribeType
          <6>2. live[next_id] = None
            BY <1>0, <1>3, <6>1 DEF HealInv, Numbered
          <6> QED BY <5>1, <6>1, <6>2 DEF TypeOK
        <5> QED BY <5>1
      <4> QED BY <1>9, <2>1, <4>1 DEF ResubscribeFails
    <3> QED BY <1>7, <1>9, <2>1, <3>1 DEF ResubscribeFails
  <2>2. CASE ~UNCHANGED live
    BY <1>3, <1>9, <2>2, NewSubscription
  <2> QED BY <2>1, <2>2
<1>10. ASSUME NEW t \in Thread, Start(t) \/ OpGone(t) \/ TakeLock(t) \/ Reread(t) \/ Control(t)
       PROVE  HealInv'
  <2>1. UNCHANGED <<live, next_id, late, registry, known>>
    BY <1>10 DEF Start, OpGone, TakeLock, Reread, Control
  <2>2. /\ \A u \in Thread \ {t} : pc'[u] = pc[u] /\ snap'[u] = snap[u]
        /\ Start(t) => /\ pc[t] = "idle" /\ pc'[t] = "op" /\ registry[Handle[t]] # 0
                       /\ snap'[t] = registry[Handle[t]]
        /\ OpGone(t) => /\ pc[t] = "op" /\ pc'[t] = "lock" /\ snap'[t] = snap[t]
                        /\ ~IsLive(snap[t])
        /\ TakeLock(t) => pc[t] = "lock" /\ pc'[t] = "reread" /\ snap'[t] = snap[t]
        /\ Control(t) => pc[t] = "idle" /\ pc'[t] = "control" /\ registry[Handle[t]] # 0
        /\ Reread(t) =>
             /\ pc[t] = "reread"
             /\ \/ pc'[t] = "retry" /\ snap'[t] = registry[Handle[t]]
                \/ /\ pc'[t] = "resub" /\ snap'[t] = snap[t]
                   /\ registry[Handle[t]] \in {0, snap[t]}
    BY <1>0, <1>10 DEF Start, OpGone, TakeLock, Reread, Control, Goto
  <2>3. registry[Handle[t]] < next_id /\ (pc[t] # "control" => snap[t] < next_id)
    BY <1>3 DEF HealInv, Numbered
  <2>4. pc[t] \in {"lock", "reread"} => ~IsLive(snap[t])
    BY <1>3 DEF HealInv, Gone
  <2>5. /\ pc[t] \notin {"insert", "update"} /\ pc'[t] \notin {"insert", "update"}
        /\ pc'[t] # "control" => snap'[t] < next_id
        /\ pc[t] = "idle" /\ pc'[t] # "idle" => registry[Handle[t]] # 0
        /\ pc'[t] = "resub" => registry[Handle[t]] \in {0, snap'[t]}
    BY <1>10, <2>2, <2>3
  <2>6. pc'[t] \in {"lock", "reread", "resub"} => ~IsLive(snap'[t])
    BY <1>10, <2>2, <2>4
  <2> QED BY <1>3, <2>1, <2>2, <2>5, <2>6, QuietMove
<1>11. ASSUME NEW t \in Thread, Subscribe(t) \/ Resubscribe(t) \/ SubscribeLate(t)
       PROVE  HealInv'
  BY <1>3, <1>11, NewSubscription
<1>12. ASSUME NEW t \in Thread, Insert(t) \/ Unsubscribe(t) \/ Update(t) PROVE HealInv'
  BY <1>3, <1>12, EntryChanges
<1> QED
  BY <1>1, <1>4, <1>5, <1>6, <1>8, <1>9, <1>10, <1>11, <1>12 DEF Next, Step

\* The invariant of the healing section holds throughout the life of the first
\* worker process.
THEOREM HealInvariance == Spec => [](FirstWorker /\ LockDiscipline)
<1>1. Init => FirstWorker
  <2>1. ASSUME Init PROVE HealInv
    <3>1. Orphans = {}
      BY <2>1 DEF Init, Orphans
    <3>2. Cardinality(Orphans) <= late
      BY <2>1, <3>1, FS_EmptySet DEF Init
    <3> QED BY <2>1, <3>2 DEF Init, HealInv, Numbered, Inserting, Gone
  <2> QED BY <2>1 DEF FirstWorker
<1>2. TypeOK /\ TypeOK' /\ LockDiscipline /\ FirstWorker /\ [Next]_vars => FirstWorker'
  BY HealStep
<1>3. Init => LockDiscipline
  BY DEF Init, LockDiscipline, Healing
<1> QED BY <1>1, <1>2, <1>3, LockStep, TypeCorrect, PTL DEF Spec

\* No path of with_resubscribe forgets a subscription it has made: a late
\* answer leaves one orphan at most, nothing else any, however many threads
\* heal the same handle.
THEOREM OrphansOnlyLate == Spec => []OrphansAreLate
<1>1. FirstWorker => OrphansAreLate
  BY DEF FirstWorker, HealInv, OrphansAreLate
<1> QED BY <1>1, HealInvariance, PTL

\* Threads that find the same real id gone subscribe once between them: as
\* long as the worker lives and no answer was late, an open handle has one
\* live subscription at most.
THEOREM OneLive == Spec => []AtMostOneLive
<1>1. TypeOK /\ LockDiscipline /\ FirstWorker => AtMostOneLive
  <2> SUFFICES ASSUME TypeOK, LockDiscipline, HealInv, late = 0, NEW v \in Virtual, ~Closed(v)
               PROVE  Cardinality(LiveOf(v)) <= 1
    BY DEF FirstWorker, AtMostOneLive
  <2>0. /\ Orphans = {} /\ 0 \notin Id /\ None \notin Virtual
    <3>1. IsFiniteSet(Id)
      BY FS_Interval DEF Id
    <3>2. IsFiniteSet(Orphans)
      BY <3>1, FS_Subset DEF Orphans
    <3>3. Cardinality(Orphans) \in Nat /\ Cardinality(Orphans) <= 0
      BY <3>2, FS_CardinalityType DEF HealInv
    <3>4. Cardinality(Orphans) = 0
      BY <3>3
    <3> QED BY <3>2, <3>4, FS_EmptySet DEF Id
  <2>1. ASSUME NEW r \in LiveOf(v)
        PROVE  Owned(v, r) /\ IsLive(r)
    <3>1. r \in Id /\ live[r] = v
      BY DEF LiveOf
    <3> QED BY <2>0, <3>1 DEF Orphans, IsLive
  <2>2. ASSUME NEW r \in LiveOf(v), NEW s \in LiveOf(v) PROVE r = s
    <3>0. r \in Id /\ s \in Id /\ Owned(v, r) /\ Owned(v, s) /\ IsLive(r) /\ IsLive(s)
      BY <2>1 DEF LiveOf
    \* An id in the registry has no rival in the hands of a thread.
    <3>1. ASSUME NEW x \in Id, IsLive(x), registry[v] = x, NEW u \in Thread,
                 Handle[u] = v, pc[u] \in {"insert", "update"}
          PROVE  FALSE
      BY <2>0, <3>1 DEF HealInv, Inserting, Gone
    <3>2. ASSUME NEW t \in Thread, NEW u \in Thread, Handle[t] = v, Handle[u] = v,
                 pc[t] \in {"insert", "update"}, pc[u] \in {"insert", "update"}
          PROVE  t = u
      <4>1. CASE pc[t] = "insert" \/ pc[u] = "insert"
        BY <3>2, <4>1 DEF HealInv, Inserting
      <4>2. CASE pc[t] = "update" /\ pc[u] = "update"
        <5>1. lock[v] = t /\ lock[v] = u
          BY <3>2, <4>2 DEF LockDiscipline, Healing
        <5> QED BY <5>1
      <4> QED BY <3>2, <4>1, <4>2
    <3> QED BY <3>0, <3>1, <3>2 DEF Owned
  <2>3. CASE LiveOf(v) = {}
    BY <2>3, FS_EmptySet
  <2>4. ASSUME NEW r \in LiveOf(v) PROVE Cardinality(LiveOf(v)) = 1
    <3>1. LiveOf(v) = {r}
      BY <2>2, <2>4
    <3> QED BY <3>1, FS_Singleton
  <2> QED BY <2>3, <2>4
<1> QED BY <1>1, HealInvariance, TypeCorrect, PTL
=============================================================================
