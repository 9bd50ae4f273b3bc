----------------------------- MODULE VirtualSub -----------------------------
(***************************************************************************)
(* The self-healing subscriptions of the extension                         *)
(* (ext/src/subscription.rs): PHP holds a virtual id, the registry maps it  *)
(* to the real id of the worker, and an operation answered with             *)
(* SubscriptionNotFound subscribes again and is retried once.               *)
(*                                                                         *)
(* The worker is external to this module: a table of live subscriptions    *)
(* and the SEQ counter (worker/src/consumer.rs), which starts at 1 again   *)
(* in every new worker process.  An RPC is one step here; PoolIpc models   *)
(* how it travels.                                                         *)
(***************************************************************************)
EXTENDS Integers, FiniteSets

CONSTANTS
    Thread,        \* consumer loops; each works on one virtual subscription
    Virtual,       \* virtual ids, numbers; NEXT_VIRTUAL never reuses one
    Handle,        \* Handle[t]: the virtual id thread t works on
    MaxId,         \* bound: real ids one worker hands out
    MaxCrashes,    \* bound: deaths of the worker
    Unsubscribes,  \* whether PHP unsubscribes
    Controls,      \* whether PHP seeks, pauses, reads rebalance events, ...
    MaxLate,       \* bound: answers to a subscribe that come too late
    None           \* no owner, no thread

ASSUME HandleAssumption ==
    /\ Handle \in [Thread -> Virtual] /\ Virtual \subseteq 1 .. MaxId
    /\ None \notin Thread \cup Virtual

ASSUME HealBounds ==
    /\ MaxId \in Nat /\ MaxCrashes \in Nat /\ MaxLate \in Nat
    /\ Unsubscribes \in BOOLEAN /\ Controls \in BOOLEAN

VARIABLES
    live,      \* live[r]: the virtual id real subscription r serves, or None
    next_id,   \* SEQ of the worker process
    crashes,   \* worker deaths so far
    late,      \* answers that came too late so far
    registry,  \* registry[v]: the real id of v, 0 when v has no entry
    known,     \* virtual ids that have been handed to PHP
    lock,      \* the mutex of v's entry
    pc, snap   \* per thread: where it is, and its copy of the real id

vars == <<live, next_id, crashes, late, registry, known, lock, pc, snap>>

Id == 1 .. MaxId

PCs == {"idle", "insert", "op", "lock", "reread", "resub", "update", "retry", "unsub",
        "control"}

Init ==
    /\ live = [r \in Id |-> None] /\ next_id = 1 /\ crashes = 0 /\ late = 0
    /\ registry = [v \in Virtual |-> 0] /\ known = {}
    /\ lock = [v \in Virtual |-> None]
    /\ pc = [t \in Thread |-> "idle"] /\ snap = [t \in Thread |-> 0]

----------------------------------------------------------------------------
(* The worker                                                              *)

\* SubscriptionId::next and the insertion into the subscriptions map.
WorkerSubscribe(v) ==
    /\ next_id <= MaxId
    /\ live' = [live EXCEPT ![next_id] = v]
    /\ next_id' = next_id + 1

\* The process dies and the next call finds or spawns another: no
\* subscription survives and the counter is back at 1.
Crash ==
    /\ crashes < MaxCrashes
    /\ live' = [r \in Id |-> None] /\ next_id' = 1 /\ crashes' = crashes + 1
    /\ UNCHANGED <<late, registry, known, lock, pc, snap>>

\* Bound on what can go wrong with streams and answers: enough ids are left
\* for every thread to heal once more.
IdsToSpare == next_id + Cardinality(Thread) <= MaxId + 1

\* A stream ends and the poll that finds it removes the subscription.
Terminate(r) ==
    /\ live[r] # None /\ IdsToSpare
    /\ live' = [live EXCEPT ![r] = None]
    /\ UNCHANGED <<next_id, crashes, late, registry, known, lock, pc, snap>>

IsLive(r) == r \in Id /\ live[r] # None

----------------------------------------------------------------------------
(* subscribe and unsubscribe                                               *)

Goto(t, l) == pc' = [pc EXCEPT ![t] = l]

\* The call returns: the mutex guard, if held, is dropped.
Return(t) ==
    /\ Goto(t, "idle")
    /\ snap' = [snap EXCEPT ![t] = 0]
    /\ lock' = [v \in Virtual |-> IF lock[v] = t THEN None ELSE lock[v]]

Subscribe(t) ==
    /\ pc[t] = "idle" /\ Handle[t] \notin known
    /\ WorkerSubscribe(Handle[t])
    /\ known' = known \cup {Handle[t]}
    /\ snap' = [snap EXCEPT ![t] = next_id]
    /\ Goto(t, "insert")
    /\ UNCHANGED <<crashes, late, registry, lock>>

\* A subscribe that fails changes nothing; one that is answered after the
\* timeout leaves a real subscription, and PHP gets an error and no handle.
SubscribeLate(t) ==
    /\ pc[t] = "idle" /\ Handle[t] \notin known
    /\ late < MaxLate /\ IdsToSpare
    /\ WorkerSubscribe(Handle[t])
    /\ late' = late + 1
    /\ UNCHANGED <<crashes, registry, known, lock, pc, snap>>

Insert(t) ==
    /\ pc[t] = "insert"
    /\ registry' = [registry EXCEPT ![Handle[t]] = snap[t]]
    /\ Return(t)
    /\ UNCHANGED <<live, next_id, crashes, late, known>>

\* The entry is removed first; a second call finds none and returns Ok.
Unsubscribe(t) ==
    /\ Unsubscribes
    /\ pc[t] = "idle" /\ registry[Handle[t]] # 0
    /\ snap' = [snap EXCEPT ![t] = registry[Handle[t]]]
    /\ registry' = [registry EXCEPT ![Handle[t]] = 0]
    /\ Goto(t, "unsub")
    /\ UNCHANGED <<live, next_id, crashes, late, known, lock>>

\* Fire and forget: whatever has that real id now is unsubscribed.
UnsubscribeSend(t) ==
    /\ pc[t] = "unsub"
    /\ live' = [r \in Id |-> IF r = snap[t] THEN None ELSE live[r]]
    /\ Return(t)
    /\ UNCHANGED <<next_id, crashes, late, registry, known>>

----------------------------------------------------------------------------
(* with_resubscribe, for poll and commit                                   *)

Start(t) ==
    /\ pc[t] = "idle" /\ registry[Handle[t]] # 0
    /\ snap' = [snap EXCEPT ![t] = registry[Handle[t]]]
    /\ Goto(t, "op")
    /\ UNCHANGED <<live, next_id, crashes, late, registry, known, lock>>

\* The worker finds the real id and carries the operation out on it.
OpOk(t) ==
    /\ pc[t] \in {"op", "retry"} /\ IsLive(snap[t])
    /\ Return(t)
    /\ UNCHANGED <<live, next_id, crashes, late, registry, known>>

OpGone(t) ==
    /\ pc[t] = "op" /\ ~IsLive(snap[t])
    /\ Goto(t, "lock")
    /\ UNCHANGED <<live, next_id, crashes, late, registry, known, lock, snap>>

\* Gone again on the retry: the error goes to PHP.
RetryGone(t) ==
    /\ pc[t] = "retry" /\ ~IsLive(snap[t])
    /\ Return(t)
    /\ UNCHANGED <<live, next_id, crashes, late, registry, known>>

\* Any other error, in the operation or in its retry, goes to PHP.
OpFails(t) ==
    /\ pc[t] \in {"op", "retry"}
    /\ Return(t)
    /\ UNCHANGED <<live, next_id, crashes, late, registry, known>>

TakeLock(t) ==
    /\ pc[t] = "lock" /\ lock[Handle[t]] = None
    /\ lock' = [lock EXCEPT ![Handle[t]] = t]
    /\ Goto(t, "reread")
    /\ UNCHANGED <<live, next_id, crashes, late, registry, known, snap>>

\* Mutant: the registry is not read again under the lock.
Reread_Skipped(t) ==
    /\ pc[t] = "reread"
    /\ Goto(t, "resub")
    /\ UNCHANGED <<live, next_id, crashes, late, registry, known, lock, snap>>

\* Another thread has healed v meanwhile: retry with its real id.  With the
\* entry gone or unchanged this thread subscribes.
Reread(t) ==
    /\ pc[t] = "reread"
    /\ IF registry[Handle[t]] \notin {0, snap[t]}
       THEN /\ snap' = [snap EXCEPT ![t] = registry[Handle[t]]]
            /\ Goto(t, "retry")
       ELSE Goto(t, "resub") /\ UNCHANGED snap
    /\ UNCHANGED <<live, next_id, crashes, late, registry, known, lock>>

Resubscribe(t) ==
    /\ pc[t] = "resub"
    /\ WorkerSubscribe(Handle[t])
    /\ snap' = [snap EXCEPT ![t] = next_id]
    /\ Goto(t, "update")
    /\ UNCHANGED <<crashes, late, registry, known, lock>>

\* The subscribe fails, or is answered after the 5 s timeout.
ResubscribeFails(t) ==
    /\ pc[t] = "resub"
    /\ \/ UNCHANGED <<live, next_id, late>>
       \/ /\ late < MaxLate /\ IdsToSpare
          /\ WorkerSubscribe(Handle[t])
          /\ late' = late + 1
    /\ Return(t)
    /\ UNCHANGED <<crashes, registry, known>>

\* Mutant: the new real id is used for the retry and not recorded.
Update_Forgotten(t) ==
    /\ pc[t] = "update"
    /\ Goto(t, "retry")
    /\ UNCHANGED <<live, next_id, crashes, late, registry, known, lock, snap>>

\* Mutant: the entry is inserted again instead of updated if present.
Update_Inserts(t) ==
    /\ pc[t] = "update"
    /\ registry' = [registry EXCEPT ![Handle[t]] = snap[t]]
    /\ Goto(t, "retry")
    /\ UNCHANGED <<live, next_id, crashes, late, known, lock, snap>>

\* The new real id is recorded, unless the entry has been removed.
Update(t) ==
    /\ pc[t] = "update"
    /\ registry' = [registry EXCEPT ![Handle[t]] = IF @ = 0 THEN 0 ELSE snap[t]]
    /\ Goto(t, "retry")
    /\ UNCHANGED <<live, next_id, crashes, late, known, lock, snap>>

----------------------------------------------------------------------------
(* seek, seekToTimestamp, pause, resume, pollRebalanceEvents and            *)
(* sendOffsetsToTransaction of Hi\Kafka\Client                              *)

\* These go to ipc.rs directly, with the virtual id where the worker expects
\* its own: no registry, no healing.
Control(t) ==
    /\ Controls
    /\ pc[t] = "idle" /\ registry[Handle[t]] # 0
    /\ snap' = [snap EXCEPT ![t] = Handle[t]]
    /\ Goto(t, "control")
    /\ UNCHANGED <<live, next_id, crashes, late, registry, known, lock>>

\* Carried out on whatever has that real id; without one, an error for PHP.
ControlDone(t) ==
    /\ pc[t] = "control"
    /\ Return(t)
    /\ UNCHANGED <<live, next_id, crashes, late, registry, known>>

----------------------------------------------------------------------------
Step(t) ==
    \/ Subscribe(t) \/ SubscribeLate(t) \/ Insert(t) \/ Unsubscribe(t)
    \/ UnsubscribeSend(t) \/ Start(t) \/ OpOk(t) \/ OpGone(t) \/ RetryGone(t) \/ OpFails(t)
    \/ TakeLock(t) \/ Reread(t) \/ Resubscribe(t) \/ ResubscribeFails(t)
    \/ Update(t) \/ Control(t) \/ ControlDone(t)

Next ==
    \/ Crash
    \/ \E r \in Id : Terminate(r)
    \/ \E t \in Thread : Step(t)

Spec == Init /\ [][Next]_vars

\* Every consumer loop keeps polling and its calls return; the worker does
\* not fail every operation and every subscribe for ever.
FairSpec ==
    /\ Spec
    /\ \A t \in Thread :
        /\ WF_vars(Step(t)) /\ SF_vars(Start(t))
        /\ SF_vars(OpGone(t)) /\ SF_vars(Resubscribe(t))

----------------------------------------------------------------------------
(* Properties                                                              *)

TypeOK ==
    /\ live \in [Id -> Virtual \cup {None}]
    /\ next_id \in 1 .. MaxId + 1 /\ crashes \in 0 .. MaxCrashes
    /\ late \in 0 .. MaxLate
    /\ registry \in [Virtual -> 0 .. MaxId] /\ known \subseteq Virtual
    /\ lock \in [Virtual -> Thread \cup {None}]
    /\ pc \in [Thread -> PCs] /\ snap \in [Thread -> 0 .. MaxId]

LiveOf(v) == {r \in Id : live[r] = v}

\* r is in the registry, or in the hands of the thread about to record it.
Owned(v, r) ==
    \/ registry[v] = r
    \/ \E t \in Thread : /\ Handle[t] = v /\ snap[t] = r
                         /\ pc[t] \in {"insert", "update"}

\* PHP has unsubscribed v.
Closed(v) == /\ v \in known /\ registry[v] = 0
             /\ \A t \in Thread : pc[t] = "insert" => Handle[t] # v

\* The live subscriptions of open handles that nobody will ever close.
Orphans == {r \in Id : live[r] # None /\ ~Closed(live[r]) /\ ~Owned(live[r], r)}

\* Concurrent calls that find the same real id gone subscribe once between
\* them: as long as the worker lives, an open handle has two live
\* subscriptions only if a subscribe was answered too late.
AtMostOneLive ==
    crashes = 0 /\ late = 0 =>
        \A v \in Virtual : ~Closed(v) => Cardinality(LiveOf(v)) <= 1

\* No path of subscribe or with_resubscribe forgets a subscription it has
\* made: as long as the worker lives, each late answer leaves one orphan at
\* most, and nothing else leaves any.
OrphansAreLate == crashes = 0 => Cardinality(Orphans) <= late

\* A closed handle stays closed: a call that was healing it when PHP
\* unsubscribed does not bring its entry back.
HandleStaysClosed ==
    [][\A v \in known :
        registry[v] = 0 /\ (\A t \in Thread : pc[t] = "insert" => Handle[t] # v)
            => registry'[v] = 0]_vars

\* Self-healing: while its loop polls, a virtual subscription always comes
\* back to a live real one after the last crash, stream failure or late
\* answer, unless PHP unsubscribes it.
Healed ==
    \A v \in Virtual :
        (registry[v] # 0) ~> (registry[v] = 0 \/ IsLive(registry[v]))

----------------------------------------------------------------------------
(* What comments and documents say of the code, and the code does not keep *)

\* The handle of PHP is stable: an operation on a virtual id is carried out on
\* the subscription that was made for it, and on no other.
OwnSubscription ==
    [][\A t \in Thread :
        OpOk(t) \/ UnsubscribeSend(t) \/ ControlDone(t)
            => live[snap[t]] \in {Handle[t], None}]_vars
============================================================================
