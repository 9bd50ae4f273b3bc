-------------------------- MODULE WorkerSpawn_proofs --------------------------
(***************************************************************************)
(* Proofs about WorkerSpawn: for any number of PHP processes and any       *)
(* number of worker processes there is at most one running worker per      *)
(* socket, and while it serves the socket file is its own.                 *)
(*                                                                         *)
(* Neither is inductive: both rest on who holds the spawn lock.  A running *)
(* worker always holds it (it inherited the file description), a process   *)
(* between flock and fork holds it alone, and it is in the hands of at     *)
(* most one worker.                                                        *)
(***************************************************************************)
EXTENDS WorkerSpawn, TLAPS

\* Who can hold the spawn lock.
LockInv ==
    /\ \A w \in Worker : wst[w] \in Running => w \in lock
    /\ \A p \in Proc : pc[p] = "fork" => lock = {p}
    /\ \A v, w \in Worker : v \in lock /\ w \in lock => v = w

IInv == TypeOK /\ LockInv /\ ServingReachable

USE SpawnAssumption

\* Nothing runs and nobody holds the lock before the first call.
LEMMA InitIInv == Init => IInv
  BY DEF Init, IInv, TypeOK, LockInv, ServingReachable, Running

\* Every step of a worker or of a PHP process keeps the types.
LEMMA TypeStep == TypeOK /\ [Next]_vars => TypeOK'
<1> SUFFICES ASSUME TypeOK, [Next]_vars PROVE TypeOK'
  OBVIOUS
<1>1. ASSUME NEW w \in Worker, Life(w) PROVE TypeOK'
  BY <1>1 DEF TypeOK, Life, Bind, Hang, Drain, RunReturns, RemoveSocket, Exit, Kill,
              Become, Running, procVars
<1>2. ASSUME NEW p \in Proc, Call(p) PROVE TypeOK'
  BY <1>2 DEF TypeOK, Call, Goto, workerVars
<1>3. ASSUME NEW p \in Proc, Ensure(p) PROVE TypeOK'
  <2>1. CASE EnsureAlive(p) \/ EnsureDead(p) \/ Flock(p)
    BY <2>1, ZenonT(60) DEF TypeOK, EnsureAlive, EnsureDead, Flock, Goto, workerVars
  <2>2. ASSUME NEW w \in Worker, Fork(p, w) PROVE TypeOK'
    BY <2>2 DEF TypeOK, Fork, Become, Running, Goto
  <2>3. CASE ForkFails(p) \/ WaitTimeout(p)
    BY <2>3 DEF TypeOK, ForkFails, WaitTimeout, Return, Goto, workerVars
  <2>4. CASE SocketReady(p)
    <3>1. pc' \in [Proc -> {"out", "ensure", "flock", "fork", "wait", "replay", "op"}]
      BY <2>4 DEF TypeOK, SocketReady, Goto
    <3> QED BY <2>4, <3>1 DEF TypeOK, SocketReady, workerVars
  <2> QED BY <1>3, <2>1, <2>2, <2>3, <2>4 DEF Ensure
<1>4. ASSUME NEW p \in Proc, Use(p) PROVE TypeOK'
  <2>1. CASE Replay(p)
    BY <2>1 DEF TypeOK, Replay, Reachable, Goto
  <2>2. CASE ReplayFails(p) \/ Produce(p)
    BY <2>2 DEF TypeOK, ReplayFails, Produce, Return, Goto, workerVars
  <2>3. CASE Register(p)
    BY <2>3 DEF TypeOK, Register, Reachable, Return, Goto
  <2>4. CASE ConnectionLost(p)
    BY <2>4 DEF TypeOK, ConnectionLost, Return, Goto, workerVars
  <2> QED BY <1>4, <2>1, <2>2, <2>3, <2>4 DEF Use
<1>5. CASE UNCHANGED vars
  BY <1>5 DEF TypeOK, vars
<1> QED BY <1>1, <1>2, <1>3, <1>4, <1>5 DEF Next

\* The lock changes hands only by flock, fork, the end of a call and the end
\* of a worker, and each keeps LockInv.
LEMMA LockStep == IInv /\ [Next]_vars => LockInv'
<1> SUFFICES ASSUME IInv, [Next]_vars PROVE LockInv'
  OBVIOUS
<1> USE DEF IInv, TypeOK
<1>1. ASSUME NEW w \in Worker, Life(w) PROVE LockInv'
  BY <1>1 DEF LockInv, Life, Bind, Hang, Drain, RunReturns, RemoveSocket, Exit, Kill,
              Become, Running, procVars
<1>2. ASSUME NEW p \in Proc, Call(p) PROVE LockInv'
  BY <1>2 DEF LockInv, Call, Goto, workerVars
<1>3. ASSUME NEW p \in Proc, Ensure(p) PROVE LockInv'
  <2>1. CASE EnsureAlive(p) \/ EnsureDead(p)
    BY <2>1 DEF LockInv, EnsureAlive, EnsureDead, Goto, workerVars
  <2>2. CASE Flock(p)
    BY <2>2 DEF LockInv, Flock, Goto, workerVars
  <2>3. ASSUME NEW w \in Worker, Fork(p, w) PROVE LockInv'
    BY <2>3 DEF LockInv, Fork, Become, Running, Goto
  <2>4. CASE ForkFails(p) \/ SocketReady(p) \/ WaitTimeout(p)
    BY <2>4 DEF LockInv, ForkFails, SocketReady, WaitTimeout, Return, Goto, workerVars
  <2> QED BY <1>3, <2>1, <2>2, <2>3, <2>4 DEF Ensure
<1>4. ASSUME NEW p \in Proc, Use(p) PROVE LockInv'
  BY <1>4 DEF LockInv, Use, Replay, ReplayFails, Register, Produce, ConnectionLost,
              Return, Goto, workerVars
<1>5. CASE UNCHANGED vars
  BY <1>5 DEF LockInv, vars
<1> QED BY <1>1, <1>2, <1>3, <1>4, <1>5 DEF Next

\* Two running workers would both be in the lock.
LEMMA LockMeansOne == IInv => AtMostOneWorker
  BY DEF IInv, TypeOK, LockInv, AtMostOneWorker

\* Only Bind and RemoveSocket touch the socket file, and the worker that takes
\* such a step is the only one running.
LEMMA SocketStep == IInv /\ [Next]_vars => ServingReachable'
<1> SUFFICES ASSUME IInv, [Next]_vars PROVE ServingReachable'
  OBVIOUS
<1> USE DEF IInv, TypeOK
<1>1. ASSUME NEW w \in Worker, Life(w) PROVE ServingReachable'
  BY <1>1, LockMeansOne
  DEF AtMostOneWorker, ServingReachable, Life, Bind, Hang, Drain, RunReturns,
      RemoveSocket, Exit, Kill, Become, Running
<1>2. ASSUME NEW p \in Proc, NEW w \in Worker, Fork(p, w) PROVE ServingReachable'
  BY <1>2 DEF ServingReachable, Fork, Become
<1>3. ASSUME UNCHANGED <<wst, sock>> PROVE ServingReachable'
  BY <1>3 DEF ServingReachable
<1> QED
  BY <1>1, <1>2, <1>3
  DEF Next, vars, Call, Ensure, EnsureAlive, EnsureDead, Flock, ForkFails,
      SocketReady, WaitTimeout, Use, Replay, ReplayFails, Register, Produce,
      ConnectionLost, workerVars

\* The strengthened invariant holds in every reachable state.
THEOREM SpawnInvariance == Spec => []IInv
<1>1. IInv /\ [Next]_vars => IInv'
  BY TypeStep, LockStep, SocketStep DEF IInv
<1> QED BY InitIInv, <1>1, PTL DEF Spec

\* Every variable keeps its type, the single retry of a call included.
THEOREM TypeCorrect == Spec => []TypeOK
  BY SpawnInvariance, PTL DEF IInv

\* For any number of processes racing to start it, at most one worker runs per
\* socket, its draining and exiting phases included (spawn.rs ensure_worker).
THEOREM OneWorker == Spec => []AtMostOneWorker
  BY SpawnInvariance, LockMeansOne, PTL

\* A serving worker's socket file is never replaced or removed by another
\* worker (server.rs bind_with, worker_entry.rs remove_file).
THEOREM SocketKept == Spec => []ServingReachable
<1>1. IInv => ServingReachable
  BY DEF IInv
<1> QED BY SpawnInvariance, <1>1, PTL
===============================================================================
