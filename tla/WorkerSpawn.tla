----------------------------- MODULE WorkerSpawn -----------------------------
(***************************************************************************)
(* The life of the embedded worker: ensure_worker and the spawn lock       *)
(* (ext/src/spawn.rs), the cache of ready workers                          *)
(* (ext/src/worker_health.rs), the replay of cluster registrations         *)
(* (ext/src/cluster_replay.rs, ext/src/ipc.rs) and the start, drain and    *)
(* exit of the forked process (ext/src/worker_entry.rs,                    *)
(* worker/src/server.rs).  All processes use one socket path.              *)
(*                                                                         *)
(* flock belongs to the open file description, which the forked worker     *)
(* inherits: the lock is free once every process that has it is gone.      *)
(* Each PHP process registers one cluster, named after it.                 *)
(***************************************************************************)
EXTENDS Integers, FiniteSets

CONSTANTS
    Proc,           \* PHP processes
    Worker,         \* worker processes; an id is used again after its exit
    None,           \* no socket file
    ReplayErrors    \* whether a replay may fail although the worker lives

ASSUME SpawnAssumption ==
    /\ Proc \cap Worker = {} /\ None \notin Proc \cup Worker
    /\ ReplayErrors \in BOOLEAN

VARIABLES
    lock,       \* the processes that hold the lock's file description
    wst,        \* state of each worker process
    sock,       \* the worker that bound the socket file, None if removed
    reg,        \* reg[w]: clusters in w's ClusterRegistry
    pc,         \* where each PHP process is
    attempt,    \* with_retry: first or second attempt
    cached,     \* KNOWN_ALIVE has the socket
    recorded    \* the process's cluster is in its replay cache

vars == <<lock, wst, sock, reg, pc, attempt, cached, recorded>>

procVars   == <<pc, attempt, cached, recorded>>
workerVars == <<wst, sock, reg>>

Running == {"starting", "hung", "serving", "draining", "flushing", "unlinked"}

Init ==
    /\ lock = {} /\ sock = None
    /\ wst = [w \in Worker |-> "exited"] /\ reg = [w \in Worker |-> {}]
    /\ pc = [p \in Proc |-> "out"] /\ attempt = [p \in Proc |-> 0]
    /\ cached = [p \in Proc |-> FALSE] /\ recorded = [p \in Proc |-> FALSE]

\* worker_alive: connect succeeds while the listener exists, which is until
\* Server::run returns.
Connectable == sock # None /\ wst[sock] \in {"serving", "draining"}

----------------------------------------------------------------------------
(* The worker process                                                      *)

Become(w, state) == wst' = [wst EXCEPT ![w] = state]

\* Mutant: bind fails on the socket file that a dead worker has left.
Bind_KeepsFile(w) ==
    /\ wst[w] = "starting"
    /\ Become(w, IF sock = None THEN "serving" ELSE "exited")
    /\ sock' = IF sock = None THEN w ELSE sock
    /\ lock' = IF sock = None THEN lock ELSE lock \ {w}
    /\ UNCHANGED <<reg, procVars>>

\* bind_with: the socket file, whoever made it, is replaced.
Bind(w) ==
    /\ wst[w] = "starting"
    /\ Become(w, "serving")
    /\ sock' = w
    /\ UNCHANGED <<lock, reg, procVars>>

\* The child of a process with other threads blocks for ever on a mutex that
\* one of them held at the fork; it keeps the lock's file description.
Hang(w) ==
    /\ wst[w] = "starting"
    /\ Become(w, "hung")
    /\ UNCHANGED <<lock, sock, reg, procVars>>

\* A signal, the idle timeout or the last Goodbye.
Drain(w) ==
    /\ wst[w] = "serving"
    /\ Become(w, "draining")
    /\ UNCHANGED <<lock, sock, reg, procVars>>

\* Mutant: the lock is given up before the flush.
RunReturns_Unlocks(w) ==
    /\ wst[w] = "draining"
    /\ Become(w, "flushing")
    /\ lock' = lock \ {w}
    /\ UNCHANGED <<sock, reg, procVars>>

\* run returns and the listener is dropped; the producer is flushed.
RunReturns(w) ==
    /\ wst[w] = "draining"
    /\ Become(w, "flushing")
    /\ UNCHANGED <<lock, sock, reg, procVars>>

\* remove_file of the socket path, whoever made the file.
RemoveSocket(w) ==
    /\ wst[w] = "flushing"
    /\ Become(w, "unlinked")
    /\ sock' = None
    /\ UNCHANGED <<lock, reg, procVars>>

\* _exit, and the file descriptors are closed.
Exit(w) ==
    /\ wst[w] = "unlinked"
    /\ Become(w, "exited")
    /\ lock' = lock \ {w}
    /\ UNCHANGED <<sock, reg, procVars>>

\* It crashes, is killed or fails to start; the socket file stays.
Kill(w) ==
    /\ wst[w] \in Running
    /\ Become(w, "exited")
    /\ lock' = lock \ {w}
    /\ UNCHANGED <<sock, reg, procVars>>

----------------------------------------------------------------------------
(* ensure                                                                  *)

Goto(p, l) == pc' = [pc EXCEPT ![p] = l]

\* The call is over; ensure_worker's lock file, if open, is dropped.
Return(p) ==
    /\ Goto(p, "out")
    /\ attempt' = [attempt EXCEPT ![p] = 0]
    /\ lock' = lock \ {p}

Call(p) ==
    /\ pc[p] = "out"
    /\ Goto(p, "ensure")
    /\ attempt' = [attempt EXCEPT ![p] = 1]
    /\ UNCHANGED <<lock, workerVars, cached, recorded>>

\* KNOWN_ALIVE has the socket, or connect succeeds: AlreadyAlive, no replay.
EnsureAlive(p) ==
    /\ pc[p] = "ensure" /\ (cached[p] \/ Connectable)
    /\ cached' = [cached EXCEPT ![p] = TRUE]
    /\ Goto(p, "op")
    /\ UNCHANGED <<lock, workerVars, attempt, recorded>>

EnsureDead(p) ==
    /\ pc[p] = "ensure" /\ ~cached[p] /\ ~Connectable
    /\ Goto(p, "flock")
    /\ UNCHANGED <<lock, workerVars, attempt, cached, recorded>>

\* flock(LOCK_EX | LOCK_NB): without the lock another process is spawning.
Flock(p) ==
    /\ pc[p] = "flock"
    /\ IF lock = {} THEN lock' = {p} /\ Goto(p, "fork")
                    ELSE Goto(p, "wait") /\ UNCHANGED lock
    /\ UNCHANGED <<workerVars, attempt, cached, recorded>>

\* Mutant: the child does not keep the lock (the parent's drop frees it).
Fork_LockNotInherited(p, w) ==
    /\ pc[p] = "fork" /\ wst[w] = "exited"
    /\ Become(w, "starting")
    /\ reg' = [reg EXCEPT ![w] = {}]
    /\ Goto(p, "wait")
    /\ UNCHANGED <<lock, sock, attempt, cached, recorded>>

\* fork: the child has the lock's file description too.
Fork(p, w) ==
    /\ pc[p] = "fork" /\ wst[w] = "exited"
    /\ Become(w, "starting")
    /\ reg' = [reg EXCEPT ![w] = {}]
    /\ lock' = lock \cup {w}
    /\ Goto(p, "wait")
    /\ UNCHANGED <<sock, attempt, cached, recorded>>

\* A multi-threaded process under HI_KAFKA_STRICT_FORK, or fork itself fails.
ForkFails(p) ==
    /\ pc[p] = "fork"
    /\ Return(p)
    /\ UNCHANGED <<workerVars, cached, recorded>>

\* wait_for_socket finds the socket; the lock file is dropped, the cache set
\* and the outcome JustSpawned, with or without the lock.
SocketReady(p) ==
    /\ pc[p] = "wait" /\ Connectable
    /\ lock' = lock \ {p}
    /\ cached' = [cached EXCEPT ![p] = TRUE]
    /\ Goto(p, IF recorded[p] THEN "replay" ELSE "op")
    /\ UNCHANGED <<workerVars, attempt, recorded>>

\* NotReady after ready_timeout, which may pass between two attempts to
\* connect though the worker has just come up.
WaitTimeout(p) ==
    /\ pc[p] = "wait"
    /\ Return(p)
    /\ UNCHANGED <<workerVars, cached, recorded>>

----------------------------------------------------------------------------
(* Replay and the operation                                                *)

Reachable == sock # None /\ wst[sock] = "serving"

\* replay_clusters: the cluster of p is registered again.
Replay(p) ==
    /\ pc[p] = "replay" /\ Reachable
    /\ reg' = [reg EXCEPT ![sock] = @ \cup {p}]
    /\ Goto(p, "op")
    /\ UNCHANGED <<lock, wst, sock, attempt, cached, recorded>>

\* The worker answers too late or with an error: returned at once, and the
\* cache keeps the socket.
ReplayFails(p) ==
    /\ ReplayErrors /\ pc[p] = "replay"
    /\ Return(p)
    /\ UNCHANGED <<workerVars, cached, recorded>>

\* register_cluster: on success the cluster enters the replay cache.
Register(p) ==
    /\ pc[p] = "op" /\ Reachable
    /\ reg' = [reg EXCEPT ![sock] = @ \cup {p}]
    /\ recorded' = [recorded EXCEPT ![p] = TRUE]
    /\ Return(p)
    /\ UNCHANGED <<wst, sock, cached>>

\* An operation on p's cluster reaches the worker, which carries it out or
\* answers ClusterNotRegistered.
Produce(p) ==
    /\ pc[p] = "op" /\ Reachable
    /\ Return(p)
    /\ UNCHANGED <<workerVars, cached, recorded>>

\* Mutant: the retries are not limited.
ConnectionLost_NoLimit(p) ==
    /\ pc[p] \in {"replay", "op"} /\ ~Reachable
    /\ cached' = [cached EXCEPT ![p] = FALSE]
    /\ Goto(p, "ensure")
    /\ attempt' = [attempt EXCEPT ![p] = @ + 1]
    /\ UNCHANGED <<lock, workerVars, recorded>>

\* with_retry: the connection is refused or lost, in the operation or in the
\* replay: the cache is invalidated and the call runs once more.
ConnectionLost(p) ==
    /\ pc[p] \in {"replay", "op"} /\ ~Reachable
    /\ cached' = [cached EXCEPT ![p] = FALSE]
    /\ IF attempt[p] = 1
       THEN /\ Goto(p, "ensure")
            /\ attempt' = [attempt EXCEPT ![p] = 2]
            /\ UNCHANGED lock
       ELSE Return(p)
    /\ UNCHANGED <<workerVars, recorded>>

----------------------------------------------------------------------------
Life(w) ==
    \/ Bind(w) \/ Hang(w) \/ Drain(w) \/ RunReturns(w) \/ RemoveSocket(w)
    \/ Exit(w) \/ Kill(w)

Ensure(p) ==
    \/ EnsureAlive(p) \/ EnsureDead(p) \/ Flock(p)
    \/ \E w \in Worker : Fork(p, w)
    \/ ForkFails(p) \/ SocketReady(p) \/ WaitTimeout(p)

Use(p) ==
    \/ Replay(p) \/ ReplayFails(p) \/ Register(p) \/ Produce(p) \/ ConnectionLost(p)

Next ==
    \/ \E w \in Worker : Life(w)
    \/ \E p \in Proc : Call(p) \/ Ensure(p) \/ Use(p)

Spec == Init /\ [][Next]_vars

\* PHP keeps calling and its calls have timeouts; fork does not fail for ever;
\* not every child that does not hang dies before it binds; a worker told to
\* stop gets on with it.
FairSpec ==
    /\ Spec
    /\ \A p \in Proc :
        /\ WF_vars(Call(p)) /\ WF_vars(Ensure(p)) /\ WF_vars(Use(p))
        /\ SF_vars(\E w \in Worker : Fork(p, w))
    /\ \A w \in Worker :
        /\ SF_vars(Bind(w))
        /\ WF_vars(RunReturns(w)) /\ WF_vars(RemoveSocket(w)) /\ WF_vars(Exit(w))

----------------------------------------------------------------------------
(* Properties                                                              *)

TypeOK ==
    /\ lock \subseteq Proc \cup Worker
    /\ wst \in [Worker -> Running \cup {"exited"}]
    /\ sock \in Worker \cup {None} /\ reg \in [Worker -> SUBSET Proc]
    /\ pc \in [Proc -> {"out", "ensure", "flock", "fork", "wait", "replay", "op"}]
    /\ attempt \in [Proc -> 0 .. 2]
    /\ cached \in [Proc -> BOOLEAN] /\ recorded \in [Proc -> BOOLEAN]

\* There is one worker per socket: whoever finds it dead, draining or exiting,
\* no second one is forked before the first has gone.
AtMostOneWorker ==
    \A v, w \in Worker : wst[v] \in Running /\ wst[w] \in Running => v = w

\* A serving worker can be reached: neither the start of a later worker nor
\* the late remove_file of an earlier one takes its socket file away.
ServingReachable == \A w \in Worker : wst[w] = "serving" => sock = w

\* The service comes back: once a call has found the worker dead, a worker
\* serves again, whatever died on the way, as long as deaths end.  What can
\* prevent it is a forked child that hangs, with the lock in its hands.
ServiceRecovers ==
    (\E p \in Proc : pc[p] = "flock")
        ~> \E w \in Worker : wst[w] = "serving" \/ (wst[w] = "hung" /\ w \in lock)

----------------------------------------------------------------------------
(* What comments and documents say of the code, and the code does not keep *)

\* The registrations a process made survive the worker's death: an operation
\* never finds its cluster unknown once register_cluster has succeeded.
ClusterKnown ==
    [][\A p \in Proc : Produce(p) /\ recorded[p] => p \in reg[sock]]_vars

==============================================================================
