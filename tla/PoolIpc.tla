------------------------------- MODULE PoolIpc -------------------------------
(***************************************************************************)
(* A request on its way from the extension to the worker and back: the     *)
(* connection pool (ext/src/pool.rs), the request / response exchange and  *)
(* its one retry (ext/src/ipc.rs), and the connection task of the worker   *)
(* (worker/src/server.rs).                                                 *)
(*                                                                         *)
(* Frames are reduced to their cid and to whether the worker answers them: *)
(* every request type does, Unsubscribe does not.  A connection is two     *)
(* FIFO byte streams; each end may be closed.                              *)
(***************************************************************************)
EXTENDS Integers, Sequences, FiniteSets, SequencesExt

CONSTANTS
    Thread,     \* PHP threads / coroutines making calls
    Conn,       \* bound: connections open at the same time
    MaxIdle,    \* max_idle of the pool
    MaxCalls,   \* bound: calls PHP makes
    NoConn      \* a thread without a connection

ASSUME PoolAssumption ==
    /\ MaxIdle \in Nat \ {0} /\ MaxCalls \in Nat
    /\ NoConn \notin Conn

VARIABLES
    calls,      \* calls made so far
    idle,       \* ConnectionPool.idle, a stack
    next_cid,   \* NEXT_CID
    pc, op, cn, cid, attempt,   \* per thread: the call it is making
    cli, srv,   \* whether the two ends of a connection are open
    up, down,   \* frames to the worker, cids of the responses back
    pend,       \* request the connection task is answering, 0 if none
    ran,        \* history: cids the worker has carried out
    mine, cut   \* history: cids of the current call; its connection was cut

connVars == <<cli, srv, up, down, pend>>
callVars == <<pc, op, cn, cid, attempt, mine, cut>>
vars     == <<calls, idle, next_cid, callVars, connVars, ran>>

Frame == [cid : Nat, answered : BOOLEAN]

Init ==
    /\ calls = 0 /\ idle = <<>> /\ next_cid = 1
    /\ pc = [t \in Thread |-> "out"] /\ op = [t \in Thread |-> "none"]
    /\ cn = [t \in Thread |-> NoConn] /\ cid = [t \in Thread |-> 0]
    /\ attempt = [t \in Thread |-> 0]
    /\ cli = [c \in Conn |-> FALSE] /\ srv = [c \in Conn |-> FALSE]
    /\ up = [c \in Conn |-> <<>>] /\ down = [c \in Conn |-> <<>>]
    /\ pend = [c \in Conn |-> 0]
    /\ ran = {} /\ mine = [t \in Thread |-> {}] /\ cut = [t \in Thread |-> FALSE]

----------------------------------------------------------------------------
(* The pool                                                                *)

\* is_alive: a non-blocking read must find neither EOF nor a stray byte.
IsAlive(c) == srv[c] /\ down[c] = <<>>

\* A stream is dropped: the unread responses are gone, and the worker reads
\* EOF once it has read the frames that were sent.
CloseClient(c) ==
    /\ cli' = [cli EXCEPT ![c] = FALSE]
    /\ down' = [down EXCEPT ![c] = <<>>]

\* Mutant: the connection is looked at and not popped.
AcquireIdle_Peeks(t) ==
    /\ pc[t] = "acquire" /\ idle # <<>> /\ IsAlive(Last(idle))
    /\ cn' = [cn EXCEPT ![t] = Last(idle)]
    /\ pc' = [pc EXCEPT ![t] = "write"]
    /\ UNCHANGED <<calls, idle, next_cid, op, cid, attempt, mine, cut, connVars, ran>>

\* acquire, first half: pop idle connections until one is alive.
AcquireIdle(t) ==
    /\ pc[t] = "acquire" /\ idle # <<>>
    /\ idle' = Front(idle)
    /\ IF IsAlive(Last(idle))
       THEN /\ cn' = [cn EXCEPT ![t] = Last(idle)]
            /\ pc' = [pc EXCEPT ![t] = "write"]
            /\ UNCHANGED <<cli, down>>
       ELSE CloseClient(Last(idle)) /\ UNCHANGED <<cn, pc>>
    /\ UNCHANGED <<calls, next_cid, op, cid, attempt, mine, cut, srv, up, pend, ran>>

\* acquire, second half: the pool is empty, connect and shake hands.
AcquireNew(t, c) ==
    /\ pc[t] = "acquire" /\ idle = <<>>
    /\ ~cli[c] /\ ~srv[c]
    /\ cli' = [cli EXCEPT ![c] = TRUE] /\ srv' = [srv EXCEPT ![c] = TRUE]
    /\ cn' = [cn EXCEPT ![t] = c]
    /\ pc' = [pc EXCEPT ![t] = "write"]
    /\ UNCHANGED <<calls, idle, next_cid, op, cid, attempt, mine, cut, up, down, pend, ran>>

\* Drop of a PooledConn that is not poisoned: back into the pool, or closed
\* when the pool is full.
Release(c) ==
    IF Len(idle) < MaxIdle
    THEN idle' = Append(idle, c) /\ UNCHANGED <<cli, down>>
    ELSE CloseClient(c) /\ UNCHANGED idle

\* Drop of a PooledConn after poison().
Discard(c) == CloseClient(c) /\ UNCHANGED idle

\* clear_idle, at the exit of the PHP process.
CloseIdle ==
    /\ idle # <<>>
    /\ idle' = <<>>
    /\ cli' = [c \in Conn |-> cli[c] /\ c \notin Range(idle)]
    /\ down' = [c \in Conn |-> IF c \in Range(idle) THEN <<>> ELSE down[c]]
    /\ UNCHANGED <<calls, next_cid, callVars, srv, up, pend, ran>>

----------------------------------------------------------------------------
(* The exchange                                                            *)

\* A call: "req" is any RPC, "unsub" the unsubscribe that expects no answer.
Begin(t, kind) ==
    /\ pc[t] = "out" /\ calls < MaxCalls
    /\ calls' = calls + 1
    /\ pc' = [pc EXCEPT ![t] = "ensure"]
    /\ op' = [op EXCEPT ![t] = kind]
    /\ attempt' = [attempt EXCEPT ![t] = 1]
    /\ mine' = [mine EXCEPT ![t] = {}] /\ cut' = [cut EXCEPT ![t] = FALSE]
    /\ UNCHANGED <<idle, next_cid, cn, cid, connVars, ran>>

\* ensure has found the worker ready; the attempt gets its cid.
TakeCid(t) ==
    /\ pc[t] = "ensure"
    /\ IF op[t] = "req"
       THEN /\ cid' = [cid EXCEPT ![t] = next_cid]
            /\ mine' = [mine EXCEPT ![t] = @ \cup {next_cid}]
            /\ next_cid' = next_cid + 1
       ELSE cid' = [cid EXCEPT ![t] = 0] /\ UNCHANGED <<mine, next_cid>>
    /\ pc' = [pc EXCEPT ![t] = "acquire"]
    /\ UNCHANGED <<calls, idle, op, cn, attempt, cut, connVars, ran>>

\* The call is over, with a result or an error.
Done(t) ==
    /\ pc' = [pc EXCEPT ![t] = "out"]
    /\ cn' = [cn EXCEPT ![t] = NoConn]
    /\ op' = [op EXCEPT ![t] = "none"] /\ cid' = [cid EXCEPT ![t] = 0]
    /\ attempt' = [attempt EXCEPT ![t] = 0]

\* Mutant: a timeout is taken for a dead worker.
ShouldInvalidate_Timeout(error) == error \in {"pool", "pipe", "eof", "timeout"}

\* The errors that suggest a dead worker; a timeout is not one of them.
ShouldInvalidate(error) == error \in {"pool", "pipe", "eof"}

\* Mutant: the retries are not limited.
Fail_NoLimit(t, error) ==
    IF ShouldInvalidate(error)
    THEN /\ pc' = [pc EXCEPT ![t] = "ensure"]
         /\ cn' = [cn EXCEPT ![t] = NoConn]
         /\ attempt' = [attempt EXCEPT ![t] = @ + 1]
         /\ UNCHANGED <<op, cid>>
    ELSE Done(t)

\* with_retry: the call runs once more after such an error, and only once.
Fail(t, error) ==
    IF ShouldInvalidate(error) /\ attempt[t] = 1
    THEN /\ pc' = [pc EXCEPT ![t] = "ensure"]
         /\ cn' = [cn EXCEPT ![t] = NoConn]
         /\ attempt' = [attempt EXCEPT ![t] = 2]
         /\ UNCHANGED <<op, cid>>
    ELSE Done(t)

\* ensure fails: the worker cannot be started, or the replay of the clusters,
\* which runs inside ensure, loses its connection.
EnsureFails(t) ==
    /\ pc[t] = "ensure"
    /\ \E error \in {"ensure", "eof"} : Fail(t, error)
    /\ UNCHANGED <<calls, idle, next_cid, mine, cut, connVars, ran>>

\* connect or the HELLO exchange fails.
AcquireFails(t) ==
    /\ pc[t] = "acquire" /\ idle = <<>>
    /\ Fail(t, "pool")
    /\ UNCHANGED <<calls, idle, next_cid, mine, cut, connVars, ran>>

\* write_frame to an open connection.
Write(t) ==
    /\ pc[t] = "write" /\ srv[cn[t]]
    /\ up' = [up EXCEPT ![cn[t]] =
                Append(@, [cid |-> cid[t], answered |-> op[t] = "req"])]
    /\ IF op[t] = "req"
       THEN /\ pc' = [pc EXCEPT ![t] = "recv"]
            /\ UNCHANGED <<cn, op, cid, attempt, idle, cli, down>>
       ELSE Done(t) /\ Release(cn[t])
    /\ UNCHANGED <<calls, next_cid, mine, cut, srv, pend, ran>>

\* write_frame finds the connection closed (EPIPE), or times out.
WriteFails(t) ==
    /\ pc[t] = "write"
    /\ \/ ~srv[cn[t]] /\ Fail(t, "pipe")
       \/ srv[cn[t]] /\ Fail(t, "timeout")
    /\ Discard(cn[t])
    /\ UNCHANGED <<calls, next_cid, mine, cut, srv, up, pend, ran>>

\* recv_resp finds a frame.  With the cid that was sent it is the answer, be
\* it an Error frame; with another (CidMismatch) the connection is poisoned.
Recv(t) ==
    /\ pc[t] = "recv" /\ down[cn[t]] # <<>>
    /\ IF Head(down[cn[t]]) = cid[t] /\ Len(idle) < MaxIdle
       THEN /\ idle' = Append(idle, cn[t])
            /\ down' = [down EXCEPT ![cn[t]] = Tail(@)]
            /\ UNCHANGED cli
       ELSE Discard(cn[t])
    /\ Done(t)
    /\ UNCHANGED <<calls, next_cid, mine, cut, srv, up, pend, ran>>

RecvEof(t) ==
    /\ pc[t] = "recv" /\ down[cn[t]] = <<>> /\ ~srv[cn[t]]
    /\ Discard(cn[t])
    /\ Fail(t, "eof")
    /\ UNCHANGED <<calls, next_cid, mine, cut, srv, up, pend, ran>>

\* Mutant: the connection of a timed-out exchange is not poisoned.
RecvTimeout_NotPoisoned(t) ==
    /\ pc[t] = "recv" /\ down[cn[t]] = <<>> /\ srv[cn[t]]
    /\ Release(cn[t])
    /\ Fail(t, "timeout")
    /\ UNCHANGED <<calls, next_cid, mine, cut, srv, up, pend, ran>>

\* Mutant: the read timeout is not set on the first attempt.
RecvTimeout_Unset(t) ==
    /\ pc[t] = "recv" /\ down[cn[t]] = <<>> /\ srv[cn[t]] /\ attempt[t] = 2
    /\ Discard(cn[t])
    /\ Fail(t, "timeout")
    /\ UNCHANGED <<calls, next_cid, mine, cut, srv, up, pend, ran>>

\* The read timeout expires first: the connection is poisoned.
RecvTimeout(t) ==
    /\ pc[t] = "recv" /\ down[cn[t]] = <<>> /\ srv[cn[t]]
    /\ Discard(cn[t])
    /\ Fail(t, "timeout")
    /\ UNCHANGED <<calls, next_cid, mine, cut, srv, up, pend, ran>>

----------------------------------------------------------------------------
(* The worker: one task per connection, one frame at a time                *)

\* handle_connection reads a frame and dispatch runs its handler.
Serve(c) ==
    /\ srv[c] /\ pend[c] = 0 /\ up[c] # <<>>
    /\ up' = [up EXCEPT ![c] = Tail(@)]
    /\ IF Head(up[c]).answered
       THEN /\ pend' = [pend EXCEPT ![c] = Head(up[c]).cid]
            /\ ran' = ran \cup {Head(up[c]).cid}
       ELSE UNCHANGED <<pend, ran>>
    /\ UNCHANGED <<calls, idle, next_cid, callVars, cli, srv, down>>

\* The task ends: what it had not read is lost.
CloseServer(c) ==
    /\ srv' = [srv EXCEPT ![c] = FALSE]
    /\ up' = [up EXCEPT ![c] = <<>>]
    /\ pend' = [pend EXCEPT ![c] = 0]

\* The response is written; if the client has gone the task ends.
Respond(c) ==
    /\ pend[c] # 0
    /\ IF cli[c]
       THEN /\ down' = [down EXCEPT ![c] = Append(@, pend[c])]
            /\ pend' = [pend EXCEPT ![c] = 0]
            /\ UNCHANGED <<srv, up>>
       ELSE CloseServer(c) /\ UNCHANGED down
    /\ UNCHANGED <<calls, idle, next_cid, callVars, cli, ran>>

\* The client has gone and everything it sent has been read.
ServerEof(c) ==
    /\ srv[c] /\ ~cli[c] /\ up[c] = <<>> /\ pend[c] = 0
    /\ CloseServer(c)
    /\ UNCHANGED <<calls, idle, next_cid, callVars, cli, down, ran>>

\* A panic of a handler, an oversized frame, the abort at the end of a drain
\* or the death of the worker: at any point, the handler's effect included.
ServerCuts(c) ==
    /\ srv[c] /\ cli[c]
    /\ CloseServer(c)
    /\ cut' = [t \in Thread |-> cut[t] \/ cn[t] = c]
    /\ UNCHANGED <<calls, idle, next_cid, pc, op, cn, cid, attempt, mine, cli, down, ran>>

----------------------------------------------------------------------------
Call(t) ==
    \/ TakeCid(t) \/ EnsureFails(t)
    \/ AcquireIdle(t) \/ AcquireFails(t)
    \/ \E c \in Conn : AcquireNew(t, c)
    \/ Write(t) \/ WriteFails(t)
    \/ Recv(t) \/ RecvEof(t) \/ RecvTimeout(t)

Worker(c) == Serve(c) \/ Respond(c) \/ ServerEof(c) \/ ServerCuts(c)

Next ==
    \/ \E t \in Thread : Call(t)
    \/ \E t \in Thread, kind \in {"req", "unsub"} : Begin(t, kind)
    \/ \E c \in Conn : Worker(c)
    \/ CloseIdle

Spec == Init /\ [][Next]_vars

\* A thread that is making a call runs: reads and writes have timeouts.
FairSpec == Spec /\ \A t \in Thread : WF_vars(Call(t))

----------------------------------------------------------------------------
(* Properties                                                              *)

PCs == {"out", "ensure", "acquire", "write", "recv"}

TypeOK ==
    /\ calls \in Nat /\ idle \in Seq(Conn) /\ next_cid \in Nat \ {0}
    /\ pc \in [Thread -> PCs] /\ op \in [Thread -> {"none", "req", "unsub"}]
    /\ cn \in [Thread -> Conn \cup {NoConn}] /\ cid \in [Thread -> Nat]
    /\ attempt \in [Thread -> 0 .. 2]
    /\ cli \in [Conn -> BOOLEAN] /\ srv \in [Conn -> BOOLEAN]
    /\ up \in [Conn -> Seq(Frame)] /\ down \in [Conn -> Seq(Nat)]
    /\ pend \in [Conn -> Nat]
    /\ ran \subseteq Nat /\ mine \in [Thread -> SUBSET Nat]
    /\ cut \in [Thread -> BOOLEAN]

Holding(t) == pc[t] \in {"write", "recv"}

\* A connection belongs to one party: to one thread in the middle of an
\* exchange or to the pool, and it is in the pool once.
ExclusiveConn ==
    /\ \A t \in Thread : cn[t] \in Conn <=> Holding(t)
    /\ \A t, u \in Thread : cn[t] = cn[u] /\ cn[t] # NoConn => t = u
    /\ \A t \in Thread, i \in DOMAIN idle : cn[t] # idle[i]
    /\ \A i, j \in DOMAIN idle : idle[i] = idle[j] => i = j

\* No request is outstanding on c: nothing to read now and nothing later.
Clean(c) ==
    /\ down[c] = <<>> /\ pend[c] = 0
    /\ \A i \in DOMAIN up[c] : ~up[c][i].answered

\* A pooled connection carries no response, not even one still to come: the
\* liveness probe of acquire could not see a late one.
PoolClean == \A i \in DOMAIN idle : Clean(idle[i])

\* A response is read by the call that sent the request: CidMismatch is
\* unreachable, whatever timed out, was cut or was retried before.
OwnResponse ==
    \A t \in Thread : pc[t] = "recv" =>
        \A i \in DOMAIN down[cn[t]] : down[cn[t]][i] = cid[t]

\* A request is carried out twice only when the worker cut the connection of
\* the first attempt: a timeout, after which the first attempt may still run,
\* never sends it again.
TwiceOnlyAfterCut ==
    \A t \in Thread : Cardinality(mine[t] \cap ran) > 1 => cut[t]

\* Every call comes back to PHP: no exchange waits for ever, not even when the
\* worker never answers and the retry fails too.
CallReturns == \A t \in Thread : pc[t] # "out" ~> pc[t] = "out"
==============================================================================
