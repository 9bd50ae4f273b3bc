--------------------------- MODULE ServerLifecycle ---------------------------
(***************************************************************************)
(* The life of one worker process: the accept loop, its idle and goodbye   *)
(* exits and the drain (worker/src/server.rs), the shutdown flag and its   *)
(* Notify (worker/src/shutdown.rs), the signal, flush and removal of the   *)
(* socket (worker/src/main.rs), against the connections of PHP processes   *)
(* that connect, ask, close, die or say goodbye when the module is shut    *)
(* down (ext/src/lifecycle.rs).                                            *)
(*                                                                         *)
(* Time is counted in idle checks.  A client waits for the answer to a     *)
(* request before it sends the next; the handshake is part of the accept   *)
(* (PoolIpc models it).  Which process has made a connection makes no      *)
(* difference to the worker and is left out.  A connection id is used      *)
(* again once its task has been reaped.                                    *)
(***************************************************************************)
EXTENDS Integers, Sequences, FiniteSets

CONSTANTS
    Conn,         \* connections of PHP processes
    Producing,    \* the connections that carry produce requests
    Consuming,    \* the connections that carry subscribe and poll requests
    Sub,          \* subscription ids
    IdleTicks,    \* idle_timeout in idle checks; 0 disables the idle exit
    Signals       \* whether SIGTERM or SIGINT may arrive

ASSUME LifeAssumption ==
    /\ Producing \subseteq Conn /\ Consuming \subseteq Conn
    /\ IdleTicks \in Nat /\ Signals \in BOOLEAN

VARIABLES
    phase,         \* where Server::run and main are
    draining,      \* ShutdownState.draining
    sig,           \* the signal task: waiting, flag stored, waiters notified
    woken,         \* the Notified future of the loop has been notified
    expedited,     \* a Goodbye has been read
    drain_expired, flush_expired,
    task,          \* the connection tasks in the JoinSet
    inbox,         \* frames sent and not yet read
    net,           \* the client's end of the connection
    queued,        \* requests whose message is in librdkafka's queue
    stale,         \* those of them whose producer has been replaced
    sub,           \* age of each subscription's last poll
    idle, due,     \* age of last_active; the idle ticker has fired
    early, lost    \* history: accepted before the drain; an acked request
                   \* was left without an answer

loopVars   == <<phase, woken, drain_expired, flush_expired>>
flagVars   == <<draining, sig, expedited>>
connVars   == <<task, inbox, net, early>>
timeVars   == <<idle, due>>
queueVars  == <<queued, stale>>
vars == <<loopVars, flagVars, connVars, timeVars, queueVars, sub, lost>>

Phases == {"top", "arm", "wait", "drain", "abort", "flush", "unlink", "exited"}
Serving == {"checked", "sent", "acked", "poll"}
NoSub == IdleTicks + 2

Init ==
    /\ phase = "top" /\ woken = FALSE
    /\ drain_expired = FALSE /\ flush_expired = FALSE
    /\ draining = FALSE /\ sig = "none" /\ expedited = FALSE
    /\ task = [c \in Conn |-> "none"] /\ inbox = [c \in Conn |-> <<>>]
    /\ net = [c \in Conn |-> "none"]
    /\ queued = {} /\ stale = {} /\ sub = [u \in Sub |-> NoSub]
    /\ idle = 0 /\ due = TRUE
    /\ early = {} /\ lost = FALSE

----------------------------------------------------------------------------
(* PHP processes                                                           *)

(* A frame: its type and the subscription it names.                        *)
Frame == [kind : {"produce", "goodbye", "subscribe", "poll", "unsubscribe"}, sub : Sub]

Fr(kind, u) == [kind |-> kind, sub |-> u]

Listening == phase \notin {"flush", "unlink", "exited"}

ClientFrame == UNCHANGED <<loopVars, flagVars, task, early, timeVars, queueVars, sub, lost>>

\* connect: the connection waits in the backlog until it is accepted.
Connect(c) ==
    /\ Listening /\ net[c] = "none" /\ task[c] = "none"
    /\ net' = [net EXCEPT ![c] = "open"]
    /\ ClientFrame /\ UNCHANGED inbox

\* One request at a time.
Request(c, f) ==
    /\ net[c] = "open" /\ task[c] = "read" /\ inbox[c] = <<>>
    /\ c \in IF f.kind = "produce" THEN Producing ELSE Consuming
    /\ inbox' = [inbox EXCEPT ![c] = <<f>>]
    /\ ClientFrame /\ UNCHANGED net

\* A timeout poisons the connection, the pool drops it (cleanup_socket closes
\* the idle ones first), or the process dies.
CloseConn(c) ==
    /\ net[c] = "open"
    /\ net' = [net EXCEPT ![c] = "closed"]
    /\ ClientFrame /\ UNCHANGED inbox

\* The rest of cleanup_socket, on a connection of its own whose handshake has
\* been answered: the unsubscribe of the process's subscription if it has one,
\* Goodbye and the close, nobody waiting for an answer.
SayGoodbye(c, u) ==
    /\ net[c] = "open" /\ task[c] = "read" /\ inbox[c] = <<>>
    /\ \E unsubs \in {<<>>, <<Fr("unsubscribe", u)>>} :
        inbox' = [inbox EXCEPT ![c] = Append(unsubs, Fr("goodbye", u))]
    /\ net' = [net EXCEPT ![c] = "closed"]
    /\ ClientFrame

----------------------------------------------------------------------------
(* The connection tasks                                                    *)

\* What a task does leaves the loop, the clients and the clock alone.
TaskFrame == UNCHANGED <<loopVars, draining, sig, net, early, timeVars, lost>>

Goto(c, l) == task' = [task EXCEPT ![c] = l]

\* The task reads a frame of this kind.
Reads(c, kind) ==
    /\ task[c] = "read" /\ inbox[c] # <<>> /\ Head(inbox[c]).kind = kind
    /\ inbox' = [inbox EXCEPT ![c] = Tail(@)]
    /\ TaskFrame

\* ProduceReq and ProduceFnf: refused while draining, else taken on.
ReadProduce(c) ==
    /\ Reads(c, "produce")
    /\ Goto(c, IF draining THEN "read" ELSE "checked")
    /\ UNCHANGED <<expedited, queueVars, sub>>

ReadSubscribe(c) ==
    /\ Reads(c, "subscribe")
    /\ sub' = [sub EXCEPT ![Head(inbox[c]).sub] = 0]
    /\ UNCHANGED <<task, expedited, queueVars>>

\* A poll of an unknown subscription is answered at once.
ReadPoll(c) ==
    /\ Reads(c, "poll")
    /\ IF sub[Head(inbox[c]).sub] = NoSub THEN UNCHANGED <<task, sub>>
       ELSE Goto(c, "poll") /\ sub' = [sub EXCEPT ![Head(inbox[c]).sub] = 0]
    /\ UNCHANGED <<expedited, queueVars>>

ReadUnsubscribe(c) ==
    /\ Reads(c, "unsubscribe")
    /\ sub' = [sub EXCEPT ![Head(inbox[c]).sub] = NoSub]
    /\ UNCHANGED <<task, expedited, queueVars>>

ReadGoodbye(c) ==
    /\ Reads(c, "goodbye")
    /\ expedited' = TRUE
    /\ UNCHANGED <<task, queueVars, sub>>

\* entry_for replaces the producer if the cluster has been registered anew
\* meanwhile; producer.send puts the message into the queue, or fails at once.
Enqueue(c) ==
    /\ task[c] = "checked"
    /\ stale' \in {stale, queued}
    /\ \/ Goto(c, "sent") /\ queued' = queued \cup {c}
       \/ Goto(c, "acked") /\ UNCHANGED queued
    /\ TaskFrame /\ UNCHANGED <<inbox, expedited, sub>>

\* The delivery report (external) of a message, whoever waits for it.  A
\* replaced producer goes, and purges its queue, with the last call that
\* uses it.
Deliver(c) ==
    /\ c \in queued /\ phase # "exited"
    /\ c \in stale => \E d \in stale : task[d] = "sent"
    /\ queued' = queued \ {c} /\ stale' = stale \ {c}
    /\ task' = IF task[c] = "sent" THEN [task EXCEPT ![c] = "acked"] ELSE task
    /\ TaskFrame /\ UNCHANGED <<inbox, expedited, sub>>

\* The answer is written.
Answer(c) ==
    /\ task[c] \in {"acked", "poll"}
    /\ Goto(c, "read")
    /\ TaskFrame /\ UNCHANGED <<inbox, expedited, queueVars, sub>>

\* The client has closed, the handler has panicked or the write has failed.
TaskEnds(c) ==
    /\ \/ task[c] = "read" /\ inbox[c] = <<>> /\ net[c] = "closed"
       \/ task[c] \in Serving \ {"sent"}
    /\ Goto(c, "done")
    /\ TaskFrame /\ UNCHANGED <<inbox, expedited, queueVars, sub>>

TaskStep(c) ==
    \/ ReadProduce(c) \/ ReadSubscribe(c) \/ ReadPoll(c)
    \/ ReadUnsubscribe(c) \/ ReadGoodbye(c)
    \/ Enqueue(c) \/ Deliver(c) \/ Answer(c) \/ TaskEnds(c)

----------------------------------------------------------------------------
(* ShutdownState and the signal task                                       *)

SignalStores ==
    /\ Signals /\ sig = "none" /\ phase # "exited"
    /\ draining' = TRUE /\ sig' = "stored"
    /\ UNCHANGED <<loopVars, expedited, connVars, timeVars, queueVars, sub, lost>>

\* notify_waiters: only a future that already exists is woken.
SignalNotifies ==
    /\ sig = "stored"
    /\ sig' = "sent" /\ woken' = (woken \/ phase = "wait")
    /\ UNCHANGED <<phase, drain_expired, flush_expired, draining, expedited,
                   connVars, timeVars, queueVars, sub, lost>>

----------------------------------------------------------------------------
(* Server::run                                                             *)

Selecting == phase \in {"top", "wait"}

LoopFrame == UNCHANGED <<sig, expedited, queueVars, sub, lost, drain_expired,
                         flush_expired>>

\* wait_draining finds the flag, or its Notified future is woken.
SeesDrain ==
    /\ \/ phase = "top" /\ draining
       \/ phase = "wait" /\ woken
    /\ phase' = "drain" /\ woken' = FALSE
    /\ LoopFrame /\ UNCHANGED <<draining, connVars, timeVars>>

\* wait_draining reads the flag, and creates the future in a later step.
ReadsFlag ==
    /\ phase = "top" /\ ~draining
    /\ phase' = "arm"
    /\ LoopFrame /\ UNCHANGED <<woken, draining, connVars, timeVars>>

ArmsWait ==
    /\ phase = "arm"
    /\ phase' = "wait" /\ woken' = FALSE
    /\ LoopFrame /\ UNCHANGED <<draining, connVars, timeVars>>

Done == {c \in Conn : task[c] = "done"}

\* The connections in S leave the JoinSet; their ids are free again.
Reap(S) ==
    /\ task' = [c \in Conn |-> IF c \in S THEN "none" ELSE task[c]]
    /\ net' = [c \in Conn |-> IF c \in S THEN "none" ELSE net[c]]
    /\ inbox' = [c \in Conn |-> IF c \in S THEN <<>> ELSE inbox[c]]
    /\ early' = early \ S

\* A branch of the select has run: the future is dropped.
NextIteration == phase' = "top" /\ woken' = FALSE

Accept(c) ==
    /\ Selecting /\ net[c] # "none" /\ task[c] = "none"
    /\ task' = [d \in Conn |-> IF d = c THEN "read"
                               ELSE IF d \in Done THEN "none" ELSE task[d]]
    /\ net' = [d \in Conn |-> IF d \in Done THEN "none" ELSE net[d]]
    /\ inbox' = [d \in Conn |-> IF d \in Done THEN <<>> ELSE inbox[d]]
    /\ early' = (early \ Done) \cup (IF draining THEN {} ELSE {c})
    /\ idle' = 0
    /\ NextIteration /\ LoopFrame /\ UNCHANGED <<draining, due>>

\* active_subscriptions(idle_timeout) > 0, whoever owns them.
HasActiveSubs == \E u \in Sub : sub[u] <= IdleTicks

InSet == {c \in Conn : task[c] # "none"}

\* Mutant: a Goodbye ends the worker whoever else is connected.
JoinNext_AnyGoodbye ==
    /\ IdleTicks > 0 /\ Selecting /\ Done # {}
    /\ Reap(Done)
    /\ draining' = (draining \/ (expedited /\ ~HasActiveSubs))
    /\ NextIteration /\ LoopFrame /\ UNCHANGED timeVars

\* A task has ended: after a Goodbye the last one ends the worker.
JoinNext ==
    /\ IdleTicks > 0 /\ Selecting /\ Done # {}
    /\ Reap(Done)
    /\ draining' = \/ draining
                   \/ expedited /\ InSet = Done /\ ~HasActiveSubs
    /\ NextIteration /\ LoopFrame /\ UNCHANGED timeVars

\* Mutant: only an empty worker, without any subscription, is idle.
Tick_AnySubscription ==
    /\ IdleTicks > 0 /\ Selecting /\ due
    /\ Reap(Done)
    /\ draining' = \/ draining
                   \/ /\ InSet = Done /\ idle >= IdleTicks
                      /\ \A u \in Sub : sub[u] = NoSub
    /\ idle' = IF InSet = Done THEN idle ELSE 0
    /\ due' = FALSE
    /\ NextIteration /\ LoopFrame

\* The idle check; while tasks run, last_active is refreshed.
Tick ==
    /\ IdleTicks > 0 /\ Selecting /\ due
    /\ Reap(Done)
    /\ draining' = (draining \/ (InSet = Done /\ idle >= IdleTicks /\ ~HasActiveSubs))
    /\ idle' = IF InSet = Done THEN idle ELSE 0
    /\ due' = FALSE
    /\ NextIteration /\ LoopFrame

Older(age, limit) == IF age < limit THEN age + 1 ELSE age

\* One check interval goes by.
TimePasses ==
    /\ IdleTicks > 0 /\ Listening
    /\ idle' = Older(idle, IdleTicks)
    /\ sub' = [u \in Sub |-> IF sub[u] = NoSub THEN NoSub
                             ELSE Older(sub[u], IdleTicks + 1)]
    /\ due' = TRUE
    /\ UNCHANGED <<loopVars, flagVars, connVars, queueVars, lost>>

----------------------------------------------------------------------------
(* drain_tasks, flush, remove_file                                         *)

DrainJoin ==
    /\ phase = "drain" /\ Done # {}
    /\ Reap(Done)
    /\ LoopFrame /\ UNCHANGED <<phase, woken, draining, timeVars>>

\* Mutant: the drain has no deadline.
DrainExpires_Never ==
    /\ phase = "drain" /\ InSet # {}
    /\ UNCHANGED vars

\* drain_timeout: abort_all.
DrainExpires ==
    /\ phase = "drain" /\ InSet # {}
    /\ phase' = "abort" /\ drain_expired' = TRUE
    /\ UNCHANGED <<woken, flush_expired, flagVars, connVars, timeVars, queueVars,
                   sub, lost>>

\* An aborted task ends at its next await, the answer written or not.
TaskAborted(c) ==
    /\ phase = "abort" /\ task[c] # "none"
    /\ Reap({c})
    /\ lost' = (lost \/ task[c] = "acked")
    /\ UNCHANGED <<loopVars, flagVars, timeVars, queueVars, sub>>

\* run returns: the JoinSet and the listener are dropped, and with them the
\* tasks that are left and the connections of the backlog.
Returns ==
    /\ phase' = "flush"
    /\ lost' = (lost \/ \E c \in Conn : task[c] = "acked")
    /\ Reap(Conn)
    /\ UNCHANGED <<woken, drain_expired, flush_expired, flagVars, timeVars, queueVars,
                   sub>>

\* Mutant: run does not wait for the tasks.
RunReturns_AtOnce == phase \in {"drain", "abort"} /\ Returns

RunReturns == phase \in {"drain", "abort"} /\ InSet = {} /\ Returns

\* Mutant: the flush does not wait for the queue.
FlushDone_AtOnce ==
    /\ phase = "flush"
    /\ phase' = "unlink"
    /\ UNCHANGED <<woken, drain_expired, flush_expired, flagVars, connVars, timeVars,
                   queueVars, sub, lost>>

\* producer.flush waits for the producers in the cache, not for replaced ones.
FlushDone ==
    /\ phase = "flush" /\ queued \ stale = {}
    /\ phase' = "unlink"
    /\ UNCHANGED <<woken, drain_expired, flush_expired, flagVars, connVars, timeVars,
                   queueVars, sub, lost>>

\* An expired flush is logged and the process goes on.
FlushExpires ==
    /\ phase = "flush" /\ queued \ stale # {}
    /\ phase' = "unlink" /\ flush_expired' = TRUE
    /\ UNCHANGED <<woken, drain_expired, flagVars, connVars, timeVars, queueVars,
                   sub, lost>>

\* The socket file is removed and the process ends.
Exit ==
    /\ phase = "unlink"
    /\ phase' = "exited"
    /\ UNCHANGED <<woken, drain_expired, flush_expired, flagVars, connVars, timeVars,
                   queueVars, sub, lost>>

Shutdown ==
    \/ DrainJoin \/ DrainExpires \/ (\E c \in Conn : TaskAborted(c)) \/ RunReturns
    \/ FlushDone \/ FlushExpires \/ Exit

Client(c) ==
    \/ Connect(c) \/ CloseConn(c)
    \/ \E u \in Sub : SayGoodbye(c, u)
    \/ \E kind \in {"produce", "subscribe", "poll"}, u \in Sub : Request(c, Fr(kind, u))

Next ==
    \/ \E c \in Conn : Client(c) \/ TaskStep(c) \/ Accept(c)
    \/ SignalStores \/ SignalNotifies
    \/ SeesDrain \/ ReadsFlag \/ ArmsWait \/ JoinNext \/ Tick \/ TimePasses
    \/ Shutdown

Spec == Init /\ [][Next]_vars

\* tokio runs what is ready: select! polls its branches in random order, so
\* that none is starved (SF), tasks and timers go on (WF).  Clients and
\* signals owe nothing.
FairSpec ==
    /\ Spec
    /\ WF_vars(SignalNotifies \/ ReadsFlag \/ ArmsWait)
    /\ SF_vars(SeesDrain) /\ SF_vars(Tick)
    /\ WF_vars(TimePasses) /\ WF_vars(Shutdown)
    /\ WF_vars(\E c \in Conn : TaskStep(c))

----------------------------------------------------------------------------
(* Properties                                                              *)

TypeOK ==
    /\ phase \in Phases /\ woken \in BOOLEAN
    /\ drain_expired \in BOOLEAN /\ flush_expired \in BOOLEAN
    /\ draining \in BOOLEAN /\ sig \in {"none", "stored", "sent"}
    /\ expedited \in BOOLEAN
    /\ task \in [Conn -> {"none", "read", "done"} \cup Serving]
    /\ inbox \in [Conn -> Seq(Frame)]
    /\ net \in [Conn -> {"none", "open", "closed"}]
    /\ queued \subseteq Conn /\ stale \subseteq queued /\ sub \in [Sub -> 0 .. NoSub]
    /\ idle \in 0 .. IdleTicks /\ due \in BOOLEAN
    /\ early \subseteq Conn /\ lost \in BOOLEAN

\* A worker that ends itself cuts nobody: without a signal, no connection it
\* accepted before the drain began is still served, refused or aborted in it,
\* whichever Goodbye or idle check decided.
SelfExitCutsNobody == draining /\ sig = "none" => early = {}

\* A request whose delivery report has arrived is answered before run returns,
\* unless drain_timeout expired: no drain path drops a task.
AckedIsAnswered == lost => drain_expired

\* Nothing is accepted behind the back of the flush: from then on no task
\* exists, and a message is left unsent at exit only if drain_timeout expired
\* and, besides, the flush did too or a new registration of the cluster had
\* replaced the producer that holds it.
FlushIsLast ==
    /\ phase \in {"flush", "unlink", "exited"} => InSet = {}
    /\ phase \in {"unlink", "exited"} /\ queued # {} =>
          drain_expired /\ (flush_expired \/ queued \subseteq stale)

\* Told to stop, the worker stops: a start_draining between the check of
\* wait_draining and its notified() is not lost, since the idle check wakes
\* the loop, and no connection holds the drain for ever.
DrainCompletes == draining ~> phase = "exited"

\* Left alone, the worker ends itself: subscriptions of processes that died
\* without a goodbye do not keep it.
IdleExits == <>[](\A c \in Conn : net[c] # "open") => <>(phase = "exited")

==============================================================================
