---------------------------- MODULE ConsumerSub ----------------------------
(***************************************************************************)
(* One subscription of the worker's KafkaConsumer                          *)
(* (worker/src/consumer/real.rs): the stream loop that fills the buffer,   *)
(* the long-polling readers that drain it, the automatic pause and resume  *)
(* of the fetcher, the explicit pause / resume / seek calls, commit,       *)
(* unsubscribe and the rebalances of librdkafka.                           *)
(*                                                                         *)
(* A step is what runs without another thread being able to observe it:    *)
(* one critical section of the buffer mutex, one atomic access, one call   *)
(* into librdkafka.  Payloads are reduced to their size.  librdkafka       *)
(* (assignment, paused partitions, positions, stored and committed         *)
(* offsets) is external and modelled from how real.rs uses it.             *)
(***************************************************************************)
EXTENDS Integers, Sequences, FiniteSets, SequencesExt, FiniteSetsExt

CONSTANTS
    Partition,            \* (topic, partition) pairs
    Poller,               \* concurrent poll() calls
    Caller,               \* concurrent pause() / resume() / seek() calls
    JobId,                \* bound: auto-pause / auto-resume jobs in flight
    LogSize,              \* LogSize[p]: message_bytes of each offset of p's log
    MaxFetch,             \* bound: messages the stream yields
    MaxMessages,          \* the max_messages arguments poll() is called with
    SeekOffsets,          \* the offsets seeks resolve to
    MaxSeeks,             \* bound: seeks of one partition
    Assignments,          \* the assignments a rebalance may hand out
    FlowTargets,          \* the partition lists pause() / resume() receive
    GroupOps,             \* which of "commit", "unsubscribe", "rebalance" occur
    RdFails,              \* whether librdkafka control calls may fail
    BufferCapacity, PauseAt, ResumeAt,
    BufferBytesCapacity, PauseAtBytes, ResumeAtBytes,
    MaxConsecutiveErrors, \* MAX_CONSECUTIVE_ERRORS (60 in the code)
    MaxQueue              \* MAX_QUEUE of the rebalance events (1024 in the code)

ASSUME LogAssumption ==
    /\ LogSize \in [Partition -> Seq(Nat)]
    /\ SeekOffsets \subseteq Nat \ {0}
    /\ Assignments \subseteq SUBSET Partition
    /\ FlowTargets \subseteq SUBSET Partition
    /\ GroupOps \subseteq {"commit", "unsubscribe", "rebalance"}

ASSUME BoundAssumption ==
    /\ MaxFetch \in Nat /\ MaxSeeks \in Nat
    /\ MaxMessages \subseteq Nat
    /\ MaxConsecutiveErrors \in Nat \ {0}
    /\ MaxQueue \in Nat \ {0}
    /\ JobId \subseteq Nat
    /\ RdFails \in BOOLEAN

ASSUME CapacityAssumption ==
    /\ BufferCapacity \in Nat
    /\ PauseAt \in Nat /\ ResumeAt \in Nat
    /\ BufferBytesCapacity \in Nat
    /\ PauseAtBytes \in Nat /\ ResumeAtBytes \in Nat

VARIABLES
    \* SubscriptionState and the subscriptions map
    buffer, buffer_bytes, paused, user_paused, terminated, registered,
    \* the stream_loop task
    spc, hand, slen, sbytes, consecutive_errors, aborted,
    \* the poll() calls
    ppc, pmax, plen, pbytes, woken,
    \* blocking jobs and control calls
    jobs, call,
    \* librdkafka, with the rebalance whose callbacks run; the queue of
    \* rebalance events and, as history while the queue is empty, the
    \* assignments that agree with the last event fetched
    assignment, rebalance, rd_paused, position, stored, committed, gen,
    events, view,
    \* history: what became of every message pushed into the buffer
    pushed, handed, dropped

bufVars  == <<buffer, buffer_bytes, pushed, handed, dropped>>
ctlVars  == <<paused, user_paused, terminated, registered, aborted>>
strVars  == <<spc, hand, slen, sbytes, consecutive_errors>>
pollVars == <<ppc, pmax, plen, pbytes, woken>>
jobVars  == <<jobs, call>>
evVars   == <<events, view>>
rdVars   == <<assignment, rebalance, rd_paused, position, stored, committed, gen,
              evVars>>
vars     == <<bufVars, ctlVars, strVars, pollVars, jobVars, rdVars>>

----------------------------------------------------------------------------
(* A message: where it comes from, its message_bytes, the seek generation  *)
(* it was fetched in and its arrival number (history).                     *)
Message == [tp : Partition, off : Nat, bytes : Nat, gen : Nat, n : Nat]

NoMessage == [n |-> 0]

\* The message_bytes of a sequence of messages, added up from the front.
Bytes(s) ==
    LET sum[i \in 0 .. Len(s)] == IF i = 0 THEN 0 ELSE sum[i - 1] + s[i].bytes
    IN  sum[Len(s)]

Idle == [op |-> "idle", tpl |-> {}]

NoJob == [kind |-> "none", tpl |-> {}]

Init ==
    /\ buffer = <<>> /\ buffer_bytes = 0
    /\ paused = FALSE /\ user_paused = {}
    /\ terminated = FALSE /\ registered = TRUE /\ aborted = FALSE
    /\ spc = "next" /\ hand = NoMessage /\ slen = 0 /\ sbytes = 0
    /\ consecutive_errors = 0
    /\ ppc = [p \in Poller |-> "idle"]
    /\ pmax = [p \in Poller |-> 0]
    /\ plen = [p \in Poller |-> 0]
    /\ pbytes = [p \in Poller |-> 0]
    /\ woken = {}
    /\ jobs = [j \in JobId |-> NoJob]
    /\ call = [c \in Caller |-> Idle]
    /\ assignment = {} /\ rebalance = "none" /\ events = <<>> /\ view = {{}}
    /\ rd_paused = {}
    /\ position = [t \in Partition |-> 1]
    /\ stored = [t \in Partition |-> 1]
    /\ committed = [t \in Partition |-> 1]
    /\ gen = [t \in Partition |-> 0]
    /\ pushed = 0 /\ handed = {} /\ dropped = {}

----------------------------------------------------------------------------
(* Blocking jobs and the Notify                                            *)

FreeJobs == {j \in JobId : jobs[j] = NoJob}

\* tokio::task::spawn_blocking: the job runs at any later time, in any order.
Spawn(kind) ==
    /\ FreeJobs # {}
    /\ jobs' = [jobs EXCEPT ![Min(FreeJobs)] = [kind |-> kind, tpl |-> {}]]

\* Notify::notify_waiters wakes the futures that exist now and no later one.
NotifyWaiters == woken' = woken \cup {p \in Poller : ppc[p] = "wait"}

\* SubscriptionState leaves the map: the task is aborted at its next await.
Detach == registered' = FALSE /\ aborted' = TRUE

----------------------------------------------------------------------------
(* stream_loop                                                             *)

\* stream.next() yields a message: librdkafka advances the position and,
\* enable.auto.offset.store being on, stores the offset for the next commit.
\* The rebalance callbacks run inside a poll of librdkafka, which yields
\* nothing before they return.
StreamFetch(t) ==
    /\ spc = "next" /\ rebalance = "none" /\ pushed < MaxFetch
    /\ t \in assignment \ rd_paused
    /\ position[t] \in DOMAIN LogSize[t]
    /\ hand' = [tp |-> t, off |-> position[t], bytes |-> LogSize[t][position[t]],
                gen |-> gen[t], n |-> pushed + 1]
    /\ position' = [position EXCEPT ![t] = @ + 1]
    /\ stored' = [stored EXCEPT ![t] = position[t] + 1]
    /\ consecutive_errors' = 0
    /\ spc' = "have"
    /\ UNCHANGED <<bufVars, ctlVars, slen, sbytes, pollVars, jobVars,
                   assignment, rebalance, rd_paused, committed, gen, evVars>>

\* Mutant: the limit is off by one.
CountOverflow_Late == Len(buffer) > BufferCapacity

\* The count limit of the overflow branch.
CountOverflow == Len(buffer) >= BufferCapacity

BytesOverflow ==
    /\ BufferBytesCapacity > 0
    /\ buffer_bytes + hand.bytes > BufferBytesCapacity

\* What the overflow branch leaves of the buffer: at most one message, the
\* oldest, is popped.
Kept == IF (CountOverflow \/ BytesOverflow) /\ buffer # <<>>
        THEN Tail(buffer) ELSE buffer

\* Mutant: the message goes to the wrong end of the VecDeque.
StreamPush_Front ==
    /\ spc = "have"
    /\ buffer' = <<hand>> \o Kept
    /\ buffer_bytes' = buffer_bytes - Bytes(SubSeq(buffer, 1, Len(buffer) - Len(Kept)))
                       + hand.bytes
    /\ dropped' = dropped \cup (IF Kept = buffer THEN {} ELSE {Head(buffer)})
    /\ pushed' = pushed + 1
    /\ slen' = Len(buffer') /\ sbytes' = buffer_bytes'
    /\ hand' = NoMessage
    /\ spc' = "notify"
    /\ UNCHANGED <<handed, ctlVars, consecutive_errors, pollVars, jobVars, rdVars>>

\* Mutant: the overflow branch forgets the fetch_sub of what it pops.
StreamPush_ForgetsDrop ==
    /\ spc = "have"
    /\ buffer' = Append(Kept, hand)
    /\ buffer_bytes' = buffer_bytes + hand.bytes
    /\ dropped' = dropped \cup (IF Kept = buffer THEN {} ELSE {Head(buffer)})
    /\ pushed' = pushed + 1
    /\ slen' = Len(buffer') /\ sbytes' = buffer_bytes'
    /\ hand' = NoMessage
    /\ spc' = "notify"
    /\ UNCHANGED <<handed, ctlVars, consecutive_errors, pollVars, jobVars, rdVars>>

\* The critical section of the buffer mutex.
StreamPush ==
    /\ spc = "have"
    /\ buffer' = Append(Kept, hand)
    /\ buffer_bytes' = buffer_bytes - Bytes(SubSeq(buffer, 1, Len(buffer) - Len(Kept)))
                       + hand.bytes
    /\ dropped' = dropped \cup (IF Kept = buffer THEN {} ELSE {Head(buffer)})
    /\ pushed' = pushed + 1
    /\ slen' = Len(buffer') /\ sbytes' = buffer_bytes'
    /\ hand' = NoMessage
    /\ spc' = "notify"
    /\ UNCHANGED <<handed, ctlVars, consecutive_errors, pollVars, jobVars, rdVars>>

StreamNotify ==
    /\ spc = "notify"
    /\ NotifyWaiters
    /\ spc' = "pause"
    /\ UNCHANGED <<bufVars, ctlVars, hand, slen, sbytes, consecutive_errors,
                   ppc, pmax, plen, pbytes, jobVars, rdVars>>

PauseTrip(len, bytes) ==
    \/ PauseAt > 0 /\ len >= PauseAt
    \/ PauseAtBytes > 0 /\ bytes >= PauseAtBytes

\* maybe_pause, on the lengths read inside the critical section.
StreamMaybePause ==
    /\ spc = "pause"
    /\ IF PauseTrip(slen, sbytes) /\ ~paused
       THEN paused' = TRUE /\ Spawn("pause")
       ELSE UNCHANGED <<paused, jobs>>
    /\ slen' = 0 /\ sbytes' = 0
    /\ spc' = "next"
    /\ UNCHANGED <<bufVars, user_paused, terminated, registered, aborted, hand,
                   consecutive_errors, pollVars, call, rdVars>>

\* Mutant: the errors are counted and not limited.
StreamError_NoLimit(fatal) ==
    /\ spc = "next"
    /\ consecutive_errors' = consecutive_errors + 1
    /\ spc' = IF fatal THEN "mark" ELSE "backoff"
    /\ UNCHANGED <<bufVars, ctlVars, hand, slen, sbytes, pollVars, jobVars, rdVars>>

\* stream.next() yields an error: fatal, or one too many, ends the loop.
StreamError(fatal) ==
    /\ spc = "next"
    /\ consecutive_errors' = consecutive_errors + 1
    /\ spc' = IF fatal \/ consecutive_errors' >= MaxConsecutiveErrors
              THEN "mark" ELSE "backoff"
    /\ UNCHANGED <<bufVars, ctlVars, hand, slen, sbytes, pollVars, jobVars, rdVars>>

StreamBackoff ==
    /\ spc = "backoff"
    /\ spc' = "next"
    /\ UNCHANGED <<bufVars, ctlVars, hand, slen, sbytes, consecutive_errors,
                   pollVars, jobVars, rdVars>>

\* stream.next() yields None.
StreamEnd ==
    /\ spc = "next"
    /\ spc' = "mark"
    /\ UNCHANGED <<bufVars, ctlVars, hand, slen, sbytes, consecutive_errors,
                   pollVars, jobVars, rdVars>>

\* mark_terminated: the store of the flag, then the wake-up.
MarkTerminated ==
    /\ spc = "mark"
    /\ terminated' = TRUE
    /\ spc' = "marknotify"
    /\ UNCHANGED <<bufVars, paused, user_paused, registered, aborted, hand, slen,
                   sbytes, consecutive_errors, pollVars, jobVars, rdVars>>

MarkNotify ==
    /\ spc = "marknotify"
    /\ NotifyWaiters
    /\ spc' = "done"
    /\ UNCHANGED <<bufVars, ctlVars, hand, slen, sbytes, consecutive_errors,
                   ppc, pmax, plen, pbytes, jobVars, rdVars>>

\* task.abort() takes effect at an await: next(), lock(), sleep().
StreamAborted ==
    /\ aborted /\ spc \in {"next", "have", "backoff"}
    /\ hand' = NoMessage
    /\ spc' = "done"
    /\ UNCHANGED <<bufVars, ctlVars, slen, sbytes, consecutive_errors,
                   pollVars, jobVars, rdVars>>

----------------------------------------------------------------------------
(* poll                                                                    *)

\* The call finds the subscription in the map and clones its Arc.
PollStart(p, max) ==
    /\ ppc[p] = "idle" /\ registered
    /\ ppc' = [ppc EXCEPT ![p] = "check"]
    /\ pmax' = [pmax EXCEPT ![p] = max]
    /\ UNCHANGED <<bufVars, ctlVars, strVars, plen, pbytes, woken, jobVars, rdVars>>

\* The subscription is not in the map: NotFound at once.
PollNotFound(p) ==
    /\ ppc[p] = "idle" /\ ~registered
    /\ UNCHANGED vars

\* Mutant: the last message of the batch stays in the buffer.
PollDrain_KeepsLast(p) ==
    /\ ppc[p] = "check" /\ buffer # <<>>
    /\ \E take \in {Min({pmax[p], Len(buffer)})} :
         /\ buffer' = SubSeq(buffer, take, Len(buffer))
         /\ buffer_bytes' = buffer_bytes - Bytes(SubSeq(buffer, 1, take - 1))
         /\ handed' = handed \cup {buffer[i] : i \in 1 .. take}
    /\ plen' = [plen EXCEPT ![p] = Len(buffer')]
    /\ pbytes' = [pbytes EXCEPT ![p] = buffer_bytes']
    /\ ppc' = [ppc EXCEPT ![p] = "resume"]
    /\ UNCHANGED <<pushed, dropped, ctlVars, strVars, pmax, woken, jobVars, rdVars>>

\* Mutant: the batch is split off the wrong end of the VecDeque.
PollDrain_Newest(p) ==
    /\ ppc[p] = "check" /\ buffer # <<>>
    /\ \E keep \in {Len(buffer) - Min({pmax[p], Len(buffer)})} :
         /\ buffer' = SubSeq(buffer, 1, keep)
         /\ buffer_bytes' = Bytes(buffer')
         /\ handed' = handed \cup {buffer[i] : i \in keep + 1 .. Len(buffer)}
    /\ plen' = [plen EXCEPT ![p] = Len(buffer')]
    /\ pbytes' = [pbytes EXCEPT ![p] = buffer_bytes']
    /\ ppc' = [ppc EXCEPT ![p] = "resume"]
    /\ UNCHANGED <<pushed, dropped, ctlVars, strVars, pmax, woken, jobVars, rdVars>>

\* The critical section of the buffer mutex, buffer not empty.
PollDrain(p) ==
    /\ ppc[p] = "check" /\ buffer # <<>>
    /\ \E take \in {Min({pmax[p], Len(buffer)})} :
         /\ buffer' = SubSeq(buffer, take + 1, Len(buffer))
         /\ buffer_bytes' = buffer_bytes - Bytes(SubSeq(buffer, 1, take))
         /\ handed' = handed \cup {buffer[i] : i \in 1 .. take}
    /\ plen' = [plen EXCEPT ![p] = Len(buffer')]
    /\ pbytes' = [pbytes EXCEPT ![p] = buffer_bytes']
    /\ ppc' = [ppc EXCEPT ![p] = "resume"]
    /\ UNCHANGED <<pushed, dropped, ctlVars, strVars, pmax, woken, jobVars, rdVars>>

PollFoundEmpty(p) ==
    /\ ppc[p] = "check" /\ buffer = <<>>
    /\ ppc' = [ppc EXCEPT ![p] = "term"]
    /\ UNCHANGED <<bufVars, ctlVars, strVars, pmax, plen, pbytes, woken, jobVars, rdVars>>

\* The call returns; its local state is gone.
Return(p) ==
    /\ ppc' = [ppc EXCEPT ![p] = "idle"]
    /\ pmax' = [pmax EXCEPT ![p] = 0]
    /\ plen' = [plen EXCEPT ![p] = 0]
    /\ pbytes' = [pbytes EXCEPT ![p] = 0]
    /\ woken' = woken \ {p}

ResumeLevel(len, bytes) == len <= ResumeAt /\ bytes <= ResumeAtBytes

\* maybe_resume, on the lengths read inside the critical section; the batch
\* is returned.
PollMaybeResume(p) ==
    /\ ppc[p] = "resume"
    /\ IF ResumeLevel(plen[p], pbytes[p]) /\ paused
       THEN paused' = FALSE /\ Spawn("resume")
       ELSE UNCHANGED <<paused, jobs>>
    /\ Return(p)
    /\ UNCHANGED <<bufVars, user_paused, terminated, registered, aborted,
                   strVars, call, rdVars>>

\* Mutant: the dead subscription stays in the map and poll answers empty.
PollTerminated_Silent(p) ==
    /\ ppc[p] = "term" /\ terminated
    /\ Return(p)
    /\ UNCHANGED <<bufVars, ctlVars, strVars, jobVars, rdVars>>

\* terminated is set: the dead subscription is removed, NotFound returned.
PollTerminated(p) ==
    /\ ppc[p] = "term" /\ terminated
    /\ Detach
    /\ Return(p)
    /\ UNCHANGED <<bufVars, paused, user_paused, terminated, strVars, jobVars, rdVars>>

\* terminated is not set; timeout_ms is 0 or the deadline has passed: an
\* empty batch.
PollEmpty(p) ==
    /\ ppc[p] = "term" /\ ~terminated
    /\ Return(p)
    /\ UNCHANGED <<bufVars, ctlVars, strVars, jobVars, rdVars>>

\* terminated was not set and there is time left: the call goes on to create
\* the Notified future, which is a later step.
PollNotTerminated(p) ==
    /\ ppc[p] = "term" /\ ~terminated
    /\ ppc' = [ppc EXCEPT ![p] = "arm"]
    /\ UNCHANGED <<bufVars, ctlVars, strVars, pmax, plen, pbytes, woken, jobVars, rdVars>>

PollArm(p) ==
    /\ ppc[p] = "arm"
    /\ ppc' = [ppc EXCEPT ![p] = "wait"]
    /\ woken' = woken \ {p}
    /\ UNCHANGED <<bufVars, ctlVars, strVars, pmax, plen, pbytes, jobVars, rdVars>>

PollWoken(p) ==
    /\ ppc[p] = "wait" /\ p \in woken
    /\ ppc' = [ppc EXCEPT ![p] = "check"]
    /\ woken' = woken \ {p}
    /\ UNCHANGED <<bufVars, ctlVars, strVars, pmax, plen, pbytes, jobVars, rdVars>>

\* Mutant: at the deadline the call goes back to wait for a wake-up.
PollTimeout_WaitsOn(p) ==
    /\ ppc[p] = "wait"
    /\ UNCHANGED vars

\* The sleep branch of the select: an empty batch.
PollTimeout(p) ==
    /\ ppc[p] = "wait"
    /\ Return(p)
    /\ UNCHANGED <<bufVars, ctlVars, strVars, jobVars, rdVars>>

----------------------------------------------------------------------------
(* The jobs of maybe_pause and maybe_resume                                *)

\* assignment(), then the call into librdkafka on what it returned: a
\* rebalance may come in between.
AutoPauseRead(j) ==
    /\ jobs[j].kind = "pause"
    /\ jobs' = [jobs EXCEPT ![j] = [kind |-> "pausing", tpl |-> assignment]]
    /\ UNCHANGED <<bufVars, ctlVars, strVars, pollVars, call, rdVars>>

AutoPauseCall(j) ==
    /\ jobs[j].kind = "pausing"
    /\ rd_paused' = rd_paused \cup (jobs[j].tpl \cap assignment)
    /\ jobs' = [jobs EXCEPT ![j] = NoJob]
    /\ UNCHANGED <<bufVars, ctlVars, strVars, pollVars, call, assignment,
                   rebalance, position, stored, committed, gen, evVars>>

\* assignment() and the read of user_paused under its mutex, released before
\* the call into librdkafka.  Nothing left to resume ends the job.
AutoResumeRead(j) ==
    /\ jobs[j].kind = "resume"
    /\ jobs' = [jobs EXCEPT ![j] = IF assignment \subseteq user_paused THEN NoJob
                  ELSE [kind |-> "resuming", tpl |-> assignment \ user_paused]]
    /\ UNCHANGED <<bufVars, ctlVars, strVars, pollVars, call, rdVars>>

AutoResumeCall(j) ==
    /\ jobs[j].kind = "resuming"
    /\ rd_paused' = rd_paused \ jobs[j].tpl
    /\ jobs' = [jobs EXCEPT ![j] = NoJob]
    /\ UNCHANGED <<bufVars, ctlVars, strVars, pollVars, call, assignment,
                   rebalance, position, stored, committed, gen, evVars>>

\* assignment(), pause() or resume() fails: a warning, and paused stays as is.
JobFails(j) ==
    /\ RdFails /\ jobs[j].kind # "none"
    /\ jobs' = [jobs EXCEPT ![j] = NoJob]
    /\ UNCHANGED <<bufVars, ctlVars, strVars, pollVars, call, rdVars>>

----------------------------------------------------------------------------
(* pause(), resume(), seek, commit, unsubscribe                            *)

\* flow_control up to the call: an empty list stands for the assignment.
FlowStart(c, op, parts) ==
    /\ call[c] = Idle /\ registered
    /\ call' = [call EXCEPT ![c] =
                  [op |-> op, tpl |-> IF parts = {} THEN assignment ELSE parts]]
    /\ UNCHANGED <<bufVars, ctlVars, strVars, pollVars, jobs, rdVars>>

FlowCall(c) ==
    /\ call[c].op \in {"pause", "resume"}
    /\ IF call[c].op = "pause"
       THEN /\ rd_paused' = rd_paused \cup (call[c].tpl \cap assignment)
            /\ call' = [call EXCEPT ![c] = [op |-> "paused", tpl |-> call[c].tpl]]
       ELSE /\ rd_paused' = rd_paused \ call[c].tpl
            /\ call' = [call EXCEPT ![c] = [op |-> "resumed", tpl |-> call[c].tpl]]
    /\ UNCHANGED <<bufVars, ctlVars, strVars, pollVars, jobs, assignment,
                   rebalance, position, stored, committed, gen, evVars>>

FlowRecord(c) ==
    /\ call[c].op \in {"paused", "resumed"}
    /\ user_paused' = IF call[c].op = "paused" THEN user_paused \cup call[c].tpl
                      ELSE user_paused \ call[c].tpl
    /\ call' = [call EXCEPT ![c] = Idle]
    /\ UNCHANGED <<bufVars, paused, terminated, registered, aborted, strVars,
                   pollVars, jobs, rdVars>>

\* A librdkafka call fails (a seek always does on a partition that is not
\* assigned): flow_control and the seeks return the error at once and leave
\* what they already did.
CallFails(c) ==
    /\ \/ RdFails /\ call[c].op \in {"pause", "resume", "seek"}
       \/ call[c].op = "seek" /\ ~(call[c].tpl \subseteq assignment)
    /\ call' = [call EXCEPT ![c] = Idle]
    /\ UNCHANGED <<bufVars, ctlVars, strVars, pollVars, jobs, rdVars>>

\* seek_by_offset and seek_by_timestamp: the partitions to seek, one by one.
\* A timestamp search given no partition takes the assignment and fails if it
\* is empty; the partitions it does not resolve are skipped.
SeekStart(c, parts) ==
    /\ call[c] = Idle /\ registered
    /\ \E tpl \in {IF parts = {} THEN assignment ELSE parts} :
         /\ tpl # {}
         /\ \A t \in tpl : gen[t] < MaxSeeks
         /\ call' = [call EXCEPT ![c] = [op |-> "seek", tpl |-> tpl]]
    /\ UNCHANGED <<bufVars, ctlVars, strVars, pollVars, jobs, rdVars>>

\* consumer.seek of one partition; the buffer is not touched.
SeekOne(c, t, off) ==
    /\ call[c].op = "seek" /\ t \in call[c].tpl \cap assignment
    /\ position' = [position EXCEPT ![t] = off]
    /\ gen' = [gen EXCEPT ![t] = @ + 1]
    /\ call' = [call EXCEPT ![c] = IF call[c].tpl = {t} THEN Idle
                  ELSE [op |-> "seek", tpl |-> call[c].tpl \ {t}]]
    /\ UNCHANGED <<bufVars, ctlVars, strVars, pollVars, jobs, assignment,
                   rebalance, rd_paused, stored, committed, evVars>>

\* commit_consumer_state commits the stored offsets of the assignment.
Commit ==
    /\ registered /\ "commit" \in GroupOps
    /\ committed' = [t \in Partition |->
                       IF t \in assignment THEN stored[t] ELSE committed[t]]
    /\ UNCHANGED <<bufVars, ctlVars, strVars, pollVars, jobVars, assignment,
                   rebalance, rd_paused, position, stored, gen, evVars>>

Unsubscribe ==
    /\ registered /\ "unsubscribe" \in GroupOps
    /\ Detach
    /\ UNCHANGED <<bufVars, paused, user_paused, terminated, strVars, pollVars,
                   jobVars, rdVars>>

----------------------------------------------------------------------------
(* Rebalances: librdkafka revokes the old assignment and starts a new one  *)
(* from the committed offsets (external, eager protocol; whether a pause   *)
(* outlives the revocation is its choice).  The callbacks of RebalanceCtx  *)
(* queue an event for PHP before or after librdkafka moves the partitions; *)
(* rebalance tells of what is between the two, where everything else may   *)
(* run.                                                                    *)

Event == [kind : {"assign", "revoke", "error"}, tps : SUBSET Partition]

\* Mutant: a full queue refuses the new event.
Push_DropsNewest(q, e) == IF Len(q) >= MaxQueue THEN q ELSE Append(q, e)

\* RebalanceCtx::push: a full queue loses its oldest event.
Push(q, e) == Append(IF Len(q) >= MaxQueue THEN Tail(q) ELSE q, e)

\* The assignments that agree with the last event read: an Assign is the
\* whole assignment, after an error it may be anything.
Tells(e) ==
    {a \in SUBSET Partition : \/ e.kind = "assign" /\ a = e.tps
                              \/ e.kind = "revoke" /\ a = {}
                              \/ e.kind = "error"}

\* pre_rebalance queues the Revoke; the partitions are still there.
Revoke ==
    /\ registered /\ "rebalance" \in GroupOps
    /\ rebalance = "none" /\ assignment # {}
    /\ rebalance' = "revoking"
    /\ events' = Push(events, [kind |-> "revoke", tps |-> assignment])
    /\ view' = {}
    /\ UNCHANGED <<bufVars, ctlVars, strVars, pollVars, jobVars, assignment,
                   rd_paused, position, stored, committed, gen>>

\* librdkafka unassigns; post_rebalance has nothing to queue.
Revoked ==
    /\ rebalance = "revoking"
    /\ rebalance' = "none"
    /\ assignment' = {}
    /\ rd_paused' \in {rd_paused, {}}
    /\ UNCHANGED <<bufVars, ctlVars, strVars, pollVars, jobVars, position,
                   stored, committed, gen, evVars>>

\* Mutant: both callbacks queue the Assign.
Assign_QueuesBefore(new) ==
    /\ registered /\ rebalance = "none" /\ assignment = {} /\ new # {}
    /\ rebalance' = "assigning"
    /\ assignment' = new
    /\ events' = Push(events, [kind |-> "assign", tps |-> new])
    /\ view' = {}
    /\ position' = [t \in Partition |-> IF t \in new THEN committed[t] ELSE position[t]]
    /\ stored' = [t \in Partition |-> IF t \in new THEN committed[t] ELSE stored[t]]
    /\ UNCHANGED <<bufVars, ctlVars, strVars, pollVars, jobVars, rd_paused,
                   committed, gen>>

\* pre_rebalance has nothing to queue; librdkafka assigns.
Assign(new) ==
    /\ registered /\ rebalance = "none" /\ assignment = {} /\ new # {}
    /\ rebalance' = "assigning"
    /\ assignment' = new
    /\ position' = [t \in Partition |-> IF t \in new THEN committed[t] ELSE position[t]]
    /\ stored' = [t \in Partition |-> IF t \in new THEN committed[t] ELSE stored[t]]
    /\ UNCHANGED <<bufVars, ctlVars, strVars, pollVars, jobVars, rd_paused,
                   committed, gen, evVars>>

\* post_rebalance queues the Assign.
Assigned ==
    /\ rebalance = "assigning"
    /\ rebalance' = "none"
    /\ events' = Push(events, [kind |-> "assign", tps |-> assignment])
    /\ view' = {}
    /\ UNCHANGED <<bufVars, ctlVars, strVars, pollVars, jobVars, assignment,
                   rd_paused, position, stored, committed, gen>>

\* A rebalance fails: both callbacks queue an Error, and in between
\* librdkafka keeps or drops the assignment.
RebalanceError ==
    /\ registered /\ "rebalance" \in GroupOps /\ rebalance = "none"
    /\ rebalance' = "failing"
    /\ events' = Push(events, [kind |-> "error", tps |-> {}])
    /\ view' = {}
    /\ assignment' \in {assignment, {}}
    /\ UNCHANGED <<bufVars, ctlVars, strVars, pollVars, jobVars, rd_paused,
                   position, stored, committed, gen>>

RebalanceFailed ==
    /\ rebalance = "failing"
    /\ rebalance' = "none"
    /\ events' = Push(events, [kind |-> "error", tps |-> {}])
    /\ view' = {}
    /\ UNCHANGED <<bufVars, ctlVars, strVars, pollVars, jobVars, assignment,
                   rd_paused, position, stored, committed, gen>>

\* fetch_rebalance_events.
FetchEvents(max) ==
    /\ registered /\ "rebalance" \in GroupOps
    /\ \E take \in {Min({max, Len(events)})} :
         /\ take > 0
         /\ events' = SubSeq(events, take + 1, Len(events))
         /\ view' = IF events' = <<>> THEN Tells(events[take]) ELSE {}
    /\ UNCHANGED <<bufVars, ctlVars, strVars, pollVars, jobVars, assignment,
                   rebalance, rd_paused, position, stored, committed, gen>>

----------------------------------------------------------------------------
Stream ==
    \/ \E t \in Partition : StreamFetch(t)
    \/ StreamPush \/ StreamNotify \/ StreamMaybePause
    \/ \E fatal \in BOOLEAN : StreamError(fatal)
    \/ StreamBackoff \/ StreamEnd \/ MarkTerminated \/ MarkNotify
    \/ StreamAborted

Poll(p) ==
    \/ \E max \in MaxMessages : PollStart(p, max)
    \/ PollNotFound(p)
    \/ PollDrain(p) \/ PollFoundEmpty(p) \/ PollMaybeResume(p)
    \/ PollTerminated(p) \/ PollEmpty(p) \/ PollNotTerminated(p)
    \/ PollArm(p) \/ PollWoken(p) \/ PollTimeout(p)

Job(j) ==
    \/ AutoPauseRead(j) \/ AutoPauseCall(j)
    \/ AutoResumeRead(j) \/ AutoResumeCall(j) \/ JobFails(j)

Control(c) ==
    \/ \E op \in {"pause", "resume"}, parts \in FlowTargets : FlowStart(c, op, parts)
    \/ FlowCall(c) \/ FlowRecord(c) \/ CallFails(c)
    \/ SeekOffsets # {} /\ \E parts \in SUBSET Partition : SeekStart(c, parts)
    \/ \E t \in Partition, off \in SeekOffsets : SeekOne(c, t, off)

Group ==
    \/ Commit \/ Unsubscribe \/ Revoke \/ Revoked
    \/ \E new \in Assignments : Assign(new)
    \/ Assigned \/ RebalanceError \/ RebalanceFailed
    \/ \E max \in MaxMessages : FetchEvents(max)

Next ==
    \/ Stream
    \/ \E p \in Poller : Poll(p)
    \/ \E j \in JobId : Job(j)
    \/ \E c \in Caller : Control(c)
    \/ Group

Spec == Init /\ [][Next]_vars

\* The code's scheduling: the task and the blocking jobs run, a sleeping poll
\* times out and PHP polls again; StreamFetch, errors and the control calls
\* owe nothing.
FairSpec ==
    /\ Spec
    /\ \A p \in Poller : WF_vars(Poll(p))
    /\ WF_vars(StreamPush \/ StreamNotify \/ StreamMaybePause \/ StreamBackoff
               \/ MarkTerminated \/ MarkNotify)
    /\ \A j \in JobId : WF_vars(Job(j))

----------------------------------------------------------------------------
(* Properties                                                              *)

BufferType ==
    /\ buffer \in Seq(Message) /\ pushed \in Nat
    /\ handed \subseteq Message /\ dropped \subseteq Message

FlagType ==
    /\ paused \in BOOLEAN /\ terminated \in BOOLEAN
    /\ registered \in BOOLEAN /\ aborted \in BOOLEAN
    /\ user_paused \subseteq Partition

StreamType ==
    /\ spc \in {"next", "have", "notify", "pause", "backoff", "mark", "marknotify", "done"}
    /\ spc = "have" => hand \in Message
    /\ slen \in Nat /\ consecutive_errors \in 0 .. MaxConsecutiveErrors
    /\ spc \notin {"mark", "marknotify", "done"}
           => consecutive_errors < MaxConsecutiveErrors

PollType ==
    /\ ppc \in [Poller -> {"idle", "check", "resume", "term", "arm", "wait"}]
    /\ pmax \in [Poller -> Nat] /\ plen \in [Poller -> Nat]
    /\ woken \subseteq Poller

JobType ==
    /\ jobs \in [JobId -> [kind : {"none", "pause", "pausing", "resume", "resuming"},
                           tpl : SUBSET Partition]]
    /\ call \in [Caller -> [op : {"idle", "pause", "resume", "paused", "resumed", "seek"},
                            tpl : SUBSET Partition]]

RdType ==
    /\ assignment \subseteq Partition /\ rd_paused \subseteq Partition
    /\ rebalance \in {"none", "revoking", "assigning", "failing"}
    /\ position \in [Partition -> Nat \ {0}] /\ stored \in [Partition -> Nat \ {0}]
    /\ committed \in [Partition -> Nat \ {0}] /\ gen \in [Partition -> Nat]

EventType == events \in Seq(Event) /\ view \subseteq SUBSET Partition

TypeOK ==
    /\ BufferType /\ FlagType /\ StreamType /\ PollType
    /\ JobType /\ RdType /\ EventType

Numbers(S) == {m.n : m \in S}

\* Whatever polls, overflows and terminations interleave, every message the
\* stream loop pushed is in exactly one place: still buffered, in arrival
\* order and without a gap, returned by exactly one poll, or counted as
\* dropped by the overflow branch.
ExactlyOnce ==
    /\ \A i \in 1 .. Len(buffer) : buffer[i].n = pushed - Len(buffer) + i
    /\ Numbers(handed) \cup Numbers(dropped) = 1 .. pushed - Len(buffer)
    /\ Numbers(handed) \cap Numbers(dropped) = {}

\* The buffer never holds more messages than buffer_capacity: one pop per
\* push is enough for the count limit, which at 0 still lets one message in.
WithinCapacity == Len(buffer) <= IF BufferCapacity = 0 THEN 1 ELSE BufferCapacity

\* buffer_bytes is the exact size of the buffered messages: pushes, drains
\* and overflow pops all settle it (a usize that went below zero would wrap).
BytesExact == buffer_bytes = Bytes(buffer)

\* After a seek, what was fetched before it is never returned after what was
\* fetched from the target: the buffer keeps the fetch order of a partition,
\* so that a reader can tell where the old messages end.
SeekOrder ==
    \A i, j \in 1 .. Len(buffer) :
        i < j /\ buffer[i].tp = buffer[j].tp => buffer[i].gen <= buffer[j].gen

\* What PHP may take for its own.
Owned == IF rebalance = "none" THEN assignment ELSE {}

\* PHP never takes a partition for its own that librdkafka has taken away or
\* not yet given: the events still queued, or else the last one PHP has
\* fetched, tell the assignment, and tell of none while a rebalance moves it,
\* even after the queue has overrun its limit.
AssignmentKnown == Owned \in IF events = <<>> THEN view ELSE Tells(Last(events))

Promise == INSTANCE Delivery WITH
    arrived <- pushed, left <- pushed - Len(buffer),
    delivered <- Numbers(handed), lost <- Numbers(dropped)

\* The concurrent subscription implements Delivery: a batch is the run of the
\* oldest waiting messages and only an arrival drops one, the oldest, however
\* polls, pushes and the other threads interleave.
DeliversInOrder == Promise!DeliverySpec

\* A terminated subscription is reported: while PHP keeps polling, some poll
\* finds the flag, removes the subscription and answers NotFound, even when
\* the wake-up of mark_terminated was missed.
TerminationReported == terminated ~> ~registered

\* No message is stuck in the buffer: while PHP keeps polling, a pushed
\* message is returned or dropped, unless the subscription is removed, even
\* when the wake-up of the push was missed.
EventuallyHanded ==
    \A n \in 1 .. MaxFetch :
        pushed >= n ~> n \in Numbers(handed \cup dropped) \/ ~registered

----------------------------------------------------------------------------
(* What comments and documents say of the code, and the code does not keep *)

NoCall == \A c \in Caller : call[c] = Idle

\* No background job is queued and nobody is between reading the buffer and
\* acting on it.
Quiet ==
    /\ FreeJobs = JobId /\ NoCall /\ spc = "next" /\ rebalance = "none"
    /\ \A p \in Poller : ppc[p] # "resume"

\* "buffer.len() <= resume_at and currently paused: automatic resume".  Once
\* PHP has drained the buffer and the jobs have run, the fetcher runs: an
\* empty buffer and a paused fetcher would wait for each other.
FetcherResumed ==
    Quiet /\ registered /\ buffer = <<>>
        => assignment \cap rd_paused \subseteq user_paused

\* At-least-once: an offset that is committed has been returned by a poll, so
\* that what PHP never saw is delivered again after a resubscription.
CommittedWasHanded ==
    \A t \in Partition : \A o \in 1 .. committed[t] - 1 :
        \E m \in handed : m.tp = t /\ m.off = o

============================================================================
