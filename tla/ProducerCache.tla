---------------------------- MODULE ProducerCache ----------------------------
(***************************************************************************)
(* The producers of one cluster: the ClusterRegistry entry                 *)
(* (worker/src/cluster.rs), the cache of KafkaProducer with its OnceCell   *)
(* and its rebuild after an overwritten configuration, produce, flush and  *)
(* the transaction calls (worker/src/producer/real.rs), called by the      *)
(* connection tasks of several PHP clients.                                *)
(*                                                                         *)
(* A step ends where the code awaits.  A cell holds at most one producer,  *)
(* so a producer is named by its cell.  librdkafka and the broker's        *)
(* transaction coordinator are external: init_transactions fences every    *)
(* older producer with the transactional.id and aborts its transaction.    *)
(***************************************************************************)
EXTENDS Integers, FiniteSets

CONSTANTS
    Caller,       \* connection tasks that call the producer
    TxnCaller,    \* those that call begin / commit / abort / send_offsets
    MaxVersion,   \* bound: registrations of the cluster
    MaxCell       \* bound: cells created

ASSUME CacheAssumption ==
    /\ TxnCaller \subseteq Caller
    /\ MaxVersion \in Nat /\ MaxCell \in Nat \ {0}

ASSUME ClientsAssumption == IsFiniteSet(TxnCaller)

VARIABLES
    version,     \* ClusterEntry.version; 0 while the cluster is not registered
    config,      \* whether the registered configuration has a transactional.id
    table,       \* the cell in KafkaProducer.producers; 0 if there is none
    cell,        \* the cells created, and what they hold
    pc, op, mine,
    got,         \* the configuration build_entry has read
    queue,       \* producers with a message nobody waits for any more
    stage,       \* the worker serves, its tasks are gone, flush is over
    owner,       \* the producer with the current epoch of the transactional.id
    open, sent,  \* producers in a transaction; with something in it
    \* history
    since,       \* the version registered when the call began
    acked,       \* producers whose transaction holds messages of the caller
    torn,        \* messages acked since the caller's begin have been aborted
    lied         \* a commit has answered Ok for a torn transaction

regVars  == <<version, config>>
cellVars == <<table, cell>>
callVars == <<pc, op, mine, got>>
txnVars  == <<owner, open, sent>>
histVars == <<since, acked, torn, lied>>
vars == <<regVars, cellVars, callVars, queue, stage, txnVars, histVars>>

Cell == 1 .. MaxCell

Entry == [version : 1 .. MaxVersion, transactional : BOOLEAN]

NoEntry == [version |-> 0, transactional |-> FALSE]

\* No cell has been created under this number yet.
Unborn == [version |-> -1, transactional |-> FALSE]

Ops == {"produce", "begin", "commit", "abort", "offsets"}

Init ==
    /\ version = 0 /\ config = FALSE
    /\ table = 0 /\ cell = [k \in Cell |-> Unborn]
    /\ pc = [c \in Caller |-> "idle"] /\ op = [c \in Caller |-> "produce"]
    /\ mine = [c \in Caller |-> 0] /\ got = [c \in Caller |-> NoEntry]
    /\ queue = {} /\ stage = "serving"
    /\ owner = 0 /\ open = {} /\ sent = {}
    /\ since = [c \in Caller |-> 0]
    /\ acked = [c \in TxnCaller |-> {}] /\ torn = [c \in TxnCaller |-> FALSE]
    /\ lied = FALSE

Goto(c, l) == pc' = [pc EXCEPT ![c] = l]

Without(f, S, none) == [d \in Caller |-> IF d \in S THEN none ELSE f[d]]

\* The calls of the callers in S return: their local state is gone.
Return(S) ==
    /\ pc' = Without(pc, S, "idle") /\ op' = Without(op, S, "produce")
    /\ mine' = Without(mine, S, 0) /\ got' = Without(got, S, NoEntry)
    /\ since' = Without(since, S, 0)

----------------------------------------------------------------------------
(* ClusterRegistry                                                         *)

\* register: the version counts the overwrites.  (The code wraps a u64;
\* MaxVersion is far below.)
Register(txn) ==
    /\ version < MaxVersion /\ stage = "serving"
    /\ version' = version + 1 /\ config' = txn
    /\ UNCHANGED <<cellVars, callVars, queue, stage, txnVars, histVars>>

----------------------------------------------------------------------------
(* entry_for                                                               *)

\* An operation calls entry_for.
Call(c, o) ==
    /\ pc[c] = "idle" /\ stage = "serving"
    /\ o # "produce" => c \in TxnCaller
    /\ op' = [op EXCEPT ![c] = o]
    /\ since' = [since EXCEPT ![c] = version]
    /\ Goto(c, "read")
    /\ UNCHANGED <<regVars, cellVars, mine, got, queue, stage, txnVars, acked,
                   torn, lied>>

EntryFrame == UNCHANGED <<regVars, op, queue, stage, since, acked, torn, lied>>

\* The number of the next cell.
Born == {k \in Cell : cell[k] # Unborn}

NewCell == Cardinality(Born) + 1

\* cell_for under the read lock: the cell of the cluster, or the slow path.
ReadCell(c) ==
    /\ pc[c] = "read"
    /\ IF table = 0 THEN Goto(c, "insert") /\ UNCHANGED mine
       ELSE Goto(c, "init") /\ mine' = [mine EXCEPT ![c] = table]
    /\ EntryFrame /\ UNCHANGED <<cellVars, got, txnVars>>

\* Mutant: the slow path does not look again.
InsertCell_Blind(c) ==
    /\ pc[c] = "insert" /\ NewCell \in Cell
    /\ table' = NewCell
    /\ cell' = [cell EXCEPT ![NewCell] = NoEntry]
    /\ mine' = [mine EXCEPT ![c] = table']
    /\ Goto(c, "init")
    /\ EntryFrame /\ UNCHANGED <<got, txnVars>>

\* cell_for under the write lock: or_insert_with.
InsertCell(c) ==
    /\ pc[c] = "insert"
    /\ IF table # 0 THEN UNCHANGED cellVars
       ELSE /\ NewCell \in Cell
            /\ table' = NewCell
            /\ cell' = [cell EXCEPT ![NewCell] = NoEntry]
    /\ mine' = [mine EXCEPT ![c] = table']
    /\ Goto(c, "init")
    /\ EntryFrame /\ UNCHANGED <<got, txnVars>>

\* get_or_try_init on a full cell.
InitDone(c) ==
    /\ pc[c] = "init" /\ cell[mine[c]] # NoEntry
    /\ Goto(c, "compare")
    /\ EntryFrame /\ UNCHANGED <<cellVars, mine, got, txnVars>>

\* The permit of a cell: one caller at a time is in its build_entry.
Building(k) == \E d \in Caller : pc[d] = "build" /\ mine[d] = k

\* Mutant: an unknown cluster gets a producer.
InitBuilds_Unregistered(c) ==
    /\ pc[c] = "init" /\ cell[mine[c]] = NoEntry /\ ~Building(mine[c])
    /\ got' = [got EXCEPT ![c] = [version |-> version, transactional |-> config]]
    /\ Goto(c, "build")
    /\ UNCHANGED <<op, mine, since>>
    /\ UNCHANGED <<regVars, cellVars, queue, stage, txnVars, acked, torn, lied>>

\* get_or_try_init on an empty cell whose permit is free: build_entry reads
\* the configuration and its version together.  An unknown cluster is an
\* error, and an error is not cached.
InitBuilds(c) ==
    /\ pc[c] = "init" /\ cell[mine[c]] = NoEntry /\ ~Building(mine[c])
    /\ IF version = 0 THEN Return({c})
       ELSE /\ got' = [got EXCEPT ![c] = [version |-> version, transactional |-> config]]
            /\ Goto(c, "build")
            /\ UNCHANGED <<op, mine, since>>
    /\ UNCHANGED <<regVars, cellVars, queue, stage, txnVars, acked, torn, lied>>

\* A new epoch for k (0: of a producer that is then given up): the older
\* producer's transaction is aborted.
Fence(k) ==
    /\ owner' = k
    /\ torn' = [d \in TxnCaller |-> torn[d] \/ owner \in acked[d]]
    /\ acked' = [d \in TxnCaller |-> acked[d] \ {owner}]

\* Mutant: the entry is published under the version registered when the cell
\* was first used for this configuration, not the one read with it.
BuildDone_FirstVersion(c) ==
    /\ pc[c] = "build"
    /\ cell' = [cell EXCEPT ![mine[c]] = [got[c] EXCEPT !.version = 1]]
    /\ IF got[c].transactional THEN Fence(mine[c])
                               ELSE UNCHANGED <<owner, acked, torn>>
    /\ got' = [got EXCEPT ![c] = NoEntry]
    /\ Goto(c, "compare")
    /\ UNCHANGED <<regVars, op, queue, stage, since, lied, table, mine, open, sent>>

\* The client is created, init_transactions has answered; the cell is full.
BuildDone(c) ==
    /\ pc[c] = "build"
    /\ cell' = [cell EXCEPT ![mine[c]] = got[c]]
    /\ IF got[c].transactional THEN Fence(mine[c])
                               ELSE UNCHANGED <<owner, acked, torn>>
    /\ got' = [got EXCEPT ![c] = NoEntry]
    /\ Goto(c, "compare")
    /\ UNCHANGED <<regVars, op, queue, stage, since, lied, table, mine, open, sent>>

\* create_with_context or init_transactions fails; a timed out
\* init_transactions may have reached the coordinator.
BuildFails(c) ==
    /\ pc[c] = "build"
    /\ \/ UNCHANGED <<owner, acked, torn>>
       \/ got[c].transactional /\ Fence(0)
    /\ Return({c})
    /\ UNCHANGED <<regVars, queue, stage, lied, cellVars, open, sent>>

\* Mutant: the cached producer is used whatever its version.
Compare_Skipped(c) ==
    /\ pc[c] = "compare"
    /\ Goto(c, "use")
    /\ EntryFrame /\ UNCHANGED <<cellVars, mine, got, txnVars>>

\* The version of the entry against the registry's, now.
Compare(c) ==
    /\ pc[c] = "compare"
    /\ IF cell[mine[c]].version = version
       THEN Goto(c, "use") ELSE Goto(c, "replace")
    /\ EntryFrame /\ UNCHANGED <<cellVars, mine, got, txnVars>>

\* The cell of the table, whichever it is by now, is replaced by an empty one.
Replace(c) ==
    /\ pc[c] = "replace" /\ NewCell \in Cell
    /\ table' = NewCell
    /\ cell' = [cell EXCEPT ![NewCell] = NoEntry]
    /\ Goto(c, "read")
    /\ EntryFrame /\ UNCHANGED <<mine, got, txnVars>>

EntryFor(c) ==
    \/ ReadCell(c) \/ InsertCell(c) \/ InitDone(c) \/ InitBuilds(c)
    \/ BuildDone(c) \/ BuildFails(c) \/ Compare(c) \/ Replace(c)

----------------------------------------------------------------------------
(* The operations on the entry                                             *)

OpFrame == UNCHANGED <<regVars, cellVars, stage>>

Using(c, o) == pc[c] = "use" /\ op[c] = o

Transactional(c) == cell[mine[c]].transactional

\* The transaction of c's producer holds something of c.
AckedTo(c) ==
    [d \in TxnCaller |-> IF d = c THEN acked[d] \cup {mine[d]} ELSE acked[d]]

\* The call answers an error and changes nothing: the entry has no
\* transactional.id, or librdkafka refuses the call in this state.
Refused(c) ==
    /\ pc[c] = "use"
    /\ \/ op[c] = "produce" /\ Transactional(c) /\ mine[c] \notin open
       \/ op[c] = "begin" /\ (~Transactional(c) \/ mine[c] \in open)
       \/ op[c] \in {"commit", "abort", "offsets"} /\ mine[c] \notin open
    /\ Return({c})
    /\ OpFrame /\ UNCHANGED <<queue, txnVars, acked, torn, lied>>

\* producer.send with no time to wait for room: the message is queued.
Send(c) ==
    /\ Using(c, "produce")
    /\ Transactional(c) => mine[c] \in open
    /\ Goto(c, "sent")
    /\ OpFrame /\ UNCHANGED <<op, mine, got, since, queue, txnVars, acked, torn, lied>>

\* A positive delivery report.
Delivered(c) ==
    /\ pc[c] = "sent"
    /\ IF Transactional(c)
       THEN /\ mine[c] \in open /\ owner = mine[c]
            /\ acked' = AckedTo(c)
            /\ sent' = sent \cup {mine[c]}
       ELSE UNCHANGED <<acked, sent>>
    /\ Return({c})
    /\ OpFrame /\ UNCHANGED <<queue, owner, open, torn, lied>>

\* The queue is full, the message has timed out or its producer is fenced.
DeliveryFails(c) ==
    /\ pc[c] = "sent"
    /\ Return({c})
    /\ OpFrame /\ UNCHANGED <<queue, txnVars, acked, torn, lied>>

\* begin_transaction under txn_lock, which is held for this call only.
BeginTxn(c) ==
    /\ Using(c, "begin") /\ Transactional(c) /\ mine[c] \notin open
    /\ open' = open \cup {mine[c]}
    /\ acked' = [acked EXCEPT ![c] = {}]
    /\ torn' = [torn EXCEPT ![c] = FALSE]
    /\ Return({c})
    /\ OpFrame /\ UNCHANGED <<queue, owner, sent, lied>>

\* Messages on the way when a transaction ends.
InFlight(k) == {d \in Caller : pc[d] = "sent" /\ mine[d] = k}

\* Mutant: the lock-free commit answers Ok outside a transaction.
CommitOk_NoTxn(c) ==
    /\ Using(c, "commit") /\ Transactional(c)
    /\ InFlight(mine[c]) = {}
    /\ owner = mine[c] \/ mine[c] \notin sent
    /\ open' = open \ {mine[c]} /\ sent' = sent \ {mine[c]}
    /\ acked' = [d \in TxnCaller |-> acked[d] \ {mine[c]}]
    /\ lied' = (lied \/ torn[c] \/ acked'[c] # {})
    /\ Return({c})
    /\ OpFrame /\ UNCHANGED <<queue, owner, torn>>

\* commit_transaction, without the lock: librdkafka waits for the messages on
\* the way; an empty transaction is committed without the coordinator.
CommitOk(c) ==
    /\ Using(c, "commit") /\ mine[c] \in open
    /\ InFlight(mine[c]) = {}
    /\ owner = mine[c] \/ mine[c] \notin sent
    /\ open' = open \ {mine[c]} /\ sent' = sent \ {mine[c]}
    /\ acked' = [d \in TxnCaller |-> acked[d] \ {mine[c]}]
    /\ lied' = (lied \/ torn[c] \/ acked'[c] # {})
    /\ Return({c})
    /\ OpFrame /\ UNCHANGED <<queue, owner, torn>>

\* abort_transaction purges the messages on the way.
AbortOk(c) ==
    /\ Using(c, "abort") /\ mine[c] \in open
    /\ open' = open \ {mine[c]} /\ sent' = sent \ {mine[c]}
    /\ torn' = [d \in TxnCaller |-> torn[d] \/ mine[c] \in acked[d]]
    /\ acked' = [d \in TxnCaller |-> acked[d] \ {mine[c]}]
    /\ Return({c} \cup InFlight(mine[c]))
    /\ OpFrame /\ UNCHANGED <<queue, owner, lied>>

\* send_offsets_to_transaction under txn_lock.
OffsetsOk(c) ==
    /\ Using(c, "offsets") /\ mine[c] \in open /\ owner = mine[c]
    /\ acked' = AckedTo(c)
    /\ sent' = sent \cup {mine[c]}
    /\ Return({c})
    /\ OpFrame /\ UNCHANGED <<queue, owner, open, torn, lied>>

\* commit, abort or send_offsets times out or finds its producer fenced; the
\* transaction stays as it is.
TxnFails(c) ==
    /\ pc[c] = "use" /\ op[c] \in {"commit", "abort", "offsets"} /\ mine[c] \in open
    /\ Return({c})
    /\ OpFrame /\ UNCHANGED <<queue, txnVars, acked, torn, lied>>

\* The drain ends: the connection tasks that are left are aborted at their
\* awaits, what they queued stays queued.
DrainEnds ==
    /\ stage = "serving"
    /\ stage' = "drained"
    /\ queue' = {mine[c] : c \in {d \in Caller : pc[d] = "sent"}}
    /\ Return(Caller)
    /\ UNCHANGED <<regVars, cellVars, txnVars, acked, torn, lied>>

\* A message nobody waits for is delivered, or times out.
Drains(k) ==
    /\ k \in queue /\ stage = "drained"
    /\ queue' = queue \ {k}
    /\ UNCHANGED <<regVars, cellVars, callVars, stage, txnVars, histVars>>

\* flush: the producers in the initialised cells of the table.  One that does
\* not finish within the timeout is logged, and main goes on.
Flush ==
    /\ stage = "drained"
    /\ \/ queue' = queue \ {table} /\ stage' = "flushed"
       \/ table \in queue /\ stage' = "expired" /\ UNCHANGED queue
    /\ UNCHANGED <<regVars, cellVars, callVars, txnVars, histVars>>

Operation(c) ==
    \/ Refused(c) \/ Send(c) \/ Delivered(c) \/ DeliveryFails(c)
    \/ BeginTxn(c) \/ CommitOk(c) \/ AbortOk(c) \/ OffsetsOk(c) \/ TxnFails(c)

Next ==
    \/ \E txn \in BOOLEAN : Register(txn)
    \/ \E c \in Caller :
         \/ \E o \in Ops : Call(c, o)
         \/ EntryFor(c) \/ Operation(c)
    \/ DrainEnds
    \/ \E k \in Cell : Drains(k)
    \/ Flush

Spec == Init /\ [][Next]_vars

\* A task that can go on goes on, and message.timeout.ms, the 30 seconds of
\* the transaction calls and of init_transactions end every wait outside.  The
\* semaphore of a OnceCell serves its waiters in order: nobody waits for ever
\* while others build and fail (SF).
FairSpec ==
    /\ Spec
    /\ \A c \in Caller : SF_vars(InitBuilds(c)) /\ WF_vars(EntryFor(c) \/ Operation(c))

----------------------------------------------------------------------------
(* Properties                                                              *)

RegType == version \in 0 .. MaxVersion /\ config \in BOOLEAN

CellType == table \in 0 .. MaxCell /\ cell \in [Cell -> Entry \cup {NoEntry, Unborn}]

\* A caller past cell_for has a cell, past get_or_try_init a producer.
CallType ==
    /\ pc \in [Caller -> {"idle", "read", "insert", "init", "build", "compare",
                          "replace", "use", "sent"}]
    /\ op \in [Caller -> Ops] /\ mine \in [Caller -> 0 .. MaxCell]
    /\ got \in [Caller -> Entry \cup {NoEntry}]
    /\ since \in [Caller -> 0 .. MaxVersion]
    /\ \A c \in Caller :
         /\ pc[c] \in {"init", "build"} => mine[c] \in Cell
         /\ pc[c] = "build" => got[c] \in Entry
         /\ pc[c] \in {"compare", "replace", "use", "sent"} =>
               mine[c] \in Cell /\ cell[mine[c]] \in Entry

TxnType ==
    /\ queue \subseteq Cell /\ stage \in {"serving", "drained", "flushed", "expired"}
    /\ owner \in 0 .. MaxCell /\ open \subseteq Cell /\ sent \subseteq Cell
    /\ acked \in [TxnCaller -> SUBSET Cell] /\ torn \in [TxnCaller -> BOOLEAN]
    /\ lied \in BOOLEAN

TypeOK == RegType /\ CellType /\ CallType /\ TxnType

\* An overwritten configuration takes effect at once: a call never works on a
\* producer older than the configuration registered when the call began,
\* whoever else is building or replacing cells.
FreshAtStart ==
    \A c \in Caller : pc[c] \in {"use", "sent"} =>
        cell[mine[c]].version >= since[c]

\* Until the cluster is overwritten there is one producer: concurrent first
\* calls run create_with_context and init_transactions once, and a flush that
\* does not run out of time leaves no message behind.
OneProducerAtFirst ==
    version <= 1 =>
        /\ Cardinality({k \in Born : cell[k] # NoEntry}) <= 1
        /\ stage = "flushed" => queue = {}

\* With one transactional client a commit tells the truth: it answers Ok only
\* if every message and offset acknowledged since the client's begin is part
\* of what it commits, however the cluster is overwritten, the producer
\* rebuilt and the old one fenced in between.
CommitTruthful == Cardinality(TxnCaller) <= 1 => ~lied

\* The loop of entry_for ends: callers that find a stale producer do not
\* replace each other's cells for ever.
CallReturns == \A c \in Caller : pc[c] # "idle" ~> pc[c] = "idle"

==============================================================================
