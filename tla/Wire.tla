-------------------------------- MODULE Wire --------------------------------
(***************************************************************************)
(* A PHP process and the worker over their connections: the HELLO          *)
(* handshake (ext/src/pool.rs, protocol.rs), one request at a time written *)
(* as a frame and answered by a handler of the worker (worker/src/         *)
(* server.rs), the answer read by recv_resp (ext/src/ipc.rs) and handed to *)
(* PHP.  The codec is a parameter: Codec for TLC, which encodes and        *)
(* decodes byte for byte, and what CodecAssumption says for the proofs.    *)
(*                                                                         *)
(* Retries are in PoolIpc, the subscriptions in ConsumerSub, the producers *)
(* in ProducerCache; here a handler reads what decides its answer and a    *)
(* backend answers anything it may.                                        *)
(***************************************************************************)
EXTENDS Payloads, FiniteSets

CONSTANTS
    encode(_, _),     \* the bytes of a payload's items and their values
    decode(_, _),     \* the decoder that is left of one when the items are read
    Sample,           \* the requests PHP makes: [op, vals]
    Batch,            \* the batches a poll may return
    PROTOCOL_MAJOR,   \* of the worker
    Majors,           \* of the extensions that connect to it
    MAX_PAYLOAD_LEN,  \* 16 MiB, scaled
    PRODUCE_MAX,      \* 4 MiB, scaled
    CONTROL_MAX,      \* 64 KiB, scaled
    Bootstrap,        \* the key bootstrap.servers
    MaxCalls,         \* bound: calls PHP makes
    None              \* nothing yet

ASSUME WireBounds ==
    /\ MaxCalls \in Nat /\ PROTOCOL_MAJOR \in Majors
    /\ CONTROL_MAX <= PRODUCE_MAX /\ PRODUCE_MAX <= MAX_PAYLOAD_LEN

VARIABLES
    major,   \* PROTOCOL_MAJOR the extension was built with
    conn,    \* the connection the process holds, 0 when it has none
    ready,   \* its handshake is done
    up,      \* up[c]: frames written to connection c and not read by the worker
    down,    \* down[c]: frames written by the worker and not read
    task,    \* task[c]: the connection task of c
    call,    \* the call in progress: its frame and how far it is, or Idle
    sent,    \* sent[n]: what call n asks for
    seen,    \* seen[n]: what the worker decoded of it
    done,    \* done[n]: the answer of its handler, or Unserved
    told,    \* told[n]: what PHP got
    cid,     \* NEXT_CID
    worker   \* clusters, oauth tokens, subscriptions, draining

client == <<major, conn, ready, call, sent, told, cid>>
vars == <<major, conn, ready, up, down, task, call, sent, seen, done, told, cid, worker>>

Number == 1 .. MaxCalls
\* A call opens one connection at most: it has the call's number.
Conn == Number

Idle == [frame |-> None, at |-> "idle"]

Unserved == [tag |-> "unserved", vals |-> <<>>]

Init ==
    /\ major \in Majors
    /\ conn = 0 /\ ready = FALSE
    /\ up = [c \in Conn |-> <<>>] /\ down = [c \in Conn |-> <<>>]
    /\ task = [c \in Conn |-> "none"]
    /\ call = Idle /\ cid = 1
    /\ sent = <<>> /\ seen = [n \in Number |-> None]
    /\ done = [n \in Number |-> Unserved] /\ told = [n \in Number |-> None]
    /\ \E used \in BOOLEAN :      \* whether other processes have used the worker
        worker = [clusters |-> IF used THEN {<<1>>} ELSE {},
                  subs |-> IF used THEN {1} ELSE {}, seq |-> IF used THEN 2 ELSE 1,
                  tokens |-> {}, draining |-> FALSE]

----------------------------------------------------------------------------
(* Calls: what each function of ipc.rs sends and what it expects            *)

Rpc(kind, resp, out, in, rout, rin) ==
    [kind |-> kind, resp |-> resp, out |-> out, in |-> in, rout |-> rout, rin |-> rin]

StatusRpc(kind, resp, out, in) == Rpc(kind, resp, out, in, Status_out, Status_in)

produce_fnf == Rpc("ProduceFnf", "ProduceResp", Produce_out, Produce_in,
                   ProduceResp_out, ProduceResp_in)
produce_sync == [produce_fnf EXCEPT !.kind = "ProduceReq"]
subscribe == Rpc("SubscribeReq", "SubscribeResp", Subscribe_out, Subscribe_in,
                 SubscribeResp_out, SubscribeResp_in)
poll == Rpc("PollReq", "PollResp", Poll_out, Poll_in, PollResp_out, PollResp_in)
commit == StatusRpc("CommitReq", "CommitResp", Sub_out, Sub_in)
register_cluster == StatusRpc("RegisterClusterReq", "RegisterClusterResp",
                              Register_out, Register_in)
seek == StatusRpc("SeekReq", "SeekResp", Seek_out, Seek_in)
poll_rebalance == Rpc("PollRebalanceReq", "PollRebalanceResp", PollRebalance_out,
                      PollRebalance_in, RebalanceResp_out, RebalanceResp_in)
set_oauth == StatusRpc("SetOAuthBearerTokenReq", "SetOAuthBearerTokenResp",
                       OAuth_out, OAuth_in)
pause_resume == StatusRpc("PauseResumeReq", "PauseResumeResp", PauseResume_out,
                          PauseResume_in)
send_offsets == StatusRpc("SendOffsetsReq", "SendOffsetsResp", SendOffsets_out,
                          SendOffsets_in)
txn == StatusRpc("TxnReq", "TxnResp", Txn_out, Txn_in)
unsubscribe == StatusRpc("Unsubscribe", "none", Sub_out, Sub_in)

RpcOf == [produce_fnf |-> produce_fnf, produce_sync |-> produce_sync,
          subscribe |-> subscribe, poll |-> poll, commit |-> commit,
          register_cluster |-> register_cluster, seek |-> seek,
          poll_rebalance |-> poll_rebalance, set_oauth |-> set_oauth,
          pause_resume |-> pause_resume, send_offsets |-> send_offsets,
          txn |-> txn, unsubscribe |-> unsubscribe]

ASSUME SampleAssumption == \A s \in Sample : s.op \in DOMAIN RpcOf

\* The operation a frame type stands for.
OpOf(kind) == CHOOSE op \in DOMAIN RpcOf : RpcOf[op].kind = kind

\* A frame.  "call" is read by the properties only.
Frame(kind, c, payload, n) == [kind |-> kind, cid |-> c, payload |-> payload, call |-> n]

\* encode() or encode_frame has failed.
Unsendable(payload) == Failed(payload) \/ Len(payload) > MAX_PAYLOAD_LEN

\* What PHP sees of an IpcError: a KafkaException for an error the worker has
\* answered, a plain Exception for any other.
ipc_err_to_php(e, vals) ==
    IF e = "Worker" THEN [r |-> "KafkaException", vals |-> vals]
    ELSE [r |-> "Exception", vals |-> <<e>>]

Tell(res) == told' = [told EXCEPT ![Len(sent)] = res]

Ended == call' = Idle

----------------------------------------------------------------------------
(* The extension                                                           *)

\* PHP calls; its payload is encoded whole, or, by an extension that lacks
\* the last fields of a later minor version, cut after k bytes.
Call(s) ==
    /\ call.at = "idle" /\ Len(sent) < MaxCalls
    /\ LET rpc == RpcOf[s.op]
           bytes == encode(rpc.out, s.vals) IN
       IF Unsendable(bytes)
       THEN /\ sent' = Append(sent, [op |-> s.op, vals |-> s.vals, cut |-> FALSE])
            /\ told' = [told EXCEPT ![Len(sent) + 1] = ipc_err_to_php("Encode", <<>>)]
            /\ UNCHANGED <<call, cid>>
       ELSE \E k \in (IF sent = <<>> THEN 0 .. Len(bytes) ELSE {Len(bytes)}) :
            /\ sent' = Append(sent, [op |-> s.op, vals |-> s.vals, cut |-> k < Len(bytes)])
            /\ call' = [frame |-> Frame(rpc.kind, IF s.op = "unsubscribe" THEN 0 ELSE cid,
                                        SubSeq(bytes, 1, k), Len(sent) + 1),
                        at |-> "acquire"]
            /\ cid' = IF s.op = "unsubscribe" THEN cid ELSE cid + 1
            /\ UNCHANGED told
    /\ UNCHANGED <<major, conn, ready, up, down, task, seen, done, worker>>

\* The pool has no connection: one is opened and HELLO written on it.
Connect ==
    /\ call.at = "acquire" /\ conn = 0
    /\ LET c == Len(sent)
       IN  /\ conn' = c
           /\ task' = [task EXCEPT ![c] = "hello"]
           /\ up' = [up EXCEPT ![c] = <<Frame("Hello", 0, encode(Hello_out, <<major>>), 0)>>]
    /\ ready' = FALSE
    /\ UNCHANGED <<major, down, call, sent, seen, done, told, cid, worker>>

\* parse_hello_resp, and the same check in the pool.
parse_hello_resp(f) ==
    /\ f.kind = "Hello"
    /\ LET d == decode(Hello_in, Decoder(f.payload))
       IN  d.err = "" /\ d.out = <<major>>

HelloDone ==
    /\ call.at = "acquire" /\ conn # 0 /\ ~ready
    /\ down[conn] # <<>> /\ parse_hello_resp(Head(down[conn]))
    /\ down' = [down EXCEPT ![conn] = Tail(@)]
    /\ ready' = TRUE
    /\ UNCHANGED <<major, conn, up, task, call, sent, seen, done, told, cid, worker>>

\* The connection is dropped: the process holds none.
Drop == conn' = 0 /\ ready' = FALSE

\* No answer to HELLO, or a wrong one.
HelloFails ==
    /\ call.at = "acquire" /\ conn # 0 /\ ~ready
    /\ IF down[conn] # <<>> THEN ~parse_hello_resp(Head(down[conn])) ELSE TRUE
    /\ Drop /\ Ended /\ Tell(ipc_err_to_php("Pool", <<>>))
    /\ UNCHANGED <<major, up, down, task, sent, seen, done, cid, worker>>

\* A pooled connection that has ended or holds unread bytes is not used.
Discard ==
    /\ call.at = "acquire" /\ ready
    /\ task[conn] = "gone" \/ down[conn] # <<>>
    /\ Drop
    /\ UNCHANGED <<major, up, down, task, call, sent, seen, done, told, cid, worker>>

\* The request is written; unsubscribe does not wait for anything.
Write ==
    /\ call.at = "acquire" /\ ready
    /\ task[conn] # "gone" /\ down[conn] = <<>>
    /\ up' = [up EXCEPT ![conn] = Append(@, call.frame)]
    /\ IF call.frame.kind = "Unsubscribe"
       THEN Ended /\ Tell([r |-> "ok", vals |-> <<>>])
       ELSE call' = [call EXCEPT !.at = "wait"] /\ UNCHANGED told
    /\ UNCHANGED <<major, conn, ready, down, task, sent, seen, done, cid, worker>>

\* recv_resp and the caller's check of the frame type, then decode().
Answered(f) ==
    LET rpc == RpcOf[sent[Len(sent)].op] IN
    IF f.cid # call.frame.cid
    THEN Drop /\ Tell(ipc_err_to_php("CidMismatch", <<>>))
    ELSE IF f.kind = "Error"
    THEN LET d == decode(Error_in, Decoder(f.payload)) IN
         /\ UNCHANGED <<conn, ready>>
         /\ Tell(IF d.err = "" THEN ipc_err_to_php("Worker", d.out)
                 ELSE ipc_err_to_php("DecodeResp", <<>>))
    ELSE IF f.kind # rpc.resp
    THEN Drop /\ Tell(ipc_err_to_php("UnexpectedKind", <<>>))
    ELSE LET d == decode(rpc.rin, Decoder(f.payload)) IN
         /\ UNCHANGED <<conn, ready>>
         /\ Tell(IF d.err = "" THEN [r |-> "ok", vals |-> d.out]
                 ELSE ipc_err_to_php("DecodeResp", <<>>))

Recv ==
    /\ call.at = "wait" /\ down[conn] # <<>>
    /\ Answered(Head(down[conn]))
    /\ down' = [down EXCEPT ![conn] = Tail(@)]
    /\ Ended
    /\ UNCHANGED <<major, up, task, sent, seen, done, cid, worker>>

\* Mutant: a read that times out leaves the connection in the pool.
RecvFails_KeepsConn ==
    /\ call.at = "wait" /\ down[conn] = <<>>
    /\ Ended /\ Tell(ipc_err_to_php("Io", <<>>))
    /\ UNCHANGED <<major, conn, ready, up, down, task, sent, seen, done, cid, worker>>

\* The read times out, or ends because the worker has closed: poison.
RecvFails ==
    /\ call.at = "wait" /\ down[conn] = <<>>
    /\ Drop /\ Ended /\ Tell(ipc_err_to_php("Io", <<>>))
    /\ UNCHANGED <<major, up, down, task, sent, seen, done, cid, worker>>

----------------------------------------------------------------------------
(* Errors of the worker                                                    *)

Internal == 0
WorkerDraining == 3
Protocol == 4
ClusterNotRegistered == 5
InvalidArgument == 6
SubscriptionNotFound == 8
BrokerRetryable == 9
MessageTooLarge == 10
AuthnAuthz == 11
UnknownTopicOrPartition == 14

\* ErrorKind::default_retryable.
default_retryable(kind) == kind \in {1, 2, WorkerDraining, BrokerRetryable}

AsByte(b) == IF b THEN 1 ELSE 0

\* What a handler does: the answer it writes, the worker it leaves.
Ok(vals, w) == [tag |-> "ok", vals |-> vals, w |-> w, close |-> FALSE]
Silent(w) == [tag |-> "none", vals |-> <<>>, w |-> w, close |-> FALSE]
Failure(kind, retryable, native, w) ==
    [tag |-> "err", vals |-> <<kind, AsByte(retryable), native, <<>> >>,
     w |-> w, close |-> FALSE]

\* ErrorResp::new.
ErrorResp(kind, w) == Failure(kind, default_retryable(kind), 0, w)

\* WorkerError::from_anyhow of an error that carries no WorkerError.
Backend(w) == ErrorResp(Internal, w)

\* The classes of librdkafka error codes that produce tells apart; the number
\* is the native code.
KafkaError == [Authorization |-> 29, MessageSizeTooLarge |-> 10,
               UnknownTopicOrPartition |-> 3, QueueFull |-> -184,
               InvalidMsg |-> 2, NotMessageProduction |-> 0]

is_retryable(code) == code \in {"QueueFull", "UnknownTopicOrPartition"}

kafka_error_to_kind(code) ==
    CASE code = "NotMessageProduction" -> Internal
      [] code = "Authorization" -> AuthnAuthz
      [] code = "MessageSizeTooLarge" -> MessageTooLarge
      [] code = "UnknownTopicOrPartition" -> UnknownTopicOrPartition
      [] is_retryable(code) -> BrokerRetryable
      [] OTHER -> Internal

kafka_error_to_worker(code, w) ==
    Failure(kafka_error_to_kind(code), is_retryable(code), KafkaError[code], w)

----------------------------------------------------------------------------
(* Handlers: for a decoded request, everything they may do                 *)

OfCluster(cluster, w, results) ==
    IF cluster \in w.clusters THEN results ELSE {ErrorResp(ClusterNotRegistered, w)}

\* consumer_err_to_resp of NotFound.
OfSub(sub, w, results) ==
    IF sub \in w.subs THEN results
    ELSE {ErrorResp(SubscriptionNotFound, w)}

\* The values of a successful response: tag 0 and its fields.
Success(fields) == << <<0, fields>> >>

Done(w) == Ok(Success(<<>>), w)

Produced(req, w, ack) ==
    OfCluster(req[1], w, {Ok(Success(ack), w)} \cup
                         {kafka_error_to_worker(code, w) : code \in DOMAIN KafkaError})

\* The ack of a fire-and-forget message has no partition and no offset.
FnfAck == <<-1, -1>>
Ack == <<0, 7>>

handle_produce_fnf(req, w) == Produced(req, w, FnfAck)

handle_produce_req_inner(req, w) == Produced(req, w, Ack)

handle_subscribe(req, w) ==
    OfCluster(req[1], w,
        {Backend(w), Ok(Success(<<w.seq>>), [w EXCEPT !.subs = @ \cup {w.seq}, !.seq = @ + 1])})

\* A poll that finds the stream dead removes the subscription.
handle_poll(req, w) ==
    OfSub(req[1], w, {Ok(Success(<<msgs>>), w) : msgs \in Batch} \cup
                     {ErrorResp(SubscriptionNotFound, [w EXCEPT !.subs = @ \ {req[1]}])})

handle_commit(req, w) == OfSub(req[1], w, {Done(w), Backend(w)})

handle_seek(req, w) == OfSub(req[1], w, {Done(w), Backend(w)})

handle_pause_resume(req, w) == OfSub(req[1], w, {Done(w), Backend(w)})

\* No event, or an assignment and an error.
Events == {<<>>, << << <<0, << << <<<<3>>, 0>> >> >> >> >>, << <<2, << <<4>> >> >> >> >>}

handle_poll_rebalance(req, w) ==
    OfSub(req[1], w, {Ok(Success(<<events>>), w) : events \in Events})

\* The subscription's group metadata first, then the producer.
handle_send_offsets(req, w) ==
    IF req[2] \notin w.subs THEN {ErrorResp(SubscriptionNotFound, w)}
    ELSE OfCluster(req[1], w, {Done(w), Backend(w)})

handle_txn(req, w) == OfCluster(req[1], w, {Done(w), Backend(w)})

handle_set_oauth_token(req, w) ==
    OfCluster(req[1], w, {Done([w EXCEPT !.tokens = @ \cup {req[1]}])})

handle_register_cluster(req, w) ==
    IF \E i \in DOMAIN req[2] : req[2][i][1] = Bootstrap
    THEN {Done([w EXCEPT !.clusters = @ \cup {req[1]}])}
    ELSE {ErrorResp(InvalidArgument, w)}

handle_unsubscribe(req, w) == {Silent([w EXCEPT !.subs = @ \ {req[1]}])}

dispatch_inner(op, req, w) ==
    CASE op = "produce_fnf" -> handle_produce_fnf(req, w)
      [] op = "produce_sync" -> handle_produce_req_inner(req, w)
      [] op = "subscribe" -> handle_subscribe(req, w)
      [] op = "poll" -> handle_poll(req, w)
      [] op = "commit" -> handle_commit(req, w)
      [] op = "unsubscribe" -> handle_unsubscribe(req, w)
      [] op = "register_cluster" -> handle_register_cluster(req, w)
      [] op = "txn" -> handle_txn(req, w)
      [] op = "poll_rebalance" -> handle_poll_rebalance(req, w)
      [] op = "seek" -> handle_seek(req, w)
      [] op = "send_offsets" -> handle_send_offsets(req, w)
      [] op = "pause_resume" -> handle_pause_resume(req, w)
      [] op = "set_oauth" -> handle_set_oauth_token(req, w)

\* A panic closes the connection; produce_req answers first, retryable.
Panicked(op, w) ==
    IF op = "produce_sync"
    THEN [Failure(Internal, TRUE, 0, w) EXCEPT !.close = TRUE]
    ELSE [Silent(w) EXCEPT !.close = TRUE]

\* A payload that does not decode: a Protocol error, nothing for unsubscribe.
Undecodable(op, w) ==
    IF op = "unsubscribe" THEN Silent(w) ELSE ErrorResp(Protocol, w)

\* A draining worker refuses to produce before it decodes.
Refuses(op, w) == w.draining /\ op \in {"produce_fnf", "produce_sync"}

dispatch(op, d, w) ==
    IF Refuses(op, w) THEN {ErrorResp(WorkerDraining, w)}
    ELSE IF d.err = "panic" THEN {Panicked(op, w)}
    ELSE IF d.err # "" THEN {Undecodable(op, w)}
    ELSE dispatch_inner(op, d.out, w) \cup {Panicked(op, w)}

----------------------------------------------------------------------------
(* What the proofs take from the codec                                     *)

Decoded(vals) == [buf |-> <<>>, out |-> vals, err |-> ""]

\* No strict prefix of a payload decodes, and none makes a decoder read past
\* its end.
PrefixFree(items, bytes) ==
    \A k \in 0 .. Len(bytes) - 1 :
        decode(items, Decoder(SubSeq(bytes, 1, k))).err = "Truncated"

\* What can be sent is read as it was written.
RoundTrip(out, in, vals) ==
    LET bytes == encode(out, vals) IN
    \/ Unsendable(bytes)
    \/ decode(in, Decoder(bytes)) = Decoded(vals) /\ PrefixFree(in, bytes)

\* The values of the successful answers of an operation.
OkVals(op) ==
    CASE op = "produce_fnf" -> {Success(FnfAck)}
      [] op = "produce_sync" -> {Success(Ack)}
      [] op = "subscribe" -> {Success(<<s>>) : s \in 1 .. MaxCalls + 2}
      [] op = "poll" -> {Success(<<msgs>>) : msgs \in Batch}
      [] op = "poll_rebalance" -> {Success(<<events>>) : events \in Events}
      [] OTHER -> {Success(<<>>)}

\* The values of error frames: kind, retryable, native code, message.
ErrVals ==
    {<<kind, flag, native, <<>> >> : kind \in 0 .. 14, flag \in {0, 1},
                                     native \in {0} \cup {KafkaError[e] : e \in DOMAIN KafkaError}}

IsSeq(s) == s \in Seq({s[i] : i \in DOMAIN s})

\* A request is a sequence of bytes; HELLO and every answer are read as they
\* were written.
ASSUME CodecAssumption ==
    /\ \A s \in Sample : IsSeq(encode(RpcOf[s.op].out, s.vals))
    /\ \A m \in Majors :
        decode(Hello_in, Decoder(encode(Hello_out, <<m>>))) = Decoded(<<m>>)
    /\ \A op \in DOMAIN RpcOf : \A vals \in OkVals(op) :
        RoundTrip(RpcOf[op].rout, RpcOf[op].rin, vals)
    /\ \A vals \in ErrVals : RoundTrip(Error_out, Error_in, vals)

----------------------------------------------------------------------------
(* The connection task                                                     *)

\* check_per_frame_limit, of the frames a client sends.
check_per_frame_limit(f) ==
    Len(f.payload) <= IF f.kind \in {"ProduceFnf", "ProduceReq"} THEN PRODUCE_MAX
                      ELSE CONTROL_MAX

Close(c) == task' = [task EXCEPT ![c] = "gone"]

TakeFrame(c) == up' = [up EXCEPT ![c] = Tail(@)]

\* The frame is too large for its type, or not a HELLO of this major: close.
TaskRefuses(c) ==
    /\ task[c] \in {"hello", "serving"} /\ up[c] # <<>>
    /\ LET f == Head(up[c])
           d == decode(Hello_in, Decoder(f.payload)) IN
       \/ ~check_per_frame_limit(f)
       \/ task[c] = "hello" /\ (f.kind # "Hello" \/ d.err # "" \/ d.out # <<PROTOCOL_MAJOR>>)
    /\ TakeFrame(c) /\ Close(c)
    /\ UNCHANGED <<client, down, seen, done, worker>>

TaskGreets(c) ==
    /\ task[c] = "hello" /\ up[c] # <<>>
    /\ LET f == Head(up[c]) IN
       /\ f.kind = "Hello"
       /\ decode(Hello_in, Decoder(f.payload)).out = <<PROTOCOL_MAJOR>>
       /\ down' = [down EXCEPT ![c] = Append(@,
              Frame("Hello", f.cid, encode(Hello_out, <<PROTOCOL_MAJOR>>), 0))]
    /\ TakeFrame(c)
    /\ task' = [task EXCEPT ![c] = "serving"]
    /\ UNCHANGED <<client, seen, done, worker>>

\* The frame that carries a handler's answer.
Reply(f, r) ==
    IF r.tag = "err" THEN Frame("Error", f.cid, encode(Error_out, r.vals), f.call)
    ELSE LET rpc == RpcOf[OpOf(f.kind)]
         IN  Frame(rpc.resp, f.cid, encode(rpc.rout, r.vals), f.call)

TaskServes(c) ==
    /\ task[c] = "serving" /\ up[c] # <<>> /\ check_per_frame_limit(Head(up[c]))
    /\ LET f == Head(up[c])
           op == OpOf(f.kind)
           d == decode(RpcOf[op].in, Decoder(f.payload)) IN
       \E r \in dispatch(op, d, worker) :
           /\ worker' = r.w
           /\ seen' = [seen EXCEPT ![f.call] = IF Refuses(op, worker) THEN @ ELSE d]
           /\ done' = [done EXCEPT ![f.call] = [tag |-> r.tag, vals |-> r.vals]]
           /\ IF r.tag = "none" THEN UNCHANGED down
              ELSE IF Unsendable(Reply(f, r).payload) \/ conn # c THEN UNCHANGED down
              ELSE down' = [down EXCEPT ![c] = Append(@, Reply(f, r))]
           /\ IF r.close \/ (r.tag # "none" /\ (conn # c \/ Unsendable(Reply(f, r).payload)))
              THEN Close(c) ELSE UNCHANGED task
    /\ TakeFrame(c)
    /\ UNCHANGED client

\* The process has dropped the connection: end of file.
TaskEnds(c) ==
    /\ task[c] \in {"hello", "serving"} /\ up[c] = <<>> /\ conn # c
    /\ Close(c)
    /\ UNCHANGED <<client, up, down, seen, done, worker>>

StartDraining ==
    /\ ~worker.draining
    /\ worker' = [worker EXCEPT !.draining = TRUE]
    /\ UNCHANGED <<client, up, down, task, seen, done>>

----------------------------------------------------------------------------
Next ==
    \/ \E s \in Sample : Call(s)
    \/ Connect \/ HelloDone \/ HelloFails \/ Discard \/ Write \/ Recv \/ RecvFails
    \/ \E c \in Conn : TaskRefuses(c) \/ TaskGreets(c) \/ TaskServes(c) \/ TaskEnds(c)
    \/ StartDraining

Spec == Init /\ [][Next]_vars

----------------------------------------------------------------------------
(* Properties                                                              *)

\* The worker and the extension read what the other one wrote: a request that
\* is decoded has the values PHP gave and not a byte more, one that ends early
\* is Truncated, never a panic or a message with other fields; the same holds
\* of every answer on its way back; and nothing is decoded for an extension of
\* another major.
Understood ==
    /\ \A n \in DOMAIN sent : seen[n] # None =>
        /\ major = PROTOCOL_MAJOR
        /\ IF sent[n].cut THEN seen[n].err = "Truncated"
           ELSE seen[n] = Decoded(sent[n].vals)
    /\ conn # 0 /\ ready /\ call.at # "idle" =>
        \A i \in DOMAIN down[conn] : LET f == down[conn][i] IN
            PrefixFree(IF f.kind = "Error" THEN Error_in ELSE RpcOf[sent[f.call].op].rin,
                       f.payload)

\* What PHP is told of a call is what the handler of that very request
\* answered, with its values, or its kind, retryable and native code; PHP is
\* told of a failure to encode only when nothing was sent; and whatever times
\* out, panics or is refused, no call ever meets another call's answer.
RightAnswer ==
    \A n \in Number : told[n] # None =>
        \/ /\ told[n].r = "ok" /\ sent[n].op = "unsubscribe"
        \/ /\ told[n].r = "ok"
           /\ done[n] = [tag |-> "ok", vals |-> told[n].vals]
        \/ /\ told[n].r = "KafkaException"
           /\ done[n] = [tag |-> "err", vals |-> told[n].vals]
        \/ /\ told[n].r = "Exception"
           /\ told[n].vals[1] \in {"Encode", "Pool", "Io"}
           /\ told[n].vals[1] = "Encode" => seen[n] = None

=============================================================================
