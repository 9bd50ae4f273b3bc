----------------------------- MODULE Wire_proofs -----------------------------
(***************************************************************************)
(* Proofs about Wire, for every number of calls, every set of requests and *)
(* batches and every codec that satisfies CodecAssumption: PHP is told     *)
(* what the handler of its own request answered, and each side understands *)
(* what the other one has written.                                         *)
(*                                                                         *)
(* RightAnswer is not inductive: that a call reads its own answer rests on *)
(* what lies on its connection.  Inv says so: every call is written once   *)
(* (Unique), a connection that is not waited on holds no answer and can    *)
(* only bring one that nobody sends (Clean), and one that is waited on     *)
(* holds the answer of that call or nothing.                               *)
(***************************************************************************)
EXTENDS Wire, FiniteSetTheorems, TLAPS

\* What sent[n] records of a call.
Request == {[op |-> s.op, vals |-> s.vals, cut |-> b] : s \in Sample, b \in BOOLEAN}

Types ==
    /\ sent \in Seq(Request) /\ Len(sent) <= MaxCalls
    /\ conn \in Conn \cup {0} /\ ready \in BOOLEAN /\ major \in Majors
    /\ task \in [Conn -> {"none", "hello", "serving", "gone"}]
    /\ DOMAIN up = Conn /\ up = [c \in Conn |-> up[c]]
    /\ \A c \in Conn : IsSeq(up[c])
    /\ down = [c \in Conn |-> down[c]]
    /\ seen = [n \in Number |-> seen[n]]
    /\ done = [n \in Number |-> done[n]]
    /\ \A n \in Number : done[n] = [tag |-> done[n].tag, vals |-> done[n].vals]
    /\ told = [n \in Number |-> told[n]]
    /\ call = [frame |-> call.frame, at |-> call.at]
    /\ call.at \in {"idle", "acquire", "wait"}

\* Nothing of call n is at the worker.
Fresh(n) == done[n] = Unserved /\ seen[n] = None

Queued(n) == \E c \in Conn : \E i \in DOMAIN up[c] : up[c][i].call = n

\* The payload is the request's, whole or cut as sent[n] says.
Carries(payload, r) ==
    LET bytes == encode(RpcOf[r.op].out, r.vals) IN
    /\ ~Unsendable(bytes)
    /\ \E k \in 0 .. Len(bytes) :
        payload = SubSeq(bytes, 1, k) /\ r.cut = (k < Len(bytes))

\* f is the frame of a call.
Asks(f) ==
    /\ f.call \in 1 .. Len(sent)
    /\ f.kind = RpcOf[sent[f.call].op].kind
    /\ Carries(f.payload, sent[f.call])

Unsubscribing(c) == \A i \in DOMAIN up[c] : up[c][i].kind = "Unsubscribe"

HelloOf(m) == Frame("Hello", 0, encode(Hello_out, <<m>>), 0)

\* What the worker has to read on a connection.
Reading(c) ==
    /\ c > Len(sent) => task[c] = "none"
    /\ task[c] = "none" => up[c] = <<>>
    /\ task[c] = "hello" => up[c] = <<HelloOf(major)>>
    /\ task[c] = "serving" => major = PROTOCOL_MAJOR
    /\ task[c] \in {"serving", "gone"} =>
        \A i \in DOMAIN up[c] : Asks(up[c][i]) /\ Fresh(up[c][i].call)

\* A call is written once.
Unique ==
    \A c, d \in Conn : \A i \in DOMAIN up[c] : \A j \in DOMAIN up[d] :
        up[c][i].call # 0 /\ up[c][i].call = up[d][j].call => c = d /\ i = j

\* f carries the answer of call n.
Carried(f, n) ==
    /\ f.call = n
    /\ ~Unsendable(f.payload)
    /\ \/ /\ f.kind = "Error" /\ done[n].tag = "err" /\ done[n].vals \in ErrVals
          /\ f.payload = encode(Error_out, done[n].vals)
       \/ /\ f.kind = RpcOf[sent[n].op].resp /\ done[n].tag = "ok"
          /\ done[n].vals \in OkVals(sent[n].op)
          /\ f.payload = encode(RpcOf[sent[n].op].rout, done[n].vals)

\* The connection during its handshake.
Greeting ==
    conn # 0 /\ ~ready =>
        /\ call.at = "acquire" /\ conn = Len(sent)
        /\ \/ task[conn] = "hello" /\ down[conn] = <<>>
           \/ /\ task[conn] = "serving" /\ up[conn] = <<>>
              /\ down[conn] = <<HelloOf(PROTOCOL_MAJOR)>>
           \/ task[conn] = "gone" /\ up[conn] = <<>> /\ down[conn] = <<>>

\* The connection of a process that waits for nothing holds no answer and
\* awaits none; that of one that waits holds its own answer, or none.
Clean ==
    ready =>
        /\ conn # 0 /\ task[conn] \in {"serving", "gone"}
        /\ call.at # "wait" => down[conn] = <<>> /\ Unsubscribing(conn)
        /\ call.at = "wait" =>
            \/ /\ down[conn] = <<>>
               /\ \A i \in DOMAIN up[conn] :
                    up[conn][i] = call.frame \/ up[conn][i].kind = "Unsubscribe"
            \/ /\ Unsubscribing(conn)
               /\ \E f : /\ down[conn] = <<f>> /\ f.cid = call.frame.cid
                         /\ Carried(f, Len(sent))

\* The call in progress.
Calling ==
    /\ call.at # "idle" => /\ Asks(call.frame) /\ call.frame.call = Len(sent)
                           /\ told[Len(sent)] = None
    /\ call.at = "wait" => ready /\ sent[Len(sent)].op # "unsubscribe"
    /\ call.at = "acquire" =>
        /\ ~Queued(Len(sent)) /\ Fresh(Len(sent))
        /\ IF conn = Len(sent) THEN ready => task[conn] = "serving" /\ up[conn] = <<>>
           ELSE task[Len(sent)] = "none"

\* Calls not made and connections not opened.
Future ==
    /\ \A n \in Number : n > Len(sent) => Fresh(n) /\ told[n] = None
    /\ \A c \in Conn : task[c] = "none" => down[c] = <<>>

\* A call whose payload could not be encoded stays unknown to the worker.
Unencoded ==
    \A n \in Number :
        told[n] # None /\ told[n].r = "Exception" /\ told[n].vals[1] = "Encode"
            => ~Queued(n)

Served == {n \in Number : done[n] # Unserved}

\* A subscription id is given out by an answer.
Ids ==
    /\ worker = [clusters |-> worker.clusters, subs |-> worker.subs, seq |-> worker.seq,
                 tokens |-> worker.tokens, draining |-> worker.draining]
    /\ worker.seq \in 1 .. 2 + Cardinality(Served)

Inv ==
    /\ Types /\ (\A c \in Conn : Reading(c)) /\ Unique /\ Greeting /\ Clean
    /\ Calling /\ Future /\ Unencoded /\ Ids /\ RightAnswer

----------------------------------------------------------------------------
(* Operations and sequences                                                *)

\* The operations of the extension.
LEMMA Ops ==
    DOMAIN RpcOf = {"produce_fnf", "produce_sync", "subscribe", "poll", "commit",
                    "register_cluster", "seek", "poll_rebalance", "set_oauth",
                    "pause_resume", "send_offsets", "txn", "unsubscribe"}
BY DEF RpcOf

\* A frame type stands for one operation, and no response is an error frame.
LEMMA Kinds ==
    /\ \A a, b \in DOMAIN RpcOf : RpcOf[a].kind = RpcOf[b].kind => a = b
    /\ \A a \in DOMAIN RpcOf : /\ RpcOf[a].resp # "Error"
                               /\ RpcOf[a].kind = "Unsubscribe" <=> a = "unsubscribe"
<1>1. /\ RpcOf["produce_fnf"].kind = "ProduceFnf" /\ RpcOf["produce_sync"].kind = "ProduceReq"
      /\ RpcOf["subscribe"].kind = "SubscribeReq" /\ RpcOf["poll"].kind = "PollReq"
      /\ RpcOf["commit"].kind = "CommitReq" /\ RpcOf["seek"].kind = "SeekReq"
      /\ RpcOf["register_cluster"].kind = "RegisterClusterReq"
      /\ RpcOf["poll_rebalance"].kind = "PollRebalanceReq"
      /\ RpcOf["set_oauth"].kind = "SetOAuthBearerTokenReq"
      /\ RpcOf["pause_resume"].kind = "PauseResumeReq"
      /\ RpcOf["send_offsets"].kind = "SendOffsetsReq"
      /\ RpcOf["txn"].kind = "TxnReq" /\ RpcOf["unsubscribe"].kind = "Unsubscribe"
  BY DEF RpcOf, Rpc, StatusRpc, produce_fnf, produce_sync, subscribe, poll, commit, seek,
         register_cluster, poll_rebalance, set_oauth, pause_resume, send_offsets, txn,
         unsubscribe
<1>2. \A a \in DOMAIN RpcOf : RpcOf[a].resp # "Error"
  BY DEF RpcOf, Rpc, StatusRpc, produce_fnf, produce_sync, subscribe, poll, commit, seek,
         register_cluster, poll_rebalance, set_oauth, pause_resume, send_offsets, txn,
         unsubscribe
<1> QED BY <1>1, <1>2, Ops

\* The worker runs the operation that was asked for.
LEMMA Op_of_kind == \A op \in DOMAIN RpcOf : OpOf(RpcOf[op].kind) = op
BY Kinds DEF OpOf

\* A sequence is one over its own elements.
LEMMA Reseq ==
    ASSUME NEW S, NEW t \in Seq(S)
    PROVE  IsSeq(t) /\ DOMAIN t = 1 .. Len(t) /\ Len(t) \in Nat
BY DEF IsSeq

\* A sequence with an element written behind it.
LEMMA Appended ==
    ASSUME NEW s, NEW e, IsSeq(s)
    PROVE  /\ IsSeq(Append(s, e)) /\ DOMAIN s = 1 .. Len(s) /\ Len(s) \in Nat
           /\ DOMAIN Append(s, e) = 1 .. Len(s) + 1
           /\ \A i \in DOMAIN s : Append(s, e)[i] = s[i]
           /\ Append(s, e)[Len(s) + 1] = e
<1> DEFINE S == {s[i] : i \in DOMAIN s} \cup {e}
<1>1. s \in Seq(S)
  BY DEF IsSeq
<1>2. Append(s, e) \in Seq(S)
  BY <1>1
<1> HIDE DEF S
<1> QED BY <1>1, <1>2 DEF IsSeq

\* A sequence whose first element has been read.
LEMMA Tailed ==
    ASSUME NEW s, IsSeq(s), s # <<>>
    PROVE  /\ IsSeq(Tail(s)) /\ DOMAIN s = 1 .. Len(s) /\ Len(s) \in Nat /\ Len(s) >= 1
           /\ Head(s) = s[1] /\ 1 \in DOMAIN s
           /\ DOMAIN Tail(s) = 1 .. Len(s) - 1
           /\ \A i \in DOMAIN Tail(s) : i + 1 \in DOMAIN s /\ Tail(s)[i] = s[i + 1]
<1> DEFINE S == {s[i] : i \in DOMAIN s}
<1>1. s \in Seq(S)
  BY DEF IsSeq
<1> HIDE DEF S
<1>2. Tail(s) \in Seq(S) /\ Len(Tail(s)) = Len(s) - 1
  BY <1>1
<1>3. \A i \in DOMAIN Tail(s) : i + 1 \in DOMAIN s /\ Tail(s)[i] = s[i + 1]
  BY <1>1, <1>2
<1>4. DOMAIN s = 1 .. Len(s) /\ Len(s) \in Nat /\ Len(s) >= 1 /\ Head(s) = s[1]
  BY <1>1
<1>5. IsSeq(Tail(s)) /\ DOMAIN Tail(s) = 1 .. Len(s) - 1
  BY <1>2, Reseq
<1> QED BY <1>3, <1>4, <1>5

\* A single frame, or none.
LEMMA Single == \A x : Head(<<x>>) = x /\ Tail(<<x>>) = <<>> /\ Append(<<>>, x) = <<x>>
OBVIOUS

\* What is read without error, with its values.
LEMMA DecodedFields == \A v : Decoded(v).err = "" /\ Decoded(v).out = v
BY DEF Decoded

\* A sequence that is not cut.
LEMMA WholeSeq == ASSUME NEW s, IsSeq(s) PROVE SubSeq(s, 1, Len(s)) = s
BY DEF IsSeq

----------------------------------------------------------------------------
(* What a handler may answer                                               *)

IsWorker(w) ==
    /\ w = [clusters |-> w.clusters, subs |-> w.subs, seq |-> w.seq,
            tokens |-> w.tokens, draining |-> w.draining]
    /\ w.seq \in 1 .. MaxCalls + 2

\* What a handler may answer a request of an operation with: nothing to
\* unsubscribe, and a new subscription id only when one is given out.
Legal(r, op, w) ==
    /\ r.w = [clusters |-> r.w.clusters, subs |-> r.w.subs, seq |-> r.w.seq,
              tokens |-> r.w.tokens, draining |-> r.w.draining]
    /\ r.w.seq \in {w.seq, w.seq + 1}
    /\ \/ r.tag = "none"
       \/ op # "unsubscribe" /\ r.tag = "ok" /\ r.vals \in OkVals(op)
       \/ op # "unsubscribe" /\ r.tag = "err" /\ r.vals \in ErrVals

\* The error frames of the worker's own errors.
LEMMA ErrorLegal ==
    ASSUME NEW w, IsWorker(w), NEW op, op # "unsubscribe", NEW kind \in 0 .. 14
    PROVE  Legal(ErrorResp(kind, w), op, w)
<1>1. <<kind, AsByte(default_retryable(kind)), 0, <<>> >> \in ErrVals
  BY DEF ErrVals, AsByte
<1> QED BY <1>1 DEF Legal, ErrorResp, Failure, IsWorker

\* The error frames of librdkafka's errors.
LEMMA KafkaLegal ==
    ASSUME NEW w, IsWorker(w), NEW op, op # "unsubscribe", NEW code \in DOMAIN KafkaError
    PROVE  Legal(kafka_error_to_worker(code, w), op, w)
<1>1. kafka_error_to_kind(code) \in 0 .. 14
  BY DEF kafka_error_to_kind, Internal, AuthnAuthz, MessageTooLarge, BrokerRetryable,
         UnknownTopicOrPartition
<1>2. <<kafka_error_to_kind(code), AsByte(is_retryable(code)), KafkaError[code], <<>> >>
        \in ErrVals
  <2> DEFINE Native == {0} \cup {KafkaError[e] : e \in DOMAIN KafkaError}
  <2>1. KafkaError[code] \in Native
    OBVIOUS
  <2>2. AsByte(is_retryable(code)) \in {0, 1}
    BY DEF AsByte
  <2>3. ErrVals = {<<kind, flag, native, <<>> >> : kind \in 0 .. 14, flag \in {0, 1},
                                                  native \in Native}
    BY DEF ErrVals
  <2> HIDE DEF Native
  <2> QED BY <1>1, <2>1, <2>2, <2>3
<1> QED BY <1>2 DEF Legal, kafka_error_to_worker, Failure, IsWorker

\* A successful answer.
LEMMA OkLegal ==
    ASSUME NEW w, IsWorker(w), NEW op, op # "unsubscribe", NEW vals \in OkVals(op),
           NEW v, v = [clusters |-> v.clusters, subs |-> v.subs, seq |-> v.seq,
                       tokens |-> v.tokens, draining |-> v.draining],
           v.seq \in {w.seq, w.seq + 1}
    PROVE  Legal(Ok(vals, v), op, w)
BY DEF Legal, Ok

\* A handler that panics.
LEMMA PanicLegal ==
    ASSUME NEW w, IsWorker(w), NEW op
    PROVE  Legal(Panicked(op, w), op, w)
<1>1. CASE op = "produce_sync"
  <2>1. <<Internal, AsByte(TRUE), 0, <<>> >> \in ErrVals
    BY DEF ErrVals, AsByte, Internal
  <2> QED BY <1>1, <2>1 DEF Legal, Panicked, Failure, IsWorker
<1>2. CASE op # "produce_sync"
  BY <1>2 DEF Legal, Panicked, Silent, IsWorker
<1> QED BY <1>1, <1>2

\* A worker after it has given out a subscription id.
LEMMA NewId ==
    ASSUME NEW w, NEW S, NEW n,
           w = [clusters |-> w.clusters, subs |-> w.subs, seq |-> w.seq,
                tokens |-> w.tokens, draining |-> w.draining]
    PROVE  [w EXCEPT !.subs = S, !.seq = n] =
           [clusters |-> w.clusters, subs |-> S, seq |-> n,
            tokens |-> w.tokens, draining |-> w.draining]
<1> DEFINE u == [w EXCEPT !.subs = S]
<1>1. u = [clusters |-> w.clusters, subs |-> S, seq |-> w.seq,
           tokens |-> w.tokens, draining |-> w.draining]
  OBVIOUS
<1>2. [w EXCEPT !.subs = S, !.seq = n] = [u EXCEPT !.seq = n]
  OBVIOUS
<1> HIDE DEF u
<1>3. [u EXCEPT !.seq = n] = [clusters |-> w.clusters, subs |-> S, seq |-> n,
                              tokens |-> w.tokens, draining |-> w.draining]
  BY <1>1
<1> QED BY <1>2, <1>3

\* Every handler.
LEMMA HandlersLegal ==
    ASSUME NEW w, IsWorker(w), NEW op \in DOMAIN RpcOf, NEW req,
           NEW r \in dispatch_inner(op, req, w)
    PROVE  Legal(r, op, w)
<1>e. \A kind \in 0 .. 14 : op # "unsubscribe" => Legal(ErrorResp(kind, w), op, w)
  BY ErrorLegal
<1>k. \A code \in DOMAIN KafkaError :
        op # "unsubscribe" => Legal(kafka_error_to_worker(code, w), op, w)
  BY KafkaLegal
<1>n. /\ Internal \in 0 .. 14 /\ ClusterNotRegistered \in 0 .. 14
      /\ SubscriptionNotFound \in 0 .. 14 /\ InvalidArgument \in 0 .. 14
  BY DEF Internal, ClusterNotRegistered, SubscriptionNotFound, InvalidArgument
<1>w. /\ w = [clusters |-> w.clusters, subs |-> w.subs, seq |-> w.seq,
              tokens |-> w.tokens, draining |-> w.draining]
      /\ w.seq \in 1 .. MaxCalls + 2
  BY DEF IsWorker
<1>d. /\ Success(<<>>) \in OkVals(op) /\ op # "unsubscribe" => Legal(Done(w), op, w)
  BY <1>w, OkLegal DEF Done
<1>1. CASE op \in {"produce_fnf", "produce_sync"}
  <2>1. PICK ack \in {FnfAck, Ack} :
          /\ r \in OfCluster(req[1], w, {Ok(Success(ack), w)} \cup
                         {kafka_error_to_worker(code, w) : code \in DOMAIN KafkaError})
          /\ Success(ack) \in OkVals(op)
    BY <1>1 DEF dispatch_inner, handle_produce_fnf, handle_produce_req_inner, Produced, OkVals
  <2>2. Legal(Ok(Success(ack), w), op, w)
    BY <1>1, <1>w, <2>1, OkLegal
  <2> QED BY <1>1, <1>e, <1>k, <1>n, <2>1, <2>2 DEF OfCluster
<1>2. CASE op = "subscribe"
  <2>1. r \in OfCluster(req[1], w, {Backend(w), Ok(Success(<<w.seq>>),
                             [w EXCEPT !.subs = @ \cup {w.seq}, !.seq = @ + 1])})
    BY <1>2 DEF dispatch_inner, handle_subscribe
  <2>2. Success(<<w.seq>>) \in OkVals(op)
    BY <1>2, <1>w DEF OkVals
  <2>3. Legal(Ok(Success(<<w.seq>>), [w EXCEPT !.subs = @ \cup {w.seq}, !.seq = @ + 1]), op, w)
    <3> DEFINE v == [w EXCEPT !.subs = @ \cup {w.seq}, !.seq = @ + 1]
    <3>1. /\ v = [clusters |-> v.clusters, subs |-> v.subs, seq |-> v.seq,
                  tokens |-> v.tokens, draining |-> v.draining]
          /\ v.seq = w.seq + 1
      <4>1. v = [clusters |-> w.clusters, subs |-> w.subs \cup {w.seq}, seq |-> w.seq + 1,
                 tokens |-> w.tokens, draining |-> w.draining]
        BY <1>w, NewId, Zenon
      <4> HIDE DEF v
      <4> QED BY <4>1
    <3> HIDE DEF v
    <3>2. Legal(Ok(Success(<<w.seq>>), v), op, w)
      BY <1>2, <2>2, <3>1, OkLegal
    <3> QED BY <3>2 DEF v
  <2> QED BY <1>2, <1>e, <1>n, <2>1, <2>3 DEF OfCluster, Backend
<1>3. CASE op = "poll"
  <2>1. r \in OfSub(req[1], w, {Ok(Success(<<msgs>>), w) : msgs \in Batch} \cup
                     {ErrorResp(SubscriptionNotFound, [w EXCEPT !.subs = @ \ {req[1]}])})
    BY <1>3 DEF dispatch_inner, handle_poll
  <2>2. \A msgs \in Batch : Legal(Ok(Success(<<msgs>>), w), op, w)
    <3>1. \A msgs \in Batch : Success(<<msgs>>) \in OkVals(op)
      BY <1>3 DEF OkVals
    <3> QED BY <1>3, <1>w, <3>1, OkLegal
  <2>3. Legal(ErrorResp(SubscriptionNotFound, [w EXCEPT !.subs = @ \ {req[1]}]), op, w)
    <3> DEFINE v == [w EXCEPT !.subs = @ \ {req[1]}]
    <3>1. /\ v = [clusters |-> v.clusters, subs |-> v.subs, seq |-> v.seq,
                  tokens |-> v.tokens, draining |-> v.draining]
          /\ v.seq = w.seq
      BY <1>w
    <3> HIDE DEF v
    <3>2. Legal(ErrorResp(SubscriptionNotFound, v), op, v)
      BY <1>3, <1>n, <1>w, <3>1, ErrorLegal DEF IsWorker
    <3>3. Legal(ErrorResp(SubscriptionNotFound, v), op, w)
      BY <3>1, <3>2 DEF Legal
    <3> QED BY <3>3 DEF v
  <2> QED BY <1>3, <1>e, <1>n, <2>1, <2>2, <2>3 DEF OfSub
<1>4. CASE op \in {"commit", "seek", "pause_resume"}
  <2>1. r \in OfSub(req[1], w, {Done(w), Backend(w)})
    BY <1>4 DEF dispatch_inner, handle_commit, handle_seek, handle_pause_resume
  <2>2. Success(<<>>) \in OkVals(op)
    BY <1>4 DEF OkVals
  <2> QED BY <1>4, <1>d, <1>e, <1>n, <2>1, <2>2 DEF OfSub, Backend
<1>5. CASE op = "poll_rebalance"
  <2>1. r \in OfSub(req[1], w, {Ok(Success(<<events>>), w) : events \in Events})
    BY <1>5 DEF dispatch_inner, handle_poll_rebalance
  <2>2. \A events \in Events : Legal(Ok(Success(<<events>>), w), op, w)
    <3>1. \A events \in Events : Success(<<events>>) \in OkVals(op)
      BY <1>5 DEF OkVals
    <3> QED BY <1>5, <1>w, <3>1, OkLegal
  <2> QED BY <1>5, <1>e, <1>n, <2>1, <2>2 DEF OfSub
<1>6. CASE op \in {"send_offsets", "txn"}
  <2>1. r \in {ErrorResp(SubscriptionNotFound, w)} \/ r \in OfCluster(req[1], w, {Done(w), Backend(w)})
    BY <1>6 DEF dispatch_inner, handle_send_offsets, handle_txn
  <2>2. Success(<<>>) \in OkVals(op)
    BY <1>6 DEF OkVals
  <2> QED BY <1>6, <1>d, <1>e, <1>n, <2>1, <2>2 DEF OfCluster, Backend
<1>7. CASE op \in {"set_oauth", "register_cluster"}
  <2>1. PICK v \in {[w EXCEPT !.tokens = @ \cup {req[1]}], [w EXCEPT !.clusters = @ \cup {req[1]}]} :
          \/ r = Done(v) \/ r = ErrorResp(ClusterNotRegistered, w)
          \/ r = ErrorResp(InvalidArgument, w)
    BY <1>7 DEF dispatch_inner, handle_set_oauth_token, handle_register_cluster, OfCluster
  <2>2. Success(<<>>) \in OkVals(op)
    BY <1>7 DEF OkVals
  <2>3. /\ v = [clusters |-> v.clusters, subs |-> v.subs, seq |-> v.seq,
                tokens |-> v.tokens, draining |-> v.draining]
        /\ v.seq = w.seq
    BY <1>w
  <2>4. Legal(Done(v), op, w)
    BY <1>7, <2>2, <2>3, OkLegal DEF Done
  <2> QED BY <1>7, <1>e, <1>n, <2>1, <2>4
<1>8. CASE op = "unsubscribe"
  <2>1. r = Silent([w EXCEPT !.subs = @ \ {req[1]}])
    BY <1>8 DEF dispatch_inner, handle_unsubscribe
  <2> QED BY <1>w, <2>1 DEF Legal, Silent
<1> QED BY <1>1, <1>2, <1>3, <1>4, <1>5, <1>6, <1>7, <1>8, Ops

\* Every request, refused, undecodable, panicking or handled.
LEMMA DispatchLegal ==
    ASSUME NEW w, IsWorker(w), NEW op \in DOMAIN RpcOf, NEW d,
           NEW r \in dispatch(op, d, w)
    PROVE  Legal(r, op, w)
<1>1. CASE r = ErrorResp(WorkerDraining, w) /\ Refuses(op, w)
  BY <1>1, ErrorLegal DEF Refuses, WorkerDraining
<1>2. CASE r = Panicked(op, w)
  BY <1>2, PanicLegal
<1>3. CASE r = Undecodable(op, w)
  <2>1. CASE op = "unsubscribe"
    BY <1>3, <2>1 DEF Undecodable, Legal, Silent, IsWorker
  <2>2. CASE op # "unsubscribe"
    BY <1>3, <2>2, ErrorLegal DEF Undecodable, Protocol
  <2> QED BY <2>1, <2>2
<1>4. CASE r \in dispatch_inner(op, d.out, w)
  BY <1>4, HandlersLegal
<1> QED BY <1>1, <1>2, <1>3, <1>4 DEF dispatch

----------------------------------------------------------------------------
(* Steps of the extension                                                  *)

\* RightAnswer of one call.
Right(n) ==
    told[n] # None =>
        \/ /\ told[n].r = "ok" /\ sent[n].op = "unsubscribe"
        \/ /\ told[n].r = "ok"
           /\ done[n] = [tag |-> "ok", vals |-> told[n].vals]
        \/ /\ told[n].r = "KafkaException"
           /\ done[n] = [tag |-> "err", vals |-> told[n].vals]
        \/ /\ told[n].r = "Exception"
           /\ told[n].vals[1] \in {"Encode", "Pool", "Io"}
           /\ told[n].vals[1] = "Encode" => seen[n] = None

\* RightAnswer, call by call.
LEMMA RightFacts ==
    /\ RightAnswer <=> \A n \in Number : Right(n)
    /\ RightAnswer' <=> \A n \in Number : Right(n)'
BY DEF RightAnswer, Right

\* What is asked and answered stays with the call.
LEMMA RightKept ==
    ASSUME NEW n, Right(n), told'[n] = told[n], sent'[n] = sent[n], done'[n] = done[n],
           seen'[n] = seen[n]
    PROVE  Right(n)'
BY DEF Right

\* The number of the call in progress.
LEMMA Current ==
    ASSUME Types, Calling, call.at # "idle"
    PROVE  /\ Len(sent) \in Number /\ Number \subseteq Int /\ DOMAIN sent = 1 .. Len(sent)
           /\ sent[Len(sent)].op \in DOMAIN RpcOf /\ told[Len(sent)] = None
<1>1. Len(sent) \in Nat /\ DOMAIN sent = 1 .. Len(sent) /\ Len(sent) \in 1 .. Len(sent)
  BY DEF Types, Calling, Asks
<1>2. sent[Len(sent)] \in Request
  BY <1>1 DEF Types
<1> QED BY <1>1, <1>2, WireBounds, SampleAssumption DEF Types, Number, Calling, Request

\* A call that ends with an error of the extension's own.
LEMMA ToldError ==
    ASSUME Types, Calling, call.at # "idle", RightAnswer, Unencoded, NEW e,
           e \in {"Pool", "Io"}, Tell(ipc_err_to_php(e, <<>>)),
           UNCHANGED <<sent, done, seen, up>>
    PROVE  /\ RightAnswer' /\ Unencoded'
           /\ told' = [n \in Number |-> told'[n]]
           /\ \A n \in Number : n > Len(sent) => told'[n] = told[n]
<1>1. /\ Len(sent) \in Number /\ Number \subseteq Int
      /\ told' = [told EXCEPT ![Len(sent)] = [r |-> "Exception", vals |-> <<e>>]]
  BY Current DEF Tell, ipc_err_to_php
<1>2. /\ told'[Len(sent)] = [r |-> "Exception", vals |-> <<e>>]
      /\ \A n \in Number : n # Len(sent) => told'[n] = told[n]
      /\ told' = [n \in Number |-> told'[n]]
  BY <1>1 DEF Types
<1>3. RightAnswer'
  <2>1. Right(Len(sent))'
    BY <1>2 DEF Right
  <2>2. \A n \in Number : n # Len(sent) => Right(n)'
    BY <1>2, RightFacts, RightKept
  <2> QED BY <2>1, <2>2, RightFacts
<1>4. Unencoded'
  <2> SUFFICES ASSUME NEW n \in Number, told'[n] # None, told'[n].r = "Exception",
                      told'[n].vals[1] = "Encode"
               PROVE  ~Queued(n)'
    BY DEF Unencoded
  <2>1. n # Len(sent)
    BY <1>2
  <2> QED BY <1>2, <2>1 DEF Unencoded, Queued
<1> QED BY <1>1, <1>2, <1>3, <1>4

\* Every other step of the extension leaves the requests on their way and the
\* worker alone.
LEMMA SameQueues ==
    ASSUME Types, \A c \in Conn : Reading(c), Unique, Ids,
           UNCHANGED <<major, up, task, sent, seen, done, worker>>
    PROVE  /\ \A c \in Conn : Reading(c)'
           /\ Unique' /\ Ids' /\ \A n : Queued(n)' = Queued(n) /\ Fresh(n)' = Fresh(n)
           /\ \A f : Asks(f)' = Asks(f)
<1>1. \A n : Fresh(n)' = Fresh(n)
  BY DEF Fresh
<1>2. \A f : Asks(f)' = Asks(f)
  BY DEF Asks
<1>3. \A c \in Conn : Reading(c)'
  BY <1>1, <1>2 DEF Reading
<1>4. Unique'
  BY DEF Unique
<1>5. Ids'
  BY DEF Ids, Served
<1> QED BY <1>1, <1>2, <1>3, <1>4, <1>5 DEF Queued

\* The handshake ends on an empty connection.
LEMMA HelloDoneInv == ASSUME Inv, HelloDone PROVE Inv'
<1> USE DEF Inv
<1>1. /\ \A c \in Conn : Reading(c)'
      /\ Unique' /\ Ids' /\ \A n : Queued(n)' = Queued(n) /\ Fresh(n)' = Fresh(n)
      /\ \A f : Asks(f)' = Asks(f)
  BY SameQueues DEF HelloDone
<1>2. /\ call.at = "acquire" /\ conn # 0 /\ ~ready /\ down[conn] # <<>> /\ conn = Len(sent)
      /\ task[conn] = "serving" /\ up[conn] = <<>> /\ down[conn] = <<HelloOf(PROTOCOL_MAJOR)>>
  BY DEF HelloDone, Greeting
<1>3. /\ down' = [down EXCEPT ![conn] = <<>>] /\ conn \in Conn
      /\ conn' = conn /\ task' = task /\ up' = up /\ call' = call /\ sent' = sent /\ ready' = TRUE
  <2>1. Tail(<<HelloOf(PROTOCOL_MAJOR)>>) = <<>>
    BY Single
  <2> QED BY <1>2, <2>1 DEF HelloDone, Types
<1>4. Types'
  <2>1. UNCHANGED <<major, seen, done, told>>
    BY DEF HelloDone
  <2>2. down' = [c \in Conn |-> down'[c]]
    BY <1>3 DEF Types
  <2> QED BY <1>3, <2>1, <2>2 DEF Types
<1>5. Greeting' /\ Clean'
  BY <1>2, <1>3 DEF Greeting, Clean, Types, Unsubscribing
<1>6. Calling' /\ Future'
  BY <1>1, <1>2, <1>3 DEF Calling, Future, HelloDone
<1>7. RightAnswer' /\ Unencoded'
  BY <1>1, RightFacts, RightKept DEF HelloDone, Unencoded
<1> QED BY <1>1, <1>4, <1>5, <1>6, <1>7

\* A handshake that fails costs the connection.
LEMMA HelloFailsInv == ASSUME Inv, HelloFails PROVE Inv'
<1> USE DEF Inv
<1>1. /\ \A c \in Conn : Reading(c)'
      /\ Unique' /\ Ids' /\ \A n : Queued(n)' = Queued(n) /\ Fresh(n)' = Fresh(n)
  BY SameQueues DEF HelloFails
<1>2. /\ RightAnswer' /\ Unencoded'
      /\ told' = [n \in Number |-> told'[n]]
      /\ \A n \in Number : n > Len(sent) => told'[n] = told[n]
  BY ToldError DEF HelloFails
<1>3. /\ conn' = 0 /\ ready' = FALSE /\ call' = Idle /\ sent' = sent
      /\ down' = down /\ task' = task
  BY DEF HelloFails, Drop, Ended
<1>4. Types'
  BY <1>2, <1>3 DEF HelloFails, Types, Idle
<1>5. Greeting' /\ Clean' /\ Calling' /\ Future'
  BY <1>1, <1>2, <1>3 DEF Greeting, Clean, Calling, Future, Idle
<1> QED BY <1>1, <1>2, <1>4, <1>5

\* A read that fails costs the connection, with the answer that may still come.
LEMMA RecvFailsInv == ASSUME Inv, RecvFails PROVE Inv'
<1> USE DEF Inv
<1>1. /\ \A c \in Conn : Reading(c)'
      /\ Unique' /\ Ids' /\ \A n : Queued(n)' = Queued(n) /\ Fresh(n)' = Fresh(n)
  BY SameQueues DEF RecvFails
<1>2. /\ RightAnswer' /\ Unencoded'
      /\ told' = [n \in Number |-> told'[n]]
      /\ \A n \in Number : n > Len(sent) => told'[n] = told[n]
  BY ToldError DEF RecvFails
<1>3. /\ conn' = 0 /\ ready' = FALSE /\ call' = Idle /\ sent' = sent
      /\ down' = down /\ task' = task
  BY DEF RecvFails, Drop, Ended
<1>4. Types'
  BY <1>2, <1>3 DEF RecvFails, Types, Idle
<1>5. Greeting' /\ Clean' /\ Calling' /\ Future'
  BY <1>1, <1>2, <1>3 DEF Greeting, Clean, Calling, Future, Idle
<1> QED BY <1>1, <1>2, <1>4, <1>5

\* A connection that the worker has ended is never one of this very call.
LEMMA DiscardInv == ASSUME Inv, Discard PROVE Inv'
<1> USE DEF Inv
<1>1. /\ \A c \in Conn : Reading(c)'
      /\ Unique' /\ Ids' /\ \A n : Queued(n)' = Queued(n) /\ Fresh(n)' = Fresh(n)
      /\ \A f : Asks(f)' = Asks(f)
  BY SameQueues DEF Discard
<1>2. /\ conn' = 0 /\ ready' = FALSE /\ call' = call /\ sent' = sent /\ told' = told
      /\ task' = task /\ down' = down /\ call.at = "acquire" /\ ready
  BY DEF Discard, Drop
\* A connection of this very call is in use and empty.
<1>3. conn # Len(sent) /\ Len(sent) # 0
  BY <1>2, Current DEF Discard, Calling, Clean, Number
<1>4. Types'
  BY <1>2 DEF Discard, Types
<1>5. Greeting' /\ Clean' /\ Calling' /\ Future'
  BY <1>1, <1>2, <1>3 DEF Greeting, Clean, Calling, Future
<1>7. RightAnswer' /\ Unencoded'
  BY <1>1, RightFacts, RightKept DEF Discard, Unencoded
<1> QED BY <1>1, <1>4, <1>5, <1>7

\* What the worker has to read is of the calls made so far.
LEMMA QueuedKnown ==
    ASSUME Types, \A c \in Conn : Reading(c)
    PROVE  /\ \A c \in Conn : \A i \in DOMAIN up[c] : up[c][i].call \in 0 .. Len(sent)
           /\ \A n : Queued(n) => n \in 0 .. Len(sent)
<1>1. ASSUME NEW c \in Conn, NEW i \in DOMAIN up[c] PROVE up[c][i].call \in 0 .. Len(sent)
  <2>0. Len(sent) \in Nat /\ task[c] \in {"none", "hello", "serving", "gone"}
    BY DEF Types
  <2>1. CASE task[c] = "none"
    BY <2>1 DEF Reading
  <2>2. CASE task[c] = "hello"
    BY <2>0, <2>2 DEF Reading, HelloOf, Frame
  <2>3. CASE task[c] \in {"serving", "gone"}
    BY <2>0, <2>3 DEF Reading, Asks
  <2> QED BY <2>0, <2>1, <2>2, <2>3
<1> QED BY <1>1 DEF Queued

\* What is recorded of a call.
LEMMA RequestOf ==
    \A s \in Sample : \A b \in BOOLEAN : [op |-> s.op, vals |-> s.vals, cut |-> b] \in Request
<1> SUFFICES ASSUME NEW s \in Sample, NEW b \in BOOLEAN
             PROVE  [op |-> s.op, vals |-> s.vals, cut |-> b] \in Request
  OBVIOUS
<1> DEFINE Of(t, x) == [op |-> t.op, vals |-> t.vals, cut |-> x]
<1>1. Request = {Of(t, x) : t \in Sample, x \in BOOLEAN}
  BY DEF Request
<1> HIDE DEF Of
<1>2. Of(s, b) \in Request
  BY <1>1
<1> QED BY <1>2 DEF Of

\* A new call: the worker knows nothing of it yet.
LEMMA CallInv == ASSUME Inv, NEW s \in Sample, Call(s) PROVE Inv'
<1> USE DEF Inv
<1> DEFINE m == Len(sent)
<1>0. PICK nx \in Nat : nx = Len(sent) + 1
  BY DEF Types
<1> DEFINE bytes == encode(RpcOf[s.op].out, s.vals)
<1>1. /\ call.at = "idle" /\ m \in Nat /\ nx = m + 1 /\ nx \in Number /\ Number \subseteq Int
      /\ DOMAIN sent = 1 .. m /\ Conn = Number
  BY <1>0, WireBounds DEF Call, Types, Number, Conn
<1>2. UNCHANGED <<major, conn, ready, up, down, task, seen, done, worker>>
  BY DEF Call
<1>3. PICK rq \in Request :
        /\ sent' = Append(sent, rq)
        /\ rq.op = s.op /\ rq.vals = s.vals
        /\ \/ /\ call' = call
              /\ told' = [told EXCEPT ![nx] = [r |-> "Exception", vals |-> <<"Encode">>]]
           \/ /\ told' = told /\ call'.at = "acquire"
              /\ call' = [frame |-> call'.frame, at |-> call'.at]
              /\ call'.frame.call = nx /\ call'.frame.kind = RpcOf[rq.op].kind
              /\ Carries(call'.frame.payload, rq)
  <2>1. CASE Unsendable(bytes)
    <3>1. [op |-> s.op, vals |-> s.vals, cut |-> FALSE] \in Request
      BY RequestOf
    <3> QED BY <1>1, <2>1, <3>1 DEF Call, ipc_err_to_php
  <2>2. CASE ~Unsendable(bytes)
    <3>0. Len(bytes) \in Nat
      BY CodecAssumption, Reseq DEF IsSeq
    <3>1. PICK k \in 0 .. Len(bytes) :
            /\ sent' = Append(sent, [op |-> s.op, vals |-> s.vals, cut |-> k < Len(bytes)])
            /\ call' = [frame |-> Frame(RpcOf[s.op].kind, IF s.op = "unsubscribe" THEN 0 ELSE cid,
                                        SubSeq(bytes, 1, k), nx), at |-> "acquire"]
            /\ told' = told
      BY <1>1, <2>2, <3>0 DEF Call
    <3> DEFINE rq == [op |-> s.op, vals |-> s.vals, cut |-> k < Len(bytes)]
    <3>2. rq \in Request
      <4>1. (k < Len(bytes)) \in BOOLEAN
        OBVIOUS
      <4> QED BY <4>1, RequestOf, Zenon
    <3>3. rq.op = s.op /\ rq.vals = s.vals /\ rq.cut = (k < Len(bytes))
      OBVIOUS
    <3>4. Carries(SubSeq(bytes, 1, k), rq)
      BY <2>2, <3>3 DEF Carries
    <3> HIDE DEF rq
    <3>5. /\ call'.at = "acquire" /\ call' = [frame |-> call'.frame, at |-> call'.at]
          /\ call'.frame.call = nx /\ call'.frame.kind = RpcOf[rq.op].kind
          /\ call'.frame.payload = SubSeq(bytes, 1, k)
      BY <3>1, <3>3 DEF Frame
    <3>6. sent' = Append(sent, rq)
      BY <3>1 DEF rq
    <3> QED BY <3>1, <3>2, <3>3, <3>4, <3>5, <3>6
  <2> QED BY <2>1, <2>2
<1> HIDE DEF bytes
<1>4. /\ sent' \in Seq(Request) /\ Len(sent') = nx /\ DOMAIN sent' = 1 .. nx
      /\ \A i \in 1 .. m : sent'[i] = sent[i]
      /\ sent'[nx] = rq
  BY <1>1, <1>3 DEF Types
<1>5. /\ \A f : Asks(f) => Asks(f)'
      /\ \A n : Fresh(n)' = Fresh(n) /\ Queued(n)' = Queued(n)
  BY <1>1, <1>2, <1>4 DEF Asks, Fresh, Queued
<1>6. ~Queued(nx) /\ Fresh(nx) /\ told[nx] = None
  BY <1>1, QueuedKnown DEF Future
<1>7. ASSUME NEW c \in Conn PROVE Reading(c)'
  <2>1. c > Len(sent') => c > Len(sent)
    <3>1. c \in Int
      BY <1>1
    <3>2. Len(sent') = Len(sent) + 1 /\ Len(sent) \in Nat
      BY <1>1, <1>4
    <3> QED BY <3>1, <3>2
  <2>2. task'[c] \in {"serving", "gone"} =>
          \A i \in DOMAIN up'[c] : Asks(up[c][i])' /\ Fresh(up[c][i].call)'
    BY <1>2, <1>5 DEF Reading
  <2> QED BY <1>2, <2>1, <2>2 DEF Reading
<1>8. Unique' /\ Ids'
  BY <1>2 DEF Unique, Ids, Served
<1>9. /\ call' = [frame |-> call'.frame, at |-> call'.at] /\ call'.at \in {"idle", "acquire"}
      /\ told' = [n \in Number |-> told'[n]]
      /\ \A n \in Number : n # nx => told'[n] = told[n]
  BY <1>1, <1>3 DEF Types
<1>10. Types'
  BY <1>1, <1>2, <1>4, <1>9 DEF Types, Number
<1>11. Greeting' /\ Clean'
  BY <1>1, <1>2, <1>4, <1>9 DEF Greeting, Clean, Unsubscribing
<1>12. conn # nx /\ task[nx] = "none"
  BY <1>1 DEF Reading, Greeting, Clean, Types
<1>13. Calling'
  <2>1. CASE call' = call
    BY <1>1, <2>1 DEF Calling
  <2>2. CASE call'.at = "acquire" /\ told' = told /\ call'.frame.call = nx
             /\ call'.frame.kind = RpcOf[rq.op].kind /\ Carries(call'.frame.payload, rq)
    <3>1. Asks(call.frame)'
      BY <1>1, <1>4, <2>2 DEF Asks
    <3>2. /\ ~Queued(nx)' /\ Fresh(nx)'
      BY <1>5, <1>6
    <3> QED BY <1>2, <1>4, <1>6, <1>12, <2>2, <3>1, <3>2 DEF Calling
  <2> QED BY <1>3, <2>1, <2>2
<1>14. Future'
  BY <1>1, <1>2, <1>4, <1>5, <1>9 DEF Future
<1>15. Right(nx)' /\ Unencoded'
  <2>1. Right(nx)'
    <3>1. CASE told'[nx] = [r |-> "Exception", vals |-> <<"Encode">>]
      BY <1>2, <1>6, <3>1 DEF Right, Fresh
    <3>2. CASE told' = told
      BY <1>6, <3>2 DEF Right
    <3>3. told'[nx] = [r |-> "Exception", vals |-> <<"Encode">>] \/ told' = told
      BY <1>1, <1>3 DEF Types
    <3> QED BY <3>1, <3>2, <3>3
  <2>2. Unencoded'
    BY <1>5, <1>6, <1>9 DEF Unencoded
  <2> QED BY <2>1, <2>2
<1>16. RightAnswer'
  <2>1. ASSUME NEW n \in Number, n # nx PROVE Right(n)'
    <3>1. CASE n \in 1 .. m
      BY <1>2, <1>4, <1>9, <2>1, <3>1, RightFacts, RightKept
    <3>2. CASE n \notin 1 .. m
      <4>1. told'[n] = None
        BY <1>1, <1>9, <2>1, <3>2 DEF Future, Number
      <4> QED BY <4>1 DEF Right
    <3> QED BY <3>1, <3>2
  <2> QED BY <1>15, <2>1, RightFacts
<1> QED BY <1>7, <1>8, <1>10, <1>11, <1>13, <1>14, <1>15, <1>16

\* A connection of a call is a new one.
LEMMA ConnectInv == ASSUME Inv, Connect PROVE Inv'
<1> USE DEF Inv
<1>0. PICK c \in Conn : c = Len(sent)
  BY Current DEF Connect, Conn
<1>1. /\ call.at = "acquire" /\ conn = 0 /\ c # 0 /\ task[c] = "none"
      /\ Number \subseteq Int /\ Conn = Number /\ Len(sent) \in Nat
  BY <1>0, Current DEF Connect, Calling, Conn, Number
<1>2. /\ conn' = c /\ ready' = FALSE /\ task' = [task EXCEPT ![c] = "hello"]
      /\ up' = [up EXCEPT ![c] = <<HelloOf(major)>>]
      /\ UNCHANGED <<major, down, call, sent, seen, done, told, cid, worker>>
  BY <1>0 DEF Connect, HelloOf
<1>3. /\ up'[c] = <<HelloOf(major)>> /\ up[c] = <<>>
      /\ \A d \in Conn : d # c => up'[d] = up[d] /\ task'[d] = task[d]
      /\ DOMAIN up' = Conn /\ up' = [d \in Conn |-> up'[d]]
      /\ task' \in [Conn -> {"none", "hello", "serving", "gone"}] /\ task'[c] = "hello"
  BY <1>1, <1>2 DEF Types, Reading
<1>4. \A d \in Conn : \A i \in DOMAIN up'[d] :
        up'[d][i].call # 0 => d # c /\ i \in DOMAIN up[d] /\ up'[d][i] = up[d][i]
  BY <1>3 DEF HelloOf, Frame
<1>5. /\ \A n : Fresh(n)' = Fresh(n)
      /\ \A f : Asks(f)' = Asks(f)
      /\ \A n : n # 0 => (Queued(n)' => Queued(n))
  BY <1>2, <1>4 DEF Fresh, Asks, Queued
<1>6. Types'
  <2>1. IsSeq(<<HelloOf(major)>>)
    BY DEF IsSeq
  <2> QED BY <1>1, <1>2, <1>3, <2>1 DEF Types
<1>7. ASSUME NEW d \in Conn PROVE Reading(d)'
  <2>1. CASE d = c
    BY <1>0, <1>1, <1>2, <1>3, <2>1 DEF Reading
  <2>2. CASE d # c
    BY <1>2, <1>3, <1>5, <2>2 DEF Reading
  <2> QED BY <2>1, <2>2
<1>8. Unique'
  BY <1>4 DEF Unique
<1>9. Ids' /\ Future' /\ RightAnswer'
  BY <1>2, <1>3, <1>5, RightFacts, RightKept DEF Ids, Served, Future
<1>10. Unencoded'
  BY <1>1, <1>2, <1>5 DEF Unencoded, Number
<1>11. Greeting' /\ Clean'
  <2>1. down[c] = <<>>
    BY <1>1 DEF Future
  <2> QED BY <1>0, <1>1, <1>2, <1>3, <2>1 DEF Greeting, Clean
<1>12. Calling'
  BY <1>0, <1>1, <1>2, <1>3, <1>5 DEF Calling
<1> QED BY <1>6, <1>7, <1>8, <1>9, <1>10, <1>11, <1>12

\* The frame of the call in progress is written.
LEMMA WriteInv == ASSUME Inv, Write PROVE Inv'
<1> USE DEF Inv
<1>0. PICK m \in Number : m = Len(sent)
  BY Current DEF Write
<1>1. /\ call.at = "acquire" /\ ready /\ conn \in Conn /\ task[conn] = "serving"
      /\ Number \subseteq Int /\ Conn = Number /\ m \in 1 .. Len(sent)
      /\ Asks(call.frame) /\ call.frame.call = m /\ ~Queued(m) /\ Fresh(m) /\ told[m] = None
      /\ down[conn] = <<>> /\ Unsubscribing(conn) /\ sent[m].op \in DOMAIN RpcOf
  BY <1>0, Current DEF Write, Calling, Conn, Number, Types, Clean
<1>2. /\ up' = [up EXCEPT ![conn] = Append(@, call.frame)]
      /\ UNCHANGED <<major, conn, ready, down, task, sent, seen, done, cid, worker>>
  BY DEF Write
<1>3. /\ DOMAIN up' = Conn /\ up' = [d \in Conn |-> up'[d]]
      /\ up'[conn] = Append(up[conn], call.frame)
      /\ \A d \in Conn : d # conn => up'[d] = up[d]
  BY <1>1, <1>2 DEF Types
<1>4. PICK len \in Nat :
        /\ DOMAIN up[conn] = 1 .. len /\ DOMAIN up'[conn] = 1 .. len + 1
        /\ \A i \in 1 .. len : up'[conn][i] = up[conn][i]
        /\ up'[conn][len + 1] = call.frame
        /\ IsSeq(up'[conn])
  <2> DEFINE s == up[conn]
  <2>1. IsSeq(s)
    BY <1>1 DEF Types
  <2> HIDE DEF s
  <2>2. /\ DOMAIN s = 1 .. Len(s) /\ Len(s) \in Nat
        /\ DOMAIN Append(s, call.frame) = 1 .. Len(s) + 1
        /\ \A i \in DOMAIN s : Append(s, call.frame)[i] = s[i]
        /\ Append(s, call.frame)[Len(s) + 1] = call.frame
        /\ IsSeq(Append(s, call.frame))
    BY <2>1, Appended
  <2>3. up'[conn] = Append(s, call.frame)
    BY <1>3 DEF s
  <2>4. /\ DOMAIN s = 1 .. Len(s) /\ DOMAIN up'[conn] = 1 .. Len(s) + 1
        /\ \A i \in 1 .. Len(s) : up'[conn][i] = s[i]
        /\ up'[conn][Len(s) + 1] = call.frame
        /\ IsSeq(up'[conn])
    BY <2>2, <2>3
  <2> QED BY <2>2, <2>4 DEF s
\* Every frame is one of before or the one of the call.
<1>5. \A d \in Conn : \A i \in DOMAIN up'[d] :
        \/ d = conn /\ i = len + 1 /\ up'[d][i] = call.frame
        \/ i \in DOMAIN up[d] /\ up'[d][i] = up[d][i]
  <2>1. \A i \in 1 .. len + 1 : i = len + 1 \/ i \in 1 .. len
    OBVIOUS
  <2> QED BY <1>3, <1>4, <2>1
<1>6. /\ \A n : Fresh(n)' = Fresh(n)
      /\ \A f : Asks(f)' = Asks(f)
      /\ \A n : n # m => (Queued(n)' => Queued(n))
      /\ \A d \in Conn : \A i \in DOMAIN up[d] : up[d][i].call # m
  BY <1>1, <1>2, <1>5 DEF Fresh, Asks, Queued
<1>7. ASSUME NEW d \in Conn PROVE Reading(d)'
  <2>1. CASE d = conn
    <3>1. \A i \in DOMAIN up'[conn] : Asks(up[conn][i])' /\ Fresh(up[conn][i].call)'
      BY <1>1, <1>2, <1>5, <1>6 DEF Reading
    <3> QED BY <1>1, <1>2, <2>1, <3>1 DEF Reading
  <2>2. CASE d # conn
    BY <1>2, <1>3, <1>6, <2>2 DEF Reading
  <2> QED BY <2>1, <2>2
<1>8. Unique'
  BY <1>1, <1>5, <1>6 DEF Unique
<1>9. CASE call.frame.kind = "Unsubscribe"
  <2>1. /\ call' = Idle /\ told' = [told EXCEPT ![m] = [r |-> "ok", vals |-> <<>>]]
    BY <1>0, <1>9 DEF Write, Ended, Tell
  <2>2. sent[m].op = "unsubscribe"
    BY <1>1, <1>9, Kinds DEF Asks
  <2>3. /\ told'[m] = [r |-> "ok", vals |-> <<>>]
        /\ \A n \in Number : n # m => told'[n] = told[n]
        /\ told' = [n \in Number |-> told'[n]]
    BY <2>1 DEF Types
  <2>4. Types'
    BY <1>2, <1>3, <1>4, <2>1, <2>3 DEF Types, Idle
  <2>5. Greeting' /\ Calling' /\ Ids'
    BY <1>1, <1>2, <2>1 DEF Greeting, Calling, Idle, Ids, Served
  <2>6. Clean'
    <3>1. \A i \in DOMAIN up'[conn] : up'[conn][i].kind = "Unsubscribe"
      BY <1>1, <1>5, <1>9 DEF Unsubscribing
    <3> QED BY <1>1, <1>2, <2>1, <3>1 DEF Clean, Unsubscribing, Idle
  <2>7. Future'
    BY <1>0, <1>1, <1>2, <1>6, <2>3 DEF Future
  <2>8. RightAnswer'
    <3>1. Right(m)'
      BY <1>2, <2>2, <2>3 DEF Right
    <3>2. \A n \in Number : n # m => Right(n)'
      BY <1>2, <2>3, RightFacts, RightKept
    <3> QED BY <3>1, <3>2, RightFacts
  <2>9. Unencoded'
    BY <1>6, <2>3 DEF Unencoded
  <2> QED BY <1>7, <1>8, <2>4, <2>5, <2>6, <2>7, <2>8, <2>9
<1>10. CASE call.frame.kind # "Unsubscribe"
  <2>1. /\ call' = [call EXCEPT !.at = "wait"] /\ told' = told
    BY <1>10 DEF Write
  <2>2. /\ call'.frame = call.frame /\ call'.at = "wait"
        /\ call' = [frame |-> call'.frame, at |-> call'.at]
    BY <2>1 DEF Types
  <2>3. sent[m].op # "unsubscribe"
    BY <1>1, <1>10, Kinds DEF Asks
  <2>4. Types'
    BY <1>2, <1>3, <1>4, <2>1, <2>2 DEF Types
  <2>5. Greeting' /\ Ids' /\ Future'
    BY <1>1, <1>2, <1>6, <2>1 DEF Greeting, Ids, Served, Future
  <2>6. Calling'
    BY <1>0, <1>1, <1>2, <1>6, <2>1, <2>2, <2>3 DEF Calling
  <2>7. Clean'
    <3>1. \A i \in DOMAIN up'[conn] :
            up'[conn][i] = call.frame \/ up'[conn][i].kind = "Unsubscribe"
      BY <1>1, <1>5 DEF Unsubscribing
    <3> QED BY <1>1, <1>2, <2>2, <3>1 DEF Clean
  <2>8. RightAnswer' /\ Unencoded'
    BY <1>1, <1>2, <1>6, <2>1, RightFacts, RightKept DEF Unencoded
  <2> QED BY <1>7, <1>8, <2>4, <2>5, <2>6, <2>7, <2>8
<1> QED BY <1>9, <1>10

\* An answer is read as the handler gave it.
LEMMA AnswerRead ==
    ASSUME Types, NEW n \in DOMAIN sent, sent[n].op \in DOMAIN RpcOf, NEW f, Carried(f, n)
    PROVE  \/ /\ f.kind = "Error" /\ done[n].tag = "err"
              /\ decode(Error_in, Decoder(f.payload)) = Decoded(done[n].vals)
              /\ PrefixFree(Error_in, f.payload)
           \/ /\ f.kind = RpcOf[sent[n].op].resp /\ f.kind # "Error" /\ done[n].tag = "ok"
              /\ decode(RpcOf[sent[n].op].rin, Decoder(f.payload)) = Decoded(done[n].vals)
              /\ PrefixFree(RpcOf[sent[n].op].rin, f.payload)
BY CodecAssumption, Kinds DEF Carried, RoundTrip

\* The answer that is read is the one of the call, as its handler gave it.
LEMMA RecvInv == ASSUME Inv, Recv PROVE Inv'
<1> USE DEF Inv
<1>0. PICK m \in Number : m = Len(sent)
  BY Current DEF Recv
<1>1. /\ call.at = "wait" /\ ready /\ conn \in Conn /\ down[conn] # <<>>
      /\ Number \subseteq Int /\ Conn = Number /\ m \in DOMAIN sent
      /\ sent[m].op \in DOMAIN RpcOf /\ sent[m].op # "unsubscribe"
  BY <1>0, Current DEF Recv, Calling, Conn, Number, Types, Clean
<1>2. PICK f : /\ down[conn] = <<f>> /\ f.cid = call.frame.cid /\ Carried(f, m)
               /\ Unsubscribing(conn)
  BY <1>0, <1>1 DEF Clean
<1>3. /\ Head(down[conn]) = f /\ Tail(down[conn]) = <<>>
  BY <1>2, Single
<1>4. /\ UNCHANGED <<major, up, task, sent, seen, done, cid, worker>>
      /\ call' = Idle /\ down' = [down EXCEPT ![conn] = <<>>] /\ Answered(f)
  BY <1>3 DEF Recv, Ended
<1>5. /\ \A c \in Conn : Reading(c)'
      /\ Unique' /\ Ids' /\ \A n : Queued(n)' = Queued(n) /\ Fresh(n)' = Fresh(n)
  BY <1>4, SameQueues
<1>6. PICK res :
        /\ conn' = conn /\ ready' = ready /\ told' = [told EXCEPT ![m] = res]
        /\ \/ res = [r |-> "ok", vals |-> done[m].vals] /\ done[m].tag = "ok"
           \/ res = [r |-> "KafkaException", vals |-> done[m].vals] /\ done[m].tag = "err"
  <2>1. CASE /\ f.kind = "Error" /\ done[m].tag = "err"
             /\ decode(Error_in, Decoder(f.payload)) = Decoded(done[m].vals)
    <3>1. /\ decode(Error_in, Decoder(f.payload)).err = ""
          /\ decode(Error_in, Decoder(f.payload)).out = done[m].vals
      BY <2>1, DecodedFields
    <3>2. conn' = conn /\ ready' = ready /\ Tell(ipc_err_to_php("Worker", done[m].vals))
      BY <1>2, <1>4, <2>1, <3>1 DEF Answered
    <3> QED BY <1>0, <2>1, <3>2 DEF Tell, ipc_err_to_php
  <2>2. CASE /\ f.kind = RpcOf[sent[m].op].resp /\ f.kind # "Error" /\ done[m].tag = "ok"
             /\ decode(RpcOf[sent[m].op].rin, Decoder(f.payload)) = Decoded(done[m].vals)
    <3> DEFINE d == decode(RpcOf[sent[m].op].rin, Decoder(f.payload))
    <3>1. d.err = "" /\ d.out = done[m].vals
      BY <2>2, DecodedFields
    <3>2. conn' = conn /\ ready' = ready /\ Tell([r |-> "ok", vals |-> d.out])
      BY <1>0, <1>2, <1>4, <2>2, <3>1 DEF Answered
    <3> HIDE DEF d
    <3> QED BY <1>0, <2>2, <3>1, <3>2 DEF Tell
  <2> QED BY <1>1, <1>2, <2>1, <2>2, AnswerRead
<1>7. /\ told'[m] = res /\ told' = [n \in Number |-> told'[n]]
      /\ \A n \in Number : n # m => told'[n] = told[n]
  BY <1>6 DEF Types
<1>8. down' = [c \in Conn |-> down'[c]] /\ down'[conn] = <<>>
      /\ \A c \in Conn : c # conn => down'[c] = down[c]
  BY <1>1, <1>4 DEF Types
<1>9. Types'
  BY <1>4, <1>6, <1>7, <1>8 DEF Types, Idle
<1>10. Greeting' /\ Calling' /\ Clean'
  BY <1>1, <1>2, <1>4, <1>6, <1>8 DEF Greeting, Calling, Clean, Unsubscribing, Idle
<1>11. Future'
  BY <1>0, <1>1, <1>4, <1>5, <1>7, <1>8 DEF Future
<1>12. RightAnswer'
  <2>1. done[m] = [tag |-> done[m].tag, vals |-> done[m].vals]
    BY DEF Types
  <2>2. Right(m)'
    BY <1>4, <1>6, <1>7, <2>1 DEF Right
  <2>3. \A n \in Number : n # m => Right(n)'
    BY <1>4, <1>7, RightFacts, RightKept
  <2> QED BY <2>2, <2>3, RightFacts
<1>13. Unencoded'
  BY <1>5, <1>6, <1>7 DEF Unencoded
<1> QED BY <1>5, <1>9, <1>10, <1>11, <1>12, <1>13

----------------------------------------------------------------------------
(* Steps of the worker                                                     *)

\* A frame is read: those behind it move up.
LEMMA Taken ==
    ASSUME Types, Unique, NEW c \in Conn, up[c] # <<>>, TakeFrame(c)
    PROVE  /\ DOMAIN up' = Conn /\ up' = [d \in Conn |-> up'[d]]
           /\ \A d \in Conn : IsSeq(up'[d]) /\ (d # c => up'[d] = up[d])
           /\ \A d \in Conn : \A i \in DOMAIN up'[d] :
                \E j \in DOMAIN up[d] : /\ up'[d][i] = up[d][j]
                                        /\ d = c => j # 1
           /\ Unique'
           /\ \A n : Queued(n)' => Queued(n)
           /\ Head(up[c]) = up[c][1] /\ 1 \in DOMAIN up[c]
           /\ \A n : n = up[c][1].call /\ n # 0 => ~Queued(n)'
<1>1. /\ DOMAIN up' = Conn /\ up' = [d \in Conn |-> up'[d]] /\ up'[c] = Tail(up[c])
      /\ \A d \in Conn : d # c => up'[d] = up[d]
  BY DEF Types, TakeFrame
<1>2. /\ IsSeq(up'[c]) /\ DOMAIN up'[c] \subseteq Nat \ {0}
      /\ Head(up[c]) = up[c][1] /\ 1 \in DOMAIN up[c]
      /\ \A i \in DOMAIN up'[c] : i + 1 \in DOMAIN up[c] /\ up'[c][i] = up[c][i + 1]
  <2> DEFINE s == up[c]
  <2>1. IsSeq(s) /\ s # <<>>
    BY DEF Types
  <2> HIDE DEF s
  <2>2. /\ IsSeq(Tail(s)) /\ Head(s) = s[1] /\ 1 \in DOMAIN s /\ Len(s) \in Nat
        /\ DOMAIN Tail(s) = 1 .. Len(s) - 1
        /\ \A i \in DOMAIN Tail(s) : i + 1 \in DOMAIN s /\ Tail(s)[i] = s[i + 1]
    BY <2>1, Tailed
  <2>3. up'[c] = Tail(s)
    BY <1>1 DEF s
  <2> QED BY <2>2, <2>3 DEF s
\* Where a frame of now was before.
<1>3. ASSUME NEW d \in Conn, NEW i \in DOMAIN up'[d]
      PROVE  IF d = c THEN /\ i + 1 \in DOMAIN up[d] /\ up'[d][i] = up[d][i + 1]
                           /\ i \in Nat \ {0}
             ELSE i \in DOMAIN up[d] /\ up'[d][i] = up[d][i]
  BY <1>1, <1>2
<1>4. \A d \in Conn : \A i \in DOMAIN up'[d] :
         \E j \in DOMAIN up[d] : up'[d][i] = up[d][j] /\ (d = c => j # 1)
  <2> SUFFICES ASSUME NEW d \in Conn, NEW i \in DOMAIN up'[d]
               PROVE  \E j \in DOMAIN up[d] : up'[d][i] = up[d][j] /\ (d = c => j # 1)
    OBVIOUS
  <2>1. CASE d = c
    <3>1. i + 1 \in DOMAIN up[d] /\ up'[d][i] = up[d][i + 1] /\ i + 1 # 1
      BY <1>3, <2>1
    <3> QED BY <3>1
  <2>2. CASE d # c
    BY <1>3, <2>2
  <2> QED BY <2>1, <2>2
<1>5. Unique'
  <2> SUFFICES ASSUME NEW a \in Conn, NEW b \in Conn, NEW i \in DOMAIN up'[a],
                      NEW j \in DOMAIN up'[b], up'[a][i].call # 0,
                      up'[a][i].call = up'[b][j].call
               PROVE  a = b /\ i = j
    BY DEF Unique
  <2>1. CASE a = c /\ b = c
    <3>1. i + 1 = j + 1
      BY <1>3, <2>1 DEF Unique
    <3> QED BY <1>3, <2>1, <3>1
  <2>2. CASE a = c /\ b # c
    BY <1>3, <2>2 DEF Unique
  <2>3. CASE a # c /\ b = c
    BY <1>3, <2>3 DEF Unique
  <2>4. CASE a # c /\ b # c
    BY <1>3, <2>4 DEF Unique
  <2> QED BY <2>1, <2>2, <2>3, <2>4
<1>6. \A n : Queued(n)' => Queued(n)
  BY <1>4 DEF Queued
<1>7. \A n : n = up[c][1].call /\ n # 0 => ~Queued(n)'
  BY <1>2, <1>4 DEF Queued, Unique
<1>8. \A d \in Conn : IsSeq(up'[d]) /\ (d # c => up'[d] = up[d])
  BY <1>1, <1>2 DEF Types
<1> QED BY <1>1, <1>2, <1>4, <1>5, <1>6, <1>7, <1>8, Zenon

\* A task ends when its connection is dropped.
LEMMA TaskEndsInv == ASSUME Inv, NEW c \in Conn, TaskEnds(c) PROVE Inv'
<1> USE DEF Inv
<1>1. /\ task[c] \in {"hello", "serving"} /\ up[c] = <<>> /\ conn # c
      /\ task' = [task EXCEPT ![c] = "gone"]
      /\ UNCHANGED <<major, conn, ready, call, sent, told, cid, up, down, seen, done, worker>>
  BY DEF TaskEnds, Close, client
<1>2. /\ task' \in [Conn -> {"none", "hello", "serving", "gone"}] /\ task'[c] = "gone"
      /\ \A d \in Conn : d # c => task'[d] = task[d]
  BY <1>1 DEF Types
<1>3. /\ \A n : Queued(n)' = Queued(n) /\ Fresh(n)' = Fresh(n)
      /\ \A f : Asks(f)' = Asks(f)
  BY <1>1 DEF Queued, Fresh, Asks
<1>4. Types'
  BY <1>1, <1>2 DEF Types
<1>5. ASSUME NEW d \in Conn PROVE Reading(d)'
  <2>1. CASE d = c
    BY <1>1, <1>2, <2>1 DEF Reading
  <2>2. CASE d # c
    BY <1>1, <1>2, <1>3, <2>2 DEF Reading
  <2> QED BY <2>1, <2>2
<1>6. Unique' /\ Ids' /\ Future' /\ Unencoded' /\ RightAnswer'
  BY <1>1, <1>2, <1>3, RightFacts, RightKept DEF Unique, Ids, Served, Future, Unencoded
<1>7. Greeting' /\ Clean'
  BY <1>1, <1>2 DEF Greeting, Clean, Unsubscribing, Types, Carried
<1>8. Calling'
  <2>1. call.at = "acquire" => Len(sent) \in Conn
    BY Current DEF Conn
  <2> QED BY <1>1, <1>2, <1>3, <2>1 DEF Calling, Types
<1> QED BY <1>4, <1>5, <1>6, <1>7, <1>8

\* The worker starts to drain.
LEMMA StartDrainingInv == ASSUME Inv, StartDraining PROVE Inv'
<1> USE DEF Inv
<1>1. /\ worker' = [worker EXCEPT !.draining = TRUE]
      /\ UNCHANGED <<major, conn, ready, call, sent, told, cid, up, down, task, seen, done>>
  BY DEF StartDraining, client
<1>2. Ids'
  BY <1>1 DEF Ids, Served
<1>3. /\ \A n : Queued(n)' = Queued(n) /\ Fresh(n)' = Fresh(n)
      /\ \A f : Asks(f)' = Asks(f)
  BY <1>1 DEF Queued, Fresh, Asks
<1>4. Types' /\ Unique' /\ Unencoded' /\ Future' /\ RightAnswer'
  BY <1>1, <1>3, RightFacts, RightKept DEF Types, Unique, Unencoded, Future
<1>5. \A d \in Conn : Reading(d)'
  BY <1>1, <1>3 DEF Reading
<1>6. Greeting' /\ Clean' /\ Calling'
  BY <1>1, <1>3 DEF Greeting, Clean, Unsubscribing, Carried, Calling
<1> QED BY <1>2, <1>4, <1>5, <1>6

\* A frame over its limit or a wrong HELLO: the connection is closed.
LEMMA TaskRefusesInv == ASSUME Inv, NEW c \in Conn, TaskRefuses(c) PROVE Inv'
<1> USE DEF Inv
<1>1. /\ task[c] \in {"hello", "serving"} /\ up[c] # <<>> /\ TakeFrame(c)
      /\ task' = [task EXCEPT ![c] = "gone"]
      /\ UNCHANGED <<major, conn, ready, call, sent, told, cid, down, seen, done, worker>>
  BY DEF TaskRefuses, Close, client
<1>2. /\ task' \in [Conn -> {"none", "hello", "serving", "gone"}] /\ task'[c] = "gone"
      /\ \A d \in Conn : d # c => task'[d] = task[d]
  BY <1>1 DEF Types
<1>3. /\ \A n : Fresh(n)' = Fresh(n)
      /\ \A f : Asks(f)' = Asks(f)
  BY <1>1 DEF Fresh, Asks
<1>u. /\ DOMAIN up' = Conn /\ up' = [d \in Conn |-> up'[d]]
      /\ \A d \in Conn : IsSeq(up'[d]) /\ (d # c => up'[d] = up[d])
      /\ \A d \in Conn : \A i \in DOMAIN up'[d] :
            \E j \in DOMAIN up[d] : up'[d][i] = up[d][j] /\ (d = c => j # 1)
      /\ Unique' /\ \A n : Queued(n)' => Queued(n)
  BY <1>1, Taken
<1>h. task[c] = "hello" => up[c] = <<HelloOf(major)>> /\ up'[c] = <<>>
  <2>1. task[c] = "hello" => up[c] = <<HelloOf(major)>>
    BY DEF Reading
  <2>2. up'[c] = Tail(up[c])
    BY <1>1 DEF TakeFrame, Types
  <2> QED BY <2>1, <2>2, Single
<1>4. Types'
  BY <1>1, <1>2, <1>u DEF Types
<1>5. ASSUME NEW d \in Conn PROVE Reading(d)'
  <2>1. CASE d = c
    <3>1. \A i \in DOMAIN up'[c] : Asks(up[c][i])' /\ Fresh(up[c][i].call)'
      BY <1>1, <1>3, <1>u, <1>h DEF Reading
    <3>2. ~(c > Len(sent))
      BY <1>1 DEF Reading
    <3> QED BY <1>1, <1>2, <2>1, <3>1, <3>2 DEF Reading
  <2>2. CASE d # c
    BY <1>1, <1>2, <1>3, <1>u, <2>2 DEF Reading
  <2> QED BY <2>1, <2>2
<1>6. Ids' /\ Future' /\ Unencoded' /\ RightAnswer'
  BY <1>1, <1>2, <1>3, <1>u, RightFacts, RightKept DEF Ids, Served, Future, Unencoded
<1>7. Greeting'
  BY <1>1, <1>2, <1>h, <1>u DEF Greeting, Types
<1>8. Clean'
  <2> SUFFICES ASSUME ready PROVE Clean'
    BY <1>1 DEF Clean
  <2>1. conn \in Conn /\ task'[conn] \in {"serving", "gone"}
    BY <1>1, <1>2 DEF Clean, Types
  <2>2. /\ Unsubscribing(conn) => Unsubscribing(conn)'
        /\ \A f : (\A i \in DOMAIN up[conn] : up[conn][i] = f \/ up[conn][i].kind = "Unsubscribe")
             => \A i \in DOMAIN up'[conn] : up'[conn][i] = f \/ up'[conn][i].kind = "Unsubscribe"
    BY <1>1, <1>u, <2>1 DEF Unsubscribing
  <2> QED BY <1>1, <2>1, <2>2 DEF Clean, Carried
<1>9. Calling'
  <2>1. call.at = "acquire" => Len(sent) \in Conn
    BY Current DEF Conn
  <2> QED BY <1>1, <1>2, <1>3, <1>u, <2>1 DEF Calling, Types
<1> QED BY <1>4, <1>5, <1>6, <1>7, <1>8, <1>9, <1>u

\* HELLO is answered.
LEMMA TaskGreetsInv == ASSUME Inv, NEW c \in Conn, TaskGreets(c) PROVE Inv'
<1> USE DEF Inv
<1>1. /\ task[c] = "hello" /\ up[c] # <<>> /\ TakeFrame(c)
      /\ task' = [task EXCEPT ![c] = "serving"]
      /\ UNCHANGED <<major, conn, ready, call, sent, told, cid, seen, done, worker>>
  BY DEF TaskGreets, client
<1>2. /\ task' \in [Conn -> {"none", "hello", "serving", "gone"}] /\ task'[c] = "serving"
      /\ \A d \in Conn : d # c => task'[d] = task[d]
  BY <1>1 DEF Types
<1>3. /\ \A n : Fresh(n)' = Fresh(n)
      /\ \A f : Asks(f)' = Asks(f)
  BY <1>1 DEF Fresh, Asks
<1>u. /\ DOMAIN up' = Conn /\ up' = [d \in Conn |-> up'[d]]
      /\ \A d \in Conn : IsSeq(up'[d]) /\ (d # c => up'[d] = up[d])
      /\ Unique' /\ \A n : Queued(n)' => Queued(n)
  BY <1>1, Taken
<1>h. up[c] = <<HelloOf(major)>> /\ up'[c] = <<>> /\ Head(up[c]) = HelloOf(major)
  <2>1. up[c] = <<HelloOf(major)>>
    BY <1>1 DEF Reading
  <2>2. up'[c] = Tail(up[c])
    BY <1>1 DEF TakeFrame, Types
  <2> QED BY <2>1, <2>2, Single
\* Only an extension of the worker's major is greeted.
<1>m. major = PROTOCOL_MAJOR
  <2>1. decode(Hello_in, Decoder(encode(Hello_out, <<major>>))).out = <<PROTOCOL_MAJOR>>
    BY <1>h DEF TaskGreets, HelloOf, Frame
  <2>2. decode(Hello_in, Decoder(encode(Hello_out, <<major>>))).out = <<major>>
    BY CodecAssumption, DecodedFields DEF Types
  <2> QED BY <2>1, <2>2
<1>d. /\ down' = [d \in Conn |-> down'[d]] /\ \A d \in Conn : d # c => down'[d] = down[d]
      /\ down[c] = <<>> => down'[c] = <<HelloOf(PROTOCOL_MAJOR)>>
  <2>1. HelloOf(major).cid = 0
    BY DEF HelloOf, Frame
  <2>2. down' = [down EXCEPT ![c] = Append(@, HelloOf(PROTOCOL_MAJOR))]
    BY <1>h, <2>1 DEF TaskGreets, HelloOf
  <2>3. Append(<<>>, HelloOf(PROTOCOL_MAJOR)) = <<HelloOf(PROTOCOL_MAJOR)>>
    BY Single
  <2> QED BY <2>2, <2>3 DEF Types
<1>4. Types'
  BY <1>1, <1>2, <1>u, <1>d DEF Types
<1>5. ASSUME NEW d \in Conn PROVE Reading(d)'
  <2>1. CASE d = c
    BY <1>1, <1>2, <1>h, <1>m, <2>1 DEF Reading
  <2>2. CASE d # c
    BY <1>1, <1>2, <1>3, <1>u, <2>2 DEF Reading
  <2> QED BY <2>1, <2>2
<1>6. Ids' /\ Future' /\ Unencoded' /\ RightAnswer'
  BY <1>1, <1>2, <1>3, <1>u, <1>d, RightFacts, RightKept DEF Ids, Served, Future, Unencoded
<1>7. Greeting'
  BY <1>1, <1>2, <1>h, <1>u, <1>d DEF Greeting, Types
<1>8. Clean'
  <2>1. ready => conn \in Conn /\ conn # c
    BY <1>1 DEF Clean, Types
  <2> QED BY <1>1, <1>2, <1>u, <1>d, <2>1 DEF Clean, Carried, Unsubscribing
<1>9. Calling'
  <2>1. call.at = "acquire" => Len(sent) \in Conn
    BY Current DEF Conn
  <2> QED BY <1>1, <1>2, <1>3, <1>u, <2>1 DEF Calling, Types
<1> QED BY <1>4, <1>5, <1>6, <1>7, <1>8, <1>9, <1>u

\* No more subscription ids are given out than there are calls.
LEMMA FewIds ==
    ASSUME Types, Ids
    PROVE  /\ IsWorker(worker) /\ IsFiniteSet(Served) /\ Cardinality(Served) \in Nat
           /\ Cardinality(Served) <= MaxCalls
<1>1. /\ IsFiniteSet(Number) /\ Cardinality(Number) = MaxCalls
  BY WireBounds, FS_Interval DEF Number
<1>2. Served \subseteq Number
  BY DEF Served
<1>3. /\ IsFiniteSet(Served) /\ Cardinality(Served) <= MaxCalls
  BY <1>1, <1>2, FS_Subset
<1>4. Cardinality(Served) \in Nat
  BY <1>3, FS_CardinalityType
<1> QED BY <1>3, <1>4, WireBounds DEF Ids, IsWorker

\* The frame that is served, of call n, and what its handler does.
LEMMA ServedShape ==
    ASSUME Inv, NEW c \in Conn, TaskServes(c)
    PROVE  \E n \in Number : \E r :
             /\ n \in 1 .. Len(sent) /\ up[c][1].call = n /\ Asks(up[c][1]) /\ Fresh(n)
             /\ sent[n].op \in DOMAIN RpcOf /\ OpOf(up[c][1].kind) = sent[n].op
             /\ Legal(r, sent[n].op, worker)
             /\ worker' = r.w
             /\ done' = [done EXCEPT ![n] = [tag |-> r.tag, vals |-> r.vals]]
             /\ \/ seen' = seen
                \/ seen' = [seen EXCEPT ![n] = decode(RpcOf[sent[n].op].in, Decoder(up[c][1].payload))]
             /\ \/ down' = down
                \/ /\ r.tag # "none" /\ conn = c /\ ~Unsendable(Reply(up[c][1], r).payload)
                   /\ down' = [down EXCEPT ![c] = Append(@, Reply(up[c][1], r))]
             /\ task' = task \/ task' = [task EXCEPT ![c] = "gone"]
<1> USE DEF Inv
<1>1. task[c] = "serving" /\ up[c] # <<>> /\ TakeFrame(c)
  BY DEF TaskServes
<1>2. Head(up[c]) = up[c][1] /\ 1 \in DOMAIN up[c]
  BY <1>1, Taken
<1>3. PICK n \in 1 .. Len(sent) : up[c][1].call = n /\ Asks(up[c][1]) /\ Fresh(n)
  BY <1>1, <1>2 DEF Reading, Asks
<1>4. n \in Number /\ sent[n].op \in DOMAIN RpcOf
  <2>1. n \in DOMAIN sent /\ sent[n] \in Request /\ Len(sent) \in Nat /\ Len(sent) <= MaxCalls
    BY DEF Types
  <2> QED BY <2>1, SampleAssumption, WireBounds DEF Request, Number
<1>5. OpOf(up[c][1].kind) = sent[n].op
  BY <1>3, <1>4, Op_of_kind DEF Asks
<1> DEFINE op == sent[n].op
           d == decode(RpcOf[op].in, Decoder(up[c][1].payload))
<1>6. PICK r \in dispatch(op, d, worker) :
           /\ worker' = r.w
           /\ seen' = [seen EXCEPT ![n] = IF Refuses(op, worker) THEN @ ELSE d]
           /\ done' = [done EXCEPT ![n] = [tag |-> r.tag, vals |-> r.vals]]
           /\ IF r.tag = "none" THEN UNCHANGED down
              ELSE IF Unsendable(Reply(up[c][1], r).payload) \/ conn # c THEN UNCHANGED down
              ELSE down' = [down EXCEPT ![c] = Append(@, Reply(up[c][1], r))]
           /\ IF r.close \/ (r.tag # "none" /\ (conn # c \/ Unsendable(Reply(up[c][1], r).payload)))
              THEN Close(c) ELSE UNCHANGED task
  <2>1. PICK f : /\ f = Head(up[c])
            /\ \E r \in dispatch(OpOf(f.kind), decode(RpcOf[OpOf(f.kind)].in, Decoder(f.payload)), worker) :
           /\ worker' = r.w
           /\ seen' = [seen EXCEPT ![f.call] = IF Refuses(OpOf(f.kind), worker) THEN @ ELSE decode(RpcOf[OpOf(f.kind)].in, Decoder(f.payload))]
           /\ done' = [done EXCEPT ![f.call] = [tag |-> r.tag, vals |-> r.vals]]
           /\ IF r.tag = "none" THEN UNCHANGED down
              ELSE IF Unsendable(Reply(f, r).payload) \/ conn # c THEN UNCHANGED down
              ELSE down' = [down EXCEPT ![c] = Append(@, Reply(f, r))]
           /\ IF r.close \/ (r.tag # "none" /\ (conn # c \/ Unsendable(Reply(f, r).payload)))
              THEN Close(c) ELSE UNCHANGED task
    BY DEF TaskServes
  <2>2. f = up[c][1] /\ f.call = n /\ OpOf(f.kind) = op
    BY <1>2, <1>3, <1>5, <2>1
  <2> QED BY <2>1, <2>2
<1>7. Legal(r, op, worker)
  BY <1>4, <1>6, FewIds, DispatchLegal
<1>8. seen' = seen \/ seen' = [seen EXCEPT ![n] = d]
  BY <1>4, <1>6 DEF Types
<1>9. task' = task \/ task' = [task EXCEPT ![c] = "gone"]
  BY <1>6 DEF Close
<1>10. \/ down' = down
       \/ /\ r.tag # "none" /\ conn = c /\ ~Unsendable(Reply(up[c][1], r).payload)
          /\ down' = [down EXCEPT ![c] = Append(@, Reply(up[c][1], r))]
  BY <1>6
<1> HIDE DEF op, d
<1>11. /\ Legal(r, sent[n].op, worker)
       /\ \/ seen' = seen
          \/ seen' = [seen EXCEPT ![n] = decode(RpcOf[sent[n].op].in, Decoder(up[c][1].payload))]
  BY <1>7, <1>8 DEF op, d
<1> QED BY <1>3, <1>4, <1>5, <1>6, <1>9, <1>10, <1>11

\* A request is served once, and answered to the process that asked.
LEMMA TaskServesInv == ASSUME Inv, NEW c \in Conn, TaskServes(c) PROVE Inv'
<1> USE DEF Inv
<1>0. PICK n, r :
             /\ n \in Number
             /\ n \in 1 .. Len(sent) /\ up[c][1].call = n /\ Asks(up[c][1]) /\ Fresh(n)
             /\ sent[n].op \in DOMAIN RpcOf /\ OpOf(up[c][1].kind) = sent[n].op
             /\ Legal(r, sent[n].op, worker)
             /\ worker' = r.w
             /\ done' = [done EXCEPT ![n] = [tag |-> r.tag, vals |-> r.vals]]
             /\ \/ seen' = seen
                \/ seen' = [seen EXCEPT ![n] = decode(RpcOf[sent[n].op].in, Decoder(up[c][1].payload))]
             /\ \/ down' = down
                \/ /\ r.tag # "none" /\ conn = c /\ ~Unsendable(Reply(up[c][1], r).payload)
                   /\ down' = [down EXCEPT ![c] = Append(@, Reply(up[c][1], r))]
             /\ task' = task \/ task' = [task EXCEPT ![c] = "gone"]
  BY ServedShape
<1>m. n \in Number
  BY <1>0
<1>f. PICK f : f = up[c][1]
  OBVIOUS
<1>1. /\ task[c] = "serving" /\ up[c] # <<>> /\ TakeFrame(c)
      /\ UNCHANGED <<major, conn, ready, call, sent, told, cid>>
  BY DEF TaskServes, client
<1>2. /\ task' \in [Conn -> {"none", "hello", "serving", "gone"}]
      /\ task'[c] \in {"serving", "gone"}
      /\ \A d \in Conn : d # c => task'[d] = task[d]
  BY <1>0, <1>1 DEF Types
<1>u. /\ DOMAIN up' = Conn /\ up' = [d \in Conn |-> up'[d]]
      /\ \A d \in Conn : IsSeq(up'[d]) /\ (d # c => up'[d] = up[d])
      /\ \A d \in Conn : \A i \in DOMAIN up'[d] :
            \E j \in DOMAIN up[d] : up'[d][i] = up[d][j] /\ (d = c => j # 1)
      /\ Unique' /\ \A k : Queued(k)' => Queued(k)
  BY <1>1, Taken
<1>n. n # 0 /\ n \in Int /\ ~Queued(n)' /\ Queued(n) /\ 1 \in DOMAIN up[c]
  <2>1. n # 0 /\ n \in Int
    BY <1>0
  <2>2. 1 \in DOMAIN up[c] /\ ~Queued(n)'
    BY <1>0, <1>1, <2>1, Taken
  <2> QED BY <1>0, <2>1, <2>2 DEF Queued
<1>3. /\ done'[n] = [tag |-> r.tag, vals |-> r.vals]
      /\ \A k \in Number : k # n => done'[k] = done[k] /\ seen'[k] = seen[k]
      /\ done' = [k \in Number |-> done'[k]] /\ seen' = [k \in Number |-> seen'[k]]
      /\ \A k \in Number : done'[k] = [tag |-> done'[k].tag, vals |-> done'[k].vals]
  BY <1>0 DEF Types
<1>4. /\ \A g : Asks(g)' = Asks(g)
      /\ \A k \in Number : k # n => Fresh(k)' = Fresh(k)
  BY <1>1, <1>3 DEF Asks, Fresh
<1>d. /\ down' = [d \in Conn |-> down'[d]]
      /\ \A d \in Conn : d # c => down'[d] = down[d]
      /\ conn # c => down' = down
  BY <1>0 DEF Types
<1>5. Types'
  BY <1>1, <1>2, <1>3, <1>u, <1>d DEF Types
\* A frame that is left is of another call.
<1>6. \A d \in Conn : \A i \in DOMAIN up'[d] : up'[d][i].call # n
  BY <1>n DEF Queued
<1>7. ASSUME NEW d \in Conn PROVE Reading(d)'
  <2>1. ASSUME task[d] \in {"serving", "gone"}
        PROVE  \A i \in DOMAIN up'[d] : Asks(up[d][i])' /\ Fresh(up[d][i].call)'
    <3> SUFFICES ASSUME NEW i \in DOMAIN up'[d] PROVE Asks(up[d][i])' /\ Fresh(up[d][i].call)'
      OBVIOUS
    <3>1. PICK j \in DOMAIN up[d] : up'[d][i] = up[d][j]
      BY <1>u
    <3>2. Asks(up[d][j]) /\ Fresh(up[d][j].call)
      BY <2>1 DEF Reading
    <3>3. up[d][j].call \in Number /\ up[d][j].call # n
      BY <1>6, <3>1, <3>2, WireBounds DEF Asks, Types, Number
    <3>4. \A k : k = up[d][j].call => Fresh(k)'
      BY <1>4, <3>2, <3>3
    <3>5. \A g : g = up[d][j] => Asks(g)'
      BY <1>4, <3>2
    <3> QED BY <3>1, <3>4, <3>5
  <2>2. CASE d = c
    BY <1>1, <1>2, <2>1, <2>2 DEF Reading
  <2>3. CASE d # c
    BY <1>1, <1>2, <1>u, <2>1, <2>3 DEF Reading
  <2> QED BY <2>2, <2>3
<1>8. Greeting'
  <2>1. conn # 0 /\ ~ready => conn # c /\ conn \in Conn
    BY <1>1 DEF Greeting, Types
  <2> QED BY <1>1, <1>2, <1>u, <1>d, <2>1 DEF Greeting
<1>9. Calling' /\ Future' /\ Unencoded'
  <2>1. call.at = "acquire" => Len(sent) \in Conn /\ Len(sent) \in Number /\ Len(sent) # n
    BY <1>n, Current DEF Conn, Calling
  <2>2. Calling'
    BY <1>1, <1>2, <1>4, <1>u, <2>1 DEF Calling, Types
  <2>3. Future'
    <3>1. \A k \in Number : k > Len(sent) => k # n
      BY <1>0
    <3> QED BY <1>1, <1>2, <1>4, <1>d, <3>1 DEF Future
  <2>4. Unencoded'
    BY <1>1, <1>u DEF Unencoded
  <2> QED BY <2>2, <2>3, <2>4
<1>10. RightAnswer'
  <2>1. Right(n)'
    <3>1. Right(n) /\ done[n] = Unserved /\ seen[n] = None
      BY <1>0, RightFacts DEF Fresh
    <3>2. told[n] # None /\ told[n].r = "Exception" => told[n].vals[1] # "Encode"
      BY <1>m, <1>n DEF Unencoded
    <3> QED BY <1>1, <3>1, <3>2 DEF Right, Unserved
  <2>2. \A k \in Number : k # n => Right(k)'
    BY <1>1, <1>3, RightFacts, RightKept
  <2> QED BY <2>1, <2>2, RightFacts
<1>11. Ids'
  <2>1. r.tag \in {"none", "ok", "err"}
    BY <1>0 DEF Legal
  <2>2. done'[n] # Unserved /\ done[n] = Unserved
    BY <1>0, <1>3, <2>1 DEF Unserved, Fresh
  <2>3. Served' = Served \cup {n} /\ n \notin Served
    BY <1>m, <1>3, <2>2 DEF Served
  <2>4. Cardinality(Served') = Cardinality(Served) + 1 /\ Cardinality(Served) \in Nat
    BY <2>3, FewIds, FS_AddElement
  <2>5. r.w.seq \in {worker.seq, worker.seq + 1} /\ worker.seq \in 1 .. 2 + Cardinality(Served)
    BY <1>0 DEF Legal, Ids
  <2>6. worker'.seq \in 1 .. 2 + Cardinality(Served')
    BY <1>0, <2>4, <2>5
  <2> QED BY <1>0, <2>6 DEF Ids, Legal
<1>12. Clean'
  <2> SUFFICES ASSUME ready PROVE Clean'
    BY <1>1 DEF Clean
  <2>1. conn \in Conn /\ task'[conn] \in {"serving", "gone"}
    BY <1>1, <1>2 DEF Clean, Types
  <2>2. /\ Unsubscribing(conn) => Unsubscribing(conn)'
        /\ \A g : (\A i \in DOMAIN up[conn] : up[conn][i] = g \/ up[conn][i].kind = "Unsubscribe")
             => \A i \in DOMAIN up'[conn] : up'[conn][i] = g \/ up'[conn][i].kind = "Unsubscribe"
    BY <1>1, <1>u, <2>1 DEF Unsubscribing
  \* An unsubscribe is not answered.
  <2>3. f.kind = "Unsubscribe" => down' = down
    <3>1. f.kind = "Unsubscribe" => sent[n].op = "unsubscribe"
      BY <1>0, <1>f, Kinds DEF Asks
    <3> QED BY <1>0, <3>1 DEF Legal
  \* An answer that has come stays the handler's.
  <2>4. ASSUME NEW g, Carried(g, Len(sent)), call.at = "wait" PROVE Carried(g, Len(sent))'
    <3>1. Len(sent) \in Number /\ Len(sent) # n
      <4>1. done[n].tag = "unserved"
        BY <1>0 DEF Fresh, Unserved
      <4>2. done[Len(sent)].tag \in {"ok", "err"}
        BY <2>4 DEF Carried
      <4> QED BY <2>4, <4>1, <4>2, Current
    <3> QED BY <1>1, <1>3, <2>4, <3>1 DEF Carried
  <2>5. CASE down' = down
    BY <1>1, <2>1, <2>2, <2>4, <2>5 DEF Clean
  <2>6. CASE /\ r.tag # "none" /\ conn = c /\ ~Unsendable(Reply(f, r).payload)
             /\ down' = [down EXCEPT ![c] = Append(@, Reply(f, r))] /\ f.kind # "Unsubscribe"
    <3>1. call.at = "wait" /\ down[conn] = <<>> /\ f = call.frame
          /\ \A i \in DOMAIN up[conn] : up[conn][i] = f \/ up[conn][i].kind = "Unsubscribe"
      BY <1>n, <1>f, <2>6 DEF Clean, Unsubscribing
    <3>2. n = Len(sent)
      BY <1>0, <1>f, <3>1 DEF Calling
    <3>3. down'[conn] = <<Reply(f, r)>>
      <4>1. Append(<<>>, Reply(f, r)) = <<Reply(f, r)>>
        BY Single
      <4> QED BY <2>1, <2>6, <3>1, <4>1 DEF Types
    <3>4. Unsubscribing(conn)'
      <4>1. \A i \in DOMAIN up'[conn] : up'[conn][i].kind = "Unsubscribe"
        <5>1. \A i \in DOMAIN up'[conn] : up'[conn][i] = f \/ up'[conn][i].kind = "Unsubscribe"
          BY <2>2, <3>1
        <5>2. \A i \in DOMAIN up'[conn] : up'[conn][i] # f
          BY <1>0, <1>6, <1>f, <2>1
        <5> QED BY <5>1, <5>2
      <4> QED BY <1>1, <4>1 DEF Unsubscribing
    <3>5. Reply(f, r).cid = call.frame.cid /\ Reply(f, r).call = n
      BY <1>0, <1>f, <3>1 DEF Reply, Frame
    <3>6. Carried(Reply(f, r), n)'
      <4>1. done'[n].tag = r.tag /\ done'[n].vals = r.vals
        BY <1>3
      <4>2. CASE r.tag = "err" /\ r.vals \in ErrVals
        <5>1. Reply(f, r).kind = "Error" /\ Reply(f, r).payload = encode(Error_out, r.vals)
          BY <4>2 DEF Reply, Frame
        <5> QED BY <2>6, <3>5, <4>1, <4>2, <5>1 DEF Carried
      <4>3. CASE r.tag = "ok" /\ r.vals \in OkVals(sent[n].op)
        <5>1. /\ Reply(f, r).kind = RpcOf[sent[n].op].resp
              /\ Reply(f, r).payload = encode(RpcOf[sent[n].op].rout, r.vals)
          BY <1>0, <1>f, <4>3 DEF Reply, Frame
        <5> QED BY <1>1, <2>6, <3>5, <4>1, <4>3, <5>1 DEF Carried
      <4> QED BY <1>0, <2>6, <4>2, <4>3 DEF Legal
    <3>7. PICK g : g = Reply(f, r)
      OBVIOUS
    <3>8. /\ down'[conn] = <<g>> /\ g.cid = call.frame.cid /\ Carried(g, Len(sent))'
      BY <1>1, <3>2, <3>3, <3>5, <3>6, <3>7
    <3> QED BY <1>1, <2>1, <3>1, <3>4, <3>8 DEF Clean
  <2> QED BY <1>0, <1>f, <2>3, <2>5, <2>6
<1> QED BY <1>5, <1>7, <1>8, <1>9, <1>10, <1>11, <1>12, <1>u

\* Inv holds of every behaviour of the extension and the worker.
THEOREM WireInvariance == Spec => []Inv
<1>1. Init => Inv
  <2> SUFFICES ASSUME Init PROVE Inv
    OBVIOUS
  <2> USE DEF Init
  <2>0. /\ Number \subseteq Int /\ Conn = Number /\ 0 \notin Number /\ MaxCalls \in Nat
    BY WireBounds DEF Number, Conn
  <2>1. /\ sent = <<>> /\ Len(sent) = 0 /\ \A c \in Conn : up[c] = <<>> /\ down[c] = <<>>
        /\ \A c \in Conn : task[c] = "none"
        /\ \A n \in Number : seen[n] = None /\ done[n] = Unserved /\ told[n] = None
        /\ call.at = "idle"
    BY DEF Idle
  <2>2. Types
    <3>1. IsSeq(<<>>) /\ <<>> \in Seq(Request)
      BY DEF IsSeq
    <3>2. \A n \in Number : done[n] = [tag |-> done[n].tag, vals |-> done[n].vals]
      BY <2>1 DEF Unserved
    <3>3. /\ up = [c \in Conn |-> up[c]] /\ DOMAIN up = Conn /\ down = [c \in Conn |-> down[c]]
          /\ \A c \in Conn : IsSeq(up[c])
          /\ task \in [Conn -> {"none", "hello", "serving", "gone"}]
      BY <2>1, <3>1
    <3>4. /\ seen = [n \in Number |-> seen[n]] /\ told = [n \in Number |-> told[n]]
          /\ done = [n \in Number |-> done[n]]
      OBVIOUS
    <3>5. call = [frame |-> call.frame, at |-> call.at] /\ call.at \in {"idle", "acquire", "wait"}
      BY DEF Idle
    <3>6. sent \in Seq(Request) /\ Len(sent) <= MaxCalls
      BY <2>0, <2>1, <3>1
    <3> QED BY <3>2, <3>3, <3>4, <3>5, <3>6 DEF Types
  <2>3. \A c \in Conn : Reading(c)
    BY <2>1 DEF Reading
  <2>4. Unique /\ Greeting /\ Clean /\ Calling /\ Unencoded /\ Future
    BY <2>1 DEF Unique, Greeting, Clean, Calling, Unencoded, Future, Fresh
  <2>5. Ids
    <3>1. Served = {}
      BY <2>1 DEF Served
    <3>2. Cardinality(Served) = 0
      BY <3>1, FS_EmptySet
    <3> QED BY <3>2 DEF Ids
  <2>6. RightAnswer
    BY <2>1 DEF RightAnswer
  <2> QED BY <2>2, <2>3, <2>4, <2>5, <2>6 DEF Inv
<1>2. Inv /\ [Next]_vars => Inv'
  <2> SUFFICES ASSUME Inv, [Next]_vars PROVE Inv'
    OBVIOUS
  <2>1. CASE \E s \in Sample : Call(s)
    BY <2>1, CallInv
  <2>2. CASE Connect \/ HelloDone \/ HelloFails \/ Discard
    BY <2>2, ConnectInv, HelloDoneInv, HelloFailsInv, DiscardInv
  <2>3. CASE Write \/ Recv \/ RecvFails \/ StartDraining
    BY <2>3, WriteInv, RecvInv, RecvFailsInv, StartDrainingInv
  <2>4. CASE \E c \in Conn : TaskRefuses(c) \/ TaskGreets(c) \/ TaskServes(c) \/ TaskEnds(c)
    BY <2>4, TaskRefusesInv, TaskGreetsInv, TaskServesInv, TaskEndsInv
  <2>5. CASE UNCHANGED vars
    <3>1. /\ \A n : Queued(n)' = Queued(n) /\ Fresh(n)' = Fresh(n)
          /\ \A f : Asks(f)' = Asks(f)
      BY <2>5 DEF Queued, Fresh, Asks, vars
    <3>2. /\ \A c \in Conn : Reading(c)'
          /\ Unique' /\ Greeting' /\ Ids' /\ Future' /\ Unencoded'
      BY <2>5, <3>1 DEF Inv, Reading, Unique, Greeting, Ids, Served, Future, Unencoded, vars
    <3>4. Types'
      BY <2>5 DEF Inv, Types, vars
    <3>3. Clean' /\ Calling' /\ RightAnswer'
      BY <2>5, <3>1 DEF Inv, Clean, Unsubscribing, Carried, Calling, RightAnswer, vars
    <3> QED BY <3>2, <3>3, <3>4 DEF Inv
  <2> QED BY <2>1, <2>2, <2>3, <2>4, <2>5 DEF Next
<1> QED BY <1>1, <1>2, PTL DEF Spec

\* What PHP is told of a call is what the handler of that very request answered,
\* or that the extension could not send it, connect or read: round_trip_once and
\* recv_resp never hand one call the answer of another, for any number of calls
\* and whatever times out, panics, is refused or closed.
THEOREM AnswersAreRight == Spec => []RightAnswer
BY WireInvariance, PTL DEF Inv

----------------------------------------------------------------------------
(* Understanding                                                           *)

\* Every request PHP makes is read as it was written.
RequestsRoundTrip ==
    \A s \in Sample : RoundTrip(RpcOf[s.op].out, RpcOf[s.op].in, s.vals)

\* What the worker has decoded is the payload of that very call.
Knows ==
    \A n \in Number : seen[n] # None =>
        /\ major = PROTOCOL_MAJOR /\ n \in 1 .. Len(sent)
        /\ \E p : /\ Carries(p, sent[n])
                  /\ seen[n] = decode(RpcOf[sent[n].op].in, Decoder(p))

\* Only the task that serves a call decodes its payload.
LEMMA KnowsStep == ASSUME Inv, Knows, [Next]_vars PROVE Knows'
<1> USE DEF Inv
<1>1. CASE \E c \in Conn : TaskServes(c)
  <2>1. PICK c \in Conn : TaskServes(c)
    BY <1>1
  <2>2. PICK n \in Number :
             /\ n \in 1 .. Len(sent) /\ up[c][1].call = n /\ Asks(up[c][1])
             /\ \/ seen' = seen
                \/ seen' = [seen EXCEPT ![n] = decode(RpcOf[sent[n].op].in, Decoder(up[c][1].payload))]
    BY <2>1, ServedShape
  <2>3. major = PROTOCOL_MAJOR /\ major' = major /\ sent' = sent
    BY <2>1 DEF TaskServes, client, Reading
  <2>4. \A k \in Number : k # n => seen'[k] = seen[k]
    BY <2>2 DEF Types
  <2>5. \/ seen'[n] = seen[n]
        \/ seen'[n] = decode(RpcOf[sent[n].op].in, Decoder(up[c][1].payload))
    BY <2>2 DEF Types
  <2>6. Carries(up[c][1].payload, sent[n])
    BY <2>2 DEF Asks
  <2> QED BY <2>2, <2>3, <2>4, <2>5, <2>6 DEF Knows
<1>2. CASE \E s \in Sample : Call(s)
  <2>1. PICK rq : sent' = Append(sent, rq)
    BY <1>2 DEF Call
  <2>2. \A i \in 1 .. Len(sent) : i \in 1 .. Len(sent') /\ sent'[i] = sent[i]
    BY <2>1 DEF Types
  <2>3. seen' = seen /\ major' = major
    BY <1>2 DEF Call
  <2> QED BY <2>2, <2>3 DEF Knows
<1>3. CASE \/ Connect \/ HelloDone \/ HelloFails \/ Discard \/ Write \/ Recv \/ RecvFails
           \/ StartDraining \/ UNCHANGED vars
           \/ \E c \in Conn : TaskRefuses(c) \/ TaskGreets(c) \/ TaskEnds(c)
  <2>1. seen' = seen /\ major' = major /\ sent' = sent
    BY <1>3 DEF Connect, HelloDone, HelloFails, Discard, Write, Recv, RecvFails,
       StartDraining, vars, TaskRefuses, TaskGreets, TaskEnds, client
  <2> QED BY <2>1 DEF Knows
<1> QED BY <1>1, <1>2, <1>3 DEF Next

\* The whole of a request, or a cut of it, as the worker reads it.
LEMMA ReadAsWritten ==
    ASSUME RequestsRoundTrip, Types, NEW n \in DOMAIN sent, NEW p, Carries(p, sent[n])
    PROVE  LET d == decode(RpcOf[sent[n].op].in, Decoder(p)) IN
           IF sent[n].cut THEN d.err = "Truncated" ELSE d = Decoded(sent[n].vals)
<1> DEFINE q == sent[n]
           bytes == encode(RpcOf[q.op].out, q.vals)
<1>1. PICK s \in Sample : q.op = s.op /\ q.vals = s.vals
  BY DEF Types, Request
<1>2. IsSeq(bytes) /\ Len(bytes) \in Nat
  <2>1. IsSeq(bytes)
    BY <1>1, CodecAssumption
  <2> HIDE DEF bytes
  <2> QED BY <2>1, Reseq DEF IsSeq
<1>3. PICK k \in 0 .. Len(bytes) :
        p = SubSeq(bytes, 1, k) /\ q.cut = (k < Len(bytes)) /\ ~Unsendable(bytes)
  BY DEF Carries
<1>4. decode(RpcOf[q.op].in, Decoder(bytes)) = Decoded(q.vals) /\ PrefixFree(RpcOf[q.op].in, bytes)
  BY <1>1, <1>3 DEF RequestsRoundTrip, RoundTrip
<1> HIDE DEF q, bytes
<1>5. CASE k < Len(bytes)
  <2>1. decode(RpcOf[q.op].in, Decoder(p)).err = "Truncated"
    BY <1>2, <1>3, <1>4, <1>5 DEF PrefixFree
  <2> QED BY <1>3, <1>5, <2>1 DEF q
<1>6. CASE k = Len(bytes)
  <2>1. p = bytes
    BY <1>2, <1>3, <1>6, WholeSeq
  <2>2. ~q.cut
    <3>1. ~(k < Len(bytes))
      BY <1>2, <1>6
    <3> QED BY <1>3, <3>1, Zenon
  <2>3. decode(RpcOf[q.op].in, Decoder(p)) = Decoded(q.vals)
    BY <1>4, <2>1
  <2> QED BY <2>2, <2>3 DEF q
<1> QED BY <1>2, <1>3, <1>5, <1>6

\* With a codec that reads the requests as they were written, worker and
\* extension understand each other whatever is cut, lost, refused or late.
THEOREM BothUnderstand == RequestsRoundTrip => (Spec => []Understood)
<1> SUFFICES ASSUME RequestsRoundTrip PROVE Spec => []Understood
  OBVIOUS
<1>1. Init => Knows
  BY DEF Init, Knows
<1>2. Inv /\ Knows /\ [Next]_vars => Knows'
  BY KnowsStep
<1>3. Inv /\ Knows => Understood
  <2> SUFFICES ASSUME Inv, Knows PROVE Understood
    OBVIOUS
  <2> USE DEF Inv
  <2>1. ASSUME NEW n \in DOMAIN sent, seen[n] # None
        PROVE  /\ major = PROTOCOL_MAJOR
               /\ IF sent[n].cut THEN seen[n].err = "Truncated"
                  ELSE seen[n] = Decoded(sent[n].vals)
    <3>1. n \in Number
      BY WireBounds DEF Types, Number
    <3>2. PICK p : Carries(p, sent[n]) /\ seen[n] = decode(RpcOf[sent[n].op].in, Decoder(p))
      BY <2>1, <3>1 DEF Knows
    <3> QED BY <2>1, <3>1, <3>2, ReadAsWritten DEF Knows
  <2>2. ASSUME conn # 0, ready, call.at # "idle", NEW i \in DOMAIN down[conn]
        PROVE  LET f == down[conn][i] IN
               PrefixFree(IF f.kind = "Error" THEN Error_in ELSE RpcOf[sent[f.call].op].rin,
                          f.payload)
    <3>1. PICK f : down[conn] = <<f>> /\ Carried(f, Len(sent))
      BY <2>2 DEF Clean
    <3>2. down[conn][i] = f /\ f.call = Len(sent)
      BY <3>1 DEF Carried
    <3>3. Len(sent) \in DOMAIN sent /\ sent[Len(sent)].op \in DOMAIN RpcOf
      BY <2>2, Current DEF Calling, Asks
    <3> QED BY <3>1, <3>2, <3>3, AnswerRead
  <2> QED BY <2>1, <2>2 DEF Understood
<1> QED BY <1>1, <1>2, <1>3, WireInvariance, PTL DEF Spec

==============================================================================
