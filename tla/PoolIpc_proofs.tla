---------------------------- MODULE PoolIpc_proofs ----------------------------
(***************************************************************************)
(* Proofs about PoolIpc, for any number of threads, connections, calls and *)
(* any pool size: a connection has one owner, a pooled connection carries  *)
(* no response, and a call only ever reads the response to its own request *)
(* (CidMismatch is unreachable).                                           *)
(*                                                                         *)
(* OwnResponse is not inductive.  What makes it true is that a connection  *)
(* goes back to the pool only when nothing is outstanding on it, that the  *)
(* request of its owner is then the last frame on it, and that it is       *)
(* answered once: Wire, below, says where that one request or response is. *)
(***************************************************************************)
EXTENDS PoolIpc, FiniteSetTheorems, TLAPS

\* Nothing outstanding: the frames u up, d down and the request p in hand.
NoRequest(u) == \A i \in DOMAIN u : ~u[i].answered
Quiet(u, d, p) == d = <<>> /\ p = 0 /\ NoRequest(u)

\* The one outstanding request k is the last frame still to be read, is being
\* answered, or its response is there to be read; or the connection was cut.
Awaiting(u, d, p, k) ==
    \/ /\ d = <<>> /\ p = 0
       /\ \A i \in DOMAIN u : u[i].answered => i = Len(u) /\ u[i].cid = k
    \/ d = <<>> /\ p = k /\ NoRequest(u)
    \/ d = <<k>> /\ p = 0 /\ NoRequest(u)

\* A closed end has no frames; pooled and held connections are open here.
Ends ==
    /\ \A c \in Conn : ~srv[c] => up[c] = <<>> /\ pend[c] = 0
    /\ \A c \in Conn : ~cli[c] => down[c] = <<>>
    /\ \A i \in DOMAIN idle : cli[idle[i]]
    /\ \A t \in Thread : Holding(t) => cli[cn[t]]

\* Requests have a cid that is not 0, the cid of Unsubscribe.
Cids ==
    /\ \A t \in Thread : pc[t] = "recv" => op[t] = "req"
    /\ \A t \in Thread : op[t] = "req" /\ pc[t] \in {"acquire", "write", "recv"}
                           => cid[t] # 0

Wire ==
    /\ \A i \in DOMAIN idle : Quiet(up[idle[i]], down[idle[i]], pend[idle[i]])
    /\ \A t \in Thread :
        pc[t] = "write" => Quiet(up[cn[t]], down[cn[t]], pend[cn[t]])
    /\ \A t \in Thread :
        pc[t] = "recv" => Awaiting(up[cn[t]], down[cn[t]], pend[cn[t]], cid[t])

\* The idle stack never holds more than max_idle connections.
PoolBounded == Len(idle) <= MaxIdle

IInv == TypeOK /\ ExclusiveConn /\ PoolBounded /\ Ends /\ Cids /\ Wire

USE PoolAssumption

\* What the pops and pushes of the idle stack do.
LEMMA Popped ==
    ASSUME NEW S, NEW s \in Seq(S), s # <<>>
    PROVE  /\ Front(s) \in Seq(S) /\ Len(Front(s)) = Len(s) - 1
           /\ \A i \in 1 .. Len(s) - 1 : Front(s)[i] = s[i]
           /\ Last(s) = s[Len(s)] /\ Last(s) \in S /\ Len(s) \in Nat \ {0}
<1>1. Len(s) \in Nat \ {0}
  OBVIOUS
<1>2. Front(s) = [i \in 1 .. Len(s) - 1 |-> s[i]]
  BY <1>1 DEF Front
<1>3. Front(s) \in Seq(S) /\ Len(Front(s)) = Len(s) - 1
  <2>1. Len(s) - 1 \in Nat /\ \A i \in 1 .. Len(s) - 1 : s[i] \in S
    BY <1>1
  <2> QED BY <1>2, <2>1
<1>4. \A i \in 1 .. Len(s) - 1 : Front(s)[i] = s[i]
  BY <1>1, <1>2
<1> QED BY <1>1, <1>3, <1>4 DEF Last

\* What the reader of a FIFO leaves of it.
LEMMA Consumed ==
    ASSUME NEW S, NEW s \in Seq(S), s # <<>>
    PROVE  /\ Tail(s) \in Seq(S) /\ Len(Tail(s)) = Len(s) - 1
           /\ \A i \in 1 .. Len(s) - 1 : Tail(s)[i] = s[i + 1]
           /\ Head(s) = s[1] /\ Head(s) \in S /\ Len(s) \in Nat \ {0}
  OBVIOUS

\* What a writer of a FIFO, or a push onto the idle stack, adds to it.
LEMMA Appended ==
    ASSUME NEW S, NEW s \in Seq(S), NEW e \in S
    PROVE  /\ Append(s, e) \in Seq(S) /\ Len(Append(s, e)) = Len(s) + 1
           /\ \A i \in 1 .. Len(s) : Append(s, e)[i] = s[i]
           /\ Append(s, e)[Len(s) + 1] = e /\ Len(s) \in Nat
  OBVIOUS

\* No call has been made and no connection exists.
LEMMA InitIInv == Init => IInv
  BY DEF Init, IInv, TypeOK, PCs, ExclusiveConn, Holding, PoolBounded, Ends, Cids, Wire

\* The end of a call keeps the types and concerns its thread only.
LEMMA DoneType ==
    ASSUME TypeOK, NEW t \in Thread, Done(t)
    PROVE  /\ pc' \in [Thread -> PCs] /\ op' \in [Thread -> {"none", "req", "unsub"}]
           /\ cn' \in [Thread -> Conn \cup {NoConn}] /\ cid' \in [Thread -> Nat]
           /\ attempt' \in [Thread -> 0 .. 2]
           /\ pc'[t] = "out" /\ cn'[t] = NoConn
           /\ \A u \in Thread \ {t} :
                /\ pc'[u] = pc[u] /\ op'[u] = op[u] /\ cn'[u] = cn[u]
                /\ cid'[u] = cid[u]
<1>1. attempt' \in [Thread -> 0 .. 2]
  BY DEF TypeOK, Done
<1>2. pc' \in [Thread -> PCs] /\ op' \in [Thread -> {"none", "req", "unsub"}]
  BY DEF TypeOK, Done, PCs
<1>3. cn' \in [Thread -> Conn \cup {NoConn}] /\ cid' \in [Thread -> Nat]
  BY DEF TypeOK, Done
<1> QED BY <1>1, <1>2, <1>3 DEF TypeOK, Done

\* So does the end of an attempt.
LEMMA FailType ==
    ASSUME TypeOK, NEW t \in Thread, NEW error, Fail(t, error)
    PROVE  /\ pc' \in [Thread -> PCs] /\ op' \in [Thread -> {"none", "req", "unsub"}]
           /\ cn' \in [Thread -> Conn \cup {NoConn}] /\ cid' \in [Thread -> Nat]
           /\ attempt' \in [Thread -> 0 .. 2]
           /\ pc'[t] \in {"out", "ensure"} /\ cn'[t] = NoConn
           /\ \A u \in Thread \ {t} :
                /\ pc'[u] = pc[u] /\ op'[u] = op[u] /\ cn'[u] = cn[u]
                /\ cid'[u] = cid[u]
<1>1. CASE Done(t)
  BY <1>1, DoneType
<1>2. CASE /\ pc' = [pc EXCEPT ![t] = "ensure"] /\ cn' = [cn EXCEPT ![t] = NoConn]
           /\ attempt' = [attempt EXCEPT ![t] = 2] /\ UNCHANGED <<op, cid>>
  <2>1. attempt' \in [Thread -> 0 .. 2]
    BY <1>2 DEF TypeOK
  <2>2. pc' \in [Thread -> PCs] /\ cn' \in [Thread -> Conn \cup {NoConn}]
    BY <1>2 DEF TypeOK, PCs
  <2> QED BY <1>2, <2>1, <2>2 DEF TypeOK
<1> QED BY <1>1, <1>2 DEF Fail

\* Closing this end of a connection keeps the types and leaves the others.
LEMMA CloseType ==
    ASSUME TypeOK, NEW c \in Conn, CloseClient(c)
    PROVE  /\ cli' \in [Conn -> BOOLEAN] /\ down' \in [Conn -> Seq(Nat)]
           /\ ~cli'[c] /\ down'[c] = <<>>
           /\ \A d \in Conn \ {c} : cli'[d] = cli[d] /\ down'[d] = down[d]
  BY DEF TypeOK, CloseClient

\* The worker's end likewise.
LEMMA CloseServerType ==
    ASSUME TypeOK, NEW c \in Conn, CloseServer(c)
    PROVE  /\ srv' \in [Conn -> BOOLEAN] /\ up' \in [Conn -> Seq(Frame)]
           /\ pend' \in [Conn -> Nat]
           /\ ~srv'[c] /\ up'[c] = <<>> /\ pend'[c] = 0
           /\ \A d \in Conn \ {c} : srv'[d] = srv[d] /\ up'[d] = up[d] /\ pend'[d] = pend[d]
  BY DEF TypeOK, CloseServer

\* Every step keeps the types.
LEMMA TypeStep == IInv /\ [Next]_vars => TypeOK'
<1> SUFFICES ASSUME IInv, [Next]_vars PROVE TypeOK'
  OBVIOUS
<1>a. TypeOK /\ ExclusiveConn
  BY DEF IInv
<1> USE DEF connVars, callVars
<1>1. ASSUME NEW t \in Thread, NEW kind \in {"req", "unsub"}, Begin(t, kind) PROVE TypeOK'
  BY <1>a, <1>1 DEF TypeOK, PCs, Begin
<1>2. ASSUME NEW t \in Thread, TakeCid(t) PROVE TypeOK'
  <2>1. pc' \in [Thread -> PCs] /\ next_cid' \in Nat \ {0}
    BY <1>a, <1>2 DEF TypeOK, PCs, TakeCid
  <2>2. cid' \in [Thread -> Nat]
    <3>1. next_cid \in Nat /\ 0 \in Nat /\ cid \in [Thread -> Nat]
      BY <1>a DEF TypeOK
    <3>2. \E n \in Nat : cid' = [cid EXCEPT ![t] = n]
      BY <1>2, <3>1 DEF TakeCid
    <3> QED BY <3>1, <3>2
  <2>3. mine' \in [Thread -> SUBSET Nat]
    <3>1. mine[t] \cup {next_cid} \in SUBSET Nat
      BY <1>a DEF TypeOK
    <3>2. mine \in [Thread -> SUBSET Nat]
      BY <1>a DEF TypeOK
    <3>3. mine' = mine \/ mine' = [mine EXCEPT ![t] = mine[t] \cup {next_cid}]
      BY <1>2 DEF TakeCid
    <3> QED BY <3>1, <3>2, <3>3
  <2> QED BY <1>a, <1>2, <2>1, <2>2, <2>3 DEF TypeOK, TakeCid
<1>3. ASSUME NEW t \in Thread, EnsureFails(t) \/ AcquireFails(t) PROVE TypeOK'
  BY <1>a, <1>3, FailType DEF TypeOK, EnsureFails, AcquireFails
<1>4. ASSUME NEW t \in Thread, AcquireIdle(t) PROVE TypeOK'
  <2>1. Front(idle) \in Seq(Conn) /\ Last(idle) \in Conn
    BY <1>a, <1>4, Popped DEF TypeOK, AcquireIdle
  <2>2. cli' \in [Conn -> BOOLEAN] /\ down' \in [Conn -> Seq(Nat)]
    BY <1>a, <1>4, <2>1, CloseType DEF TypeOK, AcquireIdle
  <2>3. pc' \in [Thread -> PCs] /\ cn' \in [Thread -> Conn \cup {NoConn}]
    <3>1. CASE IsAlive(Last(idle))
      <4>1. pc' = [pc EXCEPT ![t] = "write"] /\ cn' = [cn EXCEPT ![t] = Last(idle)]
        BY <1>4, <3>1 DEF AcquireIdle
      <4> QED BY <1>a, <2>1, <4>1 DEF TypeOK, PCs
    <3>2. CASE ~IsAlive(Last(idle))
      BY <1>a, <1>4, <3>2 DEF TypeOK, AcquireIdle
    <3> QED BY <3>1, <3>2
  <2> QED BY <1>a, <1>4, <2>1, <2>2, <2>3 DEF TypeOK, AcquireIdle
<1>5. ASSUME NEW t \in Thread, NEW c \in Conn, AcquireNew(t, c) PROVE TypeOK'
  BY <1>a, <1>5 DEF TypeOK, PCs, AcquireNew
<1>6. ASSUME NEW t \in Thread, Write(t) PROVE TypeOK'
  <2>1. cn[t] \in Conn
    BY <1>a, <1>6 DEF ExclusiveConn, Holding, Write
  <2>2. up' \in [Conn -> Seq(Frame)]
    BY <1>a, <1>6, <2>1 DEF TypeOK, Write, Frame
  <2>3. CASE op[t] = "req"
    BY <1>a, <1>6, <2>2, <2>3 DEF TypeOK, Write, PCs
  <2>4. CASE op[t] # "req"
    <3>1. Done(t) /\ Release(cn[t])
      BY <1>6, <2>4 DEF Write
    <3>2. idle' \in Seq(Conn) /\ cli' \in [Conn -> BOOLEAN] /\ down' \in [Conn -> Seq(Nat)]
      <4>1. CASE Len(idle) < MaxIdle
        <5>1. idle' = Append(idle, cn[t]) /\ UNCHANGED <<cli, down>>
          BY <3>1, <4>1 DEF Release
        <5> QED BY <1>a, <2>1, <5>1 DEF TypeOK
      <4>2. CASE ~(Len(idle) < MaxIdle)
        <5>1. CloseClient(cn[t]) /\ UNCHANGED idle
          BY <3>1, <4>2 DEF Release
        <5> QED BY <1>a, <2>1, <5>1, CloseType DEF TypeOK
      <4> QED BY <4>1, <4>2
    <3> QED BY <1>a, <1>6, <2>2, <3>1, <3>2, DoneType DEF TypeOK, Write
  <2> QED BY <2>3, <2>4
<1>7. ASSUME NEW t \in Thread, WriteFails(t) \/ RecvEof(t) \/ RecvTimeout(t) PROVE TypeOK'
  <2>1. cn[t] \in Conn
    BY <1>a, <1>7 DEF ExclusiveConn, Holding, WriteFails, RecvEof, RecvTimeout
  <2>2. CloseClient(cn[t]) /\ UNCHANGED idle
    BY <1>7 DEF WriteFails, RecvEof, RecvTimeout, Discard
  <2>3. \E error \in {"pipe", "timeout", "eof"} : Fail(t, error)
    BY <1>7 DEF WriteFails, RecvEof, RecvTimeout
  <2>4. cli' \in [Conn -> BOOLEAN] /\ down' \in [Conn -> Seq(Nat)]
    BY <1>a, <2>1, <2>2, CloseType
  <2>5. /\ pc' \in [Thread -> PCs] /\ op' \in [Thread -> {"none", "req", "unsub"}]
        /\ cn' \in [Thread -> Conn \cup {NoConn}] /\ cid' \in [Thread -> Nat]
        /\ attempt' \in [Thread -> 0 .. 2]
    BY <1>a, <2>3, FailType
  <2>6. UNCHANGED <<calls, idle, next_cid, mine, cut, srv, up, pend, ran>>
    BY <1>7, <2>2 DEF WriteFails, RecvEof, RecvTimeout
  <2> QED
    BY <1>a, <2>4, <2>5, <2>6 DEF TypeOK
<1>8. ASSUME NEW t \in Thread, Recv(t) PROVE TypeOK'
  <2>1. cn[t] \in Conn
    BY <1>a, <1>8 DEF ExclusiveConn, Holding, Recv
  <2>2. Append(idle, cn[t]) \in Seq(Conn) /\ Tail(down[cn[t]]) \in Seq(Nat)
    BY <1>a, <1>8, <2>1 DEF TypeOK, Recv
  <2>3. idle' \in Seq(Conn)
    BY <1>a, <1>8, <2>2 DEF TypeOK, Recv, Discard
  <2>4. cli' \in [Conn -> BOOLEAN] /\ down' \in [Conn -> Seq(Nat)]
    <3>1. CASE Discard(cn[t])
      BY <1>a, <2>1, <3>1, CloseType DEF Discard
    <3>2. CASE down' = [down EXCEPT ![cn[t]] = Tail(@)] /\ UNCHANGED cli
      BY <1>a, <2>1, <2>2, <3>2 DEF TypeOK
    <3> QED BY <1>8, <3>1, <3>2 DEF Recv
  <2> QED BY <1>a, <1>8, <2>3, <2>4, DoneType DEF TypeOK, Recv
<1>9. ASSUME NEW c \in Conn, Serve(c) PROVE TypeOK'
  <2>1. Tail(up[c]) \in Seq(Frame) /\ Head(up[c]) \in Frame
    BY <1>a, <1>9, Consumed DEF TypeOK, Serve
  <2>2. Head(up[c]).cid \in Nat
    BY <2>1 DEF Frame
  <2>3. up' = [up EXCEPT ![c] = Tail(up[c])]
    BY <1>9 DEF Serve
  <2>4. up' \in [Conn -> Seq(Frame)]
    BY <1>a, <2>1, <2>3 DEF TypeOK
  <2>5. pend' \in [Conn -> Nat] /\ ran' \subseteq Nat
    <3>1. pend \in [Conn -> Nat] /\ ran \subseteq Nat
      BY <1>a DEF TypeOK
    <3>2. CASE /\ pend' = [pend EXCEPT ![c] = Head(up[c]).cid]
               /\ ran' = ran \cup {Head(up[c]).cid}
      BY <2>2, <3>1, <3>2
    <3>3. CASE UNCHANGED <<pend, ran>>
      BY <3>1, <3>3
    <3> QED BY <1>9, <3>2, <3>3 DEF Serve
  <2> QED BY <1>a, <1>9, <2>4, <2>5 DEF TypeOK, Serve
<1>10. ASSUME NEW c \in Conn, Respond(c) \/ ServerEof(c) PROVE TypeOK'
  <2>1. CASE CloseServer(c) /\ UNCHANGED <<calls, idle, next_cid, callVars, cli, down, ran>>
    BY <1>a, <2>1, CloseServerType DEF TypeOK
  <2>2. CASE Respond(c) /\ cli[c]
    <3>1. Append(down[c], pend[c]) \in Seq(Nat)
      BY <1>a DEF TypeOK
    <3>2. /\ down' = [down EXCEPT ![c] = Append(down[c], pend[c])]
          /\ pend' = [pend EXCEPT ![c] = 0] /\ UNCHANGED <<srv, up>>
      BY <2>2 DEF Respond
    <3>3. down' \in [Conn -> Seq(Nat)] /\ pend' \in [Conn -> Nat]
      BY <1>a, <3>1, <3>2 DEF TypeOK
    <3> QED BY <1>a, <2>2, <3>2, <3>3 DEF TypeOK, Respond
  <2> QED BY <1>10, <2>1, <2>2 DEF Respond, ServerEof
<1>11. ASSUME NEW c \in Conn, ServerCuts(c) PROVE TypeOK'
  BY <1>a, <1>11, CloseServerType DEF TypeOK, ServerCuts
<1>12. CASE CloseIdle
  BY <1>a, <1>12 DEF TypeOK, CloseIdle
<1>13. CASE UNCHANGED vars
  BY <1>a, <1>13 DEF TypeOK, vars
<1> QED
  BY <1>1, <1>2, <1>3, <1>4, <1>5, <1>6, <1>7, <1>8, <1>9, <1>10, <1>11, <1>12, <1>13
  DEF Next, Call, Worker

----------------------------------------------------------------------------
Rest == ExclusiveConn /\ PoolBounded /\ Ends /\ Cids /\ Wire

\* Nothing happens to the calls of the threads other than t.
Others(t) ==
    \A u \in Thread \ {t} :
        pc'[u] = pc[u] /\ op'[u] = op[u] /\ cn'[u] = cn[u] /\ cid'[u] = cid[u]

\* Nothing happens to the connections other than c.
Elsewhere(c) ==
    \A d \in Conn \ {c} :
        /\ cli'[d] = cli[d] /\ srv'[d] = srv[d] /\ up'[d] = up[d]
        /\ down'[d] = down[d] /\ pend'[d] = pend[d]

\* The other threads hold other connections, and none of them is in the pool.
LEMMA Apart ==
    ASSUME IInv, NEW t \in Thread, Holding(t)
    PROVE  /\ cn[t] \in Conn /\ cn[t] # NoConn
           /\ \A u \in Thread \ {t} : cn[u] # cn[t]
           /\ \A i \in DOMAIN idle : idle[i] # cn[t] /\ idle[i] \in Conn
           /\ \A u \in Thread : Holding(u) => cn[u] \in Conn
           /\ \A u \in Thread : ~Holding(u) => cn[u] = NoConn
<1>1. idle \in Seq(Conn) /\ cn \in [Thread -> Conn \cup {NoConn}] /\ ExclusiveConn
  BY DEF IInv, TypeOK
<1>2. \A i \in DOMAIN idle : idle[i] \in Conn
  BY <1>1
<1> QED BY <1>1, <1>2 DEF ExclusiveConn

\* A thread that holds no connection moves on, and the pool is left alone:
\* Begin, TakeCid, EnsureFails, AcquireFails.
LEMMA ThreadAlone ==
    ASSUME IInv, NEW t \in Thread, Others(t),
           ~Holding(t), pc'[t] \notin {"write", "recv"}, cn'[t] = NoConn,
           op'[t] = "req" /\ pc'[t] = "acquire" => cid'[t] # 0,
           UNCHANGED <<idle, connVars>>
    PROVE  Rest'
<1> USE DEF Others, connVars
<1>0. cn[t] = NoConn
  BY DEF IInv, TypeOK, ExclusiveConn
<1>1. ExclusiveConn'
  BY <1>0 DEF IInv, ExclusiveConn, Holding
<1>2. PoolBounded' /\ Ends'
  BY DEF IInv, PoolBounded, Ends, Holding
<1>3. Cids'
  BY DEF IInv, Cids, Holding
<1>4. Wire'
  BY DEF IInv, Wire, Holding
<1> QED BY <1>1, <1>2, <1>3, <1>4 DEF Rest

\* A thread drops the connection it holds: after poison(), or because the pool
\* is full.
LEMMA ConnDropped ==
    ASSUME IInv, NEW t \in Thread, Others(t), Holding(t), Elsewhere(cn[t]),
           pc'[t] \in {"out", "ensure"}, cn'[t] = NoConn, UNCHANGED idle,
           ~cli'[cn[t]], down'[cn[t]] = <<>>,
           ~srv'[cn[t]] => up'[cn[t]] = <<>> /\ pend'[cn[t]] = 0
    PROVE  Rest'
<1> USE DEF Others, Elsewhere
<1>0. /\ cn[t] \in Conn /\ cn[t] # NoConn
      /\ \A u \in Thread \ {t} : cn[u] # cn[t]
      /\ \A i \in DOMAIN idle : idle[i] # cn[t] /\ idle[i] \in Conn
      /\ \A u \in Thread : Holding(u) => cn[u] \in Conn
      /\ \A u \in Thread : ~Holding(u) => cn[u] = NoConn
  BY Apart
<1>1. ExclusiveConn'
  <2>1. \A u \in Thread : cn'[u] \in Conn <=> Holding(u)'
    BY <1>0 DEF IInv, ExclusiveConn, Holding
  <2>2. \A u, v \in Thread : cn'[u] = cn'[v] /\ cn'[u] # NoConn => u = v
    BY <1>0 DEF IInv, ExclusiveConn
  <2>3. \A u \in Thread, i \in DOMAIN idle : cn'[u] # idle[i]
    BY <1>0 DEF IInv, ExclusiveConn
  <2> QED BY <2>1, <2>2, <2>3 DEF IInv, ExclusiveConn
<1>2. PoolBounded'
  BY DEF IInv, PoolBounded
<1>3. Ends'
  <2>1. \A c \in Conn : ~srv'[c] => up'[c] = <<>> /\ pend'[c] = 0
    BY <1>0 DEF IInv, Ends
  <2>2. \A c \in Conn : ~cli'[c] => down'[c] = <<>>
    BY <1>0 DEF IInv, Ends
  <2>3. \A i \in DOMAIN idle : cli'[idle[i]]
    BY <1>0 DEF IInv, Ends
  <2>4. \A u \in Thread : Holding(u)' => cli'[cn'[u]]
    BY <1>0 DEF IInv, Ends, Holding
  <2> QED BY <2>1, <2>2, <2>3, <2>4 DEF Ends
<1>4. Cids'
  BY DEF IInv, Cids, Holding
<1>5. Wire'
  <2>1. ASSUME NEW i \in DOMAIN idle
        PROVE  Quiet(up'[idle[i]], down'[idle[i]], pend'[idle[i]])
    BY <1>0 DEF IInv, Wire
  <2>2. ASSUME NEW u \in Thread, pc'[u] \in {"write", "recv"}
        PROVE  /\ u # t /\ cn'[u] = cn[u] /\ pc'[u] = pc[u] /\ cid'[u] = cid[u]
               /\ up'[cn[u]] = up[cn[u]] /\ down'[cn[u]] = down[cn[u]]
               /\ pend'[cn[u]] = pend[cn[u]]
    BY <1>0, <2>2 DEF Holding
  <2> QED BY <2>1, <2>2, SMTT(30) DEF IInv, Wire
<1> QED BY <1>1, <1>2, <1>3, <1>4, <1>5 DEF Rest

\* A thread gives the connection it holds back to the pool, with nothing
\* outstanding on it.
LEMMA ConnReturned ==
    ASSUME IInv, NEW t \in Thread, Others(t), Holding(t), Elsewhere(cn[t]),
           pc'[t] = "out", cn'[t] = NoConn,
           Len(idle) < MaxIdle, idle' = Append(idle, cn[t]), UNCHANGED cli,
           Quiet(up'[cn[t]], down'[cn[t]], pend'[cn[t]]),
           ~srv'[cn[t]] => up'[cn[t]] = <<>>
    PROVE  Rest'
<1> USE DEF Others, Elsewhere
<1>0. /\ cn[t] \in Conn /\ cn[t] # NoConn
      /\ \A u \in Thread \ {t} : cn[u] # cn[t]
      /\ \A i \in DOMAIN idle : idle[i] # cn[t] /\ idle[i] \in Conn
      /\ \A u \in Thread : Holding(u) => cn[u] \in Conn
      /\ \A u \in Thread : ~Holding(u) => cn[u] = NoConn
  BY Apart
<1>a. idle \in Seq(Conn)
  BY DEF IInv, TypeOK
<1>b. /\ Len(idle) \in Nat /\ DOMAIN idle = 1 .. Len(idle)
      /\ Len(idle') = Len(idle) + 1 /\ DOMAIN idle' = 1 .. Len(idle) + 1
      /\ \A i \in 1 .. Len(idle) : idle'[i] = idle[i]
      /\ idle'[Len(idle) + 1] = cn[t]
  BY <1>0, <1>a
<1>c. \A i \in DOMAIN idle' : (i \in DOMAIN idle /\ idle'[i] = idle[i]) \/
                              (i = Len(idle) + 1 /\ idle'[i] = cn[t])
  BY <1>b
<1>1. ExclusiveConn'
  <2>1. \A u \in Thread : cn'[u] \in Conn <=> Holding(u)'
    BY <1>0 DEF IInv, ExclusiveConn, Holding
  <2>2. \A u, v \in Thread : cn'[u] = cn'[v] /\ cn'[u] # NoConn => u = v
    BY <1>0 DEF IInv, ExclusiveConn
  <2>3. \A u \in Thread, i \in DOMAIN idle' : cn'[u] # idle'[i]
    BY <1>0, <1>c DEF IInv, ExclusiveConn
  <2>4. \A i, j \in DOMAIN idle' : idle'[i] = idle'[j] => i = j
    BY <1>0, <1>c DEF IInv, ExclusiveConn
  <2> QED BY <2>1, <2>2, <2>3, <2>4 DEF ExclusiveConn
<1>2. PoolBounded'
  BY <1>b DEF PoolBounded
<1>3. Ends'
  <2>1. \A c \in Conn : ~srv'[c] => up'[c] = <<>> /\ pend'[c] = 0
    BY <1>0 DEF IInv, Ends, Quiet
  <2>2. \A c \in Conn : ~cli'[c] => down'[c] = <<>>
    BY <1>0 DEF IInv, Ends, Quiet
  <2>3. \A i \in DOMAIN idle' : cli'[idle'[i]]
    BY <1>0, <1>c DEF IInv, Ends
  <2>4. \A u \in Thread : Holding(u)' => cli'[cn'[u]]
    BY <1>0 DEF IInv, Ends, Holding
  <2> QED BY <2>1, <2>2, <2>3, <2>4 DEF Ends
<1>4. Cids'
  BY DEF IInv, Cids, Holding
<1>5. Wire'
  <2>1. ASSUME NEW i \in DOMAIN idle'
        PROVE  Quiet(up'[idle'[i]], down'[idle'[i]], pend'[idle'[i]])
    <3>1. CASE i \in DOMAIN idle /\ idle'[i] = idle[i]
      BY <1>0, <3>1 DEF IInv, Wire
    <3>2. CASE idle'[i] = cn[t]
      BY <3>2
    <3> QED BY <1>c, <3>1, <3>2
  <2>2. ASSUME NEW u \in Thread, pc'[u] \in {"write", "recv"}
        PROVE  /\ u # t /\ cn'[u] = cn[u] /\ pc'[u] = pc[u] /\ cid'[u] = cid[u]
               /\ up'[cn[u]] = up[cn[u]] /\ down'[cn[u]] = down[cn[u]]
               /\ pend'[cn[u]] = pend[cn[u]]
    BY <1>0, <2>2 DEF Holding
  <2> QED BY <2>1, <2>2, SMTT(30) DEF IInv, Wire
<1> QED BY <1>1, <1>2, <1>3, <1>4, <1>5 DEF Rest

\* The worker's side of one connection moves.  It leaves alone who holds what,
\* so it is enough that it keeps the outstanding request where it can be.
LEMMA WorkerSide ==
    ASSUME IInv, NEW c \in Conn, Elsewhere(c),
           UNCHANGED <<idle, pc, op, cn, cid, cli>>,
           ~srv'[c] => up'[c] = <<>> /\ pend'[c] = 0,
           ~cli[c] => down'[c] = <<>>,
           Quiet(up[c], down[c], pend[c]) => Quiet(up'[c], down'[c], pend'[c]),
           \A k \in Nat \ {0} : cli[c] /\ Awaiting(up[c], down[c], pend[c], k)
                                  => Awaiting(up'[c], down'[c], pend'[c], k)
    PROVE  Rest'
<1> USE DEF Elsewhere
<1>1. ExclusiveConn' /\ PoolBounded' /\ Cids'
  BY DEF IInv, ExclusiveConn, PoolBounded, Cids, Holding
<1>2. Ends'
  BY DEF IInv, Ends, Holding
<1>a. \A i \in DOMAIN idle : idle[i] \in Conn
  BY DEF IInv, TypeOK
<1>b. \A u \in Thread : pc[u] \in {"write", "recv"} => cn[u] \in Conn
  BY DEF IInv, ExclusiveConn, Holding
<1>c. \A u \in Thread : pc[u] = "recv" => cid[u] \in Nat \ {0} /\ cli[cn[u]]
  BY DEF IInv, TypeOK, Cids, Ends, Holding
<1>3. Wire'
  <2>1. ASSUME NEW i \in DOMAIN idle
        PROVE  Quiet(up'[idle[i]], down'[idle[i]], pend'[idle[i]])
    BY <1>a DEF IInv, Wire
  <2>2. ASSUME NEW u \in Thread, pc[u] = "write"
        PROVE  Quiet(up'[cn[u]], down'[cn[u]], pend'[cn[u]])
    BY <1>b, <2>2 DEF IInv, Wire
  <2>3. ASSUME NEW u \in Thread, pc[u] = "recv"
        PROVE  Awaiting(up'[cn[u]], down'[cn[u]], pend'[cn[u]], cid[u])
    BY <1>b, <1>c, <2>3 DEF IInv, Wire
  <2> QED BY <2>1, <2>2, <2>3 DEF Wire
<1> QED BY <1>1, <1>2, <1>3 DEF Rest

\* A thread that held nothing now holds c, which nobody else has: taken from
\* the pool, or opened.
LEMMA ConnTaken ==
    ASSUME IInv, NEW t \in Thread, NEW c \in Conn, Others(t), Elsewhere(c),
           ~Holding(t), pc'[t] = "write", cn'[t] = c,
           op'[t] = "req" => cid'[t] # 0,
           \A u \in Thread : cn[u] # c, Len(idle') <= Len(idle), Len(idle') \in Nat,
           \A i \in DOMAIN idle' : i \in DOMAIN idle /\ idle'[i] = idle[i] /\ idle[i] # c,
           cli'[c], Quiet(up'[c], down'[c], pend'[c]), ~srv'[c] => up'[c] = <<>>
    PROVE  Rest'
<1> USE DEF Others, Elsewhere
<1>a. /\ \A i \in DOMAIN idle : idle[i] \in Conn
      /\ \A u \in Thread : Holding(u) => cn[u] \in Conn
      /\ Len(idle) \in Nat /\ c # NoConn
  BY DEF IInv, TypeOK, ExclusiveConn
<1>1. ExclusiveConn'
  <2>1. \A u \in Thread : cn'[u] \in Conn <=> Holding(u)'
    BY DEF IInv, ExclusiveConn, Holding
  <2>2. \A u, v \in Thread : cn'[u] = cn'[v] /\ cn'[u] # NoConn => u = v
    BY DEF IInv, ExclusiveConn
  <2>3. \A u \in Thread, i \in DOMAIN idle' : cn'[u] # idle'[i]
    BY DEF IInv, ExclusiveConn
  <2>4. \A i, j \in DOMAIN idle' : idle'[i] = idle'[j] => i = j
    BY DEF IInv, ExclusiveConn
  <2> QED BY <2>1, <2>2, <2>3, <2>4 DEF ExclusiveConn
<1>2. PoolBounded'
  BY <1>a DEF IInv, PoolBounded
<1>3. Ends'
  <2>1. \A d \in Conn : ~srv'[d] => up'[d] = <<>> /\ pend'[d] = 0
    BY DEF IInv, Ends, Quiet
  <2>2. \A d \in Conn : ~cli'[d] => down'[d] = <<>>
    BY DEF IInv, Ends, Quiet
  <2>3. \A i \in DOMAIN idle' : cli'[idle'[i]]
    BY <1>a DEF IInv, Ends
  <2>4. \A u \in Thread : Holding(u)' => cli'[cn'[u]]
    BY <1>a DEF IInv, Ends, Holding
  <2> QED BY <2>1, <2>2, <2>3, <2>4 DEF Ends
<1>4. Cids'
  BY DEF IInv, Cids, Holding
<1>5. Wire'
  <2>1. ASSUME NEW i \in DOMAIN idle'
        PROVE  Quiet(up'[idle'[i]], down'[idle'[i]], pend'[idle'[i]])
    BY <1>a, SMTT(30) DEF IInv, Wire
  <2>2. ASSUME NEW u \in Thread, u # t, pc'[u] \in {"write", "recv"}
        PROVE  /\ cn'[u] = cn[u] /\ pc'[u] = pc[u] /\ cid'[u] = cid[u]
               /\ up'[cn[u]] = up[cn[u]] /\ down'[cn[u]] = down[cn[u]]
               /\ pend'[cn[u]] = pend[cn[u]]
    BY <1>a, <2>2 DEF Holding
  <2>3. ASSUME NEW u \in Thread, pc'[u] = "write"
        PROVE  Quiet(up'[cn'[u]], down'[cn'[u]], pend'[cn'[u]])
    BY <2>2, <2>3 DEF IInv, Wire
  <2>4. ASSUME NEW u \in Thread, pc'[u] = "recv"
        PROVE  Awaiting(up'[cn'[u]], down'[cn'[u]], pend'[cn'[u]], cid'[u])
    BY <2>2, <2>4 DEF IInv, Wire
  <2> QED BY <2>1, <2>3, <2>4 DEF Wire
<1> QED BY <1>1, <1>2, <1>3, <1>4, <1>5 DEF Rest

\* Connections of the pool are dropped: those of C, which are no longer in it.
LEMMA IdleDropped ==
    ASSUME IInv, NEW C \in SUBSET Conn, UNCHANGED <<pc, op, cn, cid, srv, up, pend>>,
           \A u \in Thread : cn[u] \notin C, Len(idle') <= Len(idle), Len(idle') \in Nat,
           \A i \in DOMAIN idle' :
                i \in DOMAIN idle /\ idle'[i] = idle[i] /\ idle[i] \notin C,
           \A d \in Conn \ C : cli'[d] = cli[d] /\ down'[d] = down[d],
           \A d \in C : down'[d] = <<>>
    PROVE  Rest'
<1>a. /\ \A i \in DOMAIN idle : idle[i] \in Conn
      /\ \A u \in Thread : Holding(u) => cn[u] \in Conn
      /\ Len(idle) \in Nat
  BY DEF IInv, TypeOK, ExclusiveConn
<1>1. ExclusiveConn' /\ Cids'
  BY DEF IInv, ExclusiveConn, Cids, Holding
<1>2. PoolBounded'
  BY <1>a DEF IInv, PoolBounded
<1>3. Ends'
  BY <1>a DEF IInv, Ends, Holding
<1>4. Wire'
  <2>1. ASSUME NEW i \in DOMAIN idle'
        PROVE  Quiet(up'[idle'[i]], down'[idle'[i]], pend'[idle'[i]])
    BY <1>a DEF IInv, Wire
  <2>2. \A u \in Thread : pc[u] \in {"write", "recv"} => down'[cn[u]] = down[cn[u]]
    BY <1>a DEF Holding
  <2> QED BY <2>1, <2>2, SMTT(30) DEF IInv, Wire
<1> QED BY <1>1, <1>2, <1>3, <1>4 DEF Rest

\* A thread sends its request on a connection with nothing outstanding.
LEMMA RequestSent ==
    ASSUME IInv, NEW t \in Thread, op[t] = "req", Write(t)
    PROVE  Rest'
<1> DEFINE c == cn[t]
           f == [cid |-> cid[t], answered |-> TRUE]
<1>0. /\ c \in Conn /\ c # NoConn
      /\ \A u \in Thread \ {t} : cn[u] # c
      /\ \A i \in DOMAIN idle : idle[i] # c /\ idle[i] \in Conn
      /\ \A u \in Thread : Holding(u) => cn[u] \in Conn
      /\ \A u \in Thread : ~Holding(u) => cn[u] = NoConn
  BY Apart DEF Write, Holding
<1>a. /\ up' = [up EXCEPT ![c] = Append(@, f)] /\ pc' = [pc EXCEPT ![t] = "recv"]
      /\ UNCHANGED <<cn, op, cid, idle, cli, down, srv, pend>>
      /\ pc[t] = "write" /\ srv[c]
  BY DEF Write
<1>b. /\ up \in [Conn -> Seq(Frame)] /\ pc \in [Thread -> PCs] /\ cid[t] \in Nat
      /\ f \in Frame
  BY DEF IInv, TypeOK, Frame
<1>1. ExclusiveConn' /\ PoolBounded'
  BY <1>a, <1>b DEF IInv, ExclusiveConn, PoolBounded, Holding
<1>2. Cids' /\ Ends'
  BY <1>0, <1>a, <1>b DEF IInv, Cids, Ends, Holding
<1>3. Awaiting(up'[c], down'[c], pend'[c], cid[t])
  <2>1. Quiet(up[c], down[c], pend[c])
    BY <1>a DEF IInv, Wire
  <2>2. up'[c] = Append(up[c], f) /\ up[c] \in Seq(Frame)
    BY <1>0, <1>a, <1>b
  <2>3. /\ DOMAIN up'[c] = 1 .. Len(up[c]) + 1 /\ DOMAIN up[c] = 1 .. Len(up[c])
        /\ Len(up'[c]) = Len(up[c]) + 1 /\ Len(up[c]) \in Nat
        /\ \A i \in 1 .. Len(up[c]) : up'[c][i] = up[c][i]
        /\ up'[c][Len(up[c]) + 1] = f
    BY <2>2, <1>b
  <2>4. \A i \in DOMAIN up'[c] :
            up'[c][i].answered => i = Len(up'[c]) /\ up'[c][i].cid = cid[t]
    <3>1. f.cid = cid[t]
      OBVIOUS
    <3>2. ASSUME NEW i \in 1 .. Len(up[c]) PROVE ~up'[c][i].answered
      BY <2>1, <2>3 DEF Quiet, NoRequest
    <3>3. \A i \in DOMAIN up'[c] : i \in 1 .. Len(up[c]) \/ i = Len(up[c]) + 1
      BY <2>3
    <3> HIDE DEF f, c
    <3> QED BY <2>3, <3>1, <3>2, <3>3
  <2> QED BY <1>a, <2>1, <2>4 DEF Awaiting, Quiet
<1>4. Wire'
  <2>1. \A d \in Conn \ {c} : up'[d] = up[d]
    BY <1>a, <1>b
  <2>2. ASSUME NEW u \in Thread, u # t, Holding(u)
        PROVE  up'[cn[u]] = up[cn[u]]
    <3>1. cn[u] \in Conn \ {c}
      BY <1>0, <2>2
    <3> QED BY <2>1, <3>1
  <2>3. pc'[t] = "recv" /\ \A u \in Thread : u # t => pc'[u] = pc[u]
    BY <1>a, <1>b
  <2>4. ASSUME NEW i \in DOMAIN idle PROVE up'[idle[i]] = up[idle[i]]
    BY <1>0, <2>1
  <2>5. ASSUME NEW i \in DOMAIN idle'
        PROVE  Quiet(up'[idle'[i]], down'[idle'[i]], pend'[idle'[i]])
    BY <1>a, <2>4 DEF IInv, Wire
  <2>6. ASSUME NEW u \in Thread, pc'[u] = "write"
        PROVE  Quiet(up'[cn'[u]], down'[cn'[u]], pend'[cn'[u]])
    BY <1>a, <2>2, <2>3, <2>6 DEF IInv, Wire, Holding
  <2>7. ASSUME NEW u \in Thread, pc'[u] = "recv"
        PROVE  Awaiting(up'[cn'[u]], down'[cn'[u]], pend'[cn'[u]], cid'[u])
    BY <1>a, <1>3, <2>2, <2>3, <2>7 DEF IInv, Wire, Holding
  <2> QED BY <2>5, <2>6, <2>7 DEF Wire
<1> QED BY <1>1, <1>2, <1>3, <1>4 DEF Rest

\* The end of a call, or of an attempt, leaves the thread without connection.
LEMMA CallEnds ==
    ASSUME TypeOK, NEW t \in Thread, NEW e, Done(t) \/ Fail(t, e)
    PROVE  /\ Others(t) /\ cn'[t] = NoConn /\ pc'[t] \in {"out", "ensure"}
           /\ Done(t) => pc'[t] = "out"
<1>1. CASE Done(t)
  BY <1>1 DEF TypeOK, Done, Others
<1>2. CASE Fail(t, e) /\ ~Done(t)
  BY <1>2 DEF TypeOK, Fail, Others
<1> QED BY <1>1, <1>2

\* A stream that is dropped leaves the others alone.
LEMMA ClientCloses ==
    ASSUME TypeOK, NEW c \in Conn, CloseClient(c), UNCHANGED <<srv, up, pend>>
    PROVE  Elsewhere(c) /\ ~cli'[c] /\ down'[c] = <<>>
  BY DEF TypeOK, CloseClient, Elsewhere

\* Reading a frame that is no request leaves no request unread.
LEMMA TailNoRequest ==
    ASSUME NEW u \in Seq(Frame), u # <<>>, NoRequest(u)
    PROVE  NoRequest(Tail(u))
<1>1. Len(u) \in Nat \ {0} /\ DOMAIN u = 1 .. Len(u) /\ DOMAIN Tail(u) = 1 .. Len(u) - 1
  OBVIOUS
<1>2. \A i \in 1 .. Len(u) - 1 : Tail(u)[i] = u[i + 1] /\ i + 1 \in 1 .. Len(u)
  BY <1>1
<1> QED BY <1>1, <1>2 DEF NoRequest

\* Serve moves the outstanding request from the stream into the handler.
LEMMA ServeKeeps ==
    ASSUME IInv, NEW c \in Conn, Serve(c)
    PROVE  Rest'
<1>a. /\ srv[c] /\ pend[c] = 0 /\ up[c] # <<>> /\ up[c] \in Seq(Frame)
      /\ up' = [up EXCEPT ![c] = Tail(@)] /\ UNCHANGED <<idle, pc, op, cn, cid, cli, srv, down>>
      /\ Head(up[c]).answered => pend' = [pend EXCEPT ![c] = Head(up[c]).cid]
      /\ ~Head(up[c]).answered => pend' = pend
  BY DEF IInv, TypeOK, Serve, callVars
<1>b. /\ up \in [Conn -> Seq(Frame)] /\ pend \in [Conn -> Nat]
  BY DEF IInv, TypeOK
<1>c. up'[c] = Tail(up[c]) /\ down'[c] = down[c]
  BY <1>a, <1>b
<1>1. Elsewhere(c)
  BY <1>a, <1>b DEF Elsewhere
<1>2. /\ Len(up[c]) \in Nat \ {0} /\ DOMAIN up[c] = 1 .. Len(up[c])
      /\ DOMAIN Tail(up[c]) = 1 .. Len(up[c]) - 1 /\ Len(Tail(up[c])) = Len(up[c]) - 1
      /\ \A i \in 1 .. Len(up[c]) - 1 :
            Tail(up[c])[i] = up[c][i + 1] /\ i + 1 \in 1 .. Len(up[c])
      /\ Head(up[c]) = up[c][1] /\ 1 \in DOMAIN up[c]
  BY <1>a
<1>3. Quiet(up[c], down[c], pend[c]) => Quiet(up'[c], down'[c], pend'[c])
  BY <1>a, <1>c, <1>2, TailNoRequest DEF Quiet, NoRequest
<1>4. ASSUME NEW k \in Nat \ {0}, Awaiting(up[c], down[c], pend[c], k)
      PROVE  Awaiting(up'[c], down'[c], pend'[c], k)
  <2>1. CASE Head(up[c]).answered
    <3>1. /\ down[c] = <<>>
          /\ \A i \in DOMAIN up[c] :
                up[c][i].answered => i = Len(up[c]) /\ up[c][i].cid = k
      BY <1>a, <1>2, <1>4, <2>1 DEF Awaiting, NoRequest
    <3>2. Len(up[c]) = 1 /\ Head(up[c]).cid = k
      BY <1>2, <2>1, <3>1
    <3>3. NoRequest(up'[c])
      BY <1>c, <1>2, <3>2 DEF NoRequest
    <3>4. pend'[c] = k
      BY <1>a, <1>b, <2>1, <3>2
    <3> QED BY <1>c, <3>1, <3>3, <3>4 DEF Awaiting
  <2>2. CASE ~Head(up[c]).answered /\ NoRequest(up[c])
    BY <1>a, <1>c, <1>4, <2>2, TailNoRequest DEF Awaiting
  <2>3. CASE ~Head(up[c]).answered /\ ~NoRequest(up[c])
    <3>1. /\ down[c] = <<>> /\ pend'[c] = 0
          /\ \A i \in DOMAIN up[c] :
                up[c][i].answered => i = Len(up[c]) /\ up[c][i].cid = k
      BY <1>a, <1>4, <2>3 DEF Awaiting
    <3>2. ASSUME NEW i \in DOMAIN Tail(up[c]), Tail(up[c])[i].answered
          PROVE  i = Len(Tail(up[c])) /\ Tail(up[c])[i].cid = k
      <4>1. Tail(up[c])[i] = up[c][i + 1] /\ i + 1 \in DOMAIN up[c]
        BY <1>2
      <4>2. i + 1 = Len(up[c]) /\ up[c][i + 1].cid = k
        BY <3>1, <3>2, <4>1
      <4> QED BY <1>2, <4>1, <4>2
    <3> QED BY <1>c, <3>1, <3>2 DEF Awaiting
  <2> QED BY <2>1, <2>2, <2>3
<1>5. (~srv'[c] => up'[c] = <<>> /\ pend'[c] = 0) /\ (~cli[c] => down'[c] = <<>>)
  BY <1>a DEF IInv, Ends
<1> QED BY <1>a, <1>1, <1>3, <1>4, <1>5, WorkerSide

\* The response takes the place of the request; a connection whose task ends
\* has nothing left to carry but responses that were already sent.
LEMMA RespondKeeps ==
    ASSUME IInv, NEW c \in Conn, Respond(c) \/ ServerEof(c) \/ ServerCuts(c)
    PROVE  Rest'
<1>a. /\ up \in [Conn -> Seq(Frame)] /\ pend \in [Conn -> Nat]
      /\ srv \in [Conn -> BOOLEAN] /\ down \in [Conn -> Seq(Nat)]
      /\ UNCHANGED <<idle, pc, op, cn, cid, cli>>
  BY DEF IInv, TypeOK, Respond, ServerEof, ServerCuts, callVars
<1>b. (~cli[c] => down[c] = <<>>) /\ (~srv[c] => up[c] = <<>> /\ pend[c] = 0)
  BY DEF IInv, Ends
<1>1. CASE Respond(c) /\ cli[c]
  <2>1. /\ pend[c] # 0 /\ down' = [down EXCEPT ![c] = Append(@, pend[c])]
        /\ pend' = [pend EXCEPT ![c] = 0] /\ UNCHANGED <<srv, up>>
    BY <1>1 DEF Respond
  <2>2. /\ Elsewhere(c) /\ pend'[c] = 0 /\ down'[c] = Append(down[c], pend[c])
        /\ up'[c] = up[c] /\ srv'[c] = srv[c]
    BY <1>a, <2>1 DEF Elsewhere
  <2>3. ~Quiet(up[c], down[c], pend[c])
    BY <2>1 DEF Quiet
  <2>4. ASSUME NEW k \in Nat \ {0}, Awaiting(up[c], down[c], pend[c], k)
        PROVE  Awaiting(up'[c], down'[c], pend'[c], k)
    <3>1. down[c] = <<>> /\ pend[c] = k /\ NoRequest(up[c])
      BY <2>1, <2>4 DEF Awaiting
    <3>2. down'[c] = <<k>>
      BY <2>2, <3>1
    <3> QED BY <2>2, <3>1, <3>2 DEF Awaiting
  <2> QED BY <1>1, <1>a, <1>b, <2>2, <2>3, <2>4, WorkerSide
<1>2. CASE CloseServer(c) /\ UNCHANGED down
  <2>1. Elsewhere(c) /\ ~srv'[c] /\ up'[c] = <<>> /\ pend'[c] = 0 /\ down'[c] = down[c]
    BY <1>a, <1>2 DEF CloseServer, Elsewhere
  <2>2. NoRequest(up'[c]) /\ DOMAIN up'[c] = {}
    BY <2>1 DEF NoRequest
  <2>3. Quiet(up[c], down[c], pend[c]) => Quiet(up'[c], down'[c], pend'[c])
    BY <2>1, <2>2 DEF Quiet
  <2>4. ASSUME NEW k \in Nat \ {0}, Awaiting(up[c], down[c], pend[c], k)
        PROVE  Awaiting(up'[c], down'[c], pend'[c], k)
    BY <2>1, <2>2, <2>4 DEF Awaiting
  <2> QED BY <1>a, <1>b, <2>1, <2>3, <2>4, WorkerSide
<1> QED BY <1>1, <1>2 DEF Respond, ServerEof, ServerCuts

\* acquire keeps the invariant: what it pops was in the pool once and belonged
\* to nobody; what it opens was closed at both ends.
LEMMA AcquireKeeps ==
    ASSUME IInv, NEW t \in Thread,
           AcquireIdle(t) \/ \E c \in Conn : AcquireNew(t, c)
    PROVE  Rest'
<1>a. /\ idle \in Seq(Conn) /\ pc \in [Thread -> PCs] /\ cli \in [Conn -> BOOLEAN]
      /\ cn \in [Thread -> Conn \cup {NoConn}] /\ srv \in [Conn -> BOOLEAN]
      /\ down \in [Conn -> Seq(Nat)] /\ pc[t] = "acquire"
      /\ op[t] = "req" => cid[t] # 0
  BY DEF IInv, TypeOK, Cids, AcquireIdle, AcquireNew
<1>b. ~Holding(t)
  BY <1>a DEF Holding
<1>1. CASE AcquireIdle(t)
  <2> DEFINE c == Last(idle)
  <2>1. /\ idle # <<>> /\ idle' = Front(idle)
        /\ UNCHANGED <<op, cid, srv, up, pend>>
    BY <1>1 DEF AcquireIdle
  <2>2. /\ Len(idle) \in Nat \ {0} /\ c \in Conn /\ c = idle[Len(idle)]
        /\ Len(idle') = Len(idle) - 1 /\ DOMAIN idle' = 1 .. Len(idle) - 1
        /\ DOMAIN idle = 1 .. Len(idle)
        /\ \A i \in 1 .. Len(idle) - 1 : idle'[i] = idle[i]
    <3>1. /\ Front(idle) \in Seq(Conn) /\ Len(Front(idle)) = Len(idle) - 1
          /\ \A i \in 1 .. Len(idle) - 1 : Front(idle)[i] = idle[i]
          /\ c = idle[Len(idle)] /\ c \in Conn /\ Len(idle) \in Nat \ {0}
      BY <1>a, <2>1, Popped
    <3> HIDE DEF c
    <3> QED BY <1>a, <2>1, <3>1
  <2>3. \A i \in DOMAIN idle' : i \in DOMAIN idle /\ idle'[i] = idle[i] /\ idle[i] # c
    <3>1. \A i \in DOMAIN idle' : i \in DOMAIN idle /\ i # Len(idle) /\ idle'[i] = idle[i]
      BY <2>2
    <3>2. Len(idle) \in DOMAIN idle
      BY <2>2
    <3> QED BY <2>2, <3>1, <3>2 DEF IInv, ExclusiveConn
  <2>4. /\ \A u \in Thread : cn[u] # c
        /\ cli[c] /\ Quiet(up[c], down[c], pend[c])
        /\ Len(idle') <= Len(idle) /\ Len(idle') \in Nat
    <3>1. Len(idle) \in DOMAIN idle
      BY <2>2
    <3> QED BY <2>2, <3>1 DEF IInv, ExclusiveConn, Ends, Wire
  <2>5. CASE IsAlive(c)
    <3>1. /\ cn' = [cn EXCEPT ![t] = c] /\ pc' = [pc EXCEPT ![t] = "write"]
          /\ UNCHANGED <<cli, down>>
      BY <1>1, <2>5 DEF AcquireIdle
    <3>2. /\ cn'[t] = c /\ pc'[t] = "write" /\ Others(t) /\ Elsewhere(c)
          /\ op'[t] = "req" => cid'[t] # 0
      BY <1>a, <2>1, <3>1 DEF Others, Elsewhere
    <3>3. /\ cli'[c] /\ Quiet(up'[c], down'[c], pend'[c])
          /\ ~srv'[c] => up'[c] = <<>>
      BY <2>1, <2>2, <2>4, <3>1 DEF IInv, Ends
    <3> HIDE DEF c
    <3> QED BY <1>b, <2>2, <2>3, <2>4, <3>2, <3>3, ConnTaken
  <2>6. CASE ~IsAlive(c)
    <3>1. CloseClient(c) /\ UNCHANGED <<cn, pc>>
      BY <1>1, <2>6 DEF AcquireIdle
    <3>2. /\ \A d \in Conn \ {c} : cli'[d] = cli[d] /\ down'[d] = down[d]
          /\ \A d \in {c} : down'[d] = <<>>
          /\ \A u \in Thread : cn[u] \notin {c} /\ {c} \in SUBSET Conn
      BY <1>a, <2>2, <2>4, <3>1 DEF CloseClient
    <3> HIDE DEF c
    <3>3. \A i \in DOMAIN idle' :
            i \in DOMAIN idle /\ idle'[i] = idle[i] /\ idle[i] \notin {c}
      BY <2>3
    <3>4. {c} \in SUBSET Conn
      BY <2>2
    <3> QED BY <2>1, <2>4, <3>1, <3>2, <3>3, <3>4, IdleDropped
  <2> QED BY <2>5, <2>6
<1>2. ASSUME NEW c \in Conn, AcquireNew(t, c) PROVE Rest'
  <2>1. /\ ~cli[c] /\ ~srv[c] /\ cn' = [cn EXCEPT ![t] = c]
        /\ pc' = [pc EXCEPT ![t] = "write"] /\ cli' = [cli EXCEPT ![c] = TRUE]
        /\ srv' = [srv EXCEPT ![c] = TRUE]
        /\ UNCHANGED <<idle, op, cid, up, down, pend>>
    BY <1>2 DEF AcquireNew
  <2>2. up[c] = <<>> /\ pend[c] = 0 /\ down[c] = <<>>
    BY <2>1 DEF IInv, Ends
  <2>3. Quiet(up'[c], down'[c], pend'[c])
    BY <2>1, <2>2 DEF Quiet, NoRequest
  <2>4. /\ cn'[t] = c /\ pc'[t] = "write" /\ Others(t) /\ Elsewhere(c)
        /\ cli'[c] /\ up'[c] = <<>>
        /\ op'[t] = "req" => cid'[t] # 0
    BY <1>a, <2>1, <2>2 DEF Others, Elsewhere
  <2>5. ASSUME NEW u \in Thread PROVE cn[u] # c
    BY <1>a, <2>1 DEF IInv, ExclusiveConn, Ends
  <2>6. \A i \in DOMAIN idle' : i \in DOMAIN idle /\ idle'[i] = idle[i] /\ idle[i] # c
    BY <2>1 DEF IInv, Ends
  <2>7. Len(idle') <= Len(idle) /\ Len(idle') \in Nat
    BY <1>a, <2>1
  <2> QED BY <1>b, <2>3, <2>4, <2>5, <2>6, <2>7, ConnTaken
<1> QED BY <1>1, <1>2

\* What ends an exchange keeps the invariant: the connection is dropped, or it
\* goes back with nothing outstanding.
LEMMA ExchangeEnds ==
    ASSUME IInv, NEW t \in Thread,
           \/ Write(t) /\ op[t] # "req"
           \/ WriteFails(t) \/ Recv(t) \/ RecvEof(t) \/ RecvTimeout(t)
    PROVE  Rest'
<1>a. /\ Holding(t) /\ TypeOK
  BY DEF IInv, Holding, Write, WriteFails, Recv, RecvEof, RecvTimeout
<1>b. cn[t] \in Conn
  BY <1>a, Apart
<1>c. ~srv[cn[t]] => up[cn[t]] = <<>> /\ pend[cn[t]] = 0
  BY <1>b DEF IInv, Ends
<1>1. ASSUME NEW e, Done(t) \/ Fail(t, e), Discard(cn[t]), UNCHANGED <<srv, up, pend>>
      PROVE  Rest'
  <2>1. Others(t) /\ cn'[t] = NoConn /\ pc'[t] \in {"out", "ensure"}
    BY <1>a, <1>1, CallEnds
  <2>2. Elsewhere(cn[t]) /\ ~cli'[cn[t]] /\ down'[cn[t]] = <<>> /\ UNCHANGED idle
    BY <1>a, <1>b, <1>1, ClientCloses DEF Discard
  <2> QED BY <1>a, <1>c, <1>1, <2>1, <2>2, ConnDropped
<1>2. CASE WriteFails(t)
  BY <1>1, <1>2 DEF WriteFails
<1>3. CASE RecvEof(t) \/ RecvTimeout(t)
  BY <1>1, <1>3 DEF RecvEof, RecvTimeout
<1>4. CASE Recv(t)
  <2>1. Done(t) /\ UNCHANGED <<srv, up, pend>> /\ down[cn[t]] # <<>>
    BY <1>4 DEF Recv
  <2>2. CASE Discard(cn[t])
    BY <1>1, <2>1, <2>2
  <2>3. CASE ~Discard(cn[t])
    <3>1. /\ Len(idle) < MaxIdle /\ idle' = Append(idle, cn[t])
          /\ down' = [down EXCEPT ![cn[t]] = Tail(@)] /\ UNCHANGED cli
          /\ pc[t] = "recv"
      BY <1>4, <2>3 DEF Recv
    <3>2. Others(t) /\ cn'[t] = NoConn /\ pc'[t] = "out"
      BY <1>a, <2>1, CallEnds
    <3>3. down \in [Conn -> Seq(Nat)]
      BY <1>a DEF TypeOK
    <3>4. Elsewhere(cn[t]) /\ down'[cn[t]] = Tail(down[cn[t]])
      BY <1>b, <2>1, <3>1, <3>3 DEF Elsewhere
    <3>5. Awaiting(up[cn[t]], down[cn[t]], pend[cn[t]], cid[t])
      BY <3>1 DEF IInv, Wire
    <3>6. down[cn[t]] = <<cid[t]>> /\ pend[cn[t]] = 0 /\ NoRequest(up[cn[t]])
      BY <2>1, <3>5 DEF Awaiting
    <3>7. Quiet(up'[cn[t]], down'[cn[t]], pend'[cn[t]])
      BY <2>1, <3>4, <3>6 DEF Quiet
    <3> QED BY <1>a, <1>c, <2>1, <3>1, <3>2, <3>4, <3>7, ConnReturned
  <2> QED BY <2>2, <2>3
<1>5. CASE Write(t) /\ op[t] # "req"
  <2> DEFINE f == [cid |-> cid[t], answered |-> FALSE]
  <2>1. /\ Done(t) /\ Release(cn[t]) /\ UNCHANGED <<srv, pend>> /\ pc[t] = "write"
        /\ srv[cn[t]] /\ up' = [up EXCEPT ![cn[t]] = Append(@, f)]
    BY <1>5 DEF Write
  <2>2. /\ up \in [Conn -> Seq(Frame)] /\ down \in [Conn -> Seq(Nat)] /\ f \in Frame
        /\ cli \in [Conn -> BOOLEAN]
    BY <1>a DEF TypeOK, Frame
  <2>3. Others(t) /\ cn'[t] = NoConn /\ pc'[t] = "out"
    BY <1>a, <2>1, CallEnds
  <2>4. Quiet(up[cn[t]], down[cn[t]], pend[cn[t]])
    BY <2>1 DEF IInv, Wire
  <2>5. up'[cn[t]] = Append(up[cn[t]], f) /\ \A d \in Conn \ {cn[t]} : up'[d] = up[d]
    BY <1>b, <2>1, <2>2
  <2>6. NoRequest(up'[cn[t]])
    <3>1. up[cn[t]] \in Seq(Frame)
      BY <1>b, <2>2
    <3>2. ~f.answered
      OBVIOUS
    <3> HIDE DEF f
    <3>3. /\ \A i \in DOMAIN up'[cn[t]] :
                (i \in DOMAIN up[cn[t]] /\ up'[cn[t]][i] = up[cn[t]][i])
                \/ up'[cn[t]][i] = f
      BY <2>2, <2>5, <3>1
    <3> QED BY <2>4, <3>2, <3>3 DEF Quiet, NoRequest
  <2>7. CASE Len(idle) < MaxIdle
    <3>1. idle' = Append(idle, cn[t]) /\ UNCHANGED <<cli, down>>
      BY <2>1, <2>7 DEF Release
    <3>2. Elsewhere(cn[t]) /\ Quiet(up'[cn[t]], down'[cn[t]], pend'[cn[t]])
      BY <2>1, <2>4, <2>5, <2>6, <3>1 DEF Elsewhere, Quiet
    <3> QED BY <1>a, <2>1, <2>3, <2>7, <3>1, <3>2, ConnReturned
  <2>8. CASE ~(Len(idle) < MaxIdle)
    <3>1. CloseClient(cn[t]) /\ UNCHANGED idle
      BY <2>1, <2>8 DEF Release
    <3>2. /\ Elsewhere(cn[t]) /\ ~cli'[cn[t]] /\ down'[cn[t]] = <<>>
          /\ srv'[cn[t]]
      BY <1>b, <2>1, <2>2, <2>5, <3>1 DEF Elsewhere, CloseClient
    <3> QED BY <1>a, <2>3, <3>1, <3>2, ConnDropped
  <2> QED BY <2>7, <2>8
<1> QED BY <1>2, <1>3, <1>4, <1>5

\* Every step keeps the invariant.
LEMMA RestStep ==
    ASSUME IInv, [Next]_vars
    PROVE  Rest'
<1>a. TypeOK
  BY DEF IInv
<1>b. ASSUME NEW t \in Thread, pc[t] \in {"out", "ensure", "acquire"}
      PROVE  ~Holding(t) /\ cn[t] = NoConn
  BY <1>a, <1>b DEF IInv, TypeOK, ExclusiveConn, Holding
<1>1. ASSUME NEW t \in Thread, NEW kind \in {"req", "unsub"}, Begin(t, kind)
      PROVE  Rest'
  <2>1. /\ pc[t] = "out" /\ Others(t) /\ pc'[t] = "ensure" /\ cn'[t] = cn[t]
        /\ UNCHANGED <<idle, connVars>>
    BY <1>a, <1>1 DEF TypeOK, Begin, Others
  <2> QED BY <1>b, <2>1, ThreadAlone
<1>2. ASSUME NEW t \in Thread, TakeCid(t) PROVE Rest'
  <2>1. /\ pc[t] = "ensure" /\ Others(t) /\ pc'[t] = "acquire" /\ cn'[t] = cn[t]
        /\ op'[t] = "req" => cid'[t] # 0
        /\ UNCHANGED <<idle, connVars>>
    BY <1>a, <1>2 DEF TypeOK, TakeCid, Others
  <2> QED BY <1>b, <2>1, ThreadAlone
<1>3. ASSUME NEW t \in Thread, EnsureFails(t) \/ AcquireFails(t) PROVE Rest'
  <2>1. PICK e : Fail(t, e)
    BY <1>3 DEF EnsureFails, AcquireFails
  <2>2. pc[t] \in {"ensure", "acquire"} /\ UNCHANGED <<idle, connVars>>
    BY <1>3 DEF EnsureFails, AcquireFails
  <2>3. Others(t) /\ cn'[t] = NoConn /\ pc'[t] \in {"out", "ensure"}
    BY <1>a, <2>1, CallEnds
  <2> QED BY <1>b, <2>2, <2>3, ThreadAlone
<1>4. CASE CloseIdle
  <2>1. /\ idle' = <<>> /\ UNCHANGED <<pc, op, cn, cid, srv, up, pend>>
        /\ cli' = [c \in Conn |-> cli[c] /\ c \notin Range(idle)]
        /\ down' = [c \in Conn |-> IF c \in Range(idle) THEN <<>> ELSE down[c]]
    BY <1>4 DEF CloseIdle, callVars
  <2>2. idle \in Seq(Conn) /\ cli \in [Conn -> BOOLEAN]
    BY <1>a DEF TypeOK
  <2>3. Range(idle) \in SUBSET Conn /\ \A u \in Thread : cn[u] \notin Range(idle)
    BY <2>2 DEF IInv, ExclusiveConn, Range
  <2>4. Len(idle') <= Len(idle) /\ Len(idle') \in Nat /\ DOMAIN idle' = {}
    BY <2>1, <2>2
  <2>5. /\ \A d \in Conn \ Range(idle) : cli'[d] = cli[d] /\ down'[d] = down[d]
        /\ \A d \in Range(idle) : down'[d] = <<>>
    BY <2>1, <2>2, <2>3
  <2> QED BY <2>1, <2>3, <2>4, <2>5, IdleDropped
<1>5. CASE UNCHANGED vars
  BY <1>5 DEF vars, callVars, connVars, IInv, Rest, ExclusiveConn, PoolBounded,
     Ends, Cids, Wire, Holding
<1>6. ASSUME NEW t \in Thread, Write(t), op[t] = "req" PROVE Rest'
  BY <1>6, RequestSent
<1> QED
  BY <1>1, <1>2, <1>3, <1>4, <1>5, <1>6, AcquireKeeps, ExchangeEnds, ServeKeeps,
     RespondKeeps DEF Next, Call, Worker

----------------------------------------------------------------------------
\* The inductive invariant holds in every reachable state, for any number of
\* threads, connections and calls and any pool size.
THEOREM PoolInvariance == Spec => []IInv
<1>1. Init => IInv
  BY InitIInv
<1>2. IInv /\ [Next]_vars => IInv'
  <2>1. ASSUME IInv, [Next]_vars PROVE IInv'
    <3>1. TypeOK'
      BY <2>1, TypeStep
    <3>2. Rest'
      BY <2>1, RestStep
    <3> QED BY <3>1, <3>2 DEF Rest, IInv
  <2> QED BY <2>1
<1> QED BY <1>1, <1>2, PTL DEF Spec

\* Every variable keeps its type, the single retry of with_retry included.
THEOREM TypeCorrect == Spec => []TypeOK
  BY PoolInvariance, PTL DEF IInv

\* A connection is never shared: acquire and the Drop of PooledConn give it to
\* one thread or to the pool.
THEOREM ConnectionsExclusive == Spec => []ExclusiveConn
  BY PoolInvariance, PTL DEF IInv

\* A connection of the pool carries no response, now or later: poison() keeps
\* every unfinished exchange out of it.
THEOREM PoolCarriesNothing == Spec => []PoolClean
<1>1. IInv => PoolClean
  BY DEF IInv, Wire, Quiet, NoRequest, PoolClean, Clean
<1> QED BY <1>1, PoolInvariance, PTL

\* recv_resp never reads the response of another request: its CidMismatch
\* branch is unreachable.
THEOREM NoCidMismatch == Spec => []OwnResponse
<1>1. IInv => OwnResponse
  <2>1. ASSUME IInv, NEW t \in Thread, pc[t] = "recv", NEW i \in DOMAIN down[cn[t]]
        PROVE  down[cn[t]][i] = cid[t]
    <3>1. Awaiting(up[cn[t]], down[cn[t]], pend[cn[t]], cid[t])
      BY <2>1 DEF IInv, Wire
    <3>2. down[cn[t]] = <<cid[t]>>
      BY <2>1, <3>1 DEF Awaiting
    <3> QED BY <2>1, <3>2
  <2> QED BY <2>1 DEF OwnResponse
<1> QED BY <1>1, PoolInvariance, PTL

----------------------------------------------------------------------------
(* A request carried out twice.  The cids a call has used are its own, and *)
(* of them at most one has been written to a connection, unless the worker *)
(* cut the connection of an attempt.                                       *)

\* The requests the worker has carried out, or will when it reads them.
SentCids ==
    ran \cup {k \in Nat : \E c \in Conn : \E i \in DOMAIN up[c] :
                             up[c][i].answered /\ up[c][i].cid = k}

\* NEXT_CID hands a cid out once.
Numbers ==
    /\ \A k \in SentCids : k < next_cid
    /\ \A t \in Thread : \A k \in mine[t] : k < next_cid
    /\ \A t, u \in Thread : \A k \in mine[t] : k \in mine[u] => t = u
    /\ \A t \in Thread : op[t] = "req" /\ pc[t] \in {"acquire", "write", "recv"}
                           => cid[t] \in mine[t]

\* The connection of an exchange ends only by a cut; before the write of an
\* attempt no earlier attempt has been sent, and never more than one.
Attempts ==
    /\ \A t \in Thread : Holding(t) /\ ~srv[cn[t]] => cut[t]
    /\ \A t \in Thread : ~cut[t] /\ pc[t] \in {"ensure", "acquire", "write"}
                           => mine[t] \cap SentCids = {}
    /\ \A t \in Thread : ~cut[t] => \A j, k \in mine[t] \cap SentCids : j = k

Once == Numbers /\ Attempts

\* Nothing new is sent when the streams to the worker lose frames and no
\* request is carried out.
LEMMA NothingSent ==
    ASSUME UNCHANGED ran,
           \A c \in Conn : up'[c] = up[c] \/ up'[c] = <<>>
    PROVE  SentCids' \subseteq SentCids
<1>1. DOMAIN <<>> = {}
  OBVIOUS
<1>2. ASSUME NEW k \in Nat, NEW c \in Conn, NEW i \in DOMAIN up'[c],
             up'[c][i].answered, up'[c][i].cid = k
      PROVE  k \in SentCids
  <2>1. up'[c] = up[c]
    BY <1>1, <1>2
  <2> QED BY <1>2, <2>1 DEF SentCids
<1> QED BY <1>2 DEF SentCids

\* A cid is one thread's; a step that sends nothing, starts no call and gives
\* no cid out keeps Once when the threads that move do not get ahead.
LEMMA OnceKept ==
    ASSUME IInv, Once, SentCids' \subseteq SentCids, UNCHANGED <<mine, next_cid>>,
           \A u \in Thread : cut[u] => cut'[u],
           \A u \in Thread : op'[u] = "req" /\ pc'[u] \in {"acquire", "write", "recv"}
                => cid'[u] = cid[u] /\ op[u] = "req" /\ pc[u] \in {"acquire", "write", "recv"},
           \A u \in Thread : pc'[u] \in {"write", "recv"} /\ ~srv'[cn'[u]] => cut'[u],
           \A u \in Thread : pc'[u] \in {"ensure", "acquire", "write"} /\ ~cut'[u]
                => pc[u] \in {"ensure", "acquire", "write"}
    PROVE  Once'
<1>1. Numbers'
  BY DEF Once, Numbers
<1>2. Attempts'
  BY DEF Once, Attempts, Holding
<1> QED BY <1>1, <1>2 DEF Once

\* What the failure of an attempt leaves: the call is over, or it starts again
\* because of an error other than a timeout.
LEMMA FailShape ==
    ASSUME TypeOK, NEW t \in Thread, NEW e, Fail(t, e)
    PROVE  /\ pc'[t] \in {"out", "ensure"} /\ (pc'[t] = "ensure" => e # "timeout")
           /\ \A u \in Thread \ {t} :
                /\ pc'[u] = pc[u] /\ op'[u] = op[u] /\ cn'[u] = cn[u] /\ cid'[u] = cid[u]
<1>1. /\ pc'[t] \in {"out", "ensure"}
      /\ \A u \in Thread \ {t} :
            /\ pc'[u] = pc[u] /\ op'[u] = op[u] /\ cn'[u] = cn[u] /\ cid'[u] = cid[u]
  BY FailType
<1>2. CASE e = "timeout"
  BY <1>1, <1>2, DoneType DEF Fail, ShouldInvalidate
<1> QED BY <1>1, <1>2

\* Every step keeps it.
LEMMA OnceStep ==
    ASSUME IInv, Once, [Next]_vars
    PROVE  Once'
<1>a. TypeOK /\ ExclusiveConn /\ Ends
  BY DEF IInv
<1>b. /\ pc \in [Thread -> PCs] /\ cid \in [Thread -> Nat] /\ next_cid \in Nat
      /\ op \in [Thread -> {"none", "req", "unsub"}] /\ mine \in [Thread -> SUBSET Nat]
      /\ cn \in [Thread -> Conn \cup {NoConn}] /\ up \in [Conn -> Seq(Frame)]
      /\ cut \in [Thread -> BOOLEAN] /\ srv \in [Conn -> BOOLEAN]
  BY <1>a DEF TypeOK
<1>c. ASSUME NEW t \in Thread, Holding(t), ~srv[cn[t]] PROVE cut[t]
  BY <1>c DEF Once, Attempts
<1>1. ASSUME NEW t \in Thread, NEW kind \in {"req", "unsub"}, Begin(t, kind) PROVE Once'
  <2>1. /\ UNCHANGED <<next_cid, cn, cid, srv>> /\ SentCids' = SentCids
        /\ pc'[t] = "ensure" /\ mine'[t] = {}
        /\ \A u \in Thread \ {t} : /\ pc'[u] = pc[u] /\ op'[u] = op[u]
                                   /\ mine'[u] = mine[u] /\ cut'[u] = cut[u]
    BY <1>b, <1>1 DEF Begin, connVars, SentCids
  <2>2. Numbers'
    BY <2>1 DEF Once, Numbers
  <2>3. Attempts'
    BY <2>1 DEF Once, Attempts, Holding
  <2> QED BY <2>2, <2>3 DEF Once
<1>2. ASSUME NEW t \in Thread, TakeCid(t) PROVE Once'
  <2>1. /\ UNCHANGED <<cn, op, cut, srv>> /\ SentCids' = SentCids
        /\ pc[t] = "ensure" /\ pc'[t] = "acquire"
        /\ \A u \in Thread \ {t} : /\ pc'[u] = pc[u] /\ cid'[u] = cid[u]
                                   /\ mine'[u] = mine[u]
    BY <1>b, <1>2 DEF TakeCid, connVars, SentCids
  <2>2. CASE op[t] = "req"
    <3>1. cid'[t] = next_cid /\ mine'[t] = mine[t] \cup {next_cid} /\ next_cid' = next_cid + 1
      BY <1>b, <1>2, <2>2 DEF TakeCid
    <3>2. next_cid \notin SentCids /\ \A u \in Thread : next_cid \notin mine[u]
      BY <1>b DEF Once, Numbers
    <3>3. /\ \A k \in SentCids : k \in Nat
          /\ \A u \in Thread : \A k \in mine[u] : k \in Nat
      BY <1>a DEF TypeOK, SentCids
    <3>4. Numbers'
      <4>1. \A k \in SentCids' : k < next_cid'
        BY <1>b, <2>1, <3>1, <3>3 DEF Once, Numbers
      <4>2. ASSUME NEW u \in Thread, NEW k \in mine'[u] PROVE k < next_cid'
        <5>1. k \in mine[u] \/ k = next_cid
          BY <2>1, <3>1, <4>2
        <5>2. CASE k \in mine[u]
          <6>1. k \in Nat /\ k < next_cid
            BY <3>3, <5>2 DEF Once, Numbers
          <6> QED BY <1>b, <3>1, <6>1
        <5>3. CASE k = next_cid
          BY <1>b, <3>1, <5>3
        <5> QED BY <5>1, <5>2, <5>3
      <4>3. \A u, v \in Thread : \A k \in mine'[u] : k \in mine'[v] => u = v
        BY <2>1, <3>1, <3>2 DEF Once, Numbers
      <4>4. \A u \in Thread : op'[u] = "req" /\ pc'[u] \in {"acquire", "write", "recv"}
                                => cid'[u] \in mine'[u]
        BY <2>1, <3>1 DEF Once, Numbers
      <4> QED BY <4>1, <4>2, <4>3, <4>4 DEF Numbers
    <3>5. Attempts'
      <4>1. \A u \in Thread : mine'[u] \cap SentCids' = mine[u] \cap SentCids
        BY <2>1, <3>1, <3>2
      <4> QED BY <2>1, <4>1 DEF Once, Attempts, Holding
    <3> QED BY <3>4, <3>5 DEF Once
  <2>3. CASE op[t] # "req"
    <3>1. UNCHANGED <<mine, next_cid>>
      BY <1>2, <2>3 DEF TakeCid
    <3> QED BY <2>1, <2>3, <3>1 DEF Once, Numbers, Attempts, Holding
  <2> QED BY <2>2, <2>3
<1>3. ASSUME NEW t \in Thread, EnsureFails(t) \/ AcquireFails(t) PROVE Once'
  <2>1. PICK e : Fail(t, e)
    BY <1>3 DEF EnsureFails, AcquireFails
  <2>2. /\ pc'[t] \in {"out", "ensure"}
        /\ \A u \in Thread \ {t} :
             /\ pc'[u] = pc[u] /\ op'[u] = op[u] /\ cn'[u] = cn[u] /\ cid'[u] = cid[u]
    BY <1>a, <2>1, FailShape
  <2>3. pc[t] \in {"ensure", "acquire"} /\ UNCHANGED <<next_cid, mine, cut, srv, up, ran>>
    BY <1>3 DEF EnsureFails, AcquireFails, connVars
  <2>4. SentCids' \subseteq SentCids
    BY <2>3 DEF SentCids
  <2> QED BY <1>c, <2>2, <2>3, <2>4, OnceKept DEF Holding
<1>4. ASSUME NEW t \in Thread, AcquireIdle(t) PROVE Once'
  <2>1. UNCHANGED <<next_cid, op, cid, mine, cut, srv, up, ran>> /\ pc[t] = "acquire"
    BY <1>4 DEF AcquireIdle
  <2>2. SentCids' \subseteq SentCids
    BY <2>1 DEF SentCids
  <2>3. CASE IsAlive(Last(idle))
    <3>1. /\ pc'[t] = "write" /\ cn'[t] = Last(idle) /\ srv[Last(idle)]
          /\ \A u \in Thread \ {t} : pc'[u] = pc[u] /\ cn'[u] = cn[u]
      BY <1>b, <1>4, <2>3 DEF AcquireIdle, IsAlive
    <3> QED BY <1>c, <2>1, <2>2, <3>1, OnceKept DEF Holding
  <2>4. CASE ~IsAlive(Last(idle))
    <3>1. UNCHANGED <<cn, pc>>
      BY <1>4, <2>4 DEF AcquireIdle
    <3> QED BY <1>c, <2>1, <2>2, <3>1, OnceKept DEF Holding
  <2> QED BY <2>3, <2>4
<1>5. ASSUME NEW t \in Thread, NEW c \in Conn, AcquireNew(t, c) PROVE Once'
  <2>1. /\ UNCHANGED <<next_cid, op, cid, mine, cut, up, ran>> /\ pc[t] = "acquire"
        /\ pc'[t] = "write" /\ cn'[t] = c /\ srv'[c]
        /\ \A d \in Conn : srv[d] => srv'[d]
        /\ \A u \in Thread \ {t} : pc'[u] = pc[u] /\ cn'[u] = cn[u]
    BY <1>b, <1>5 DEF AcquireNew
  <2>2. SentCids' \subseteq SentCids
    BY <2>1 DEF SentCids
  <2>3. \A u \in Thread : Holding(u) => cn[u] \in Conn
    BY <1>a DEF ExclusiveConn
  <2> QED BY <1>b, <1>c, <2>1, <2>2, <2>3, OnceKept DEF Holding
<1>6. ASSUME NEW t \in Thread, Write(t) PROVE Once'
  <2>1. UNCHANGED <<next_cid, mine, cut, srv, ran>> /\ pc[t] = "write"
    BY <1>6 DEF Write
  <2>2. cn[t] \in Conn
    BY <1>a, <2>1 DEF ExclusiveConn, Holding
  <2> DEFINE f == [cid |-> cid[t], answered |-> op[t] = "req"]
  <2>3. /\ up'[cn[t]] = Append(up[cn[t]], f)
        /\ \A d \in Conn \ {cn[t]} : up'[d] = up[d]
    BY <1>b, <1>6, <2>2 DEF Write
  <2>4. f \in Frame /\ f.cid = cid[t] /\ f.answered = (op[t] = "req")
    BY <1>b DEF Frame
  <2> HIDE DEF f
  <2>5. \A i \in DOMAIN up'[cn[t]] :
          (i \in DOMAIN up[cn[t]] /\ up'[cn[t]][i] = up[cn[t]][i]) \/ up'[cn[t]][i] = f
    <3>1. up[cn[t]] \in Seq(Frame)
      BY <1>b, <2>2
    <3> QED BY <2>3, <2>4, <3>1
  <2>6. ASSUME NEW k \in SentCids' PROVE k \in SentCids \/ (op[t] = "req" /\ k = cid[t])
    <3>1. CASE k \in ran
      BY <3>1 DEF SentCids
    <3>2. CASE k \notin ran
      <4>0. PICK c \in Conn : \E i \in DOMAIN up'[c] :
                                up'[c][i].answered /\ up'[c][i].cid = k
        BY <2>1, <2>6, <3>2 DEF SentCids
      <4>1. PICK i \in DOMAIN up'[c] : up'[c][i].answered /\ up'[c][i].cid = k
        BY <4>0
      <4>2. k \in Nat
        BY <2>1, <2>6, <3>2 DEF SentCids
      <4>3. CASE i \in DOMAIN up[c] /\ up'[c][i] = up[c][i]
        BY <4>1, <4>2, <4>3 DEF SentCids
      <4>4. CASE c = cn[t] /\ up'[c][i] = f
        BY <2>4, <4>1, <4>4
      <4> QED BY <2>3, <2>5, <4>1, <4>3, <4>4
    <3> QED BY <3>1, <3>2
  <2>7. CASE op[t] = "req"
    <3>1. /\ UNCHANGED <<cn, op, cid>> /\ pc'[t] = "recv"
          /\ \A u \in Thread \ {t} : pc'[u] = pc[u]
      BY <1>b, <1>6, <2>7 DEF Write
    <3>2. cid[t] \in mine[t] /\ cid[t] < next_cid
      BY <2>1, <2>7 DEF Once, Numbers
    <3>3. Numbers'
      <4>1. \A k \in SentCids' : k < next_cid'
        BY <2>1, <2>6, <3>2 DEF Once, Numbers
      <4> QED BY <2>1, <3>1, <4>1 DEF Once, Numbers
    <3>4. \A u \in Thread \ {t} : mine'[u] \cap SentCids' \subseteq mine[u] \cap SentCids
      BY <2>1, <2>6, <3>2 DEF Once, Numbers
    <3>5. ~cut[t] => mine'[t] \cap SentCids' \subseteq {cid[t]}
      BY <2>1, <2>6 DEF Once, Attempts
    <3>6. Attempts'
      <4>1. \A u \in Thread : Holding(u)' /\ ~srv'[cn'[u]] => cut'[u]
        BY <1>c, <2>1, <3>1 DEF Holding
      <4>2. \A u \in Thread : ~cut'[u] /\ pc'[u] \in {"ensure", "acquire", "write"}
                                => mine'[u] \cap SentCids' = {}
        BY <2>1, <3>1, <3>4 DEF Once, Attempts
      <4>3. ASSUME NEW u \in Thread, ~cut'[u], NEW j \in mine'[u] \cap SentCids',
                   NEW k \in mine'[u] \cap SentCids'
            PROVE  j = k
        <5>1. CASE u = t
          BY <2>1, <3>5, <4>3, <5>1
        <5>2. CASE u # t
          BY <2>1, <3>4, <4>3, <5>2 DEF Once, Attempts
        <5> QED BY <5>1, <5>2
      <4> QED BY <4>1, <4>2, <4>3 DEF Attempts
    <3> QED BY <3>3, <3>6 DEF Once
  <2>8. CASE op[t] # "req"
    <3>1. Done(t)
      BY <1>6, <2>8 DEF Write
    <3>2. /\ pc'[t] = "out"
          /\ \A u \in Thread \ {t} :
               /\ pc'[u] = pc[u] /\ op'[u] = op[u] /\ cn'[u] = cn[u] /\ cid'[u] = cid[u]
      BY <1>a, <3>1, DoneType
    <3>3. SentCids' \subseteq SentCids
      BY <2>6, <2>8
    <3> QED BY <1>c, <2>1, <3>2, <3>3, OnceKept DEF Holding
  <2> QED BY <2>7, <2>8
<1>7. ASSUME NEW t \in Thread, WriteFails(t) \/ Recv(t) \/ RecvEof(t) \/ RecvTimeout(t)
      PROVE  Once'
  <2>1. UNCHANGED <<next_cid, mine, cut, srv, up, ran>> /\ Holding(t)
    BY <1>7 DEF WriteFails, Recv, RecvEof, RecvTimeout, Holding
  <2>2. SentCids' \subseteq SentCids
    BY <2>1 DEF SentCids
  <2>3. /\ pc'[t] \in {"out", "ensure"} /\ (pc'[t] = "ensure" => ~srv[cn[t]])
        /\ \A u \in Thread \ {t} :
             /\ pc'[u] = pc[u] /\ op'[u] = op[u] /\ cn'[u] = cn[u] /\ cid'[u] = cid[u]
    <3>1. CASE Recv(t)
      BY <1>a, <3>1, DoneType DEF Recv
    <3>2. CASE \E e : Fail(t, e) /\ (srv[cn[t]] => e = "timeout")
      BY <1>a, <3>2, FailShape
    <3> QED BY <1>7, <3>1, <3>2 DEF WriteFails, RecvEof, RecvTimeout
  <2>4. pc'[t] = "ensure" => cut[t]
    BY <1>c, <2>1, <2>3
  <2> QED BY <1>c, <2>1, <2>2, <2>3, <2>4, OnceKept DEF Holding
<1>8. ASSUME NEW c \in Conn, Serve(c) PROVE Once'
  <2>1. UNCHANGED <<next_cid, pc, op, cn, cid, mine, cut, srv>> /\ up[c] # <<>>
    BY <1>8 DEF Serve, callVars
  <2>2. up[c] \in Seq(Frame)
    BY <1>b
  <2>3. /\ up'[c] = Tail(up[c]) /\ \A d \in Conn \ {c} : up'[d] = up[d]
    BY <1>b, <1>8 DEF Serve
  <2>4. \A i \in DOMAIN up'[c] : i + 1 \in DOMAIN up[c] /\ up'[c][i] = up[c][i + 1]
    BY <2>1, <2>2, <2>3, Consumed
  <2>5. 1 \in DOMAIN up[c] /\ Head(up[c]) = up[c][1] /\ up[c][1] \in Frame
    BY <2>1, <2>2, Consumed
  <2>6. \A k \in ran' : k \in ran \/ (up[c][1].answered /\ k = up[c][1].cid)
    BY <1>8, <2>5 DEF Serve
  <2>7. up[c][1].cid \in Nat
    BY <2>5 DEF Frame
  <2>8. ASSUME NEW k \in SentCids' PROVE k \in SentCids
    <3>1. CASE k \in ran'
      BY <2>5, <2>6, <2>7, <3>1 DEF SentCids
    <3>2. CASE k \notin ran'
      <4>0. PICK d \in Conn : \E i \in DOMAIN up'[d] :
                                up'[d][i].answered /\ up'[d][i].cid = k
        BY <2>8, <3>2 DEF SentCids
      <4>1. PICK i \in DOMAIN up'[d] : up'[d][i].answered /\ up'[d][i].cid = k
        BY <4>0
      <4>2. k \in Nat
        BY <2>8, <3>2 DEF SentCids
      <4>3. \E j \in DOMAIN up[d] : up'[d][i] = up[d][j]
        BY <2>3, <2>4, <4>1
      <4> QED BY <4>1, <4>2, <4>3 DEF SentCids
    <3> QED BY <3>1, <3>2
  <2> QED BY <1>c, <2>1, <2>8, OnceKept DEF Holding
<1>9. ASSUME NEW c \in Conn, Respond(c) \/ ServerEof(c) PROVE Once'
  <2>1. UNCHANGED <<next_cid, pc, op, cn, cid, mine, cut, cli, ran>>
    BY <1>9 DEF Respond, ServerEof, callVars
  <2>2. /\ \A d \in Conn : up'[d] = up[d] \/ up'[d] = <<>>
        /\ \A d \in Conn : srv[d] /\ ~srv'[d] => ~cli[d]
    BY <1>b, <1>9 DEF Respond, ServerEof, CloseServer
  <2>3. SentCids' \subseteq SentCids
    BY <2>1, <2>2, NothingSent
  <2>4. \A u \in Thread : Holding(u) => cn[u] \in Conn /\ cli[cn[u]]
    BY <1>a DEF ExclusiveConn, Ends
  <2> QED BY <1>c, <2>1, <2>2, <2>3, <2>4, OnceKept DEF Holding
<1>10. ASSUME NEW c \in Conn, ServerCuts(c) PROVE Once'
  <2>1. UNCHANGED <<next_cid, pc, op, cn, cid, mine, ran>>
    BY <1>10 DEF ServerCuts
  <2>2. /\ \A d \in Conn : up'[d] = up[d] \/ up'[d] = <<>>
        /\ \A d \in Conn : srv[d] /\ ~srv'[d] => d = c
        /\ \A u \in Thread : cut'[u] = (cut[u] \/ cn[u] = c)
    BY <1>b, <1>10 DEF ServerCuts, CloseServer
  <2>3. SentCids' \subseteq SentCids
    BY <2>1, <2>2, NothingSent
  <2>4. \A u \in Thread : Holding(u) => cn[u] \in Conn
    BY <1>a DEF ExclusiveConn
  <2> QED BY <1>c, <2>1, <2>2, <2>3, <2>4, OnceKept DEF Holding
<1>11. CASE CloseIdle \/ UNCHANGED vars
  <2>1. UNCHANGED <<next_cid, pc, op, cn, cid, mine, cut, srv, up, ran>>
    BY <1>11 DEF CloseIdle, vars, callVars, connVars
  <2>2. SentCids' \subseteq SentCids
    BY <2>1 DEF SentCids
  <2> QED BY <1>c, <2>1, <2>2, OnceKept DEF Holding
<1> QED
  BY <1>1, <1>2, <1>3, <1>4, <1>5, <1>6, <1>7, <1>8, <1>9, <1>10, <1>11
  DEF Next, Call, Worker

\* with_retry runs a request a second time only when the first attempt lost
\* its connection to a cut by the worker, never after a timeout: without a cut
\* at most one of the cids of a call is carried out.
THEOREM TwiceOnlyCut == Spec => []TwiceOnlyAfterCut
<1>1. Init => Once
  BY DEF Init, Once, Numbers, Attempts, SentCids, Holding
<1>2. Once /\ IInv /\ [Next]_vars => Once'
  BY OnceStep
<1>3. Once => TwiceOnlyAfterCut
  <2>1. ASSUME Once, NEW t \in Thread, ~cut[t]
        PROVE  ~(Cardinality(mine[t] \cap ran) > 1)
    <3> DEFINE S == mine[t] \cap ran
    <3>1. \A j, k \in S : j = k
      BY <2>1 DEF Once, Attempts, SentCids
    <3> HIDE DEF S
    <3>2. CASE S = {}
      BY <3>2, FS_EmptySet DEF S
    <3>3. ASSUME NEW k \in S PROVE Cardinality(S) = 1
      <4>1. S = {k}
        BY <3>1, <3>3
      <4> QED BY <4>1, FS_Singleton
    <3> QED BY <3>2, <3>3 DEF S
  <2> QED BY <2>1 DEF TwiceOnlyAfterCut
<1> QED BY <1>1, <1>2, <1>3, PoolInvariance, PTL DEF Spec
===============================================================================
