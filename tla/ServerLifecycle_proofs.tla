----------------------- MODULE ServerLifecycle_proofs -----------------------
(***************************************************************************)
(* Machine-checked proofs about ServerLifecycle, for every number of       *)
(* connections and subscriptions and every idle timeout.                   *)
(***************************************************************************)
EXTENDS ServerLifecycle, TLAPS

USE LifeAssumption

LoopType ==
    /\ phase \in Phases /\ woken \in BOOLEAN
    /\ drain_expired \in BOOLEAN /\ flush_expired \in BOOLEAN
    /\ draining \in BOOLEAN /\ sig \in {"none", "stored", "sent"}
    /\ expedited \in BOOLEAN /\ lost \in BOOLEAN /\ due \in BOOLEAN
    /\ idle \in 0 .. IdleTicks

ConnType ==
    /\ task \in [Conn -> {"none", "read", "done"} \cup Serving]
    /\ inbox \in [Conn -> Seq(Frame)]
    /\ net \in [Conn -> {"none", "open", "closed"}]
    /\ queued \subseteq Conn /\ stale \subseteq queued /\ early \subseteq Conn

SubType == sub \in [Sub -> 0 .. NoSub]

\* The three parts of the type invariant.
LEMMA TypeParts == TypeOK <=> LoopType /\ ConnType /\ SubType
BY DEF TypeOK, LoopType, ConnType, SubType

\* Every step keeps the types of the flags, the loop and the clock.
LEMMA LoopTypeStep == TypeOK /\ [Next]_vars => LoopType'
<1> SUFFICES ASSUME TypeOK, [Next]_vars PROVE LoopType'
    OBVIOUS
<1>0. LoopType
    BY TypeParts
<1> USE <1>0 DEF LoopType, Phases, loopVars, flagVars, timeVars
<1>1. ASSUME NEW c \in Conn, Client(c) PROVE LoopType'
  <2>1. ClientFrame
    BY <1>1 DEF Client, Connect, CloseConn, SayGoodbye, Request
  <2>2. QED
    BY <2>1 DEF ClientFrame
<1>2. ASSUME NEW c \in Conn, TaskStep(c) PROVE LoopType'
  <2>1. TaskFrame
    BY <1>2 DEF TaskStep, ReadProduce, ReadSubscribe, ReadPoll, ReadUnsubscribe,
       ReadGoodbye, Reads, Enqueue, Deliver, Answer, TaskEnds
  <2>2. expedited' = expedited \/ expedited' = TRUE
    BY <1>2, Zenon DEF TaskStep, ReadProduce, ReadSubscribe, ReadPoll, ReadUnsubscribe,
       ReadGoodbye, Enqueue, Deliver, Answer, TaskEnds
  <2>3. QED
    BY <2>1, <2>2, ZenonT(60) DEF TaskFrame
<1>3. ASSUME NEW c \in Conn, Accept(c) PROVE LoopType'
  <2>1. idle' \in 0 .. IdleTicks /\ phase' \in Phases
    BY <1>3 DEF Accept, NextIteration
  <2>2. /\ woken' = FALSE
        /\ UNCHANGED <<sig, expedited, lost, drain_expired, flush_expired, draining, due>>
    BY <1>3 DEF Accept, NextIteration, LoopFrame
  <2>3. QED
    BY <2>1, <2>2
<1>4. CASE SignalStores \/ SignalNotifies
    BY <1>4 DEF SignalStores, SignalNotifies
<1>5. CASE SeesDrain \/ ReadsFlag \/ ArmsWait
    BY <1>5 DEF SeesDrain, ReadsFlag, ArmsWait, LoopFrame
<1>6. CASE JoinNext
  <2>1. draining' \in BOOLEAN
    BY <1>6 DEF JoinNext
  <2>2. QED
    BY <1>6, <2>1 DEF JoinNext, NextIteration, LoopFrame
<1>7. CASE Tick
  <2>1. draining' \in BOOLEAN
    BY <1>7 DEF Tick
  <2>2. idle' \in 0 .. IdleTicks /\ phase' \in Phases
    BY <1>7 DEF Tick, NextIteration
  <2>3. /\ woken' = FALSE /\ due' = FALSE
        /\ UNCHANGED <<sig, expedited, lost, drain_expired, flush_expired>>
    BY <1>7 DEF Tick, NextIteration, LoopFrame
  <2>4. QED
    BY <2>1, <2>2, <2>3
<1>8. CASE TimePasses
    BY <1>8 DEF TimePasses, Older
<1>9. CASE Shutdown
    BY <1>9, ZenonT(60) DEF Shutdown, DrainJoin, DrainExpires, TaskAborted, RunReturns, Returns,
       FlushDone, FlushExpires, Exit, LoopFrame
<1>10. CASE UNCHANGED vars
    BY <1>10 DEF vars
<1>11. QED
    BY <1>1, <1>2, <1>3, <1>4, <1>5, <1>6, <1>7, <1>8, <1>9, <1>10 DEF Next

\* Taking connections out of the JoinSet keeps the types.
LEMMA ReapType ==
    ASSUME ConnType, NEW S, Reap(S), UNCHANGED queueVars
    PROVE  ConnType'
<1> USE DEF ConnType, queueVars
<1>1. /\ task' \in [Conn -> {"none", "read", "done"} \cup Serving]
      /\ net' \in [Conn -> {"none", "open", "closed"}]
    BY DEF Reap
<1>2. inbox' \in [Conn -> Seq(Frame)]
  <2>1. <<>> \in Seq(Frame)
    OBVIOUS
  <2>2. QED
    BY <2>1 DEF Reap
<1>3. QED
    BY <1>1, <1>2 DEF Reap

\* Every step keeps the types of the connections and their tasks.
LEMMA ConnTypeStep == TypeOK /\ [Next]_vars => ConnType'
<1> SUFFICES ASSUME TypeOK, [Next]_vars PROVE ConnType'
    OBVIOUS
<1>0. ConnType
    BY TypeParts
<1>1. CASE UNCHANGED <<connVars, queueVars>>
    BY <1>0, <1>1 DEF ConnType, connVars, queueVars
<1>2. ASSUME NEW c \in Conn, Connect(c) \/ CloseConn(c) PROVE ConnType'
    BY <1>0, <1>2 DEF ConnType, Connect, CloseConn, ClientFrame, queueVars
<1>3. ASSUME NEW c \in Conn, NEW u \in Sub, SayGoodbye(c, u) PROVE ConnType'
  <2>1. PICK unsubs \in {<<>>, <<Fr("unsubscribe", u)>>} :
            inbox' = [inbox EXCEPT ![c] = Append(unsubs, Fr("goodbye", u))]
    BY <1>3 DEF SayGoodbye
  <2>2. Fr("goodbye", u) \in Frame /\ Fr("unsubscribe", u) \in Frame
    BY DEF Fr, Frame
  <2>3. <<>> \in Seq(Frame) /\ <<Fr("unsubscribe", u)>> \in Seq(Frame)
    BY <2>2
  <2>4. unsubs \in Seq(Frame)
    BY <2>3
  <2>5. Append(unsubs, Fr("goodbye", u)) \in Seq(Frame)
    BY <2>2, <2>4
  <2>6. QED
    BY <1>0, <1>3, <2>1, <2>5 DEF ConnType, SayGoodbye, ClientFrame, queueVars
<1>4. ASSUME NEW c \in Conn, NEW kind \in {"produce", "subscribe", "poll"},
             NEW u \in Sub, Request(c, Fr(kind, u))
      PROVE  ConnType'
  <2>1. <<Fr(kind, u)>> \in Seq(Frame)
    BY DEF Fr, Frame
  <2>2. QED
    BY <1>0, <1>4, <2>1 DEF ConnType, Request, ClientFrame, queueVars
<1>5. ASSUME NEW c \in Conn, NEW kind, Reads(c, kind)
      PROVE  inbox' \in [Conn -> Seq(Frame)] /\ net' = net /\ early' = early
  <2>1. Tail(inbox[c]) \in Seq(Frame)
    <3>1. inbox[c] \in Seq(Frame) /\ inbox[c] # <<>>
      BY <1>0, <1>5 DEF ConnType, Reads
    <3>2. QED
      BY <3>1
  <2>2. inbox' = [inbox EXCEPT ![c] = Tail(inbox[c])]
    BY <1>5 DEF Reads
  <2>3. QED
    BY <1>0, <1>5, <2>1, <2>2 DEF ConnType, Reads, TaskFrame
<1>6. ASSUME NEW c \in Conn,
             \/ ReadProduce(c) \/ ReadSubscribe(c) \/ ReadPoll(c)
             \/ ReadUnsubscribe(c) \/ ReadGoodbye(c)
      PROVE  ConnType'
  <2>1. PICK kind \in {"produce", "goodbye", "subscribe", "poll", "unsubscribe"} : Reads(c, kind)
    BY <1>6 DEF ReadProduce, ReadSubscribe, ReadPoll, ReadUnsubscribe, ReadGoodbye
  <2>2. inbox' \in [Conn -> Seq(Frame)] /\ net' = net /\ early' = early
    BY <1>5, <2>1
  <2>3. queued' = queued /\ stale' = stale
    BY <1>6 DEF ReadProduce, ReadSubscribe, ReadPoll, ReadUnsubscribe, ReadGoodbye, queueVars
  <2>4. task' \in [Conn -> {"none", "read", "done"} \cup Serving]
    BY <1>0, <1>6 DEF ReadProduce, ReadSubscribe, ReadPoll, ReadUnsubscribe, ReadGoodbye,
       Goto, ConnType, Serving
  <2>5. QED
    BY <1>0, <2>2, <2>3, <2>4 DEF ConnType
<1>7. ASSUME NEW c \in Conn, Enqueue(c) \/ Deliver(c) \/ Answer(c) \/ TaskEnds(c)
      PROVE  ConnType'
    BY <1>0, <1>7 DEF Enqueue, Deliver, Answer, TaskEnds, TaskFrame, Goto, ConnType, Serving, queueVars
<1>8. ASSUME NEW c \in Conn, Accept(c) PROVE ConnType'
  <2>1. inbox' \in [Conn -> Seq(Frame)]
    <3>1. <<>> \in Seq(Frame)
      OBVIOUS
    <3>2. QED
      BY <1>0, <1>8, <3>1 DEF ConnType, Accept
  <2>2. QED
    BY <1>0, <1>8, <2>1 DEF ConnType, Accept, LoopFrame, queueVars
<1>9. CASE JoinNext \/ Tick \/ DrainJoin
    BY <1>0, <1>9, ReapType DEF JoinNext, Tick, DrainJoin, LoopFrame
<1>10. ASSUME NEW c \in Conn, TaskAborted(c) PROVE ConnType'
    BY <1>0, <1>10, ReapType DEF TaskAborted
<1>11. CASE RunReturns
    BY <1>0, <1>11, ReapType DEF RunReturns, Returns
<1>12. CASE SignalStores \/ SignalNotifies \/ SeesDrain \/ ReadsFlag \/ ArmsWait \/ TimePasses
            \/ DrainExpires \/ FlushDone \/ FlushExpires \/ Exit
    BY <1>1, <1>12 DEF SignalStores, SignalNotifies, SeesDrain, ReadsFlag, ArmsWait,
       TimePasses, DrainExpires, FlushDone, FlushExpires, Exit, LoopFrame
<1>13. CASE UNCHANGED vars
    BY <1>1, <1>13 DEF vars
<1>14. QED
    BY <1>2, <1>3, <1>4, <1>6, <1>7, <1>8, <1>9, <1>10, <1>11, <1>12, <1>13
       DEF Next, Client, TaskStep, Shutdown

\* Every step keeps the ages of the subscriptions within their bound.
LEMMA SubTypeStep == TypeOK /\ [Next]_vars => SubType'
<1> SUFFICES ASSUME TypeOK, [Next]_vars PROVE SubType'
    OBVIOUS
<1>0. SubType /\ ConnType
    BY TypeParts
<1>1. CASE UNCHANGED sub
    BY <1>0, <1>1 DEF SubType
<1>2. ASSUME NEW c \in Conn,
             ReadSubscribe(c) \/ ReadPoll(c) \/ ReadUnsubscribe(c)
      PROVE  SubType'
  <2>1. Head(inbox[c]).sub \in Sub
    <3>1. inbox[c] \in Seq(Frame) /\ inbox[c] # <<>>
      BY <1>0, <1>2 DEF ConnType, ReadSubscribe, ReadPoll, ReadUnsubscribe, Reads
    <3>2. Head(inbox[c]) \in Frame
      BY <3>1
    <3>3. QED
      BY <3>2 DEF Frame
  <2>2. QED
    BY <1>0, <1>2, <2>1 DEF SubType, ReadSubscribe, ReadPoll, ReadUnsubscribe, NoSub
<1>3. CASE TimePasses
    BY <1>0, <1>3 DEF SubType, TimePasses, Older, NoSub
<1>4. ASSUME NEW c \in Conn, Client(c) PROVE SubType'
    BY <1>1, <1>4 DEF Client, Connect, CloseConn, SayGoodbye, Request, ClientFrame
<1>5. ASSUME NEW c \in Conn, TaskStep(c) PROVE SubType'
    BY <1>1, <1>2, <1>5 DEF TaskStep, ReadProduce, ReadGoodbye, Enqueue, Deliver, Answer, TaskEnds
<1>6. ASSUME NEW c \in Conn, Accept(c) PROVE SubType'
    BY <1>1, <1>6 DEF Accept, LoopFrame
<1>7. CASE Shutdown
    BY <1>1, <1>7 DEF Shutdown, DrainJoin, DrainExpires, TaskAborted, RunReturns,
       Returns, FlushDone, FlushExpires, Exit, LoopFrame
<1>8. CASE SignalStores \/ SignalNotifies \/ SeesDrain \/ ReadsFlag \/ ArmsWait
           \/ JoinNext \/ Tick \/ UNCHANGED vars
    BY <1>1, <1>8 DEF SignalStores, SignalNotifies, SeesDrain, ReadsFlag, ArmsWait,
       JoinNext, Tick, LoopFrame, vars
<1>9. QED
    BY <1>3, <1>4, <1>5, <1>6, <1>7, <1>8 DEF Next

\* Every variable of the worker's life keeps its type.
THEOREM TypeCorrect == Spec => []TypeOK
<1>1. Init => TypeOK
  <2> SUFFICES ASSUME Init PROVE TypeOK
    OBVIOUS
  <2>1. LoopType
    <3>1. phase \in Phases /\ sig \in {"none", "stored", "sent"} /\ idle \in 0 .. IdleTicks
      BY DEF Init, Phases
    <3>2. /\ woken \in BOOLEAN /\ drain_expired \in BOOLEAN /\ flush_expired \in BOOLEAN
          /\ draining \in BOOLEAN /\ expedited \in BOOLEAN /\ lost \in BOOLEAN
          /\ due \in BOOLEAN
      BY Zenon DEF Init
    <3>3. QED
      BY <3>1, <3>2 DEF LoopType
  <2>2. ConnType
    <3>1. <<>> \in Seq(Frame)
      OBVIOUS
    <3>2. QED
      BY <3>1 DEF Init, ConnType
  <2>3. SubType
    BY DEF Init, SubType, NoSub
  <2>4. QED
    BY <2>1, <2>2, <2>3, TypeParts
<1>2. TypeOK /\ [Next]_vars => TypeOK'
  <2> SUFFICES ASSUME TypeOK, [Next]_vars PROVE TypeOK'
    OBVIOUS
  <2>1. LoopType' /\ ConnType' /\ SubType'
    BY LoopTypeStep, ConnTypeStep, SubTypeStep
  <2>2. QED
    BY <2>1 DEF TypeOK, LoopType, ConnType, SubType
<1>3. QED
    BY <1>1, <1>2, PTL DEF Spec

-----------------------------------------------------------------------------
(* The shutdown: what each phase may count on *)

Ended == phase \in {"flush", "unlink", "exited"}

\* Only an expired drain_timeout aborts; a queued message has a task that
\* waits for it, unless its task was aborted; after run has returned no task
\* is left.  A connection counts as accepted while it has a task.
LifeInv ==
    /\ phase = "abort" => drain_expired
    /\ ~drain_expired => \A c \in queued : task[c] = "sent"
    /\ Ended => \A c \in Conn : task[c] = "none"
    /\ phase \in {"unlink", "exited"} /\ queued \ stale # {} => flush_expired
    /\ lost => drain_expired
    /\ \A c \in early : task[c] # "none"
    /\ draining /\ sig = "none" => early = {}

LEMMA LifeImplies ==
    TypeOK /\ LifeInv => SelfExitCutsNobody /\ AckedIsAnswered /\ FlushIsLast
BY DEF TypeOK, LifeInv, SelfExitCutsNobody, AckedIsAnswered, FlushIsLast, InSet, Ended

\* What a step of a connection task does to the task and to the queue.
LEMMA TaskEffect ==
    ASSUME TypeOK, NEW c \in Conn, TaskStep(c)
    PROVE  /\ UNCHANGED <<phase, drain_expired, flush_expired, draining, sig, early, lost>>
           /\ \A d \in Conn \ {c} : task'[d] = task[d]
           /\ task[c] # "none" => task'[c] # "none"
           /\ task[c] = "none" => task'[c] = "none"
           /\ \/ queued' = queued /\ (task[c] = "sent" => task'[c] = "sent")
              \/ queued' = queued \cup {c} /\ task'[c] = "sent" /\ task[c] # "none"
              \/ queued' = queued \ {c}
           /\ task[c] = "none" => queued' \ stale' \subseteq queued \ stale
<1>1. task \in [Conn -> {"none", "read", "done"} \cup Serving] /\ queued \subseteq Conn
    BY DEF TypeOK
<1>2. TaskFrame
    BY DEF TaskStep, ReadProduce, ReadSubscribe, ReadPoll, ReadUnsubscribe,
       ReadGoodbye, Reads, Enqueue, Deliver, Answer, TaskEnds
<1>3. UNCHANGED <<phase, drain_expired, flush_expired, draining, sig, early, lost>>
    BY <1>2 DEF TaskFrame, loopVars
<1>4. CASE ReadProduce(c) \/ ReadSubscribe(c) \/ ReadPoll(c) \/ ReadUnsubscribe(c) \/ ReadGoodbye(c)
  <2>1. task[c] = "read" /\ queued' = queued /\ stale' = stale
    BY <1>4 DEF ReadProduce, ReadSubscribe, ReadPoll, ReadUnsubscribe, ReadGoodbye, Reads, queueVars
  <2>2. task' = task \/ \E l \in {"read", "checked", "poll"} : task' = [task EXCEPT ![c] = l]
    BY <1>4 DEF ReadProduce, ReadSubscribe, ReadPoll, ReadUnsubscribe, ReadGoodbye, Goto
  <2>3. QED
    BY <1>1, <1>3, <2>1, <2>2
<1>5. CASE Enqueue(c)
    BY <1>1, <1>3, <1>5 DEF Enqueue, Goto
<1>6. CASE Deliver(c)
    BY <1>1, <1>3, <1>6 DEF Deliver
<1>7. CASE Answer(c)
    BY <1>1, <1>3, <1>7 DEF Answer, Goto, queueVars
<1>8. CASE TaskEnds(c)
    BY <1>1, <1>3, <1>8 DEF TaskEnds, Goto, Serving, queueVars
<1>9. QED
    BY <1>4, <1>5, <1>6, <1>7, <1>8 DEF TaskStep

\* Every step keeps what the phases count on.
LEMMA LifeStep == TypeOK /\ LifeInv /\ [Next]_vars => LifeInv'
<1> SUFFICES ASSUME TypeOK, LifeInv, [Next]_vars PROVE LifeInv'
    OBVIOUS
<1>0. /\ task \in [Conn -> {"none", "read", "done"} \cup Serving]
      /\ queued \subseteq Conn /\ early \subseteq Conn
    BY DEF TypeOK
<1> USE <1>0 DEF queueVars
<1>1. ASSUME NEW c \in Conn, Client(c) PROVE LifeInv'
  <2>1. ClientFrame
    BY <1>1 DEF Client, Connect, CloseConn, SayGoodbye, Request
  <2>2. QED
    BY <2>1 DEF ClientFrame, LifeInv, Ended, loopVars, flagVars
<1>2. ASSUME NEW c \in Conn, TaskStep(c) PROVE LifeInv'
    BY <1>2, TaskEffect DEF LifeInv, Ended
<1>3. ASSUME NEW c \in Conn, Accept(c) PROVE LifeInv'
  <2>1. /\ phase \in {"top", "wait"} /\ phase' = "top" /\ task[c] = "none"
        /\ UNCHANGED <<queueVars, drain_expired, flush_expired, draining, sig, lost>>
    BY <1>3 DEF Accept, Selecting, NextIteration, LoopFrame
  <2>2. \A d \in Conn : task'[d] = IF d = c THEN "read"
                                   ELSE IF task[d] = "done" THEN "none" ELSE task[d]
    BY <1>3 DEF Accept, Done
  <2>3. early' = (early \ Done) \cup (IF draining THEN {} ELSE {c})
    BY <1>3 DEF Accept
  <2>4. ~drain_expired' => \A d \in queued' : task'[d] = "sent"
    BY <2>1, <2>2 DEF LifeInv
  <2>5. \A d \in early' : task'[d] # "none"
    BY <2>2, <2>3 DEF LifeInv, Done
  <2>6. draining' /\ sig' = "none" => early' = {}
    BY <2>1, <2>3 DEF LifeInv
  <2>7. QED
    BY <2>1, <2>4, <2>5, <2>6 DEF LifeInv, Ended
<1>4. CASE SignalStores \/ SignalNotifies
    BY <1>4 DEF SignalStores, SignalNotifies, LifeInv, Ended, connVars, loopVars
<1>5. CASE SeesDrain \/ ReadsFlag \/ ArmsWait
    BY <1>5 DEF SeesDrain, ReadsFlag, ArmsWait, LoopFrame, LifeInv, Ended, connVars
<1>6. ASSUME NEW S \in SUBSET Conn, Reap(S),
             UNCHANGED <<queueVars, drain_expired, flush_expired, sig>>,
             \A c \in S : task[c] = "sent" => drain_expired
      PROVE  /\ ~drain_expired' => \A c \in queued' : task'[c] = "sent"
             /\ \A c \in early' : task'[c] # "none"
             /\ \A c \in Conn : task[c] = "none" => task'[c] = "none"
             /\ early' = early \ S
    BY <1>6 DEF Reap, LifeInv
<1>7. CASE JoinNext \/ Tick
  <2>1. /\ phase \in {"top", "wait"} /\ phase' = "top" /\ Reap(Done) /\ Done \subseteq Conn
        /\ UNCHANGED <<queueVars, drain_expired, flush_expired, sig, lost>>
        /\ \A c \in Done : task[c] # "sent"
    BY <1>7 DEF JoinNext, Tick, Selecting, NextIteration, LoopFrame, Done
  <2>2. /\ ~drain_expired' => \A c \in queued' : task'[c] = "sent"
        /\ \A c \in early' : task'[c] # "none"
        /\ early' = early \ Done
    BY <1>6, <2>1
  <2>3. draining' => draining \/ InSet = Done
    BY <1>7 DEF JoinNext, Tick
  <2>4. draining' /\ sig' = "none" => early' = {}
    BY <2>1, <2>2, <2>3 DEF LifeInv, InSet
  <2>5. QED
    BY <2>1, <2>2, <2>4 DEF LifeInv, Ended
<1>8. CASE DrainJoin
  <2>1. /\ phase = "drain" /\ phase' = "drain" /\ Reap(Done) /\ Done \subseteq Conn
        /\ UNCHANGED <<queueVars, drain_expired, flush_expired, draining, sig, lost>>
        /\ \A c \in Done : task[c] # "sent"
    BY <1>8 DEF DrainJoin, LoopFrame, Done
  <2>2. /\ ~drain_expired' => \A c \in queued' : task'[c] = "sent"
        /\ \A c \in early' : task'[c] # "none"
        /\ early' = early \ Done
    BY <1>6, <2>1
  <2>3. QED
    BY <2>1, <2>2 DEF LifeInv, Ended
<1>9. ASSUME NEW c \in Conn, TaskAborted(c) PROVE LifeInv'
  <2>1. /\ phase = "abort" /\ phase' = "abort" /\ Reap({c}) /\ drain_expired
        /\ UNCHANGED <<queueVars, drain_expired, flush_expired, draining, sig>>
    BY <1>9 DEF TaskAborted, loopVars, flagVars, LifeInv
  <2>2. /\ \A d \in early' : task'[d] # "none"
        /\ early' = early \ {c}
    BY <1>6, <2>1
  <2>3. QED
    BY <2>1, <2>2 DEF LifeInv, Ended
<1>10. CASE RunReturns
  <2>1. /\ phase' = "flush" /\ Reap(Conn)
        /\ \A c \in Conn : task[c] = "none"
        /\ UNCHANGED <<queueVars, drain_expired, flush_expired, draining, sig>>
        /\ lost' = (lost \/ \E c \in Conn : task[c] = "acked")
    BY <1>10 DEF RunReturns, Returns, InSet, flagVars
  <2>2. /\ ~drain_expired' => \A c \in queued' : task'[c] = "sent"
        /\ \A c \in early' : task'[c] # "none"
        /\ \A c \in Conn : task'[c] = "none"
        /\ early' = early \ Conn
    BY <1>6, <2>1
  <2>3. lost' => lost
    BY <2>1
  <2>4. QED
    BY <2>1, <2>2, <2>3 DEF LifeInv, Ended
<1>11. CASE TimePasses \/ DrainExpires
    BY <1>11 DEF TimePasses, DrainExpires, LifeInv, Ended, connVars, loopVars, flagVars
<1>12. CASE FlushDone \/ FlushExpires \/ Exit
    BY <1>12 DEF FlushDone, FlushExpires, Exit, LifeInv, Ended, connVars, flagVars
<1>13. CASE UNCHANGED vars
    BY <1>13 DEF vars, LifeInv, Ended, connVars, loopVars, flagVars
<1>14. QED
    BY <1>1, <1>2, <1>3, <1>4, <1>5, <1>7, <1>8, <1>9, <1>10, <1>11, <1>12, <1>13
       DEF Next, Shutdown

\* The worker's life, whatever signals, goodbyes, idle checks, requests and
\* deadlines interleave.
THEOREM LifeInvariance == Spec => []LifeInv
<1>1. Init => LifeInv
    BY DEF Init, LifeInv, Ended
<1>2. QED
    BY <1>1, LifeStep, TypeCorrect, PTL DEF Spec

\* A worker that ends itself cuts no connection it had accepted.
THEOREM SelfExitIsPolite == Spec => []SelfExitCutsNobody
BY LifeImplies, LifeInvariance, TypeCorrect, PTL

\* An acked request is answered unless drain_timeout expired.
THEOREM AcksAreAnswered == Spec => []AckedIsAnswered
BY LifeImplies, LifeInvariance, TypeCorrect, PTL

\* No task runs behind the back of the flush, and a message is left in the
\* queue only if drain_timeout expired and the flush did too or does not reach
\* its producer.
THEOREM FlushComesLast == Spec => []FlushIsLast
BY LifeImplies, LifeInvariance, TypeCorrect, PTL

=============================================================================
