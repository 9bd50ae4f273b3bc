------------------------ MODULE ProducerCache_proofs ------------------------
(***************************************************************************)
(* Machine-checked proofs about ProducerCache, for every number of callers *)
(* and transactional clients, overwrites of the cluster and cells.         *)
(***************************************************************************)
EXTENDS ProducerCache, FiniteSetTheorems, TLAPS

USE CacheAssumption

----------------------------------------------------------------------------
(* The inductive invariant                                                 *)

\* Cells are created one after the other: a new one is never an old one.
InOrder == \E n \in 0 .. MaxCell : \A k \in Cell : cell[k] # Unborn <=> k <= n

\* The table holds a cell that exists, and no producer is newer than the
\* registered configuration.
CellsOK ==
    /\ table # 0 => cell[table] # Unborn
    /\ \A k \in Cell : cell[k].version <= version

\* What a caller holds: the cell it waits for exists, the one it builds is
\* still empty, the one it uses is full and not older than its call.
CallOK(c) ==
    /\ pc[c] = "init" => mine[c] \in Cell /\ cell[mine[c]] # Unborn
    /\ pc[c] = "build" => /\ mine[c] \in Cell /\ cell[mine[c]] = NoEntry
                          /\ got[c] \in Entry /\ got[c].version <= version
    /\ pc[c] \in {"compare", "replace", "use", "sent"} =>
          mine[c] \in Cell /\ cell[mine[c]] \in Entry
    /\ since[c] <= version
    /\ pc[c] \in {"use", "sent"} => cell[mine[c]].version >= since[c]

\* One caller at a time is in build_entry of a cell.
Permit ==
    \A c, d \in Caller :
        pc[c] = "build" /\ pc[d] = "build" /\ mine[c] = mine[d] => c = d

\* Until the first overwrite there is one cell, which nobody replaces, and
\* what is left in a queue is in its producer's.
First ==
    version <= 1 =>
        /\ \A k \in Cell : cell[k] # Unborn => k = 1
        /\ table = 0 => \A k \in Cell : cell[k] = Unborn
        /\ \A c \in Caller : pc[c] # "replace"
        /\ queue \subseteq {table}
        /\ stage = "flushed" => queue = {}

Inv == TypeOK /\ InOrder /\ CellsOK /\ (\A c \in Caller : CallOK(c)) /\ Permit /\ First

----------------------------------------------------------------------------
(* Lemmas                                                                  *)

\* The three states of a cell are different.
LEMMA Apart ==
    /\ NoEntry \notin Entry /\ Unborn \notin Entry /\ Unborn # NoEntry
    /\ NoEntry.version = 0 /\ Unborn.version = -1
    /\ \A e \in Entry : e.version \in 1 .. MaxVersion
BY DEF NoEntry, Unborn, Entry

\* A new cell gets a number that has not been used.
LEMMA NewCellUnborn ==
    ASSUME TypeOK, InOrder
    PROVE  \E n \in 0 .. MaxCell :
              /\ NewCell = n + 1
              /\ \A k \in Cell : cell[k] # Unborn <=> k <= n
<1>1. PICK n \in 0 .. MaxCell : \A k \in Cell : cell[k] # Unborn <=> k <= n
    BY DEF InOrder
<1>2. Born = 1 .. n
    BY <1>1 DEF Born, Cell
<1>3. Cardinality(1 .. n) = n
  <2>1. Cardinality(1 .. n) = IF 1 > n THEN 0 ELSE n - 1 + 1
    BY FS_Interval
  <2>2. QED
    BY <2>1
<1>4. QED
    BY <1>1, <1>2, <1>3 DEF NewCell

\* What a caller knows of its cell survives every change that others make to
\* the registry and to the cells.
LEMMA OthersKeep ==
    ASSUME TypeOK, version' \in Int, NEW d \in Caller, CallOK(d), version <= version',
           pc'[d] = pc[d], mine'[d] = mine[d], got'[d] = got[d], since'[d] = since[d],
           \A k \in Cell :
              \/ cell'[k] = cell[k]
              \/ cell[k] = Unborn /\ cell'[k] = NoEntry
              \/ /\ cell[k] = NoEntry /\ cell'[k] \in Entry
                 /\ ~(pc[d] = "build" /\ mine[d] = k)
    PROVE  CallOK(d)'
<1>1. version \in Int /\ version' \in Int /\ since[d] \in Int
    BY DEF TypeOK, RegType, CallType
<1>2. got[d] \in Entry => got[d].version \in Int
    BY Apart
<1>3. QED
    BY <1>1, <1>2, Apart DEF CallOK

----------------------------------------------------------------------------
(* Types                                                                   *)

CallBase ==
    /\ pc \in [Caller -> {"idle", "read", "insert", "init", "build", "compare",
                          "replace", "use", "sent"}]
    /\ op \in [Caller -> Ops] /\ mine \in [Caller -> 0 .. MaxCell]
    /\ got \in [Caller -> Entry \cup {NoEntry}]
    /\ since \in [Caller -> 0 .. MaxVersion]

\* The part of TypeOK that ties a caller to its cell follows from CallOK.
LEMMA TypeParts ==
    /\ TypeOK => RegType /\ CellType /\ CallBase /\ TxnType
    /\ RegType /\ CellType /\ CallBase /\ TxnType /\ (\A c \in Caller : CallOK(c)) => TypeOK
BY DEF TypeOK, CallType, CallBase, CallOK

\* The same after a step.
LEMMA TypePartsNext ==
    RegType' /\ CellType' /\ CallBase' /\ TxnType' /\ (\A c \in Caller : CallOK(c)') => TypeOK'
BY DEF TypeOK, CallType, CallBase, CallOK

\* A return resets the local state of the callers that return and of no other.
LEMMA Returns ==
    ASSUME CallBase, NEW S \in SUBSET Caller, Return(S)
    PROVE  /\ CallBase'
           /\ \A c \in S : pc'[c] = "idle" /\ mine'[c] = 0 /\ since'[c] = 0
           /\ \A c \in Caller \ S : /\ pc'[c] = pc[c] /\ mine'[c] = mine[c]
                                     /\ got'[c] = got[c] /\ since'[c] = since[c]
<1>1. /\ pc' = [d \in Caller |-> IF d \in S THEN "idle" ELSE pc[d]]
      /\ op' = [d \in Caller |-> IF d \in S THEN "produce" ELSE op[d]]
      /\ mine' = [d \in Caller |-> IF d \in S THEN 0 ELSE mine[d]]
      /\ got' = [d \in Caller |-> IF d \in S THEN NoEntry ELSE got[d]]
      /\ since' = [d \in Caller |-> IF d \in S THEN 0 ELSE since[d]]
    BY DEF Return, Without
<1>2. pc' \in [Caller -> {"idle", "read", "insert", "init", "build", "compare",
                          "replace", "use", "sent"}]
    BY <1>1 DEF CallBase
<1>3. op' \in [Caller -> Ops]
    BY <1>1 DEF CallBase, Ops
<1>4. mine' \in [Caller -> 0 .. MaxCell] /\ since' \in [Caller -> 0 .. MaxVersion]
    BY <1>1 DEF CallBase
<1>5. got' \in [Caller -> Entry \cup {NoEntry}]
    BY <1>1 DEF CallBase
<1>6. QED
    BY <1>1, <1>2, <1>3, <1>4, <1>5 DEF CallBase

\* The operations of a caller that has its producer, and the end of the drain:
\* calls return or go on to wait, registry and cells stay as they are.
LEMMA OperationShape ==
    ASSUME TypeOK, NEW c \in Caller, Operation(c)
    PROVE  /\ OpFrame /\ queue' = queue /\ pc[c] \in {"use", "sent"}
           /\ \/ \E S \in SUBSET Caller : Return(S)
              \/ /\ pc[c] = "use" /\ pc' = [pc EXCEPT ![c] = "sent"]
                 /\ UNCHANGED <<op, mine, got, since>>
<1>1. CASE Refused(c) \/ DeliveryFails(c) \/ TxnFails(c)
    BY <1>1 DEF Refused, DeliveryFails, TxnFails
<1>2. CASE Send(c)
    BY <1>2 DEF Send, Using, Goto
<1>3. CASE Delivered(c) \/ BeginTxn(c) \/ CommitOk(c) \/ OffsetsOk(c)
    BY <1>3 DEF Delivered, BeginTxn, CommitOk, OffsetsOk, Using
<1>4. CASE AbortOk(c)
  <2>1. {c} \cup InFlight(mine[c]) \in SUBSET Caller
    BY DEF InFlight
  <2>2. QED
    BY <1>4, <2>1 DEF AbortOk, Using
<1>5. QED
    BY <1>1, <1>2, <1>3, <1>4 DEF Operation

\* Every step keeps the transaction and queue types.
LEMMA TxnTypeStep == Inv /\ [Next]_vars => TxnType'
<1> SUFFICES ASSUME Inv, [Next]_vars PROVE TxnType'
    OBVIOUS
<1>0. TypeOK /\ TxnType /\ CallBase
    BY TypeParts DEF Inv
<1>a. ASSUME NEW c \in Caller, pc[c] \in {"build", "use", "sent"} PROVE mine[c] \in Cell
    BY <1>a DEF Inv, CallOK
<1>b. ASSUME NEW k \in 0 .. MaxCell, Fence(k)
      PROVE  /\ owner' \in 0 .. MaxCell /\ torn' \in [TxnCaller -> BOOLEAN]
             /\ acked' \in [TxnCaller -> SUBSET Cell]
    BY <1>0, <1>b DEF Fence, TxnType
<1>1. ASSUME NEW txn \in BOOLEAN, Register(txn) PROVE TxnType'
    BY <1>0, <1>1 DEF Register, TxnType, txnVars, histVars
<1>2. ASSUME NEW c \in Caller, NEW o \in Ops, Call(c, o) PROVE TxnType'
    BY <1>0, <1>2 DEF Call, TxnType, txnVars
<1>3. ASSUME NEW c \in Caller, EntryFor(c) PROVE TxnType'
  <2>1. CASE ReadCell(c) \/ InsertCell(c) \/ InitDone(c) \/ InitBuilds(c) \/ Compare(c) \/ Replace(c)
    <3>1. UNCHANGED <<queue, stage, txnVars, acked, torn, lied>>
      BY <2>1 DEF ReadCell, InsertCell, InitDone, InitBuilds, Compare, Replace, EntryFrame
    <3>2. QED
      BY <1>0, <3>1 DEF TxnType, txnVars
  <2>2. CASE BuildDone(c)
    <3>1. mine[c] \in 0 .. MaxCell /\ UNCHANGED <<queue, stage, lied, open, sent>>
      BY <1>0, <2>2 DEF BuildDone, CallBase
    <3>2. Fence(mine[c]) \/ UNCHANGED <<owner, acked, torn>>
      BY <2>2 DEF BuildDone
    <3>3. QED
      BY <1>0, <1>b, <3>1, <3>2 DEF TxnType
  <2>3. CASE BuildFails(c)
    <3>1. UNCHANGED <<queue, stage, lied, open, sent>>
      BY <2>3 DEF BuildFails
    <3>2. Fence(0) \/ UNCHANGED <<owner, acked, torn>>
      BY <2>3 DEF BuildFails
    <3>3. QED
      BY <1>0, <1>b, <3>1, <3>2 DEF TxnType
  <2>4. QED
    BY <1>3, <2>1, <2>2, <2>3 DEF EntryFor
<1>4. ASSUME NEW c \in Caller, Operation(c) PROVE TxnType'
  <2>0. mine[c] \in Cell /\ UNCHANGED <<queue, stage>>
    BY <1>0, <1>4, <1>a, OperationShape DEF OpFrame
  <2> USE <1>0, <2>0 DEF TxnType
  <2>1. CASE Refused(c) \/ DeliveryFails(c) \/ TxnFails(c) \/ Send(c)
    BY <2>1 DEF Refused, DeliveryFails, TxnFails, Send, txnVars
  <2>2. CASE Delivered(c) \/ OffsetsOk(c)
    <3>1. AckedTo(c) \in [TxnCaller -> SUBSET Cell]
      BY DEF AckedTo
    <3>2. UNCHANGED <<owner, open, torn, lied>>
      BY <2>2 DEF Delivered, OffsetsOk
    <3>3. /\ acked' = acked \/ acked' = AckedTo(c)
          /\ sent' = sent \/ sent' = sent \cup {mine[c]}
      BY <2>2 DEF Delivered, OffsetsOk
    <3>4. QED
      BY <3>1, <3>2, <3>3
  <2>3. CASE BeginTxn(c)
    BY <2>3 DEF BeginTxn
  <2>4. CASE CommitOk(c)
    BY <2>4 DEF CommitOk
  <2>5. CASE AbortOk(c)
    BY <2>5 DEF AbortOk
  <2>6. QED
    BY <1>4, <2>1, <2>2, <2>3, <2>4, <2>5 DEF Operation
<1>5. CASE DrainEnds
  <2>1. queue' \subseteq Cell
    BY <1>5, <1>a DEF DrainEnds
  <2>2. QED
    BY <1>0, <1>5, <2>1 DEF DrainEnds, TxnType, txnVars
<1>6. ASSUME NEW k \in Cell, Drains(k) PROVE TxnType'
    BY <1>0, <1>6 DEF Drains, TxnType, txnVars, histVars
<1>7. CASE Flush
    BY <1>0, <1>7 DEF Flush, TxnType, txnVars, histVars
<1>8. CASE UNCHANGED vars
    BY <1>0, <1>8 DEF vars, TxnType, txnVars, histVars
<1>9. QED
    BY <1>1, <1>2, <1>3, <1>4, <1>5, <1>6, <1>7, <1>8 DEF Next

----------------------------------------------------------------------------
(* The steps                                                               *)

\* A step of the callers in S that leaves registry and cells alone keeps the
\* invariant if the callers in S keep their part of it.
LEMMA CallersMove ==
    ASSUME Inv, CallBase', TxnType', UNCHANGED <<regVars, cellVars>>,
           NEW S \in SUBSET Caller,
           \A d \in Caller \ S : /\ pc'[d] = pc[d] /\ mine'[d] = mine[d]
                                 /\ got'[d] = got[d] /\ since'[d] = since[d],
           \A c \in S : CallOK(c)' /\ (version <= 1 => pc'[c] # "replace"),
           \A c \in S : pc'[c] = "build" => S = {c} /\ ~Building(mine'[c]),
           version <= 1 => /\ queue' \subseteq {table}
                           /\ stage' = "flushed" => queue' = {}
    PROVE  Inv'
<1>1. TypeOK /\ RegType' /\ CellType' /\ InOrder' /\ CellsOK'
    BY TypeParts DEF Inv, RegType, CellType, InOrder, CellsOK, regVars, cellVars
<1>2. version \in Int /\ version' = version /\ cell' = cell /\ table' = table
    BY <1>1 DEF TypeOK, RegType, regVars, cellVars
<1>3. ASSUME NEW d \in Caller PROVE CallOK(d)'
  <2>1. CASE d \in S
    BY <2>1
  <2>2. CASE d \notin S
    BY <1>1, <1>2, <2>2, OthersKeep DEF Inv
  <2>3. QED
    BY <2>1, <2>2
<1>4. Permit'
    BY DEF Inv, Permit, Building
<1>5. First'
  <2> SUFFICES ASSUME version' <= 1 PROVE First!2'
      BY DEF First
  <2>1. First!2
    BY <1>2 DEF Inv, First
  <2>2. QED
    BY <1>2, <2>1
<1>6. QED
    BY <1>1, <1>3, <1>4, <1>5, TypePartsNext DEF Inv

\* One caller moves.
LEMMA OneMoves ==
    ASSUME Inv, CallBase', TxnType', UNCHANGED <<regVars, cellVars>>, NEW c \in Caller,
           \A d \in Caller \ {c} : /\ pc'[d] = pc[d] /\ mine'[d] = mine[d]
                                   /\ got'[d] = got[d] /\ since'[d] = since[d],
           CallOK(c)', version <= 1 => pc'[c] # "replace",
           pc'[c] = "build" => ~Building(mine'[c]),
           version <= 1 => /\ queue' \subseteq {table}
                           /\ stage' = "flushed" => queue' = {}
    PROVE  Inv'
<1>1. {c} \in SUBSET Caller
    OBVIOUS
<1>2. \A e \in {c} : CallOK(e)' /\ (version <= 1 => pc'[e] # "replace")
    OBVIOUS
<1>3. \A e \in {c} : pc'[e] = "build" => {c} = {e} /\ ~Building(mine'[e])
    OBVIOUS
<1>4. QED
    BY <1>1, <1>2, <1>3, CallersMove

\* No caller moves.
LEMMA NobodyMoves ==
    ASSUME Inv, TxnType', UNCHANGED <<regVars, cellVars, pc, op, mine, got, since>>,
           version <= 1 => /\ queue' \subseteq {table}
                           /\ stage' = "flushed" => queue' = {}
    PROVE  Inv'
<1>1. CallBase'
    BY TypeParts DEF Inv, CallBase
<1>2. {} \in SUBSET Caller
    OBVIOUS
<1>3. \A e \in {} : CallOK(e)' /\ (version <= 1 => pc'[e] # "replace")
    OBVIOUS
<1>4. \A e \in {} : pc'[e] = "build" => {} = {e} /\ ~Building(mine'[e])
    OBVIOUS
<1>5. \A d \in Caller \ {} : /\ pc'[d] = pc[d] /\ mine'[d] = mine[d]
                              /\ got'[d] = got[d] /\ since'[d] = since[d]
    OBVIOUS
<1>6. QED
    BY <1>1, <1>2, <1>3, <1>4, <1>5, CallersMove

\* or_insert_with and the replacement: an empty cell that did not exist.
LEMMA CellAdded ==
    ASSUME Inv, NewCell \in Cell, UNCHANGED regVars,
           table' = NewCell, cell' = [cell EXCEPT ![NewCell] = NoEntry]
    PROVE  /\ CellType' /\ InOrder' /\ CellsOK' /\ cell[NewCell] = Unborn
           /\ table' \in Cell /\ cell'[table'] = NoEntry
           /\ \A k \in Cell : cell'[k] = cell[k] \/ (cell[k] = Unborn /\ cell'[k] = NoEntry)
           /\ version <= 1 /\ table = 0 => NewCell = 1
<1>1. PICK n \in 0 .. MaxCell :
         NewCell = n + 1 /\ \A k \in Cell : cell[k] # Unborn <=> k <= n
    BY NewCellUnborn DEF Inv
<1>2. cell[NewCell] = Unborn
  <2>1. ~(n + 1 <= n)
    OBVIOUS
  <2>2. QED
    BY <1>1, <2>1
<1>3. CellType'
    BY TypeParts DEF Inv, CellType, Cell
<1>4. InOrder'
  <2>1. n + 1 \in 0 .. MaxCell
    BY <1>1 DEF Cell
  <2>2. \A k \in Cell : cell'[k] # Unborn <=> k <= n + 1
    <3>1. cell \in [Cell -> Entry \cup {NoEntry, Unborn}]
      BY TypeParts DEF Inv, CellType
    <3>2. \A k \in Cell : k <= n + 1 <=> k <= n \/ k = n + 1
      BY DEF Cell
    <3>3. QED
      BY <1>1, <3>1, <3>2, Apart
  <2>3. QED
    BY <2>1, <2>2 DEF InOrder
<1>5. /\ table' \in Cell /\ cell'[table'] = NoEntry
      /\ \A k \in Cell : cell'[k] = cell[k] \/ (cell[k] = Unborn /\ cell'[k] = NoEntry)
  <2>1. cell \in [Cell -> Entry \cup {NoEntry, Unborn}]
    BY TypeParts DEF Inv, CellType
  <2>2. table' \in Cell /\ cell'[table'] = NoEntry
    BY <2>1
  <2>3. ASSUME NEW k \in Cell
        PROVE  cell'[k] = cell[k] \/ (cell[k] = Unborn /\ cell'[k] = NoEntry)
    <3>1. cell' = [j \in Cell |-> IF j = NewCell THEN NoEntry ELSE cell[j]]
      BY <2>1
    <3>2. CASE k = NewCell
      BY <1>2, <3>1, <3>2
    <3>3. CASE k # NewCell
      BY <3>1, <3>3
    <3>4. QED
      BY <3>2, <3>3
  <2>4. QED
    BY <2>2, <2>3
<1>6. CellsOK'
  <2>1. version \in 0 .. MaxVersion /\ version' = version
    BY TypeParts DEF Inv, RegType, regVars
  <2>2. QED
    BY <1>5, <2>1, Apart DEF Inv, CellsOK
<1>7. ASSUME version <= 1, table = 0 PROVE NewCell = 1
  <2>1. \A k \in Cell : cell[k] = Unborn
    BY <1>7 DEF Inv, First
  <2>2. 1 \in Cell
    BY DEF Cell
  <2>3. n = 0
    BY <1>1, <2>1, <2>2
  <2>4. QED
    BY <1>1, <2>3
<1>8. QED
    BY <1>2, <1>3, <1>4, <1>5, <1>6, <1>7

\* register.
LEMMA RegisterStep == ASSUME Inv, NEW txn \in BOOLEAN, Register(txn) PROVE Inv'
<1>1. /\ TypeOK /\ version \in 0 .. MaxVersion /\ version' = version + 1
      /\ version < MaxVersion /\ version' <= MaxVersion
    BY DEF Inv, Register, TypeOK, RegType
<1>2. UNCHANGED <<cell, table, pc, op, mine, got, since, queue, stage>>
    BY DEF Register, cellVars, callVars, histVars
<1>3. RegType' /\ CellType' /\ CallBase' /\ InOrder' /\ Permit' /\ TxnType'
  <2>1. TxnType'
    BY TxnTypeStep DEF Next
  <2>2. RegType'
    BY <1>1 DEF Register, RegType
  <2>3. QED
    BY <1>2, <2>1, <2>2, TypeParts DEF Inv, CellType, CallBase, InOrder, Permit
<1>4. CellsOK'
  <2>1. \A k \in Cell : cell[k].version \in Int
    BY <1>1, Apart DEF TypeOK, CellType
  <2>2. QED
    BY <1>1, <1>2, <2>1 DEF Inv, CellsOK
<1>5. ASSUME NEW d \in Caller PROVE CallOK(d)'
    BY <1>1, <1>2, OthersKeep DEF Inv
<1>6. First'
  <2>1. version' <= 1 => version <= 1
    BY <1>1
  <2>2. QED
    BY <1>2, <2>1 DEF Inv, First
<1>7. QED
    BY <1>3, <1>4, <1>5, <1>6, TypePartsNext DEF Inv

\* The steps of entry_for that leave registry and cells alone.
LEMMA LookupStep ==
    ASSUME Inv, NEW c \in Caller,
           \/ \E o \in Ops : Call(c, o)
           \/ ReadCell(c) \/ InitDone(c) \/ InitBuilds(c) \/ BuildFails(c) \/ Compare(c)
    PROVE  Inv'
<1>1. TypeOK /\ RegType /\ CellType /\ CallBase /\ CallOK(c)
    BY TypeParts DEF Inv
<1>2. TxnType'
    BY TxnTypeStep DEF Next, EntryFor
<1>3. UNCHANGED <<regVars, cellVars, queue, stage>>
    BY DEF Call, ReadCell, InitDone, InitBuilds, BuildFails, Compare, EntryFrame
<1>4. version <= 1 => queue' \subseteq {table} /\ (stage' = "flushed" => queue' = {})
    BY <1>3 DEF Inv, First
<1>5. UNCHANGED <<version, config, cell, table>>
    BY <1>3 DEF regVars, cellVars
<1>6. version \in 0 .. MaxVersion
    BY <1>1 DEF RegType
<1>7. SUFFICES /\ CallBase'
               /\ \A d \in Caller \ {c} : /\ pc'[d] = pc[d] /\ mine'[d] = mine[d]
                                           /\ got'[d] = got[d] /\ since'[d] = since[d]
               /\ CallOK(c)' /\ (version <= 1 => pc'[c] # "replace")
               /\ pc'[c] = "build" => ~Building(mine'[c])
    BY <1>2, <1>3, <1>4, OneMoves
<1>8. CASE Return({c})
  <2>1. /\ CallBase' /\ pc'[c] = "idle" /\ since'[c] = 0
        /\ \A d \in Caller \ {c} : /\ pc'[d] = pc[d] /\ mine'[d] = mine[d]
                                    /\ got'[d] = got[d] /\ since'[d] = since[d]
    BY <1>1, <1>8, Returns
  <2>2. CallOK(c)'
    BY <1>5, <1>6, <2>1 DEF CallOK
  <2>3. QED
    BY <2>1, <2>2
<1>9. ASSUME NEW o \in Ops, Call(c, o) PROVE <1>7!1
    BY <1>1, <1>5, <1>6, <1>9 DEF Call, Goto, CallBase, CallOK
<1>10. CASE ReadCell(c)
  <2>1. table # 0 => table \in Cell /\ cell[table] # Unborn
    BY <1>1 DEF Inv, CellsOK, CellType, Cell
  <2>2. QED
    BY <1>1, <1>5, <1>10, <2>1 DEF ReadCell, Goto, EntryFrame, CallBase, CallOK, CellType
<1>11. CASE InitDone(c)
  <2>1. mine[c] \in Cell /\ cell[mine[c]] \in Entry
    BY <1>1, <1>11 DEF InitDone, CallOK, CellType
  <2>2. QED
    BY <1>1, <1>5, <1>11, <2>1 DEF InitDone, Goto, EntryFrame, CallBase, CallOK
<1>12. CASE InitBuilds(c) /\ version # 0
  <2>1. config \in BOOLEAN /\ version \in 1 .. MaxVersion
    BY <1>1, <1>6, <1>12 DEF RegType
  <2>2. [version |-> version, transactional |-> config] \in Entry
    BY <2>1 DEF Entry
  <2>3. /\ got' = [got EXCEPT ![c] = [version |-> version, transactional |-> config]]
        /\ pc' = [pc EXCEPT ![c] = "build"] /\ UNCHANGED <<op, mine, since>>
        /\ pc[c] = "init" /\ cell[mine[c]] = NoEntry /\ ~Building(mine[c])
    BY <1>12 DEF InitBuilds, Goto
  <2>4. CallBase'
    BY <1>1, <2>2, <2>3 DEF CallBase
  <2>5. got'[c].version = version /\ got'[c] \in Entry /\ pc'[c] = "build"
    BY <1>1, <2>2, <2>3 DEF CallBase
  <2>6. CallOK(c)'
    BY <1>1, <1>5, <1>6, <2>3, <2>5 DEF CallOK
  <2>7. QED
    BY <1>1, <2>3, <2>4, <2>5, <2>6 DEF CallBase
<1>13. CASE Compare(c)
  <2>1. /\ mine[c] \in Cell /\ cell[mine[c]] \in Entry /\ since[c] <= version
        /\ cell[mine[c]].version \in 1 .. MaxVersion
    BY <1>1, <1>13, Apart DEF Compare, CallOK
  <2>2. cell[mine[c]].version <= version
    BY <2>1 DEF Inv, CellsOK
  <2>3. version <= 1 => cell[mine[c]].version = version
    BY <1>6, <2>1, <2>2
  <2>4. /\ pc' = [pc EXCEPT ![c] = IF cell[mine[c]].version = version
                                   THEN "use" ELSE "replace"]
        /\ UNCHANGED <<op, mine, got, since>>
    BY <1>13 DEF Compare, Goto, EntryFrame
  <2>5. CallBase'
    BY <1>1, <2>4 DEF CallBase
  <2>6. pc'[c] = IF cell[mine[c]].version = version THEN "use" ELSE "replace"
    BY <1>1, <2>4 DEF CallBase
  <2>7. CallOK(c)'
    BY <1>5, <1>6, <2>1, <2>4, <2>6 DEF CallOK
  <2>8. QED
    BY <1>1, <2>3, <2>4, <2>5, <2>6, <2>7 DEF CallBase
<1>14. QED
    BY <1>8, <1>9, <1>10, <1>11, <1>12, <1>13 DEF InitBuilds, BuildFails

\* cell_for under the write lock.
LEMMA InsertStep == ASSUME Inv, NEW c \in Caller, InsertCell(c) PROVE Inv'
<1>1. TypeOK /\ RegType /\ CellType /\ CallBase /\ CallOK(c)
    BY TypeParts DEF Inv
<1>2. TxnType'
    BY TxnTypeStep DEF Next, EntryFor
<1>3. /\ UNCHANGED <<version, config, queue, stage, op, since, got>>
      /\ pc[c] = "insert" /\ pc' = [pc EXCEPT ![c] = "init"]
      /\ mine' = [mine EXCEPT ![c] = table']
    BY DEF InsertCell, Goto, EntryFrame, regVars
<1>4. version \in 0 .. MaxVersion
    BY <1>1 DEF RegType
<1>5. /\ CellType' /\ InOrder' /\ CellsOK'
      /\ table' \in Cell /\ cell'[table'] # Unborn
      /\ \A k \in Cell : cell'[k] = cell[k] \/ (cell[k] = Unborn /\ cell'[k] = NoEntry)
      /\ \/ UNCHANGED <<cell, table>>
         \/ /\ table = 0 /\ table' = NewCell /\ cell' = [cell EXCEPT ![NewCell] = NoEntry]
            /\ version <= 1 => NewCell = 1
  <2>1. CASE table # 0
    <3>1. UNCHANGED <<cell, table>> /\ UNCHANGED regVars
      BY <1>3, <2>1 DEF InsertCell, cellVars, regVars
    <3>2. table \in Cell /\ cell[table] # Unborn
      BY <1>1, <2>1 DEF Inv, CellsOK, CellType, Cell
    <3>3. QED
      <4>1. CellType'
        BY <1>1, <3>1 DEF CellType
      <4>2. InOrder' /\ CellsOK'
        BY <1>3, <3>1 DEF Inv, InOrder, CellsOK
      <4>3. /\ table' \in Cell /\ cell'[table'] # Unborn
            /\ \A k \in Cell : cell'[k] = cell[k]
        BY <3>1, <3>2
      <4>4. UNCHANGED <<cell, table>>
        BY <3>1
      <4>5. QED
        BY <4>1, <4>2, <4>3, <4>4
  <2>2. CASE table = 0
    <3>1. /\ NewCell \in Cell /\ table' = NewCell /\ UNCHANGED regVars
          /\ cell' = [cell EXCEPT ![NewCell] = NoEntry]
      BY <1>3, <2>2 DEF InsertCell, regVars
    <3>2. QED
      BY <2>2, <3>1, CellAdded, Apart
  <2>3. QED
    BY <2>1, <2>2
<1>6. RegType' /\ CallBase'
    BY <1>1, <1>3, <1>5 DEF RegType, CallBase, Cell
<1>7. ASSUME NEW d \in Caller PROVE CallOK(d)'
  <2>1. CASE d = c
    BY <1>1, <1>3, <1>5, <2>1 DEF CallBase, CallOK
  <2>2. CASE d # c
    <3>1. /\ pc'[d] = pc[d] /\ mine'[d] = mine[d] /\ got'[d] = got[d] /\ since'[d] = since[d]
      BY <1>1, <1>3, <2>2 DEF CallBase
    <3>2. QED
      BY <1>1, <1>3, <1>4, <1>5, <3>1, OthersKeep DEF Inv
  <2>3. QED
    BY <2>1, <2>2
<1>8. Permit'
    BY <1>1, <1>3 DEF Inv, Permit, CallBase
<1>9. First'
  <2> SUFFICES ASSUME version <= 1 PROVE First!2'
      BY <1>3 DEF First
  <2>1. First!2
    BY DEF Inv, First
  <2>2. \A d \in Caller : pc'[d] # "replace"
    BY <1>1, <1>3, <2>1 DEF CallBase
  <2>3. CASE UNCHANGED <<cell, table>>
    BY <1>3, <2>1, <2>2, <2>3
  <2>4. CASE table = 0 /\ table' = NewCell /\ NewCell = 1 /\ cell' = [cell EXCEPT ![NewCell] = NoEntry]
    <3>1. queue = {}
      BY <1>1, <2>1, <2>4 DEF TypeOK, TxnType, Cell
    <3>2. \A k \in Cell : cell'[k] # Unborn => k = 1
      BY <1>1, <2>1, <2>4 DEF CellType
    <3>3. QED
      BY <1>3, <2>2, <2>4, <3>1, <3>2
  <2>5. QED
    BY <1>5, <2>3, <2>4
<1>10. QED
    BY <1>2, <1>5, <1>6, <1>7, <1>8, <1>9, TypePartsNext DEF Inv

\* The cell of a stale producer is replaced, which happens after an overwrite
\* only.
LEMMA ReplaceStep == ASSUME Inv, NEW c \in Caller, Replace(c) PROVE Inv'
<1>1. TypeOK /\ RegType /\ CellType /\ CallBase /\ CallOK(c)
    BY TypeParts DEF Inv
<1>2. TxnType'
    BY TxnTypeStep DEF Next, EntryFor
<1>3. /\ UNCHANGED <<version, config, queue, stage, op, since, got, mine>>
      /\ pc[c] = "replace" /\ pc' = [pc EXCEPT ![c] = "read"]
    BY DEF Replace, Goto, EntryFrame, regVars
<1>4. /\ CellType' /\ InOrder' /\ CellsOK'
      /\ \A k \in Cell : cell'[k] = cell[k] \/ (cell[k] = Unborn /\ cell'[k] = NoEntry)
    BY CellAdded DEF Replace, EntryFrame
<1>5. RegType' /\ CallBase' /\ version \in 0 .. MaxVersion
    BY <1>1, <1>3 DEF RegType, CallBase
<1>6. ASSUME NEW d \in Caller PROVE CallOK(d)'
  <2>1. CASE d = c
    BY <1>1, <1>3, <2>1 DEF CallBase, CallOK
  <2>2. CASE d # c
    <3>1. /\ pc'[d] = pc[d] /\ mine'[d] = mine[d] /\ got'[d] = got[d] /\ since'[d] = since[d]
      BY <1>1, <1>3, <2>2 DEF CallBase
    <3>2. QED
      BY <1>1, <1>3, <1>4, <1>5, <3>1, OthersKeep DEF Inv
  <2>3. QED
    BY <2>1, <2>2
<1>7. Permit'
    BY <1>1, <1>3 DEF Inv, Permit, CallBase
<1>8. First'
  <2>1. ~(version <= 1)
    BY <1>3 DEF Inv, First
  <2>2. QED
    BY <1>3, <2>1 DEF First
<1>9. QED
    BY <1>2, <1>4, <1>5, <1>6, <1>7, <1>8, TypePartsNext DEF Inv

\* The cell is filled by the one caller that holds its permit.
LEMMA BuildStep == ASSUME Inv, NEW c \in Caller, BuildDone(c) PROVE Inv'
<1>1. TypeOK /\ RegType /\ CellType /\ CallBase /\ CallOK(c)
    BY TypeParts DEF Inv
<1>2. TxnType'
    BY TxnTypeStep DEF Next, EntryFor
<1>3. /\ UNCHANGED <<version, config, queue, stage, op, since, mine, table>>
      /\ pc[c] = "build" /\ pc' = [pc EXCEPT ![c] = "compare"]
      /\ got' = [got EXCEPT ![c] = NoEntry]
      /\ cell' = [cell EXCEPT ![mine[c]] = got[c]]
    BY DEF BuildDone, Goto, regVars
<1>4. /\ mine[c] \in Cell /\ cell[mine[c]] = NoEntry
      /\ got[c] \in Entry /\ got[c].version <= version
    BY <1>1, <1>3 DEF CallOK
<1>5. /\ cell'[mine[c]] = got[c]
      /\ \A k \in Cell : k # mine[c] => cell'[k] = cell[k]
    BY <1>1, <1>3, <1>4 DEF CellType
<1>6. CellType' /\ RegType' /\ CallBase' /\ version \in 0 .. MaxVersion
    BY <1>1, <1>3, <1>4 DEF CellType, RegType, CallBase
<1>7. \A k \in Cell : cell'[k] = Unborn <=> cell[k] = Unborn
    BY <1>4, <1>5, Apart
<1>8. InOrder'
    BY <1>7 DEF Inv, InOrder
<1>9. CellsOK'
  <2>1. table # 0 => table \in Cell
    BY <1>1 DEF CellType, Cell
  <2>2. QED
    BY <1>3, <1>4, <1>5, <1>7, <2>1 DEF Inv, CellsOK
<1>10. ASSUME NEW d \in Caller PROVE CallOK(d)'
  <2>1. CASE d = c
    BY <1>1, <1>3, <1>4, <1>5, <2>1 DEF CallBase, CallOK
  <2>2. CASE d # c
    <3>1. /\ pc'[d] = pc[d] /\ mine'[d] = mine[d] /\ got'[d] = got[d] /\ since'[d] = since[d]
      BY <1>1, <1>3, <2>2 DEF CallBase
    <3>2. ~(pc[d] = "build" /\ mine[d] = mine[c])
      BY <1>3, <2>2 DEF Inv, Permit
    <3>3. QED
      BY <1>1, <1>3, <1>4, <1>5, <1>6, <3>1, <3>2, OthersKeep DEF Inv
  <2>3. QED
    BY <2>1, <2>2
<1>11. Permit'
    BY <1>1, <1>3 DEF Inv, Permit, CallBase
<1>12. First'
  <2> SUFFICES ASSUME version <= 1 PROVE First!2'
      BY <1>3 DEF First
  <2>1. First!2
    BY DEF Inv, First
  <2>2. \A d \in Caller : pc'[d] # "replace"
    BY <1>1, <1>3, <2>1 DEF CallBase
  <2>3. QED
    BY <1>3, <1>7, <2>1, <2>2
<1>13. QED
    BY <1>2, <1>6, <1>8, <1>9, <1>10, <1>11, <1>12, TypePartsNext DEF Inv

\* The operations on a producer.
LEMMA OperationStep == ASSUME Inv, NEW c \in Caller, Operation(c) PROVE Inv'
<1>1. TypeOK /\ RegType /\ CallBase /\ CallOK(c)
    BY TypeParts DEF Inv
<1>2. TxnType'
    BY TxnTypeStep DEF Next
<1>3. UNCHANGED <<regVars, cellVars>> /\ queue' = queue /\ stage' = stage
    BY <1>1, OperationShape DEF OpFrame
<1>4. version <= 1 => queue' \subseteq {table} /\ (stage' = "flushed" => queue' = {})
    BY <1>3 DEF Inv, First
<1>5. version \in 0 .. MaxVersion /\ version' = version /\ cell' = cell
    BY <1>1, <1>3 DEF RegType, regVars, cellVars
<1>6. ASSUME NEW S \in SUBSET Caller, Return(S) PROVE Inv'
  <2>1. /\ CallBase' /\ \A d \in S : pc'[d] = "idle" /\ since'[d] = 0
        /\ \A d \in Caller \ S : /\ pc'[d] = pc[d] /\ mine'[d] = mine[d]
                                  /\ got'[d] = got[d] /\ since'[d] = since[d]
    BY <1>1, <1>6, Returns
  <2>2. \A d \in S : CallOK(d)'
    BY <1>5, <2>1 DEF CallOK
  <2>3. QED
    BY <1>2, <1>3, <1>4, <2>1, <2>2, CallersMove
<1>7. CASE /\ pc[c] = "use" /\ pc' = [pc EXCEPT ![c] = "sent"]
           /\ UNCHANGED <<op, mine, got, since>>
  <2>1. CallBase' /\ pc'[c] = "sent" /\ \A d \in Caller \ {c} : pc'[d] = pc[d]
    BY <1>1, <1>7 DEF CallBase
  <2>2. CallOK(c)'
    BY <1>1, <1>5, <1>7, <2>1 DEF CallOK
  <2>3. QED
    BY <1>2, <1>3, <1>4, <1>7, <2>1, <2>2, OneMoves
<1>8. QED
    BY <1>1, <1>6, <1>7, OperationShape

\* The abort of the remaining tasks, the queues and the flush.
LEMMA EndStep ==
    ASSUME Inv, DrainEnds \/ (\E k \in Cell : Drains(k)) \/ Flush PROVE Inv'
<1>1. TypeOK /\ RegType /\ CellType /\ CallBase
    BY TypeParts DEF Inv
<1>2. TxnType'
    BY TxnTypeStep DEF Next
<1>3. UNCHANGED <<regVars, cellVars>>
    BY DEF DrainEnds, Drains, Flush
<1>4. CASE DrainEnds
  <2>1. /\ CallBase' /\ \A d \in Caller : pc'[d] = "idle" /\ since'[d] = 0
    BY <1>1, <1>4, Returns DEF DrainEnds
  <2>2. version \in 0 .. MaxVersion /\ version' = version
    BY <1>1, <1>3 DEF RegType, regVars
  <2>3. \A d \in Caller : CallOK(d)'
    BY <2>1, <2>2 DEF CallOK
  <2>4. ASSUME version <= 1 PROVE queue' \subseteq {table}
    <3>1. ASSUME NEW d \in Caller, pc[d] = "sent" PROVE mine[d] = table
      <4>1. mine[d] \in Cell /\ cell[mine[d]] # Unborn
        BY <3>1, Apart DEF Inv, CallOK
      <4>2. table \in Cell /\ cell[table] # Unborn
        BY <1>1, <2>4, <4>1 DEF Inv, First, CellsOK, CellType, Cell
      <4>3. QED
        BY <2>4, <4>1, <4>2 DEF Inv, First
    <3>2. QED
      BY <1>4, <3>1 DEF DrainEnds
  <2>5. stage' # "flushed"
    BY <1>4 DEF DrainEnds
  <2>6. QED
    BY <1>2, <1>3, <2>1, <2>3, <2>4, <2>5, CallersMove
<1>5. CASE (\E k \in Cell : Drains(k)) \/ Flush
  <2>1. UNCHANGED <<pc, op, mine, got, since>>
    BY <1>5 DEF Drains, Flush, callVars, histVars
  <2>2. ASSUME version <= 1
        PROVE  queue' \subseteq {table} /\ (stage' = "flushed" => queue' = {})
    <3>1. queue \subseteq {table}
      BY <2>2 DEF Inv, First
    <3>2. QED
      BY <1>5, <3>1 DEF Drains, Flush
  <2>3. QED
    BY <1>2, <1>3, <2>1, <2>2, NobodyMoves
<1>6. QED
    BY <1>4, <1>5

----------------------------------------------------------------------------
(* The theorems                                                            *)

\* The invariant holds at the start.
LEMMA InitInv == Init => Inv
<1> SUFFICES ASSUME Init PROVE Inv
    OBVIOUS
<1>1. RegType /\ CellType /\ CallBase /\ TxnType
  <2>1. RegType /\ CellType
    <3>1. config \in BOOLEAN
      BY Zenon DEF Init
    <3>2. version \in 0 .. MaxVersion /\ table \in 0 .. MaxCell
      BY DEF Init
    <3>3. cell \in [Cell -> Entry \cup {NoEntry, Unborn}]
      BY DEF Init
    <3>4. QED
      BY <3>1, <3>2, <3>3 DEF RegType, CellType
  <2>2. CallBase
    BY DEF Init, CallBase, Ops
  <2>3. TxnType
    <3>1. torn \in [TxnCaller -> BOOLEAN] /\ lied \in BOOLEAN
      BY Zenon DEF Init
    <3>2. owner \in 0 .. MaxCell /\ acked \in [TxnCaller -> SUBSET Cell]
      BY DEF Init
    <3>3. queue = {} /\ open = {} /\ sent = {} /\ stage = "serving"
      BY DEF Init
    <3>4. QED
      BY <3>1, <3>2, <3>3 DEF TxnType
  <2>4. QED
    BY <2>1, <2>2, <2>3
<1>2. InOrder
  <2>1. \A k \in Cell : cell[k] # Unborn <=> k <= 0
    BY DEF Init, Cell
  <2>2. QED
    BY <2>1 DEF InOrder
<1>3. CellsOK
    BY Apart DEF Init, CellsOK
<1>4. \A c \in Caller : CallOK(c)
    BY DEF Init, CallOK
<1>5. Permit /\ First
    BY DEF Init, Permit, First
<1>6. QED
    BY <1>1, <1>2, <1>3, <1>4, <1>5, TypeParts DEF Inv

\* Every step keeps it.
LEMMA NextInv == Inv /\ [Next]_vars => Inv'
<1> SUFFICES ASSUME Inv, [Next]_vars PROVE Inv'
    OBVIOUS
<1>1. ASSUME NEW txn \in BOOLEAN, Register(txn) PROVE Inv'
    BY <1>1, RegisterStep
<1>2. ASSUME NEW c \in Caller, (\E o \in Ops : Call(c, o)) \/ EntryFor(c) PROVE Inv'
    BY <1>2, LookupStep, InsertStep, ReplaceStep, BuildStep DEF EntryFor
<1>3. ASSUME NEW c \in Caller, Operation(c) PROVE Inv'
    BY <1>3, OperationStep
<1>4. CASE DrainEnds \/ (\E k \in Cell : Drains(k)) \/ Flush
    BY <1>4, EndStep
<1>5. CASE UNCHANGED vars
  <2>1. UNCHANGED <<pc, op, mine, got, since, queue, stage, regVars, cellVars>>
    BY <1>5 DEF vars, callVars, histVars
  <2>2. TxnType'
    BY TxnTypeStep
  <2>3. version <= 1 => queue' \subseteq {table} /\ (stage' = "flushed" => queue' = {})
    BY <2>1 DEF Inv, First
  <2>4. QED
    BY <2>1, <2>2, <2>3, NobodyMoves
<1>6. QED
    BY <1>1, <1>2, <1>3, <1>4, <1>5 DEF Next

\* The invariant of the specification.
THEOREM Invariance == Spec => []Inv
BY InitInv, NextInv, PTL DEF Spec

\* Registry, cells, calls and transactions keep their types; in particular a
\* caller past get_or_try_init always has a full cell, although callers
\* replace cells under one another.
THEOREM TypeCorrect == Spec => []TypeOK
<1>1. Inv => TypeOK
    BY DEF Inv
<1>2. QED
    BY <1>1, Invariance, PTL

\* entry_for never hands out a producer older than the configuration that was
\* registered when the operation began.
THEOREM OverwriteTakesEffect == Spec => []FreshAtStart
<1>1. Inv => FreshAtStart
    BY DEF Inv, CallOK, FreshAtStart
<1>2. QED
    BY <1>1, Invariance, PTL

\* Before the first overwrite one producer exists, whatever callers race to
\* build it, and a flush that does not run out of time leaves no message behind.
THEOREM BuiltOnce == Spec => []OneProducerAtFirst
<1>1. ASSUME Inv PROVE OneProducerAtFirst
  <2> SUFFICES ASSUME version <= 1
               PROVE  /\ Cardinality({k \in Born : cell[k] # NoEntry}) <= 1
                      /\ stage = "flushed" => queue = {}
      BY DEF OneProducerAtFirst
  <2>1. {k \in Born : cell[k] # NoEntry} \in SUBSET {1}
    BY <1>1 DEF Inv, First, Born
  <2>2. IsFiniteSet({1}) /\ Cardinality({1}) = 1
    BY FS_Singleton
  <2>3. Cardinality({k \in Born : cell[k] # NoEntry}) <= 1
    BY <2>1, <2>2, FS_Subset
  <2>4. QED
    BY <1>1, <2>3 DEF Inv, First
<1>2. QED
    BY <1>1, Invariance, PTL


----------------------------------------------------------------------------
(* The transaction of a single client.  A commit looks at the producer of  *)
(* the moment; that it cannot answer Ok for messages an older producer has *)
(* lost rests on the order in which a client meets the cells.              *)

\* Transactions are the affair of the transactional clients.
Clients == \A d \in Caller : op[d] # "produce" => d \in TxnCaller

\* The cell a caller works on, or will find at the earliest.
Reach(d) == IF pc[d] \in {"idle", "read", "insert"} THEN table ELSE mine[d]

\* The table only moves on to newer cells, and a caller never goes back.
Forward ==
    /\ \A d \in Caller : mine[d] <= table
    /\ \A k \in open : cell[k] \in Entry

\* The transaction of client c is that of its newest producer.  What it holds
\* of c is there as long as that producer owns the epoch; when it has lost
\* something, its producer cannot commit it.
Txn(c) ==
    /\ \A k \in open : k <= Reach(c)
    /\ \A k \in acked[c] : /\ k = owner /\ k \in open /\ k \in sent
                           /\ \A j \in open : j <= k
    /\ torn[c] => \A k \in open : k >= Reach(c) => k \in sent /\ owner # k

OneClient == \A c, d \in TxnCaller : c = d

Truth == Clients /\ Forward /\ (OneClient => (\A c \in TxnCaller : Txn(c)) /\ ~lied)

\* The calls of a caller: what a step of another leaves, what a return leaves.
LEMMA ReachMoves ==
    ASSUME Inv, Forward, NEW c \in Caller, CallBase', table <= table', table' \in Int,
           UNCHANGED mine \/ mine'[c] \in {0, table'},
           \A d \in Caller \ {c} : pc'[d] = pc[d] /\ mine'[d] = mine[d],
           \/ pc'[c] \in {"idle", "read", "insert"}
           \/ pc[c] \in {"read", "insert"} /\ mine'[c] = table'
           \/ pc[c] \notin {"idle", "read", "insert"} /\ UNCHANGED mine
    PROVE  /\ \A d \in Caller : mine'[d] <= table'
           /\ \A d \in Caller : Reach(d) <= Reach(d)'
<1>1. /\ table \in Int /\ table' \in Int /\ 0 <= table
      /\ \A d \in Caller : mine[d] \in Int /\ mine'[d] \in Int
  <2>1. CallBase /\ CellType
    BY TypeParts DEF Inv
  <2>2. \A d \in Caller : mine[d] \in 0 .. MaxCell /\ mine'[d] \in 0 .. MaxCell
    BY <2>1 DEF CallBase
  <2> QED BY <2>1, <2>2 DEF CellType
<1>2. \A d \in Caller : mine[d] <= table
  BY DEF Forward
<1>3. ASSUME NEW d \in Caller PROVE mine'[d] <= table' /\ Reach(d) <= Reach(d)'
  <2>1. CASE d # c
    <3>1. pc'[d] = pc[d] /\ mine'[d] = mine[d] /\ mine[d] <= table
      BY <1>2, <2>1
    <3> QED BY <1>1, <3>1 DEF Reach
  <2>2. CASE d = c
    <3>1. mine[c] <= table' /\ 0 <= table'
      BY <1>1, <1>2
    <3>2. mine'[c] <= table'
      BY <1>1, <3>1
    <3>3. Reach(c) <= table'
      BY <1>1, <3>1 DEF Reach
    <3>4. CASE pc'[c] \in {"idle", "read", "insert"}
      BY <2>2, <3>2, <3>3, <3>4 DEF Reach
    <3>5. CASE pc[c] \in {"read", "insert"} /\ mine'[c] = table'
      BY <2>2, <3>2, <3>3, <3>5 DEF Reach
    <3>6. CASE pc[c] \notin {"idle", "read", "insert"} /\ UNCHANGED mine
      BY <1>1, <2>2, <3>1, <3>2, <3>6 DEF Reach
    <3> QED BY <3>4, <3>5, <3>6
  <2> QED BY <2>1, <2>2
<1> QED BY <1>3

\* The calls of the callers in S return.
LEMMA ReachReturns ==
    ASSUME Inv, Forward, Clients, NEW S \in SUBSET Caller, Return(S), UNCHANGED table
    PROVE  /\ \A d \in Caller : mine'[d] <= table'
           /\ \A d \in Caller : Reach(d) <= Reach(d)'
           /\ Clients'
<1>0. CallBase /\ CellType
  BY TypeParts DEF Inv
<1>1. /\ \A c \in S : pc'[c] = "idle" /\ mine'[c] = 0
      /\ \A c \in Caller \ S : pc'[c] = pc[c] /\ mine'[c] = mine[c]
  BY <1>0, Returns
<1>2. /\ table \in Int /\ 0 <= table /\ table' = table
      /\ \A d \in Caller : mine[d] <= table /\ mine[d] \in Int
  <2>1. \A d \in Caller : mine[d] \in 0 .. MaxCell
    BY <1>0 DEF CallBase
  <2> QED BY <1>0, <2>1 DEF CellType, Forward
<1>3. ASSUME NEW d \in Caller PROVE mine'[d] <= table' /\ Reach(d) <= Reach(d)'
  <2>1. CASE d \in S
    BY <1>1, <1>2, <2>1 DEF Reach
  <2>2. CASE d \notin S
    BY <1>1, <1>2, <2>2 DEF Reach
  <2> QED BY <2>1, <2>2
<1>4. Clients'
  <2>1. op' = [d \in Caller |-> IF d \in S THEN "produce" ELSE op[d]]
    BY DEF Return, Without
  <2> QED BY <2>1 DEF Clients
<1> QED BY <1>3, <1>4

\* Whatever happens, callers move on to newer cells only, and a producer stays
\* in its cell.
LEMMA ForwardStep ==
    ASSUME Inv, Inv', Clients, Forward, [Next]_vars
    PROVE  /\ Clients'
           /\ \A d \in Caller : mine'[d] <= table'
           /\ \A d \in Caller : Reach(d) <= Reach(d)'
           /\ \A k \in Cell : cell[k] \in Entry => cell'[k] = cell[k]
<1> DEFINE Goal == /\ Clients'
                   /\ \A d \in Caller : mine'[d] <= table'
                   /\ \A d \in Caller : Reach(d) <= Reach(d)'
                   /\ \A k \in Cell : cell[k] \in Entry => cell'[k] = cell[k]
<1> SUFFICES Goal
  OBVIOUS
<1>a. /\ CallBase /\ CellType /\ CallBase' /\ CellType' /\ TypeOK
      /\ table \in Int /\ table' \in Int /\ table <= table /\ 0 <= table
  <2>1. CallBase /\ CellType /\ TypeOK
    BY TypeParts DEF Inv
  <2>2. TypeOK'
    BY DEF Inv
  <2>3. CallBase' /\ CellType'
    BY <2>2 DEF TypeOK, CallType, CallBase
  <2> QED BY <2>1, <2>3 DEF CellType
<1>b. ASSUME NEW c \in Caller, Goto(c, "read") \/ Goto(c, "insert") \/ Goto(c, "init")
                                 \/ Goto(c, "compare") \/ Goto(c, "replace")
                                 \/ Goto(c, "use") \/ Goto(c, "sent") \/ Goto(c, "build")
      PROVE  \A d \in Caller \ {c} : pc'[d] = pc[d]
  BY <1>a, <1>b DEF Goto, CallBase
<1>1. CASE UNCHANGED <<pc, op, mine, table, cell>>
  <2>1. \A d \in Caller : mine[d] \in Int
    BY <1>a DEF CallBase
  <2>2. \A d \in Caller : Reach(d) \in Int /\ Reach(d)' = Reach(d)
    BY <1>1, <1>a, <2>1 DEF Reach
  <2>3. \A d \in Caller : Reach(d) <= Reach(d)'
    BY <2>2
  <2> QED BY <1>1, <2>3 DEF Clients, Forward
<1>2. ASSUME NEW S \in SUBSET Caller, Return(S), UNCHANGED cellVars PROVE Goal
  BY <1>2, ReachReturns DEF cellVars
<1>3. ASSUME NEW c \in Caller, NEW o \in Ops, Call(c, o) PROVE Goal
  <2>1. /\ pc' = [pc EXCEPT ![c] = "read"] /\ op' = [op EXCEPT ![c] = o]
        /\ UNCHANGED <<mine, table, cell>> /\ (o # "produce" => c \in TxnCaller)
    BY <1>3 DEF Call, Goto, cellVars
  <2>2. Clients'
    BY <1>a, <2>1 DEF Clients, CallBase
  <2>3. pc'[c] = "read" /\ \A d \in Caller \ {c} : pc'[d] = pc[d]
    BY <1>a, <2>1 DEF CallBase
  <2> QED BY <1>a, <2>1, <2>2, <2>3, ReachMoves
<1>4. ASSUME NEW c \in Caller, EntryFor(c) PROVE Goal
  <2>1. CASE ReadCell(c)
    <3>1. /\ UNCHANGED <<op, table, cell>> /\ pc[c] = "read"
          /\ \/ pc' = [pc EXCEPT ![c] = "insert"] /\ UNCHANGED mine
             \/ pc' = [pc EXCEPT ![c] = "init"] /\ mine' = [mine EXCEPT ![c] = table]
      BY <2>1 DEF ReadCell, Goto, EntryFrame, cellVars
    <3>2. /\ \A d \in Caller \ {c} : pc'[d] = pc[d] /\ mine'[d] = mine[d]
          /\ \/ pc'[c] = "insert" /\ UNCHANGED mine
             \/ pc'[c] = "init" /\ mine'[c] = table'
      BY <1>a, <3>1 DEF CallBase
    <3>3. Clients'
      BY <3>1 DEF Clients
    <3> QED BY <1>a, <3>1, <3>2, <3>3, ReachMoves
  <2>2. CASE InsertCell(c)
    <3>1. /\ UNCHANGED op /\ pc[c] = "insert" /\ pc' = [pc EXCEPT ![c] = "init"]
          /\ mine' = [mine EXCEPT ![c] = table']
      BY <2>2 DEF InsertCell, Goto, EntryFrame
    <3>2. /\ \A d \in Caller \ {c} : pc'[d] = pc[d] /\ mine'[d] = mine[d]
          /\ pc'[c] = "init" /\ mine'[c] = table'
      BY <1>a, <3>1 DEF CallBase
    <3>3. Clients'
      BY <3>1 DEF Clients
    <3>4. table <= table' /\ \A k \in Cell : cell[k] \in Entry => cell'[k] = cell[k]
      <4>1. CASE table # 0
        BY <1>a, <2>2, <4>1 DEF InsertCell, cellVars
      <4>2. CASE table = 0
        <5>1. /\ NewCell \in Cell /\ table' = NewCell /\ UNCHANGED regVars
              /\ cell' = [cell EXCEPT ![NewCell] = NoEntry]
          BY <2>2, <4>2 DEF InsertCell, EntryFrame
        <5>2. \A k \in Cell : cell'[k] = cell[k] \/ (cell[k] = Unborn /\ cell'[k] = NoEntry)
          BY <5>1, CellAdded
        <5>3. table <= table'
          BY <4>2, <5>1 DEF Cell
        <5> QED BY <5>2, <5>3, Apart
      <4> QED BY <4>1, <4>2
    <3> QED BY <1>a, <3>1, <3>2, <3>3, <3>4, ReachMoves
  <2>3. CASE InitDone(c) \/ Compare(c)
    <3>1. /\ UNCHANGED <<op, mine, table, cell>>
          /\ pc[c] \in {"init", "compare"}
          /\ \E l \in {"compare", "use", "replace"} : pc' = [pc EXCEPT ![c] = l]
      BY <2>3 DEF InitDone, Compare, Goto, EntryFrame, cellVars
    <3>2. \A d \in Caller \ {c} : pc'[d] = pc[d]
      BY <1>a, <3>1 DEF CallBase
    <3>3. Clients'
      BY <3>1 DEF Clients
    <3> QED BY <1>a, <3>1, <3>2, <3>3, ReachMoves
  <2>4. CASE InitBuilds(c)
    <3>1. UNCHANGED cellVars /\ pc[c] = "init"
      BY <2>4 DEF InitBuilds
    <3>2. CASE Return({c})
      BY <1>2, <3>1, <3>2
    <3>3. CASE Goto(c, "build") /\ UNCHANGED <<op, mine>>
      <4>1. \A d \in Caller \ {c} : pc'[d] = pc[d]
        BY <1>b, <3>3
      <4>2. Clients'
        BY <3>3 DEF Clients
      <4> QED BY <1>a, <3>1, <3>3, <4>1, <4>2, ReachMoves DEF cellVars
    <3> QED BY <2>4, <3>2, <3>3 DEF InitBuilds
  <2>5. CASE BuildDone(c)
    <3>1. /\ UNCHANGED <<op, mine, table>> /\ pc[c] = "build" /\ Goto(c, "compare")
          /\ cell' = [cell EXCEPT ![mine[c]] = got[c]]
      BY <2>5 DEF BuildDone
    <3>2. mine[c] \in Cell /\ cell[mine[c]] = NoEntry
      BY <3>1 DEF Inv, CallOK
    <3>3. \A k \in Cell : cell[k] \in Entry => cell'[k] = cell[k]
      BY <1>a, <3>1, <3>2, Apart DEF CellType
    <3>4. \A d \in Caller \ {c} : pc'[d] = pc[d]
      BY <1>b, <3>1
    <3>5. Clients'
      BY <3>1 DEF Clients
    <3> QED BY <1>a, <3>1, <3>3, <3>4, <3>5, ReachMoves
  <2>6. CASE BuildFails(c)
    BY <1>2, <2>6 DEF BuildFails
  <2>7. CASE Replace(c)
    <3>1. /\ UNCHANGED <<op, mine>> /\ pc' = [pc EXCEPT ![c] = "read"]
          /\ NewCell \in Cell /\ table' = NewCell /\ UNCHANGED regVars
          /\ cell' = [cell EXCEPT ![NewCell] = NoEntry]
      BY <2>7 DEF Replace, Goto, EntryFrame
    <3>2. \A k \in Cell : cell'[k] = cell[k] \/ (cell[k] = Unborn /\ cell'[k] = NoEntry)
      BY <3>1, CellAdded
    <3>3. table <= table'
      <4>1. PICK n \in 0 .. MaxCell :
              NewCell = n + 1 /\ \A k \in Cell : cell[k] # Unborn <=> k <= n
        BY NewCellUnborn DEF Inv
      <4>2. table # 0 => table \in Cell /\ cell[table] # Unborn
        BY <1>a DEF Inv, CellsOK, CellType, Cell
      <4>3. table <= n
        BY <4>1, <4>2
      <4> QED BY <1>a, <3>1, <4>1, <4>3
    <3>4. pc'[c] = "read" /\ \A d \in Caller \ {c} : pc'[d] = pc[d]
      BY <1>a, <3>1 DEF CallBase
    <3>5. Clients'
      BY <3>1 DEF Clients
    <3> QED BY <1>a, <3>1, <3>2, <3>3, <3>4, <3>5, ReachMoves, Apart
  <2> QED BY <1>4, <2>1, <2>2, <2>3, <2>4, <2>5, <2>6, <2>7 DEF EntryFor
<1>5. ASSUME NEW c \in Caller, Operation(c) PROVE Goal
  <2>1. /\ UNCHANGED cellVars
        /\ \/ \E S \in SUBSET Caller : Return(S)
           \/ /\ pc[c] = "use" /\ pc' = [pc EXCEPT ![c] = "sent"]
              /\ UNCHANGED <<op, mine, got, since>>
    BY <1>5, <1>a, OperationShape DEF OpFrame
  <2>2. CASE /\ pc[c] = "use" /\ pc' = [pc EXCEPT ![c] = "sent"]
             /\ UNCHANGED <<op, mine, got, since>>
    <3>1. \A d \in Caller \ {c} : pc'[d] = pc[d]
      BY <1>a, <2>2 DEF CallBase
    <3>2. Clients'
      BY <2>2 DEF Clients
    <3> QED BY <1>a, <2>1, <2>2, <3>1, <3>2, ReachMoves DEF cellVars
  <2> QED BY <1>2, <2>1, <2>2
<1>6. CASE DrainEnds
  BY <1>2, <1>6 DEF DrainEnds
<1>7. CASE \/ \E txn \in BOOLEAN : Register(txn)
           \/ \E k \in Cell : Drains(k)
           \/ Flush \/ UNCHANGED vars
  <2>1. UNCHANGED <<pc, op, mine, table, cell>>
    BY <1>7 DEF Register, Drains, Flush, vars, callVars, cellVars
  <2> QED BY <1>1, <2>1
<1> QED
  BY <1>3, <1>4, <1>5, <1>6, <1>7 DEF Next

\* What a step may do to the transactions and to what is known of them: a new
\* producer takes the epoch, or a caller that has its producer begins, adds
\* to, commits or aborts a transaction.
TxnSame == UNCHANGED <<owner, open, sent, acked, torn, lied>>

Fences(c) == /\ pc[c] = "build" /\ UNCHANGED <<open, sent, lied>>
             /\ Fence(mine[c]) \/ Fence(0)

Adds(c) ==
    /\ mine[c] \in open /\ owner = mine[c] /\ pc[c] \in {"use", "sent"}
    /\ acked' = AckedTo(c) /\ sent' = sent \cup {mine[c]}
    /\ UNCHANGED <<owner, open, torn, lied>>

LEMMA TxnShape ==
    ASSUME Inv, [Next]_vars
    PROVE  \/ TxnSame
           \/ \E c \in Caller : Fences(c) \/ Adds(c) \/ BeginTxn(c) \/ CommitOk(c) \/ AbortOk(c)
<1>1. CASE \/ \E txn \in BOOLEAN : Register(txn)
           \/ \E k \in Cell : Drains(k)
           \/ \E c \in Caller, o \in Ops : Call(c, o)
           \/ Flush \/ DrainEnds \/ UNCHANGED vars
  BY <1>1 DEF Register, Drains, Call, Flush, DrainEnds, vars, txnVars, histVars, TxnSame
<1>2. ASSUME NEW c \in Caller, EntryFor(c) PROVE TxnSame \/ Fences(c)
  <2>1. CASE ReadCell(c) \/ InsertCell(c) \/ InitDone(c) \/ InitBuilds(c) \/ Compare(c) \/ Replace(c)
    BY <2>1 DEF ReadCell, InsertCell, InitDone, InitBuilds, Compare, Replace, EntryFrame,
       txnVars, TxnSame
  <2>2. CASE BuildDone(c)
    BY <2>2 DEF BuildDone, TxnSame, Fences
  <2>3. CASE BuildFails(c)
    BY <2>3 DEF BuildFails, TxnSame, Fences
  <2> QED BY <1>2, <2>1, <2>2, <2>3 DEF EntryFor
<1>3. ASSUME NEW c \in Caller, Operation(c)
      PROVE  TxnSame \/ Adds(c) \/ BeginTxn(c) \/ CommitOk(c) \/ AbortOk(c)
  <2>1. CASE Refused(c) \/ DeliveryFails(c) \/ TxnFails(c) \/ Send(c)
    BY <2>1 DEF Refused, DeliveryFails, TxnFails, Send, txnVars, TxnSame
  <2>2. CASE Delivered(c) \/ OffsetsOk(c)
    BY <2>2 DEF Delivered, OffsetsOk, Using, TxnSame, Adds
  <2> QED BY <1>3, <2>1, <2>2 DEF Operation
<1> QED BY <1>1, <1>2, <1>3 DEF Next

\* A new epoch: what the client's transaction held is lost, and its producer,
\* which had sent something, cannot commit any more.
LEMMA FenceKeeps ==
    ASSUME Inv, Forward, NEW b \in Caller, Fences(b), NEW c \in TxnCaller, Txn(c),
           Reach(c) <= Reach(c)', Reach(c) \in Int, Reach(c)' \in Int
    PROVE  Txn(c)'
<1>1. /\ owner' \notin open
  <2>1. mine[b] \in Cell /\ cell[mine[b]] \notin Entry
    BY Apart DEF Inv, CallOK, Fences
  <2>2. open \subseteq Cell /\ 0 \notin Cell
    BY DEF Inv, TypeOK, TxnType, Cell
  <2> QED BY <2>1, <2>2 DEF Fences, Fence, Forward
<1>2. /\ torn'[c] = (torn[c] \/ owner \in acked[c]) /\ acked'[c] = acked[c] \ {owner}
      /\ open' = open /\ sent' = sent
  BY DEF Fences, Fence
<1>3. open \subseteq Cell /\ Cell \subseteq Int
  BY DEF Inv, TypeOK, TxnType, Cell
<1>4. ASSUME NEW k \in open' PROVE k <= Reach(c)'
  <2>1. k \in Int /\ k <= Reach(c)
    BY <1>2, <1>3 DEF Txn
  <2> QED BY <2>1
<1>5. acked'[c] = {}
  BY <1>2 DEF Txn
<1>6. ASSUME torn'[c], NEW k \in open', k >= Reach(c)'
      PROVE  k \in sent' /\ owner' # k
  <2>1. k \in open /\ k >= Reach(c) /\ k \in Int
    BY <1>2, <1>3, <1>6
  <2>2. CASE torn[c]
    BY <1>1, <1>2, <2>1, <2>2 DEF Txn
  <2>3. CASE owner \in acked[c]
    <3>1. owner \in open /\ owner \in sent /\ k <= owner /\ owner <= Reach(c)
      BY <2>1, <2>3 DEF Txn
    <3>2. k = owner
      BY <1>3, <2>1, <3>1
    <3> QED BY <1>1, <1>2, <2>1, <3>1, <3>2
  <2> QED BY <1>2, <1>6, <2>2, <2>3
<1> QED BY <1>4, <1>5, <1>6 DEF Txn

\* A message or an offset is acknowledged: to the client, into the transaction
\* of its newest producer.
LEMMA AddKeeps ==
    ASSUME Inv, NEW b \in Caller, Adds(b), NEW c \in TxnCaller, Txn(c),
           Reach(c) <= Reach(c)', Reach(c) \in Int, Reach(c)' \in Int
    PROVE  Txn(c)'
<1>1. open' = open /\ owner' = owner /\ sent \subseteq sent' /\ torn'[c] = torn[c]
  BY DEF Adds
<1>2. open \subseteq Cell /\ Cell \subseteq Int
  BY DEF Inv, TypeOK, TxnType, Cell
<1>3. ASSUME NEW k \in open' PROVE k <= Reach(c)'
  <2>1. k \in Int /\ k <= Reach(c)
    BY <1>1, <1>2 DEF Txn
  <2> QED BY <2>1
<1>4. ASSUME NEW k \in acked'[c]
      PROVE  k = owner' /\ k \in open' /\ k \in sent' /\ \A j \in open' : j <= k
  <2>1. k \in acked[c] \/ (b = c /\ k = mine[c])
    BY <1>4 DEF Adds, AckedTo
  <2>2. CASE k \in acked[c]
    BY <1>1, <2>2 DEF Txn
  <2>3. CASE b = c /\ k = mine[c]
    <3>1. Reach(c) = mine[c]
      BY <2>3 DEF Reach, Adds
    <3>2. \A j \in open : j <= k
      BY <2>3, <3>1 DEF Txn
    <3> QED BY <1>1, <2>3, <3>2 DEF Adds
  <2> QED BY <2>1, <2>2, <2>3
<1>5. ASSUME torn'[c], NEW k \in open', k >= Reach(c)'
      PROVE  k \in sent' /\ owner' # k
  <2>1. k \in open /\ k >= Reach(c)
    BY <1>1, <1>2, <1>5
  <2> QED BY <1>1, <1>5, <2>1 DEF Txn
<1> QED BY <1>3, <1>4, <1>5 DEF Txn

\* A new transaction of the client starts with nothing in it; a transaction
\* that ends leaves only older ones, which the client cannot reach.
LEMMA TxnEndsKeeps ==
    ASSUME Inv, NEW c \in TxnCaller, BeginTxn(c) \/ CommitOk(c) \/ AbortOk(c), Txn(c),
           Reach(c) <= Reach(c)', Reach(c) \in Int, Reach(c)' \in Int
    PROVE  Txn(c)' /\ (lied' = lied)
<1>0. /\ open \subseteq Cell /\ Cell \subseteq Int
      /\ acked \in [TxnCaller -> SUBSET Cell] /\ torn \in [TxnCaller -> BOOLEAN]
      /\ lied \in BOOLEAN
  BY DEF Inv, TypeOK, TxnType, Cell
<1>1. Reach(c) = mine[c] /\ mine[c] \in Cell
  BY DEF Inv, CallOK, Reach, BeginTxn, CommitOk, AbortOk, Using
<1>2. CASE BeginTxn(c)
  <2>1. /\ open' = open \cup {mine[c]} /\ acked'[c] = {} /\ torn'[c] = FALSE /\ lied' = lied
    BY <1>0, <1>2 DEF BeginTxn
  <2>2. ASSUME NEW k \in open' PROVE k <= Reach(c)'
    <3>1. CASE k \in open
      <4>1. k \in Int /\ k <= Reach(c)
        BY <1>0, <3>1 DEF Txn
      <4> QED BY <4>1
    <3>2. CASE k = mine[c]
      BY <1>1, <3>2
    <3> QED BY <2>1, <3>1, <3>2
  <2> QED BY <2>1, <2>2 DEF Txn
<1>3. CASE CommitOk(c) \/ AbortOk(c)
  <2>1. /\ open' = open \ {mine[c]} /\ sent' = sent \ {mine[c]} /\ owner' = owner
        /\ acked'[c] = acked[c] \ {mine[c]}
    BY <1>3 DEF CommitOk, AbortOk
  <2>2. mine[c] \in open
    BY <1>3 DEF CommitOk, AbortOk
  \* All that is left is older than the producer of the client.
  <2>3. \A k \in open' : k <= Reach(c)' /\ ~(k >= Reach(c)')
    <3>1. \A k \in open' : k \in Int /\ k <= mine[c] /\ k # mine[c]
      BY <1>0, <1>1, <2>1 DEF Txn
    <3>2. mine[c] \in Int
      BY <1>0, <1>1
    <3> QED BY <1>1, <3>1, <3>2
  <2>4. acked'[c] = {}
    <3>1. ASSUME NEW k \in acked[c] PROVE k = mine[c]
      <4>1. k \in open /\ mine[c] <= k /\ k <= mine[c]
        BY <1>1, <2>2 DEF Txn
      <4> QED BY <1>0, <1>1, <4>1
    <3> QED BY <2>1, <3>1
  <2>5. lied' = lied
    <3>1. CASE AbortOk(c)
      BY <3>1 DEF AbortOk
    <3>2. CASE CommitOk(c)
      <4>1. ~torn[c]
        <5>1. owner = mine[c] \/ mine[c] \notin sent
          BY <3>2 DEF CommitOk
        <5>2. mine[c] >= Reach(c)
          BY <1>0, <1>1
        <5> QED BY <2>2, <5>1, <5>2 DEF Txn
      <4>2. lied' = (lied \/ torn[c] \/ acked'[c] # {})
        BY <3>2 DEF CommitOk
      <4> QED BY <1>0, <2>4, <4>1, <4>2
    <3> QED BY <1>3, <3>1, <3>2
  <2> QED BY <2>3, <2>4, <2>5 DEF Txn
<1> QED BY <1>2, <1>3

\* Every step keeps the invariant.
LEMMA TruthStep ==
    ASSUME Inv, Inv', Truth, [Next]_vars
    PROVE  Truth'
<1>a. Clients /\ Forward
  BY DEF Truth
<1>b. /\ Clients' /\ \A d \in Caller : mine'[d] <= table'
      /\ \A d \in Caller : Reach(d) <= Reach(d)'
      /\ \A k \in Cell : cell[k] \in Entry => cell'[k] = cell[k]
  BY <1>a, ForwardStep
<1>c. /\ open \subseteq Cell /\ Cell \subseteq Int
      /\ \A d \in Caller : Reach(d) \in Int /\ Reach(d)' \in Int
  <2>1. /\ table \in 0 .. MaxCell /\ mine \in [Caller -> 0 .. MaxCell]
        /\ table' \in 0 .. MaxCell /\ mine' \in [Caller -> 0 .. MaxCell]
        /\ open \subseteq Cell
    BY DEF Inv, TypeOK, TxnType, CellType, CallType
  <2> QED BY <2>1 DEF Reach, Cell
<1>d. ASSUME NEW c \in Caller, BeginTxn(c) \/ CommitOk(c) \/ AbortOk(c) PROVE c \in TxnCaller
  BY <1>a, <1>d DEF Clients, BeginTxn, CommitOk, AbortOk, Using
<1>1. \A k \in open' : cell'[k] \in Entry
  <2>1. ASSUME NEW k \in open PROVE cell'[k] \in Entry
    BY <1>a, <1>b, <1>c DEF Forward
  <2>2. ASSUME NEW c \in Caller, BeginTxn(c)
        PROVE  open' = open \cup {mine[c]} /\ cell'[mine[c]] \in Entry
    <3>1. mine[c] \in Cell /\ cell[mine[c]] \in Entry
      BY <2>2 DEF Inv, CallOK, BeginTxn, Using
    <3> QED BY <1>b, <2>2, <3>1 DEF BeginTxn
  <2>3. ASSUME NEW c \in Caller, CommitOk(c) \/ AbortOk(c) PROVE open' \subseteq open
    BY <2>3 DEF CommitOk, AbortOk
  <2>4. TxnSame \/ (\E c \in Caller : Fences(c) \/ Adds(c)) => open' = open
    BY DEF TxnSame, Fences, Adds
  <2> QED BY <2>1, <2>2, <2>3, <2>4, TxnShape
<1>2. ASSUME OneClient, NEW c \in TxnCaller PROVE Txn(c)' /\ ~lied'
  <2>0. Txn(c) /\ ~lied
    BY <1>2 DEF Truth
  <2>a. c \in Caller /\ Reach(c) <= Reach(c)' /\ Reach(c) \in Int /\ Reach(c)' \in Int
    BY <1>b, <1>c
  <2>1. CASE TxnSame
    <3>1. \A k \in open : k \in Int
      BY <1>c
    <3> QED BY <2>0, <2>1, <2>a, <3>1 DEF TxnSame, Txn
  <2>2. ASSUME NEW b \in Caller, Fences(b) PROVE Txn(c)' /\ ~lied'
    <3>1. lied' = lied
      BY <2>2 DEF Fences
    <3> QED BY <1>a, <2>0, <2>2, <2>a, <3>1, FenceKeeps
  <2>3. ASSUME NEW b \in Caller, Adds(b) PROVE Txn(c)' /\ ~lied'
    <3>1. lied' = lied
      BY <2>3 DEF Adds
    <3> QED BY <2>0, <2>3, <2>a, <3>1, AddKeeps
  <2>4. ASSUME NEW b \in Caller, BeginTxn(b) \/ CommitOk(b) \/ AbortOk(b)
        PROVE  Txn(c)' /\ ~lied'
    <3>1. b = c
      BY <1>2, <1>d, <2>4 DEF OneClient
    <3> QED BY <2>0, <2>4, <2>a, <3>1, TxnEndsKeeps
  <2> QED BY <2>1, <2>2, <2>3, <2>4, TxnShape
<1>3. ASSUME TxnCaller = {}, ~lied PROVE ~lied'
  <2>1. ~\E c \in Caller : BeginTxn(c) \/ CommitOk(c) \/ AbortOk(c)
    BY <1>3, <1>d
  <2> QED BY <1>3, <2>1, TxnShape DEF TxnSame, Fences, Adds
<1>4. OneClient => ~lied'
  BY <1>2, <1>3 DEF Truth, OneClient
<1> QED BY <1>1, <1>2, <1>4, <1>b DEF Truth, Forward

\* commit_transaction tells a single transactional client the truth: it never
\* answers Ok when messages or offsets acknowledged since the client's begin
\* are not in what is committed, whatever is overwritten, rebuilt and fenced
\* meanwhile and however many other callers produce.
THEOREM CommitIsTruthful == Spec => []CommitTruthful
<1>1. Init => Truth
  BY DEF Init, Truth, Clients, Forward, Txn
<1>2. Inv /\ Inv' /\ Truth /\ [Next]_vars => Truth'
  BY TruthStep
<1>3. Truth => CommitTruthful
  <2>1. Cardinality(TxnCaller) <= 1 => OneClient
    <3> SUFFICES ASSUME Cardinality(TxnCaller) <= 1 PROVE OneClient
      OBVIOUS
    <3>1. Cardinality(TxnCaller) \in Nat
      BY ClientsAssumption, FS_CardinalityType
    <3>2. Cardinality(TxnCaller) = 0 \/ Cardinality(TxnCaller) = 1
      BY <3>1
    <3>3. TxnCaller = {} \/ \E x : TxnCaller = {x}
      BY <3>2, ClientsAssumption, FS_EmptySet, FS_Singleton
    <3> QED BY <3>3 DEF OneClient
  <2> QED BY <2>1 DEF Truth, CommitTruthful
<1> QED BY <1>1, <1>2, <1>3, Invariance, PTL DEF Spec
=============================================================================
