---------------------------- MODULE ChatCliProofs ----------------------------
(***************************************************************************)
(* Proofs about ChatCli for every size of batch and channel and any number *)
(* of messages and windows: the program uses its store and its indexer as  *)
(* SQLiteStore and ElasticIndexer describe them, and stopping it loses no  *)
(* more than what its handlers hold.                                       *)
(***************************************************************************)
EXTENDS ChatCli, TLAPS

StoreP == INSTANCE SQLiteStoreProofs WITH BatchSize <- SQLiteBatch, MaxBuf <- MaxMsgs, MaxLives <- 1
IndexerP == INSTANCE ElasticIndexerProofs WITH
  BatchSize <- ElasticBatch, MaxDocs <- MaxMsgs, stored <- {}

-----------------------------------------------------------------------------
(* The store and the indexer, as instances and with their theorems. *)

LEMMA PartAssumptions ==
  /\ StoreP!SQLiteStoreAssumption
  /\ IndexerP!ElasticIndexerAssumption
BY ChatCliAssumption DEF StoreP!SQLiteStoreAssumption, IndexerP!ElasticIndexerAssumption

LEMMA StoreSame ==
  /\ StoreP!Init <=> Store!Init
  /\ StoreP!Next <=> Store!Next
  /\ StoreP!vars = Store!vars
  /\ StoreP!TypeOK <=> Store!TypeOK
<1>1. StoreP!Init <=> Store!Init
  BY DEF StoreP!Init, Store!Init
<1>2. StoreP!vars = Store!vars
  BY DEF StoreP!vars, Store!vars
<1>3. StoreP!TypeOK <=> Store!TypeOK
  BY DEF StoreP!TypeOK, Store!TypeOK, StoreP!Range, Store!Range
<1>4. \A m : StoreP!Enqueue(m) <=> Store!Enqueue(m)
  BY DEF StoreP!Enqueue, Store!Enqueue, StoreP!Flush, Store!Flush,
     StoreP!Conflict, Store!Conflict, StoreP!RowsAfterFailure, Store!RowsAfterFailure,
     StoreP!BufAfterFailure, Store!BufAfterFailure, StoreP!Range, Store!Range
<1>5. StoreP!Flush(buf) <=> Store!Flush(buf)
  BY DEF StoreP!Flush, Store!Flush,
     StoreP!Conflict, Store!Conflict, StoreP!RowsAfterFailure, Store!RowsAfterFailure,
     StoreP!BufAfterFailure, Store!BufAfterFailure, StoreP!Range, Store!Range
<1>6. StoreP!End <=> Store!End
  BY DEF StoreP!End, Store!End, StoreP!Pending, Store!Pending,
     StoreP!Range, Store!Range
<1>7. StoreP!Open <=> Store!Open
  BY DEF StoreP!Open, Store!Open
<1>8. StoreP!Redeliverable = Store!Redeliverable
  BY DEF StoreP!Redeliverable, Store!Redeliverable
<1>9. StoreP!Next <=> Store!Next
  BY <1>4, <1>5, <1>6, <1>7, <1>8
     DEF StoreP!Next, Store!Next, StoreP!EnqueueNew, Store!EnqueueNew, StoreP!EnqueueAgain, Store!EnqueueAgain,
         StoreP!FlushAll, Store!FlushAll, StoreP!Close, Store!Close
<1> QED
  BY <1>1, <1>2, <1>3, <1>9

LEMMA IndexerSame ==
  /\ IndexerP!Init <=> Indexer!Init
  /\ IndexerP!Next <=> Indexer!Next
  /\ IndexerP!vars = Indexer!vars
  /\ IndexerP!TypeOK <=> Indexer!TypeOK
<1>1. IndexerP!Init <=> Indexer!Init
  BY DEF IndexerP!Init, Indexer!Init, IndexerP!Kinds, Indexer!Kinds
<1>2. IndexerP!vars = Indexer!vars
  BY DEF IndexerP!vars, Indexer!vars
<1>3. IndexerP!TypeOK <=> Indexer!TypeOK
  BY DEF IndexerP!TypeOK, Indexer!TypeOK, IndexerP!Kinds, Indexer!Kinds, IndexerP!Documents, Indexer!Documents
<1>4. \A k : IndexerP!Offer(k) <=> Indexer!Offer(k)
  BY DEF IndexerP!Offer, Indexer!Offer, IndexerP!closeVars, Indexer!closeVars, IndexerP!stats, Indexer!stats,
         IndexerP!remote, Indexer!remote
<1>5. \A k : IndexerP!Send(k) <=> Indexer!Send(k)
  BY DEF IndexerP!Send, Indexer!Send, IndexerP!closeVars, Indexer!closeVars, IndexerP!Full, Indexer!Full,
         IndexerP!Newest, Indexer!Newest, IndexerP!remote, Indexer!remote
<1>6. IndexerP!Receive <=> Indexer!Receive
  BY DEF IndexerP!Receive, Indexer!Receive, IndexerP!callerVars, Indexer!callerVars,
         IndexerP!closeVars, Indexer!closeVars, IndexerP!stats, Indexer!stats, IndexerP!remote, Indexer!remote
<1>7. /\ IndexerP!FlushTick <=> Indexer!FlushTick
      /\ IndexerP!SeeStop <=> Indexer!SeeStop
      /\ IndexerP!DrainEnd <=> Indexer!DrainEnd
  BY DEF IndexerP!FlushTick, Indexer!FlushTick, IndexerP!TickFlushes, Indexer!TickFlushes,
         IndexerP!SeeStop, Indexer!SeeStop, IndexerP!DrainEnd, Indexer!DrainEnd, IndexerP!Drained, Indexer!Drained,
         IndexerP!callerVars, Indexer!callerVars,
         IndexerP!closeVars, Indexer!closeVars, IndexerP!stats, Indexer!stats, IndexerP!remote, Indexer!remote
<1>8. IndexerP!FlushBatch <=> Indexer!FlushBatch
  <2>1. \A k : IndexerP!OfKind(k) = Indexer!OfKind(k)
    BY DEF IndexerP!OfKind, Indexer!OfKind
  <2>2. IndexerP!Accepted <=> Indexer!Accepted
    <3>1. \A S : IndexerP!Cardinality(S) = Indexer!Cardinality(S)
      BY DEF IndexerP!Cardinality, Indexer!Cardinality
    <3> QED
      BY <2>1, <3>1 DEF IndexerP!Accepted, Indexer!Accepted
  <2>3. IndexerP!Rejected <=> Indexer!Rejected
    BY DEF IndexerP!Rejected, Indexer!Rejected, IndexerP!Failed, Indexer!Failed
  <2>4. IndexerP!Range(batch) = Indexer!Range(batch)
    BY DEF IndexerP!Range, Indexer!Range
  <2>5. IndexerP!AfterPost = Indexer!AfterPost /\ IndexerP!BatchAfterPost = Indexer!BatchAfterPost
    BY DEF IndexerP!AfterPost, Indexer!AfterPost, IndexerP!BatchAfterPost, Indexer!BatchAfterPost
  <2> QED
    BY <2>2, <2>3, <2>4, <2>5
       DEF IndexerP!FlushBatch, Indexer!FlushBatch, IndexerP!callerVars, Indexer!callerVars,
           IndexerP!closeVars, Indexer!closeVars
<1>9. /\ IndexerP!SwapClosed <=> Indexer!SwapClosed
      /\ IndexerP!CloseStopCh <=> Indexer!CloseStopCh
      /\ IndexerP!WaitWorker <=> Indexer!WaitWorker
  BY DEF IndexerP!SwapClosed, Indexer!SwapClosed, IndexerP!CloseStopCh, Indexer!CloseStopCh,
         IndexerP!WaitWorker, Indexer!WaitWorker, IndexerP!callerVars, Indexer!callerVars,
         IndexerP!stats, Indexer!stats, IndexerP!remote, Indexer!remote
<1>10. IndexerP!Next <=> Indexer!Next
  BY <1>4, <1>5, <1>6, <1>7, <1>8, <1>9
     DEF IndexerP!Next, Indexer!Next, IndexerP!Worker, Indexer!Worker, IndexerP!Kinds, Indexer!Kinds
<1> QED
  BY <1>1, <1>2, <1>3, <1>10
-----------------------------------------------------------------------------
(* What the program does to its store and to its indexer. *)

LEMMA StoreStep ==
  ASSUME [Next]_vars
  PROVE  [Store!Next]_(Store!vars)
<1>1. CASE Persist
  BY <1>1 DEF Persist, Store!Next
<1>2. CASE Flush
  BY <1>2 DEF Flush, Store!Next
<1>3. CASE CloseStore
  BY <1>3 DEF CloseStore, Store!Next
<1>4. CASE Exit
  BY <1>4 DEF Exit, Store!Next
<1>5. CASE Boot
  BY <1>5 DEF Boot, Ping, InitIndex, StartBus, Subscribe, Connect, store, Store!vars
<1>6. ASSUME NEW s \in Streams, Publish(s) PROVE UNCHANGED Store!vars
  BY <1>6 DEF Publish, store, Store!vars
<1>7. ASSUME NEW c, NEW k, Take(c) \/ Index(c, k) \/ Send(k) \/ Return(c, k)
      PROVE  UNCHANGED Store!vars
  BY <1>7 DEF Take, Index, Send, Return, store, Store!vars
<1>8. CASE Work
  BY <1>8 DEF Work, store, Store!vars
<1>9. CASE Stop \/ CloseClient \/ StopConsumers \/ CloseBus \/ CloseIndexer
  BY <1>9 DEF Stop, CloseClient, StopConsumers, CloseBus, CloseIndexer, store, Store!vars
<1>10. CASE UNCHANGED vars
  BY <1>10 DEF vars, store, Store!vars
<1> QED
  BY <1>1, <1>2, <1>3, <1>4, <1>5, <1>6, <1>7, <1>8, <1>9, <1>10
     DEF Next, Sqlite, Elastic, Predict, WayOut

\* Whatever main and the handlers do, they use the store as SQLiteStore says:
\* what is proved of that module holds of the program.
THEOREM UsesStore == Spec => Store!Spec
<1>1. Init => Store!Init
  BY DEF Init
<1>2. [Next]_vars => [Store!Next]_(Store!vars)
  BY StoreStep
<1> QED
  BY <1>1, <1>2, PTL DEF Spec, Store!Spec

LEMMA IndexerStep ==
  ASSUME [Next]_vars
  PROVE  [Indexer!Next]_(Indexer!vars)
<1> USE DEF Indexer!Next, Indexer!Kinds
<1>1. CASE Index("elastic", "chat") \/ Index("predict", "clip")
  BY <1>1 DEF Index
<1>2. CASE Send("chat") \/ Send("clip")
  BY <1>2 DEF Send
<1>3. CASE Work
  BY <1>3 DEF Work
<1>4. CASE CloseIndexer
  BY <1>4 DEF CloseIndexer
<1>5. CASE Boot
  BY <1>5 DEF Boot, Ping, InitIndex, StartBus, Subscribe, Connect, indexer, Indexer!vars
<1>6. ASSUME NEW s \in Streams, Publish(s) PROVE UNCHANGED Indexer!vars
  BY <1>6 DEF Publish, indexer, Indexer!vars
<1>7. ASSUME NEW c, NEW k, Take(c) \/ Return(c, k)
      PROVE  UNCHANGED Indexer!vars
  BY <1>7 DEF Take, Return, indexer, Indexer!vars
<1>8. CASE Persist \/ Flush \/ CloseStore \/ Exit
  BY <1>8 DEF Persist, Flush, CloseStore, Exit, indexer, Indexer!vars
<1>9. CASE Stop \/ CloseClient \/ StopConsumers \/ CloseBus
  BY <1>9 DEF Stop, CloseClient, StopConsumers, CloseBus, indexer, Indexer!vars
<1>10. CASE UNCHANGED vars
  BY <1>10 DEF vars, indexer, Indexer!vars
<1> QED
  BY <1>1, <1>2, <1>3, <1>4, <1>5, <1>6, <1>7, <1>8, <1>9, <1>10
     DEF Next, Sqlite, Elastic, Predict, WayOut

\* The two consumers, the worker and main's deferred Close use the indexer as
\* ElasticIndexer says.
THEOREM UsesIndexer == Spec => Indexer!Spec
<1>1. Init => Indexer!Init
  BY DEF Init
<1>2. [Next]_vars => [Indexer!Next]_(Indexer!vars)
  BY IndexerStep
<1> QED
  BY <1>1, <1>2, PTL DEF Spec, Indexer!Spec

LEMMA StoreSpecs == Store!Spec => StoreP!Spec
<1>1. Store!Init => StoreP!Init
  BY StoreSame
<1>2. [Store!Next]_(Store!vars) => [StoreP!Next]_(StoreP!vars)
  BY StoreSame DEF Store!vars, StoreP!vars
<1> QED
  BY <1>1, <1>2, PTL DEF Store!Spec, StoreP!Spec

LEMMA StoreTheorems == Spec => [](Store!TypeOK /\ Store!Conservation)
<1>1. StoreP!Spec => []StoreP!TypeOK
  BY PartAssumptions, StoreP!TypeCorrect
<1>2. StoreP!Spec => []StoreP!Conservation
  BY PartAssumptions, StoreP!ConservationCorrect
<1>3. StoreP!TypeOK => Store!TypeOK
  BY StoreSame
<1>4. StoreP!Conservation => Store!Conservation
  BY DEF StoreP!Conservation, Store!Conservation, StoreP!Pending, Store!Pending, StoreP!Range, Store!Range
<1> QED
  BY <1>1, <1>2, <1>3, <1>4, StoreSpecs, UsesStore, PTL

\* The whole program keeps the promise of its store, whatever its consumer, main's
\* flush and main's Close do to it and whenever main is told to stop: what the
\* database holds is a chat log (ChatLog), a message once and for good.
THEOREM ProgramKeepsChatLog == Spec => StoreP!StoreIsChatLog
<1>1. StoreP!Spec => StoreP!StoreIsChatLog
  BY PartAssumptions, StoreP!StoreImplementsChatLog
<1> QED
  BY <1>1, StoreSpecs, UsesStore

LEMMA IndexerSpecs == Indexer!Spec => IndexerP!Spec
<1>1. Indexer!Init => IndexerP!Init
  BY IndexerSame
<1>2. [Indexer!Next]_(Indexer!vars) => [IndexerP!Next]_(IndexerP!vars)
  BY IndexerSame DEF Indexer!vars, IndexerP!vars
<1> QED
  BY <1>1, <1>2, PTL DEF Indexer!Spec, IndexerP!Spec

LEMMA IndexerTheorems ==
  Spec => [](Indexer!TypeOK /\ IndexerP!TypeInv /\ IndexerP!CloseOrder /\ IndexerP!ReturnedMeansCounted)
<1>1. IndexerP!Spec => []IndexerP!TypeInv
  BY PartAssumptions, IndexerP!TypesHold
<1>2. IndexerP!Spec => []IndexerP!CloseOrder
  BY PartAssumptions, IndexerP!CloseOrderHolds
<1>3. IndexerP!Spec => []IndexerP!ReturnedMeansCounted
  BY PartAssumptions, IndexerP!CloseCounts
<1>4. IndexerP!TypeInv => Indexer!TypeOK
  BY IndexerSame DEF IndexerP!TypeInv
<1> QED
  BY <1>1, <1>2, <1>3, <1>4, IndexerSpecs, UsesIndexer, PTL

\* The whole program keeps the promise of its indexer, with two consumers, the
\* worker and main's deferred Close at it in any order: each document is refused,
\* waiting, in the one request it is ever part of, or counted (DocumentLog).
THEOREM ProgramKeepsDocumentLog == Spec => IndexerP!IndexerIsDocumentLog
<1>1. IndexerP!Spec => IndexerP!IndexerIsDocumentLog
  BY PartAssumptions, IndexerP!ImplementsDocumentLog
<1> QED
  BY <1>1, IndexerSpecs, UsesIndexer
-----------------------------------------------------------------------------
(* Types: what main, the bus and the consumers are. *)

Places == {"ping", "bus", "irc", "quit", "run", "exit", "exited"} \cup {"chat", "clips"} \cup Consumers \cup DOMAIN After

BusInv ==
  /\ online \in BOOLEAN /\ subs \subseteq Consumers /\ bus \in BOOLEAN /\ unflushed \in BOOLEAN
  /\ at \in [Consumers -> {"idle", "begin", "end"}]

\* No consumer is ahead of its stream, and the store has been called with every
\* message its consumer took.
StreamInv ==
  /\ published \in [Streams -> 0..MaxMsgs]
  /\ taken \in [Consumers -> Nat]
  /\ \A c \in Consumers : taken[c] <= published[StreamOf(c)]
  /\ taken["sqlite"] = IF at["sqlite"] = "begin" THEN accepted + 1 ELSE accepted

TypeInv == main \in Places /\ BusInv /\ StreamInv

LEMMA InitTypes == Init => TypeInv
<1> SUFFICES ASSUME Init PROVE TypeInv
  OBVIOUS
<1>1. main \in Places
  BY DEF Init, Places
<1>2. BusInv
  BY DEF Init, BusInv, Consumers
<1>3. StreamInv
  <2>1. accepted = 0 /\ MaxMsgs \in Nat
    BY ChatCliAssumption DEF Init, Store!Init
  <2>2. \A c \in Consumers : StreamOf(c) \in Streams
    BY DEF StreamOf, Streams
  <2> QED
    BY <2>1, <2>2 DEF Init, StreamInv, Consumers
<1> QED
  BY <1>1, <1>2, <1>3 DEF TypeInv

LEMMA PlacesStep ==
  ASSUME main \in Places, [Next]_vars
  PROVE  main' \in Places
<1> USE DEF Places, Consumers
<1>1. CASE Boot
  BY <1>1 DEF Boot, Ping, InitIndex, StartBus, Subscribe, Connect
<1>2. CASE \/ \E s \in Streams : Publish(s)
           \/ Sqlite \/ Elastic \/ Predict \/ Work \/ UNCHANGED vars
  BY <1>2 DEF Publish, Sqlite, Elastic, Predict, Take, Persist, Index, Send, Return, Work, vars
<1>3. CASE Stop \/ WayOut
  BY <1>3 DEF After, Stop, WayOut, CloseClient, Flush, StopConsumers, CloseBus, CloseIndexer, CloseStore, Exit
<1> QED
  BY <1>1, <1>2, <1>3 DEF Next

LEMMA BusStep ==
  ASSUME BusInv, [Next]_vars
  PROVE  BusInv'
<1> USE DEF BusInv
<1>1. CASE Boot
  BY <1>1 DEF Boot, Ping, InitIndex, StartBus, Subscribe, Connect, Consumers, wiring, messages
<1>2. CASE \E s \in Streams : Publish(s)
  BY <1>2 DEF Publish, wiring
<1>3. CASE Sqlite \/ Elastic \/ Predict
  BY <1>3 DEF Sqlite, Elastic, Predict, Take, Persist, Index, Send, Return, wiring, messages
<1>4. CASE Work \/ Stop \/ WayOut
  BY <1>4 DEF Work, Stop, WayOut, CloseClient, Flush, StopConsumers, CloseBus, CloseIndexer, CloseStore,
              Exit, wiring, messages
<1>5. CASE UNCHANGED vars
  BY <1>5 DEF vars, wiring, messages
<1> QED
  BY <1>1, <1>2, <1>3, <1>4, <1>5 DEF Next

LEMMA StreamStep ==
  ASSUME TypeInv, Store!TypeOK, [Next]_vars
  PROVE  StreamInv'
<1>0. /\ published \in [Streams -> 0..MaxMsgs] /\ taken \in [Consumers -> Nat]
      /\ \A c \in Consumers : taken[c] <= published[StreamOf(c)]
      /\ taken["sqlite"] = IF at["sqlite"] = "begin" THEN accepted + 1 ELSE accepted
      /\ at \in [Consumers -> {"idle", "begin", "end"}] /\ subs \subseteq Consumers
      /\ accepted \in Nat /\ MaxMsgs \in Nat /\ MaxWindows \in Nat /\ MaxWindows <= MaxMsgs
  BY ChatCliAssumption DEF TypeInv, BusInv, StreamInv, Store!TypeOK
<1>0a. \A c \in Consumers : StreamOf(c) \in Streams
  BY DEF StreamOf, Streams
<1>0b. "sqlite" \in Consumers
  BY DEF Consumers
<1>1. ASSUME UNCHANGED <<published, taken, accepted>>,
             UNCHANGED at \/ \E c \in {"elastic", "predict"}, p \in {"idle", "end"} : at' = [at EXCEPT ![c] = p]
      PROVE  StreamInv'
  <2>1. at'["sqlite"] = at["sqlite"]
    BY <1>0, <1>0b, <1>1
  <2> QED
    BY <1>0, <1>1, <2>1 DEF StreamInv
<1>2. ASSUME NEW s \in Streams, Publish(s) PROVE StreamInv'
  <2>1. /\ published' = [published EXCEPT ![s] = @ + 1] /\ published[s] < MaxMsgs
        /\ UNCHANGED <<taken, at, accepted>>
    BY <1>0, <1>2 DEF Publish, store
  <2>2. published' \in [Streams -> 0..MaxMsgs]
    BY <1>0, <2>1
  <2>3. \A r \in Streams : published[r] <= published'[r]
    BY <1>0, <2>1
  <2>4. \A c \in Consumers : taken[c] <= published'[StreamOf(c)]
    <3> TAKE c \in Consumers
    <3>1. taken[c] <= published[StreamOf(c)] /\ published[StreamOf(c)] <= published'[StreamOf(c)]
      BY <1>0, <1>0a, <2>3
    <3>2. taken[c] \in Nat /\ published[StreamOf(c)] \in 0..MaxMsgs /\ published'[StreamOf(c)] \in 0..MaxMsgs
      BY <1>0, <1>0a, <2>2
    <3> HIDE <1>0, <1>0a, <2>1, <2>2, <2>3
    <3> QED
      BY <3>1, <3>2
  <2> QED
    BY <1>0, <2>1, <2>2, <2>4 DEF StreamInv
<1>3. ASSUME NEW c \in Consumers, Take(c) PROVE StreamInv'
  <2>1. /\ taken' = [taken EXCEPT ![c] = @ + 1] /\ taken[c] < published[StreamOf(c)]
        /\ at' = [at EXCEPT ![c] = "begin"] /\ at[c] = "idle"
        /\ UNCHANGED <<published, accepted>>
    BY <1>3 DEF Take, TakenAfter, store
  <2>2. taken' \in [Consumers -> Nat]
    BY <1>0, <2>1
  <2>3. \A d \in Consumers : taken'[d] <= published[StreamOf(d)]
    <3> TAKE d \in Consumers
    <3>1. taken[d] \in Nat /\ published[StreamOf(d)] \in Nat
      BY <1>0, <1>0a
    <3>2. CASE d = c
      BY <1>0, <2>1, <3>1, <3>2
    <3>3. CASE d # c
      BY <1>0, <2>1, <3>3
    <3> QED
      BY <3>2, <3>3
  <2>4. taken'["sqlite"] = IF at'["sqlite"] = "begin" THEN accepted + 1 ELSE accepted
    <3>1. CASE c = "sqlite"
      BY <1>0, <2>1, <3>1
    <3>2. CASE c # "sqlite"
      BY <1>0, <1>0b, <2>1, <3>2
    <3> QED
      BY <3>1, <3>2
  <2> QED
    BY <1>0, <2>1, <2>2, <2>3, <2>4 DEF StreamInv
<1>4. CASE Persist
  <2>1. /\ at["sqlite"] = "begin" /\ at' = [at EXCEPT !["sqlite"] = "idle"]
        /\ accepted' = accepted + 1 /\ UNCHANGED <<published, taken>>
    BY <1>4 DEF Persist, Store!EnqueueNew
  <2> QED
    BY <1>0, <1>0b, <2>1 DEF StreamInv
<1>5. CASE Index("elastic", "chat") \/ Index("predict", "clip")
  BY <1>1, <1>5 DEF Index, store
<1>6. CASE Send("chat") \/ Send("clip")
  BY <1>1, <1>6 DEF Send, store, messages
<1>7. CASE Return("elastic", "chat") \/ Return("predict", "clip")
  BY <1>1, <1>7 DEF Return, store
<1>8. CASE Boot
  BY <1>1, <1>8 DEF Boot, Ping, InitIndex, StartBus, Subscribe, Connect, store, messages
<1>9. CASE Work \/ Stop \/ CloseClient \/ StopConsumers \/ CloseBus \/ CloseIndexer \/ UNCHANGED vars
  BY <1>1, <1>9 DEF Work, Stop, CloseClient, StopConsumers, CloseBus, CloseIndexer, vars, store, messages
<1>10. CASE Flush \/ CloseStore \/ Exit
  BY <1>1, <1>10 DEF Flush, CloseStore, Exit, Store!FlushAll, Store!Close, Store!End, messages
<1> QED
  BY <1>2, <1>3, <1>4, <1>5, <1>6, <1>7, <1>8, <1>9, <1>10
     DEF Next, Sqlite, Elastic, Predict, WayOut, Consumers

LEMMA TypesHold == Spec => []TypeInv
<1>1. TypeInv /\ Store!TypeOK /\ [Next]_vars => TypeInv'
  BY PlacesStep, BusStep, StreamStep DEF TypeInv
<1> QED
  BY <1>1, InitTypes, StoreTheorems, PTL DEF Spec

\* The parts keep their types, no consumer is ahead of its stream, and the store
\* has been called once for every message its consumer took.
THEOREM TypeCorrect == Spec => []TypeOK
<1>1. TypeInv /\ Store!TypeOK /\ Indexer!TypeOK => TypeOK
  <2> SUFFICES ASSUME TypeInv, Store!TypeOK, Indexer!TypeOK PROVE TypeOK
    OBVIOUS
  <2>1. \A c \in Consumers : taken[c] \in 0..published[StreamOf(c)]
    <3> TAKE c \in Consumers
    <3>1. StreamOf(c) \in Streams
      BY DEF StreamOf, Streams
    <3>2. taken[c] \in Nat /\ published[StreamOf(c)] \in 0..MaxMsgs /\ taken[c] <= published[StreamOf(c)]
      BY <3>1 DEF TypeInv, StreamInv
    <3> QED
      BY <3>2
  <2> QED
    BY <2>1 DEF TypeOK, TypeInv, Places, BusInv, StreamInv
<1> QED
  BY <1>1, TypesHold, StoreTheorems, IndexerTheorems, PTL
-----------------------------------------------------------------------------
(* Stopping: the store. *)

\* Main has stopped the consumers, and is still there.
Stopped == {"drain", "indexer", "store", "exit"}

\* No handler is called any more once main has stopped the consumers.
QuietInv == main \in Stopped => subs = {}

LEMMA QuietStep ==
  ASSUME QuietInv, [Next]_vars
  PROVE  QuietInv'
<1> USE DEF QuietInv, Stopped
<1>1. CASE Boot
  BY <1>1 DEF Boot, Ping, InitIndex, StartBus, Subscribe, Connect
<1>2. CASE \/ \E s \in Streams : Publish(s)
           \/ Sqlite \/ Elastic \/ Predict \/ Work \/ UNCHANGED vars
  BY <1>2 DEF Publish, Sqlite, Elastic, Predict, Take, Persist, Index, Send, Return, Work, vars, wiring
<1>3. CASE Stop \/ CloseClient \/ Flush
  BY <1>3 DEF After, Stop, CloseClient, Flush
<1>4. CASE StopConsumers
  BY <1>4 DEF StopConsumers
<1>5. CASE CloseBus \/ CloseIndexer \/ CloseStore \/ Exit
  <2>1. UNCHANGED subs /\ main \in {"drain", "indexer", "store", "exit", "quit"}
    BY <1>5 DEF CloseBus, CloseIndexer, CloseStore, Exit, wiring
  <2>2. main = "quit" => main' = "exited"
    BY <1>5 DEF CloseBus, CloseIndexer, CloseStore, Exit
  <2> QED
    BY <2>1, <2>2
<1> QED
  BY <1>1, <1>2, <1>3, <1>4, <1>5 DEF Next, WayOut

\* The store has nothing in memory before the program is up nor when it is gone
\* and, the last flush having gone through, nothing at the exit but the message of a
\* handler that was still running then.
LastOnly == buf = <<>> \/ (at["sqlite"] = "idle" /\ Store!Range(buf) \subseteq {accepted})

StopInv ==
  /\ ~Started => buf = <<>>
  /\ main # "exited" => lost = {}
  /\ main = "exit" => phase = "closed" /\ (unflushed \/ LastOnly)
  /\ StopLosesOne

LEMMA EmptyRange == Store!Range(<<>>) = {}
BY DEF Store!Range

LEMMA RangeOfOne == \A m : Store!Range(<<m>>) = {m}
BY DEF Store!Range

\* A message that comes after Close stays in memory: the closed database fails.
LEMMA ClosedKeeps ==
  ASSUME phase = "closed", Store!EnqueueNew, buf = <<>>
  PROVE  buf' = <<accepted'>>
<1>1. /\ accepted' = accepted + 1
      /\ Store!Flush(<<accepted + 1>>) \/ buf' = <<accepted + 1>>
  BY DEF Store!EnqueueNew, Store!Enqueue
<1>2. Store!Flush(<<accepted + 1>>) => buf' = <<accepted + 1>>
  BY DEF Store!Flush, Store!BufAfterFailure
<1> QED
  BY <1>1, <1>2

LEMMA StopStep ==
  ASSUME TypeInv, QuietInv, StopInv, [Next]_vars
  PROVE  StopInv'
<1>0. at \in [Consumers -> {"idle", "begin", "end"}] /\ "sqlite" \in Consumers
  BY DEF TypeInv, BusInv, Consumers
<1>1. ASSUME UNCHANGED <<buf, lost, phase, accepted, unflushed>>,
             at'["sqlite"] = at["sqlite"] \/ main # "exit",
             \/ main' = main
             \/ main' \notin {"exit", "exited"} /\ (main # "exited") /\ (Started => Started')
      PROVE  StopInv'
  BY <1>1 DEF StopInv, StopLosesOne, Started, LastOnly
<1>2. CASE Boot
  <2>1. /\ UNCHANGED <<buf, lost, phase, accepted, unflushed>>
        /\ main' \notin {"exit", "exited"} /\ main \notin {"exit", "exited"} /\ ~Started
    BY <1>2 DEF Boot, Ping, InitIndex, StartBus, Subscribe, Connect, store, Started
  <2> QED
    BY <1>1, <2>1
<1>3. ASSUME NEW s \in Streams, Publish(s) PROVE StopInv'
  BY <1>1, <1>3 DEF Publish, store
<1>4. ASSUME NEW c, Take(c) PROVE StopInv'
  <2>1. main # "exit" /\ main' = main /\ UNCHANGED <<buf, lost, phase, accepted, unflushed>>
    BY <1>4 DEF Take, store, QuietInv, Stopped
  <2> QED
    BY <1>1, <2>1
<1>5. CASE Persist
  <2>1. /\ Started /\ main' = main /\ main # "exited" /\ at["sqlite"] = "begin"
        /\ at' = [at EXCEPT !["sqlite"] = "idle"]
        /\ Store!EnqueueNew /\ UNCHANGED <<lost, phase, unflushed>>
    BY <1>5 DEF Persist, Started, Store!EnqueueNew
  <2>2. ASSUME main = "exit", ~unflushed PROVE LastOnly'
    <3>1. buf = <<>> /\ phase = "closed"
      BY <2>1, <2>2 DEF StopInv, LastOnly
    <3>2. buf' = <<accepted'>>
      BY <2>1, <3>1, ClosedKeeps
    <3>3. Store!Range(<<accepted'>>) = {accepted'}
      BY RangeOfOne
    <3>4. at'["sqlite"] = "idle"
      BY <1>0, <2>1
    <3>5. Store!Range(buf)' = Store!Range(buf')
      BY DEF Store!Range
    <3> QED
      BY <3>2, <3>3, <3>4, <3>5 DEF LastOnly
  <2> QED
    BY <2>1, <2>2 DEF StopInv, StopLosesOne, Started
<1>6. ASSUME NEW k, NEW c \in {"elastic", "predict"}, Index(c, k) \/ Send(k) \/ Return(c, k)
      PROVE  StopInv'
  <2>1. at'["sqlite"] = at["sqlite"]
    BY <1>0, <1>6 DEF Index, Send, Return, messages
  <2>2. main' = main /\ UNCHANGED <<buf, lost, phase, accepted, unflushed>>
    BY <1>6 DEF Index, Send, Return, store
  <2> QED
    BY <1>1, <2>1, <2>2
<1>7. CASE Work \/ UNCHANGED vars
  BY <1>1, <1>7 DEF Work, vars, store, messages
<1>8. CASE Stop \/ CloseClient \/ StopConsumers \/ CloseBus \/ CloseIndexer
  <2>1. /\ UNCHANGED <<buf, lost, phase, accepted, unflushed, at>>
        /\ main \in {"run", "client", "consumers", "drain", "indexer"}
        /\ main' \in {"client", "flush", "drain", "indexer", "store"}
    BY <1>8 DEF Stop, CloseClient, StopConsumers, CloseBus, CloseIndexer, store, messages, After
  <2>2. Started' /\ main # "exited" /\ main' \notin {"exit", "exited"}
    BY <2>1 DEF Started
  <2> QED
    BY <1>1, <2>1, <2>2
<1>9. CASE Flush
  <2>1. main = "flush" /\ main' = "consumers" /\ lost' = lost
    BY <1>9 DEF Flush, After, Store!FlushAll
  <2> QED
    BY <2>1 DEF StopInv, StopLosesOne, Started
<1>10. CASE CloseStore
  <2>1. /\ main = "store" /\ main' = "exit" /\ lost' = lost /\ phase' = "closed"
        /\ unflushed' = (buf' # <<>>)
    BY <1>10 DEF CloseStore, After, Store!Close
  <2> QED
    BY <2>1 DEF StopInv, StopLosesOne, Started, LastOnly
<1>11. CASE Exit
  <2>1. /\ main \in {"exit", "quit"} /\ main' = "exited" /\ UNCHANGED <<accepted, unflushed>>
        /\ lost' = lost \cup (Store!Range(buf) \ rows) /\ buf' = <<>>
    BY <1>11 DEF Exit, Store!End, Store!Pending
  <2>2. lost = {}
    BY <2>1 DEF StopInv
  <2>3. ~unflushed => Store!Range(buf) \subseteq {accepted}
    <3>1. CASE main = "exit"
      BY <3>1, EmptyRange DEF StopInv, LastOnly
    <3>2. CASE main = "quit"
      BY <3>2, EmptyRange DEF StopInv, Started
    <3> QED
      BY <2>1, <3>1, <3>2
  <2> QED
    BY <2>1, <2>2, <2>3 DEF StopInv, StopLosesOne, Started
<1> QED
  BY <1>2, <1>3, <1>4, <1>5, <1>6, <1>7, <1>8, <1>9, <1>10, <1>11
     DEF Next, Sqlite, Elastic, Predict, WayOut

LEMMA StopHolds == Spec => [](QuietInv /\ StopInv)
<1>1. Init => QuietInv /\ StopInv
  BY DEF Init, Store!Init, QuietInv, Stopped, StopInv, StopLosesOne, Started
<1>2. TypeInv /\ QuietInv /\ StopInv /\ [Next]_vars => (QuietInv /\ StopInv)'
  BY QuietStep, StopStep
<1> QED
  BY <1>1, <1>2, TypesHold, PTL DEF Spec

\* However main, the consumers and SQLite are interleaved on the way out, the last
\* flush having gone through, no message but the last accepted is lost.
THEOREM StopLosesOneCorrect == Spec => []StopLosesOne
<1>1. StopInv => StopLosesOne
  BY DEF StopInv
<1> QED
  BY <1>1, StopHolds, PTL

\* With what the store keeps to itself: every message accepted but the last is in
\* the database when the program has stopped.
StoppedIsStored == main = "exited" /\ ~unflushed => (1..accepted) \ {accepted} \subseteq rows

THEOREM StopStores == Spec => []StoppedIsStored
<1>1. StopInv /\ Store!Conservation => StoppedIsStored
  <2> SUFFICES ASSUME StopInv, Store!Conservation, main = "exited", ~unflushed
               PROVE  (1..accepted) \ {accepted} \subseteq rows
    BY DEF StoppedIsStored
  <2>1. Store!Pending = {}
    BY EmptyRange DEF StopInv, Started, Store!Pending
  <2>2. lost \subseteq {accepted}
    BY DEF StopInv, StopLosesOne
  <2> QED
    BY <2>1, <2>2 DEF Store!Conservation
<1> QED
  BY <1>1, StopHolds, StoreTheorems, PTL
-----------------------------------------------------------------------------
(* Stopping: the indexer. *)

ConsumerOf == [chat |-> "elastic", clip |-> "predict"]

\* Only main closes the indexer, after it has stopped the consumers, and goes on
\* when Close has returned; a document is in the hands of the handler it was given
\* to; and none is offered before the program is up.
ClosingInv ==
  /\ closed => main \in {"indexer", "store", "exit", "exited"}
  /\ main \in {"store", "exit"} => closer = "returned"
  /\ \A k \in {"chat", "clip"} : caller[k] = "send" => at[ConsumerOf[k]] = "end"
  /\ ~Started /\ main # "exited" => offered["chat"] = 0 /\ offered["clip"] = 0

\* The handlers of the two consumers keep to it.
LEMMA HandlerStep ==
  ASSUME NEW c \in {"elastic", "predict"}, NEW k \in {"chat", "clip"}, c = ConsumerOf[k],
         TypeInv, IndexerP!TypeInv, ClosingInv, Take(c) \/ Index(c, k) \/ Send(k) \/ Return(c, k)
  PROVE  ClosingInv'
<1>0. /\ at \in [Consumers -> {"idle", "begin", "end"}] /\ "elastic" \in Consumers /\ "predict" \in Consumers
      /\ caller \in [{"chat", "clip"} -> {"idle", "send"}]
      /\ ConsumerOf["chat"] = "elastic" /\ ConsumerOf["clip"] = "predict"
  BY DEF TypeInv, BusInv, Consumers, IndexerP!TypeInv, IndexerP!TypeOK, IndexerP!Kinds, ConsumerOf
<1>1. UNCHANGED <<main, closed, closer>>
  BY DEF Take, Index, Send, Return, indexer, Indexer!Offer, Indexer!Send, Indexer!closeVars
<1>2. ~Started /\ main # "exited" => UNCHANGED offered
  BY DEF Take, Index, Send, Return, indexer, Indexer!Send
<1>3. \A j \in {"chat", "clip"} : caller'[j] = "send" => at'[ConsumerOf[j]] = "end"
  <2>1. CASE Take(c)
    BY <1>0, <2>1 DEF Take, indexer, ClosingInv
  <2>2. CASE Index(c, k)
    <3>1. at' = [at EXCEPT ![c] = "end"] /\ (caller' = caller \/ caller' = [caller EXCEPT ![k] = "send"])
      BY <2>2 DEF Index, Indexer!Offer
    <3> QED
      BY <1>0, <3>1 DEF ClosingInv
  <2>3. CASE Send(k)
    <3>1. at' = at /\ caller' = [caller EXCEPT ![k] = "idle"]
      BY <2>3 DEF Send, Indexer!Send, messages
    <3> QED
      BY <1>0, <3>1 DEF ClosingInv
  <2>4. CASE Return(c, k)
    <3>1. at' = [at EXCEPT ![c] = "idle"] /\ caller' = caller /\ (at[c] = "begin" \/ caller[k] = "idle")
      BY <2>4 DEF Return, indexer
    <3> QED
      BY <1>0, <3>1 DEF ClosingInv
  <2> QED
    BY <2>1, <2>2, <2>3, <2>4
<1> QED
  BY <1>1, <1>2, <1>3 DEF ClosingInv, Started

LEMMA ClosingStep ==
  ASSUME TypeInv, IndexerP!TypeInv, IndexerP!CloseOrder, ClosingInv, [Next]_vars
  PROVE  ClosingInv'
<1>0. at \in [Consumers -> {"idle", "begin", "end"}] /\ {"elastic", "predict", "sqlite"} \subseteq Consumers
  BY DEF TypeInv, BusInv, Consumers
<1>1. ASSUME UNCHANGED <<caller, offered>>,
             at'["elastic"] = at["elastic"] /\ at'["predict"] = at["predict"],
             UNCHANGED <<closed, closer>>,
             \/ main' = main
             \/ main' \notin {"store", "exit"} /\ ~closed /\ (Started => Started') /\ main # "exited"
      PROVE  ClosingInv'
  BY <1>1 DEF ClosingInv, Started, ConsumerOf
<1>2. CASE Boot
  <2>1. /\ UNCHANGED <<caller, offered, at, closed, closer>>
        /\ main' \notin {"store", "exit"} /\ main \notin {"indexer", "store", "exit", "exited"} /\ ~Started
    BY <1>2 DEF Boot, Ping, InitIndex, StartBus, Subscribe, Connect, indexer, messages, Started
  <2> QED
    BY <1>1, <2>1 DEF ClosingInv
<1>3. ASSUME NEW s \in Streams, Publish(s) PROVE ClosingInv'
  BY <1>1, <1>3 DEF Publish, indexer
<1>4. CASE Sqlite
  <2>1. /\ UNCHANGED <<caller, offered, closed, closer, main>>
        /\ at' = [at EXCEPT !["sqlite"] = "begin"] \/ at' = [at EXCEPT !["sqlite"] = "idle"]
    BY <1>4 DEF Sqlite, Take, Persist, indexer
  <2> QED
    BY <1>0, <1>1, <2>1
<1>5. CASE Elastic
  BY <1>5, HandlerStep DEF Elastic, ConsumerOf
<1>6. CASE Predict
  BY <1>6, HandlerStep DEF Predict, ConsumerOf
<1>7. CASE Work
  <2>1. UNCHANGED <<caller, offered, closed, closer, main, at>>
    BY <1>7 DEF Work, messages, Indexer!Worker, Indexer!Receive, Indexer!FlushTick, Indexer!SeeStop,
                Indexer!DrainEnd, Indexer!FlushBatch, Indexer!callerVars, Indexer!closeVars
  <2> QED
    BY <1>1, <2>1
<1>8. CASE Stop \/ CloseClient \/ Flush \/ StopConsumers \/ CloseBus
  <2>1. /\ UNCHANGED <<caller, offered, closed, closer, at>>
        /\ main \in {"run", "client", "flush", "consumers", "drain"}
        /\ main' \in {"client", "flush", "consumers", "drain", "indexer"}
    BY <1>8 DEF Stop, CloseClient, Flush, StopConsumers, CloseBus, After, indexer, messages
  <2>2. Started' /\ ~closed
    BY <2>1 DEF Started, ClosingInv
  <2> QED
    BY <1>1, <2>1, <2>2
<1>9. CASE CloseIndexer
  <2>1. UNCHANGED <<caller, offered, at>> /\ main = "indexer"
    BY <1>9 DEF CloseIndexer, messages, Indexer!SwapClosed, Indexer!CloseStopCh, Indexer!WaitWorker,
                Indexer!callerVars
  <2>2. main' = "indexer" \/ (main' = "store" /\ closer' = "returned")
    BY <1>9 DEF CloseIndexer, Indexer!WaitWorker, After
  <2> QED
    BY <2>1, <2>2 DEF ClosingInv, Started, ConsumerOf
<1>10. CASE CloseStore \/ Exit
  <2>1. /\ UNCHANGED <<caller, offered, closed, closer, at>>
        /\ (main = "store" /\ main' = "exit") \/ main' = "exited"
    BY <1>10 DEF CloseStore, Exit, After, indexer, messages
  <2> QED
    BY <2>1 DEF ClosingInv, Started, ConsumerOf
<1>11. CASE UNCHANGED vars
  BY <1>1, <1>11 DEF vars, indexer, messages
<1> QED
  BY <1>2, <1>3, <1>4, <1>5, <1>6, <1>7, <1>8, <1>9, <1>10, <1>11
     DEF Next, WayOut

LEMMA ClosingHolds == Spec => []ClosingInv
<1>1. Init => ClosingInv
  BY DEF Init, Indexer!Init, Indexer!Kinds, ClosingInv, ConsumerOf
<1>2. TypeInv /\ IndexerP!TypeInv /\ IndexerP!CloseOrder /\ ClosingInv /\ [Next]_vars => ClosingInv'
  BY ClosingStep
<1> QED
  BY <1>1, <1>2, TypesHold, IndexerTheorems, PTL DEF Spec

\* One for a handler that has still to offer its document or to send it.
Waiting(k) == IF at[ConsumerOf[k]] = "begin" \/ caller[k] = "send" THEN 1 ELSE 0
Busy == Waiting("chat") + Waiting("clip")

LEMMA WaitingIs ==
  /\ \A k : Waiting(k) \in {0, 1}
  /\ Busy \in 0..2
  /\ IndexerP!Sending <= Busy /\ IndexerP!Sending \in Nat
<1>1. \A k : Waiting(k) \in {0, 1} /\ IndexerP!InHand(k) <= Waiting(k) /\ IndexerP!InHand(k) \in {0, 1}
  BY DEF Waiting, IndexerP!InHand
<1>2. IndexerP!Sending = IndexerP!InHand("chat") + IndexerP!InHand("clip")
  BY IndexerP!SendingIs, PartAssumptions
<1> QED
  BY <1>1, <1>2 DEF Busy

\* What a step may do, once Close has begun, to the documents refused, in hand and
\* in the channel: none of them comes to be.
Fewer ==
  /\ refused' + Busy' <= refused + Busy
  /\ refused' + Busy' + Len(queue') <= refused + Busy + Len(queue)

LEMMA HandlerBusy ==
  ASSUME NEW c \in {"elastic", "predict"}, NEW k \in {"chat", "clip"}, c = ConsumerOf[k],
         TypeInv, IndexerP!TypeInv, QuietInv, ClosingInv, closed, main # "exited",
         Take(c) \/ Index(c, k) \/ Send(k) \/ Return(c, k)
  PROVE  Fewer
<1>0. /\ at \in [Consumers -> {"idle", "begin", "end"}] /\ "elastic" \in Consumers /\ "predict" \in Consumers
      /\ caller \in [{"chat", "clip"} -> {"idle", "send"}]
      /\ ConsumerOf["chat"] = "elastic" /\ ConsumerOf["clip"] = "predict"
      /\ caller[k] = "send" => at[c] = "end"
  BY DEF TypeInv, BusInv, Consumers, IndexerP!TypeInv, IndexerP!TypeOK, IndexerP!Kinds, ConsumerOf, ClosingInv
<1> DEFINE r == refused       r1 == refused'
           b == Busy          b1 == Busy'
           q == Len(queue)    q1 == Len(queue')
<1>1. r \in Nat /\ q \in Nat /\ b \in Nat /\ (\A d : Len(Append(queue, d)) = q + 1)
  BY WaitingIs DEF IndexerP!TypeInv, IndexerP!TypeOK
<1>1a. ASSUME \/ r1 = r + 1 /\ b1 + 1 = b /\ q1 = q
              \/ r1 = r /\ b1 + 1 = b /\ (q1 = q \/ q1 = q + 1)
              \/ r1 = r /\ b1 <= b /\ q1 = q,
              b1 \in Nat
       PROVE  Fewer
  <2>1. r1 + b1 <= r + b /\ r1 + b1 + q1 <= r + b + q
    <3> HIDE DEF r, r1, b, b1, q, q1
    <3> QED
      BY <1>1, <1>1a
  <2> QED
    BY <2>1 DEF Fewer
<1>2. ~Take(c)
  BY DEF Take, QuietInv, Stopped, ClosingInv
<1>2a. Busy' \in Nat
  <2>1. (Busy \in 0..2)'
    BY WaitingIs, PTL
  <2> QED
    BY <2>1
<1>3. \A j \in {"chat", "clip"} : j # k =>
        Waiting(j)' = Waiting(j)
  <2>1. \A j \in {"chat", "clip"} : j # k => ConsumerOf[j] # c /\ ConsumerOf[j] \in Consumers
    BY <1>0
  <2>2. \/ at' = at
        \/ at' = [at EXCEPT ![c] = "end"]
        \/ at' = [at EXCEPT ![c] = "idle"]
    BY <1>2 DEF Index, Send, Return, messages
  <2>3. \/ caller' = caller
        \/ caller' = [caller EXCEPT ![k] = "idle"]
    BY <1>2 DEF Index, Send, Return, Indexer!Offer, Indexer!Send, indexer
  <2> QED
    BY <1>0, <2>1, <2>2, <2>3 DEF Waiting
<1>4. CASE Index(c, k)
  <2>1. /\ at[c] = "begin" /\ at' = [at EXCEPT ![c] = "end"] /\ caller[k] = "idle" /\ caller' = caller
        /\ refused' = refused + 1 /\ queue' = queue
    BY <1>4 DEF Index, Indexer!Offer
  <2>2. Waiting(k) = 1 /\ Waiting(k)' = 0
    BY <1>0, <2>1 DEF Waiting
  <2>3. Busy' + 1 = Busy
    BY <1>0, <1>3, <2>2, WaitingIs DEF Busy
  <2> QED
    BY <1>1a, <1>2a, <2>1, <2>3
<1>5. CASE Send(k)
  <2>1. /\ at' = at /\ caller[k] = "send" /\ caller' = [caller EXCEPT ![k] = "idle"]
        /\ refused' = refused /\ (queue' = queue \/ \E d : queue' = Append(queue, d))
    BY <1>5 DEF Send, Indexer!Send, messages
  <2>2. Waiting(k) = 1 /\ Waiting(k)' = 0
    BY <1>0, <2>1 DEF Waiting
  <2>3. Busy' + 1 = Busy
    BY <1>0, <1>3, <2>2, WaitingIs DEF Busy
  <2>4. Len(queue') = Len(queue) \/ Len(queue') = Len(queue) + 1
    BY <1>1, <2>1
  <2> QED
    BY <1>1a, <1>2a, <2>1, <2>3, <2>4
<1>6. CASE Return(c, k)
  <2>1. /\ at' = [at EXCEPT ![c] = "idle"] /\ UNCHANGED <<caller, refused, queue>>
        /\ at[c] = "begin" \/ caller[k] = "idle"
    BY <1>6 DEF Return, indexer
  <2>2. Waiting(k)' = 0
    BY <1>0, <2>1 DEF Waiting
  <2>3. b1 <= b
    BY <1>0, <1>3, <2>2, WaitingIs DEF Busy
  <2>4. r1 = r /\ q1 = q
    BY <2>1
  <2>5. b1 \in Nat
    BY <1>2a
  <2> HIDE DEF r, r1, b, b1, q, q1
  <2> QED
    BY <1>1a, <2>3, <2>4, <2>5
<1> QED
  BY <1>2, <1>4, <1>5, <1>6

\* Since Close: no more is refused or in hand than the two handlers had, and when
\* the worker has seen the channel empty what they send stays within that too.
HandInv ==
  main # "exited" =>
    /\ refused + Busy <= 2
    /\ worker \in {"lastPost", "done"} => refused + Busy + Len(queue) <= 2

\* What is in hand does not change with the rest of the program.
LEMMA BusySame ==
  ASSUME UNCHANGED <<refused, caller>>, at'["elastic"] = at["elastic"], at'["predict"] = at["predict"]
  PROVE  refused' = refused /\ Busy' = Busy
BY DEF Busy, Waiting, ConsumerOf

LEMMA WorkBusy ==
  ASSUME IndexerP!TypeInv, HandInv, main # "exited", Work
  PROVE  HandInv'
<1>1. UNCHANGED <<refused, caller, at, main>>
  BY DEF Work, messages, Indexer!Worker, Indexer!Receive, Indexer!FlushTick, Indexer!SeeStop,
         Indexer!DrainEnd, Indexer!FlushBatch, Indexer!callerVars
<1>2. refused' = refused /\ Busy' = Busy /\ refused + Busy <= 2
  BY <1>1, BusySame DEF HandInv
<1>3. \/ worker' \notin {"lastPost", "done"}
      \/ queue' = queue /\ (queue = <<>> \/ worker \in {"lastPost", "done"})
  BY DEF Work, Indexer!Worker, Indexer!Receive, Indexer!FlushTick, Indexer!SeeStop,
         Indexer!DrainEnd, Indexer!FlushBatch, Indexer!AfterPost, IndexerP!TypeInv, IndexerP!TypeOK
<1>4. refused + Busy + Len(queue) <= 2 \/ worker' \notin {"lastPost", "done"}
  <2>1. CASE queue = <<>>
    <3>1. Len(queue) = 0 /\ refused \in Nat /\ Busy \in Nat
      BY <2>1, WaitingIs DEF IndexerP!TypeInv, IndexerP!TypeOK
    <3> QED
      BY <1>2, <3>1
  <2>2. CASE worker \in {"lastPost", "done"}
    BY <2>2 DEF HandInv
  <2> QED
    BY <1>3, <2>1, <2>2
<1> QED
  BY <1>2, <1>3, <1>4 DEF HandInv

LEMMA HandStep ==
  ASSUME TypeInv, IndexerP!TypeInv, IndexerP!TypeInv', QuietInv,
         IndexerP!CloseOrder, IndexerP!CloseOrder', ClosingInv, HandInv,
         [Next]_vars
  PROVE  HandInv'
<1>1. CASE ~closed'
  <2>1. refused' = 0 /\ worker' \notin {"lastPost", "done"}
    BY <1>1 DEF IndexerP!CloseOrder
  <2>2. (Busy \in 0..2)'
    BY WaitingIs, PTL
  <2>3. refused' + Busy' <= 2
    <3> DEFINE r1 == refused'  b1 == Busy'
    <3>1. r1 = 0 /\ b1 \in 0..2
      BY <2>1, <2>2
    <3>2. r1 + b1 <= 2
      <4> HIDE DEF r1, b1
      <4> QED
        BY <3>1
    <3> QED
      BY <3>2
  <2> QED
    BY <2>1, <2>3 DEF HandInv
<1>2. CASE main' = "exited"
  BY <1>2 DEF HandInv
<1>3. ASSUME UNCHANGED <<refused, caller, queue, worker>>, main # "exited",
             at'["elastic"] = at["elastic"] /\ at'["predict"] = at["predict"]
      PROVE  HandInv'
  <2>1. refused' = refused /\ Busy' = Busy
    BY <1>3, BusySame
  <2> QED
    BY <1>3, <2>1 DEF HandInv
<1>4. ASSUME closed, main # "exited", Fewer, UNCHANGED worker PROVE HandInv'
  <2> DEFINE r == refused       r1 == refused'
             b == Busy          b1 == Busy'
             q == Len(queue)    q1 == Len(queue')
  <2>1. /\ r + b <= 2 /\ (worker \in {"lastPost", "done"} => r + b + q <= 2)
        /\ r1 + b1 <= r + b /\ r1 + b1 + q1 <= r + b + q
    BY <1>4 DEF HandInv, Fewer
  <2>2. r \in Nat /\ b \in Nat /\ q \in Nat
    BY WaitingIs DEF IndexerP!TypeInv, IndexerP!TypeOK
  <2>3. r1 \in Nat /\ b1 \in Nat /\ q1 \in Nat
    <3>1. (Busy \in 0..2)'
      BY WaitingIs, PTL
    <3> QED
      BY <3>1 DEF IndexerP!TypeInv, IndexerP!TypeOK
  <2>4. r1 + b1 <= 2 /\ (worker \in {"lastPost", "done"} => r1 + b1 + q1 <= 2)
    <3> HIDE DEF r, r1, b, b1, q, q1
    <3> QED
      BY <2>1, <2>2, <2>3
  <2> QED
    BY <1>4, <2>4 DEF HandInv
<1>5. CASE Boot
  BY <1>5, <1>3 DEF Boot, Ping, InitIndex, StartBus, Subscribe, Connect, indexer, messages
<1>6. ASSUME NEW s \in Streams, Publish(s) PROVE HandInv'
  <2>1. CASE main # "exited"
    BY <1>3, <1>6, <2>1 DEF Publish, indexer
  <2>2. CASE main = "exited"
    BY <1>2, <1>6, <2>2 DEF Publish
  <2> QED
    BY <2>1, <2>2
<1>7. CASE Sqlite
  <2>1. /\ UNCHANGED <<refused, caller, queue, worker, main>>
        /\ at' = [at EXCEPT !["sqlite"] = "begin"] \/ at' = [at EXCEPT !["sqlite"] = "idle"]
    BY <1>7 DEF Sqlite, Take, Persist, indexer
  <2>2. at'["elastic"] = at["elastic"] /\ at'["predict"] = at["predict"]
    BY <2>1 DEF TypeInv, BusInv, Consumers
  <2> QED
    BY <1>2, <1>3, <2>1, <2>2
<1>8. ASSUME NEW c \in {"elastic", "predict"}, NEW k \in {"chat", "clip"}, c = ConsumerOf[k],
             Take(c) \/ Index(c, k) \/ Send(k) \/ Return(c, k)
      PROVE  HandInv'
  <2>1. main' = main /\ worker' = worker /\ closed' = closed
    BY <1>8 DEF Take, Index, Send, Return, indexer, Indexer!Offer, Indexer!Send, Indexer!closeVars
  <2>2. CASE closed /\ main # "exited"
    <3>1. Fewer
      BY <1>8, <2>2, HandlerBusy
    <3> QED
      BY <1>4, <2>1, <2>2, <3>1
  <2> QED
    BY <1>1, <1>2, <2>1, <2>2
<1>9. CASE Work
  <2>1. CASE main # "exited"
    BY <1>9, <2>1, WorkBusy
  <2> QED
    BY <1>9, <2>1 DEF Work
<1>10. CASE Stop \/ CloseClient \/ Flush \/ StopConsumers \/ CloseBus \/ CloseIndexer \/ CloseStore
  <2>1. UNCHANGED <<refused, caller, queue, worker, at>> /\ main # "exited"
    BY <1>10 DEF Stop, CloseClient, Flush, StopConsumers, CloseBus, CloseIndexer, CloseStore, indexer, messages,
                 Indexer!SwapClosed, Indexer!CloseStopCh, Indexer!WaitWorker, Indexer!callerVars
  <2> QED
    BY <1>3, <2>1
<1>11. CASE Exit
  BY <1>2, <1>11 DEF Exit
<1>12. CASE UNCHANGED vars
  BY <1>2, <1>3, <1>12 DEF vars, indexer, messages
<1> QED
  BY <1>5, <1>6, <1>7, <1>8, <1>9, <1>10, <1>11, <1>12
     DEF Next, Sqlite, Elastic, Predict, WayOut, ConsumerOf

LEMMA HandHolds == Spec => []HandInv
<1>1. Init => HandInv
  BY DEF Init, Indexer!Init, Indexer!Kinds, HandInv, Busy, Waiting, ConsumerOf, Consumers
<1>2. /\ TypeInv /\ IndexerP!TypeInv /\ IndexerP!TypeInv' /\ QuietInv
      /\ IndexerP!CloseOrder /\ IndexerP!CloseOrder' /\ ClosingInv /\ HandInv /\ [Next]_vars
      => HandInv'
  BY HandStep
<1> QED
  BY <1>1, <1>2, TypesHold, IndexerTheorems, StopHolds, ClosingHolds, PTL DEF Spec

\* Documents offered that GetStats knows nothing of.
AtMostTwoMissing ==
  offered["chat"] + offered["clip"] - (chatIndexed + clipsIndexed + failedDocs) <= 2

LEMMA MissingAtExit ==
  ASSUME IndexerP!TypeInv, IndexerP!CloseOrder, IndexerP!ReturnedMeansCounted, ClosingInv, HandInv,
         main \in {"exit", "quit"}
  PROVE  AtMostTwoMissing
<1>1. /\ offered["chat"] \in Nat /\ offered["clip"] \in Nat
      /\ chatIndexed \in Nat /\ clipsIndexed \in Nat /\ failedDocs \in Nat
      /\ refused \in Nat /\ Len(queue) \in Nat
  BY DEF IndexerP!TypeInv, IndexerP!TypeOK, IndexerP!Kinds
<1>2. CASE main = "quit"
  <2>1. offered["chat"] = 0 /\ offered["clip"] = 0
    BY <1>2 DEF ClosingInv, Started
  <2> QED
    BY <1>1, <2>1 DEF AtMostTwoMissing
<1>3. CASE main = "exit"
  <2>1. closer = "returned" /\ worker = "done"
    BY <1>3 DEF ClosingInv, IndexerP!CloseOrder
  <2>2. refused + Busy + Len(queue) <= 2
    BY <1>3, <2>1 DEF HandInv
  <2>3. IndexerP!Offered = refused + IndexerP!Sending + Len(queue) + IndexerP!Counted
    BY <2>1 DEF IndexerP!ReturnedMeansCounted
  <2>4. /\ offered["chat"] + offered["clip"] =
             refused + IndexerP!Sending + Len(queue) + (chatIndexed + clipsIndexed + failedDocs)
    BY <2>3 DEF IndexerP!Offered, IndexerP!Counted
  <2> QED
    BY <1>1, <2>2, <2>4, WaitingIs DEF AtMostTwoMissing
<1> QED
  BY <1>2, <1>3

\* Nothing happens in the indexer when the program is gone.
LEMMA GoneIsGone ==
  ASSUME main \in {"exit", "quit", "exited"}, main' = "exited", [Next]_vars
  PROVE  UNCHANGED indexer
<1>1. CASE Boot
  BY <1>1 DEF Boot, Ping, InitIndex, StartBus, Subscribe, Connect
<1>2. ASSUME NEW c, NEW k, Take(c) \/ Index(c, k) \/ Send(k) \/ Return(c, k) PROVE UNCHANGED indexer
  BY <1>2 DEF Take, Index, Send, Return, Started
<1>3. CASE Persist \/ (\E s \in Streams : Publish(s)) \/ Exit
  BY <1>3 DEF Persist, Publish, Exit
<1>4. CASE Work
  BY <1>4 DEF Work
<1>5. CASE Stop \/ CloseClient \/ Flush \/ StopConsumers \/ CloseBus \/ CloseIndexer \/ CloseStore
  BY <1>5 DEF Stop, CloseClient, Flush, StopConsumers, CloseBus, CloseIndexer, CloseStore
<1>6. CASE UNCHANGED vars
  BY <1>6 DEF vars
<1> QED
  BY <1>1, <1>2, <1>3, <1>4, <1>5, <1>6 DEF Next, Sqlite, Elastic, Predict, WayOut

LEMMA ExitedFrom ==
  ASSUME main' = "exited", main \in Places, [Next]_vars
  PROVE  main \in {"exit", "quit", "exited"}
<1>1. CASE Boot
  BY <1>1 DEF Boot, Ping, InitIndex, StartBus, Subscribe, Connect
<1>2. CASE \/ \E s \in Streams : Publish(s)
           \/ Sqlite \/ Elastic \/ Predict \/ Work \/ UNCHANGED vars
  BY <1>2 DEF Publish, Sqlite, Elastic, Predict, Take, Persist, Index, Send, Return, Work, vars
<1>3. CASE Stop \/ WayOut
  BY <1>3 DEF After, Stop, WayOut, CloseClient, Flush, StopConsumers, CloseBus, CloseIndexer, CloseStore, Exit
<1> QED
  BY <1>1, <1>2, <1>3 DEF Next

\* Whatever the worker and the handlers are at when main closes the indexer, at
\* most the one document each of the two handlers had in hand is missing from the
\* counts in the end.
THEOREM StopCountsDocumentsCorrect == Spec => []StopCountsDocuments
<1>1. Init => StopCountsDocuments
  BY DEF Init, StopCountsDocuments
<1>2. /\ TypeInv /\ IndexerP!TypeInv /\ IndexerP!CloseOrder /\ IndexerP!ReturnedMeansCounted
      /\ ClosingInv /\ HandInv /\ StopCountsDocuments /\ [Next]_vars
      => StopCountsDocuments'
  <2> SUFFICES ASSUME TypeInv, IndexerP!TypeInv, IndexerP!CloseOrder, IndexerP!ReturnedMeansCounted,
                      ClosingInv, HandInv, StopCountsDocuments, [Next]_vars, main' = "exited"
               PROVE  AtMostTwoMissing'
    BY DEF StopCountsDocuments, AtMostTwoMissing
  <2>1. main \in {"exit", "quit", "exited"}
    BY ExitedFrom DEF TypeInv
  <2>2. AtMostTwoMissing
    BY <2>1, MissingAtExit DEF StopCountsDocuments, AtMostTwoMissing
  <2>3. UNCHANGED indexer
    BY <2>1, GoneIsGone
  <2> QED
    BY <2>2, <2>3 DEF indexer, AtMostTwoMissing
<1> QED
  BY <1>1, <1>2, TypesHold, IndexerTheorems, ClosingHolds, HandHolds, PTL DEF Spec
=============================================================================
