------------------------------- MODULE ChatCli -------------------------------
(***************************************************************************)
(* The process chat-cli (cmd/chat-cli/main.go) as main starts and stops    *)
(* it, composed of the store (SQLiteStore), the indexer (ElasticIndexer),  *)
(* the bus (nats.go) and the consumers that join them (consumers.go).      *)
(*                                                                         *)
(* Each consumer handles one message at a time on a goroutine of its own.  *)
(* Messages come from the read loop of the IRC client and from /simulate,  *)
(* windows from the poll loop; main waits for none of these goroutines.    *)
(* The features consumer is modelled by FeatureWindows and the decisions   *)
(* of the predict consumer by ClipDecision: here a window may come at any  *)
(* time and lead to a clip or not.  Copies pushed again after AckWait and  *)
(* crashes are in those modules and in SQLiteStore.                        *)
(***************************************************************************)
EXTENDS Integers, Sequences, FiniteSets

CONSTANTS
  SQLiteBatch,    \* messages that make a batch of the store (30)
  ElasticBatch,   \* documents posted together (100)
  QueueCapacity,  \* capacity of the indexer's channel (10000)
  MaxMsgs,        \* bound: chat messages published
  MaxWindows      \* bound: windows published

ASSUME ChatCliAssumption ==
  /\ SQLiteBatch \in Nat \ {0} /\ ElasticBatch \in Nat \ {0} /\ QueueCapacity \in Nat \ {0}
  /\ MaxMsgs \in Nat /\ MaxWindows \in Nat /\ MaxWindows <= MaxMsgs

VARIABLES
  phase, buf, rows, accepted, born, lives, failed, lost,  \* of SQLiteStore
  queue, batch, worker, stopCh, closed, closer, caller, offered, refused,
  chatIndexed, clipsIndexed, failedDocs, bulkRequests, posted,  \* of ElasticIndexer
  main,           \* where main is
  online,         \* elasticOnline
  subs,           \* the consumers subscribed
  bus,            \* the bus is open
  published,      \* per stream: messages in it
  taken,          \* per consumer: messages its handler was called with
  at,             \* per consumer: where the handler is
  unflushed       \* history: the flush of the store's Close failed

store == <<phase, buf, rows, accepted, born, lives, failed, lost>>
indexer == <<queue, batch, worker, stopCh, closed, closer, caller, offered, refused,
             chatIndexed, clipsIndexed, failedDocs, bulkRequests, posted>>
wiring == <<online, subs, bus>>
messages == <<published, taken, at>>
vars == <<store, indexer, main, wiring, messages, unflushed>>

Store == INSTANCE SQLiteStore WITH BatchSize <- SQLiteBatch, MaxBuf <- MaxMsgs, MaxLives <- 1
\* What Elasticsearch keeps of a batch makes no difference to the program.
Indexer == INSTANCE ElasticIndexer WITH
  BatchSize <- ElasticBatch, MaxDocs <- MaxMsgs, stored <- {}

Consumers == {"sqlite", "features", "elastic", "predict"}
Streams == {"chat", "features"}
StreamOf(c) == IF c = "predict" THEN "features" ELSE "chat"
-----------------------------------------------------------------------------
\* Ping, within two seconds.
Ping ==
  /\ main = "ping"
  /\ main' \in {"chat", "bus"}
  /\ UNCHANGED <<store, indexer, wiring, messages, unflushed>>

\* createIndexIfNotExists of InitIndices.  A 400 counts as success whatever its
\* cause, so online does not say that Elasticsearch has the index.
InitIndex(i, next) ==
  /\ main = i
  /\ \/ main' = next /\ online' = (next = "bus")
     \/ main' = "bus" /\ UNCHANGED online
  /\ UNCHANGED <<store, indexer, subs, bus, messages, unflushed>>

\* NewNATSBus; a program without a bus exits.
StartBus ==
  /\ main = "bus"
  /\ \/ bus' = TRUE /\ main' = "sqlite"
     \/ main' = "quit" /\ UNCHANGED bus
  /\ UNCHANGED <<store, indexer, online, subs, messages, unflushed>>

\* Start: the consumers one after the other.  If one fails those before it are
\* stopped, and the program exits.
Subscribe(c, next) ==
  /\ main = c
  /\ \/ subs' = subs \cup {c} /\ main' = next
     \/ subs' = {} /\ main' = "quit"
  /\ UNCHANGED <<store, indexer, online, bus, messages, unflushed>>

\* Connect: without the IRC connection the program exits too.
Connect ==
  /\ main = "irc"
  /\ main' \in {"run", "quit"}
  /\ UNCHANGED <<store, indexer, wiring, messages, unflushed>>

Boot ==
  \/ Ping \/ InitIndex("chat", "clips") \/ InitIndex("clips", "bus")
  \/ StartBus
  \/ Subscribe("sqlite", "features") \/ Subscribe("features", "elastic")
  \/ Subscribe("elastic", "predict") \/ Subscribe("predict", "irc")
  \/ Connect
-----------------------------------------------------------------------------
Started == main \in {"run", "client", "flush", "consumers", "drain", "indexer", "store", "exit"}

\* PublishChat and PublishFeatures, as long as the bus is open: also when main
\* has begun to stop.
Publish(s) ==
  /\ Started /\ bus
  /\ published[s] < IF s = "chat" THEN MaxMsgs ELSE MaxWindows
  /\ published' = [published EXCEPT ![s] = @ + 1]
  /\ UNCHANGED <<store, indexer, main, wiring, taken, at, unflushed>>

\* Mutant: the consumers of the chat stream share a durable name.
TakenAfterShared(c) == [d \in Consumers |-> IF StreamOf(d) = StreamOf(c) THEN taken[d] + 1 ELSE taken[d]]

TakenAfter(c) == [taken EXCEPT ![c] = @ + 1]

\* The handler of a consumer is called with its next message.
Take(c) ==
  /\ c \in subs /\ bus /\ at[c] = "idle"
  /\ taken[c] < published[StreamOf(c)]
  /\ taken' = TakenAfter(c)
  /\ at' = [at EXCEPT ![c] = "begin"]
  /\ UNCHANGED <<store, indexer, main, wiring, published, unflushed>>

\* The sqlite consumer; an error of Enqueue is only logged.
Persist ==
  /\ Started /\ at["sqlite"] = "begin"
  /\ Store!EnqueueNew
  /\ at' = [at EXCEPT !["sqlite"] = "idle"]
  /\ UNCHANGED <<indexer, main, wiring, published, taken, unflushed>>

\* The elastic consumer indexes every message, the predict consumer the clips.
Index(c, kind) ==
  /\ Started /\ at[c] = "begin" /\ online
  /\ Indexer!Offer(kind)
  /\ at' = [at EXCEPT ![c] = "end"]
  /\ UNCHANGED <<store, main, wiring, published, taken, unflushed>>

Send(kind) ==
  /\ Started
  /\ Indexer!Send(kind)
  /\ UNCHANGED <<store, main, wiring, messages, unflushed>>

\* The handler returns: there was nothing to index, or it was.
Return(c, kind) ==
  /\ Started
  /\ \/ at[c] = "begin" /\ (c = "predict" \/ ~online)
     \/ at[c] = "end" /\ caller[kind] = "idle"
  /\ at' = [at EXCEPT ![c] = "idle"]
  /\ UNCHANGED <<store, indexer, main, wiring, published, taken, unflushed>>

\* The worker of the indexer runs whether Elasticsearch is there or not.
Work ==
  /\ main # "exited"
  /\ Indexer!Worker
  /\ UNCHANGED <<store, main, wiring, messages, unflushed>>
-----------------------------------------------------------------------------
\* Mutant: the store is closed where it is flushed.
AfterStoreFirst ==
  [client |-> "flush", flush |-> "store", store |-> "consumers", consumers |-> "drain",
   drain |-> "indexer", indexer |-> "exit"]

\* Mutant: the deferred calls in the order they are written.
AfterIndexerFirst ==
  [client |-> "flush", flush |-> "indexer", indexer |-> "consumers", consumers |-> "drain",
   drain |-> "store", store |-> "exit"]

\* What follows what on the way out: the two calls at the end of main, then the
\* deferred ones, the last first.
After ==
  [client |-> "flush", flush |-> "consumers", consumers |-> "drain", drain |-> "indexer",
   indexer |-> "store", store |-> "exit"]

\* A signal, or /stop.
Stop ==
  /\ main = "run"
  /\ main' = "client"
  /\ UNCHANGED <<store, indexer, wiring, messages, unflushed>>

\* client.Close does not wait for the read loop.
CloseClient ==
  /\ main = "client"
  /\ main' = After[main]
  /\ UNCHANGED <<store, indexer, wiring, messages, unflushed>>

Flush ==
  /\ main = "flush"
  /\ Store!FlushAll
  /\ main' = After[main]
  /\ UNCHANGED <<indexer, wiring, messages, unflushed>>

\* Consumers.Stop: no handler is called any more, one that runs goes on.
StopConsumers ==
  /\ main = "consumers"
  /\ subs' = {}
  /\ main' = After[main]
  /\ UNCHANGED <<store, indexer, online, bus, messages, unflushed>>

\* NATSBus.Close: Drain does not wait either.
CloseBus ==
  /\ main = "drain"
  /\ bus' = FALSE
  /\ main' = After[main]
  /\ UNCHANGED <<store, indexer, online, subs, messages, unflushed>>

CloseIndexer ==
  /\ main = "indexer"
  /\ \/ (Indexer!SwapClosed \/ Indexer!CloseStopCh) /\ UNCHANGED main
     \/ Indexer!WaitWorker /\ main' = After[main]
  /\ UNCHANGED <<store, wiring, messages, unflushed>>

CloseStore ==
  /\ main = "store"
  /\ Store!Close
  /\ unflushed' = (buf' # <<>>)
  /\ main' = After[main]
  /\ UNCHANGED <<indexer, wiring, messages>>

\* The process ends, by os.Exit when it did not come up.
Exit ==
  /\ main \in {"exit", "quit"}
  /\ Store!End
  /\ main' = "exited"
  /\ UNCHANGED <<indexer, wiring, messages, unflushed>>

WayOut ==
  \/ CloseClient \/ Flush \/ StopConsumers \/ CloseBus \/ CloseIndexer \/ CloseStore \/ Exit

Init ==
  /\ Store!Init /\ Indexer!Init
  /\ main = "ping" /\ online = FALSE
  /\ subs = {} /\ bus = FALSE
  /\ published = [s \in Streams |-> 0]
  /\ taken = [c \in Consumers |-> 0]
  /\ at = [c \in Consumers |-> "idle"]
  /\ unflushed = FALSE

Sqlite == Take("sqlite") \/ Persist
Elastic == Take("elastic") \/ Index("elastic", "chat") \/ Send("chat") \/ Return("elastic", "chat")
Predict == Take("predict") \/ Index("predict", "clip") \/ Send("clip") \/ Return("predict", "clip")

Next ==
  \/ Boot
  \/ \E s \in Streams : Publish(s)
  \/ Sqlite \/ Elastic \/ Predict
  \/ Work
  \/ Stop \/ WayOut

Spec == Init /\ [][Next]_vars

\* Every goroutine runs on.  Nobody has to say anything or to stop the program.
FairSpec ==
  /\ Spec
  /\ WF_vars(Sqlite) /\ WF_vars(Work) /\ WF_vars(WayOut)
-----------------------------------------------------------------------------
TypeOK ==
  /\ Store!TypeOK /\ Indexer!TypeOK
  /\ main \in {"ping", "bus", "irc", "quit", "run", "exit", "exited"}
             \cup {"chat", "clips"} \cup Consumers \cup DOMAIN After
  /\ online \in BOOLEAN /\ subs \subseteq Consumers /\ bus \in BOOLEAN /\ unflushed \in BOOLEAN
  /\ published \in [Streams -> 0..MaxMsgs]
  /\ \A c \in Consumers : taken[c] \in 0..published[StreamOf(c)]
  /\ at \in [Consumers -> {"idle", "begin", "end"}]
  /\ taken["sqlite"] = IF at["sqlite"] = "begin" THEN accepted + 1 ELSE accepted

\* A message the store has accepted is in the database when the program has
\* stopped, although chat goes on until the bus is closed and no handler is
\* waited for: but for one whose handler was running in the end, and unless
\* SQLite failed the last flush.
StopLosesOne ==
  main = "exited" /\ ~unflushed => lost \subseteq {accepted}

\* Every document offered is indexed or counted as failed when the program has
\* stopped, but for one per handler that was running in the end.
StopCountsDocuments ==
  main = "exited" =>
    offered["chat"] + offered["clip"] - (chatIndexed + clipsIndexed + failedDocs) <= 2

\* Chat that is published reaches the store, whatever SQLite answers, unless
\* the program is stopped.
MessageReachesStore ==
  \A n \in 1..MaxMsgs : (published["chat"] >= n) ~> (accepted >= n \/ main # "run")

\* The program stops when it is told to, whatever its goroutines are at.
StopEnds == (main = "client") ~> (main = "exited")
=============================================================================
