--------------------------- MODULE ElasticIndexer ---------------------------
(***************************************************************************)
(* analytics.ElasticIndexer (elastic.go): the chat and the predict         *)
(* consumers put documents into a bounded channel without ever waiting;    *)
(* one worker gathers them into batches and posts each batch once; Close   *)
(* tells the worker to drain the channel and waits for it.                 *)
(*                                                                         *)
(* IndexChat and IndexClip are the same code for two kinds of document,    *)
(* each called by one goroutine.  A document is its kind and its number.   *)
(***************************************************************************)
EXTENDS Integers, Sequences, FiniteSets, Functions

CONSTANTS
  BatchSize,      \* documents posted together (100)
  QueueCapacity,  \* capacity of the channel (10000)
  MaxDocs         \* bound: documents of each kind

ASSUME ElasticIndexerAssumption ==
  BatchSize \in Nat \ {0} /\ QueueCapacity \in Nat \ {0} /\ MaxDocs \in Nat

VARIABLES
  queue,         \* the channel
  batch,         \* the worker's batch
  worker,        \* where the worker is
  stopCh,        \* stopCh has been closed
  closed,        \* the flag closed
  closer,        \* where the caller of Close is
  caller,        \* per kind: where the goroutine that indexes it is
  offered,       \* per kind: documents IndexChat or IndexClip was called with
  refused,       \* history: calls that found the indexer closed
  chatIndexed, clipsIndexed, failedDocs, bulkRequests,  \* Stats
  posted,        \* history: documents sent to Elasticsearch in some request
  stored         \* the documents Elasticsearch has

vars == <<queue, batch, worker, stopCh, closed, closer, caller, offered, refused,
          chatIndexed, clipsIndexed, failedDocs, bulkRequests, posted, stored>>

callerVars == <<caller, offered, refused>>
closeVars == <<stopCh, closed, closer>>
stats == <<chatIndexed, clipsIndexed, failedDocs, bulkRequests>>
remote == <<posted, stored>>

Kinds == {"chat", "clip"}
Documents == [kind : Kinds, num : Nat \ {0}]
Newest(k) == [kind |-> k, num |-> offered[k]]
-----------------------------------------------------------------------------
\* IndexChat or IndexClip up to its look at the flag...
Offer(k) ==
  /\ caller[k] = "idle"
  /\ offered[k] < MaxDocs
  /\ offered' = [offered EXCEPT ![k] = @ + 1]
  /\ IF closed
     THEN refused' = refused + 1 /\ UNCHANGED caller
     ELSE caller' = [caller EXCEPT ![k] = "send"] /\ UNCHANGED refused
  /\ UNCHANGED <<queue, batch, worker, closeVars, stats, remote>>

\* Mutant: off by one.
FullLate == Len(queue) > QueueCapacity

Full == Len(queue) >= QueueCapacity

\* ... and its send, which Close may have overtaken.  A full channel drops it.
Send(k) ==
  /\ caller[k] = "send"
  /\ caller' = [caller EXCEPT ![k] = "idle"]
  /\ \/ /\ ~Full
        /\ queue' = Append(queue, Newest(k))
        /\ UNCHANGED failedDocs
     \/ /\ Full
        /\ failedDocs' = failedDocs + 1
        /\ UNCHANGED queue
  /\ UNCHANGED <<batch, worker, closeVars, offered, refused,
                 chatIndexed, clipsIndexed, bulkRequests, remote>>
-----------------------------------------------------------------------------
\* The worker takes a document, when stopping as well, until the batch is full.
Receive ==
  /\ worker \in {"run", "drain"}
  /\ queue # <<>>
  /\ batch' = Append(batch, Head(queue))
  /\ queue' = Tail(queue)
  /\ worker' = IF Len(batch') < BatchSize THEN worker
               ELSE IF worker = "run" THEN "post" ELSE "drainPost"
  /\ UNCHANGED <<callerVars, closeVars, stats, remote>>

\* Mutant: the ticker too waits for a full batch.
TickFlushesFull == Len(batch) >= BatchSize

TickFlushes == batch # <<>>

\* The ticker: a batch that is not full is posted too.
FlushTick ==
  /\ worker = "run"
  /\ TickFlushes
  /\ worker' = "post"
  /\ UNCHANGED <<queue, batch, callerVars, closeVars, stats, remote>>

SeeStop ==
  /\ worker = "run"
  /\ stopCh
  /\ worker' = "drain"
  /\ UNCHANGED <<queue, batch, callerVars, closeVars, stats, remote>>

\* Mutant: the worker returns only when it had something left to post.
DrainedStaysEmpty == IF batch # <<>> THEN "lastPost" ELSE "drain"

Drained == IF batch # <<>> THEN "lastPost" ELSE "done"

\* The channel is empty for now: the worker posts what it has and returns.
DrainEnd ==
  /\ worker = "drain"
  /\ queue = <<>>
  /\ worker' = Drained
  /\ UNCHANGED <<queue, batch, callerVars, closeVars, stats, remote>>

AfterPost == [post |-> "run", drainPost |-> "drain", lastPost |-> "done"]

\* Mutant: the batch is not emptied after it was posted.
BatchAfterPostKept == IF Len(batch) < BatchSize THEN batch ELSE <<>>

BatchAfterPost == <<>>

\* Mutant: the two counters are swapped.
OfOtherKind(k) == {i \in DOMAIN batch : batch[i].kind # k}

OfKind(k) == {i \in DOMAIN batch : batch[i].kind = k}

\* Any 2xx reply counts the whole batch as indexed, whatever Elasticsearch did
\* with its documents.
Accepted ==
  /\ chatIndexed' = chatIndexed + Cardinality(OfKind("chat"))
  /\ clipsIndexed' = clipsIndexed + Cardinality(OfKind("clip"))
  /\ bulkRequests' = bulkRequests + 1
  /\ UNCHANGED failedDocs

\* Mutant: a failed request counts as one failed document.
FailedOne == 1

Failed == Len(batch)

\* No reply within the time limit, or one that is not 2xx; no second attempt.
Rejected ==
  /\ failedDocs' = failedDocs + Failed
  /\ UNCHANGED <<chatIndexed, clipsIndexed, bulkRequests>>

\* flushBatch: Elasticsearch may have stored any part of the batch either way.
FlushBatch ==
  /\ worker \in DOMAIN AfterPost
  /\ Accepted \/ Rejected
  /\ \E part \in SUBSET Range(batch) : stored' = stored \cup part
  /\ posted' = posted \cup Range(batch)
  /\ batch' = BatchAfterPost
  /\ worker' = AfterPost[worker]
  /\ UNCHANGED <<queue, callerVars, closeVars>>
-----------------------------------------------------------------------------
\* Close, in main's deferred calls: Swap(true), close(stopCh), wg.Wait().
SwapClosed ==
  /\ closer = "idle"
  /\ closed' = TRUE
  /\ closer' = "swapped"
  /\ UNCHANGED <<queue, batch, worker, stopCh, callerVars, stats, remote>>

CloseStopCh ==
  /\ closer = "swapped"
  /\ stopCh' = TRUE
  /\ closer' = "waiting"
  /\ UNCHANGED <<queue, batch, worker, closed, callerVars, stats, remote>>

WaitWorker ==
  /\ closer = "waiting"
  /\ worker = "done"
  /\ closer' = "returned"
  /\ UNCHANGED <<queue, batch, worker, stopCh, closed, callerVars, stats, remote>>

Init ==
  /\ queue = <<>> /\ batch = <<>>
  /\ worker = "run"
  /\ stopCh = FALSE /\ closed = FALSE /\ closer = "idle"
  /\ caller = [k \in Kinds |-> "idle"]
  /\ offered = [k \in Kinds |-> 0]
  /\ refused = 0
  /\ chatIndexed = 0 /\ clipsIndexed = 0 /\ failedDocs = 0 /\ bulkRequests = 0
  /\ posted = {} /\ stored = {}

Worker == Receive \/ FlushTick \/ SeeStop \/ DrainEnd \/ FlushBatch

Next ==
  \/ \E k \in Kinds : Offer(k) \/ Send(k)
  \/ Worker
  \/ SwapClosed \/ CloseStopCh \/ WaitWorker

Spec == Init /\ [][Next]_vars

\* The worker goes on, its requests having a time limit and its ticker firing
\* again and again.  Nobody has to offer a document or to call Close.
FairSpec == Spec /\ WF_vars(Worker)
-----------------------------------------------------------------------------
TypeOK ==
  /\ queue \in Seq(Documents) /\ Len(queue) <= QueueCapacity
  /\ batch \in Seq(Documents) /\ Len(batch) <= BatchSize
  /\ worker \in {"run", "post", "drain", "drainPost", "lastPost", "done"}
  /\ stopCh \in BOOLEAN /\ closed \in BOOLEAN
  /\ closer \in {"idle", "swapped", "waiting", "returned"}
  /\ caller \in [Kinds -> {"idle", "send"}]
  /\ offered \in [Kinds -> Nat]
  /\ {refused, chatIndexed, clipsIndexed, failedDocs, bulkRequests} \subseteq Nat
  /\ posted \subseteq Documents /\ stored \subseteq Documents

Sending == Cardinality({k \in Kinds : caller[k] = "send"})

\* Every document offered is accounted for exactly once: refused after Close,
\* still on its way, or counted by GetStats as indexed or as failed.
Accounted ==
  offered["chat"] + offered["clip"] =
    refused + Sending + Len(queue) + Len(batch) + chatIndexed + clipsIndexed + failedDocs

\* No document is posted twice: bulk actions carry no id, so Elasticsearch would
\* keep both copies.
PostedOnce ==
  /\ IsInjective(queue) /\ IsInjective(batch)
  /\ Range(queue) \cap Range(batch) = {}
  /\ posted \cap (Range(queue) \cup Range(batch)) = {}

\* Documents that are neither refused, dropped nor posted.
InHands == {Newest(k) : k \in {j \in Kinds : caller[j] = "send"}}
Pending == Range(queue) \cup Range(batch) \cup InHands

Phase ==
  IF closer = "idle" THEN "open" ELSE IF closer = "returned" THEN "closed" ELSE "closing"

Log == INSTANCE DocumentLog WITH
  MaxRequest <- BatchSize, phase <- Phase, pending <- Pending, requests <- bulkRequests,
  indexed <- [k \in Kinds |-> IF k = "chat" THEN chatIndexed ELSE clipsIndexed],
  failed <- failedDocs

\* The indexer keeps the promise of DocumentLog: no document overtakes another of
\* its kind on the way through callers, channel and batches, each is counted for
\* its own kind, only the newest is dropped, and nothing is posted after Close.
IndexerIsDocumentLog == Log!Spec

\* A document that got into the channel leaves it for a request, unless Close
\* was called.
QueuedIsPosted ==
  \A k \in Kinds, n \in 1..MaxDocs :
    LET d == [kind |-> k, num |-> n] IN (d \in Range(queue)) ~> (d \in posted \/ closed)

-----------------------------------------------------------------------------
\* elastic.go: "Close gracefully flushes all queued documents and waits for
\* worker shutdown."
ClosedIsFlushed ==
  closer = "returned" => queue = <<>>
=============================================================================
