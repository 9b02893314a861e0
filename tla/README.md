# Snipr in TLA+

Snipr watches Twitch chat and makes clips. IRC messages go to an embedded NATS
JetStream server; four durable consumers take them from there: one stores them in
SQLite, one gathers them into windows of features, one indexes them in
Elasticsearch, and one reads the windows, asks a model and makes clips through the
Helix API. This directory holds TLA+ modules for the parts of the program whose
correctness depends on order, time or failure, the configurations that check them
with TLC, and proofs that TLAPS checks.

`PROJECT.json` lists the components, the runs, the mutants (plausible bugs that each
property detects), the source lines of every definition, the findings, the hazards
and the theorems.

## 1. The system

| Component (source) | State | Operations | Hard behaviour | What makes it correct |
|---|---|---|---|---|
| Feature windows (`features/monitor.go`, features consumer of `pipeline/consumers.go`) | per channel: buffer, start of the window; ticker | `OnChat`, `flushReady` on a tick, stop | messages wait for the mutex during a flush; late ticks; stepped clock; failed publish | each message in one window; windows ordered, disjoint, long enough; every message gets to one |
| Predict consumer (`pipeline/consumers.go`, `bus/nats.go`, `twitch/helix.go`) | cooldowns, last probabilities, user cache; pushed and unacked windows | `onFeatures`, `tryCooldown`, `createClip` | redelivery after AckWait while the handler waits for Twitch; every request may fail | clips spaced; a window decided, once, before it is acked; refusals justified |
| Chat store (`store/sqlite.go`) | buffer, table | `Open`, `Enqueue`, `Flush`, `Close` | copies, failed and ambiguous transactions, crash, messages after `Close` | nothing lost but what was pending at the end of a process; nothing stored in part |
| Elasticsearch indexer (`analytics/elastic.go`) | channel, batch, counters, `closed` | `IndexChat`, `IndexClip`, worker, `flushBatch`, `Close` | producers racing with `Close`; full channel; failed bulk request | every document counted once, posted at most once and in the end; `Close` returns |
| Token manager (`auth/manager.go`, `auth/client.go`) | token, username, mutex; `token.json` | `EnsureValidToken`, login, `saveToDisk`, `loadFromDisk` | concurrent callers; requests and login under the mutex; crash while the file is written; `auth-cli` | a process uses a refresh token once; its token never goes back; the file is behind only after a loss; callers get an answer |
| Callback server (`auth/server.go`, `auth-cli`) | `resultCh`, listener, handlers | `Start`, `handleCallback`, `WaitForCode`, `Shutdown` | reloads, stale pages and a second program on one port; a deadline racing a result | a code only for the page of this login; page before exit; requests answered; logins return |
| IRC client (`ingest/client.go`) | connection, channels, `closed` | `Connect`, `Start`, `Join`, `Part`, `Close` | commands and the read loop share the connection; the connection drops | every PING answered; channel list agrees with Twitch; chat published as said, in order; the loop ends |
| IRC parser, feature computation (`ingest/parser.go`, `features/compute.go`, `normalize.go`) | none | pure functions | malformed lines, escapes, emote positions; phrases across messages | lines parsed to what was said; hype words recognised, windows counted |
| Predictor (`predict/predictor.go`) | the trees | `PredictProba`, `Decide` | none | floating point: not modelled |
| `chat-cli` (`cmd/chat-cli/main.go`) | where `main` is, subscriptions, handlers | start-up, commands, deferred shutdown | chat goes on during the shutdown and no handler is waited for | stopping loses and leaves uncounted no more than what handlers still hold, and ends |

They interact as follows. The IRC client and `/simulate` publish chat; JetStream pushes
each message to the three chat consumers, each with one goroutine. The features
consumer publishes windows to a second stream, which the predict consumer reads. The
predict consumer and `/clip` call Helix, which asks the token manager for a token.
Chat and clips meet again in the channel of the indexer. `main` flushes the store and
then runs its deferred calls: stop the consumers, close the bus, close the indexer,
close the store.

## 2. Modules

| Module | Models | Checked with | Proved in |
|---|---|---|---|
| `FeatureWindows` | the window monitor | `MCFeatureWindows` | `FeatureWindowsProofs` |
| `Delivery` | what a subscription of the bus promises its handler | through `ClipDecision` | with `ClipDecision` |
| `ClipDecision` | the predict consumer behind JetStream | `MCClipDecision` | `ClipDecisionProofs` |
| `ChatLog` | what the store promises | through `SQLiteStore` | with `SQLiteStore` |
| `SQLiteStore` | the batching store | `MCSQLiteStore` | `SQLiteStoreProofs` |
| `DocumentLog` | what the indexer promises | through `ElasticIndexer` | with `ElasticIndexer` |
| `ElasticIndexer` | the bulk indexer | `MCElasticIndexer` | `ElasticIndexerProofs` |
| `TokenManager` | the token manager and `token.json` | `MCTokenManager` | `TokenManagerProofs` |
| `Login` | what a login in the browser promises | through `CallbackServer` | with `CallbackServer` |
| `CallbackServer` | the callback server, used by both programs | `MCCallbackServer` | `CallbackServerProofs` |
| `IngestClient` | the IRC client against Twitch | `MCIngestClient` | `IngestClientProofs` |
| `IRCParser` | one line of IRC | `MCIngestClient` | |
| `Features` | what the model sees of a window | `MCFeatureWindows` | |
| `GoStrings` | the functions of `strings` and `strconv` used by the two above | with them | |
| `ChatCli` | the process: start-up, consumers, shutdown, over `SQLiteStore` and `ElasticIndexer` | `MCChatCli` | `ChatCliProofs` |

The component modules are parameterised by their constants, with named assumptions as
weak as the code allows. Numbers of messages, windows, tokens and restarts of the store are bounded in the
guards, by the constants called "bound" in each module. What is under a mutex and does
not wait is one step; what waits (a request, the mutex, a channel) ends a step.

### FeatureWindows

`Receive` is the subscription's callback up to the monitor's mutex, `OnChat` what it does
with it; `FlushReady` is a poll with the tick it took, which may be older than the clock
(`Tick` drops a tick when one is waiting, as the runtime does). A window is the set of
messages in it; `windows` remembers all that were closed and whether the publish
succeeded. `ClockStep` sets the wall clock: every time in this component is wall time,
because `UTC()` drops the monotonic reading.

* `Conservation`: each message is in hand, in one buffer or in one window.
* `WindowsInOrder`: windows of a channel are disjoint in time, an interval apart and in
  order of arrival. So their message ids (`MsgId`) differ, and JetStream drops none as a duplicate:
  the theorem `NoDuplicateIds`.
* `WindowsCollect`: how long a window has collected before the tick that closes it. The whole interval
  cannot be claimed of one window: the first of a channel starts at a message timestamp in the past and is
  closed after 14 s or more; a later one starts at the tick of the flush that opened it, and when that flush was
  late the next tick may close it at once. What holds is that a window together with the one before it has
  collected for a whole interval, and that a tick that waited since before the opening closes nothing.
  `openedAt` and `openedBefore` remember the clock at the openings, not the ticks.
* `MessageFlushed` (liveness): no message waits for ever, once the clock is no longer set
  back.

### ClipDecision and Delivery

`stream`, `queue`, `deadline` and `acked` are JetStream as the consumer sees it: a window
is pushed when published and again when AckWait passes without an ack (`Redeliver`). `pc`
follows the one goroutine that handles windows: `OnFeatures` decides (`Dismiss`, `Refuse`
or `Attempt`) and the steps after it are the waits of `createClip`, each with its
failures; `RequestClip` may create a clip whose reply is lost. A window carries the
outcome of the model (`hype`, `calm` or `error`), which is the same for every copy. Time
is two variables, since acks are timed by the server's clock and cooldowns by the wall
clock, which `WallStep` sets. `copied` remembers which windows were pushed again.

* `AttemptsSpaced`, `RefusedAfterAttempt`, `AckedWereDecided` hold whatever is redelivered
  and however the clock moves.
* `DecidedOnce` and `StatusNeverGoesBack` hold for each window that is not pushed again,
  wherever copies of others are in the queue; the run `clips_twice` shows that one pushed
  again may be clipped twice. `clips` holds what is at Twitch, and in that run time passes only while the
  handler waits for a token, a login or Helix, so that these waits are what exceeds AckWait.
* `WindowsDelivered`: the subscription and the handler implement `Delivery`. That module is the promise of a
  durable subscription with explicit acks: items are handed over one at a time, in the order of publishing, and acked
  when the handler has returned; only an item not acked in time may come again, late or out of order. A
  window is handed over when the goroutine takes it (`cur`), acked by `Ack`, and `Redeliver` maps to `Copy`.
* `WindowAcked` (liveness).

### SQLiteStore and ChatLog

`ChatLog` is the promise: a message is accepted once and stored with everything pending,
or lost with it when the process ends. `SQLiteStore` implements it with
`pending <- Pending`, the messages of the buffer not yet in the table. `Flush` has the
outcomes of a transaction: done, rolled back, or done but reported as an error. After a
restart JetStream, being in memory, has no old messages to deliver again.

* `StoreIsChatLog` (refinement), `Conservation`, `FullBatchOnlyAfterFailure`.

### ElasticIndexer and DocumentLog

`Offer` is `IndexChat` or `IndexClip` up to its look at `closed`, `Send` the rest: `Close`
may come in between. The worker's `select` is the choice between `Receive`, `FlushTick` and
`SeeStop`; `FlushBatch` is one bulk request, of which Elasticsearch may have stored any
part whatever it replied.

`DocumentLog` is the promise: a document is refused, dropped or posted, posted at most once, with others in
the order in which those of its kind were offered, counted for its own kind, and nothing is posted when
`Close` has returned. `ElasticIndexer` implements it with `Pending` (callers' hands, channel and
batch together) and `Phase`, where `Close` is.

* `IndexerIsDocumentLog` (refinement). It says what a sum of counters cannot: that no document overtakes another
  through channel and batches, and that chat is not counted as clips.
* `Accounted`: documents offered = refused + on their way + counted. `PostedOnce`.
* `QueuedIsPosted` (liveness). That `Close` returns is part of `StopEnds` in `ChatCli`, where the
  types of this module and of `SQLiteStore` are checked as well.

### TokenManager

A pair of access and refresh token is the number under which Twitch issued it. `pc[c]` is
where caller `c` is in `EnsureValidToken`; every request, the wait for the browser and the
two halves of `os.WriteFile` (empty the file, write it) are steps of their own. `auth-cli` has its own steps:
`CliExchange`, `CliValidate`, `CliTruncate`, `CliWrite`, and `CliEnds` between any two of them (it exits when the
validation fails). So the process may end, and the two programs may overtake each other, between any two
steps; two writes that meet may leave a file that cannot be read (`Written`). `pair[c]` is the pair the call works
on: what it sends to Twitch was read before the wait. The old pair may or may not stay
accepted after a refresh, and a reply may be lost after Twitch has acted.

* `RefreshedOnce`, `TokenNeverGoesBack`: what the mutex is for. Both fail without it. Both are about one life
  of the process: one that ended before its save has its refresh token presented again by the next.
* `FileNotBehind`: the file has the newest pair that any chat-cli has had (`newest`, kept across restarts), unless a
  call is about to save or the pair was lost (`lost`). The losses are listed in the actions: a save that failed or met
  another, a process that ended between a refresh and its save, and `auth-cli`, which empties the file
  and may write a pair that a refresh has overtaken since its exchange. The code repairs none of them before the
  next complete save, which comes with the next refresh or login; the property says that there is no
  other loss, and that this save does repair it.
* `CallReturns` (liveness).

The callback server is here only the result of the wait (`Redirect`). The client id and
secret are taken from the environment, where both programs look first.

### CallbackServer and Login

A login is its number, which stands for its random state. The two programs log in one after
the other or at once, on the one port; `Redirect` is a request with the state of any login
begun so far, since the browser may hold pages of earlier logins and load a page again. A
handler is two steps, `SendResult` over the channel and `Answer`; what becomes of a login is
`ReceiveResult` or, in `auth-cli`, `TimeOut`, and then `Shutdown`, which waits for the handlers or
two seconds. `Quit` ends a process with its handlers.

`Login` is the promise: one login is open at a time; it ends with what one of the redirects
that came to it says, or with its own deadline; and a code comes only from the page of the
login itself. `CallbackServer` implements it with the port as the open login.

* `LoginsAsPromised` (refinement of `Login`).
* `PageBeforeReturn`: when `WaitForCode` has returned, the browser has the page of the request
  that decided, so that `auth-cli` may exit; unless handlers took over two seconds.
* `RequestAnswered` (liveness): a request gets its page as long as there are no more of them
  than the login reads (one) and the channel holds (one). A third one waits for ever.
* `LoginReturns` (liveness): also with such a handler.

### IngestClient and IRCParser

The connection has a queue of lines in each direction. `Connect`, `Join`, `Part` and `Close` (in
two steps: flag and `stopCh`, then the connection) are `main`'s; `LoopTop` to `PayloadDone` are the
goroutine of `Start`. Twitch takes lines in order (`TwitchTakes`), sends payloads, and may `Drop` the
connection with part of what is on its way. `Parse` is a parameter, which `MCIngestClient` sets to
`ParseIRCLine` of `IRCParser`: a line is a sequence of symbols, being the marks the parser looks for,
digits and words. `MCIngestClient` also writes lines as Twitch does (`Wire`) and says what message
was meant (`Meant`), from the form of the lines and not from the parser.

* `ParsedAsSaid`: the parser gives the meant message for 400 records (205 different lines), with and without tags, with
  names full of escapes, texts that look like commands and emote positions beyond the text.
* `ChatAsSaid`: what is published, with what is in hand, is what users said, in order.
* `ChannelsAgree`: the list is the channels Twitch will have us in when it has taken the lines on
  their way, while the connection is up.
* `PingsAccounted`: while the connection is up every PING sent was answered, is in hand or on its way; and never
  are more answered than were sent and are not waiting.
* `PingAnswered`, `LoopEnds` (liveness).

### Features

`SimpleNormalize`, `HypeScore` and `ComputeWindowFeatures` as operators on sequences of characters, with
the code's list of hype words. Ratios are pairs of numbers. The length of a text is counted in characters, not in bytes.

* `HypeWordsRecognised`: each hype word scores one, through itself; text is normalized once and for all.
* `WindowFeaturesRight`: a window has at least the hype of each of its messages, and its counts agree.

### ChatCli

`main` walks through start-up (`Ping`, `InitIndex`, `StartBus`, `Subscribe`, `Connect`; a failure of the bus, of a
subscription or of the connection ends the program; `InitIndex` takes every status 400 for an index that
exists, so the program may be online without its indices) and, after `Stop`, through the order `After`: close the client, flush
the store, and the deferred calls backwards: consumers, bus, indexer, store. The store and the
indexer are the modules above, by `INSTANCE`. Each consumer has one handler; messages are published as long as the
bus is open, and neither `Unsubscribe` nor `Drain` waits for a handler.

* `StopLosesOne`: what the store has accepted is in the database in the end, except for one message
  whose handler ran until then, or if SQLite failed the last flush.
* `StopCountsDocuments`: the same of the indexer's counters, with one document a handler.
* `MessageReachesStore`, `StopEnds` (liveness).

## 3. Runs

| Run | Shows | Bounds |
|---|---|---|
| `windows` | windows, any clock; every message reaches a window; features of windows | all windows of up to 3 of 12 messages; 2 channels, 2 messages, interval 2, skew 1, clock to 4, set by one either way |
| `clips` | decisions and cooldown with copies and clock steps; one decision a window, in order, but for copies; delivery as promised; every window is acked | 2 names, 2 windows, cooldown and AckWait 2, clock to 3 |
| `store` | the store and its refinement of `ChatLog` | batch 3, 5 messages, 2 processes |
| `indexer` | counters and requests, and the refinement of `DocumentLog`; documents are posted | batch 2, channel 2, 2 documents of each kind |
| `tokens` | tokens and file; calls return | 2 callers, 1 account, 3 pairs, any restarts, one auth-cli at a time |
| `ingest` | lists, chat and PINGs over a connection that may drop; the parser | 4 names of 2 channels, 3 payloads of 3 lines, 2 sent, 3 commands |
| `login` | logins of both programs implement `Login`; pages, requests, return | 2 logins, 3 requests, codes and denials |
| `shutdown` | start-up, consumers and shutdown of the whole process | batches and channel of 2, 2 messages, 1 window |

The bounds let the interesting cases happen. Two channels and two messages give two
windows of one channel, a window closed while the other channel's stays open, and a message
in hand during a flush; a clock to 4 with an interval of 2 closes two windows in a row. Two
windows of one name with a cooldown and an AckWait of 2 give a copy during the handler and
one after the cooldown, and a clock to 3 two attempts. Five messages and a batch of three
give a full batch that fails, grows and is retried. Four documents overfill a channel of
two while the worker has none, and fill a batch with documents left behind it. Three pairs
give a refresh overtaking a login of chat-cli or of auth-cli, and a process that starts with a pair older than the newest.
Three commands give a join, a part and a join of one channel with lines of each on their way; two
payloads a PING behind broken lines and chat in two payloads. Three requests are one more than a
login and its channel take, and two logins one page that is stale. Two messages fill a batch
of the store or leave half of one, and with a clip they overfill the channel of the indexer.
The mutants confirm it: each property is violated in the same instance when the definition
it depends on is changed as a plausible bug would. The invariants that are proved do not
depend on the bounds at all.

Deadlock is not checked: every program here may be stopped, and the bounds end the
behaviours.

### Disagreements between code and text

| Run | Property | Text |
|---|---|---|
| `clips_twice` | `OneClipPerWindow` | README: a clip when the model says so. A handler whose waits for a token, a login and Helix are longer than AckWait has its window clipped twice at Twitch. |
| `indexer_close` | `ClosedIsFlushed` | `elastic.go`: `Close` flushes all queued documents. One sent after the drain stays in the channel. |
| `ingest_drop` | `RunsUntilClosed` | `client.go`: `Start` runs until the context is cancelled or `Close` is called. It also ends with the connection, and nobody connects again. |
| `tokens_user` | `UserIsOwner` | `manager.go`: `GetUser` returns the validated user. It may be that of the account before. |

`SQLiteStore.Close` ("flushes and closes the database") drops the error of its flush; `StopLosesOne` names that exception.

Four more readings of the texts are too strong and not claimed: that every window lasts 24 s, or collects that long
(above); that clips on Twitch are 30 s apart (the cooldown runs from the decision, and
a clip may be made much later); that a broadcaster has one cooldown (it is kept for the name
as published, and `/simulate` does not fold case); and that a login is asked for only
when the token is missing (two failed requests are enough).

## 4. Fairness

* `FeatureWindows`: weak fairness of the ticker and of the poll loop, one goroutine that
  only waits for them. Nothing forces a message to arrive.
* `ClipDecision`: weak fairness of each step of the handler: the subscription has its own
  goroutine and each HTTP client has a time limit. The wait for a login has no fairness, as
  `WaitForCode` waits without limit; `WindowAcked` says so.
* `ElasticIndexer`: weak fairness of the worker: its requests have a time limit and its
  ticker fires again and again.
* `TokenManager`: weak fairness of a caller's steps and strong fairness of `Lock`, because a
  Go mutex is handed to a goroutine that has waited for a millisecond. `Redirect` has none.

* `IngestClient`: weak fairness of the read loop, whose publishes go to a server in the same
  process, and of the second half of `Close`. Nothing makes Twitch send, take or drop anything.
* `CallbackServer`: weak fairness of each handler, of a login's wait (which ends when a result or the
  deadline is there) and of `Shutdown`. The user and the browser need do nothing.
* `ChatCli`: weak fairness of the sqlite consumer, of the indexer's worker and of the way out of `main`.

No other action is fair. Liveness is model-checked only.

## 5. Proofs

All theorems hold for every value of the constants under the modules' named assumptions.

* `FeatureWindowsProofs`: the invariants and `WindowsCollect`. `Conservation` is strengthened by
  "messages in hand, in buffers and in windows are at most `received`, and those of a buffer are newer
  than those of the windows of its channel". `WindowsInOrder` needs that the last window of a
  channel ends no later than the open one starts, also when the wall clock was set back: the next
  window starts at the tick, and a tick closes a window only an interval after its start. `WindowsCollect` needs
  `OpenedBeforeTicks`: no window starts, by its own account, before the window before it was opened.
* `ClipDecisionProofs`: `AttemptsSpaced` follows from "the cooldown of a name ends a cooldown
  after each of its attempts or later"; `RefusedAfterAttempt` from "a cooldown was set by an
  attempt"; `AckedWereDecided` from "the window in the handler was decided once `pc` is past the
  decision". `DecidedOnce` and `StatusNeverGoesBack` follow from `FirstInLine`: a window in the queue
  that was not pushed again is newer than every window before it there, every one decided and every one
  `/status` shows. Publishing keeps it, since a new window is the newest; a copy pushed again is
  exempt; and taking the head of the queue moves a smaller number to the decided ones. `ImplementsDelivery` is the
  refinement of `Delivery`. The step that needs an invariant is the hand-over: the window at the head may be
  taken only if it was copied or every older one is acked or copied. That follows from `FirstInLine`
  and `NoneLost` (every window published is acked, in hand or in the queue), since an older window that is
  neither would be in the queue behind a newer one. `NoneLost` is a theorem of its own.
* `SQLiteStoreProofs`: the invariants, and `StoreImplementsChatLog`: the initial state maps
  to `ChatLog`'s, a flush that took effect to `Store` or `AcceptAndStore` whatever it
  reported, the end of a process to `Lose`, a copy or a failed flush to a stutter.
* `TokenManagerProofs`: `TypeOK` contains the exclusion of the mutex. The invariant adds that
  a caller that validates or refreshes works on the manager's token, that a login's pair is newer than any
  before, that replaced pairs are older than the token, and that what is about to be saved is the newest pair.
  With that `FileNotBehind` is inductive: each step of `auth-cli` leaves a pair that is new enough or a loss
  (`CliStep`). `TokenNeverGoesBack` follows step by step.

* `ElasticIndexerProofs`: `Accounted` needs only the types and that a caller about to send has been
  called: each step moves a document from one term of the sum to the next (`StepCounts`).
  `PostedOnce` is inductive with `Past`: what is in the channel, in the batch or posted has a number
  up to the last offered, and below it while the caller of that kind is about to send. `CloseCounts`
  says what `Close` keeps of its promise: on return nothing taken from the channel is unposted, and
  what is not counted was refused, is in a caller's hands or was sent after the drain. `ImplementsDocumentLog`
  is the refinement of `DocumentLog`: `Offer` maps to `Offer`, a `Send` that finds the channel full to `Drop`, `FlushBatch` to
  `Post`, `SwapClosed` and `WaitWorker` to the two ends of closing, and moves between caller, channel and batch to
  stutters. It needs `OrderInv`: numbers of a kind rise along batch, channel and caller's hand in this order,
  so that a batch is always the oldest of what is pending.
* `CallbackServerProofs`: `PageBeforeReturn` is strengthened by "a result in the channel, or one that
  decided, is from a handler that is past its send, and handlers are killed only with their
  process". `ImplementsLogin` is the refinement: `Start` maps to `Begin`, `Redirect` to `Come`,
  `ReceiveResult` and `TimeOut` to `End`, `Quit` to `Quit` if the process was listening, and the rest to
  stutters, as the handlers only pass on what came. `CodeFromOwnPage`
  says what the state parameter is for, over all logins and both programs: a login that ended with a
  code had a redirect from its own page.
* `IngestClientProofs`: `TypeOK`; `ChannelsAgree` from "of the lines about a channel on their way one is the
  last, and the list is as Twitch will have it after that one", which `Join`, `Part` and each line Twitch
  takes keep; `ChatAsSaid` from "what was published, followed by what is in hand, is what was said";
  `PingsAccounted` from the same sum with "or the connection was never open" added, and from what taking
  the first payload, adding one at the end and losing some at the end do to the number of places where PINGs are
  (`PlacesFirst`, `PlacesAppended`, `PlacesPrefix`).
  The fold that strings payloads together is recursive in the community modules; the proof takes it
  from its definition as a function over finite sets of indices (`FlattenFirst`). The parser is a parameter here: the proofs assume of it
  `ParserAssumption` (every line is of one kind, and it is chat exactly when a user said
  something, and then that). For `ParseIRCLine` TLC evaluates the assumption, and the run `ingest`
  checks the same as `ParsedAsSaid`, on its 205 lines. So the theorem is about order and about each message
  being published once, not about parsing.
* `ChatCliProofs`: `UsesStore` and `UsesIndexer` say that every step of the process is one of `SQLiteStore`'s
  and of `ElasticIndexer`'s or leaves them alone, so that the theorems above hold of the process;
  `StoreSame` and `IndexerSame` only identify two instances of one module. So the whole process keeps the promises
  of both parts: `ProgramKeepsChatLog` and `ProgramKeepsDocumentLog`. `TypeOK` adds that no
  consumer is ahead of its stream. `StopLosesOne` follows from three facts: nothing is buffered unless the program
  is up; after `StopConsumers` no handler is called; and at the exit, unless the last flush failed,
  the buffer is empty or holds the one message of a handler that has returned. With the store's
  `Conservation` this gives `StopStores`: all messages accepted but the last are in the
  table. `StopCountsDocuments` follows from `CloseCounts` and a bound on what it leaves open: once
  `closed`, the calls refused and the handlers that still have a document number two at most and
  never more again (`Fewer`), and from the moment the worker finds the channel empty what they send
  counts among the two.

The types of `FeatureWindows`, `ClipDecision`, `SQLiteStore`, `ElasticIndexer`, `TokenManager` and `IngestClient` are
proved here and not checked in runs of their own; what they name of interest (no empty window, the mutex with the
one caller that is inside) holds by these theorems. The constants are assumed to be natural numbers, batches and the channel at least one, the skew that
`normalizeTS` accepts no longer than a window (10 s and 24 s), and no more
windows to be published than `MaxMsgs` (`ChatCliAssumption`; the bound on windows only serves the model).

Only model-checked: the liveness properties (fairness and ENABLED are out of the prover's reach);
`HypeWordsRecognised`, `WindowFeaturesRight` and `ParsedAsSaid`, about folds and recursive operators over
texts, for which a proof would need induction over the text. The four violated
properties are refuted by TLC and need no proof.

## 6. Not modelled

* The predictor's arithmetic and the entropy (floating point), which model file is loaded (decided
  once, before anything runs), and `PollClipStatus` (no caller).
* Stream limits (5 minutes, 32 MB), the limit on unacked messages and the two-minute
  duplicate window of JetStream; messages get lost there only after minutes of standstill.
* In the parser: signs and overflow of numbers, and bytes that are no text.
* In `chat-cli`: the display and the commands that only print. `/clip` is a caller of `TokenManager`; it
  has no part in the cooldown.
* Scripts, dashboards, deployment files and the reading of `.env`.

## 7. Plan

Done, in this order: `FeatureWindows`, `ClipDecision`, `ChatLog` and `SQLiteStore`, `ElasticIndexer`,
`TokenManager`; then `IngestClient` with `IRCParser`, `CallbackServer` with `Login`, `ChatCli`, and `Features`. To
come:

1. Proofs for `ElasticIndexer`, `CallbackServer`, `IngestClient` and `ChatCli`: done. Every
   invariant and action property of the runs is a theorem but for the three about texts.
2. `DocumentLog` and `Delivery`, the promises of the indexer and of the bus, and theorems that use the
   parts together (`ProgramKeepsChatLog`, `ProgramKeepsDocumentLog`): done.
3. Left: a stream with its limits and its duplicate window between publisher and consumers, of which
   `NoDuplicateIds` is the part about windows.
