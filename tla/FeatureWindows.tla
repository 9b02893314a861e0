--------------------------- MODULE FeatureWindows ---------------------------
(***************************************************************************)
(* The features consumer: features.Monitor (monitor.go) fed by the chat    *)
(* subscription of the pipeline (consumers.go).  Chat is collected per     *)
(* channel; a poll loop closes the windows that have reached BatchInterval *)
(* and publishes one feature vector per non-empty window.                  *)
(*                                                                         *)
(* One unit of time is one PollInterval.  All times are wall-clock         *)
(* readings: the code takes time.Now().UTC() and t.UTC(), which strip the  *)
(* monotonic part, so the clock may also be stepped (ClockStep).           *)
(*                                                                         *)
(* A message is its arrival number, a buffer or a window the set of the    *)
(* arrival numbers it holds: the features are functions of those messages, *)
(* and whether they are the right ones is what is checked here.            *)
(***************************************************************************)
EXTENDS Integers, FiniteSets

CONSTANTS
  Channels,       \* the channels chat arrives on
  BatchInterval,  \* length of a window (24 s)
  MaxSkew,        \* largest difference normalizeTS accepts (10 s)
  Offsets,        \* how far a message timestamp may be from the local clock
  ClockSteps,     \* by how much the wall clock may be stepped; {} for never
  MaxClock,       \* bound: the last wall-clock reading
  MaxMsgs,        \* bound: messages received
  None            \* no window open, no tick waiting

ASSUME FeatureWindowsAssumption ==
  /\ BatchInterval \in Nat \ {0}
  /\ MaxSkew \in 0..BatchInterval
  /\ Offsets \subseteq Int
  /\ ClockSteps \subseteq Int
  /\ MaxClock \in Nat
  /\ MaxMsgs \in Nat
  /\ None \notin Int
  /\ None \notin [chan : Channels, num : Nat \ {0}, ts : Int, at : Int]

VARIABLES
  clock,       \* the wall clock
  ticker,      \* ticker.C, a channel of capacity one: the tick waiting, or None
  running,     \* the poll loop has not seen ctx.Done()
  inHand,      \* the message the chat subscription's goroutine is handling, or None
  batchStart,  \* per channel: start of the open window
  buffers,     \* per channel: messages of the open window
  openedAt,    \* history: when the open window of a channel was opened, by the
               \* arrival of a message or by a flush; None if the clock was set back since
  openedBefore, \* history: the same of the window before it; for a first window,
               \* the earliest start it may have been given
  received,    \* history: number of messages received
  arrived,     \* history: per channel, the messages received
  windows      \* history: every window closed with messages in it

vars == <<clock, ticker, running, inHand, batchStart, buffers,
          openedAt, openedBefore, received, arrived, windows>>

opening == <<openedAt, openedBefore>>

WindowType == [chan : Channels, start : Int, end : Int,
               msgs : (SUBSET (Nat \ {0})) \ {{}}, sent : BOOLEAN]

MessageType == [chan : Channels, num : Nat \ {0}, ts : Int, at : Int]

WindowsOf(c) == {w \in windows : w.chan = c}

\* The Nats-Msg-Id a window is published under, <channel>_<WindowEnd>: what
\* follows the last "_" is the number, so it stands for the pair.
MsgId(w) == <<w.chan, w.end>>
-----------------------------------------------------------------------------
Distance(a, b) == IF a < b THEN b - a ELSE a - b

\* Mutant: the comparison loses its Abs().
NormalizeTSNoAbs(ts, now) == IF ts - now > MaxSkew THEN now ELSE ts

\* A timestamp too far from the local clock is replaced by the clock reading.
\* (A zero timestamp is also replaced; the parser never leaves one.)
NormalizeTS(ts, now) == IF Distance(now, ts) > MaxSkew THEN now ELSE ts

\* Mutant: every message restarts the window.
BatchStartOnChatSliding(c, ts) == [batchStart EXCEPT ![c] = ts]

\* Only the first message a channel ever has opens a window by itself.
BatchStartOnChat(c, ts) ==
  IF batchStart[c] = None THEN [batchStart EXCEPT ![c] = ts] ELSE batchStart

\* The subscription's goroutine takes the next message and normalizes its
\* timestamp.  It has one message in hand at a time.
Receive(c, ts) ==
  /\ running
  /\ inHand = None
  /\ received < MaxMsgs
  /\ received' = received + 1
  /\ arrived' = [arrived EXCEPT ![c] = @ \cup {received'}]
  /\ inHand' = [chan |-> c, num |-> received', ts |-> NormalizeTS(ts, clock), at |-> clock]
  /\ UNCHANGED <<clock, ticker, running, batchStart, buffers, opening, windows>>

\* Monitor.OnChat once it holds the mutex: a flush may have come in between.
OnChat ==
  /\ inHand # None
  /\ LET c == inHand.chan IN
       /\ batchStart' = BatchStartOnChat(c, inHand.ts)
       /\ IF batchStart[c] = None
            THEN /\ openedAt' = [openedAt EXCEPT ![c] = inHand.at]
                 /\ openedBefore' = [openedBefore EXCEPT ![c] = inHand.at - MaxSkew]
            ELSE UNCHANGED opening
       /\ buffers' = [buffers EXCEPT ![c] = @ \cup {inHand.num}]
  /\ inHand' = None
  /\ UNCHANGED <<clock, ticker, running, received, arrived, windows>>
-----------------------------------------------------------------------------
Due(c, t) == batchStart[c] # None /\ t - batchStart[c] >= BatchInterval

HasMessages(c) == buffers[c] # {}

\* Mutant: the maps are reallocated, dropping the windows that were not due.
BuffersAfterFlushAll(due) == [c \in Channels |-> IF due # {} THEN {} ELSE buffers[c]]

BuffersAfterFlush(due) == [c \in Channels |-> IF c \in due THEN {} ELSE buffers[c]]

\* Mutant: the next window starts one interval after the last, not at the flush.
BatchStartAfterFlushGrid(due, t) ==
  [c \in Channels |-> IF c \in due THEN batchStart[c] + BatchInterval ELSE batchStart[c]]

\* Mutant: the next window starts at the flush only if the last had messages.
BatchStartAfterFlushFull(due, t) ==
  [c \in Channels |-> IF c \in due /\ HasMessages(c) THEN t ELSE batchStart[c]]

BatchStartAfterFlush(due, t) == [c \in Channels |-> IF c \in due THEN t ELSE batchStart[c]]

ClosedWindow(c, t, ok) ==
  [chan |-> c, start |-> batchStart[c], end |-> t,
   msgs |-> buffers[c], sent |-> ok]

\* Monitor.flushReady for the tick taken from ticker.C, under the mutex.  The
\* tick may be older than the clock: a loop held up by the mutex or a publish
\* finds the tick that filled the channel.  The error of PublishFeatures is
\* dropped after the buffer has been cleared, so a failed window is gone.
FlushReady ==
  /\ running
  /\ ticker # None
  /\ LET due == {c \in Channels : Due(c, ticker)} IN
       /\ \E failed \in SUBSET due :
            windows' = windows \cup
              {ClosedWindow(c, ticker, c \notin failed) : c \in {d \in due : HasMessages(d)}}
       /\ buffers' = BuffersAfterFlush(due)
       /\ batchStart' = BatchStartAfterFlush(due, ticker)
       /\ openedAt' = [c \in Channels |-> IF c \in due THEN clock ELSE openedAt[c]]
       /\ openedBefore' = [c \in Channels |-> IF c \in due THEN openedAt[c] ELSE openedBefore[c]]
  /\ ticker' = None
  /\ UNCHANGED <<clock, running, inHand, received, arrived>>

\* The runtime's ticker: the tick is dropped when one is waiting.  At MaxClock
\* time stands still but the ticker goes on.
Tick ==
  /\ running
  /\ clock < MaxClock \/ ticker = None
  /\ clock' = IF clock < MaxClock THEN clock + 1 ELSE clock
  /\ ticker' = IF ticker = None THEN clock' ELSE ticker
  /\ UNCHANGED <<running, inHand, batchStart, buffers, opening, received, arrived, windows>>

\* The histories of the openings say nothing any more.
Forget ==
  /\ openedAt' = [c \in Channels |-> None]
  /\ openedBefore' = [c \in Channels |-> None]

\* The wall clock is set forwards or backwards.
ClockStep ==
  /\ running
  /\ \E d \in ClockSteps : clock' = clock + d /\ clock' \in 0..MaxClock
  /\ IF clock' < clock THEN Forget ELSE UNCHANGED opening
  /\ UNCHANGED <<ticker, running, inHand, batchStart, buffers, received, arrived, windows>>

\* ctx is cancelled: StartPollLoop returns and the open windows stay unpublished.
Stop ==
  /\ running
  /\ running' = FALSE
  /\ Forget
  /\ UNCHANGED <<clock, ticker, inHand, batchStart, buffers, received, arrived, windows>>

Init ==
  /\ clock = 0
  /\ ticker = None
  /\ running = TRUE
  /\ inHand = None
  /\ batchStart = [c \in Channels |-> None]
  /\ buffers = [c \in Channels |-> {}]
  /\ openedAt = [c \in Channels |-> None]
  /\ openedBefore = [c \in Channels |-> None]
  /\ received = 0
  /\ arrived = [c \in Channels |-> {}]
  /\ windows = {}

Next ==
  \/ \E c \in Channels, d \in Offsets : Receive(c, clock + d)
  \/ OnChat
  \/ FlushReady
  \/ Tick
  \/ ClockStep
  \/ Stop

Spec == Init /\ [][Next]_vars

\* The runtime keeps firing the ticker and the poll loop keeps receiving.
FairSpec == Spec /\ WF_vars(Tick) /\ WF_vars(FlushReady)
-----------------------------------------------------------------------------
\* Every variable keeps its type, and no window without messages is published.
TypeOK ==
  /\ clock \in Int
  /\ ticker \in Int \cup {None}
  /\ running \in BOOLEAN
  /\ inHand \in MessageType \cup {None}
  /\ batchStart \in [Channels -> Int \cup {None}]
  /\ buffers \in [Channels -> SUBSET (Nat \ {0})]
  /\ openedAt \in [Channels -> Int \cup {None}]
  /\ openedBefore \in [Channels -> Int \cup {None}]
  /\ received \in Nat
  /\ arrived \in [Channels -> SUBSET (1..received)]
  /\ windows \subseteq WindowType

InHand(c) == IF inHand # None /\ inHand.chan = c THEN {inHand.num} ELSE {}

\* Every message received is in exactly one place: in hand, in the open window
\* of its channel or in one closed window.  None is dropped, counted in two
\* windows or moved to another channel when a window is closed while others
\* stay open or while a message waits for the mutex.
Conservation ==
  \A c \in Channels :
    /\ InHand(c) \cup buffers[c] \cup UNION {w.msgs : w \in WindowsOf(c)} = arrived[c]
    /\ InHand(c) \cap buffers[c] = {}
    /\ \A w \in WindowsOf(c) : w.msgs \cap (InHand(c) \cup buffers[c]) = {}
    /\ \A v, w \in WindowsOf(c) : v # w => v.msgs \cap w.msgs = {}

Before(v, w) ==
  /\ v.end <= w.start
  /\ v.end + BatchInterval <= w.end
  /\ \A m \in v.msgs, n \in w.msgs : m < n

\* The windows of a channel are disjoint in time, a full interval apart and in
\* the order of arrival, however late the ticks are and however the wall clock
\* is set.
WindowsInOrder ==
  \A c \in Channels : \A v, w \in WindowsOf(c) : v # w => Before(v, w) \/ Before(w, v)

\* How long a window collects before the tick t that closes it is fired.  A first
\* window starts at a message timestamp, up to MaxSkew before the message arrived.
\* A later one starts at the tick of the flush that opened it, which may be so
\* late that the next tick closes it again; but a tick that has waited since
\* before the opening never does, and together with the window before it it
\* collects for a whole interval: lateness never closes three windows in a row.
Collected(c, t) ==
  /\ openedAt[c] # None => t >= openedAt[c]
  /\ openedBefore[c] # None => t - openedBefore[c] >= BatchInterval

\* Every window that is closed, empty or not, has collected that long, unless the
\* wall clock was set back since the window before it was opened.
WindowsCollect ==
  [][ticker # None /\ ticker' = None =>
       \A c \in Channels : Due(c, ticker) => Collected(c, ticker)]_vars

\* A message is moved to a closed window once the clock is no longer set back,
\* unless the program stops: neither later messages nor a flush of the other
\* channels puts off the end of a window.  (Its end must be within the bound on
\* the clock.)
MessageFlushed ==
  <>[][clock <= clock']_vars =>
    \A c \in Channels : \A n \in 1..MaxMsgs :
      (n \in buffers[c] /\ batchStart[c] + BatchInterval <= MaxClock)
        ~> (n \notin buffers[c] \/ ~running)
=============================================================================
