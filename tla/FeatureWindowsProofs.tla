------------------------ MODULE FeatureWindowsProofs ------------------------
(***************************************************************************)
(* Proofs about FeatureWindows for every set of channels, every window     *)
(* length, every accepted skew and every way the clock may be stepped.     *)
(***************************************************************************)
EXTENDS FeatureWindows, TLAPS

\* The closed windows of a channel precede its open one in time and in order of
\* arrival, and the open one precedes the message in hand.
OpenAfterClosed ==
  \A c \in Channels :
    /\ \A m \in buffers[c], n \in InHand(c) : m < n
    /\ \A w \in WindowsOf(c) :
         /\ batchStart[c] # None
         /\ w.end <= batchStart[c]
         /\ \A m \in w.msgs, n \in buffers[c] \cup InHand(c) : m < n

\* The open window of a channel starts no earlier than the window before it was
\* opened; and it was opened at most MaxSkew after its start, by a message, or by
\* a flush, so that every tick still to be taken is later.
OpenedBeforeTicks ==
  /\ inHand # None => inHand.at <= inHand.ts + MaxSkew
  /\ \A c \in Channels :
       /\ openedBefore[c] # None => batchStart[c] \in Int /\ openedBefore[c] <= batchStart[c]
       /\ openedAt[c] # None =>
            \/ batchStart[c] \in Int /\ openedAt[c] <= batchStart[c] + MaxSkew
            \/ openedAt[c] <= clock /\ (ticker # None => openedAt[c] <= ticker)
-----------------------------------------------------------------------------
\* An accepted or replaced timestamp is within MaxSkew of the clock.
LEMMA NormalizedInSkew ==
  ASSUME NEW ts \in Int, NEW now \in Int
  PROVE  /\ NormalizeTS(ts, now) \in Int
         /\ now <= NormalizeTS(ts, now) + MaxSkew
BY FeatureWindowsAssumption DEF NormalizeTS, Distance

\* The types of the variables are kept by every step.
THEOREM TypeCorrect == Spec => []TypeOK
<1>1. Init => TypeOK
  BY FeatureWindowsAssumption DEF Init, TypeOK, WindowType
<1>2. TypeOK /\ [Next]_vars => TypeOK'
  <2> SUFFICES ASSUME TypeOK, [Next]_vars PROVE TypeOK'
    OBVIOUS
  <2> USE FeatureWindowsAssumption
  <2>1. ASSUME NEW c \in Channels, NEW d \in Offsets, Receive(c, clock + d) PROVE TypeOK'
    <3>1. clock \in Int /\ clock + d \in Int
      BY DEF TypeOK
    <3>2. inHand' \in MessageType
      BY <2>1, <3>1, NormalizedInSkew DEF Receive, TypeOK, MessageType
    <3>3. received' \in Nat /\ arrived' \in [Channels -> SUBSET (1..received')]
      BY <2>1 DEF Receive, TypeOK
    <3> QED
      BY <2>1, <3>2, <3>3 DEF Receive, TypeOK, opening
  <2>2. CASE OnChat
    <3>1. inHand \in MessageType
      BY <2>2 DEF OnChat, TypeOK
    <3>2. inHand.at - MaxSkew \in Int
      BY <3>1 DEF MessageType
    <3> QED
      BY <2>2, <3>1, <3>2 DEF OnChat, TypeOK, MessageType, BatchStartOnChat, opening
  <2>3. CASE FlushReady
    <3>1. ticker \in Int
      BY <2>3 DEF FlushReady, TypeOK
    <3>2. ASSUME NEW c \in Channels, Due(c, ticker), HasMessages(c), NEW ok \in BOOLEAN
          PROVE  ClosedWindow(c, ticker, ok) \in WindowType
      BY <3>1, <3>2 DEF ClosedWindow, WindowType, TypeOK, Due, HasMessages
    <3>3. windows' \subseteq WindowType
      BY <2>3, <3>2 DEF FlushReady, TypeOK
    <3> QED
      BY <2>3, <3>1, <3>3 DEF FlushReady, TypeOK, BuffersAfterFlush, BatchStartAfterFlush
  <2>4. CASE Tick
    BY <2>4 DEF Tick, TypeOK, opening
  <2>5. CASE ClockStep
    BY <2>5 DEF ClockStep, Forget, TypeOK, opening
  <2>6. CASE Stop
    BY <2>6 DEF Stop, Forget, TypeOK
  <2>7. CASE UNCHANGED vars
    BY <2>7 DEF vars, TypeOK
  <2> QED
    BY <2>1, <2>2, <2>3, <2>4, <2>5, <2>6, <2>7 DEF Next
<1> QED
  BY <1>1, <1>2, PTL DEF Spec
-----------------------------------------------------------------------------
\* What a flush adds: at most one window per channel, of a channel that is due.
LEMMA FlushCloses ==
  ASSUME TypeOK, FlushReady
  PROVE  /\ ticker \in Int
         /\ \A w \in windows : w \in windows'
         /\ \A w \in windows' : w \in windows \/
              /\ w.chan \in Channels /\ Due(w.chan, ticker)
              /\ w.start = batchStart[w.chan] /\ w.end = ticker
              /\ w.msgs = buffers[w.chan]
         /\ \A v, w \in windows' : v \notin windows /\ w \notin windows /\ v.chan = w.chan => v = w
         /\ \A c \in Channels : Due(c, ticker) /\ HasMessages(c) =>
              \E w \in windows' : w.chan = c /\ w.msgs = buffers[c]
<1> DEFINE due == {c \in Channels : Due(c, ticker)}
<1>1. PICK failed \in SUBSET due :
        windows' = windows \cup
          {ClosedWindow(c, ticker, c \notin failed) : c \in {d \in due : HasMessages(d)}}
  BY DEF FlushReady
<1>2. ticker \in Int
  BY DEF FlushReady, TypeOK
<1>3. \A w \in windows : w \in windows'
  BY <1>1
<1>4. \A w \in windows' : w \in windows \/ \E c \in due : w = ClosedWindow(c, ticker, c \notin failed)
  BY <1>1
<1>5. \A c \in due : HasMessages(c) => ClosedWindow(c, ticker, c \notin failed) \in windows'
  BY <1>1
<1>6. \A v, w \in windows' : v \notin windows /\ w \notin windows /\ v.chan = w.chan => v = w
  BY <1>4 DEF ClosedWindow
<1>7. \A c \in Channels : Due(c, ticker) /\ HasMessages(c) =>
        \E w \in windows' : w.chan = c /\ w.msgs = buffers[c]
  <2> SUFFICES ASSUME NEW c \in Channels, Due(c, ticker), HasMessages(c)
               PROVE  \E w \in windows' : w.chan = c /\ w.msgs = buffers[c]
    OBVIOUS
  <2>1. ClosedWindow(c, ticker, c \notin failed) \in windows'
    BY <1>5
  <2> QED
    BY <2>1 DEF ClosedWindow
<1>8. \A w \in windows' : w \in windows \/
        /\ w.chan \in Channels /\ Due(w.chan, ticker)
        /\ w.start = batchStart[w.chan] /\ w.end = ticker
        /\ w.msgs = buffers[w.chan]
  BY <1>4 DEF ClosedWindow
<1> QED
  BY <1>2, <1>3, <1>6, <1>7, <1>8

\* The buffers, window starts and histories after a flush, channel by channel.
LEMMA FlushResets ==
  ASSUME TypeOK, FlushReady, NEW c \in Channels
  PROVE  /\ Due(c, ticker) => /\ buffers'[c] = {} /\ batchStart'[c] = ticker
                              /\ openedAt'[c] = clock /\ openedBefore'[c] = openedAt[c]
         /\ ~Due(c, ticker) => /\ buffers'[c] = buffers[c]
                               /\ batchStart'[c] = batchStart[c]
                               /\ openedAt'[c] = openedAt[c]
                               /\ openedBefore'[c] = openedBefore[c]
         /\ InHand(c)' = InHand(c)
         /\ arrived' = arrived
BY DEF FlushReady, TypeOK, BuffersAfterFlush, BatchStartAfterFlush, InHand

\* What OnChat changes: one channel's buffer, and its start if it had none.
LEMMA OnChatMoves ==
  ASSUME TypeOK, OnChat, NEW c \in Channels
  PROVE  /\ InHand(c)' = {}
         /\ buffers'[c] = buffers[c] \cup InHand(c)
         /\ \/ UNCHANGED <<batchStart[c], openedAt[c], openedBefore[c]>>
            \/ /\ batchStart[c] = None /\ batchStart'[c] = inHand.ts
               /\ openedAt'[c] = inHand.at /\ openedBefore'[c] = inHand.at - MaxSkew
         /\ arrived' = arrived /\ windows' = windows
BY DEF OnChat, TypeOK, MessageType, BatchStartOnChat, InHand, opening

\* What Receive changes: the message in hand is newer than any other.
LEMMA ReceiveNumbers ==
  ASSUME TypeOK, NEW d \in Channels, NEW ts \in Int, Receive(d, ts), NEW c \in Channels
  PROVE  /\ InHand(c) = {}
         /\ InHand(c)' = IF c = d THEN {received + 1} ELSE {}
         /\ arrived'[c] = arrived[c] \cup InHand(c)'
         /\ arrived[c] \subseteq 1..received
         /\ UNCHANGED <<buffers, batchStart, windows>>
<1>1. inHand = None /\ UNCHANGED <<buffers, batchStart, windows>>
  BY DEF Receive
<1>2. inHand' # None /\ inHand'.chan = d /\ inHand'.num = received + 1
  <2>1. inHand' = [chan |-> d, num |-> received + 1, ts |-> NormalizeTS(ts, clock), at |-> clock]
    BY DEF Receive
  <2>2. inHand' \in MessageType
    BY <2>1, NormalizedInSkew DEF TypeOK, MessageType
  <2> QED
    BY <2>1, <2>2, FeatureWindowsAssumption DEF MessageType
<1>3. arrived'[c] = arrived[c] \cup (IF c = d THEN {received + 1} ELSE {})
  BY DEF Receive, TypeOK
<1> QED
  BY <1>1, <1>2, <1>3 DEF InHand, TypeOK

\* Every other step leaves alone what the invariants below talk about.
LEMMA OtherSteps ==
  ASSUME Tick \/ ClockStep \/ Stop \/ UNCHANGED vars
  PROVE  UNCHANGED <<inHand, buffers, batchStart, arrived, windows>>
BY DEF Tick, ClockStep, Stop, vars
-----------------------------------------------------------------------------
\* Conservation: no message is dropped or counted twice.
THEOREM ConservationCorrect == Spec => []Conservation
<1>1. Init => Conservation
  BY DEF Init, Conservation, WindowsOf, InHand
<1>2. TypeOK /\ TypeOK' /\ Conservation /\ [Next]_vars => Conservation'
  <2> SUFFICES ASSUME TypeOK, TypeOK', Conservation, [Next]_vars PROVE Conservation'
    OBVIOUS
  <2>1. ASSUME NEW d \in Channels, NEW o \in Offsets, Receive(d, clock + o) PROVE Conservation'
    <3>1. clock + o \in Int
      BY FeatureWindowsAssumption DEF TypeOK
    <3>2. received \in Nat
      BY DEF TypeOK
    <3> QED
      BY <2>1, <3>1, <3>2, ReceiveNumbers DEF Conservation, WindowsOf
  <2>2. CASE OnChat
    BY <2>2, OnChatMoves DEF Conservation, WindowsOf
  <2>3. CASE FlushReady
    <3> SUFFICES ASSUME NEW c \in Channels
                 PROVE  /\ (InHand(c) \cup buffers[c] \cup UNION {w.msgs : w \in WindowsOf(c)} = arrived[c])'
                        /\ (InHand(c) \cap buffers[c] = {})'
                        /\ \A w \in WindowsOf(c)' : w.msgs \cap (InHand(c) \cup buffers[c])' = {}
                        /\ \A v, w \in WindowsOf(c)' : v # w => v.msgs \cap w.msgs = {}
      BY DEF Conservation
    <3>1. WindowsOf(c) \subseteq WindowsOf(c)'
      BY <2>3, FlushCloses DEF WindowsOf
    <3>2. CASE ~Due(c, ticker)
      <4>1. WindowsOf(c)' = WindowsOf(c)
        BY <2>3, <3>1, <3>2, FlushCloses DEF WindowsOf
      <4> QED
        BY <2>3, <3>2, <4>1, FlushResets DEF Conservation
    <3>3. CASE Due(c, ticker)
      <4>1. \A w \in WindowsOf(c)' : w \in WindowsOf(c) \/ (w \notin windows /\ w.msgs = buffers[c])
        BY <2>3, FlushCloses DEF WindowsOf
      <4>2. \A v, w \in WindowsOf(c)' : v \notin windows /\ w \notin windows => v = w
        BY <2>3, FlushCloses DEF WindowsOf
      <4>3. buffers[c] = {} \/ \E w \in WindowsOf(c)' : w.msgs = buffers[c]
        BY <2>3, <3>3, FlushCloses DEF WindowsOf, HasMessages
      <4>4. buffers'[c] = {} /\ InHand(c)' = InHand(c) /\ arrived'[c] = arrived[c]
        BY <2>3, <3>3, FlushResets
      <4>5. UNION {w.msgs : w \in WindowsOf(c)'} = buffers[c] \cup UNION {w.msgs : w \in WindowsOf(c)}
        BY <3>1, <4>1, <4>3
      <4> QED
        BY <4>1, <4>2, <4>4, <4>5 DEF Conservation, WindowsOf
    <3> QED
      BY <3>2, <3>3
  <2>4. CASE Tick \/ ClockStep \/ Stop \/ UNCHANGED vars
    BY <2>4, OtherSteps DEF Conservation, WindowsOf, InHand
  <2> QED
    BY <2>1, <2>2, <2>3, <2>4 DEF Next
<1> QED
  BY <1>1, <1>2, TypeCorrect, PTL DEF Spec
-----------------------------------------------------------------------------
\* WindowsInOrder, from the order of the open window after the closed ones.
THEOREM WindowsInOrderCorrect == Spec => []WindowsInOrder
<1> DEFINE Ordered == OpenAfterClosed /\ WindowsInOrder
<1>1. Init => Ordered
  BY DEF Init, OpenAfterClosed, WindowsInOrder, WindowsOf, InHand
<1>2. TypeOK /\ TypeOK' /\ Conservation /\ Ordered /\ [Next]_vars => Ordered'
  <2> SUFFICES ASSUME TypeOK, TypeOK', Conservation, Ordered, [Next]_vars PROVE Ordered'
    OBVIOUS
  <2>1. ASSUME NEW d \in Channels, NEW o \in Offsets, Receive(d, clock + o) PROVE Ordered'
    <3>1. clock + o \in Int /\ received \in Nat
      BY FeatureWindowsAssumption DEF TypeOK
    <3>2. WindowsInOrder'
      BY <2>1, <3>1, ReceiveNumbers DEF WindowsInOrder, WindowsOf, Before
    <3>3. \A c \in Channels : \A m \in buffers[c], n \in InHand(c)' : m < n
      BY <2>1, <3>1, ReceiveNumbers DEF Conservation
    <3>4. \A c \in Channels : \A w \in WindowsOf(c) : \A m \in w.msgs, n \in InHand(c)' : m < n
      BY <2>1, <3>1, ReceiveNumbers DEF Conservation
    <3> QED
      BY <2>1, <3>1, <3>2, <3>3, <3>4, ReceiveNumbers DEF OpenAfterClosed, WindowsOf
  <2>2. CASE OnChat
    <3>1. WindowsInOrder'
      BY <2>2, OnChatMoves DEF WindowsInOrder, WindowsOf, Before
    <3>2. OpenAfterClosed'
      BY <2>2, OnChatMoves DEF OpenAfterClosed, WindowsOf
    <3> QED
      BY <3>1, <3>2
  <2>3. CASE FlushReady
    <3> SUFFICES ASSUME NEW c \in Channels
                 PROVE  /\ \A m \in buffers'[c], n \in InHand(c)' : m < n
                        /\ \A w \in WindowsOf(c)' :
                             /\ batchStart'[c] # None
                             /\ w.end <= batchStart'[c]
                             /\ \A m \in w.msgs, n \in buffers'[c] \cup InHand(c)' : m < n
                        /\ \A v, w \in WindowsOf(c)' : v # w => Before(v, w) \/ Before(w, v)
      BY DEF OpenAfterClosed, WindowsInOrder, WindowsOf, Before
    <3>1. CASE ~Due(c, ticker)
      <4>1. WindowsOf(c)' = WindowsOf(c)
        BY <2>3, <3>1, FlushCloses DEF WindowsOf
      <4> QED
        BY <2>3, <3>1, <4>1, FlushResets DEF OpenAfterClosed, WindowsInOrder
    <3>2. CASE Due(c, ticker)
      <4>1. \A w \in WindowsOf(c)' : w \in WindowsOf(c) \/
              (/\ w \notin windows /\ w.start = batchStart[c] /\ w.end = ticker
               /\ w.msgs = buffers[c])
        BY <2>3, FlushCloses DEF WindowsOf
      <4>2. \A v, w \in WindowsOf(c)' : v \notin windows /\ w \notin windows => v = w
        BY <2>3, FlushCloses DEF WindowsOf
      <4>3. buffers'[c] = {} /\ batchStart'[c] = ticker /\ InHand(c)' = InHand(c)
        BY <2>3, <3>2, FlushResets
      <4>4. ticker \in Int /\ batchStart[c] \in Int /\ batchStart[c] + BatchInterval <= ticker
        BY <2>3, <3>2, FlushCloses, FeatureWindowsAssumption DEF Due, TypeOK
      <4>5. \A w \in WindowsOf(c) : w.end \in Int /\ w.end <= batchStart[c]
        BY DEF OpenAfterClosed, WindowsOf, TypeOK, WindowType
      <4>6. \A w \in WindowsOf(c)' : w.end <= ticker
        BY <4>1, <4>4, <4>5, FeatureWindowsAssumption
      <4>7. ticker # None
        BY <4>4, FeatureWindowsAssumption
      <4>8. \A w \in WindowsOf(c)' : \A m \in w.msgs, n \in InHand(c) : m < n
        BY <4>1 DEF OpenAfterClosed
      <4>9. ASSUME NEW v \in WindowsOf(c), NEW w \in WindowsOf(c)', w \notin windows
            PROVE  Before(v, w)
        <5>1. w.start = batchStart[c] /\ w.end = ticker /\ w.msgs = buffers[c]
          BY <4>1, <4>9 DEF WindowsOf
        <5>2. \A m \in v.msgs, n \in buffers[c] : m < n
          BY DEF OpenAfterClosed
        <5> QED
          BY <4>4, <4>5, <5>1, <5>2, FeatureWindowsAssumption DEF Before
      <4>10. \A v, w \in WindowsOf(c)' : v # w => Before(v, w) \/ Before(w, v)
        BY <4>1, <4>2, <4>9 DEF WindowsInOrder
      <4> QED
        BY <4>3, <4>6, <4>7, <4>8, <4>10
    <3> QED
      BY <3>1, <3>2
  <2>4. CASE Tick \/ ClockStep \/ Stop \/ UNCHANGED vars
    BY <2>4, OtherSteps DEF OpenAfterClosed, WindowsInOrder, WindowsOf, InHand, Before
  <2> QED
    BY <2>1, <2>2, <2>3, <2>4 DEF Next
<1> QED
  BY <1>1, <1>2, TypeCorrect, ConservationCorrect, PTL DEF Spec
-----------------------------------------------------------------------------
\* How long a window has collected follows from where its start lies: no earlier
\* than the opening of the window before it.
LEMMA CollectedWhenDue ==
  ASSUME TypeOK, OpenedBeforeTicks, ticker \in Int, NEW c \in Channels, Due(c, ticker)
  PROVE  /\ batchStart[c] \in Int /\ Collected(c, ticker)
<1>1. batchStart[c] \in Int /\ batchStart[c] + BatchInterval <= ticker
  BY FeatureWindowsAssumption DEF Due, TypeOK
<1>2. openedAt[c] \in Int \cup {None} /\ openedBefore[c] \in Int \cup {None} /\ ticker # None
  BY FeatureWindowsAssumption DEF TypeOK
<1>3. ASSUME openedAt[c] # None PROVE ticker >= openedAt[c]
  <2>1. openedAt[c] <= batchStart[c] + MaxSkew \/ openedAt[c] <= ticker
    BY <1>2, <1>3 DEF OpenedBeforeTicks
  <2> QED
    BY <1>1, <1>2, <1>3, <2>1, FeatureWindowsAssumption
<1>4. ASSUME openedBefore[c] # None PROVE ticker - openedBefore[c] >= BatchInterval
  <2>1. openedBefore[c] <= batchStart[c]
    BY <1>4 DEF OpenedBeforeTicks
  <2> QED
    BY <1>1, <1>2, <1>4, <2>1, FeatureWindowsAssumption
<1> QED
  BY <1>1, <1>3, <1>4 DEF Collected

\* The invariant that WindowsCollect rests on.
LEMMA OpenedBeforeTicksInvariant == Spec => []OpenedBeforeTicks
<1>1. Init => OpenedBeforeTicks
  BY DEF Init, OpenedBeforeTicks
<1>2. TypeOK /\ OpenedBeforeTicks /\ [Next]_vars => OpenedBeforeTicks'
  <2> SUFFICES ASSUME TypeOK, OpenedBeforeTicks, [Next]_vars PROVE OpenedBeforeTicks'
    OBVIOUS
  <2> USE FeatureWindowsAssumption
  <2>1. ASSUME NEW d \in Channels, NEW o \in Offsets, Receive(d, clock + o) PROVE OpenedBeforeTicks'
    <3>1. clock \in Int /\ clock + o \in Int
      BY DEF TypeOK
    <3>2. inHand'.at <= inHand'.ts + MaxSkew
      BY <2>1, <3>1, NormalizedInSkew DEF Receive
    <3> QED
      BY <2>1, <3>2 DEF Receive, OpenedBeforeTicks, opening
  <2>2. CASE OnChat
    <3>1. inHand # None /\ inHand' = None /\ UNCHANGED <<clock, ticker>>
      BY <2>2 DEF OnChat
    <3>2. inHand.at \in Int /\ inHand.ts \in Int /\ inHand.at <= inHand.ts + MaxSkew
      BY <3>1 DEF TypeOK, MessageType, OpenedBeforeTicks
    <3>3. inHand.at - MaxSkew <= inHand.ts
      BY <3>2
    <3>4. ASSUME NEW c \in Channels
          PROVE  \/ UNCHANGED <<batchStart[c], openedAt[c], openedBefore[c]>>
                 \/ /\ batchStart'[c] = inHand.ts /\ openedAt'[c] = inHand.at
                    /\ openedBefore'[c] = inHand.at - MaxSkew
      BY <2>2, OnChatMoves
    <3> QED
      BY <3>1, <3>2, <3>3, <3>4 DEF OpenedBeforeTicks
  <2>3. CASE FlushReady
    <3>1. ticker \in Int /\ UNCHANGED <<inHand, clock>> /\ ticker' = None /\ clock \in Int
      BY <2>3, FlushCloses DEF FlushReady, TypeOK
    <3>2. ASSUME NEW c \in Channels, ~Due(c, ticker)
          PROVE  UNCHANGED <<batchStart[c], openedAt[c], openedBefore[c]>>
      BY <2>3, <3>2, FlushResets
    <3>3. ASSUME NEW c \in Channels, Due(c, ticker)
          PROVE  /\ batchStart'[c] = ticker /\ openedAt'[c] = clock
                 /\ openedBefore'[c] # None => openedBefore'[c] <= ticker
      <4>1. openedAt[c] \in Int \cup {None}
        BY DEF TypeOK
      <4>2. openedAt[c] # None => ticker >= openedAt[c]
        BY <3>1, <3>3, CollectedWhenDue DEF Collected
      <4> QED
        BY <2>3, <3>1, <3>3, <4>1, <4>2, FlushResets
    <3>4. ASSUME NEW c \in Channels
          PROVE  /\ openedBefore'[c] # None => batchStart'[c] \in Int /\ openedBefore'[c] <= batchStart'[c]
                 /\ openedAt'[c] # None =>
                      \/ batchStart'[c] \in Int /\ openedAt'[c] <= batchStart'[c] + MaxSkew
                      \/ openedAt'[c] <= clock
      <4>1. CASE Due(c, ticker)
        BY <3>1, <3>3, <4>1
      <4>2. CASE ~Due(c, ticker)
        BY <3>2, <4>2 DEF OpenedBeforeTicks
      <4> QED
        BY <4>1, <4>2
    <3> QED
      BY <3>1, <3>4 DEF OpenedBeforeTicks
  <2>4. CASE Tick
    <3>1. /\ UNCHANGED <<inHand, batchStart, openedAt, openedBefore>>
          /\ clock \in Int /\ clock' \in {clock, clock + 1} /\ ticker' \in {clock', ticker}
          /\ ticker = None => ticker' = clock'
      BY <2>4 DEF Tick, TypeOK, opening
    <3>2. ASSUME NEW c \in Channels, openedAt[c] # None, openedAt[c] <= clock,
                 ticker # None => openedAt[c] <= ticker
          PROVE  openedAt[c] <= clock' /\ openedAt[c] <= ticker'
      <4>1. openedAt[c] \in Int
        BY <3>2 DEF TypeOK
      <4> QED
        BY <3>1, <3>2, <4>1
    <3> QED
      BY <3>1, <3>2 DEF OpenedBeforeTicks
  <2>5. CASE ClockStep
    <3>1. UNCHANGED <<inHand, batchStart, ticker>>
      BY <2>5 DEF ClockStep
    <3>2. CASE openedAt' = [c \in Channels |-> None] /\ openedBefore' = [c \in Channels |-> None]
      BY <3>1, <3>2 DEF OpenedBeforeTicks
    <3>3. CASE UNCHANGED opening /\ ~(clock' < clock)
      <4>1. clock \in Int /\ clock' \in Int
        BY <2>5 DEF ClockStep, TypeOK
      <4>2. \A c \in Channels : openedAt[c] # None /\ openedAt[c] <= clock => openedAt[c] <= clock'
        BY <3>3, <4>1 DEF TypeOK
      <4> QED
        BY <3>1, <3>3, <4>2 DEF OpenedBeforeTicks, opening
    <3> QED
      BY <2>5, <3>2, <3>3 DEF ClockStep, Forget
  <2>6. CASE Stop
    BY <2>6 DEF Stop, Forget, OpenedBeforeTicks
  <2>7. CASE UNCHANGED vars
    BY <2>7 DEF vars, OpenedBeforeTicks
  <2> QED
    BY <2>1, <2>2, <2>3, <2>4, <2>5, <2>6, <2>7 DEF Next
<1> QED
  BY <1>1, <1>2, TypeCorrect, PTL DEF Spec

\* However late the ticks are, a window is closed by a tick fired after it was
\* opened, and with the window before it collects for a whole BatchInterval; a
\* first window is at most MaxSkew short.
THEOREM WindowsCollectCorrect == Spec => WindowsCollect
<1>1. TypeOK /\ OpenedBeforeTicks /\ [Next]_vars =>
        [ticker # None /\ ticker' = None =>
           \A c \in Channels : Due(c, ticker) => Collected(c, ticker)]_vars
  <2> SUFFICES ASSUME TypeOK, OpenedBeforeTicks, ticker # None,
                      NEW c \in Channels, Due(c, ticker)
               PROVE  Collected(c, ticker)
    OBVIOUS
  <2>1. ticker \in Int
    BY DEF TypeOK
  <2> QED
    BY <2>1, CollectedWhenDue
<1> QED
  BY <1>1, TypeCorrect, OpenedBeforeTicksInvariant, PTL DEF Spec, WindowsCollect

-----------------------------------------------------------------------------
\* No two windows are published under one Nats-Msg-Id: JetStream, which drops a
\* second message with an id it has seen, takes every window for a new one, also
\* when late ticks and a clock set back bring the ends of windows close together.
THEOREM NoDuplicateIds ==
  Spec => [](\A v, w \in windows : v # w => MsgId(v) # MsgId(w))
<1>1. TypeOK /\ WindowsInOrder => \A v, w \in windows : v # w => MsgId(v) # MsgId(w)
  <2> SUFFICES ASSUME TypeOK, WindowsInOrder, NEW v \in windows, NEW w \in windows,
                      v # w, MsgId(v) = MsgId(w)
               PROVE  FALSE
    OBVIOUS
  <2>1. v \in WindowsOf(v.chan) /\ w \in WindowsOf(v.chan) /\ v.end = w.end
    BY DEF MsgId, WindowsOf
  <2>2. v.chan \in Channels /\ v.end \in Int /\ w.end \in Int
    BY DEF TypeOK, WindowType
  <2>3. Before(v, w) \/ Before(w, v)
    BY <2>1, <2>2 DEF WindowsInOrder
  <2> QED
    BY <2>1, <2>2, <2>3, FeatureWindowsAssumption DEF Before
<1> QED
  BY <1>1, TypeCorrect, WindowsInOrderCorrect, PTL
=============================================================================
